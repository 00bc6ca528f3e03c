SPECIFICATION Spec
CONSTANTS
    Programs <- MCPrograms
    Generics = {"T", "S"}
    Arrays <- MCArrays
    ArrayClass <- MCArrayClass
    Count = "[N]"
    MaxDepth = 4
INVARIANT BindsTheValue
CHECK_DEADLOCK FALSE
