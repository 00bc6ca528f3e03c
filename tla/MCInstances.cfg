SPECIFICATION Spec
CONSTANTS
    Programs <- MCPrograms
    Generics = {"T", "S"}
    Arrays <- MCArrays
    ArrayClass <- MCArrayClass
    Count = "[N]"
    MaxDepth = 4
INVARIANTS
    TypeOK
    OneInstance
    BindsAsSeen
    TakenIffLegal
CHECK_DEADLOCK FALSE
