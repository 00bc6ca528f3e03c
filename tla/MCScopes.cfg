SPECIFICATION Spec
CONSTANTS
    Names <- PrefixNames
    NameBucket <- OneBucket
    AnonBucket <- MCAnonBucket
    MaxScopes = 5
    MaxOpen = 3
INVARIANTS TypeOK LookupIsLexical MacroHygiene ControlTargetsOpen
PROPERTIES HoistFromBody ScopesRestored
CHECK_DEADLOCK FALSE
