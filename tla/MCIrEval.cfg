SPECIFICATION Spec
CONSTANTS
    ImmediateLimit = 100
    Programs <- MCPrograms
INVARIANTS TypeOK BlocksCanBeLaidOut ValueIsMeaning FaultsNeedACall
PROPERTY EndsWithValue
CHECK_DEADLOCK FALSE
