SPECIFICATION Spec
CONSTANTS
    ImmediateLimit = 100
    Programs <- AfterCall
INVARIANT CallLeavesCaller
CHECK_DEADLOCK FALSE
