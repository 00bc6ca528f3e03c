SPECIFICATION Spec
CONSTANTS
    Programs <- AllPrograms
    ImmediateLimit = 100
INVARIANTS TypeOK JumpsInReachLand CallsLand
PROPERTY PatchesOwn
CHECK_DEADLOCK FALSE
