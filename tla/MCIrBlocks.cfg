SPECIFICATION Spec
CONSTANTS
    MaxBlocks = 6
    MaxFunctions = 2
    MaxDepth = 3
INVARIANTS TypeOK ChainsApart WritesItsOwn NoRing
PROPERTY OwnersKept
CHECK_DEADLOCK FALSE
