SPECIFICATION Spec
CONSTANTS
    ChunkBytes = 64
    Requests = {0, 4, 8, 16, 24, 50}
    Alignments = {4, 16}
    MaxChunks = 3
    MaxBlocks = 4
CONSTRAINT Bound
INVARIANTS TypeOK BlocksInsideChunks BlocksDisjoint
PROPERTIES BlocksStay ImplementsAllocator
CHECK_DEADLOCK FALSE
