CONSTANTS
    ImmediateLimit = 64
    Top = 512
    Garbage = {1, 2}
    Programs <- MCPrograms
    Sources <- MCSources
SPECIFICATION Spec
INVARIANTS TypeOK RunsAsMeant KeepsNumbers ReturnsToCaller FrameHolds StackAligned
CHECK_DEADLOCK FALSE
