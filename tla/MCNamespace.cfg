SPECIFICATION WalkSpec
CONSTANTS
    Letters = {"a", "b"}
    MaxPath = 6
    BufferSize = 3
    FlagWord = 8
    Flags = {0, 1, 2, 3, 4, 8, 9, 12, 18, 19}
    Tree <- MCTree
    Ops <- MCOps
    Executables = {"pulse", "pulse2", "echo"}
INVARIANTS WalkSound CallVerdict
CHECK_DEADLOCK FALSE
