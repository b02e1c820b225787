SPECIFICATION UserSpec
CONSTANTS
    FdCapacity = 4
    MaxHeap = 15
    HeapSizes = {3, 4, 5, 6, 8, 11, 12, 13, 14, 15}
    TextLength = 1
    Modes <- MCModes
INVARIANTS RefsExact NodeLifetime NobodyComplains
PROPERTIES ExecSeedsStdio MarkerAppears HeartBeats TestEnds
CHECK_DEADLOCK FALSE
