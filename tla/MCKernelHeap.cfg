SPECIFICATION ClientSpec
CONSTANTS
    Align = 16
    Header = 32
    PageSize = 1088
    NumPages = 3
    RequestSize = {0, 470, 520, 1056, 1100}
    FdCapacity = 6
INVARIANTS HeapSound OneHeapPage ObjectsSound
PROPERTIES RangesSpec ExecStartsClean
CHECK_DEADLOCK FALSE
