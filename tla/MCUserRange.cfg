CONSTANTS
    Width = 5
    PageSize = 4
    Base = 8
    Top = 24
    PathSize = 6
SPECIFICATION Spec
INVARIANTS ChecksExact
PROPERTIES CheckEnds
CHECK_DEADLOCK FALSE
