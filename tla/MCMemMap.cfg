CONSTANTS
    PageSize = 2
    LowCutoff = 4
    HighLimit = 18
    Maps <- SmallMaps
SPECIFICATION Spec
INVARIANTS FinalMapKnown RegionRight
PROPERTIES BootDecides
CHECK_DEADLOCK FALSE
