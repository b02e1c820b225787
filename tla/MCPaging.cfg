SPECIFICATION Spec
CONSTANTS
    Fan <- MCFan
    Memories <- MCMemories
    Layout = {16, 23}
    Targets = {18, 19}
    MaxSpaces = 2
    MaxCreated = 3
INVARIANTS KernelMapped UserMapExact TablesAccounted
CHECK_DEADLOCK FALSE
