SPECIFICATION LoaderSpec
CONSTANTS
    Word = 16
    PageBytes = 2
    HeaderSize = 2
    PhdrSize = 1
    LoadBase = 2
    LoadSize = 4
    ImageBase = 4
    StackTop = 10
    Headers <- MCHeaders
    Phdrs <- MCPhdrs
    Entries = {0, 1, 3, 4, 5, 15}
INVARIANTS LoaderInBounds ProgramIsTheFile Verdict
CHECK_DEADLOCK FALSE
