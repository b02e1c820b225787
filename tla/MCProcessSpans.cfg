CONSTANTS
    NumPages = 14
    LoadBase = 2
    pulse = pulse
    echo = echo
    bad = bad
    Programs <- Registry
    NoProgram = NoProgram
    Span <- UnequalSpans
    BadImages <- Malformed
    Configs <- ElfConfig
SPECIFICATION FairSpec
INVARIANT NoFreePageInUse
CHECK_DEADLOCK FALSE
