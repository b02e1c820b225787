CONSTANTS
    NumPages = 14
    LoadBase = 2
    pulse = pulse
    echo = echo
    bad = bad
    Programs <- Registry
    NoProgram = NoProgram
    Span <- EqualSpans
    BadImages <- Malformed
    Configs <- TightConfig
SPECIFICATION FairSpec
INVARIANT ImageIntact
CHECK_DEADLOCK FALSE
