CONSTANTS
    NumPages = 14
    LoadBase = 2
    pulse = pulse
    echo = echo
    bad = bad
    Programs <- Registry
    NoProgram = NoProgram
    Span <- EqualSpans
    BadImages <- Malformed
    Configs <- AnyConfigs
SPECIFICATION FairSpec
INVARIANTS PagesOwned CpuStateLive SchedulerSound AmpleMemorySuffices
PROPERTIES RunnableRuns HandlerReturns ImplementsTwoTasks ValidExecSucceeds
CHECK_DEADLOCK FALSE
