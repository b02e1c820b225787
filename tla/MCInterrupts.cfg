SPECIFICATION Spec
CONSTANT TickCount = 3
INVARIANTS InterruptsFindKernelReady ContextsSound
PROPERTIES LatchedTickIsHandled ImplementsTwoTasks TurnsCome
CHECK_DEADLOCK FALSE
