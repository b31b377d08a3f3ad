SPECIFICATION FairSpec
CONSTANTS
    Conns = {c1, c2}
    HeaderTimeout = 2
    ShutdownTimeout = 2
    None = None
PROPERTIES
    SignalEndsProcess
    LoopFailureEndsProcess
CHECK_DEADLOCK FALSE
