SPECIFICATION Spec
CONSTANTS
    Conns = {c1, c2}
    HeaderTimeout = 2
    ShutdownTimeout = 2
    None = None
INVARIANTS
    IdleStopExitsZero
CHECK_DEADLOCK FALSE
