SPECIFICATION Spec
CONSTANTS
    Conns = {c1, c2}
    HeaderTimeout = 2
    ShutdownTimeout = 2
    None = None
SYMMETRY Symmetry
INVARIANTS
    NothingLeftOpen
    ExitCodeTruthful
PROPERTIES
    OwedCutOnlyAtDeadline
    KeepsContract
CHECK_DEADLOCK FALSE
