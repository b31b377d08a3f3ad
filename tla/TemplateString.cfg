SPECIFICATION Spec
CONSTANTS
    a = a
    blank = blank
    Dollar = Dollar
    Open = Open
    Close = Close
    Letter = {a}
    Space = {blank}
    MaxLen = 5
    MaxPieces = 4
    Inputs <- MCInputs
    None = None
INVARIANTS
    DiscoveryAgrees
    OutcomeAsSpecified
CHECK_DEADLOCK FALSE
