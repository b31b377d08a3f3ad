SPECIFICATION Spec
CONSTANTS
    MaxFull = 4
    MaxNext = 4
    nil = nil
    ID <- MCID
    ValidID <- MCID
    Nil <- nil
    Calls <- MCCalls
INVARIANTS
    InsertInBounds
    PlacedAtTemplateIndex
    SurvivorsKeepOrder
    RefusedIffCollision
    LoopsMatchFold
CHECK_DEADLOCK FALSE
