SPECIFICATION Spec
CONSTANTS
    a = a
    b = b
    c = c
    d = d
    bad = bad
    nil = nil
    ID <- MCID
    ValidID <- MCValidID
    Nil <- nil
    TemplateOffers <- MCTemplateOffers
    MaxShared = 3
    MaxLocal = 2
    MaxExclusions = 2
SYMMETRY Symmetry
INVARIANTS
    TypeOK
    OrderComplete
    AssemblesUnlessDangling
    SelectionIsVisible
PROPERTIES
    SwapsOnlyByIntent
    ResetRestoresTemplate
    PersonalUntilReset
