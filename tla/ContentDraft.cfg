SPECIFICATION Spec
CONSTANTS
    e1 = e1
    v = v
    w = w
    plain = plain
    one = one
    both = both
    odd = odd
    str = str
    num = num
    junk = junk
    own = own
    ID = {e1}
    Var = {v, w}
    Value <- MCValue
    Text <- MCText
    Literal = {own}
    BadText = {odd}
    Refs <- MCRefs
    TypeOf <- MCTypeOf
    Blank = Blank
    EditTypes = {"string", "number"}
    Malformed = Malformed
    None = None
INVARIANTS
    ValuesRetained
    OnlyFilledValuesAssembled
    RoundTripRestores
    ReferencesDeclared
PROPERTIES
    ReplacementIsImmune
