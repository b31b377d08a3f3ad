SPECIFICATION Spec
CONSTANTS
    r1 = r1
    r2 = r2
    i1 = i1
    i2 = i2
    RuleID <- MCRuleID
    InboundID <- MCInboundID
    x = x
    Tag = {x}
    Broken = Broken
    None = None
    TemplateIDs <- MCTemplateIDs
    LocalIDs <- MCLocalIDs
PROPERTIES
    GuardTellsOutcome
    SameProvider
    DisableIsReversible
