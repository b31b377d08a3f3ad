SPECIFICATION Spec
CONSTANTS
    r1 = r1
    r2 = r2
    i1 = i1
    o1 = o1
    o2 = o2
    s1 = s1
    x = x
    a = a
    b = b
    c = c
    nothing = nothing
    p = p
    q = q
    RuleID <- MCRuleID
    InboundID <- MCInboundID
    OutboundID <- MCOutboundID
    RoutingID <- MCRoutingID
    SettingsID = {}
    Extra = {}
    Section <- MCSection
    Plain = Plain
    Tag <- MCTag
    NoTag <- nothing
    Prefix <- MCPrefix
    StartsWith <- MCStartsWith
    Broken = Broken
    Absent = Absent
    ContentChoices <- MCChoices
    Markers <- MCMarkers
    TemplateRules <- MCTemplateRules
    LocalRules = {r2}
    LocalRecords = {o2}
    TemplateRecords = {o1}
    Suppliable = {}
INVARIANTS
    BlockedIffNotReady
    CatalogIsClosed
PROPERTIES
    HidingRuleOnlyDropsIt
    GuardedChangeKeepsCatalog
    FindingsForetellRemoval
