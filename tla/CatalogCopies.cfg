SPECIFICATION CopySpec
CONSTANTS
    r1 = r1
    r2 = r2
    s1 = s1
    t1 = t1
    t2 = t2
    nothing = nothing
    RuleID <- MCRuleID
    InboundID = {}
    OutboundID = {}
    RoutingID <- MCRoutingID
    SettingsID <- MCSettingsID
    Extra = {"transport"}
    Section <- MCSection
    Plain = Plain
    Tag = {nothing}
    NoTag = nothing
    Prefix = {}
    StartsWith <- MCStartsWith
    Broken = Broken
    Absent = Absent
    ContentChoices <- MCChoices
    Markers <- MCMarkers
    TemplateRules <- MCTemplateRules
    LocalRules = {r2}
    LocalRecords = {t2}
    TemplateRecords = {}
    Suppliable = {"transport"}
INVARIANTS
    CopiesStayOut
PROPERTIES
    ReturnChangesNothing
    LocalFillsEmptySection
