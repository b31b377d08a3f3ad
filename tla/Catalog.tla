------------------------------- MODULE Catalog -------------------------------
(***************************************************************************)
(* The Xray catalog of one router: AssembleXrayCatalog of                  *)
(* internal/configuration/catalog.go over a snapshot                       *)
(*                                                                         *)
(*   [supplied, rules, shared, local, excluded, disabled, content, marker] *)
(*                                                                         *)
(* supplied are the sections the caller passed (the non-nil ones), rules   *)
(* the snapshot of the rule order, shared, local and excluded the UUIDs of *)
(* the records of all the other sections, disabled the marks of rules and  *)
(* inbounds, content what is selected for an element, marker the           *)
(* _xkeenUiId in it.  A UUID belongs to one section.  Left out: the order  *)
(* of inbounds, outbounds and pools, overrides, content of sections other  *)
(* than these four (an element of them is readable or not), and an extra   *)
(* section passed twice.                                                   *)
(***************************************************************************)
EXTENDS OutboundDependencies, RuleLists

CONSTANTS
    InboundID,    \* UUIDs of inbounds
    SettingsID,   \* UUIDs of elements of the sections without a set of their own
    Extra,        \* the names of the sections beyond the known ones
    Section,      \* the section of each element of SettingsID
    Plain         \* readable content of such an element

Order == INSTANCE RuleOrder WITH ID <- RuleID, ValidID <- RuleID, Nil <- Absent
Inbound == INSTANCE InboundDependencies WITH None <- Absent

RecordID == InboundID \cup OutboundID \cup RoutingID \cup SettingsID
ID       == RuleID \cup RecordID

Required    == {"log", "api", "inbounds", "outbounds", "routing", "rules"}
Optional    == {"stats", "fakedns"} \cup Extra
Sections    == Required \cup Optional
Collections == {"inbounds", "outbounds", "rules", "fakedns"}

\* identityPositionSupported: where an element is given its UUID as a marker.
Marked == {"inbounds", "outbounds", "rules", "fakedns", "log", "dns", "routing", "policy",
           "stats", "observatory"}

Elements(g) ==
    CASE g = "rules"     -> RuleID
      [] g = "inbounds"  -> InboundID
      [] g = "outbounds" -> OutboundID
      [] g = "routing"   -> RoutingID
      [] OTHER           -> {id \in SettingsID : Section[id] = g}

ASSUME ExtraAssumption == Extra \cap (Required \cup {"stats", "fakedns"}) = {}
ASSUME SectionAssumption == Section \in [SettingsID -> Sections \ {"rules", "inbounds", "outbounds", "routing"}]
ASSUME OneSectionAssumption ==
    \A g, h \in Sections : g # h => Elements(g) \cap Elements(h) = {}
ASSUME AbsentAssumption == Absent \notin ID /\ Absent \notin Seq(RuleID)

Contents(id) ==
    {Broken} \cup (CASE id \in RuleID     -> Rules
                     [] id \in InboundID  -> Outbounds
                     [] id \in OutboundID -> Outbounds
                     [] id \in RoutingID  -> Routings
                     [] OTHER             -> {Plain})

IsSnapshot(in) ==
    /\ [in EXCEPT !.content = Absent] \in
          [supplied : SUBSET Sections, rules : Order!Snapshots,
           shared : SUBSET RecordID, local : SUBSET RecordID, excluded : SUBSET RecordID,
           disabled : SUBSET (RuleID \cup InboundID),
           content : {Absent}, marker : [ID -> ID \cup {Absent}]]
    /\ in.content = [id \in ID |-> in.content[id]]
    /\ \A id \in ID : in.content[id] \in Contents(id)

-----------------------------------------------------------------------------
(* Selection: activeCatalogIDs and prepareCatalogGroup *)

Present(in, g) ==
    IF g \notin in.supplied THEN {}
    ELSE IF g = "rules" THEN Range(in.rules.shared) \cup Range(in.rules.local)
    ELSE (in.shared \cup in.local) \cap Elements(g)

\* Mutant: a mark of an excluded rule brings it back.
EmittedRules_AllDisabled(in) ==
    Retain(Order!Full(in.rules), RuleID \ in.disabled)

\* The visible order without the disabled rules.
EmittedRules(in) == Retain(Order!Visible(in.rules), RuleID \ in.disabled)

\* The records that come with the sections that were passed.
Passed(in, ids) == ids \cap UNION {Elements(g) : g \in in.supplied}

Active(in, g) ==
    CASE g = "rules"    -> Range(EmittedRules(in))
      [] g = "inbounds" -> Present(in, g) \ (in.excluded \cup in.disabled)
      [] OTHER          -> Present(in, g) \ in.excluded

\* Mutant: an excluded element still counts as one of its section.
ValidMetadata_ExcludedCounts(in) ==
    /\ Required \subseteq in.supplied
    /\ Passed(in, in.shared \cap in.local) = {}
    /\ Passed(in, in.excluded) \subseteq in.shared
    /\ Order!Assembles(in.rules)
    /\ in.disabled \subseteq Range(Order!Full(in.rules)) \cup Present(in, "inbounds")
    /\ \A g \in Sections \ Collections : \A x, y \in Present(in, g) : x = y

\* validateCatalogMetadata and what AssembleXrayCatalog checks around it, before
\* any content is read.  A section that is one value has one element at most.
ValidMetadata(in) ==
    /\ Required \subseteq in.supplied
    /\ Passed(in, in.shared \cap in.local) = {}
    /\ Passed(in, in.excluded) \subseteq in.shared
    /\ Order!Assembles(in.rules)
    /\ in.disabled \subseteq Range(Order!Full(in.rules)) \cup Present(in, "inbounds")
    /\ \A g \in Sections \ Collections : \A x, y \in Active(in, g) : x = y

\* Everything that will be emitted can be read; the list of rules is managed
\* apart from the routing settings.
Prepares(in) ==
    /\ \A g \in Sections : \A id \in Active(in, g) : in.content[id] # Broken
    /\ \A s \in Active(in, "routing") : ~in.content[s].rules

-----------------------------------------------------------------------------
(* analyzeCatalogDependencies *)

Reading(in) ==
    [rules |-> Active(in, "rules"), outbounds |-> Active(in, "outbounds"),
     routing |-> Active(in, "routing"), content |-> in.content]

\* The part of the snapshot the analysis of inbounds is about.
InboundView(in) ==
    [shared   |-> Range(in.rules.shared) \cup (in.shared \cap InboundID),
     local    |-> Range(in.rules.local) \cup (in.local \cap InboundID),
     excluded |-> Range(in.rules.exclusions) \cup (in.excluded \cap InboundID),
     disabled |-> in.disabled,
     content  |-> [id \in RuleID \cup InboundID |->
                      IF id \in RuleID /\ in.content[id] # Broken
                      THEN in.content[id].inbound ELSE in.content[id]]]

\* DependencyFindings of the outgoing references: the rule is left out.
Findings(in) ==
    {[element |-> ref.element, kind |-> ref.kind, path |-> ref.path,
      providers |-> ref.providers, status |-> ref.status] : ref \in References(Reading(in))}

Usable(references) ==
    {ref.rule : ref \in {f \in references : f.kind \in {"selector", "fallback"} /\ f.status = "resolved"}}

\* Mutant: only missing providers block.
Blocking_MissingOnly(references) == {ref \in references : ref.status = "missing"}

\* The references that become issues: told from the list, apart from Ready.
Blocking(references) ==
    {ref \in references : \/ ref.status = "missing"
                          \/ ref.status = "no_matches" /\ ref.rule \notin Usable(references)}

BlockingInbound(in) ==
    {ref \in Inbound!References(InboundView(in)) :
        Inbound!Resolved(InboundView(in), Absent, ref) = {}}

AnalyzesCatalog(in) ==
    /\ Inbound!Analyzes(InboundView(in), Absent)
    /\ Analyzes(Reading(in))
    /\ BlockingInbound(in) = {}
    /\ Blocking(References(Reading(in))) = {}

-----------------------------------------------------------------------------
(* projectCatalogIdentities *)

\* Mutant: a marker that is there is overwritten, whosoever it is.
Projects_Overwrites(in) ==
    \A g \in Sections \cap Marked : \A id \in Active(in, g) : in.marker[id] \in ID \cup {Absent}

\* Mutant: a marker that is there is a conflict, its own UUID or not.
Projects_NoneYet(in) ==
    \A g \in Sections \cap Marked : \A id \in Active(in, g) : in.marker[id] = Absent

\* ProjectElementIdentity: a marker that is there already has to be the UUID.
Projects(in) ==
    \A g \in Sections \cap Marked : \A id \in Active(in, g) : in.marker[id] \in {Absent, id}

\* What an element becomes in the catalog.
Value(in, g, id) ==
    [content |-> in.content[id], marker |-> IF g \in Marked THEN id ELSE in.marker[id]]

-----------------------------------------------------------------------------
(* AssembleXrayCatalog *)

Assembles(in) ==
    /\ ValidMetadata(in)
    /\ Prepares(in)
    /\ AnalyzesCatalog(in)
    /\ Projects(in)

\* The sections in the files.  api is left out when it has no element, an
\* optional one when all its elements are hidden; passed without any element
\* (optionalCatalogValue) it is there and empty.
Keys(in) ==
    (Required \ {"api"}) \cup {g \in {"api"} : Active(in, g) # {}}
        \cup {g \in Optional \cap in.supplied :
                 Active(in, g) # {} \/ Present(in, g) = {} \/ g \in Collections}

\* The files: rules in order, of every other section the values in it, none
\* where the file has an empty object or an empty array.
Catalog(in) ==
    [g \in Keys(in) |->
        IF g = "rules"
        THEN [k \in DOMAIN EmittedRules(in) |-> Value(in, g, EmittedRules(in)[k])]
        ELSE {Value(in, g, id) : id \in Active(in, g)}]
=============================================================================
