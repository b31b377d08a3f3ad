------------------------ MODULE OutboundDependencies ------------------------
(***************************************************************************)
(* Which outbounds and balancers the active rules of one router need: the  *)
(* pure functions of internal/configuration/outbound_dependencies.go over  *)
(* what was selected,                                                      *)
(*                                                                         *)
(*   [rules, outbounds, routing, content]                                  *)
(*                                                                         *)
(* the active elements of three sections and their contents.  Both callers *)
(* (AnalyzeOutboundDependencies and the catalog) come here with it.        *)
(*                                                                         *)
(* A prefix is known by the tags that start with it, a selector by its set *)
(* of prefixes: splitting a string at its commas and the JSON paths of the *)
(* parts are left out.  A routing element whose balancers repeat a record  *)
(* literally is not represented, one that repeats only its tag is.         *)
(***************************************************************************)
EXTENDS Naturals, FiniteSets

CONSTANTS
    RuleID, OutboundID, RoutingID,   \* UUIDs of the elements of three sections
    Tag,          \* Xray tags
    NoTag,        \* the empty tag: a rule that names it names nothing
    Prefix,       \* what a selector may list
    StartsWith,   \* the tags that start with a prefix
    Broken,       \* content, or a part of it, that cannot be read
    Absent        \* a field that is not there

ASSUME EmptyTagAssumption == NoTag \in Tag
ASSUME PrefixAssumption == StartsWith \in [Prefix -> SUBSET Tag]
ASSUME MissingAssumption == Absent \notin Tag /\ Broken \notin Tag /\ Absent # Broken

\* A rule also names inbounds (InboundDependencies reads them).  An absent tag
\* of a rule is an empty one.  The balancers of a routing element that has a
\* field of this name are a list or cannot be read.
Rules     == [inbound : SUBSET Tag, direct : Tag, balancer : Tag]
Outbounds == {{}} \cup {{t} : t \in Tag}
Balancers == [tag : Tag, selector : SUBSET Prefix, fallback : Tag \cup {Absent, Broken}]
Routings  == [rules : BOOLEAN, list : BOOLEAN, balancers : SUBSET Balancers]

ASSUME BrokenAssumption ==
    /\ Broken \notin Rules /\ Broken \notin Routings
    /\ \A tags \in SUBSET Tag : Broken # tags

-----------------------------------------------------------------------------
(* readOutgoingRule: outboundTag wins over balancerTag *)

DirectRules(p) == {r \in p.rules : p.content[r].direct # NoTag}

BalancedRules(p) ==
    {r \in p.rules : p.content[r].direct = NoTag /\ p.content[r].balancer # NoTag}

-----------------------------------------------------------------------------
(* indexSelectedBalancers and indexSelectedOutbounds *)

Requested(p) == {p.content[r].balancer : r \in BalancedRules(p)}

\* The balancers some active rule requests, each with the element it is in.
Reachable(p) ==
    UNION {{<<s, b>> : b \in {c \in p.content[s].balancers : c.tag \in Requested(p)}} :
               s \in p.routing}

\* Without a request the routing elements are not even read.
IndexesBalancers(p) ==
    Requested(p) # {} =>
        /\ \A s \in p.routing : p.content[s] # Broken /\ p.content[s].list
        /\ \A x, y \in Reachable(p) : x[2].tag = y[2].tag => x = y

\* The balancer a rule chooses, if there is one.
Chosen(p, r) == {x \in Reachable(p) : x[2].tag = p.content[r].balancer}

Providers(p, tag) == {o \in p.outbounds : tag \in p.content[o]}

\* Mutant: only the tags a rule names directly have to be unique.
IndexesOutbounds_Referenced(p) ==
    /\ \A o \in p.outbounds : p.content[o] # Broken
    /\ \A r \in DirectRules(p) : \A i, j \in Providers(p, p.content[r].direct) : i = j

\* All outbounds are read; two with the same tag are ambiguous, referenced or
\* not, and the empty tag is one of them.
IndexesOutbounds(p) ==
    /\ \A o \in p.outbounds : p.content[o] # Broken
    /\ \A tag \in Tag : \A i, j \in Providers(p, tag) : i = j

-----------------------------------------------------------------------------
(* resolvePreparedOutbounds and resolveBalancer *)

Selected(p, prefix) == {o \in p.outbounds : p.content[o] \cap StartsWith[prefix] # {}}

Matches(p, b) == UNION {Selected(p, prefix) : prefix \in b.selector}

FallbackReady(p, b) == b.fallback # Absent /\ Providers(p, b.fallback) # {}

BalancerReady(p, b) ==
    /\ Matches(p, b) # {} \/ FallbackReady(p, b)
    /\ b.fallback # Absent => FallbackReady(p, b)

\* No issue: all that is read has the right form and nothing is ambiguous.
Analyzes(p) ==
    /\ \A r \in p.rules : p.content[r] # Broken
    /\ IndexesBalancers(p)
    /\ IndexesOutbounds(p)
    /\ \A x \in Reachable(p) : x[2].selector # {} /\ x[2].fallback # Broken

\* OutboundAnalysis.Ready
Ready(p) ==
    /\ \A r \in DirectRules(p) : Providers(p, p.content[r].direct) # {}
    /\ \A r \in BalancedRules(p) :
          /\ Chosen(p, r) # {}
          /\ \A x \in Chosen(p, r) : BalancerReady(p, x[2])

\* OutboundReference.  What a balancer refers to belongs to the element the
\* balancer is in, at a path below the balancer.
Reference(r, element, kind, path, providers, status) ==
    [rule |-> r, element |-> element, kind |-> kind, path |-> path,
     providers |-> providers, status |-> status]

Located(r, element, kind, path, providers) ==
    Reference(r, element, kind, path, providers, IF providers # {} THEN "resolved" ELSE "missing")

DirectReference(p, r) == Located(r, r, "direct", <<>>, Providers(p, p.content[r].direct))

BalancerReference(p, r) ==
    Reference(r, r, "balancer", <<>>, {}, IF Chosen(p, r) # {} THEN "resolved" ELSE "missing")

\* Mutant: an unmatched selector is reported like any other missing provider.
SelectorReference_Missing(p, r, s, b, prefix) ==
    Located(r, s, "selector", <<b.tag, prefix>>, Selected(p, prefix))

SelectorReference(p, r, s, b, prefix) ==
    Reference(r, s, "selector", <<b.tag, prefix>>, Selected(p, prefix),
              IF Selected(p, prefix) # {} THEN "resolved" ELSE "no_matches")

\* What the balancer b, chosen by the rule r, refers to.
NestedReferences(p, r, s, b) ==
    {SelectorReference(p, r, s, b, prefix) : prefix \in b.selector}
    \cup {Located(r, s, "fallback", <<b.tag>>, Providers(p, tag)) : tag \in {b.fallback} \ {Absent}}

\* OutboundAnalysis.References
References(p) ==
    {DirectReference(p, r) : r \in DirectRules(p)}
    \cup {BalancerReference(p, r) : r \in BalancedRules(p)}
    \cup UNION {UNION {NestedReferences(p, r, x[1], x[2]) : x \in Chosen(p, r)} : r \in BalancedRules(p)}
=============================================================================
