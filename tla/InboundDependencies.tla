------------------------- MODULE InboundDependencies -------------------------
(***************************************************************************)
(* Which inbounds the routing rules of one router need: the pure functions *)
(* of internal/configuration/inbound_dependencies.go over a snapshot       *)
(*                                                                         *)
(*   [shared, local, excluded, disabled, content]                          *)
(*                                                                         *)
(* (InboundSnapshot, the sections Rules and Inbounds taken together).  An  *)
(* element is its UUID; its content is what selectSnapshotElement selects, *)
(* reduced to the tags in it: those a rule names in inboundTag, the one an *)
(* inbound carries, or Broken when no content can be selected or it has    *)
(* the wrong shape.  The order of the rules, UUID syntax, repeated records *)
(* and the locations of diagnostics are left out.                          *)
(***************************************************************************)
EXTENDS Naturals, FiniteSets

CONSTANTS
    RuleID, InboundID,   \* UUIDs of routing rules and of inbounds
    Tag,                 \* Xray tags
    Broken,              \* content that cannot be selected or read
    None                 \* no target

ASSUME KindsAssumption == RuleID \cap InboundID = {}
ASSUME BrokenAssumption == \A tags \in SUBSET Tag : Broken # tags
ASSUME TargetAssumption == None \notin InboundID

ID == RuleID \cup InboundID

RuleContents    == {Broken} \cup SUBSET Tag
InboundContents == {Broken, {}} \cup {{t} : t \in Tag}

Contents(id) == IF id \in RuleID THEN RuleContents ELSE InboundContents

Snapshots ==
    [shared : SUBSET ID, local : SUBSET ID, excluded : SUBSET ID, disabled : SUBSET ID,
     content : {c \in [ID -> RuleContents \cup InboundContents] :
                    \A id \in ID : c[id] \in Contents(id)}]

-----------------------------------------------------------------------------
(* analyzeInboundDependencies.  The target of a guarded change, if there is *)
(* one, counts as a provider even where it is disabled or excluded.         *)

\* UUIDs are unique, exclusions have a source and disabled elements exist.
ValidMetadata(in) ==
    /\ in.shared \cap in.local = {}
    /\ in.excluded \subseteq in.shared
    /\ in.disabled \subseteq in.shared \cup in.local

Hidden(in) == in.excluded \cup in.disabled

ActiveRules(in) == ((in.shared \cup in.local) \cap RuleID) \ Hidden(in)

ActiveInbounds(in, target) ==
    ((in.shared \cup in.local) \cap InboundID) \ (Hidden(in) \ {target})

\* The tags that can be read from an element.
Tags(in, id) == IF in.content[id] = Broken THEN {} ELSE in.content[id]

\* readInboundReferences of every active rule.
References(in) == {ref \in RuleID \X Tag : ref[1] \in ActiveRules(in) /\ ref[2] \in Tags(in, ref[1])}

\* indexActiveInbounds: the active inbounds that carry the tag.
Providers(in, target, tag) == {i \in ActiveInbounds(in, target) : tag \in Tags(in, i)}

\* The analysis returns no issue: all that is active can be read and no tag has
\* two active inbounds, whether or not a rule names it.
Analyzes(in, target) ==
    /\ ValidMetadata(in)
    /\ \A id \in ActiveRules(in) \cup ActiveInbounds(in, target) : in.content[id] # Broken
    /\ \A tag \in Tag : \A i, j \in Providers(in, target, tag) : i = j

\* The inbounds a reference resolves to; none if its status is "missing".
Resolved(in, target, ref) == Providers(in, target, ref[2])

\* InboundAnalysis.Ready
Ready(in, target) == \A ref \in References(in) : Resolved(in, target, ref) # {}

-----------------------------------------------------------------------------
(* GuardInboundChange *)

Actions == {"disable", "remove"}

\* Mutant: the guard asks whether the draft is ready instead of who needs the target.
CanChange_ReadyOnly(in, target) ==
    /\ Analyzes(in, target)
    /\ target \in ActiveInbounds(in, target)
    /\ Ready(in, target)

\* Mutant: off by one, a single rule does not hold its inbound.
CanChange_LastReference(in, target) ==
    /\ Analyzes(in, target)
    /\ target \in ActiveInbounds(in, target)
    /\ Cardinality({ref \in References(in) : target \in Resolved(in, target, ref)}) <= 1

\* Mutant: the tags of the other inbounds are indexed without the target.
CanChange_TargetAside(in, target) ==
    /\ Analyzes(in, None)
    /\ target \in ActiveInbounds(in, target)
    /\ \A ref \in References(in) : target \notin Resolved(in, target, ref)

\* The target exists and no reference resolves to it.
CanChange(in, target) ==
    /\ Analyzes(in, target)
    /\ target \in ActiveInbounds(in, target)
    /\ \A ref \in References(in) : target \notin Resolved(in, target, ref)

\* What the caller does to its snapshot when the guard returns a candidate: a
\* disabled inbound is marked, a removed one is excluded or its record deleted.
Apply(in, target, action) ==
    CASE action = "disable"                         -> [in EXCEPT !.disabled = @ \cup {target}]
      [] action = "remove" /\ target \in in.shared  -> [in EXCEPT !.excluded = @ \cup {target}]
      [] action = "remove" /\ target \notin in.shared ->
             [in EXCEPT !.local = @ \ {target}, !.disabled = @ \ {target}]
=============================================================================
