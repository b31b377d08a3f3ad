------------------------ MODULE MCCatalogDependencies ------------------------
(***************************************************************************)
(* CatalogDraft with contents that depend on each other: a shared and a    *)
(* local rule, an inbound, two outbounds which one prefix matches both,    *)
(* one or neither of, and one routing element that may hold a balancer of  *)
(* every kind.  Nobody edits markers, which no analysis reads.             *)
(***************************************************************************)
EXTENDS CatalogDraft, TLC

CONSTANTS r1, r2, i1, o1, o2, s1, x, a, c, b, nothing, p, q

MCRuleID == {r1, r2}
MCInboundID == {i1}
MCOutboundID == {o1, o2}
MCRoutingID == {s1}
MCTag == {x, a, c, b, nothing}
MCPrefix == {p, q}
MCStartsWith == (p :> {a, c}) @@ (q :> {b})
MCSection == [id \in {} |-> "log"]

Rule(inbound, direct, balancer) == [inbound |-> inbound, direct |-> direct, balancer |-> balancer]
Balancer(selector, fallback) == [tag |-> b, selector |-> selector, fallback |-> fallback]
Routing(balancers) == [rules |-> FALSE, list |-> TRUE, balancers |-> balancers]

MCChoices ==
    (r1 :> {Rule({x}, nothing, nothing), Rule({}, nothing, b), Rule({}, c, b)})
    @@ (r2 :> {Rule({x}, nothing, b)})
    @@ (i1 :> {{x}})
    @@ (o1 :> {{a}, {c}})
    @@ (o2 :> {{c}})
    @@ (s1 :> {Routing({}), Routing({Balancer({p}, Absent)}), Routing({Balancer({p, q}, c)}),
               Routing({Balancer({q}, c)}), Routing({Balancer({}, Absent), Balancer({p}, Absent)}),
               Routing({Balancer({p}, Broken)})})

MCMarkers == [id \in ID |-> {}]

MCTemplateRules == {<<r1>>}
=============================================================================
