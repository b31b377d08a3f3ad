--------------------------- MODULE MCCatalogCopies ---------------------------
(***************************************************************************)
(* CatalogCopies with a shared and a local rule, which may be active       *)
(* together, an element of the template and one of the router, which may   *)
(* not, in a further section that carries no markers and may not be there  *)
(* at all, and the routing settings.  The marker of the local rule is also *)
(* edited by hand.                                                         *)
(***************************************************************************)
EXTENDS CatalogCopies, TLC

CONSTANTS r1, r2, s1, t1, t2, nothing

MCRuleID == {r1, r2}
MCRoutingID == {s1}
MCSettingsID == {t1, t2}
MCStartsWith == [prefix \in {} |-> {}]
MCSection == [id \in MCSettingsID |-> "transport"]

MCChoices ==
    [id \in MCRuleID |-> {[inbound |-> {}, direct |-> nothing, balancer |-> nothing]}]
    @@ (s1 :> {[rules |-> FALSE, list |-> TRUE, balancers |-> {}]})
    @@ [id \in MCSettingsID |-> {Plain}]

MCMarkers == [id \in ID |-> IF id = r2 THEN {Absent, r1} ELSE {}]

MCTemplateRules == {<<r1>>}
=============================================================================
