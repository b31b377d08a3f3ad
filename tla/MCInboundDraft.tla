---------------------------- MODULE MCInboundDraft ----------------------------
(***************************************************************************)
(* InboundDraft with a shared and a local rule, an inbound that may be     *)
(* either (and collide) and a local one.                                   *)
(***************************************************************************)
EXTENDS InboundDraft, TLC

CONSTANTS r1, r2, i1, i2, x

MCRuleID == {r1, r2}
MCInboundID == {i1, i2}
MCTag == {x}

MCTemplateIDs == {r1, i1}
MCLocalIDs == {r2, i1, i2}

=============================================================================
