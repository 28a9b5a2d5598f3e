----------------------------- MODULE MCGhostWire -----------------------------
(***************************************************************************)
(* An instance of GhostWire for TLC.                                       *)
(***************************************************************************)
EXTENDS GhostWire, TLC

QuotedDeal == [client |-> "client", provider |-> "provider", evaluator |-> "evaluator",
               price |-> 20, terms |-> "quoted"]

=============================================================================
