--------------------------- MODULE MCScorePipeline ---------------------------
(***************************************************************************)
(* The instance of ScorePipeline that TLC checks. There is no symmetry     *)
(* set: one agent of the two earns, and liveness is checked with safety.   *)
(***************************************************************************)
EXTENDS ScorePipeline, TLC

=============================================================================
