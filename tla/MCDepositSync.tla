---------------------------- MODULE MCDepositSync ----------------------------
(***************************************************************************)
(* Instances of DepositSync for TLC. Requests are interchangeable.         *)
(***************************************************************************)
EXTENDS DepositSync, TLC

Symmetry == Permutations(Requests)

=============================================================================
