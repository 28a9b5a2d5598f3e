----------------------------- MODULE MCGhostVault -----------------------------
(***************************************************************************)
(* Instances of GhostVault for TLC. Merchants, operators and settlement    *)
(* ids are interchangeable.                                                *)
(***************************************************************************)
EXTENDS GhostVault, TLC

Symmetry == Permutations(Merchants) \cup Permutations(OperatorAddresses) \cup Permutations(SettlementIds)

=============================================================================
