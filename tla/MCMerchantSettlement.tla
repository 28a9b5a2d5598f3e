------------------------- MODULE MCMerchantSettlement -------------------------
(***************************************************************************)
(* Instances of MerchantSettlement for TLC. Everything but the reconcilers *)
(* that differ by Cron is interchangeable.                                 *)
(***************************************************************************)
EXTENDS MerchantSettlement, TLC

Symmetry == Permutations(Earnings) \cup Permutations(Merchants) \cup Permutations(Rollups)
              \cup Permutations(Calls) \cup Permutations(Reconcilers \ Cron)

=============================================================================
