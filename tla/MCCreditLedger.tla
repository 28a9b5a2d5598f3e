--------------------------- MODULE MCCreditLedger ---------------------------
(***************************************************************************)
(* Instances of CreditLedger for TLC. The identities are model values, so  *)
(* wallets, tickets, proofs and callers may be permuted wherever no        *)
(* liveness property is checked.                                           *)
(***************************************************************************)
EXTENDS CreditLedger, TLC

Symmetry ==
  Permutations(Wallets) \cup Permutations(Tickets) \cup Permutations(Proofs)
    \cup Permutations(Nonces) \cup Permutations(Callers)

=============================================================================
