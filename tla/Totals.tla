------------------------------- MODULE Totals -------------------------------
(***************************************************************************)
(* Sums of natural numbers over a finite index set, written without        *)
(* recursion: the total of f over S is the number of units <<s, i>> with   *)
(* s in S and 1 <= i <= f[s]. The form is what lets TotalsProofs reason    *)
(* about a sum with the theorems of finite-set cardinality.                *)
(***************************************************************************)
EXTENDS Integers, FiniteSets

UnitsOf(f, s) == {<<s, i>> : i \in 1 .. f[s]}

Units(f, S) == UNION {UnitsOf(f, s) : s \in S}

Total(f, S) == Cardinality(Units(f, S))

=============================================================================
