---------------------------- MODULE TotalsProofs ----------------------------
(***************************************************************************)
(* The laws of Totals!Total that the ledger proofs use: a sum is finite,   *)
(* splits over disjoint parts of the index set, depends only on the values *)
(* at the indices, and changes by the difference at the one index where    *)
(* two functions differ.                                                   *)
(***************************************************************************)
EXTENDS Totals, FiniteSetTheorems, TLAPS

\* The units of one index are as many as the value there.
LEMMA UnitsOfOne ==
  ASSUME NEW f, NEW s, f[s] \in Nat
  PROVE  /\ IsFiniteSet(UnitsOf(f, s))
         /\ Cardinality(UnitsOf(f, s)) = f[s]
<1> DEFINE g == [i \in 1 .. f[s] |-> <<s, i>>]
<1>1. /\ IsFiniteSet(1 .. f[s])
      /\ Cardinality(1 .. f[s]) = f[s]
  BY FS_Interval
<1>2. g \in Bijection(1 .. f[s], UnitsOf(f, s))
  <2>1. g \in [1 .. f[s] -> UnitsOf(f, s)]
    BY DEF UnitsOf
  <2>2. \A i, j \in 1 .. f[s] : g[i] = g[j] => i = j
    OBVIOUS
  <2>3. \A u \in UnitsOf(f, s) : \E i \in 1 .. f[s] : g[i] = u
    BY DEF UnitsOf
  <2> QED BY <2>1, <2>2, <2>3, Zenon DEF Bijection, Injection, Surjection, IsInjective
<1>3. ExistsBijection(1 .. f[s], UnitsOf(f, s))
  BY <1>2, Zenon DEF ExistsBijection
<1> QED BY <1>1, <1>3, FS_Bijection

\* The units of a finite index set are finite, so their number is a natural.
LEMMA TotalType ==
  ASSUME NEW S, IsFiniteSet(S), NEW f, \A s \in S : f[s] \in Nat
  PROVE  /\ IsFiniteSet(Units(f, S))
         /\ Total(f, S) \in Nat
<1> DEFINE R == {UnitsOf(f, s) : s \in S}
           g == [s \in S |-> UnitsOf(f, s)]
<1>1. g \in Surjection(S, R)
  BY Zenon DEF Surjection
<1>2. IsFiniteSet(R)
  BY <1>1, FS_Surjection
<1>3. \A T \in R : IsFiniteSet(T)
  BY UnitsOfOne
<1>4. IsFiniteSet(UNION R)
  <2> HIDE DEF R
  <2> QED BY <1>2, <1>3, FS_UNION
<1>5. IsFiniteSet(Units(f, S))
  BY <1>4 DEF Units
<1> QED BY <1>5, FS_CardinalityType DEF Total

\* A total over S is the total over a part of S plus the total over the rest.
LEMMA TotalSplit ==
  ASSUME NEW S, IsFiniteSet(S), NEW T \in SUBSET S,
         NEW f, \A s \in S : f[s] \in Nat
  PROVE  /\ IsFiniteSet(T)
         /\ IsFiniteSet(S \ T)
         /\ Total(f, T) \in Nat
         /\ Total(f, S \ T) \in Nat
         /\ Total(f, S) = Total(f, T) + Total(f, S \ T)
<1>1. IsFiniteSet(T) /\ IsFiniteSet(S \ T)
  BY FS_Subset
<1>2. /\ IsFiniteSet(Units(f, T)) /\ Total(f, T) \in Nat
      /\ IsFiniteSet(Units(f, S \ T)) /\ Total(f, S \ T) \in Nat
  BY <1>1, TotalType
<1>3. Units(f, S) = Units(f, T) \cup Units(f, S \ T)
  BY DEF Units
<1>4. Units(f, T) \cap Units(f, S \ T) = {}
  BY DEF Units, UnitsOf
<1>5. Cardinality(Units(f, T) \cap Units(f, S \ T)) = 0
  BY <1>4, FS_EmptySet
<1>6. Cardinality(Units(f, T) \cup Units(f, S \ T))
        = Total(f, T) + Total(f, S \ T) - Cardinality(Units(f, T) \cap Units(f, S \ T))
  BY <1>2, FS_Union, Zenon DEF Total
<1>7. Total(f, S) = Total(f, T) + Total(f, S \ T)
  BY <1>2, <1>3, <1>5, <1>6 DEF Total
<1> QED BY <1>1, <1>2, <1>7

\* The total depends only on the values of the function at the indices.
LEMMA TotalSame ==
  ASSUME NEW S, NEW f, NEW g, \A s \in S : f[s] = g[s]
  PROVE  Total(f, S) = Total(g, S)
<1>1. {UnitsOf(f, s) : s \in S} = {UnitsOf(g, s) : s \in S}
  BY DEF UnitsOf
<1> QED BY <1>1 DEF Total, Units

\* The total of a function that is zero on the index set is zero.
LEMMA TotalZero ==
  ASSUME NEW S, NEW f, \A s \in S : f[s] = 0
  PROVE  Total(f, S) = 0
<1>1. \A s \in S : UnitsOf(f, s) = {}
  BY DEF UnitsOf
<1>2. Units(f, S) = {}
  BY <1>1 DEF Units
<1> QED BY <1>2, FS_EmptySet DEF Total

\* The total over one index is the value there.
LEMMA TotalOne ==
  ASSUME NEW f, NEW x, f[x] \in Nat
  PROVE  Total(f, {x}) = f[x]
<1>1. Units(f, {x}) = UnitsOf(f, x)
  BY DEF Units
<1> QED BY <1>1, UnitsOfOne DEF Total

\* Two functions that agree but at x have totals that differ by what they
\* differ at x; and no value exceeds the total.
LEMMA TotalChange ==
  ASSUME NEW S, IsFiniteSet(S), NEW x \in S,
         NEW f, \A s \in S : f[s] \in Nat,
         NEW g, \A s \in S : g[s] \in Nat,
         \A s \in S \ {x} : f[s] = g[s]
  PROVE  /\ Total(f, S) \in Nat
         /\ Total(g, S) \in Nat
         /\ Total(g, S) = Total(f, S) - f[x] + g[x]
         /\ f[x] <= Total(f, S)
<1>1. /\ Total(f, S) = f[x] + Total(f, S \ {x})
      /\ Total(f, S \ {x}) \in Nat
  <2>1. {x} \in SUBSET S
    OBVIOUS
  <2>2. /\ Total(f, S \ {x}) \in Nat
        /\ Total(f, S) = Total(f, {x}) + Total(f, S \ {x})
    BY <2>1, TotalSplit, Zenon
  <2>3. Total(f, {x}) = f[x]
    BY TotalOne, Zenon
  <2> QED BY <2>2, <2>3
<1>2. /\ Total(g, S) = g[x] + Total(g, S \ {x})
      /\ Total(g, S \ {x}) \in Nat
  <2>1. {x} \in SUBSET S
    OBVIOUS
  <2>2. /\ Total(g, S \ {x}) \in Nat
        /\ Total(g, S) = Total(g, {x}) + Total(g, S \ {x})
    BY <2>1, TotalSplit, Zenon
  <2>3. Total(g, {x}) = g[x]
    BY TotalOne, Zenon
  <2> QED BY <2>2, <2>3
<1>3. Total(f, S \ {x}) = Total(g, S \ {x})
  BY TotalSame
<1> QED BY <1>1, <1>2, <1>3

-----------------------------------------------------------------------------
(***************************************************************************)
(* Sums of sums.                                                           *)
(***************************************************************************)

\* The total of a sum of two functions is the sum of their totals.
LEMMA TotalSum ==
  ASSUME NEW S, IsFiniteSet(S),
         NEW f, \A s \in S : f[s] \in Nat,
         NEW e, \A s \in S : e[s] \in Nat,
         NEW h, \A s \in S : h[s] = f[s] + e[s]
  PROVE  Total(h, S) = Total(f, S) + Total(e, S)
<1> DEFINE A == Units(f, S)
           E == Units(e, S)
           B == UNION {{<<s, f[s] + i>> : i \in 1 .. e[s]} : s \in S}
           F == [u \in E |-> <<u[1], f[u[1]] + u[2]>>]
<1>1. /\ IsFiniteSet(A) /\ Total(f, S) \in Nat
      /\ IsFiniteSet(E) /\ Total(e, S) \in Nat
  BY TotalType
<1>2. \A u \in E : u = <<u[1], u[2]>> /\ u[1] \in S /\ u[2] \in 1 .. e[u[1]]
  BY DEF Units, UnitsOf
<1>3. F \in Bijection(E, B)
  <2>1. \A u \in E : F[u] \in B
    BY <1>2
  <2>2. \A u, v \in E : F[u] = F[v] => u = v
    <3> TAKE u, v \in E
    <3> HAVE F[u] = F[v]
    <3>1. u[1] = v[1] /\ f[u[1]] + u[2] = f[v[1]] + v[2]
      OBVIOUS
    <3>2. u[2] = v[2]
      BY <1>2, <3>1
    <3> QED BY <1>2, <3>1, <3>2
  <2>3. \A v \in B : \E u \in E : F[u] = v
    <3> TAKE v \in B
    <3>1. PICK s \in S : \E i \in 1 .. e[s] : v = <<s, f[s] + i>>
      OBVIOUS
    <3>2. PICK i \in 1 .. e[s] : v = <<s, f[s] + i>>
      BY <3>1
    <3>3. <<s, i>> \in E
      BY DEF Units, UnitsOf
    <3> QED BY <3>2, <3>3
  <2>4. F \in [E -> B]
    BY <2>1
  <2> HIDE DEF E, B, F
  <2> QED BY <2>2, <2>3, <2>4, Zenon DEF Bijection, Injection, Surjection, IsInjective
<1>4. IsFiniteSet(B) /\ Cardinality(B) = Total(e, S)
  <2>1. ExistsBijection(E, B)
    BY <1>3, Zenon DEF ExistsBijection
  <2> HIDE DEF E, B
  <2>2. IsFiniteSet(B) /\ Cardinality(B) = Cardinality(E)
    BY <1>1, <2>1, FS_Bijection
  <2> QED BY <2>2 DEF E, Total
<1>5. Units(h, S) = A \cup B
  <2>1. ASSUME NEW s \in S
        PROVE  UnitsOf(h, s) = UnitsOf(f, s) \cup {<<s, f[s] + i>> : i \in 1 .. e[s]}
    <3>1. f[s] \in Nat /\ e[s] \in Nat /\ h[s] = f[s] + e[s]
      OBVIOUS
    <3>2. 1 .. h[s] = (1 .. f[s]) \cup {f[s] + i : i \in 1 .. e[s]}
      <4>1. \A j \in 1 .. h[s] : j \in 1 .. f[s] \/ (j - f[s] \in 1 .. e[s] /\ j = f[s] + (j - f[s]))
        BY <3>1
      <4>2. \A i \in 1 .. e[s] : f[s] + i \in 1 .. h[s]
        BY <3>1
      <4>3. \A j \in 1 .. f[s] : j \in 1 .. h[s]
        BY <3>1
      <4> QED BY <4>1, <4>2, <4>3
    <3> QED BY <3>2 DEF UnitsOf
  <2> QED BY <2>1 DEF Units
<1>6. A \cap B = {}
  <2> SUFFICES ASSUME NEW u \in A, u \in B PROVE FALSE
    OBVIOUS
  <2>1. PICK s \in S : \E i \in 1 .. f[s] : u = <<s, i>>
    BY DEF Units, UnitsOf
  <2>2. PICK r \in S : \E j \in 1 .. e[r] : u = <<r, f[r] + j>>
    OBVIOUS
  <2>3. s = r /\ f[s] \in Nat
    BY <2>1, <2>2
  <2>4. u[2] \in 1 .. f[s]
    BY <2>1
  <2>5. \E j \in 1 .. e[s] : u[2] = f[s] + j
    BY <2>2, <2>3
  <2> QED BY <2>3, <2>4, <2>5
<1> HIDE DEF A, B, E
<1>7. Cardinality(A \cap B) = 0
  BY <1>6, FS_EmptySet
<1>8. Cardinality(A \cup B) = Cardinality(A) + Cardinality(B) - Cardinality(A \cap B)
  BY <1>1, <1>4, FS_Union
<1>9. Cardinality(A) = Total(f, S)
  BY DEF A, Total
<1> QED BY <1>1, <1>4, <1>5, <1>7, <1>8, <1>9 DEF Total

\* The indices that a key sends to s.
GroupOf(I, key, s) == {i \in I : key[i] = s}

\* Summing an index set group by group gives its total.
LEMMA TotalByGroup ==
  ASSUME NEW S, IsFiniteSet(S), NEW I, IsFiniteSet(I),
         NEW g, \A i \in I : g[i] \in Nat,
         NEW key, \A i \in I : key[i] \in S,
         NEW e, \A s \in S : e[s] = Total(g, GroupOf(I, key, s))
  PROVE  Total(e, S) = Total(g, I)
<1> DEFINE G(s) == Units(g, GroupOf(I, key, s))
           b == [s \in S |-> CHOOSE c : c \in Bijection(1 .. e[s], G(s))]
           E == Units(e, S)
           U == Units(g, I)
           F == [u \in E |-> b[u[1]][u[2]]]
<1>1. \A s \in S : e[s] \in Nat /\ b[s] \in Bijection(1 .. e[s], G(s))
  <2> TAKE s \in S
  <2>1. IsFiniteSet(GroupOf(I, key, s)) /\ \A i \in GroupOf(I, key, s) : g[i] \in Nat
    BY FS_Subset DEF GroupOf
  <2>2. IsFiniteSet(G(s)) /\ e[s] \in Nat /\ Cardinality(G(s)) = e[s]
    BY <2>1, TotalType DEF Total
  <2>3. IsFiniteSet(1 .. e[s]) /\ Cardinality(1 .. e[s]) = e[s]
    BY <2>2, FS_Interval
  <2>4. ExistsBijection(1 .. e[s], G(s))
    <3> HIDE DEF G
    <3> QED BY <2>2, <2>3, FS_SameCardinalityBij
  <2>5. \E c : c \in Bijection(1 .. e[s], G(s))
    BY <2>4, Zenon DEF ExistsBijection
  <2> QED BY <2>2, <2>5
<1>2. \A u \in E : u = <<u[1], u[2]>> /\ u[1] \in S /\ u[2] \in 1 .. e[u[1]]
  BY DEF Units, UnitsOf
<1>3. \A u \in U : \E s \in S : u \in G(s)
  BY DEF Units, GroupOf
<1>4. \A s, r \in S : \A u : u \in G(s) /\ u \in G(r) => s = r
  BY DEF Units, UnitsOf, GroupOf
<1>5. \A s \in S : G(s) \subseteq U
  BY DEF Units, GroupOf
<1>6. \A s \in S : \A i \in 1 .. e[s] : <<s, i>> \in E
  BY DEF Units, UnitsOf
<1>7. \A s \in S : /\ \A i \in 1 .. e[s] : b[s][i] \in G(s)
                   /\ \A i, j \in 1 .. e[s] : b[s][i] = b[s][j] => i = j
                   /\ \A u \in G(s) : \E i \in 1 .. e[s] : b[s][i] = u
  <2> HIDE DEF b, G
  <2> QED BY <1>1, Zenon DEF Bijection, Injection, Surjection, IsInjective
<1> HIDE DEF b, G, E, U
<1>8. F \in Bijection(E, U)
  <2>1. \A u \in E : F[u] \in U
    BY <1>2, <1>5, <1>7
  <2>2. \A u, v \in E : F[u] = F[v] => u = v
    <3> TAKE u, v \in E
    <3> HAVE F[u] = F[v]
    <3>1. u[1] = v[1]
      BY <1>2, <1>4, <1>7
    <3>2. u[2] = v[2]
      BY <1>2, <1>7, <3>1
    <3> QED BY <1>2, <3>1, <3>2
  <2>3. \A v \in U : \E u \in E : F[u] = v
    <3> TAKE v \in U
    <3>1. PICK s \in S : \E i \in 1 .. e[s] : b[s][i] = v
      BY <1>3, <1>7
    <3>2. PICK i \in 1 .. e[s] : b[s][i] = v
      BY <3>1
    <3>3. <<s, i>> \in E
      BY <1>6
    <3> QED BY <3>2, <3>3
  <2>4. F \in [E -> U]
    BY <2>1
  <2> HIDE DEF F
  <2> QED BY <2>2, <2>3, <2>4, Zenon DEF Bijection, Injection, Surjection, IsInjective
<1>9. IsFiniteSet(E)
  BY <1>1, TotalType DEF E
<1>10. ExistsBijection(E, U)
  BY <1>8, Zenon DEF ExistsBijection
<1>11. Cardinality(U) = Cardinality(E)
  BY <1>9, <1>10, FS_Bijection
<1> QED BY <1>11 DEF E, U, Total

=============================================================================
