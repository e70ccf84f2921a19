-------------------------------- MODULE Minima --------------------------------
(***************************************************************************)
(* Least and greatest numbers, for the proofs: which descriptor open()     *)
(* returns, which is the first argument of select(), and inductions that   *)
(* go by a smallest counterexample.                                        *)
(***************************************************************************)
EXTENDS Integers, FiniteSets, FiniteSetTheorems, WellFoundedInduction, TLAPS

(* Every nonempty set of natural numbers has a least element.              *)
LEMMA Least ==
  ASSUME NEW S \in SUBSET Nat, S # {}
  PROVE  \E m \in S : \A n \in S : m <= n
<1> DEFINE Less == {p \in Nat \X Nat : p[1] < p[2]}
<1>1. IsWellFoundedOn(Less, Nat)
  BY NatLessThanWellFounded DEF OpToRel
<1>2. PICK m \in S : \A n \in S : <<n, m>> \notin Less
  <2> HIDE DEF Less
  <2> QED BY <1>1, WFMin, Zenon
<1>3. ASSUME NEW n \in S PROVE m <= n
  <2>1. n \in Nat /\ m \in Nat /\ ~(n < m)
    BY <1>2
  <2> QED BY <2>1
<1> QED BY <1>3

(* Of finitely many things, one has the greatest number.                   *)
LEMMA Greatest ==
  ASSUME NEW D, NEW f \in [D -> Nat], NEW S \in SUBSET D, IsFiniteSet(S), S # {}
  PROVE  \E i \in S : \A j \in S : f[j] <= f[i]
<1> DEFINE HasGreatest(T) == \E i \in T : \A j \in T : f[j] <= f[i]
           Bad(n) == \E T \in SUBSET D : /\ IsFiniteSet(T) /\ Cardinality(T) = n
                                         /\ T # {} /\ ~HasGreatest(T)
           Sizes == {n \in Nat : Bad(n)}
<1>1. SUFFICES ASSUME ~HasGreatest(S) PROVE FALSE
  OBVIOUS
<1>2. Cardinality(S) \in Sizes
  BY <1>1, FS_CardinalityType
<1>3. PICK n \in Sizes : \A m \in Sizes : n <= m
  <2> HIDE DEF Sizes
  <2>1. Sizes \in SUBSET Nat
    BY DEF Sizes
  <2> QED BY <1>2, <2>1, Least
<1>4. PICK T \in SUBSET D : /\ IsFiniteSet(T) /\ Cardinality(T) = n
                            /\ T # {} /\ ~HasGreatest(T)
  BY <1>3
<1>5. PICK x \in T : TRUE
  BY <1>4
<1>6. IsFiniteSet(T \ {x}) /\ Cardinality(T \ {x}) = n - 1 /\ n \in Nat
  BY <1>3, <1>4, <1>5, FS_RemoveElement
<1>7. n - 1 \in Nat
  BY <1>6, FS_CardinalityType
<1>8. T \ {x} = {} \/ HasGreatest(T \ {x})
  <2>1. n - 1 \notin Sizes
    BY <1>3, <1>7
  <2> QED BY <1>6, <1>7, <2>1
<1>9. CASE T \ {x} = {}
  <2>1. \A j \in T : j = x /\ f[j] \in Nat
    BY <1>9
  <2> QED BY <1>4, <1>5, <2>1
<1>10. CASE HasGreatest(T \ {x})
  <2>1. PICK y \in T \ {x} : \A j \in T \ {x} : f[j] <= f[y]
    BY <1>10
  <2>2. \A j \in T : f[j] \in Nat
    OBVIOUS
  <2>3. CASE f[x] <= f[y]
    BY <1>4, <2>1, <2>3
  <2>4. CASE f[y] < f[x]
    <3>1. \A j \in T : f[j] <= f[x]
      BY <1>5, <2>1, <2>2, <2>4
    <3> QED BY <1>4, <1>5, <3>1
  <2> QED BY <1>5, <2>1, <2>2, <2>3, <2>4
<1> QED BY <1>8, <1>9, <1>10
=============================================================================
