------------------------------- MODULE Counting -------------------------------
(* Induction over the naturals, and how many elements a set of pairs has: what    *)
(* the proofs about sums and counters need.                                       *)
EXTENDS FiniteSetTheorems, WellFoundedInduction, TLAPS

(*******************************************************************************)
(* Numbers. Induction over the naturals as a statement about a set of them, from *)
(* the theorem that the order on the naturals is well-founded.                   *)
(*******************************************************************************)

\* The order of the naturals as a relation.
Less == {p \in Nat \X Nat : p[1] < p[2]}

\* The order of the naturals, as the library's theorem has it.
LEMMA LessIsWellFounded == IsWellFoundedOn(Less, Nat)
<1>1. OpToRel(<, Nat) = Less
  BY Zenon DEF OpToRel, Less
<1> QED
  BY <1>1, NatLessThanWellFounded, Zenon

\* A set of naturals that is not empty has a least member.
LEMMA LeastMember ==
    ASSUME NEW T \in SUBSET Nat, T # {}
    PROVE  \E n \in T : \A m \in T : n <= m
<1>1. PICK n \in T : \A m \in T : ~ (<<m, n>> \in Less)
  BY LessIsWellFounded, WFMin
<1>2. ASSUME NEW m \in T PROVE n <= m
  <2>1. ~ (<<m, n>> \in Less)
    BY <1>1
  <2>2. m \in Nat /\ n \in Nat
    OBVIOUS
  <2> QED
    BY <2>1, <2>2 DEF Less
<1> QED
  BY <1>2

\* A set of naturals that holds 0 and every successor of a member holds them all.
LEMMA Induction ==
    ASSUME NEW G \in SUBSET Nat, 0 \in G, \A n \in Nat : n \in G => n + 1 \in G
    PROVE  G = Nat
<1> SUFFICES ASSUME Nat \ G # {} PROVE FALSE
  OBVIOUS
<1>1. PICK n \in Nat \ G : \A m \in Nat \ G : n <= m
  BY LeastMember
<1>2. n - 1 \in Nat
  BY <1>1
<1>3. n - 1 \in G
  BY <1>1, <1>2
<1> QED
  BY <1>1, <1>2, <1>3

(*******************************************************************************)
(* Pairs. As many pairs lie under the numbers c[1], ..., c[n] as these add up to. *)
(*******************************************************************************)

\* f[r] is the sum of c[1], ..., c[r].
IsRunningSum(f, c, n) == f = [r \in 0 .. n |-> IF r = 0 THEN 0 ELSE f[r - 1] + c[r]]

\* The pairs <<r, p>> with r up to n and p from 1 to c[r].
PairsUnder(c, n) == {rp \in (1 .. n) \X (Nat \ {0}) : rp[2] <= c[rp[1]]}

\* The equation of a running sum has a solution, whatever is summed.
LEMMA RunningSumExists ==
    ASSUME NEW c, NEW n \in Nat
    PROVE  \E f : IsRunningSum(f, c, n)
<1> DEFINE G == {m \in Nat : \E f : IsRunningSum(f, c, m)}
<1>1. 0 \in G
  <2> DEFINE f == [r \in 0 .. 0 |-> 0]
  <2>1. f = [r \in 0 .. 0 |-> IF r = 0 THEN 0 ELSE f[r - 1] + c[r]]
    OBVIOUS
  <2>2. IsRunningSum(f, c, 0)
    BY <2>1 DEF IsRunningSum
  <2> QED
    BY <2>2
<1>2. ASSUME NEW m \in Nat, m \in G PROVE m + 1 \in G
  <2>1. PICK f : IsRunningSum(f, c, m)
    BY <1>2
  <2> DEFINE E(g, r) == IF r = 0 THEN 0 ELSE g[r - 1] + c[r]
             h == [r \in 0 .. m + 1 |-> E(f, r)]
  <2>2. f = [r \in 0 .. m |-> E(f, r)]
    BY <2>1 DEF IsRunningSum
  <2>3. ASSUME NEW r \in 0 .. m + 1 PROVE E(f, r) = E(h, r)
    <3>1. CASE r = 0
      BY <3>1
    <3>2. CASE r # 0
      <4>1. r - 1 \in 0 .. m /\ r - 1 \in 0 .. m + 1
        BY <3>2
      <4>2. f[r - 1] = E(f, r - 1)
        BY <2>2, <4>1
      <4>3. h[r - 1] = E(f, r - 1)
        BY <4>1
      <4> QED
        BY <3>2, <4>2, <4>3
    <3> QED
      BY <3>1, <3>2
  <2>4. h = [r \in 0 .. m + 1 |-> E(h, r)]
    BY <2>3
  <2> HIDE DEF h
  <2>5. IsRunningSum(h, c, m + 1)
    BY <2>4 DEF IsRunningSum
  <2> QED
    BY <2>5
<1> HIDE DEF G
<1>3. G = Nat
  <2>1. G \in SUBSET Nat
    BY DEF G
  <2> QED
    BY <1>1, <1>2, <2>1, Induction
<1> QED
  BY <1>3 DEF G

\* One more number adds that many pairs.
LEMMA PairsAdd ==
    ASSUME NEW c, NEW n \in Nat, c[n + 1] \in Nat, IsFiniteSet(PairsUnder(c, n))
    PROVE  /\ IsFiniteSet(PairsUnder(c, n + 1))
           /\ Cardinality(PairsUnder(c, n + 1)) = Cardinality(PairsUnder(c, n)) + c[n + 1]
<1> DEFINE S == PairsUnder(c, n)
           k == c[n + 1]
           T == {n + 1} \X (1 .. k)
<1>1. PairsUnder(c, n + 1) = S \union T
  <2>1. ASSUME NEW x \in PairsUnder(c, n + 1) PROVE x \in S \union T
    BY DEF PairsUnder
  <2>2. ASSUME NEW x \in S PROVE x \in PairsUnder(c, n + 1)
    BY DEF PairsUnder
  <2>3. ASSUME NEW x \in T PROVE x \in PairsUnder(c, n + 1)
    BY DEF PairsUnder
  <2> QED
    BY <2>1, <2>2, <2>3
<1>2. S \intersect T = {}
  BY DEF PairsUnder
<1>3. IsFiniteSet({n + 1}) /\ Cardinality({n + 1}) = 1
  BY FS_Singleton
<1>0. k \in Nat
  OBVIOUS
<1> HIDE DEF k
<1>4. IsFiniteSet(1 .. k) /\ Cardinality(1 .. k) = k
  <2>1. 1 \in Int /\ k \in Int /\ (IF 1 > k THEN 0 ELSE k - 1 + 1) = k
    BY <1>0
  <2> QED
    BY <2>1, FS_Interval
<1>5. IsFiniteSet(T) /\ Cardinality(T) = k
  BY <1>0, <1>3, <1>4, FS_Product
<1>6. Cardinality(S) \in Nat
  BY FS_CardinalityType
<1> HIDE DEF S, T
<1>7. /\ IsFiniteSet(S \union T)
      /\ Cardinality(S \union T) = Cardinality(S) + Cardinality(T) - Cardinality(S \intersect T)
  BY <1>5, FS_Union DEF S
<1>8. Cardinality(S \intersect T) = 0
  BY <1>2, FS_EmptySet
<1>9. Cardinality(S \union T) = Cardinality(S) + k
  BY <1>0, <1>5, <1>6, <1>7, <1>8
<1> QED
  BY <1>1, <1>7, <1>9 DEF S, k

\* The pairs under n numbers are finite, and as many as the running sum says.
LEMMA PairsSum ==
    ASSUME NEW c, NEW n \in Nat, \A r \in 1 .. n : c[r] \in Nat, NEW f, IsRunningSum(f, c, n)
    PROVE  IsFiniteSet(PairsUnder(c, n)) /\ Cardinality(PairsUnder(c, n)) = f[n]
<1> DEFINE Right(m) == IsFiniteSet(PairsUnder(c, m)) /\ Cardinality(PairsUnder(c, m)) = f[m]
           G == {m \in Nat : m <= n => Right(m)}
<1>1. f = [r \in 0 .. n |-> IF r = 0 THEN 0 ELSE f[r - 1] + c[r]]
  BY DEF IsRunningSum
<1>2. 0 \in G
  <2>1. PairsUnder(c, 0) = {}
    BY DEF PairsUnder
  <2>2. f[0] = 0
    BY <1>1
  <2> QED
    BY <2>1, <2>2, FS_EmptySet
<1>3. ASSUME NEW m \in Nat, m \in G PROVE m + 1 \in G
  <2> SUFFICES ASSUME m + 1 <= n PROVE Right(m + 1)
    OBVIOUS
  <2>1. m <= n /\ m + 1 \in 1 .. n /\ m + 1 \in 0 .. n /\ m + 1 # 0 /\ (m + 1) - 1 = m
    OBVIOUS
  <2>2. Right(m)
    BY <1>3, <2>1
  <2>3. f[m + 1] = f[m] + c[m + 1]
    BY <1>1, <2>1
  <2> QED
    BY <2>1, <2>2, <2>3, PairsAdd
<1> HIDE DEF G
<1>4. G = Nat
  <2>1. G \in SUBSET Nat
    BY DEF G
  <2> QED
    BY <1>2, <1>3, <2>1, Induction
<1>5. n \in G
  BY <1>4
<1> QED
  BY <1>5 DEF G

=============================================================================
