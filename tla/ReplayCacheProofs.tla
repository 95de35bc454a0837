-------------------------- MODULE ReplayCacheProofs --------------------------
(* Theorems about ReplayCache for every set of sessions and requests, every      *)
(* budget and any number of versions.                                            *)
EXTENDS ReplayCache, Counting, TLAPS

(*******************************************************************************)
(* Sums. Bytes is a fold, which adds an element it chooses to the sum of the     *)
(* rest; by induction over the number of elements, which one makes no difference.*)
(*******************************************************************************)

Pick(s) == CHOOSE x \in s : TRUE

IsSum(f, S, g) ==
    g = [s \in SUBSET S |-> IF s = {} THEN 0 ELSE f[Pick(s)].bytes + g[s \ {Pick(s)}]]

\* The definition of the fold, for these sums.
LEMMA BytesIsSum ==
    ASSUME NEW f, NEW S
    PROVE  Bytes(f, S) = (CHOOSE g : IsSum(f, S, g))[S]
BY DEF Bytes, MapThenSumSet, MapThenFoldSet, IsSum, Pick

\* The chosen element is one of them, and leaves one fewer.
LEMMA PickOne ==
    ASSUME NEW s, IsFiniteSet(s), s # {}
    PROVE  /\ Pick(s) \in s
           /\ IsFiniteSet(s \ {Pick(s)})
           /\ Cardinality(s) \in Nat \ {0}
           /\ Cardinality(s \ {Pick(s)}) = Cardinality(s) - 1
<1>1. Pick(s) \in s
  BY DEF Pick
<1>2. Cardinality(s) \in Nat /\ Cardinality(s) # 0
  BY FS_CardinalityType, FS_EmptySet
<1> QED
  BY <1>1, <1>2, FS_RemoveElement

\* There is a function of the subsets that satisfies the equation of the sum.
LEMMA SumExists ==
    ASSUME NEW f, NEW S, IsFiniteSet(S)
    PROVE  \E g : IsSum(f, S, g)
<1> DEFINE E(g, s) == IF s = {} THEN 0 ELSE f[Pick(s)].bytes + g[s \ {Pick(s)}]
           Small(n) == {s \in SUBSET S : Cardinality(s) <= n}
           Part(n, g) == g = [s \in Small(n) |-> E(g, s)]
           G == {n \in Nat : \E g : Part(n, g)}
<1>1. \A s \in SUBSET S : IsFiniteSet(s) /\ Cardinality(s) \in Nat /\ Cardinality(s) <= Cardinality(S)
  BY FS_Subset, FS_CardinalityType
<1>2. 0 \in G
  <2>1. \A s \in Small(0) : s = {}
    BY <1>1, FS_EmptySet
  <2> DEFINE g == [s \in Small(0) |-> 0]
  <2>2. \A s \in Small(0) : E(g, s) = 0
    BY <2>1
  <2>3. g = [s \in Small(0) |-> E(g, s)]
    BY <2>2
  <2> HIDE DEF g
  <2>4. Part(0, g)
    BY <2>3
  <2> QED
    BY <2>4
<1>3. ASSUME NEW n \in Nat, n \in G PROVE n + 1 \in G
  <2>1. PICK g : Part(n, g)
    BY <1>3
  <2> DEFINE h == [s \in Small(n + 1) |-> E(g, s)]
  <2>2. ASSUME NEW s \in Small(n + 1) PROVE E(g, s) = E(h, s)
    <3>1. CASE s = {}
      BY <3>1
    <3>2. CASE s # {}
      <4> DEFINE t == s \ {Pick(s)}
      <4>1. t \in SUBSET S /\ Cardinality(t) = Cardinality(s) - 1 /\ Cardinality(s) <= n + 1
        BY <1>1, <3>2, PickOne
      <4>2. Cardinality(s) \in Nat /\ Cardinality(t) \in Nat
        BY <1>1, <4>1
      <4>3. t \in Small(n) /\ t \in Small(n + 1)
        BY <4>1, <4>2
      <4>4. h[t] = E(g, t)
        BY <4>3
      <4>5. g[t] = E(g, t)
        BY <2>1, <4>3
      <4> QED
        BY <3>2, <4>4, <4>5
    <3> QED
      BY <3>1, <3>2
  <2>3. h = [s \in Small(n + 1) |-> E(h, s)]
    BY <2>2
  <2> HIDE DEF h
  <2>4. Part(n + 1, h)
    BY <2>3
  <2>5. \E k : Part(n + 1, k)
    <3> HIDE DEF Part
    <3> QED
      BY <2>4
  <2>6. n + 1 \in Nat
    OBVIOUS
  <2> HIDE DEF Part
  <2> QED
    BY <2>5, <2>6
<1>4. G = Nat
  <2> HIDE DEF G
  <2>1. G \in SUBSET Nat
    BY DEF G
  <2> QED
    BY <1>2, <1>3, <2>1, Induction
<1>5. Cardinality(S) \in G
  BY <1>1, <1>4
<1>6. PICK g : Part(Cardinality(S), g)
  BY <1>5
<1>7. Small(Cardinality(S)) = SUBSET S
  BY <1>1
<1> QED
  BY <1>6, <1>7 DEF IsSum

\* The equation has one solution, and it is that of any other function whose
\* values are the same on the set.
LEMMA SumIsUnique ==
    ASSUME NEW f, NEW e, NEW S, NEW T, T \subseteq S, IsFiniteSet(T),
           NEW a, IsSum(f, S, a), NEW b, IsSum(e, T, b),
           \A x \in T : f[x].bytes = e[x].bytes
    PROVE  a[T] = b[T]
<1> DEFINE G == {n \in Nat : \A s \in SUBSET T : Cardinality(s) <= n => a[s] = b[s]}
<1>1. \A s \in SUBSET T : IsFiniteSet(s) /\ Cardinality(s) \in Nat
  BY FS_Subset, FS_CardinalityType
<1>2. \A s \in SUBSET T : a[s] = IF s = {} THEN 0 ELSE f[Pick(s)].bytes + a[s \ {Pick(s)}]
  BY DEF IsSum
<1>3. \A s \in SUBSET T : b[s] = IF s = {} THEN 0 ELSE e[Pick(s)].bytes + b[s \ {Pick(s)}]
  BY DEF IsSum
<1>4. 0 \in G
  <2>1. \A s \in SUBSET T : Cardinality(s) <= 0 => s = {}
    BY <1>1, FS_EmptySet
  <2>2. \A s \in SUBSET T : s = {} => a[s] = b[s]
    BY <1>2, <1>3
  <2> QED
    BY <2>1, <2>2
<1>5. ASSUME NEW n \in Nat, n \in G PROVE n + 1 \in G
  <2> SUFFICES ASSUME NEW s \in SUBSET T, Cardinality(s) <= n + 1, s # {}
               PROVE  a[s] = b[s]
    BY <1>2, <1>3
  <2> DEFINE t == s \ {Pick(s)}
  <2>1. Pick(s) \in s /\ t \in SUBSET T /\ Cardinality(t) = Cardinality(s) - 1
    BY <1>1, PickOne
  <2>2. Cardinality(t) <= n
    BY <1>1, <2>1
  <2>3. a[t] = b[t]
    BY <1>5, <2>1, <2>2
  <2>4. f[Pick(s)].bytes = e[Pick(s)].bytes
    BY <2>1
  <2>5. a[s] = f[Pick(s)].bytes + a[t]
    BY <1>2
  <2>6. b[s] = e[Pick(s)].bytes + b[t]
    BY <1>3
  <2> QED
    BY <2>3, <2>4, <2>5, <2>6
<1>6. G = Nat
  <2> HIDE DEF G
  <2>1. G \in SUBSET Nat
    BY DEF G
  <2> QED
    BY <1>4, <1>5, <2>1, Induction
<1>7. Cardinality(T) \in G
  BY <1>1, <1>6
<1> QED
  BY <1>1, <1>7

\* Bytes looks at the bytes only.
LEMMA BytesCongruent ==
    ASSUME NEW f, NEW e, NEW T, IsFiniteSet(T), \A x \in T : f[x].bytes = e[x].bytes
    PROVE  Bytes(f, T) = Bytes(e, T)
<1> DEFINE a == CHOOSE g : IsSum(f, T, g)
           b == CHOOSE g : IsSum(e, T, g)
<1>1. IsSum(f, T, a) /\ IsSum(e, T, b)
  BY SumExists
<1>2. Bytes(f, T) = a[T] /\ Bytes(e, T) = b[T]
  BY BytesIsSum
<1> HIDE DEF a, b
<1> QED
  BY <1>1, <1>2, SumIsUnique

\* Nothing takes no room.
LEMMA BytesOfNone == ASSUME NEW f PROVE Bytes(f, {}) = 0
<1> DEFINE a == CHOOSE g : IsSum(f, {}, g)
<1>1. IsSum(f, {}, a)
  BY SumExists, FS_EmptySet
<1>2. Bytes(f, {}) = a[{}]
  BY BytesIsSum
<1> HIDE DEF a
<1> QED
  BY <1>1, <1>2 DEF IsSum

\* The fold, as an equation about Bytes.
LEMMA BytesPicks ==
    ASSUME NEW f, NEW T, IsFiniteSet(T), T # {}
    PROVE  Bytes(f, T) = f[Pick(T)].bytes + Bytes(f, T \ {Pick(T)})
<1> DEFINE t == T \ {Pick(T)}
           a == CHOOSE g : IsSum(f, T, g)
           b == CHOOSE g : IsSum(f, t, g)
<1>1. IsFiniteSet(t)
  BY PickOne
<1>2. IsSum(f, T, a) /\ IsSum(f, t, b)
  BY <1>1, SumExists
<1>3. Bytes(f, T) = a[T] /\ Bytes(f, t) = b[t]
  BY BytesIsSum
<1>4. a[T] = f[Pick(T)].bytes + a[t]
  <2> HIDE DEF a
  <2> QED
    BY <1>2 DEF IsSum
<1>5. a[t] = b[t]
  <2>1. t \subseteq T
    OBVIOUS
  <2> HIDE DEF a, b, t
  <2> QED
    BY <1>1, <1>2, <2>1, SumIsUnique
<1> QED
  BY <1>3, <1>4, <1>5

\* Bytes counts natural numbers.
LEMMA BytesInNat ==
    ASSUME NEW f, NEW S, IsFiniteSet(S), \A x \in S : f[x].bytes \in Nat
    PROVE  Bytes(f, S) \in Nat
<1> DEFINE G == {n \in Nat : \A s \in SUBSET S : Cardinality(s) <= n => Bytes(f, s) \in Nat}
<1>1. \A s \in SUBSET S : IsFiniteSet(s) /\ Cardinality(s) \in Nat
  BY FS_Subset, FS_CardinalityType
<1>2. 0 \in G
  BY <1>1, FS_EmptySet, BytesOfNone
<1>3. ASSUME NEW n \in Nat, n \in G PROVE n + 1 \in G
  <2> SUFFICES ASSUME NEW s \in SUBSET S, Cardinality(s) <= n + 1
               PROVE  Bytes(f, s) \in Nat
    OBVIOUS
  <2>1. CASE s = {}
    BY <2>1, BytesOfNone
  <2>2. CASE s # {}
    <3> DEFINE t == s \ {Pick(s)}
    <3>1. Pick(s) \in s /\ t \in SUBSET S /\ Cardinality(t) = Cardinality(s) - 1
      BY <1>1, <2>2, PickOne
    <3>2. Bytes(f, t) \in Nat
      BY <1>1, <1>3, <3>1
    <3>3. Bytes(f, s) = f[Pick(s)].bytes + Bytes(f, t)
      BY <1>1, <2>2, BytesPicks
    <3>4. f[Pick(s)].bytes \in Nat
      BY <3>1
    <3> QED
      BY <3>2, <3>3, <3>4
  <2> QED
    BY <2>1, <2>2
<1>4. G = Nat
  <2> HIDE DEF G
  <2>1. G \in SUBSET Nat
    BY DEF G
  <2> QED
    BY <1>2, <1>3, <2>1, Induction
<1>5. Cardinality(S) \in G
  BY <1>1, <1>4
<1> QED
  BY <1>1, <1>5

\* One more key counts what its entry takes.
LEMMA BytesAdds ==
    ASSUME NEW f, NEW U, IsFiniteSet(U), \A x \in U : f[x].bytes \in Nat, NEW k \in U
    PROVE  Bytes(f, U) = f[k].bytes + Bytes(f, U \ {k})
<1> DEFINE G == {n \in Nat : \A s \in SUBSET U : \A x \in s :
                    Cardinality(s) <= n => Bytes(f, s) = f[x].bytes + Bytes(f, s \ {x})}
<1>1. \A s \in SUBSET U : IsFiniteSet(s) /\ Cardinality(s) \in Nat
  BY FS_Subset, FS_CardinalityType
<1>2. \A s \in SUBSET U : Bytes(f, s) \in Nat
  BY <1>1, BytesInNat
<1>3. 0 \in G
  BY <1>1, FS_EmptySet
<1>4. ASSUME NEW n \in Nat, n \in G PROVE n + 1 \in G
  <2> SUFFICES ASSUME NEW s \in SUBSET U, NEW x \in s, Cardinality(s) <= n + 1
               PROVE  Bytes(f, s) = f[x].bytes + Bytes(f, s \ {x})
    OBVIOUS
  <2> DEFINE y == Pick(s)
  <2>1. y \in s /\ Cardinality(s \ {y}) = Cardinality(s) - 1 /\ Cardinality(s) \in Nat
    BY <1>1, PickOne
  <2>2. Bytes(f, s) = f[y].bytes + Bytes(f, s \ {y})
    BY <1>1, BytesPicks
  <2>3. CASE x = y
    BY <2>2, <2>3
  <2>4. CASE x # y
    <3>1. /\ s \ {y} \in SUBSET U /\ x \in s \ {y} /\ Cardinality(s \ {y}) <= n
          /\ s \ {x} \in SUBSET U /\ y \in s \ {x}
      BY <2>1, <2>4
    <3> DEFINE rest == s \ {x, y}
    <3>2. (s \ {y}) \ {x} = rest /\ (s \ {x}) \ {y} = rest /\ rest \in SUBSET U
      OBVIOUS
    <3>3. Cardinality(s \ {x}) <= n
      <4>1. Cardinality(s \ {x}) = Cardinality(s) - 1
        BY <1>1, FS_RemoveElement
      <4> QED
        BY <2>1, <4>1
    <3>4. Bytes(f, s \ {y}) = f[x].bytes + Bytes(f, (s \ {y}) \ {x})
      BY <1>4, <3>1
    <3>5. Bytes(f, s \ {x}) = f[y].bytes + Bytes(f, (s \ {x}) \ {y})
      BY <1>4, <3>1, <3>3
    <3>6. Bytes(f, rest) \in Nat /\ f[x].bytes \in Nat /\ f[y].bytes \in Nat
      BY <1>2, <2>1, <3>2
    <3> HIDE DEF rest
    <3>7. /\ Bytes(f, s \ {y}) = f[x].bytes + Bytes(f, rest)
          /\ Bytes(f, s \ {x}) = f[y].bytes + Bytes(f, rest)
      BY <3>2, <3>4, <3>5
    <3> HIDE DEF y
    <3> QED
      BY <2>2, <3>6, <3>7
  <2> QED
    BY <2>3, <2>4
<1>5. G = Nat
  <2> HIDE DEF G
  <2>1. G \in SUBSET Nat
    BY DEF G
  <2> QED
    BY <1>3, <1>4, <2>1, Induction
<1>6. Cardinality(U) \in G
  BY <1>1, <1>5
<1> QED
  BY <1>1, <1>6

\* What some of the keys take is what is missing from the sum without them.
LEMMA BytesRemoves ==
    ASSUME NEW f, NEW U, IsFiniteSet(U), \A x \in U : f[x].bytes \in Nat, NEW T \in SUBSET U
    PROVE  Bytes(f, U \ T) = Bytes(f, U) - Bytes(f, T)
<1> DEFINE G == {n \in Nat : \A s \in SUBSET U :
                    Cardinality(s) <= n => Bytes(f, U \ s) = Bytes(f, U) - Bytes(f, s)}
<1>1. \A s \in SUBSET U : IsFiniteSet(s) /\ Cardinality(s) \in Nat
  BY FS_Subset, FS_CardinalityType
<1>2. \A s \in SUBSET U : Bytes(f, s) \in Nat
  BY <1>1, BytesInNat
<1>3. 0 \in G
  <2>1. \A s \in SUBSET U : Cardinality(s) <= 0 => s = {}
    BY <1>1, FS_EmptySet
  <2>2. U \ {} = U
    OBVIOUS
  <2>3. Bytes(f, U) \in Nat
    BY <1>2
  <2>4. Bytes(f, U \ {}) = Bytes(f, U) - Bytes(f, {})
    BY <2>2, <2>3, BytesOfNone
  <2> QED
    BY <2>1, <2>4
<1>4. ASSUME NEW n \in Nat, n \in G PROVE n + 1 \in G
  <2> SUFFICES ASSUME NEW s \in SUBSET U, Cardinality(s) <= n + 1
               PROVE  Bytes(f, U \ s) = Bytes(f, U) - Bytes(f, s)
    OBVIOUS
  <2>1. CASE s = {}
    BY <1>3, <1>1, <2>1, FS_EmptySet
  <2>2. CASE s # {}
    <3> DEFINE y == Pick(s)
               t == s \ {y}
    <3>1. y \in s /\ t \in SUBSET U /\ Cardinality(t) = Cardinality(s) - 1 /\ Cardinality(s) \in Nat
      BY <1>1, <2>2, PickOne
    <3>2. Bytes(f, U \ t) = Bytes(f, U) - Bytes(f, t)
      BY <1>4, <3>1
    <3>3. Bytes(f, s) = f[y].bytes + Bytes(f, t)
      BY <1>1, <2>2, BytesPicks
    <3>4. U \ t \in SUBSET U /\ y \in U \ t /\ (U \ t) \ {y} = U \ s
      BY <3>1
    <3>5. Bytes(f, U \ t) = f[y].bytes + Bytes(f, U \ s)
      <4> HIDE DEF t, y
      <4>1. \A x \in U \ t : f[x].bytes \in Nat
        OBVIOUS
      <4>2. Bytes(f, U \ t) = f[y].bytes + Bytes(f, (U \ t) \ {y})
        BY <1>1, <3>4, <4>1, BytesAdds
      <4> QED
        BY <3>4, <4>2
    <3>6. /\ Bytes(f, U) \in Nat /\ Bytes(f, t) \in Nat /\ Bytes(f, U \ s) \in Nat
          /\ Bytes(f, s) \in Nat /\ f[y].bytes \in Nat
      BY <1>2, <3>1
    <3> HIDE DEF t, y
    <3> QED
      BY <3>2, <3>3, <3>5, <3>6
  <2> QED
    BY <2>1, <2>2
<1>5. G = Nat
  <2> HIDE DEF G
  <2>1. G \in SUBSET Nat
    BY DEF G
  <2> QED
    BY <1>3, <1>4, <2>1, Induction
<1>6. Cardinality(T) \in G
  BY <1>1, <1>5
<1> QED
  BY <1>1, <1>6

(*******************************************************************************)
(* One sub-cache. A step of it is sound when it leaves the books balanced and    *)
(* what stays in it as it was.                                                   *)
(*******************************************************************************)

Priced(entries) == \A e \in entries : e.bytes \in Nat

\* The books but for the budget: so they are when eviction begins.
Balanced(cache) ==
    /\ IsInjective(cache.lru)
    /\ Range(cache.lru) = DOMAIN cache.entries
    /\ cache.bytes = Bytes(cache.entries, DOMAIN cache.entries)

Sound(cache, keys, entries) == CacheShape(cache, keys, entries) /\ CacheOK(cache)

\* The elements of a sequence are finitely many members of its set.
LEMMA ElementsAreFinite ==
    ASSUME NEW K, NEW s \in Seq(K)
    PROVE  IsFiniteSet(Range(s)) /\ Range(s) \subseteq K
<1>1. IsFiniteSet(1 .. Len(s))
  BY FS_Interval
<1>2. s \in Surjection(1 .. Len(s), Range(s))
  BY DEF Surjection, Range
<1>3. IsFiniteSet(Range(s))
  BY <1>1, <1>2, FS_Surjection
<1>4. \A i \in DOMAIN s : s[i] \in K
  OBVIOUS
<1>5. Range(s) \subseteq K
  BY <1>4 DEF Range
<1> QED
  BY <1>3, <1>5

\* The list without one of its elements, wherever it stands.
LEMMA ElementLeaves ==
    ASSUME NEW K, NEW s \in Seq(K), IsInjective(s), NEW k \in Range(s)
    PROVE  LET r == RemoveAt(s, LruElem(s, k))
           IN  r \in Seq(K) /\ IsInjective(r) /\ Range(r) = Range(s) \ {k}
<1> DEFINE i == LruElem(s, k)
           r == RemoveAt(s, i)
           n == Len(s)
<1>1. \E j \in DOMAIN s : s[j] = k
  BY DEF Range
<1>2. i \in 1 .. n /\ s[i] = k
  BY <1>1 DEF LruElem
<1>3. n \in Nat
  OBVIOUS
<1> HIDE DEF i
<1> DEFINE a == SubSeq(s, 1, i - 1)
           b == SubSeq(s, i + 1, n)
<1>10. /\ a \in Seq(K) /\ Len(a) = i - 1
      /\ \A j \in 1 .. i - 1 : a[j] = s[j]
  BY <1>2
<1>11. /\ b \in Seq(K) /\ Len(b) = n - i
      /\ \A j \in 1 .. n - i : b[j] = s[i + j]
  BY <1>2
<1>12. r = a \o b
  BY DEF RemoveAt
<1> HIDE DEF a, b, r
<1>4. r \in Seq(K) /\ Len(r) = n - 1
  BY <1>2, <1>10, <1>11, <1>12
<1>5. \A j \in 1 .. n - 1 : r[j] = IF j < i THEN s[j] ELSE s[j + 1]
  <2> SUFFICES ASSUME NEW j \in 1 .. n - 1
               PROVE  r[j] = IF j < i THEN s[j] ELSE s[j + 1]
    OBVIOUS
  <2>1. CASE j < i
    BY <1>2, <1>10, <1>11, <1>12, <2>1
  <2>2. CASE ~(j < i)
    <3>1. j - (i - 1) \in 1 .. n - i /\ i + (j - (i - 1)) = j + 1
      BY <1>2, <1>3, <2>2
    <3>2. r[j] = b[j - (i - 1)]
      BY <1>2, <1>3, <1>10, <1>11, <1>12, <2>2
    <3> QED
      BY <1>11, <2>2, <3>1, <3>2
  <2> QED
    BY <2>1, <2>2
<1>6. \A j \in 1 .. n : s[j] = k => j = i
  BY <1>2 DEF IsInjective
<1> HIDE DEF r
<1>7. DOMAIN r = 1 .. n - 1 /\ DOMAIN s = 1 .. n
  BY <1>4
<1>8. IsInjective(r)
  <2> SUFFICES ASSUME NEW v \in 1 .. n - 1, NEW w \in 1 .. n - 1, r[v] = r[w]
               PROVE  v = w
    BY <1>7 DEF IsInjective
  <2> DEFINE at(j) == IF j < i THEN j ELSE j + 1
  <2>1. r[v] = s[at(v)] /\ r[w] = s[at(w)]
    BY <1>5
  <2>2. at(v) \in 1 .. n /\ at(w) \in 1 .. n
    BY <1>2, <1>3
  <2>3. at(v) = at(w)
    BY <1>7, <2>1, <2>2 DEF IsInjective
  <2> QED
    BY <1>2, <1>3, <2>3
<1>9. Range(r) = Range(s) \ {k}
  <2>1. ASSUME NEW x \in Range(r) PROVE x \in Range(s) \ {k}
    <3>1. PICK j \in 1 .. n - 1 : x = r[j]
      BY <1>7, <2>1 DEF Range
    <3>2. x = s[IF j < i THEN j ELSE j + 1] /\ (IF j < i THEN j ELSE j + 1) \in 1 .. n
      BY <1>2, <1>3, <1>5, <3>1
    <3>3. x # k
      BY <1>2, <1>3, <1>6, <3>2
    <3> QED
      BY <1>7, <3>2, <3>3 DEF Range
  <2>2. ASSUME NEW x \in Range(s) \ {k} PROVE x \in Range(r)
    <3>1. PICK j \in 1 .. n : x = s[j]
      BY <1>7, <2>2 DEF Range
    <3>2. j # i
      BY <1>2, <2>2, <3>1
    <3>3. CASE j < i
      <4>1. j \in 1 .. n - 1 /\ r[j] = x
        BY <1>2, <1>3, <1>5, <3>1, <3>3
      <4> QED
        BY <1>7, <4>1 DEF Range
    <3>4. CASE j > i
      <4>1. j - 1 \in 1 .. n - 1 /\ ~(j - 1 < i) /\ (j - 1) + 1 = j
        BY <1>2, <1>3, <3>1, <3>4
      <4>2. r[j - 1] = x
        BY <1>5, <3>1, <4>1
      <4> QED
        BY <1>7, <4>1, <4>2 DEF Range
    <3> QED
      BY <1>2, <3>2, <3>3, <3>4
  <2> QED
    BY <2>1, <2>2
<1> QED
  BY <1>4, <1>8, <1>9 DEF i, r

\* A key that is not in the list comes to its front.
LEMMA ElementJoins ==
    ASSUME NEW K, NEW s \in Seq(K), IsInjective(s), NEW k \in K, k \notin Range(s)
    PROVE  LET r == <<k>> \o s
           IN  r \in Seq(K) /\ IsInjective(r) /\ Range(r) = Range(s) \cup {k}
<1> DEFINE r == <<k>> \o s
           n == Len(s)
<1>1. r \in Seq(K) /\ Len(r) = n + 1 /\ n \in Nat
  OBVIOUS
<1>2. r[1] = k /\ \A j \in 2 .. n + 1 : r[j] = s[j - 1]
  OBVIOUS
<1> HIDE DEF r
<1>3. DOMAIN r = 1 .. n + 1 /\ DOMAIN s = 1 .. n
  BY <1>1
<1>4. \A j \in 1 .. n : s[j] # k
  BY <1>3 DEF Range
<1>5. IsInjective(r)
  <2> SUFFICES ASSUME NEW a \in 1 .. n + 1, NEW b \in 1 .. n + 1, r[a] = r[b]
               PROVE  a = b
    BY <1>3 DEF IsInjective
  <2>1. CASE a = 1 \/ b = 1
    BY <1>1, <1>2, <1>4, <2>1
  <2>2. CASE a # 1 /\ b # 1
    <3>1. a - 1 \in 1 .. n /\ b - 1 \in 1 .. n /\ s[a - 1] = s[b - 1]
      BY <1>1, <1>2, <2>2
    <3> QED
      BY <1>3, <3>1 DEF IsInjective
  <2> QED
    BY <2>1, <2>2
<1>6. Range(r) = Range(s) \cup {k}
  <2>1. ASSUME NEW x \in Range(r) PROVE x \in Range(s) \cup {k}
    <3>1. PICK j \in 1 .. n + 1 : x = r[j]
      BY <1>3, <2>1 DEF Range
    <3>2. j = 1 \/ (j - 1 \in 1 .. n /\ x = s[j - 1])
      BY <1>1, <1>2, <3>1
    <3> QED
      BY <1>2, <1>3, <3>1, <3>2 DEF Range
  <2>2. k \in Range(r)
    BY <1>1, <1>2, <1>3 DEF Range
  <2>3. ASSUME NEW x \in Range(s) PROVE x \in Range(r)
    <3>1. PICK j \in 1 .. n : x = s[j]
      BY <1>3, <2>3 DEF Range
    <3>2. j + 1 \in 1 .. n + 1 /\ r[j + 1] = x
      BY <1>1, <1>2, <3>1
    <3> QED
      BY <1>3, <3>2 DEF Range
  <2> QED
    BY <2>1, <2>2, <2>3
<1> QED
  BY <1>1, <1>5, <1>6 DEF r

\* The list without its last n elements.
LEMMA BackLeaves ==
    ASSUME NEW K, NEW s \in Seq(K), IsInjective(s), NEW n \in 0 .. Len(s)
    PROVE  LET r == SubSeq(s, 1, Len(s) - n)
               back == Range(SubSeq(s, Len(s) - n + 1, Len(s)))
           IN  /\ r \in Seq(K) /\ IsInjective(r)
               /\ back \subseteq Range(s) /\ Range(r) = Range(s) \ back
<1> DEFINE m == Len(s) - n
           r == SubSeq(s, 1, m)
           b == SubSeq(s, m + 1, Len(s))
<1>1. Len(s) \in Nat /\ m \in 0 .. Len(s) /\ DOMAIN s = 1 .. Len(s)
  OBVIOUS
<1>2. r \in Seq(K) /\ DOMAIN r = 1 .. m /\ \A j \in 1 .. m : r[j] = s[j]
  OBVIOUS
<1>3. DOMAIN b = 1 .. n /\ \A j \in 1 .. n : b[j] = s[m + j]
  OBVIOUS
<1> HIDE DEF r, b
<1>4. IsInjective(r)
  BY <1>1, <1>2 DEF IsInjective
<1>5. Range(b) = {s[j] : j \in m + 1 .. Len(s)}
  <2>1. ASSUME NEW j \in m + 1 .. Len(s) PROVE s[j] \in Range(b)
    <3>1. j - m \in 1 .. n /\ m + (j - m) = j
      BY <1>1
    <3> QED
      BY <1>3, <3>1 DEF Range
  <2>2. ASSUME NEW x \in Range(b) PROVE \E j \in m + 1 .. Len(s) : x = s[j]
    <3>1. PICK j \in 1 .. n : x = b[j]
      BY <1>3, <2>2 DEF Range
    <3>2. m + j \in m + 1 .. Len(s) /\ x = s[m + j]
      BY <1>1, <1>3, <3>1
    <3> QED
      BY <3>2
  <2> QED
    BY <2>1, <2>2
<1>6. Range(r) = {s[j] : j \in 1 .. m}
  BY <1>2 DEF Range
<1>7. Range(s) = {s[j] : j \in 1 .. Len(s)}
  BY <1>1 DEF Range
<1>8. \A x \in 1 .. m, y \in m + 1 .. Len(s) : s[x] # s[y]
  BY <1>1 DEF IsInjective
<1>9. \A j \in 1 .. Len(s) : j \in 1 .. m \/ j \in m + 1 .. Len(s)
  BY <1>1
<1>10. 1 .. m \subseteq 1 .. Len(s) /\ m + 1 .. Len(s) \subseteq 1 .. Len(s)
  BY <1>1
<1>11. Range(b) \subseteq Range(s)
  BY <1>5, <1>7, <1>10
<1>12. Range(r) = Range(s) \ Range(b)
  BY <1>5, <1>6, <1>7, <1>8, <1>9, <1>10
<1> QED
  BY <1>2, <1>4, <1>11, <1>12 DEF r, b

\* An empty cache is sound.
LEMMA EmptyIsSound == ASSUME NEW K, NEW Es PROVE Sound(EmptyCache, K, Es)
<1>1. DOMAIN <<>> = {} /\ <<>> \in Seq(K) /\ <<>> \in [{} -> Es]
  OBVIOUS
<1>2. CacheShape(EmptyCache, K, Es)
  BY <1>1 DEF EmptyCache, CacheShape
<1>3. IsInjective(<<>>) /\ Range(<<>>) = {}
  BY <1>1 DEF IsInjective, Range
<1>4. MaxBytes \in Nat
  BY BudgetAssumption
<1>5. CacheOK(EmptyCache)
  BY <1>1, <1>3, <1>4, BytesOfNone DEF EmptyCache, CacheOK
<1> QED
  BY <1>2, <1>5 DEF Sound

\* The keys of a cache with balanced books are finitely many, and have a size.
LEMMA KeysAreFinite ==
    ASSUME NEW K, NEW Es, Priced(Es), NEW c, CacheShape(c, K, Es), Balanced(c)
    PROVE  /\ IsFiniteSet(DOMAIN c.entries)
           /\ \A x \in DOMAIN c.entries : c.entries[x] \in Es /\ c.entries[x].bytes \in Nat
<1>1. c.lru \in Seq(K) /\ Range(c.lru) = DOMAIN c.entries
  BY DEF CacheShape, Balanced
<1>2. c.entries \in [DOMAIN c.entries -> Es]
  BY DEF CacheShape
<1> QED
  BY <1>1, <1>2, ElementsAreFinite DEF Priced

\* Sound is balanced and within the budget.
LEMMA SoundIsBalanced ==
    ASSUME NEW K, NEW Es, NEW c
    PROVE  Sound(c, K, Es) <=> CacheShape(c, K, Es) /\ Balanced(c) /\ c.bytes <= MaxBytes
BY DEF Sound, CacheOK, Balanced

\* MoveToFront changes the order only.
LEMMA TouchIsSound ==
    ASSUME NEW K, NEW Es, NEW c, Sound(c, K, Es), NEW k \in DOMAIN c.entries
    PROVE  Sound(Touch(c, k), K, Es) /\ Touch(c, k).entries = c.entries
<1> DEFINE r == RemoveAt(c.lru, LruElem(c.lru, k))
           d == Touch(c, k)
<1>1. /\ DOMAIN c = {"entries", "lru", "bytes"} /\ c.lru \in Seq(K) /\ IsInjective(c.lru)
      /\ Range(c.lru) = DOMAIN c.entries /\ k \in K
  BY DEF Sound, CacheShape, CacheOK
<1>2. r \in Seq(K) /\ IsInjective(r) /\ Range(r) = Range(c.lru) \ {k}
  BY <1>1, ElementLeaves
<1>3. /\ DOMAIN d = {"entries", "lru", "bytes"} /\ d.entries = c.entries /\ d.bytes = c.bytes
      /\ d.lru = <<k>> \o r
  BY <1>1 DEF Touch
<1> HIDE DEF r, d
<1>4. d.lru \in Seq(K) /\ IsInjective(d.lru) /\ Range(d.lru) = Range(r) \cup {k}
  BY <1>1, <1>2, <1>3, ElementJoins
<1>5. Range(d.lru) = DOMAIN d.entries
  BY <1>1, <1>2, <1>3, <1>4
<1>6. Sound(d, K, Es)
  BY <1>3, <1>4, <1>5 DEF Sound, CacheShape, CacheOK
<1> QED
  BY <1>3, <1>6 DEF d

\* An entry that is dropped leaves the list and the count with it.
LEMMA DropIsSound ==
    ASSUME NEW K, NEW Es, Priced(Es), NEW c, Sound(c, K, Es), NEW k
    PROVE  LET d == Drop(c, k)
           IN  /\ Sound(d, K, Es) /\ k \notin DOMAIN d.entries
               /\ DOMAIN d.entries \subseteq DOMAIN c.entries
               /\ \A x \in DOMAIN d.entries : d.entries[x] = c.entries[x]
<1> DEFINE d == Drop(c, k)
<1>1. CASE k \notin DOMAIN c.entries
  BY <1>1 DEF Drop
<1>2. CASE k \in DOMAIN c.entries
  <2> DEFINE E == DOMAIN c.entries
             r == RemoveAt(c.lru, LruElem(c.lru, k))
  <2>1. /\ c.lru \in Seq(K) /\ IsInjective(c.lru) /\ Range(c.lru) = E
        /\ E \subseteq K /\ c.entries \in [E -> Es]
        /\ c.bytes = Bytes(c.entries, E) /\ c.bytes <= MaxBytes
    BY DEF Sound, CacheShape, CacheOK
  <2>2. r \in Seq(K) /\ IsInjective(r) /\ Range(r) = E \ {k}
    BY <1>2, <2>1, ElementLeaves
  <2>3. IsFiniteSet(E) /\ IsFiniteSet(E \ {k}) /\ \A x \in E : c.entries[x].bytes \in Nat
    BY KeysAreFinite, SoundIsBalanced, FS_RemoveElement
  <2>4. Bytes(c.entries, E) = c.entries[k].bytes + Bytes(c.entries, E \ {k})
    BY <1>2, <2>3, BytesAdds
  <2>5. /\ Bytes(c.entries, E \ {k}) \in Nat /\ c.entries[k].bytes \in Nat /\ MaxBytes \in Nat
    BY <1>2, <2>3, BytesInNat, BudgetAssumption
  <2>6. /\ DOMAIN d = {"entries", "lru", "bytes"}
        /\ d.entries = [x \in E \ {k} |-> c.entries[x]]
        /\ d.lru = r /\ d.bytes = c.bytes - c.entries[k].bytes
    BY <1>2 DEF Drop, Without
  <2> HIDE DEF d, r
  <2>7. DOMAIN d.entries = E \ {k} /\ \A x \in E \ {k} : d.entries[x] = c.entries[x]
    BY <2>6
  <2>8. Bytes(d.entries, E \ {k}) = Bytes(c.entries, E \ {k})
    BY <2>3, <2>7, BytesCongruent
  <2>9. d.bytes = Bytes(d.entries, DOMAIN d.entries) /\ d.bytes \in Nat /\ d.bytes <= MaxBytes
    BY <2>1, <2>4, <2>5, <2>6, <2>7, <2>8
  <2>10. d.entries \in [E \ {k} -> Es]
    BY <2>1, <2>6
  <2>11. Sound(d, K, Es)
    BY <2>1, <2>2, <2>6, <2>7, <2>9, <2>10 DEF Sound, CacheShape, CacheOK
  <2> QED
    BY <2>7, <2>11 DEF d
<1> QED
  BY <1>1, <1>2

\* Eviction ends within the budget: with nothing left at the latest.
LEMMA EvictIsSound ==
    ASSUME NEW K, NEW Es, Priced(Es), NEW c, CacheShape(c, K, Es), Balanced(c)
    PROVE  LET d == Evict(c)
           IN  /\ Sound(d, K, Es)
               /\ DOMAIN d.entries \subseteq DOMAIN c.entries
               /\ \A x \in DOMAIN d.entries : d.entries[x] = c.entries[x]
<1> DEFINE E == DOMAIN c.entries
           L == Len(c.lru)
           fits(n) == c.bytes - Bytes(c.entries, Oldest(c, n)) <= MaxBytes
           Stops == {m \in 0 .. L : fits(m) \/ m = L}
           First(m) == (fits(m) \/ m = L) /\ \A l \in 0 .. m - 1 : ~fits(l)
           n == CHOOSE m \in 0 .. L : First(m)
<1>1. /\ c.lru \in Seq(K) /\ IsInjective(c.lru) /\ Range(c.lru) = E
      /\ E \subseteq K /\ c.entries \in [E -> Es]
      /\ c.bytes = Bytes(c.entries, E)
  BY DEF CacheShape, Balanced
<1>2. L \in Nat
  BY <1>1
<1>3. IsFiniteSet(E) /\ \A x \in E : c.entries[x].bytes \in Nat
  BY KeysAreFinite
<1>4. n \in 0 .. L /\ (fits(n) \/ n = L)
  <2> HIDE DEF fits, L
  <2>1. L \in Stops /\ Stops \in SUBSET Nat
    BY <1>2
  <2>2. PICK m \in Stops : \A l \in Stops : m <= l
    BY <2>1, LeastMember
  <2>3. m \in 0 .. L /\ (fits(m) \/ m = L)
    OBVIOUS
  <2>4. ASSUME NEW l \in 0 .. m - 1 PROVE ~fits(l)
    BY <1>2, <2>2, <2>3
  <2>5. \E x \in 0 .. L : First(x)
    BY <2>3, <2>4
  <2> QED
    BY <2>5
<1> DEFINE O == Oldest(c, n)
           r == SubSeq(c.lru, 1, L - n)
           d == Evict(c)
<1>5. /\ DOMAIN d = {"entries", "lru", "bytes"} /\ d.lru = r
      /\ d.entries = [x \in E \ O |-> c.entries[x]]
      /\ d.bytes = c.bytes - Bytes(c.entries, O)
  BY DEF Evict, Without
<1> HIDE DEF n, d
<1>6. r \in Seq(K) /\ IsInjective(r) /\ O \subseteq E /\ Range(r) = E \ O
  BY <1>1, <1>4, BackLeaves DEF Oldest
<1>7. n = L => O = E
  <2>1. n = L => r = <<>>
    BY <1>1, <1>2
  <2>2. Range(<<>>) = {}
    BY DEF Range
  <2> HIDE DEF r
  <2> QED
    BY <1>6, <2>1, <2>2
<1>8. MaxBytes \in Nat /\ Bytes(c.entries, E) \in Nat /\ Bytes(c.entries, O) \in Nat
  <2>1. IsFiniteSet(O)
    BY <1>3, <1>6, FS_Subset
  <2>2. \A x \in O : c.entries[x].bytes \in Nat
    BY <1>3, <1>6
  <2> HIDE DEF O
  <2> QED
    BY <1>3, <2>1, <2>2, BytesInNat, BudgetAssumption
<1>9. d.bytes <= MaxBytes
  <2>1. fits(n) => d.bytes <= MaxBytes
    BY <1>5
  <2>2. n = L => d.bytes <= MaxBytes
    <3> HIDE DEF O
    <3> QED
      BY <1>1, <1>5, <1>7, <1>8
  <2> QED
    BY <1>4, <2>1, <2>2
<1> HIDE DEF O, r
<1>10. DOMAIN d.entries = E \ O /\ \A x \in E \ O : d.entries[x] = c.entries[x]
  BY <1>5
<1>11. Bytes(c.entries, E \ O) = Bytes(c.entries, E) - Bytes(c.entries, O)
  BY <1>3, <1>6, BytesRemoves
<1>12. IsFiniteSet(E \ O) /\ \A x \in E \ O : c.entries[x].bytes \in Nat
  BY <1>3, FS_Subset
<1>13. Bytes(d.entries, E \ O) = Bytes(c.entries, E \ O) /\ Bytes(c.entries, E \ O) \in Nat
  BY <1>10, <1>12, BytesCongruent, BytesInNat
<1>14. d.bytes = Bytes(d.entries, DOMAIN d.entries) /\ d.bytes \in Nat
  BY <1>1, <1>5, <1>10, <1>11, <1>13
<1>15. d.entries \in [E \ O -> Es]
  BY <1>1, <1>5
<1>16. Sound(d, K, Es)
  BY <1>1, <1>5, <1>6, <1>9, <1>10, <1>14, <1>15 DEF Sound, CacheShape, CacheOK
<1> QED
  BY <1>10, <1>16 DEF d

\* A cache with the entry of one key more, or not, and with what it has kept.
Inserted(d, c, k, e) ==
    \A x \in DOMAIN d.entries :
        IF x = k THEN d.entries[x] = e
        ELSE x \in DOMAIN c.entries /\ d.entries[x] = c.entries[x]

\* A key that is not in the cache may come into it, and others may leave for it.
LEMMA InsertIsSound ==
    ASSUME NEW K, NEW Es, Priced(Es), NEW c, Sound(c, K, Es),
           NEW k \in K, k \notin DOMAIN c.entries, NEW e \in Es
    PROVE  Sound(Insert(c, k, e), K, Es) /\ Inserted(Insert(c, k, e), c, k, e)
<1> DEFINE E == DOMAIN c.entries
           f == [x \in E \cup {k} |-> IF x = k THEN e ELSE c.entries[x]]
           full == [entries |-> f, lru |-> <<k>> \o c.lru, bytes |-> c.bytes + e.bytes]
<1>1. CASE e.bytes > MaxBytes \div 2
  BY <1>1 DEF Insert, Inserted
<1>2. CASE ~(e.bytes > MaxBytes \div 2)
  <2>1. /\ c.lru \in Seq(K) /\ IsInjective(c.lru) /\ Range(c.lru) = E
        /\ E \subseteq K /\ c.entries \in [E -> Es]
        /\ c.bytes = Bytes(c.entries, E) /\ c.bytes \in Nat
    BY DEF Sound, CacheShape, CacheOK
  <2>2. /\ full.lru \in Seq(K) /\ IsInjective(full.lru) /\ Range(full.lru) = E \cup {k}
    BY <2>1, ElementJoins
  <2>3. IsFiniteSet(E) /\ \A x \in E : c.entries[x].bytes \in Nat
    BY KeysAreFinite, SoundIsBalanced
  <2>4. f \in [E \cup {k} -> Es] /\ DOMAIN f = E \cup {k} /\ f[k] = e
    BY <2>1
  <2>5. \A x \in E : f[x] = c.entries[x]
    OBVIOUS
  <2>6. e.bytes \in Nat /\ \A x \in E \cup {k} : f[x].bytes \in Nat
    BY <2>4 DEF Priced
  <2> HIDE DEF f
  <2>7. Bytes(f, E \cup {k}) = f[k].bytes + Bytes(f, (E \cup {k}) \ {k})
    <3>1. IsFiniteSet(E \cup {k})
      BY <2>3, FS_AddElement
    <3> HIDE DEF E
    <3> QED
      BY <2>6, <3>1, BytesAdds
  <2>8. Bytes(f, E) = Bytes(c.entries, E)
    BY <2>3, <2>5, BytesCongruent
  <2>9. (E \cup {k}) \ {k} = E
    OBVIOUS
  <2>10. full.bytes = Bytes(f, E \cup {k}) /\ full.bytes \in Nat
    <3> HIDE DEF E
    <3>1. Bytes(f, E \cup {k}) = e.bytes + Bytes(f, E)
      BY <2>4, <2>7, <2>9
    <3> QED
      BY <2>1, <2>6, <2>8, <3>1
  <2>11. CacheShape(full, K, Es)
    BY <2>1, <2>2, <2>4, <2>10 DEF CacheShape
  <2>12. Balanced(full)
    BY <2>2, <2>4, <2>10 DEF Balanced
  <2>13. Insert(c, k, e) = Evict(full)
    BY <1>2 DEF Insert, f
  <2>14. full.entries = f
    OBVIOUS
  <2> HIDE DEF full
  <2>15. /\ Sound(Evict(full), K, Es)
         /\ \A x \in DOMAIN Evict(full).entries : x \in E \cup {k} /\ Evict(full).entries[x] = f[x]
    BY <2>4, <2>11, <2>12, <2>14, EvictIsSound
  <2> QED
    BY <2>4, <2>5, <2>13, <2>15 DEF Inserted
<1> QED
  BY <1>1, <1>2

(*******************************************************************************)
(* The requests. The main transcript a request carries is bounded by that of the *)
(* source and by the revision it is carried under: a parse that is cached lies   *)
(* between two looks at the same revision, so its transcript is of that one.     *)
(*******************************************************************************)

Carried(src, q) ==
    q # NoRender =>
        /\ q.rev <= src[q.s].main
        /\ q.at = "store" /\ q.content # Failed =>
               q.rev <= q.content.main /\ q.content.main <= src[q.s].main
        /\ q.at \in {"render", "format", "done"} => q.content # Failed /\ q.rev <= q.content.main

CacheInv ==
    /\ CacheTypeOK
    /\ BooksBalance
    /\ CachedTranscriptCurrent
    /\ \A r \in Renders : Carried(source, render[r])

\* What both kinds of entries take is a number.
LEMMA EntriesArePriced == Priced(EventsEntries) /\ Priced(AnsiEntries)
BY DEF Priced, EventsEntries, AnsiEntries

\* Types and books together are what the operations keep.
LEMMA BothAreSound ==
    CacheTypeOK /\ BooksBalance =>
        /\ Sound(events, Sessions, EventsEntries)
        /\ Sound(ansi, Sessions \X Versions, AnsiEntries)
BY DEF CacheTypeOK, BooksBalance, Sound

\* A request that is doing something has a session, a revision and a content.
LEMMA Underway ==
    ASSUME CacheTypeOK, NEW r \in Renders, render[r].at # "idle"
    PROVE  /\ render[r] \in Lookups /\ render[r] # NoRender
           /\ render[r].s \in Sessions /\ render[r].rev \in Versions
           /\ render[r].content \in Contents \cup {Failed}
           /\ source[render[r].s] \in Contents
<1>1. render[r] \in {NoRender} \cup Lookups
  BY DEF CacheTypeOK
<1>2. render[r] # NoRender
  BY DEF NoRender
<1>3. render[r] \in Lookups
  BY <1>1, <1>2
<1>4. render[r].s \in Sessions /\ render[r].rev \in Versions
      /\ render[r].content \in Contents \cup {Failed}
  BY <1>3 DEF Lookups
<1>5. source[render[r].s] \in Contents
  BY <1>4 DEF CacheTypeOK
<1> QED
  BY <1>2, <1>3, <1>4, <1>5

\* One request moves while the sources stand still.
LEMMA OneMoves ==
    ASSUME CacheTypeOK, \A w \in Renders : Carried(source, render[w]),
           NEW r \in Renders, NEW q \in {NoRender} \cup Lookups, Carried(source, q),
           source' = source, render' = [render EXCEPT ![r] = q]
    PROVE  /\ render' \in [Renders -> {NoRender} \cup Lookups]
           /\ \A w \in Renders : Carried(source', render'[w])
<1>1. render \in [Renders -> {NoRender} \cup Lookups]
  BY DEF CacheTypeOK
<1>2. \A w \in Renders : render'[w] = IF w = r THEN q ELSE render[w]
  BY <1>1
<1> QED
  BY <1>1, <1>2

\* The first request comes to an empty cache.
LEMMA InitCache == CacheInit => CacheInv
<1> SUFFICES ASSUME CacheInit PROVE CacheInv
  OBVIOUS
<1>1. source \in [Sessions -> Contents]
  BY VersionsAssumption DEF CacheInit, Contents, Versions
<1>2. /\ Sound(events, Sessions, EventsEntries)
      /\ Sound(ansi, Sessions \X Versions, AnsiEntries)
  BY EmptyIsSound DEF CacheInit
<1>3. DOMAIN inflight = {} /\ inflight \in [{} -> Renders]
  <2>1. inflight = <<>>
    BY DEF CacheInit
  <2> QED
    BY <2>1
<1>4. render \in [Renders -> {NoRender} \cup Lookups] /\ \A r \in Renders : render[r] = NoRender
  BY DEF CacheInit
<1>5. CacheTypeOK
  BY <1>1, <1>2, <1>3, <1>4 DEF CacheTypeOK, Sound
<1>6. DOMAIN events.entries = {} /\ DOMAIN ansi.entries = {}
  <2>1. DOMAIN EmptyCache.entries = {}
    BY DEF EmptyCache
  <2> QED
    BY <2>1 DEF CacheInit
<1>7. BooksBalance /\ CachedTranscriptCurrent
  BY <1>2, <1>6 DEF BooksBalance, CachedTranscriptCurrent, Sound
<1> QED
  BY <1>4, <1>5, <1>7 DEF CacheInv, Carried

\* The transcripts only get newer, and what a revision does not tell of is bound
\* to nothing.
LEMMA SourceKeeps ==
    ASSUME CacheInv, NEW s \in Sessions, Grow(s) \/ Drift(s)
    PROVE  CacheInv'
<1>1. source \in [Sessions -> Contents] /\ UNCHANGED <<events, ansi, inflight, render>>
  BY DEF Grow, Drift, CacheInv, CacheTypeOK
<1>2. /\ source' \in [Sessions -> Contents]
      /\ \A x \in Sessions : /\ source[x].main <= source'[x].main
                            /\ source[x].main \in Int /\ source'[x].main \in Int
  <2>1. CASE Grow(s)
    <3>1. source' = [source EXCEPT ![s] = [source[s] EXCEPT !.main = source[s].main + 1]]
          /\ source[s].main < MaxVersion
      BY <2>1 DEF Grow
    <3> DEFINE c == [source[s] EXCEPT !.main = source[s].main + 1]
    <3>2. c \in Contents /\ source[s].main <= c.main
      BY <1>1, <3>1, VersionsAssumption DEF Contents, Versions
    <3> HIDE DEF c
    <3> QED
      BY <1>1, <3>1, <3>2 DEF c, Contents, Versions
  <2>2. CASE Drift(s)
    <3>1. source' = [source EXCEPT ![s] = [source[s] EXCEPT !.rest = source[s].rest + 1]]
      BY <2>2 DEF Drift
    <3> DEFINE c == [source[s] EXCEPT !.rest = source[s].rest + 1]
    <3>2. c \in Contents /\ source[s].main = c.main
      BY <1>1 DEF Contents
    <3> HIDE DEF c
    <3> QED
      BY <1>1, <3>1, <3>2 DEF c, Contents, Versions
  <2> QED
    BY <2>1, <2>2
<1>3. ASSUME NEW r \in Renders PROVE Carried(source', render[r])
  <2>1. CASE render[r] = NoRender
    BY <2>1 DEF Carried
  <2>2. CASE render[r] # NoRender
    <3>1. render[r] \in Lookups
      BY <2>2 DEF CacheInv, CacheTypeOK
    <3>2. render[r].s \in Sessions /\ render[r].rev \in Int /\ render[r].content.main \in Int
      BY <3>1 DEF Lookups, Contents, Versions, Failed
    <3>3. Carried(source, render[r])
      BY DEF CacheInv
    <3> QED
      BY <1>2, <2>2, <3>2, <3>3 DEF Carried
  <2> QED
    BY <2>1, <2>2
<1> QED
  BY <1>1, <1>2, <1>3 DEF CacheInv, CacheTypeOK, BooksBalance, CachedTranscriptCurrent

\* A step of one request that changes neither sources nor caches.
LEMMA QuietKeeps ==
    ASSUME CacheInv, UNCHANGED <<source, events, ansi>>,
           DOMAIN inflight' \subseteq Sessions, inflight' \in [DOMAIN inflight' -> Renders],
           NEW r \in Renders, NEW q \in {NoRender} \cup Lookups, Carried(source, q),
           render' = [render EXCEPT ![r] = q]
    PROVE  CacheInv'
<1>1. /\ render' \in [Renders -> {NoRender} \cup Lookups]
      /\ \A w \in Renders : Carried(source', render'[w])
  BY OneMoves DEF CacheInv
<1> QED
  BY <1>1 DEF CacheInv, CacheTypeOK, BooksBalance, CachedTranscriptCurrent

\* A request arrives with the revision of the moment.
LEMMA ArriveKeeps ==
    ASSUME CacheInv, NEW r \in Renders, NEW s \in Sessions, Arrive(r, s)
    PROVE  CacheInv'
<1> DEFINE q == [at |-> "lookup", s |-> s, rev |-> LiveRevision(s), content |-> Failed]
<1>1. source[s] \in Contents
  BY DEF CacheInv, CacheTypeOK
<1>2. q \in Lookups
  BY <1>1 DEF Lookups, LiveRevision, Contents
<1>3. Carried(source, q)
  BY <1>1 DEF Carried, LiveRevision, Contents, Versions
<1>4. /\ UNCHANGED <<source, events, ansi, inflight>>
      /\ render' = [render EXCEPT ![r] = q]
  BY DEF Arrive
<1> HIDE DEF q
<1> QED
  BY <1>2, <1>3, <1>4, QuietKeeps DEF CacheInv, CacheTypeOK

\* A request finds its events under its revision: they are of that revision.
LEMMA EventsHitKeeps ==
    ASSUME CacheInv, NEW r \in Renders, EventsHit(r)
    PROVE  CacheInv'
<1> DEFINE s == render[r].s
           v == events.entries[s].content
           q == [render[r] EXCEPT !.at = "render", !.content = v]
<1>1. /\ render[r].at = "lookup" /\ s \in DOMAIN events.entries
      /\ events.entries[s].rev = render[r].rev
      /\ events' = Touch(events, s) /\ render' = [render EXCEPT ![r] = q]
      /\ UNCHANGED <<source, ansi, inflight>>
  BY DEF EventsHit
<1>2. /\ render[r] \in Lookups /\ render[r].rev \in Versions
      /\ s \in Sessions /\ source[s] \in Contents
  BY <1>1, Underway DEF CacheInv
<1>3. v \in Contents /\ v.main = render[r].rev
  <2>1. events.entries[s] \in EventsEntries
    BY <1>1 DEF CacheInv, CacheTypeOK, CacheShape
  <2> QED
    BY <1>1, <2>1 DEF EventsEntries, CacheInv, CachedTranscriptCurrent
<1>4. q \in Lookups /\ q.at = "render" /\ q.s = s /\ q.rev = v.main /\ q.content = v
  BY <1>2, <1>3 DEF Lookups
<1> HIDE DEF q, v
<1>5. render[r].rev <= source[s].main
  BY <1>1, <1>2 DEF CacheInv, Carried, NoRender
<1>6. Carried(source, q)
  BY <1>2, <1>3, <1>4, <1>5 DEF Carried, Contents, Versions, Failed
<1>7. /\ render' \in [Renders -> {NoRender} \cup Lookups]
      /\ \A w \in Renders : Carried(source', render'[w])
  BY <1>1, <1>4, <1>6, OneMoves DEF CacheInv
<1>8. Sound(events', Sessions, EventsEntries) /\ events'.entries = events.entries
  BY <1>1, TouchIsSound, BothAreSound DEF CacheInv
<1> QED
  BY <1>1, <1>7, <1>8 DEF CacheInv, CacheTypeOK, BooksBalance, CachedTranscriptCurrent, Sound

\* The steps that touch neither cache.
LEMMA QuietStepsKeep ==
    ASSUME CacheInv, NEW r \in Renders,
           Join(r) \/ Lead(r) \/ Parse(r) \/ AnswerEvents(r) \/ AnsiMissed(r) \/ RenderAnswered(r)
    PROVE  CacheInv'
<1> DEFINE s == render[r].s
<1>1. CacheTypeOK /\ Carried(source, render[r])
  BY DEF CacheInv
<1>2. DOMAIN inflight \subseteq Sessions /\ inflight \in [DOMAIN inflight -> Renders]
  BY DEF CacheInv, CacheTypeOK
<1>3. CASE Join(r)
  <2> DEFINE q == [render[r] EXCEPT !.at = "wait"]
  <2>1. render[r].at = "lookup" /\ render' = [render EXCEPT ![r] = q]
        /\ UNCHANGED <<source, events, ansi, inflight>>
    BY <1>3 DEF Join, EventsMissed
  <2>2. /\ render[r] \in Lookups /\ render[r] # NoRender /\ render[r].rev \in Versions
        /\ render[r].content \in Contents \cup {Failed}
    BY <1>1, <2>1, Underway
  <2>3. q \in Lookups /\ q.at = "wait" /\ q.s = s /\ q.rev = render[r].rev
    BY <2>2 DEF Lookups
  <2>4. Carried(source, q)
    BY <1>1, <2>2, <2>3 DEF Carried
  <2> HIDE DEF q
  <2> QED
    BY <1>2, <2>1, <2>3, <2>4, QuietKeeps
<1>4. CASE Lead(r)
  <2> DEFINE q == [render[r] EXCEPT !.at = "parse"]
  <2>1. /\ render[r].at = "lookup" /\ render' = [render EXCEPT ![r] = q]
        /\ inflight' = [x \in DOMAIN inflight \cup {s} |-> IF x = s THEN r ELSE inflight[x]]
        /\ UNCHANGED <<source, events, ansi>>
    BY <1>4 DEF Lead, EventsMissed
  <2>2. /\ render[r] \in Lookups /\ render[r] # NoRender /\ render[r].rev \in Versions
        /\ render[r].content \in Contents \cup {Failed} /\ s \in Sessions
    BY <1>1, <2>1, Underway
  <2>3. q \in Lookups /\ q.at = "parse" /\ q.s = s /\ q.rev = render[r].rev
    BY <2>2 DEF Lookups
  <2>4. Carried(source, q)
    BY <1>1, <2>2, <2>3 DEF Carried
  <2>5. DOMAIN inflight' \subseteq Sessions /\ inflight' \in [DOMAIN inflight' -> Renders]
    BY <1>2, <2>1, <2>2
  <2> HIDE DEF q
  <2> QED
    BY <2>1, <2>3, <2>4, <2>5, QuietKeeps
<1>5. CASE Parse(r)
  <2>1. PICK v \in {source[s], Failed} :
            render' = [render EXCEPT ![r] = [render[r] EXCEPT !.at = "store", !.content = v]]
    BY <1>5 DEF Parse
  <2> DEFINE q == [render[r] EXCEPT !.at = "store", !.content = v]
  <2>2. render[r].at = "parse" /\ UNCHANGED <<source, events, ansi, inflight>>
    BY <1>5 DEF Parse
  <2>3. /\ render[r] \in Lookups /\ render[r] # NoRender /\ render[r].rev \in Versions
        /\ source[s] \in Contents
    BY <1>1, <2>2, Underway
  <2>4. q \in Lookups /\ q.at = "store" /\ q.s = s /\ q.rev = render[r].rev /\ q.content = v
    BY <2>3 DEF Lookups
  <2>5. render[r].rev <= source[s].main /\ source[s].main <= source[s].main
    BY <1>1, <2>3 DEF Carried, Contents, Versions
  <2> HIDE DEF q
  <2>6. Carried(source, q)
    BY <2>4, <2>5 DEF Carried
  <2> QED
    BY <1>2, <2>1, <2>2, <2>4, <2>6, QuietKeeps DEF q
<1>6. CASE AnswerEvents(r) \/ AnsiMissed(r)
  <2>1. PICK at \in {"done", "format"} :
            render' = [render EXCEPT ![r] = [render[r] EXCEPT !.at = at]]
    BY <1>6 DEF AnswerEvents, AnsiMissed
  <2> DEFINE q == [render[r] EXCEPT !.at = at]
  <2>2. render[r].at = "render" /\ UNCHANGED <<source, events, ansi, inflight>>
    BY <1>6 DEF AnswerEvents, AnsiMissed
  <2>3. /\ render[r] \in Lookups /\ render[r] # NoRender /\ render[r].rev \in Versions
        /\ render[r].content \in Contents \cup {Failed}
    BY <1>1, <2>2, Underway
  <2>4. /\ q \in Lookups /\ q.at = at /\ q.s = s /\ q.rev = render[r].rev
        /\ q.content = render[r].content
    BY <2>3 DEF Lookups
  <2> HIDE DEF q
  <2>5. Carried(source, q)
    BY <1>1, <2>2, <2>3, <2>4 DEF Carried
  <2> QED
    BY <1>2, <2>1, <2>2, <2>4, <2>5, QuietKeeps DEF q
<1>7. CASE RenderAnswered(r)
  <2>1. render' = [render EXCEPT ![r] = NoRender] /\ UNCHANGED <<source, events, ansi, inflight>>
    BY <1>7 DEF RenderAnswered
  <2>2. Carried(source, NoRender)
    BY DEF Carried
  <2> QED
    BY <1>2, <2>1, <2>2, QuietKeeps
<1> QED
  BY <1>3, <1>4, <1>5, <1>6, <1>7

\* A request finds the rendered text of its revision, which is at least as new.
LEMMA AnsiHitKeeps ==
    ASSUME CacheInv, NEW r \in Renders, AnsiHit(r)
    PROVE  CacheInv'
<1> DEFINE s == render[r].s
           k == <<s, render[r].rev>>
           v == ansi.entries[k].content
           q == [render[r] EXCEPT !.at = "done", !.content = v]
<1>1. /\ render[r].at = "render" /\ k \in DOMAIN ansi.entries
      /\ ansi' = Touch(ansi, k) /\ render' = [render EXCEPT ![r] = q]
      /\ UNCHANGED <<source, events, inflight>>
  BY DEF AnsiHit
<1>2. /\ render[r] \in Lookups /\ render[r] # NoRender /\ render[r].rev \in Versions
      /\ s \in Sessions /\ source[s] \in Contents
  BY <1>1, Underway DEF CacheInv
<1>3. v \in Contents
  BY <1>1 DEF CacheInv, CacheTypeOK, CacheShape, AnsiEntries
<1>4. k[2] <= v.main /\ k[2] = render[r].rev
  BY <1>1, <1>2, <1>3 DEF CacheInv, CachedTranscriptCurrent, Contents, Versions
<1>5. /\ q \in Lookups /\ q.at = "done" /\ q.s = s
      /\ q.rev = render[r].rev /\ q.content = v
  BY <1>2, <1>3 DEF Lookups
<1> HIDE DEF q, v, k
<1>6. render[r].rev <= source[s].main
  BY <1>2 DEF CacheInv, Carried
<1>7. Carried(source, q)
  BY <1>3, <1>4, <1>5, <1>6 DEF Carried, Contents, Versions, Failed
<1>8. /\ render' \in [Renders -> {NoRender} \cup Lookups]
      /\ \A w \in Renders : Carried(source', render'[w])
  BY <1>1, <1>5, <1>7, OneMoves DEF CacheInv
<1>9. Sound(ansi', Sessions \X Versions, AnsiEntries) /\ ansi'.entries = ansi.entries
  BY <1>1, TouchIsSound, BothAreSound DEF CacheInv
<1> QED
  BY <1>1, <1>8, <1>9 DEF CacheInv, CacheTypeOK, BooksBalance, CachedTranscriptCurrent, Sound

\* The text is kept under the revision of the events it was made from.
LEMMA StoreAnsiKeeps ==
    ASSUME CacheInv, NEW r \in Renders, StoreAnsi(r)
    PROVE  CacheInv'
<1> DEFINE s == render[r].s
           k == <<s, render[r].rev>>
           v == render[r].content
           e == [content |-> v, bytes |-> Size(v)]
           q == [render[r] EXCEPT !.at = "done"]
<1>1. /\ render[r].at = "format" /\ render' = [render EXCEPT ![r] = q]
      /\ ansi' = (IF k \in DOMAIN ansi.entries THEN ansi ELSE Insert(ansi, k, e))
      /\ UNCHANGED <<source, events, inflight>>
  BY DEF StoreAnsi
<1>2. /\ render[r] \in Lookups /\ render[r] # NoRender /\ render[r].rev \in Versions
      /\ s \in Sessions /\ v \in Contents \cup {Failed}
  BY <1>1, Underway DEF CacheInv
<1>3. v \in Contents /\ render[r].rev <= v.main /\ render[r].rev <= source[s].main
  BY <1>1, <1>2 DEF CacheInv, Carried
<1>4. /\ q \in Lookups /\ q.at = "done" /\ q.s = s
      /\ q.rev = render[r].rev /\ q.content = v
  BY <1>2 DEF Lookups
<1> HIDE DEF q
<1>5. Carried(source, q)
  BY <1>3, <1>4 DEF Carried, Contents, Versions, Failed
<1>6. /\ render' \in [Renders -> {NoRender} \cup Lookups]
      /\ \A w \in Renders : Carried(source', render'[w])
  BY <1>1, <1>4, <1>5, OneMoves DEF CacheInv
<1>7. k \in Sessions \X Versions /\ k[2] = render[r].rev
  BY <1>2
<1>8. e \in AnsiEntries
  <2>1. Size(v) \in Nat
    BY <1>3 DEF Size, Contents, Versions
  <2> QED
    BY <1>3, <2>1 DEF AnsiEntries
<1>9. e.content = v
  OBVIOUS
<1> HIDE DEF e, k
<1>10. Sound(ansi, Sessions \X Versions, AnsiEntries)
  BY BothAreSound DEF CacheInv
<1>11. \A x \in DOMAIN ansi.entries : ansi.entries[x].content.main >= x[2]
  BY DEF CacheInv, CachedTranscriptCurrent
<1>12. /\ Sound(ansi', Sessions \X Versions, AnsiEntries)
       /\ \A x \in DOMAIN ansi'.entries : ansi'.entries[x].content.main >= x[2]
  <2>1. CASE k \in DOMAIN ansi.entries
    BY <1>1, <1>10, <1>11, <2>1
  <2>2. CASE k \notin DOMAIN ansi.entries
    <3>1. ansi' = Insert(ansi, k, e) /\ Priced(AnsiEntries)
      BY <1>1, <2>2, EntriesArePriced
    <3> DEFINE new == Insert(ansi, k, e)
    <3>2. Sound(new, Sessions \X Versions, AnsiEntries) /\ Inserted(new, ansi, k, e)
      BY <1>7, <1>8, <1>10, <2>2, <3>1, InsertIsSound
    <3> HIDE DEF new
    <3>3. v.main >= k[2]
      BY <1>3, <1>7 DEF Contents, Versions
    <3> QED
      BY <1>9, <1>11, <3>1, <3>2, <3>3 DEF new, Inserted
  <2> QED
    BY <2>1, <2>2
<1> QED
  BY <1>1, <1>6, <1>12 DEF CacheInv, CacheTypeOK, BooksBalance, CachedTranscriptCurrent, Sound

\* The parse is over. The transcript it read lies between the revision it began at
\* and that of the moment: when they are the same, it is of that revision.
LEMMA StoreKeeps ==
    ASSUME CacheInv, NEW r \in Renders, Store(r)
    PROVE  CacheInv'
<1> DEFINE s == render[r].s
           n == render[r].rev
           v == render[r].content
           e == [rev |-> n, content |-> v, bytes |-> Size(v)]
<1>1. /\ render[r].at = "store" /\ UNCHANGED <<source, ansi>>
      /\ inflight' = Without(inflight, {s}) /\ events' = Cached(r)
  BY DEF Store
<1>2. /\ render[r] \in Lookups /\ render[r] # NoRender /\ n \in Versions
      /\ s \in Sessions /\ v \in Contents \cup {Failed} /\ source[s] \in Contents
  BY <1>1, Underway DEF CacheInv
<1>3. /\ n <= source[s].main
      /\ v # Failed => v \in Contents /\ n <= v.main /\ v.main <= source[s].main
  BY <1>1, <1>2 DEF CacheInv, Carried
<1>4. ASSUME NEW w \in Renders
      PROVE  render'[w] \in {NoRender} \cup Lookups /\ Carried(source, render'[w])
  <2>1. render[w] \in {NoRender} \cup Lookups /\ Carried(source, render[w])
    BY DEF CacheInv, CacheTypeOK
  <2>2. CASE w \notin Receivers(r)
    BY <2>1, <2>2 DEF Store
  <2>3. CASE w \in Receivers(r) /\ v = Failed
    <3>1. render'[w] = NoRender
      BY <2>3 DEF Store
    <3> QED
      BY <3>1 DEF Carried
  <2>4. CASE w \in Receivers(r) /\ v # Failed
    <3> DEFINE q == [render[w] EXCEPT !.at = "render", !.rev = n, !.content = v]
    <3>1. render'[w] = q
      BY <2>4 DEF Store
    <3>2. render[w].at # "idle" /\ render[w].s = s
      BY <1>1, <2>4 DEF Receivers
    <3>3. render[w] \in Lookups
      BY <3>2, Underway DEF CacheInv
    <3>4. q \in Lookups /\ q.at = "render" /\ q.s = s /\ q.rev = n /\ q.content = v
      BY <1>2, <3>2, <3>3 DEF Lookups
    <3> HIDE DEF q
    <3>5. Carried(source, q)
      BY <1>3, <2>4, <3>4 DEF Carried
    <3> QED
      BY <3>1, <3>4, <3>5
  <2> QED
    BY <2>2, <2>3, <2>4
<1>5. render' \in [Renders -> {NoRender} \cup Lookups]
  <2>1. \E f : render' = [w \in Renders |-> f[w]]
    <3> DEFINE g == [w \in Renders |->
                IF w \notin Receivers(r) THEN render[w]
                ELSE IF render[r].content = Failed THEN NoRender
                ELSE [render[w] EXCEPT !.at = "render", !.rev = render[r].rev, !.content = render[r].content]]
    <3>1. render' = g
      BY DEF Store
    <3>2. g = [w \in Renders |-> g[w]]
      OBVIOUS
    <3> HIDE DEF g
    <3> QED
      BY <3>1, <3>2
  <2> QED
    BY <1>4, <2>1
<1>6. DOMAIN inflight' \subseteq Sessions /\ inflight' \in [DOMAIN inflight' -> Renders]
  <2>1. DOMAIN inflight \subseteq Sessions /\ inflight \in [DOMAIN inflight -> Renders]
    BY DEF CacheInv, CacheTypeOK
  <2> QED
    BY <1>1, <2>1 DEF Without
<1>7. Sound(events, Sessions, EventsEntries)
  BY BothAreSound DEF CacheInv
<1>8. \A x \in DOMAIN events.entries : events.entries[x].content.main = events.entries[x].rev
  BY DEF CacheInv, CachedTranscriptCurrent
<1>9. /\ Sound(events', Sessions, EventsEntries)
      /\ \A x \in DOMAIN events'.entries : events'.entries[x].content.main = events'.entries[x].rev
  <2>1. CASE ~(v # Failed /\ LiveRevision(s) = n)
    BY <1>1, <1>7, <1>8, <2>1 DEF Cached
  <2>2. CASE v # Failed /\ LiveRevision(s) = n
    <3> DEFINE d == Drop(events, s)
    <3>1. events' = Insert(d, s, e)
      BY <1>1, <2>2 DEF Cached
    <3>2. v \in Contents /\ v.main = n
      BY <1>2, <1>3, <2>2 DEF LiveRevision, Contents, Versions
    <3>3. e \in EventsEntries
      <4>1. Size(v) \in Nat
        BY <3>2 DEF Size, Contents, Versions
      <4> QED
        BY <1>2, <3>2, <4>1 DEF EventsEntries
    <3>4. e.content.main = e.rev
      BY <3>2
    <3> HIDE DEF e, d, s
    <3>5. /\ Sound(d, Sessions, EventsEntries) /\ s \notin DOMAIN d.entries
          /\ \A x \in DOMAIN d.entries : x \in DOMAIN events.entries /\ d.entries[x] = events.entries[x]
      BY <1>7, DropIsSound, EntriesArePriced DEF d
    <3>6. Priced(EventsEntries)
      BY EntriesArePriced
    <3> DEFINE new == Insert(d, s, e)
    <3>7. Sound(new, Sessions, EventsEntries) /\ Inserted(new, d, s, e)
      BY <1>2, <3>3, <3>5, <3>6, InsertIsSound
    <3> HIDE DEF new
    <3> QED
      BY <1>8, <3>1, <3>4, <3>5, <3>7 DEF new, Inserted
  <2> QED
    BY <2>1, <2>2
<1> QED
  BY <1>1, <1>4, <1>5, <1>6, <1>9 DEF CacheInv, CacheTypeOK, BooksBalance, CachedTranscriptCurrent, Sound

\* Every step keeps the invariant.
LEMMA NextCache == CacheInv /\ [CacheNext]_cacheVars => CacheInv'
<1> SUFFICES ASSUME CacheInv, [CacheNext]_cacheVars PROVE CacheInv'
  OBVIOUS
<1>1. ASSUME NEW s \in Sessions, Grow(s) \/ Drift(s) PROVE CacheInv'
  BY <1>1, SourceKeeps
<1>2. ASSUME NEW r \in Renders, NEW s \in Sessions, Arrive(r, s) PROVE CacheInv'
  BY <1>2, ArriveKeeps
<1>3. ASSUME NEW r \in Renders, Serve(r) \/ RenderAnswered(r) PROVE CacheInv'
  BY <1>3, EventsHitKeeps, QuietStepsKeep, AnsiHitKeeps, StoreAnsiKeeps, StoreKeeps DEF Serve
<1>4. CASE UNCHANGED cacheVars
  BY <1>4 DEF cacheVars, CacheInv, CacheTypeOK, BooksBalance, CachedTranscriptCurrent
<1> QED
  BY <1>1, <1>2, <1>3, <1>4 DEF CacheNext

\* The invariant holds at every moment.
LEMMA CacheInvariant == CacheSpec => []CacheInv
BY InitCache, NextCache, PTL DEF CacheSpec

\* The sub-caches, the table of parses and the requests have the shape they should.
THEOREM CacheTypeCorrect == CacheSpec => []CacheTypeOK
<1>1. CacheInv => CacheTypeOK
  BY DEF CacheInv
<1> QED
  BY <1>1, CacheInvariant, PTL

\* The books of both sub-caches balance, whatever is inserted, evicted or touched
\* by whichever request in whatever order.
THEOREM CacheBooksBalance == CacheSpec => []BooksBalance
<1>1. CacheInv => BooksBalance
  BY DEF CacheInv
<1> QED
  BY <1>1, CacheInvariant, PTL

\* No cached transcript is older than the revision it is kept under, however often
\* the transcripts grow between a look at a revision, a parse and a format pass, and
\* whatever moves that the revision does not tell of.
THEOREM CacheTranscriptsCurrent == CacheSpec => []CachedTranscriptCurrent
<1>1. CacheInv => CachedTranscriptCurrent
  BY DEF CacheInv
<1> QED
  BY <1>1, CacheInvariant, PTL

(*******************************************************************************)
(* The table of parses.                                                          *)
(*******************************************************************************)

\* Who parses, and for which session.
Parses(q, s) == q.at \in {"parse", "store"} /\ q.s = s

\* Every step keeps the table and the requests together.
LEMMA NextParsedOnce == CacheTypeOK /\ ParsedOnce /\ [CacheNext]_cacheVars => ParsedOnce'
<1> SUFFICES ASSUME CacheTypeOK, ParsedOnce, [CacheNext]_cacheVars PROVE ParsedOnce'
  OBVIOUS
<1>1. \A s \in DOMAIN inflight, r \in Renders : Parses(render[r], s) <=> r = inflight[s]
  BY DEF ParsedOnce, Parses, CacheTypeOK
<1>2. \A r \in Renders : render[r].at \in {"parse", "store", "wait"} => render[r].s \in DOMAIN inflight
  BY DEF ParsedOnce
<1>3. \A s \in DOMAIN inflight : inflight[s] \in Renders
  BY DEF CacheTypeOK
<1>4. ASSUME \A s \in DOMAIN inflight' :
                 /\ inflight'[s] \in Renders
                 /\ \A r \in Renders : Parses(render'[r], s) <=> r = inflight'[s],
             \A r \in Renders :
                 render'[r].at \in {"parse", "store", "wait"} => render'[r].s \in DOMAIN inflight'
      PROVE  ParsedOnce'
  <2> DEFINE P(s) == {r \in Renders : render'[r].at \in {"parse", "store"} /\ render'[r].s = s}
  <2>1. ASSUME NEW s \in DOMAIN inflight' PROVE P(s) = {inflight'[s]}
    BY <1>4 DEF Parses
  <2> QED
    BY <1>4, <2>1 DEF ParsedOnce
<1>5. DOMAIN render = Renders /\ \A r \in Renders : render[r] = NoRender \/ render[r] \in Lookups
  BY DEF CacheTypeOK
<1>6. ASSUME NEW r \in Renders, NEW q, render' = [render EXCEPT ![r] = q], inflight' = inflight,
             \A s \in Sessions : Parses(q, s) <=> Parses(render[r], s),
             q.at \in {"parse", "store", "wait"} => q.s \in DOMAIN inflight
      PROVE  ParsedOnce'
  <2>1. \A w \in Renders : render'[w] = IF w = r THEN q ELSE render[w]
    BY <1>5, <1>6
  <2>2. DOMAIN inflight \subseteq Sessions
    BY DEF CacheTypeOK
  <2>3. ASSUME NEW s \in DOMAIN inflight, NEW w \in Renders
        PROVE  Parses(render'[w], s) <=> w = inflight[s]
    BY <1>1, <1>6, <2>1, <2>2
  <2>4. ASSUME NEW w \in Renders, render'[w].at \in {"parse", "store", "wait"}
        PROVE  render'[w].s \in DOMAIN inflight
    BY <1>2, <1>6, <2>1, <2>4
  <2> QED
    BY <1>3, <1>4, <1>6, <2>3, <2>4
<1>7. ASSUME UNCHANGED <<inflight, render>> PROVE ParsedOnce'
  BY <1>7 DEF ParsedOnce
<1>8. ASSUME NEW r \in Renders, NEW s \in Sessions, Arrive(r, s) PROVE ParsedOnce'
  <2> DEFINE q == [at |-> "lookup", s |-> s, rev |-> LiveRevision(s), content |-> Failed]
  <2>1. render[r] = NoRender /\ render' = [render EXCEPT ![r] = q] /\ inflight' = inflight
    BY <1>8 DEF Arrive
  <2>2. q.at = "lookup" /\ render[r].at = "idle"
    BY <2>1 DEF NoRender
  <2> HIDE DEF q
  <2> QED
    BY <1>6, <2>1, <2>2 DEF Parses
<1>9. ASSUME NEW r \in Renders,
             EventsHit(r) \/ Join(r) \/ Parse(r) \/ AnswerEvents(r) \/ AnsiHit(r) \/ AnsiMissed(r)
                \/ StoreAnsi(r) \/ RenderAnswered(r)
      PROVE  ParsedOnce'
  <2>1. render[r].at # "idle" /\ inflight' = inflight
    BY <1>9 DEF EventsHit, Join, EventsMissed, Parse, AnswerEvents, AnsiHit, AnsiMissed, StoreAnsi,
                RenderAnswered
  <2>2. render[r] \in Lookups
    BY <1>5, <2>1 DEF NoRender
  <2>3. CASE Parse(r)
    <3>1. PICK v : render' = [render EXCEPT ![r] = [render[r] EXCEPT !.at = "store", !.content = v]]
      BY <2>3 DEF Parse
    <3> DEFINE q == [render[r] EXCEPT !.at = "store", !.content = v]
    <3>2. q.at = "store" /\ q.s = render[r].s /\ render' = [render EXCEPT ![r] = q]
      BY <2>2, <3>1 DEF Lookups
    <3>3. render[r].at = "parse"
      BY <2>3 DEF Parse
    <3> HIDE DEF q
    <3>4. render[r].s \in DOMAIN inflight
      BY <1>2, <3>3
    <3>5. \A s \in Sessions : Parses(q, s) <=> Parses(render[r], s)
      BY <3>2, <3>3 DEF Parses
    <3> QED
      BY <1>6, <2>1, <3>2, <3>4, <3>5
  <2>4. CASE Join(r)
    <3> DEFINE q == [render[r] EXCEPT !.at = "wait"]
    <3>1. /\ render[r].at = "lookup" /\ render' = [render EXCEPT ![r] = q]
          /\ render[r].s \in DOMAIN inflight
      BY <2>4 DEF Join, EventsMissed
    <3>2. q.at = "wait" /\ q.s = render[r].s
      BY <2>2 DEF Lookups
    <3> HIDE DEF q
    <3> QED
      BY <1>6, <2>1, <3>1, <3>2 DEF Parses
  <2>5. CASE EventsHit(r) \/ AnswerEvents(r) \/ AnsiHit(r) \/ AnsiMissed(r) \/ StoreAnsi(r)
    <3>1. render[r].at \in {"lookup", "render", "format"}
      BY <2>5 DEF EventsHit, AnswerEvents, AnsiHit, AnsiMissed, StoreAnsi
    <3>2. CASE EventsHit(r)
      <4> DEFINE q == [render[r] EXCEPT !.at = "render", !.content = events.entries[render[r].s].content]
      <4>1. render' = [render EXCEPT ![r] = q]
        BY <3>2 DEF EventsHit
      <4>2. q.at = "render"
        BY <2>2 DEF Lookups
      <4> HIDE DEF q
      <4> QED
        BY <1>6, <2>1, <3>1, <4>1, <4>2 DEF Parses
    <3>3. CASE AnsiHit(r)
      <4> DEFINE q == [render[r] EXCEPT !.at = "done",
                                     !.content = ansi.entries[<<render[r].s, render[r].rev>>].content]
      <4>1. render' = [render EXCEPT ![r] = q]
        BY <3>3 DEF AnsiHit
      <4>2. q.at = "done"
        BY <2>2 DEF Lookups
      <4> HIDE DEF q
      <4> QED
        BY <1>6, <2>1, <3>1, <4>1, <4>2 DEF Parses
    <3>4. CASE AnswerEvents(r)
      <4> DEFINE q == [render[r] EXCEPT !.at = "done"]
      <4>1. render' = [render EXCEPT ![r] = q]
        BY <3>4 DEF AnswerEvents
      <4>2. q.at = "done"
        BY <2>2 DEF Lookups
      <4> HIDE DEF q
      <4> QED
        BY <1>6, <2>1, <3>1, <4>1, <4>2 DEF Parses
    <3>5. CASE AnsiMissed(r)
      <4> DEFINE q == [render[r] EXCEPT !.at = "format"]
      <4>1. render' = [render EXCEPT ![r] = q]
        BY <3>5 DEF AnsiMissed
      <4>2. q.at = "format"
        BY <2>2 DEF Lookups
      <4> HIDE DEF q
      <4> QED
        BY <1>6, <2>1, <3>1, <4>1, <4>2 DEF Parses
    <3>6. CASE StoreAnsi(r)
      <4> DEFINE q == [render[r] EXCEPT !.at = "done"]
      <4>1. render' = [render EXCEPT ![r] = q]
        BY <3>6 DEF StoreAnsi
      <4>2. q.at = "done"
        BY <2>2 DEF Lookups
      <4> HIDE DEF q
      <4> QED
        BY <1>6, <2>1, <3>1, <4>1, <4>2 DEF Parses
    <3> QED
      BY <2>5, <3>2, <3>3, <3>4, <3>5, <3>6
  <2>6. CASE RenderAnswered(r)
    <3>1. render[r].at = "done" /\ render' = [render EXCEPT ![r] = NoRender]
      BY <2>6 DEF RenderAnswered
    <3>2. NoRender.at = "idle"
      BY DEF NoRender
    <3> QED
      BY <1>6, <2>1, <3>1, <3>2 DEF Parses
  <2> QED
    BY <1>9, <2>3, <2>4, <2>5, <2>6
<1>10. ASSUME NEW r \in Renders, Lead(r) PROVE ParsedOnce'
  <2> DEFINE s == render[r].s
             q == [render[r] EXCEPT !.at = "parse"]
  <2>1. /\ render[r].at = "lookup" /\ s \notin DOMAIN inflight /\ render' = [render EXCEPT ![r] = q]
        /\ inflight' = [x \in DOMAIN inflight \cup {s} |-> IF x = s THEN r ELSE inflight[x]]
    BY <1>10 DEF Lead, EventsMissed
  <2>2. q.at = "parse" /\ q.s = s
    BY <1>5, <2>1 DEF Lookups, NoRender
  <2> HIDE DEF q
  <2>3. \A w \in Renders : render'[w] = IF w = r THEN q ELSE render[w]
    BY <1>5, <2>1
  <2>4. /\ DOMAIN inflight' = DOMAIN inflight \cup {s} /\ inflight'[s] = r
        /\ \A x \in DOMAIN inflight : inflight'[x] = inflight[x]
    BY <2>1
  <2>5. ASSUME NEW w \in Renders PROVE Parses(render'[w], s) <=> w = r
    BY <1>2, <2>1, <2>2, <2>3 DEF Parses
  <2>6. ASSUME NEW x \in DOMAIN inflight, NEW w \in Renders
        PROVE  Parses(render'[w], x) <=> w = inflight[x]
    BY <1>1, <2>1, <2>2, <2>3 DEF Parses
  <2>7. ASSUME NEW w \in Renders, render'[w].at \in {"parse", "store", "wait"}
        PROVE  render'[w].s \in DOMAIN inflight'
    BY <1>2, <2>2, <2>3, <2>4, <2>7
  <2> QED
    BY <1>3, <1>4, <2>4, <2>5, <2>6, <2>7
<1>11. ASSUME NEW r \in Renders, Store(r) PROVE ParsedOnce'
  <2> DEFINE s == render[r].s
  <2>1. /\ render[r].at = "store" /\ s \in DOMAIN inflight
        /\ inflight' = [x \in DOMAIN inflight \ {s} |-> inflight[x]]
    BY <1>2, <1>11 DEF Store, Without
  <2>2. /\ DOMAIN inflight' = DOMAIN inflight \ {s}
        /\ \A x \in DOMAIN inflight' : inflight'[x] = inflight[x]
    BY <2>1
  <2>3. ASSUME NEW w \in Renders, w \notin Receivers(r) PROVE render'[w] = render[w]
    BY <1>11, <2>3 DEF Store
  <2>4. ASSUME NEW w \in Renders, w \in Receivers(r)
        PROVE  render'[w].at \in {"idle", "render"} /\ render[w].s = s
    <3>1. render[w].at \in {"store", "wait"} /\ render[w].s = s
      BY <2>1, <2>4 DEF Receivers
    <3>2. render[w] \in Lookups
      BY <1>5, <3>1 DEF NoRender
    <3>3. \A n, v : [render[w] EXCEPT !.at = "render", !.rev = n, !.content = v].at = "render"
      BY <3>2 DEF Lookups
    <3>4. NoRender.at = "idle"
      BY DEF NoRender
    <3> QED
      BY <1>11, <2>4, <3>1, <3>3, <3>4 DEF Store
  <2>5. r \in Receivers(r) /\ \A w \in Renders : Parses(render[w], s) => w = r
    BY <1>1, <2>1 DEF Receivers, Parses
  <2>6. ASSUME NEW x \in DOMAIN inflight', NEW w \in Renders
        PROVE  Parses(render'[w], x) <=> w = inflight'[x]
    <3>1. x # s /\ x \in DOMAIN inflight /\ inflight'[x] = inflight[x]
      BY <2>2
    <3>2. CASE w \notin Receivers(r)
      BY <1>1, <2>3, <3>1, <3>2
    <3>3. CASE w \in Receivers(r)
      <4>1. ~Parses(render[w], x)
        BY <2>4, <3>1, <3>3 DEF Parses
      <4>2. ~Parses(render'[w], x)
        BY <2>4, <3>3 DEF Parses
      <4> QED
        BY <1>1, <3>1, <4>1, <4>2
    <3> QED
      BY <3>2, <3>3
  <2>7. ASSUME NEW w \in Renders, render'[w].at \in {"parse", "store", "wait"}
        PROVE  render'[w].s \in DOMAIN inflight'
    <3>1. w \notin Receivers(r)
      BY <2>4, <2>7
    <3>2. render'[w] = render[w] /\ render[w].s \in DOMAIN inflight
      BY <1>2, <2>3, <2>7, <3>1
    <3>3. render[w].s # s
      <4>1. render[w].at = "wait" => render[w].s # s
        BY <3>1 DEF Receivers
      <4>2. render[w].at \in {"parse", "store"} => render[w].s # s
        BY <2>5, <3>1 DEF Parses
      <4> QED
        BY <2>7, <3>2, <4>1, <4>2
    <3> QED
      BY <2>2, <3>2, <3>3
  <2> QED
    BY <1>3, <1>4, <2>2, <2>6, <2>7
<1>12. ASSUME NEW s \in Sessions, Grow(s) \/ Drift(s) PROVE ParsedOnce'
  BY <1>7, <1>12 DEF Grow, Drift
<1>13. CASE UNCHANGED cacheVars
  BY <1>7, <1>13 DEF cacheVars
<1> QED
  BY <1>8, <1>9, <1>10, <1>11, <1>12, <1>13 DEF CacheNext, Serve

\* A session is parsed by one request at a time and nobody waits for a parse that
\* is not under way, however many requests come.
THEOREM CacheParsedOnce == CacheSpec => []ParsedOnce
<1>1. CacheInit => ParsedOnce
  <2> SUFFICES ASSUME CacheInit PROVE ParsedOnce
    OBVIOUS
  <2>1. DOMAIN inflight = {} /\ \A r \in Renders : render[r].at = "idle"
    BY DEF CacheInit, NoRender
  <2> QED
    BY <2>1 DEF ParsedOnce
<1> QED
  BY <1>1, NextParsedOnce, CacheTypeCorrect, PTL DEF CacheSpec

=============================================================================
