-------------------------- MODULE BatchInputsProofs --------------------------
(***************************************************************************)
(* Proofs about the inputs of runs and batches, for any well-formed        *)
(* workflows, any number of values and any limits.                         *)
(***************************************************************************)
EXTENDS BatchInputs, SequenceTheorems, FiniteSetTheorems, WellFoundedInduction, TLAPS

-----------------------------------------------------------------------------
(* Numbers.                                                                *)

\* A nonempty set of naturals has a least element.
LEMMA Least ==
  ASSUME NEW S \in SUBSET Nat, S # {}
  PROVE  \E m \in S : \A k \in S : m <= k
<1> DEFINE R == {p \in Nat \X Nat : p[1] < p[2]}
<1>1. IsWellFoundedOn(R, Nat)
  BY NatLessThanWellFounded DEF OpToRel
<1> HIDE DEF R
<1>2. PICK m \in S : \A k \in S : <<k, m>> \notin R
  BY <1>1, WFMin
<1>3. \A k \in S : m <= k
  <2> SUFFICES ASSUME NEW k \in S PROVE m <= k
    OBVIOUS
  <2>1. k \in Nat /\ m \in Nat
    OBVIOUS
  <2>2. ~(k < m)
    BY <1>2, <2>1 DEF R
  <2> QED BY <2>1, <2>2
<1> QED BY <1>3

\* The lists of a workflow are finitely many, so one of them is longest.
LEMMA Longest ==
  ASSUME NEW I, IsFiniteSet(I), I # {}, NEW f \in [I -> Nat]
  PROVE  \E i \in I : \A j \in I : f[i] >= f[j]
<1> DEFINE Has(T) == \E i \in T : \A j \in T : f[i] >= f[j]
           bad == {n \in Nat : \E T \in SUBSET I : T # {} /\ Cardinality(T) = n /\ ~Has(T)}
<1>1. SUFFICES bad = {}
  <2>1. Cardinality(I) \in Nat
    BY FS_CardinalityType
  <2> QED BY <1>1, <2>1
<1>2. SUFFICES ASSUME bad # {} PROVE FALSE
  OBVIOUS
<1>3. PICK n \in bad : \A m \in bad : n <= m
  BY <1>2, Least
<1>4. PICK T \in SUBSET I : T # {} /\ Cardinality(T) = n /\ ~Has(T)
  BY <1>3
<1>5. PICK t \in T : TRUE
  BY <1>4
<1>6. /\ T \ {t} \in SUBSET I /\ n \in Nat
      /\ Cardinality(T \ {t}) = n - 1 /\ Cardinality(T \ {t}) \in Nat
  <2>1. IsFiniteSet(T)
    BY <1>4, FS_Subset
  <2>2. IsFiniteSet(T \ {t}) /\ Cardinality(T \ {t}) = n - 1
    BY <1>4, <1>5, <2>1, FS_RemoveElement
  <2> QED BY <1>3, <2>2, FS_CardinalityType
<1>7. T \ {t} # {}
  <2> SUFFICES ASSUME T \ {t} = {} PROVE FALSE
    OBVIOUS
  <2>1. T = {t} /\ f[t] \in Nat
    BY <1>5
  <2> QED BY <1>4, <2>1
<1>8. Has(T \ {t})
  <2>1. n - 1 \notin bad
    BY <1>3, <1>6
  <2> QED BY <1>6, <1>7, <2>1
<1>9. PICK i \in T \ {t} : \A j \in T \ {t} : f[i] >= f[j]
  BY <1>8
<1>10. f[i] \in Nat /\ f[t] \in Nat /\ \A j \in T : f[j] \in Nat
  BY <1>5, <1>9
<1>11. CASE f[i] >= f[t]
  BY <1>4, <1>9, <1>10, <1>11
<1>12. CASE f[t] >= f[i]
  BY <1>4, <1>5, <1>9, <1>10, <1>12
<1> QED BY <1>10, <1>11, <1>12

-----------------------------------------------------------------------------
(* A list without some of its values.                                      *)

\* What is kept of the first n values, if f says so for fewer.
KeptOf(f, s, X, n) ==
  IF n = 0 THEN <<>>
  ELSE IF s[n] \in X THEN f[n - 1] ELSE Append(f[n - 1], s[n])

HasKept(s, V, X, m) ==
  \E f \in [0..m -> Seq(V \ X)] : \A n \in 0..m : f[n] = KeptOf(f, s, X, n)

LEMMA KeptUpTo ==
  ASSUME NEW V, NEW X, NEW s \in Seq(V), NEW m \in 0..Len(s)
  PROVE  HasKept(s, V, X, m)
<1> DEFINE Has(k) == HasKept(s, V, X, k)
           bad == {k \in 0..Len(s) : ~Has(k)}
<1>1. SUFFICES ASSUME bad # {} PROVE FALSE
  OBVIOUS
<1>2. bad \in SUBSET Nat
  BY LenProperties
<1>3. PICK k \in bad : \A j \in bad : k <= j
  BY <1>1, <1>2, Least
<1>4. k \in 0..Len(s) /\ Len(s) \in Nat
  BY <1>3, LenProperties
<1>5. k # 0
  <2> SUFFICES ASSUME k = 0 PROVE FALSE
    OBVIOUS
  <2> DEFINE f == [n \in 0..0 |-> <<>>]
  <2>1. f \in [0..0 -> Seq(V \ X)]
    OBVIOUS
  <2>2. \A n \in 0..0 : f[n] = KeptOf(f, s, X, n)
    BY DEF KeptOf
  <2>3. Has(0)
    BY <2>1, <2>2 DEF HasKept
  <2> QED BY <1>3, <2>3
<1>6. Has(k - 1)
  <2>1. k - 1 \in 0..Len(s) /\ ~(k <= k - 1)
    BY <1>4, <1>5
  <2>2. k - 1 \notin bad
    BY <1>3, <2>1
  <2> QED BY <2>1, <2>2
<1>7. PICK f \in [0..(k - 1) -> Seq(V \ X)] : \A n \in 0..(k - 1) : f[n] = KeptOf(f, s, X, n)
  BY <1>6 DEF HasKept
<1> DEFINE g == [n \in 0..k |-> IF n < k THEN f[n] ELSE KeptOf(f, s, X, k)]
<1>8. KeptOf(f, s, X, k) \in Seq(V \ X)
  <2>1. f[k - 1] \in Seq(V \ X) /\ s[k] \in V
    BY <1>4, <1>5, <1>7
  <2> QED BY <1>5, <2>1 DEF KeptOf
<1>9. g \in [0..k -> Seq(V \ X)]
  BY <1>4, <1>7, <1>8
<1>10. ASSUME NEW n \in 0..k PROVE g[n] = KeptOf(g, s, X, n)
  <2>1. n # 0 => (n - 1 \in 0..(k - 1) /\ g[n - 1] = f[n - 1])
    BY <1>4
  <2>2. KeptOf(g, s, X, n) = KeptOf(f, s, X, n)
    BY <2>1 DEF KeptOf
  <2>3. g[n] = KeptOf(f, s, X, n)
    <3>1. CASE n < k
      <4>1. n \in 0..(k - 1)
        BY <1>4, <3>1
      <4>2. f[n] = KeptOf(f, s, X, n)
        BY <1>7, <4>1
      <4> QED BY <3>1, <4>2
    <3>2. CASE n = k
      BY <1>4, <3>2
    <3> QED BY <1>4, <3>1, <3>2
  <2> QED BY <2>2, <2>3
<1>12. Has(k)
  <2> HIDE DEF g
  <2> QED BY <1>9, <1>10 DEF HasKept
<1> QED BY <1>3, <1>12

LEMMA KeptType ==
  ASSUME NEW V, NEW X, NEW s \in Seq(V),
         NEW f, DOMAIN f = 0..Len(s), f = [n \in DOMAIN f |-> f[n]],
         \A n \in 0..Len(s) : f[n] = KeptOf(f, s, X, n)
  PROVE  f \in [0..Len(s) -> Seq(V \ X)]
<1> DEFINE bad == {k \in 0..Len(s) : f[k] \notin Seq(V \ X)}
<1>1. SUFFICES ASSUME bad # {} PROVE FALSE
  OBVIOUS
<1>2. bad \in SUBSET Nat
  BY LenProperties
<1>3. PICK k \in bad : \A j \in bad : k <= j
  BY <1>1, <1>2, Least
<1>4. k \in 0..Len(s) /\ Len(s) \in Nat /\ f[k] = KeptOf(f, s, X, k)
  BY <1>3, LenProperties
<1>5. CASE k = 0
  <2>1. f[k] = <<>>
    BY <1>4, <1>5 DEF KeptOf
  <2>2. f[k] \in Seq(V \ X)
    BY <2>1, EmptySeq
  <2> QED BY <1>3, <2>2
<1>6. CASE k # 0
  <2>1. k - 1 \in 0..Len(s) /\ ~(k <= k - 1) /\ s[k] \in V
    BY <1>4, <1>6
  <2>2. f[k - 1] \in Seq(V \ X)
    BY <1>3, <2>1
  <2>3. CASE s[k] \in X
    <3>1. f[k] = f[k - 1]
      BY <1>4, <1>6, <2>3 DEF KeptOf
    <3> QED BY <1>3, <2>2, <3>1
  <2>4. CASE s[k] \notin X
    <3>1. f[k] = Append(f[k - 1], s[k])
      BY <1>4, <1>6, <2>4 DEF KeptOf
    <3> DEFINE l == f[k - 1]
               e == s[k]
    <3>2. l \in Seq(V \ X) /\ e \in V \ X
      BY <2>1, <2>2, <2>4
    <3> HIDE DEF l, e
    <3>3. Append(l, e) \in Seq(V \ X)
      BY <3>2
    <3> QED BY <1>3, <3>1, <3>3 DEF l, e
  <2> QED BY <2>3, <2>4
<1> QED BY <1>5, <1>6

Kept(s, V, X) ==
  \E f \in [0..Len(s) -> Seq(V \ X)] :
    /\ \A n \in 0..Len(s) : f[n] = KeptOf(f, s, X, n)
    /\ Without(s, X) = f[Len(s)]

LEMMA WithoutKeeps ==
  ASSUME NEW V, NEW X, NEW s \in Seq(V)
  PROVE  Kept(s, V, X)
<1>1. Len(s) \in 0..Len(s)
  BY LenProperties
<1>2. \E f : f = [n \in 0..Len(s) |-> KeptOf(f, s, X, n)]
  <2>1. PICK f \in [0..Len(s) -> Seq(V \ X)] : \A n \in 0..Len(s) : f[n] = KeptOf(f, s, X, n)
    <3>1. HasKept(s, V, X, Len(s))
      BY <1>1, KeptUpTo
    <3> QED BY <3>1 DEF HasKept
  <2>2. f = [n \in 0..Len(s) |-> KeptOf(f, s, X, n)]
    BY <2>1
  <2> QED BY <2>2
<1> DEFINE kept == CHOOSE f : f = [n \in 0..Len(s) |-> KeptOf(f, s, X, n)]
<1>3. kept = [n \in 0..Len(s) |-> KeptOf(kept, s, X, n)]
  BY ONLY <1>2
<1>4. Without(s, X) = kept[Len(s)]
  BY DEF Without, KeptOf
<1> HIDE DEF kept
<1>5. /\ DOMAIN kept = 0..Len(s) /\ kept = [n \in DOMAIN kept |-> kept[n]]
      /\ \A n \in 0..Len(s) : kept[n] = KeptOf(kept, s, X, n)
  <2> DEFINE K(j) == KeptOf(kept, s, X, j)
  <2>1. kept = [j \in 0..Len(s) |-> K(j)]
    BY <1>3
  <2> HIDE DEF K
  <2>2. DOMAIN kept = 0..Len(s) /\ \A n \in 0..Len(s) : kept[n] = K(n)
    BY <2>1
  <2>3. kept = [n \in DOMAIN kept |-> kept[n]]
    BY <2>1
  <2> QED BY <2>2, <2>3 DEF K
<1>6. kept \in [0..Len(s) -> Seq(V \ X)]
  BY <1>5, KeptType
<1> QED BY <1>4, <1>5, <1>6 DEF Kept

LEMMA WithoutType ==
  ASSUME NEW V, NEW X, NEW s \in Seq(V)
  PROVE  Without(s, X) \in Seq(V \ X)
<1>1. Len(s) \in 0..Len(s)
  BY LenProperties
<1>2. PICK f \in [0..Len(s) -> Seq(V \ X)] : Without(s, X) = f[Len(s)]
  <2>1. Kept(s, V, X)
    BY WithoutKeeps
  <2> QED BY <2>1 DEF Kept
<1> QED BY <1>1, <1>2

\* Taking more values away leaves no more of them.
LEMMA WithoutMore ==
  ASSUME NEW V, NEW X, NEW Y, X \subseteq Y, NEW s \in Seq(V)
  PROVE  Len(Without(s, Y)) <= Len(Without(s, X))
<1>1. PICK f \in [0..Len(s) -> Seq(V \ X)] :
         (\A n \in 0..Len(s) : f[n] = KeptOf(f, s, X, n)) /\ Without(s, X) = f[Len(s)]
  <2>1. Kept(s, V, X)
    BY WithoutKeeps
  <2> QED BY <2>1 DEF Kept
<1>2. PICK g \in [0..Len(s) -> Seq(V \ Y)] :
         (\A n \in 0..Len(s) : g[n] = KeptOf(g, s, Y, n)) /\ Without(s, Y) = g[Len(s)]
  <2>1. Kept(s, V, Y)
    BY WithoutKeeps
  <2> QED BY <2>1 DEF Kept
<1> DEFINE bad == {k \in 0..Len(s) : ~(Len(g[k]) <= Len(f[k]))}
<1>3. SUFFICES ASSUME bad # {} PROVE FALSE
  <2>1. Len(s) \in 0..Len(s)
    BY LenProperties
  <2> QED BY <1>1, <1>2, <1>3, <2>1
<1>4. bad \in SUBSET Nat
  BY LenProperties
<1>5. PICK k \in bad : \A j \in bad : k <= j
  BY <1>3, <1>4, Least
<1>6. /\ k \in 0..Len(s) /\ Len(s) \in Nat
      /\ f[k] = KeptOf(f, s, X, k) /\ g[k] = KeptOf(g, s, Y, k)
      /\ f[k] \in Seq(V \ X) /\ g[k] \in Seq(V \ Y)
  BY <1>1, <1>2, <1>5, LenProperties
<1>7. CASE k = 0
  <2>1. f[k] = <<>> /\ g[k] = <<>>
    BY <1>6, <1>7 DEF KeptOf
  <2>2. Len(g[k]) <= Len(f[k])
    BY <2>1, EmptySeq
  <2> QED BY <1>5, <2>2
<1>8. CASE k # 0
  <2>1. k - 1 \in 0..Len(s) /\ ~(k <= k - 1)
    BY <1>6, <1>8
  <2>2. f[k - 1] \in Seq(V \ X) /\ g[k - 1] \in Seq(V \ Y) /\ Len(g[k - 1]) <= Len(f[k - 1])
    BY <1>5, <2>1
  <2>3. s[k] \in V
    BY <1>6, <1>8
  <2>4. CASE s[k] \in X
    <3>1. f[k] = f[k - 1] /\ g[k] = g[k - 1]
      BY <1>6, <1>8, <2>4 DEF KeptOf
    <3> QED BY <1>5, <2>2, <3>1
  <2>5. CASE s[k] \notin X
    <3>1. f[k] = Append(f[k - 1], s[k]) /\ g[k] \in {g[k - 1], Append(g[k - 1], s[k])}
      BY <1>6, <1>8, <2>5 DEF KeptOf
    <3>2. Len(f[k]) = Len(f[k - 1]) + 1 /\ Len(g[k]) <= Len(g[k - 1]) + 1
      BY <2>2, <2>3, <3>1
    <3>3. Len(f[k - 1]) \in Nat /\ Len(g[k - 1]) \in Nat /\ Len(g[k]) \in Nat
      BY <1>6, <2>2, LenProperties
    <3>4. Len(g[k]) <= Len(f[k])
      BY <2>2, <3>2, <3>3
    <3> QED BY <1>5, <3>4
  <2> QED BY <2>4, <2>5
<1> QED BY <1>7, <1>8

Has(l, v) == \E q \in 1..Len(l) : l[q] = v

AtMostOnce(l, v) == \A p, q \in 1..Len(l) : l[p] = v /\ l[q] = v => p = q

LEMMA AppendHas ==
  ASSUME NEW V, NEW l \in Seq(V), NEW e \in V, NEW v
  PROVE  /\ Has(Append(l, e), v) <=> Has(l, v) \/ e = v
         /\ AtMostOnce(l, v) /\ (Has(l, v) => e # v) => AtMostOnce(Append(l, e), v)
<1> DEFINE m == Append(l, e)
<1>1. /\ Len(l) \in Nat /\ Len(m) = Len(l) + 1 /\ m[Len(l) + 1] = e
      /\ \A q \in 1..Len(l) : m[q] = l[q]
  OBVIOUS
<1> HIDE DEF m
<1>2. Has(m, v) <=> Has(l, v) \/ e = v
  <2>1. ASSUME Has(m, v) PROVE Has(l, v) \/ e = v
    <3>1. PICK q \in 1..Len(m) : m[q] = v
      BY <2>1 DEF Has
    <3>2. q \in 1..Len(l) \/ q = Len(l) + 1
      BY <1>1
    <3> QED BY <1>1, <3>1, <3>2 DEF Has
  <2>2. ASSUME Has(l, v) PROVE Has(m, v)
    <3>1. PICK q \in 1..Len(l) : l[q] = v
      BY <2>2 DEF Has
    <3>2. q \in 1..Len(m) /\ m[q] = v
      BY <1>1, <3>1
    <3> QED BY <3>2 DEF Has
  <2>3. ASSUME e = v PROVE Has(m, v)
    <3>1. Len(l) + 1 \in 1..Len(m)
      BY <1>1
    <3> QED BY <1>1, <2>3, <3>1 DEF Has
  <2> QED BY <2>1, <2>2, <2>3
<1>3. ASSUME AtMostOnce(l, v), Has(l, v) => e # v
      PROVE  AtMostOnce(m, v)
  <2> SUFFICES ASSUME NEW p \in 1..Len(m), NEW q \in 1..Len(m), m[p] = v, m[q] = v
               PROVE  p = q
    BY DEF AtMostOnce
  <2>1. /\ p \in 1..Len(l) \/ p = Len(l) + 1
        /\ q \in 1..Len(l) \/ q = Len(l) + 1
    BY <1>1
  <2>2. CASE p \in 1..Len(l) /\ q \in 1..Len(l)
    BY <1>1, <1>3, <2>2 DEF AtMostOnce
  <2>3. CASE p \in 1..Len(l) /\ q = Len(l) + 1
    BY <1>1, <1>3, <2>3 DEF Has
  <2>4. CASE p = Len(l) + 1 /\ q \in 1..Len(l)
    BY <1>1, <1>3, <2>4 DEF Has
  <2> QED BY <2>1, <2>2, <2>3, <2>4
<1> QED BY <1>2, <1>3 DEF m

\* Other values stay, and what was there once still is.
LEMMA WithoutOthers ==
  ASSUME NEW V, NEW X, NEW s \in Seq(V), NEW v \in V \ X
  PROVE  /\ Has(Without(s, X), v) <=> Has(s, v)
         /\ AtMostOnce(s, v) => AtMostOnce(Without(s, X), v)
<1>1. PICK f \in [0..Len(s) -> Seq(V \ X)] :
         (\A n \in 0..Len(s) : f[n] = KeptOf(f, s, X, n)) /\ Without(s, X) = f[Len(s)]
  <2>1. Kept(s, V, X)
    BY WithoutKeeps
  <2> QED BY <2>1 DEF Kept
<1> DEFINE Same(k) == /\ Has(f[k], v) <=> \E p \in 1..k : s[p] = v
                      /\ AtMostOnce(s, v) => AtMostOnce(f[k], v)
           bad == {k \in 0..Len(s) : ~Same(k)}
<1>2. SUFFICES ASSUME bad # {} PROVE FALSE
  <2>1. Len(s) \in 0..Len(s)
    BY LenProperties
  <2>2. Same(Len(s))
    BY <1>2, <2>1
  <2> QED BY <1>1, <2>2 DEF Has
<1>3. bad \in SUBSET Nat
  BY LenProperties
<1>4. PICK k \in bad : \A j \in bad : k <= j
  BY <1>2, <1>3, Least
<1>5. /\ k \in 0..Len(s) /\ Len(s) \in Nat
      /\ f[k] = KeptOf(f, s, X, k) /\ f[k] \in Seq(V \ X)
  BY <1>1, <1>4, LenProperties
<1>6. CASE k = 0
  <2>1. f[k] = <<>>
    BY <1>5, <1>6 DEF KeptOf
  <2>2. Len(f[k]) = 0
    BY <2>1, EmptySeq
  <2>3. Same(k)
    BY <1>6, <2>2 DEF Has, AtMostOnce
  <2> QED BY <1>4, <2>3
<1>7. CASE k # 0
  <2>1. k - 1 \in 0..Len(s) /\ ~(k <= k - 1) /\ k \in 1..Len(s)
    BY <1>5, <1>7
  <2>2. k - 1 \notin bad
    BY <1>4, <2>1
  <2>3. Same(k - 1) /\ f[k - 1] \in Seq(V \ X)
    BY <1>1, <2>1, <2>2
  <2>4. s[k] \in V
    BY <2>1
  <2>5. (\E p \in 1..k : s[p] = v) <=> (\E p \in 1..(k - 1) : s[p] = v) \/ s[k] = v
    BY <1>5, <1>7
  <2>6. CASE s[k] \in X
    <3>1. f[k] = f[k - 1] /\ s[k] # v
      BY <1>5, <1>7, <2>6 DEF KeptOf
    <3>2. Same(k)
      BY <2>3, <2>5, <3>1
    <3> QED BY <1>4, <3>2
  <2>7. CASE s[k] \notin X
    <3>1. f[k] = Append(f[k - 1], s[k]) /\ s[k] \in V \ X
      BY <1>5, <1>7, <2>4, <2>7 DEF KeptOf
    <3>2. /\ Has(f[k], v) <=> Has(f[k - 1], v) \/ s[k] = v
          /\ AtMostOnce(f[k - 1], v) /\ (Has(f[k - 1], v) => s[k] # v) => AtMostOnce(f[k], v)
      <4> DEFINE l == f[k - 1]
                 e == s[k]
      <4>1. l \in Seq(V \ X) /\ e \in V \ X /\ f[k] = Append(l, e)
        BY <2>3, <3>1
      <4> HIDE DEF l, e
      <4>2. /\ Has(Append(l, e), v) <=> Has(l, v) \/ e = v
            /\ AtMostOnce(l, v) /\ (Has(l, v) => e # v) => AtMostOnce(Append(l, e), v)
        BY <4>1, AppendHas
      <4> QED BY <4>1, <4>2 DEF l, e
    <3>3. AtMostOnce(s, v) => ((\E p \in 1..(k - 1) : s[p] = v) => s[k] # v)
      <4> SUFFICES ASSUME AtMostOnce(s, v), NEW p \in 1..(k - 1), s[p] = v, s[k] = v
                   PROVE  FALSE
        OBVIOUS
      <4>1. p \in 1..Len(s) /\ p # k
        BY <1>5
      <4> QED BY <2>1, <4>1 DEF AtMostOnce
    <3>4. Same(k)
      BY <2>3, <2>5, <3>2, <3>3
    <3> QED BY <1>4, <3>4
  <2> QED BY <2>6, <2>7
<1> QED BY <1>6, <1>7

-----------------------------------------------------------------------------
(* Inputs and values.                                                      *)

LEMMA Inputs ==
  ASSUME NEW w, WellFormed(w)
  PROVE  /\ \A i \in w.inputs : i.key \in Keys(w) /\ Input(w, i.key) = i
         /\ \A k \in Keys(w) : Input(w, k) \in w.inputs /\ Input(w, k).key = k
<1>1. ASSUME NEW k \in Keys(w) PROVE Input(w, k) \in w.inputs /\ Input(w, k).key = k
  <2>1. \E i \in w.inputs : i.key = k
    BY DEF Keys
  <2> QED BY <2>1 DEF Input
<1>2. ASSUME NEW i \in w.inputs PROVE i.key \in Keys(w) /\ Input(w, i.key) = i
  <2>1. i.key \in Keys(w)
    BY DEF Keys
  <2>2. Input(w, i.key) \in w.inputs /\ Input(w, i.key).key = i.key
    BY <1>1, <2>1
  <2>3. \A j \in w.inputs : j.key = i.key => j = i
    BY DEF WellFormed
  <2> QED BY <2>1, <2>2, <2>3
<1> QED BY <1>1, <1>2

\* None is not a value a user gives.
LEMMA RawIsGiven ==
  ASSUME NEW type \in {"boolean", "number", "text", "file"}
  PROVE  None \notin Raw(type)
BY WorkflowsAssumption DEF Raw, Good, Blank, White, Bad

\* A condition is a switch of the workflow, and a switch has none.
LEMMA Conditions ==
  ASSUME NEW w, WellFormed(w), NEW i \in w.inputs
  PROVE  /\ i.type \in {"boolean", "number", "text", "file"}
         /\ i.type = "boolean" => i.when = None
         /\ i.when # None => /\ i.when \in Keys(w)
                             /\ Input(w, i.when).type = "boolean"
                             /\ Input(w, i.when).when = None
<1>1. /\ i.type \in {"boolean", "number", "text", "file"}
      /\ i.type = "boolean" => i.when = None
  BY DEF WellFormed
<1>2. ASSUME i.when # None
      PROVE  /\ i.when \in Keys(w)
             /\ Input(w, i.when).type = "boolean"
             /\ Input(w, i.when).when = None
  <2>1. PICK j \in w.inputs : j.key = i.when /\ j.type = "boolean"
    BY <1>2 DEF WellFormed
  <2>2. j.when = None
    BY <2>1 DEF WellFormed
  <2>3. j.key \in Keys(w) /\ Input(w, j.key) = j
    BY Inputs
  <2> QED BY <2>1, <2>2, <2>3
<1> QED BY <1>1, <1>2

-----------------------------------------------------------------------------
(* What both requests make: a task that fits its workflow.                 *)

\* A switch without a value was optional and has no default; another input has a
\* value only if its condition is met, and then only lacks one it may lack.
FitsSwitch(i, task) ==
  /\ task[i.key] \notin {Blank, White, Bad}
  /\ task[i.key] = None => ~i.required /\ i.default = None

FitsOther(i, task) ==
  /\ task[i.key] \notin {Blank, White, Bad}
  /\ task[i.key] # None => Met(i, task)
  /\ task[i.key] = None /\ Met(i, task) => ~Required(i, task)

Fits(w, task) ==
  /\ DOMAIN task = Keys(w) /\ task = [k \in Keys(w) |-> task[k]]
  /\ \A i \in w.inputs : IF i.type = "boolean" THEN FitsSwitch(i, task) ELSE FitsOther(i, task)

\* Whoever reads the same switches sees the same conditions.
LEMMA SameSwitches ==
  ASSUME NEW w, WellFormed(w), NEW a, NEW b, NEW i \in w.inputs,
         \A k \in Keys(w) : Input(w, k).type = "boolean" => a[k] = b[k]
  PROVE  Met(i, a) = Met(i, b) /\ Required(i, a) = Required(i, b)
<1>1. i.when # None => a[i.when] = b[i.when]
  BY Conditions
<1> QED BY <1>1 DEF Met, Required

LEMMA SwitchesAre ==
  ASSUME NEW w, WellFormed(w), NEW data, NEW i \in w.inputs, i.type = "boolean"
  PROVE  Switches(w, data)[i.key] = Asked(i, data)
<1>1. i.key \in Keys(w) /\ Input(w, i.key) = i
  BY Inputs
<1> QED BY <1>1 DEF Switches

\* Switches of a task that fits are its own.
LEMMA FittingSwitches ==
  ASSUME NEW w, WellFormed(w), NEW task, Fits(w, task)
  PROVE  \A k \in Keys(w) : Input(w, k).type = "boolean" => Switches(w, task)[k] = task[k]
<1> SUFFICES ASSUME NEW k \in Keys(w), Input(w, k).type = "boolean"
             PROVE  Switches(w, task)[k] = task[k]
  OBVIOUS
<1> DEFINE i == Input(w, k)
<1>1. i \in w.inputs /\ i.key = k
  BY Inputs
<1>2. FitsSwitch(i, task)
  BY <1>1 DEF Fits
<1>3. Asked(i, task) = task[i.key]
  BY <1>2 DEF FitsSwitch, Asked
<1>4. Switches(w, task)[i.key] = Asked(i, task)
  BY <1>1, SwitchesAre
<1> QED BY <1>1, <1>3, <1>4

\* /api/run accepts a task that fits and leaves it as it is.
LEMMA FitIsARun ==
  ASSUME NEW w, WellFormed(w), NEW task, Fits(w, task)
  PROVE  Run(w, task) = [ok |-> TRUE, inputs |-> task]
<1> DEFINE s == Switches(w, task)
<1>1. ASSUME NEW i \in w.inputs
      PROVE  ~Rejects(i, task, s) /\ Resolved(i, task, s) = task[i.key]
  <2>1. Met(i, s) = Met(i, task) /\ Required(i, s) = Required(i, task)
    <3>1. \A k \in Keys(w) : Input(w, k).type = "boolean" => s[k] = task[k]
      BY FittingSwitches
    <3> HIDE DEF s
    <3> QED BY <3>1, SameSwitches
  <2>2. CASE i.type = "boolean"
    <3>1. FitsSwitch(i, task) /\ i.when = None
      BY <2>2, Conditions DEF Fits
    <3>2. Asked(i, task) = task[i.key]
      BY <2>2, <3>1 DEF FitsSwitch, Asked
    <3>3. Resolved(i, task, s) = task[i.key]
      BY <2>2, <3>2 DEF Resolved
    <3>4. ~Rejects(i, task, s)
      BY <2>2, <3>1, <3>2 DEF Rejects, FitsSwitch, Required
    <3> QED BY <3>3, <3>4
  <2>3. CASE i.type # "boolean"
    <3>1. FitsOther(i, task)
      BY <2>3 DEF Fits
    <3>2. CASE task[i.key] # None
      <4>1. Asked(i, task) = task[i.key] /\ Met(i, s)
        BY <2>1, <3>1, <3>2 DEF FitsOther, Asked
      <4>2. ~Missing(Asked(i, task)) /\ Asked(i, task) \notin {White, Bad}
        BY <3>1, <3>2, <4>1 DEF Missing, FitsOther
      <4> QED BY <2>3, <4>1, <4>2 DEF Rejects, Resolved
    <3>3. CASE task[i.key] = None
      <4>1. Asked(i, task) = i.default
        BY <3>3, WorkflowsAssumption DEF Asked
      <4>2. CASE ~Met(i, s)
        BY <2>3, <3>3, <4>2 DEF Rejects, Resolved
      <4>3. CASE Met(i, s)
        <5>1. ~Required(i, task)
          BY <2>1, <3>1, <3>3, <4>3 DEF FitsOther
        <5>2. i.when = None /\ ~i.required
          BY <2>1, <4>3, <5>1 DEF Required
        <5>3. i.default = None
          BY <2>3, <5>2 DEF WellFormed
        <5>4. Missing(None) /\ None \notin {White, Bad}
          BY WorkflowsAssumption DEF Missing
        <5> QED BY <2>1, <2>3, <3>3, <4>1, <5>1, <5>3, <5>4 DEF Rejects, Resolved
      <4> QED BY <4>2, <4>3
    <3> QED BY <3>2, <3>3
  <2> QED BY <2>2, <2>3
<1> HIDE DEF s
<1>2. \A k \in Keys(w) : Resolved(Input(w, k), task, s) = task[k]
  BY <1>1, Inputs
<1>3. [k \in Keys(w) |-> Resolved(Input(w, k), task, s)] = task
  <2>1. [k \in Keys(w) |-> Resolved(Input(w, k), task, s)] = [k \in Keys(w) |-> task[k]]
    BY <1>2
  <2> QED BY <2>1 DEF Fits
<1>4. (\A i \in w.inputs : ~Rejects(i, task, s)) = TRUE
  BY <1>1
<1> QED BY <1>3, <1>4 DEF Run, s

\* A value required of the user is there.
LEMMA SuppliedIsThere ==
  ASSUME NEW w, WellFormed(w), NEW task, Fits(w, task), NEW key, Supplies(w, key)
  PROVE  task[key] \notin {None, Blank, White, Bad}
<1>1. PICK i \in w.inputs : i.key = key /\ i.required /\ i.when = None
  BY DEF Supplies
<1>2. CASE i.type = "boolean"
  BY <1>1, <1>2 DEF Fits, FitsSwitch
<1>3. CASE i.type # "boolean"
  BY <1>1, <1>3 DEF Fits, FitsOther, Met, Required
<1> QED BY <1>2, <1>3

\* The runner takes a task that fits.
LEMMA FitIsTaken ==
  ASSUME NEW w, WellFormed(w), NEW task, Fits(w, task)
  PROVE  RunnerTakes(w, task)
<1>1. ASSUME NEW u \in w.uploads PROVE ResolvesUpload(u, task)
  <2>1. u.required => Supplies(w, u.key) \/ (u.fallback # None /\ Supplies(w, u.fallback))
    BY DEF WellFormed
  <2>2. CASE ~u.required
    BY <2>2 DEF ResolvesUpload
  <2>3. CASE Supplies(w, u.key)
    <3>1. task[u.key] # None
      BY <2>3, SuppliedIsThere
    <3> QED BY <3>1 DEF ResolvesUpload
  <2>4. CASE u.fallback # None /\ Supplies(w, u.fallback)
    <3>1. task[u.fallback] # None
      BY <2>4, SuppliedIsThere
    <3> QED BY <2>4, <3>1 DEF ResolvesUpload
  <2> QED BY <2>1, <2>2, <2>3, <2>4
<1>2. ASSUME NEW t \in w.texts PROVE ResolvesText(t, task)
  <2>1. t.required => Supplies(w, t.key)
    BY DEF WellFormed
  <2>2. CASE Supplies(w, t.key)
    <3>1. task[t.key] \notin {None, Blank, White, Bad}
      BY <2>2, SuppliedIsThere
    <3> QED BY <3>1 DEF ResolvesText, Missing
  <2> QED BY <2>1, <2>2 DEF ResolvesText
<1>3. ASSUME NEW d \in w.widgets PROVE ResolvesWidget(d, task)
  <2>1. /\ d.key \in Keys(w) /\ d.default \notin {Blank, White, Bad}
        /\ d.required => d.default # None \/ Supplies(w, d.key)
    BY DEF WellFormed
  <2>2. task[d.key] \notin {Blank, White, Bad}
    <3>1. PICK i \in w.inputs : i.key = d.key
      BY <2>1 DEF Keys
    <3> QED BY <3>1 DEF Fits, FitsSwitch, FitsOther
  <2>3. CASE task[d.key] # None
    BY <2>2, <2>3 DEF ResolvesWidget
  <2>4. CASE task[d.key] = None
    <3>1. ~Supplies(w, d.key)
      BY <2>4, SuppliedIsThere
    <3> QED BY <2>1, <2>4, <3>1 DEF ResolvesWidget
  <2> QED BY <2>3, <2>4
<1> QED BY <1>1, <1>2, <1>3 DEF RunnerTakes

\* /api/run only makes tasks that fit.
LEMMA RunFits ==
  ASSUME NEW w, WellFormed(w), NEW data, Run(w, data).ok
  PROVE  Fits(w, Run(w, data).inputs)
<1> DEFINE s == Switches(w, data)
           task == [k \in Keys(w) |-> Resolved(Input(w, k), data, s)]
<1>1. Run(w, data) = [ok |-> \A i \in w.inputs : ~Rejects(i, data, s), inputs |-> task]
  BY DEF Run
<1>2. ASSUME NEW i \in w.inputs
      PROVE  ~Rejects(i, data, s) /\ task[i.key] = Resolved(i, data, s)
  <2>1. i.key \in Keys(w) /\ Input(w, i.key) = i
    BY Inputs
  <2> HIDE DEF s
  <2>2. task[i.key] = Resolved(i, data, s)
    BY <2>1
  <2> HIDE DEF task
  <2>3. \A j \in w.inputs : ~Rejects(j, data, s)
    BY <1>1
  <2> QED BY <2>2, <2>3
<1>3. ASSUME NEW i \in w.inputs, i.type = "boolean"
      PROVE  task[i.key] = s[i.key] /\ FitsSwitch(i, task)
  <2>1. task[i.key] = Asked(i, data) /\ s[i.key] = Asked(i, data)
    BY <1>2, <1>3, SwitchesAre DEF Resolved
  <2> HIDE DEF s, task
  <2>2. i.when = None
    BY <1>3, Conditions
  <2>3. CASE Asked(i, data) = None
    <3>1. ~i.required
      BY <1>2, <1>3, <2>2, <2>3 DEF Rejects, Required
    <3>2. i.default = None
      BY <1>3, <2>3 DEF Asked
    <3>3. None \notin {Blank, White, Bad}
      BY WorkflowsAssumption
    <3> QED BY <2>1, <2>3, <3>1, <3>2, <3>3 DEF FitsSwitch
  <2>4. CASE Asked(i, data) # None
    <3>1. Asked(i, data) \notin {Blank, White, Bad}
      BY <1>2, <1>3, <2>4 DEF Rejects
    <3> QED BY <2>1, <2>4, <3>1 DEF FitsSwitch
  <2> QED BY <2>3, <2>4
<1>4. \A k \in Keys(w) : Input(w, k).type = "boolean" => s[k] = task[k]
  <2> HIDE DEF s, task
  <2> QED BY <1>3, Inputs
<1>5. ASSUME NEW i \in w.inputs, i.type # "boolean"
      PROVE  FitsOther(i, task)
  <2> HIDE DEF s, task
  <2>1. Met(i, s) = Met(i, task) /\ Required(i, s) = Required(i, task)
    BY <1>4, SameSwitches
  <2>2. None \notin {Blank, White, Bad}
    BY WorkflowsAssumption
  <2>3. CASE ~Met(i, s) \/ Missing(Asked(i, data))
    <3>1. task[i.key] = None
      BY <1>2, <1>5, <2>3 DEF Resolved
    <3>2. Met(i, s) => ~Required(i, s)
      BY <1>2, <1>5, <2>3 DEF Rejects
    <3> QED BY <2>1, <2>2, <3>1, <3>2 DEF FitsOther
  <2>4. CASE Met(i, s) /\ ~Missing(Asked(i, data))
    <3>1. task[i.key] = Asked(i, data)
      BY <1>2, <1>5, <2>4 DEF Resolved
    <3>2. Asked(i, data) \notin {White, Bad}
      BY <1>2, <1>5, <2>4 DEF Rejects
    <3> QED BY <2>1, <2>4, <3>1, <3>2 DEF FitsOther, Missing
  <2> QED BY <2>3, <2>4
<1>6. DOMAIN task = Keys(w) /\ task = [k \in Keys(w) |-> task[k]]
  OBVIOUS
<1>7. Run(w, data).inputs = task
  BY <1>1
<1> HIDE DEF task
<1>8. Fits(w, task)
  BY <1>3, <1>5, <1>6 DEF Fits
<1> QED BY <1>7, <1>8

-----------------------------------------------------------------------------
(* The lists of a batch.                                                   *)

FormOk ==
  /\ chosen \in Workflows
  /\ DOMAIN form = Keys(chosen) /\ form = [k \in Keys(chosen) |-> form[k]]
  /\ \A k \in Keys(chosen) : form[k] = None \/ form[k] \in Seq(Raw(Input(chosen, k).type))

\* The values of a list are those the user can give, or the default.
Listed(i) == (Raw(i.type) \cup {i.default}) \ {None}

LEMMA ListType ==
  ASSUME FormOk, NEW i \in chosen.inputs
  PROVE  /\ List(i) \in Seq(Listed(i))
         /\ form[i.key] # None /\ form[i.key] # <<>> => List(i) = form[i.key]
<1>1. WellFormed(chosen) /\ i.key \in Keys(chosen) /\ Input(chosen, i.key) = i
  BY WorkflowsAssumption, Inputs DEF FormOk
<1>2. form[i.key] = None \/ form[i.key] \in Seq(Raw(i.type))
  BY <1>1 DEF FormOk
<1>3. None \notin Raw(i.type)
  BY <1>1, Conditions, RawIsGiven
<1>4. Raw(i.type) \subseteq Listed(i) /\ (i.default # None => i.default \in Listed(i))
  BY <1>3 DEF Listed
<1>5. List(i) \in {form[i.key], <<i.default>>, <<>>}
  BY DEF List
<1>6. form[i.key] # None => form[i.key] \in Seq(Listed(i))
  <2> SUFFICES ASSUME form[i.key] # None PROVE form[i.key] \in Seq(Listed(i))
    OBVIOUS
  <2>1. form[i.key] \in Seq(Raw(i.type))
    BY <1>2
  <2> HIDE DEF Listed
  <2> QED BY <1>4, <2>1, SeqMonotonic
<1>7. <<>> \in Seq(Listed(i))
  BY EmptySeq
<1>8. i.default # None => <<i.default>> \in Seq(Listed(i))
  BY <1>4
<1>9. List(i) \in Seq(Listed(i))
  <2>1. CASE form[i.key] = None /\ i.default # None
    BY <1>8, <2>1 DEF List
  <2>2. CASE form[i.key] # None /\ form[i.key] = <<>> /\ i.default # None /\ i.type \in {"text", "number"}
    BY <1>8, <2>2 DEF List
  <2>3. CASE form[i.key] = None /\ i.default = None
    <3>1. List(i) \in {<<i.default>>, <<>>} /\ (form[i.key] = <<>> => List(i) = <<>>)
      BY <2>3 DEF List
    <3> QED BY <1>7, <2>3 DEF List
  <2>4. CASE form[i.key] # None /\ ~(form[i.key] = <<>> /\ i.default # None /\ i.type \in {"text", "number"})
    BY <1>6, <2>4 DEF List
  <2> QED BY <2>1, <2>2, <2>3, <2>4
<1>10. form[i.key] # None /\ form[i.key] # <<>> => List(i) = form[i.key]
  BY DEF List
<1> QED BY <1>9, <1>10

LEMMA ValuesType ==
  ASSUME FormOk, NEW i \in chosen.inputs
  PROVE  Values(i) \in Seq(Listed(i) \cup {None}) /\ Len(Values(i)) \in Nat \ {0}
<1> DEFINE X == IF i.type = "boolean" THEN {} ELSE {Blank, White}
           kept == Without(List(i), X)
<1>1. List(i) \in Seq(Listed(i))
  BY ListType
<1>2. kept \in Seq(Listed(i) \ X)
  <2> HIDE DEF X
  <2> QED BY <1>1, WithoutType
<1>3. kept \in Seq(Listed(i) \cup {None})
  <2> HIDE DEF X, kept
  <2>1. Listed(i) \ X \subseteq Listed(i) \cup {None}
    OBVIOUS
  <2> QED BY <1>2, <2>1, SeqMonotonic
<1>4. Values(i) = IF kept = <<>> THEN <<None>> ELSE kept
  BY DEF Values
<1> HIDE DEF kept, X
<1>5. CASE kept = <<>>
  BY <1>4, <1>5
<1>6. CASE kept # <<>>
  BY <1>3, <1>4, <1>6, EmptySeq
<1> QED BY <1>5, <1>6

\* A list that is not refused holds good values, or none at all.
LEMMA ValuesGood ==
  ASSUME FormOk, NEW i \in chosen.inputs, ~Malformed(i), NEW n \in 1..Len(Values(i))
  PROVE  /\ Values(i)[n] \notin {Blank, White, Bad}
         /\ i.type = "boolean" => Values(i)[n] # None
<1> DEFINE X == IF i.type = "boolean" THEN {} ELSE {Blank, White}
           kept == Without(List(i), X)
           good == Listed(i) \ {Blank, White, Bad}
<1>1. List(i) \in Seq(Listed(i))
  BY ListType
<1>2. None \notin {Blank, White, Bad}
  BY WorkflowsAssumption
<1>3. Values(i) = IF kept = <<>> THEN <<None>> ELSE kept
  BY DEF Values
<1>4. \A m \in 1..Len(List(i)) : List(i)[m] \in Range(List(i)) /\ List(i)[m] \in Listed(i)
  <2>1. DOMAIN List(i) = 1..Len(List(i))
    BY <1>1, LenProperties
  <2> QED BY <1>1, <2>1 DEF Range
<1>5. CASE i.type = "boolean"
  <2>1. X = {} /\ List(i) # <<>> /\ \A m \in 1..Len(List(i)) : List(i)[m] \in good
    BY <1>4, <1>5 DEF Malformed
  <2>2. List(i) \in Seq(good)
    BY <1>1, <2>1
  <2> HIDE DEF X, good
  <2>3. kept \in Seq(good \ X)
    BY <2>2, WithoutType
  <2>4. 1 \in 1..Len(List(i))
    BY <1>1, <2>1, EmptySeq
  <2> DEFINE first == List(i)[1]
  <2>5. first \in good \ X /\ Has(List(i), first)
    BY <2>1, <2>4 DEF Has
  <2> HIDE DEF first
  <2>6. Has(kept, first)
    BY <2>2, <2>5, WithoutOthers
  <2>7. kept # <<>>
    <3> SUFFICES ASSUME kept = <<>> PROVE FALSE
      OBVIOUS
    <3>1. Len(kept) = 0
      BY EmptySeq
    <3> QED BY <2>6, <3>1 DEF Has
  <2>8. Values(i)[n] \in good
    BY <1>3, <2>1, <2>3, <2>7
  <2> QED BY <2>8 DEF good, Listed
<1>6. CASE i.type # "boolean"
  <2>1. X = {Blank, White} /\ \A m \in 1..Len(List(i)) : List(i)[m] \in Listed(i) \ {Bad}
    BY <1>4, <1>6 DEF Malformed
  <2>2. List(i) \in Seq(Listed(i) \ {Bad})
    BY <1>1, <2>1
  <2> HIDE DEF X
  <2>3. kept \in Seq((Listed(i) \ {Bad}) \ X)
    BY <2>2, WithoutType
  <2> HIDE DEF kept
  <2>4. CASE kept = <<>>
    <3>1. n = 1
      BY <1>3, <2>4
    <3> QED BY <1>2, <1>3, <1>6, <2>4, <3>1
  <2>5. CASE kept # <<>>
    BY <1>3, <1>6, <2>1, <2>3, <2>5
  <2> QED BY <2>4, <2>5
<1> QED BY <1>5, <1>6

\* No usable value is lost on the way.
LEMMA UsableKept ==
  ASSUME FormOk, NEW i \in chosen.inputs
  PROVE  Len(Usable(i.key)) \in Nat /\ Len(Usable(i.key)) <= Len(Values(i))
<1>1. WellFormed(chosen) /\ i.key \in Keys(chosen) /\ Input(chosen, i.key) = i
  BY WorkflowsAssumption, Inputs DEF FormOk
<1>2. form[i.key] = None \/ form[i.key] \in Seq(Raw(i.type))
  BY <1>1 DEF FormOk
<1>3. Len(Values(i)) \in Nat \ {0} /\ Len(<<>>) = 0
  BY ValuesType, EmptySeq
<1>4. CASE form[i.key] = None
  BY <1>3, <1>4 DEF Usable
<1>5. CASE form[i.key] # None
  <2>1. Usable(i.key) = Without(form[i.key], {Blank, White, Bad}) /\ form[i.key] \in Seq(Raw(i.type))
    BY <1>2, <1>5 DEF Usable
  <2>2. Usable(i.key) \in Seq(Raw(i.type) \ {Blank, White, Bad})
    BY <2>1, WithoutType
  <2>3. CASE form[i.key] = <<>>
    <3>1. Without(form[i.key], {Blank, White, Bad}) = <<>>
      <4>1. form[i.key] \in Seq({})
        BY <2>3, EmptySeq
      <4>2. Usable(i.key) \in Seq({} \ {Blank, White, Bad})
        BY <2>1, <4>1, WithoutType
      <4> QED BY <2>1, <4>2
    <3> QED BY <1>3, <2>1, <3>1
  <2>4. CASE form[i.key] # <<>>
    <3> DEFINE X == IF i.type = "boolean" THEN {} ELSE {Blank, White}
               kept == Without(List(i), X)
    <3>1. List(i) = form[i.key] /\ List(i) \in Seq(Raw(i.type))
      BY <1>5, <2>1, <2>4, ListType
    <3>2. X \subseteq {Blank, White, Bad}
      OBVIOUS
    <3>3. Values(i) = IF kept = <<>> THEN <<None>> ELSE kept
      BY DEF Values
    <3> HIDE DEF X
    <3>4. Len(Usable(i.key)) <= Len(kept) /\ kept \in Seq(Raw(i.type) \ X)
      BY <2>1, <3>1, <3>2, WithoutMore, WithoutType
    <3> HIDE DEF kept
    <3>5. Len(kept) <= Len(Values(i)) /\ Len(kept) \in Nat
      BY <3>3, <3>4, EmptySeq
    <3> QED BY <1>3, <2>2, <3>4, <3>5, LenProperties
  <2> QED BY <2>3, <2>4
<1> QED BY <1>4, <1>5

\* There are as many groups as the longest list has values.
LEMMA GroupsType ==
  ASSUME FormOk
  PROVE  /\ Groups(chosen) \in Nat \ {0}
         /\ \A i \in chosen.inputs : Len(Values(i)) <= Groups(chosen)
         /\ \E i \in chosen.inputs : Len(Values(i)) = Groups(chosen)
<1> DEFINE I == chosen.inputs
           len == [i \in I |-> Len(Values(i))]
<1>1. WellFormed(chosen)
  BY WorkflowsAssumption DEF FormOk
<1>2. I # {} /\ IsFiniteSet(I)
  BY <1>1 DEF WellFormed
<1>3. \A i \in I : Len(Values(i)) \in Nat \ {0}
  BY ValuesType
<1>4. len \in [I -> Nat]
  BY <1>3
<1>5. \A i \in I : len[i] = Len(Values(i))
  OBVIOUS
<1> HIDE DEF len
<1>6. \E i \in I : \A j \in I : len[i] >= len[j]
  <2> HIDE DEF I
  <2> QED BY <1>2, <1>4, Longest
<1>7. \E n \in {Len(Values(i)) : i \in I} : \A i \in I : n >= Len(Values(i))
  BY <1>5, <1>6
<1>8. /\ Groups(chosen) \in {Len(Values(i)) : i \in I}
      /\ \A i \in I : Groups(chosen) >= Len(Values(i))
  BY <1>7 DEF Groups
<1> QED BY <1>3, <1>8

LEMMA CandidateIs ==
  ASSUME FormOk, NEW i \in chosen.inputs, NEW g \in Nat \ {0}
  PROVE  /\ ((g - 1) % Len(Values(i))) + 1 \in 1..Len(Values(i))
         /\ Candidate(chosen, g)[i.key] = Values(i)[((g - 1) % Len(Values(i))) + 1]
<1>1. WellFormed(chosen)
  BY WorkflowsAssumption DEF FormOk
<1>2. i.key \in Keys(chosen) /\ Input(chosen, i.key) = i
  BY <1>1, Inputs
<1>3. Len(Values(i)) \in Nat \ {0}
  BY ValuesType
<1> DEFINE L == Len(Values(i))
<1>4. ((g - 1) % L) + 1 \in 1..L
  <2> HIDE DEF L
  <2>1. L \in Nat \ {0} /\ g - 1 \in Nat
    BY <1>3 DEF L
  <2> QED BY <2>1
<1> QED BY <1>2, <1>4 DEF Candidate

\* A group that lacks nothing is a task that fits, and the conditions decide the
\* same on the task as on the group.
LEMMA CombinationFits ==
  ASSUME FormOk, \A i \in chosen.inputs : ~Malformed(i),
         NEW g \in Nat \ {0}, ~Lacks(chosen, Candidate(chosen, g))
  PROVE  Fits(chosen, Combination(chosen, Candidate(chosen, g)))
<1> DEFINE cand == Candidate(chosen, g)
           task == Combination(chosen, cand)
<1>1. WellFormed(chosen)
  BY WorkflowsAssumption DEF FormOk
<1>2. ASSUME NEW i \in chosen.inputs
      PROVE  /\ cand[i.key] \notin {Blank, White, Bad}
             /\ i.type = "boolean" => cand[i.key] # None
  BY <1>2, CandidateIs, ValuesGood
<1>3. task = [k \in Keys(chosen) |-> IF Met(Input(chosen, k), cand) THEN cand[k] ELSE None]
  BY DEF Combination
<1>4. ~Lacks(chosen, cand)
  OBVIOUS
<1> HIDE DEF cand, task
<1>5. ASSUME NEW i \in chosen.inputs
      PROVE  task[i.key] = IF Met(i, cand) THEN cand[i.key] ELSE None
  <2>1. i.key \in Keys(chosen) /\ Input(chosen, i.key) = i
    BY <1>1, Inputs
  <2> QED BY <1>3, <2>1
<1>6. ASSUME NEW i \in chosen.inputs, i.type = "boolean"
      PROVE  task[i.key] = cand[i.key]
  <2>1. Met(i, cand)
    BY <1>1, <1>6, Conditions DEF Met
  <2> QED BY <1>5, <2>1
<1>7. \A k \in Keys(chosen) : Input(chosen, k).type = "boolean" => task[k] = cand[k]
  BY <1>1, <1>6, Inputs
<1>8. ASSUME NEW i \in chosen.inputs, i.type = "boolean"
      PROVE  FitsSwitch(i, task)
  BY <1>2, <1>6, <1>8 DEF FitsSwitch
<1>9. ASSUME NEW i \in chosen.inputs, i.type # "boolean"
      PROVE  FitsOther(i, task)
  <2>1. Met(i, task) = Met(i, cand) /\ Required(i, task) = Required(i, cand)
    BY <1>1, <1>7, SameSwitches
  <2>2. None \notin {Blank, White, Bad}
    BY WorkflowsAssumption
  <2>3. ~(Required(i, cand) /\ cand[i.key] = None)
    BY <1>4 DEF Lacks
  <2>4. CASE Met(i, cand)
    BY <1>2, <1>5, <2>1, <2>3, <2>4 DEF FitsOther
  <2>5. CASE ~Met(i, cand)
    BY <1>5, <2>1, <2>2, <2>5 DEF FitsOther
  <2> QED BY <2>4, <2>5
<1>10. DOMAIN task = Keys(chosen) /\ task = [k \in Keys(chosen) |-> task[k]]
  BY <1>3
<1>11. Fits(chosen, task)
  BY <1>8, <1>9, <1>10 DEF Fits
<1> QED BY <1>11 DEF task, cand

-----------------------------------------------------------------------------
(* Arithmetic of the batch.                                                *)

LEMMA GroupOf ==
  ASSUME NEW G \in Nat, NEW r \in Nat \ {0}, NEW n \in 1..(G * r)
  PROVE  /\ ((n - 1) \div r) + 1 \in 1..G
         /\ G * r \in Nat
<1>1. n - 1 \in Nat /\ n - 1 < G * r
  BY SMT
<1> DEFINE m == n - 1
<1> HIDE DEF m
<1>2. m \in Nat /\ m < G * r
  BY <1>1 DEF m
<1>3. (m \div r) \in Nat /\ (m \div r) < G
  BY <1>2
<1>4. (m \div r) + 1 \in 1..G
  BY <1>3
<1> QED BY <1>4 DEF m

LEMMA Repeated ==
  ASSUME NEW G \in Nat \ {0}, NEW r \in Nat \ {0}
  PROVE  /\ G * r \in Nat \ {0}
         /\ \A n \in Nat : n <= G => G * r >= r * n
OBVIOUS

\* An accepted batch: what is made of the lists of the form.
LEMMA BatchIs ==
  ASSUME FormOk, NEW repeat, Batch(chosen, repeat).ok
  PROVE  LET tasks == Batch(chosen, repeat).tasks IN
         /\ repeat \in 1..MaxRepeat
         /\ Groups(chosen) * repeat \in 1..MaxTasks
         /\ DOMAIN tasks = 1..(Groups(chosen) * repeat)
         /\ tasks \in Seq({tasks[n] : n \in DOMAIN tasks})
         /\ Len(tasks) = Groups(chosen) * repeat
         /\ \A i \in chosen.inputs : ~Malformed(i)
         /\ \A n \in DOMAIN tasks :
              /\ ((n - 1) \div repeat) + 1 \in 1..Groups(chosen)
              /\ tasks[n] = Combination(chosen, Candidate(chosen, ((n - 1) \div repeat) + 1))
         /\ \A g \in 1..Groups(chosen) : ~Lacks(chosen, Candidate(chosen, g))
<1> DEFINE G == Groups(chosen)
           task(n) == Combination(chosen, Candidate(chosen, ((n - 1) \div repeat) + 1))
           tasks == Batch(chosen, repeat).tasks
<1>1. /\ repeat \in 1..MaxRepeat
      /\ \A i \in chosen.inputs : ~Malformed(i)
      /\ ~TooMany(chosen, repeat)
      /\ \A g \in 1..G : ~Lacks(chosen, Candidate(chosen, g))
  BY DEF Batch
<1>2. tasks = [n \in 1..(G * repeat) |-> task(n)]
  BY DEF Batch
<1>3. G \in Nat \ {0} /\ repeat \in Nat \ {0}
  BY <1>1, GroupsType, BatchAssumption
<1>4. ~(G * repeat > MaxTasks)
  BY <1>1 DEF TooMany
<1> HIDE DEF G
<1>5. G * repeat \in Nat \ {0} /\ G * repeat \in 1..MaxTasks
  BY <1>3, <1>4, Repeated, BatchAssumption
<1> HIDE DEF task, tasks
<1>6. DOMAIN tasks = 1..(G * repeat) /\ Len(tasks) = G * repeat
      /\ tasks \in Seq({tasks[n] : n \in DOMAIN tasks})
      /\ \A n \in DOMAIN tasks : tasks[n] = task(n)
  BY <1>2, <1>5
<1>7. \A n \in DOMAIN tasks : ((n - 1) \div repeat) + 1 \in 1..G
  BY <1>3, <1>6, GroupOf
<1> QED BY <1>1, <1>5, <1>6, <1>7 DEF G, task, tasks

-----------------------------------------------------------------------------
(* Lists that are cycled.                                                  *)

LEMMA Division ==
  ASSUME NEW a \in Nat, NEW b \in Nat \ {0}
  PROVE  a = ((a \div b) * b) + (a % b) /\ a % b \in 0..(b - 1) /\ a \div b \in Nat
OBVIOUS

LEMMA DivisionIsUnique ==
  ASSUME NEW k \in Nat, NEW b \in Nat \ {0}, NEW c \in 0..(b - 1), NEW a, a = (k * b) + c
  PROVE  a \div b = k /\ a % b = c
OBVIOUS

LEMMA Multiples ==
  ASSUME NEW k \in Nat, NEW j \in Nat, k <= j, NEW b \in Nat
  PROVE  k * b <= j * b /\ (j - k) * b = (j * b) - (k * b) /\ k * b \in Nat /\ j * b \in Nat
OBVIOUS

\* The tasks of a position: with lists of length L, those whose group is p in one
\* of the rounds.
At(p, L, r, N) == {n \in 1..N : ((n - 1) \div r) % L = p - 1}

\* Task n moved back by d groups.
LEMMA MovedBack ==
  ASSUME NEW r \in Nat \ {0}, NEW d \in Nat, NEW n \in Nat \ {0},
         d <= ((n - 1) \div r)
  PROVE  /\ n - (d * r) \in Nat \ {0} /\ n - (d * r) <= n
         /\ ((n - (d * r)) - 1) \div r = ((n - 1) \div r) - d
<1> DEFINE a == n - 1
           x == a \div r
           c == a % r
<1>1. a \in Nat /\ a + 1 = n
  OBVIOUS
<1> HIDE DEF a
<1>2. a = (x * r) + c /\ c \in 0..(r - 1) /\ x \in Nat
  BY <1>1, Division
<1>3. d <= x
  BY DEF a
<1> HIDE DEF x, c
<1>4. (x - d) * r = (x * r) - (d * r) /\ d * r <= x * r /\ d * r \in Nat /\ x * r \in Nat
  BY <1>2, <1>3, Multiples
<1>5. x - d \in Nat
  BY <1>2, <1>3
<1>6. ((n - (d * r)) - 1) = ((x - d) * r) + c
  BY <1>1, <1>2, <1>4
<1>7. ((n - (d * r)) - 1) \div r = x - d
  <2> DEFINE b == (n - (d * r)) - 1
             k == x - d
  <2>1. k \in Nat /\ b = (k * r) + c
    BY <1>5, <1>6
  <2> HIDE DEF b, k
  <2>2. b \div r = k
    BY <1>2, <2>1, DivisionIsUnique
  <2> QED BY <2>2 DEF b, k
<1>8. n - (d * r) \in Nat \ {0} /\ n - (d * r) <= n
  BY <1>1, <1>2, <1>4
<1> QED BY <1>7, <1>8 DEF x, a

\* What can be moved into a set is no larger than it.
LEMMA MovedInto ==
  ASSUME NEW N \in Nat, NEW A \in SUBSET (1..N), NEW B \in SUBSET (1..N),
         NEW c \in Nat, \A n \in A : n - c \in B
  PROVE  /\ IsFiniteSet(A) /\ IsFiniteSet(B)
         /\ Cardinality(A) \in Nat /\ Cardinality(B) \in Nat
         /\ Cardinality(A) <= Cardinality(B)
<1>1. IsFiniteSet(A) /\ IsFiniteSet(B)
  <2>1. IsFiniteSet(1..N)
    BY FS_Interval
  <2> QED BY <2>1, FS_Subset
<1> DEFINE f == [n \in A |-> n - c]
<1>2. f \in [A -> B]
  OBVIOUS
<1>3. \A m, n \in A : f[m] = f[n] => m = n
  OBVIOUS
<1>4. f \in Injection(A, B)
  <2> HIDE DEF f
  <2> QED BY <1>2, <1>3 DEF Injection, IsInjective
<1>5. Cardinality(A) <= Cardinality(B)
  <2> HIDE DEF f
  <2> QED BY <1>1, <1>4, FS_Injection
<1> QED BY <1>1, <1>5, FS_CardinalityType

\* Every position of a list has a task,
LEMMA PositionServed ==
  ASSUME NEW L \in Nat \ {0}, NEW G \in Nat, L <= G, NEW r \in Nat \ {0}, NEW p \in 1..L
  PROVE  At(p, L, r, G * r) # {}
<1> DEFINE k == p - 1
           n == (k * r) + 1
<1>1. k \in Nat /\ k + 1 <= G /\ k + 1 \in Nat /\ k < L
  OBVIOUS
<1>2. (k + 1) * r <= G * r /\ (k + 1) * r = (k * r) + r /\ k * r \in Nat /\ G * r \in Nat
  BY <1>1, Multiples
<1> HIDE DEF k
<1>3. n \in 1..(G * r)
  BY <1>2
<1>4. (n - 1) \div r = k
  <2>1. n - 1 = (k * r) + 0 /\ 0 \in 0..(r - 1)
    BY <1>2
  <2> HIDE DEF n
  <2> QED BY <1>1, <2>1, DivisionIsUnique
<1>5. k % L = k
  BY <1>1
<1> HIDE DEF n
<1>6. n \in At(p, L, r, G * r)
  BY <1>3, <1>4, <1>5 DEF At, k
<1> QED BY <1>6

\* and no position has more tasks than another but for one round.
LEMMA PositionsEven ==
  ASSUME NEW L \in Nat \ {0}, NEW N \in Nat, NEW r \in Nat \ {0},
         NEW p \in 1..L, NEW q \in 1..L
  PROVE  /\ Cardinality(At(p, L, r, N)) \in Nat /\ Cardinality(At(q, L, r, N)) \in Nat
         /\ Cardinality(At(p, L, r, N)) <= Cardinality(At(q, L, r, N)) + r
<1> DEFINE A == At(p, L, r, N)
           B == At(q, L, r, N)
           x(n) == (n - 1) \div r
<1>1. A \in SUBSET (1..N) /\ B \in SUBSET (1..N)
  BY DEF At
<1>2. ASSUME NEW n \in 1..N
      PROVE  /\ x(n) \in Nat /\ (x(n) \div L) \in Nat
             /\ x(n) = ((x(n) \div L) * L) + (x(n) % L)
             /\ n = (x(n) * r) + ((n - 1) % r) + 1 /\ (n - 1) % r \in 0..(r - 1)
  <2>1. n - 1 \in Nat
    OBVIOUS
  <2>2. x(n) \in Nat /\ n - 1 = (x(n) * r) + ((n - 1) % r) /\ (n - 1) % r \in 0..(r - 1)
    BY <2>1, Division
  <2>3. x(n) * r \in Nat
    BY <2>2
  <2> HIDE DEF x
  <2>4. x(n) = ((x(n) \div L) * L) + (x(n) % L) /\ (x(n) \div L) \in Nat
    BY <2>2, Division
  <2> QED BY <2>1, <2>2, <2>3, <2>4
<1>3. ASSUME NEW n \in A
      PROVE  n \in 1..N /\ x(n) % L = p - 1 /\ x(n) = ((x(n) \div L) * L) + (p - 1)
  <2>1. n \in 1..N /\ x(n) % L = p - 1
    BY DEF At
  <2> HIDE DEF x, A
  <2> QED BY <1>2, <2>1
<1>4. ASSUME NEW n \in A, NEW d \in Nat, NEW k \in Nat, x(n) - d = (k * L) + (q - 1)
      PROVE  n - (d * r) \in B
  <2>1. n \in 1..N /\ x(n) \in Nat
    BY <1>2, <1>3
  <2>2. k * L \in Nat
    OBVIOUS
  <2>3. d <= x(n)
    <3> HIDE DEF x
    <3> QED BY <1>4, <2>1, <2>2
  <2>4. n - (d * r) \in 1..N /\ ((n - (d * r)) - 1) \div r = x(n) - d
    BY <2>1, <2>3, MovedBack
  <2> DEFINE y == x(n) - d
             c == q - 1
  <2>5. y = (k * L) + c /\ c \in 0..(L - 1)
    BY <1>4
  <2> HIDE DEF y, c
  <2>6. y % L = c
    BY ONLY <2>5, k \in Nat, L \in Nat \ {0}
  <2> HIDE DEF x
  <2> QED BY <2>4, <2>6 DEF At, y, c
<1> HIDE DEF A, B, x
<1>5. CASE q <= p
  <2> DEFINE c == (p - q) * r
  <2>1. \A n \in A : n - c \in B
    <3> SUFFICES ASSUME NEW n \in A PROVE n - c \in B
      OBVIOUS
    <3>1. x(n) = ((x(n) \div L) * L) + (p - 1) /\ (x(n) \div L) \in Nat /\ x(n) \in Nat
      BY <1>2, <1>3
    <3> DEFINE k == x(n) \div L
    <3>2. k * L \in Nat
      BY <3>1
    <3>3. p - q \in Nat /\ x(n) - (p - q) = (k * L) + (q - 1)
      BY <1>5, <3>1, <3>2
    <3> QED BY <1>4, <3>1, <3>3
  <2>2. c \in Nat
    BY <1>5
  <2> HIDE DEF c
  <2>3. Cardinality(A) \in Nat /\ Cardinality(B) \in Nat /\ Cardinality(A) <= Cardinality(B)
    BY <1>1, <2>1, <2>2, MovedInto
  <2> QED BY <2>3 DEF A, B
<1>6. CASE p < q
  <2> DEFINE F == {n \in A : x(n) < L}
             R == A \ F
             first == (((p - 1) * r) + 1)..(((p - 1) * r) + r)
             e == L - (q - p)
             c == e * r
  <2>1. IsFiniteSet(F) /\ Cardinality(F) \in Nat /\ Cardinality(F) <= r
    <3>1. (p - 1) * r \in Nat
      OBVIOUS
    <3>2. F \subseteq first
      <4> SUFFICES ASSUME NEW n \in A, x(n) < L PROVE n \in first
        OBVIOUS
      <4>1. n \in 1..N /\ x(n) % L = p - 1
        BY <1>3
      <4>2. x(n) = p - 1
        <5> DEFINE y == x(n)
        <5>1. y \in 0..(L - 1) /\ y % L = p - 1
          BY <1>2, <4>1
        <5> HIDE DEF y
        <5>2. y % L = y
          BY <5>1
        <5> QED BY <5>1, <5>2 DEF y
      <4>3. n = ((p - 1) * r) + ((n - 1) % r) + 1 /\ (n - 1) % r \in 0..(r - 1)
        BY <1>2, <4>1, <4>2
      <4> QED BY <3>1, <4>1, <4>3
    <3>3. IsFiniteSet(first) /\ Cardinality(first) = r
      BY <3>1, FS_Interval
    <3> HIDE DEF F, first
    <3> QED BY <3>2, <3>3, FS_Subset, FS_CardinalityType
  <2>2. e \in Nat /\ c \in Nat
    BY <1>6
  <2>3. \A n \in R : n - c \in B
    <3> SUFFICES ASSUME NEW n \in A, ~(x(n) < L) PROVE n - c \in B
      OBVIOUS
    <3>1. x(n) = ((x(n) \div L) * L) + (p - 1) /\ (x(n) \div L) \in Nat /\ x(n) \in Nat
      BY <1>2, <1>3
    <3> DEFINE k == x(n) \div L
    <3>2. k # 0
      BY <3>1
    <3> HIDE DEF k
    <3>3. k \in Nat /\ x(n) = (k * L) + (p - 1)
      BY <3>1 DEF k
    <3>4. k - 1 \in Nat /\ k * L \in Nat /\ (k - 1) * L = (k * L) - L
      BY <3>2, <3>3
    <3>5. x(n) - e = ((k - 1) * L) + (q - 1)
      BY <3>3, <3>4
    <3> HIDE DEF e
    <3> QED BY <1>4, <2>2, <3>4, <3>5
  <2>4. R \in SUBSET (1..N) /\ A = F \cup R /\ F \cap R = {}
    BY <1>1
  <2> HIDE DEF F, R, c
  <2>5. /\ IsFiniteSet(R) /\ Cardinality(R) \in Nat /\ Cardinality(B) \in Nat
        /\ Cardinality(R) <= Cardinality(B)
    BY <1>1, <2>2, <2>3, <2>4, MovedInto
  <2>6. Cardinality(A) = Cardinality(F) + Cardinality(R)
    <3>1. Cardinality(F \cup R) = Cardinality(F) + Cardinality(R) - Cardinality(F \cap R)
      BY <2>1, <2>5, FS_Union
    <3> QED BY <2>1, <2>4, <2>5, <3>1, FS_EmptySet
  <2> QED BY <2>1, <2>5, <2>6 DEF A, B
<1> QED BY <1>5, <1>6

\* A usable value is among those of the batch, and once if it was given once.
LEMMA UsableIsAValue ==
  ASSUME FormOk, NEW i \in chosen.inputs, NEW u \in Range(Usable(i.key))
  PROVE  /\ form[i.key] \in Seq(Raw(i.type))
         /\ Has(Values(i), u)
         /\ AtMostOnce(form[i.key], u) => AtMostOnce(Values(i), u)
<1>1. WellFormed(chosen) /\ i.key \in Keys(chosen) /\ Input(chosen, i.key) = i
  BY WorkflowsAssumption, Inputs DEF FormOk
<1>2. form[i.key] = None \/ form[i.key] \in Seq(Raw(i.type))
  BY <1>1 DEF FormOk
<1> DEFINE given == form[i.key]
           X == IF i.type = "boolean" THEN {} ELSE {Blank, White}
           kept == Without(List(i), X)
<1>3. given # None
  <2> SUFFICES ASSUME given = None PROVE FALSE
    OBVIOUS
  <2>1. Usable(i.key) = <<>>
    BY DEF Usable
  <2>2. DOMAIN Usable(i.key) = {}
    BY <2>1
  <2> QED BY <2>2 DEF Range
<1>4. given \in Seq(Raw(i.type)) /\ Usable(i.key) = Without(given, {Blank, White, Bad})
  BY <1>2, <1>3 DEF Usable
<1>5. Usable(i.key) \in Seq(Raw(i.type) \ {Blank, White, Bad})
  <2> HIDE DEF given
  <2> QED BY <1>4, WithoutType
<1>6. Has(Usable(i.key), u) /\ u \in Raw(i.type) \ {Blank, White, Bad}
  <2>1. DOMAIN Usable(i.key) = 1..Len(Usable(i.key))
    BY <1>5, LenProperties
  <2>2. PICK q \in 1..Len(Usable(i.key)) : Usable(i.key)[q] = u
    BY <2>1 DEF Range
  <2> QED BY <1>5, <2>2 DEF Has
<1>7. Has(given, u)
  <2> HIDE DEF given
  <2> QED BY <1>4, <1>6, WithoutOthers
<1>8. given # <<>>
  <2> SUFFICES ASSUME given = <<>> PROVE FALSE
    OBVIOUS
  <2>1. Len(given) = 0
    BY EmptySeq
  <2> QED BY <1>7, <2>1 DEF Has
<1>9. List(i) = given
  BY <1>3, <1>8, ListType
<1>10. Values(i) = IF kept = <<>> THEN <<None>> ELSE kept
  BY DEF Values
<1>11. u \in Raw(i.type) \ X
  BY <1>6
<1> HIDE DEF given, X
<1>12. Has(kept, u) /\ (AtMostOnce(given, u) => AtMostOnce(kept, u))
  BY <1>4, <1>7, <1>9, <1>11, WithoutOthers
<1> HIDE DEF kept
<1>13. kept # <<>>
  <2> SUFFICES ASSUME kept = <<>> PROVE FALSE
    OBVIOUS
  <2>1. Len(kept) = 0
    BY EmptySeq
  <2> QED BY <1>12, <2>1 DEF Has
<1> QED BY <1>4, <1>10, <1>12, <1>13 DEF given

\* The tasks of a batch that use a value of an unconditional input.
Uses(tasks, key, v) == {n \in DOMAIN tasks : tasks[n][key] = v}

LEMMA BatchSizes ==
  ASSUME FormOk, NEW r, Batch(chosen, r).ok, NEW i \in chosen.inputs
  PROVE  /\ Len(Values(i)) \in Nat \ {0} /\ Groups(chosen) \in Nat \ {0}
         /\ Len(Values(i)) <= Groups(chosen) /\ r \in Nat \ {0}
<1>1. r \in 1..MaxRepeat
  BY DEF Batch
<1>2. r \in Nat \ {0}
  BY <1>1, BatchAssumption
<1> QED BY <1>2, ValuesType, GroupsType

LEMMA UsesAre ==
  ASSUME FormOk, NEW r, Batch(chosen, r).ok, NEW i \in chosen.inputs, i.when = None,
         NEW p \in 1..Len(Values(i))
  PROVE  LET uses == Uses(Batch(chosen, r).tasks, i.key, Values(i)[p])
             round == At(p, Len(Values(i)), r, Groups(chosen) * r)
         IN /\ round \subseteq uses
            /\ AtMostOnce(Values(i), Values(i)[p]) => uses = round
            /\ uses \subseteq 1..(Groups(chosen) * r)
<1> DEFINE tasks == Batch(chosen, r).tasks
           vals == Values(i)
           L == Len(vals)
           N == Groups(chosen) * r
           uses == Uses(tasks, i.key, vals[p])
           round == At(p, L, r, N)
           x(n) == (n - 1) \div r
<1>1. WellFormed(chosen)
  BY WorkflowsAssumption DEF FormOk
<1>2. i.key \in Keys(chosen) /\ Input(chosen, i.key) = i
  BY <1>1, Inputs
<1>3. L \in Nat \ {0} /\ Groups(chosen) \in Nat \ {0} /\ r \in Nat \ {0}
  BY BatchSizes
<1>4. /\ DOMAIN tasks = 1..N
      /\ \A n \in DOMAIN tasks :
           /\ x(n) + 1 \in 1..Groups(chosen)
           /\ tasks[n] = Combination(chosen, Candidate(chosen, x(n) + 1))
  BY BatchIs
<1> HIDE DEF tasks, N
<1>5. ASSUME NEW n \in 1..N
      PROVE  x(n) \in Nat /\ (x(n) % L) + 1 \in 1..L /\ tasks[n][i.key] = vals[(x(n) % L) + 1]
  <2>1. n \in DOMAIN tasks
    BY <1>4
  <2>2. x(n) + 1 \in 1..Groups(chosen) /\ tasks[n] = Combination(chosen, Candidate(chosen, x(n) + 1))
    BY <1>4, <2>1
  <2>3. n - 1 \in Nat
    OBVIOUS
  <2>4. x(n) \in Nat
    BY <1>3, <2>3, Division
  <2> HIDE DEF x
  <2> DEFINE g == x(n) + 1
  <2>5. g \in Nat \ {0} /\ g - 1 = x(n)
    BY <2>4
  <2>6. tasks[n][i.key] = Candidate(chosen, g)[i.key]
    <3>1. Met(i, Candidate(chosen, g))
      BY DEF Met
    <3> HIDE DEF g
    <3>2. Combination(chosen, Candidate(chosen, g))[i.key] = Candidate(chosen, g)[i.key]
      BY <1>2, <3>1 DEF Combination
    <3> QED BY <2>2, <3>2 DEF g
  <2> HIDE DEF g
  <2>7. /\ ((g - 1) % L) + 1 \in 1..L
        /\ Candidate(chosen, g)[i.key] = vals[((g - 1) % L) + 1]
    BY <2>5, CandidateIs
  <2> HIDE DEF L, vals
  <2> QED BY <2>4, <2>5, <2>6, <2>7
<1> HIDE DEF x
<1>6. \A n \in 1..N : n \in round <=> x(n) % L = p - 1
  BY DEF At, x
<1>7. \A n : n \in uses <=> n \in 1..N /\ tasks[n][i.key] = vals[p]
  BY <1>4 DEF Uses
<1>8. round \subseteq 1..N
  BY DEF At
<1> HIDE DEF uses, round
<1>9. round \subseteq uses
  <2> SUFFICES ASSUME NEW n \in round PROVE n \in uses
    OBVIOUS
  <2>1. n \in 1..N /\ x(n) % L = p - 1
    BY <1>6, <1>8
  <2>2. (x(n) % L) + 1 = p
    BY <2>1
  <2> QED BY <1>5, <1>7, <2>1, <2>2
<1>10. ASSUME AtMostOnce(vals, vals[p]) PROVE uses \subseteq round
  <2> SUFFICES ASSUME NEW n \in uses PROVE n \in round
    OBVIOUS
  <2> DEFINE q == (x(n) % L) + 1
  <2>1. n \in 1..N /\ tasks[n][i.key] = vals[p] /\ x(n) \in Nat
    BY <1>5, <1>7
  <2>2. q \in 1..L /\ vals[q] = vals[p]
    BY <1>5, <2>1
  <2>3. q = p
    <3> HIDE DEF q
    <3> QED BY <1>10, <2>2 DEF AtMostOnce
  <2>4. x(n) % L = p - 1
    <3>1. x(n) % L \in Int
      BY <1>3, <2>1
    <3> QED BY <2>3, <3>1
  <2> QED BY <1>6, <2>1, <2>4
<1>11. uses \subseteq 1..N
  BY <1>7
<1> QED BY <1>9, <1>10, <1>11 DEF uses, round, tasks, N, vals, L

\* What is counted once occurs at one position.
LEMMA CountedOnce ==
  ASSUME NEW V, NEW l \in Seq(V), NEW v, Cardinality({n \in DOMAIN l : l[n] = v}) = 1
  PROVE  AtMostOnce(l, v)
<1> DEFINE S == {n \in DOMAIN l : l[n] = v}
<1>1. DOMAIN l = 1..Len(l) /\ Len(l) \in Nat
  BY LenProperties
<1>2. IsFiniteSet(S)
  <2>1. IsFiniteSet(1..Len(l)) /\ S \in SUBSET (1..Len(l))
    BY <1>1, FS_Interval
  <2> QED BY <2>1, FS_Subset
<1>3. PICK m : S = {m}
  <2> HIDE DEF S
  <2> QED BY <1>2, FS_Singleton DEF S
<1> SUFFICES ASSUME NEW p \in 1..Len(l), NEW q \in 1..Len(l), l[p] = v, l[q] = v
             PROVE  p = q
  BY DEF AtMostOnce
<1>4. p \in S /\ q \in S
  BY <1>1
<1> QED BY <1>3, <1>4

LEMMA BatchServes ==
  ASSUME FormOk, NEW r, Batch(chosen, r).ok, NEW i \in chosen.inputs, i.when = None,
         NEW u \in Range(Usable(i.key)), NEW v \in Range(Usable(i.key))
  PROVE  LET uses(a) == Cardinality(Uses(Batch(chosen, r).tasks, i.key, a))
         IN /\ uses(u) > 0
            /\ (AtMostOnce(form[i.key], u) /\ AtMostOnce(form[i.key], v)) => uses(u) <= uses(v) + r
<1> DEFINE tasks == Batch(chosen, r).tasks
           vals == Values(i)
           L == Len(vals)
           G == Groups(chosen)
           N == G * r
           U == Uses(tasks, i.key, u)
           W == Uses(tasks, i.key, v)
<1>1. PICK p \in 1..L : vals[p] = u
  BY UsableIsAValue DEF Has
<1>2. PICK q \in 1..L : vals[q] = v
  BY UsableIsAValue DEF Has
<1>3. /\ AtMostOnce(form[i.key], u) => AtMostOnce(vals, u)
      /\ AtMostOnce(form[i.key], v) => AtMostOnce(vals, v)
  BY UsableIsAValue
<1>4. /\ At(p, L, r, N) \subseteq U /\ U \subseteq 1..N
      /\ AtMostOnce(vals, u) => U = At(p, L, r, N)
  BY <1>1, UsesAre
<1>5. AtMostOnce(vals, v) => W = At(q, L, r, N)
  BY <1>2, UsesAre
<1>6. L \in Nat \ {0} /\ G \in Nat \ {0} /\ L <= G /\ r \in Nat \ {0}
  BY BatchSizes
<1>7. N \in Nat
  <2> HIDE DEF G
  <2> QED BY <1>6, Repeated
<1> HIDE DEF tasks, vals, L, U, W
<1>8. At(p, L, r, N) # {}
  <2> HIDE DEF G
  <2> QED BY <1>1, <1>6, PositionServed
<1> HIDE DEF N
<1>9. Cardinality(U) > 0
  <2>1. IsFiniteSet(1..N) /\ U \in SUBSET (1..N)
    BY <1>4, <1>7, FS_Interval
  <2>2. IsFiniteSet(U) /\ U # {}
    BY <1>4, <1>8, <2>1, FS_Subset
  <2>3. Cardinality(U) \in Nat /\ Cardinality(U) # 0
    BY <2>2, FS_CardinalityType, FS_EmptySet
  <2> QED BY <2>3
<1>10. ASSUME AtMostOnce(form[i.key], u), AtMostOnce(form[i.key], v)
       PROVE  Cardinality(U) <= Cardinality(W) + r
  <2>1. Cardinality(At(p, L, r, N)) <= Cardinality(At(q, L, r, N)) + r
    BY <1>1, <1>2, <1>6, <1>7, PositionsEven
  <2> QED BY <1>3, <1>4, <1>5, <1>10, <2>1
<1> QED BY <1>9, <1>10 DEF U, W, tasks

-----------------------------------------------------------------------------
(* The inductive invariant.                                                *)

TasksFit == answer.ok => \A n \in DOMAIN answer.tasks : Fits(chosen, answer.tasks[n])

\* EveryValueServed for two values of one input.
ServedIn(tasks, r, given, key, u, v) ==
  LET uses(a) == Cardinality({n \in DOMAIN tasks : tasks[n][key] = a})
      once(a) == Cardinality({n \in DOMAIN given : given[n] = a}) = 1
  IN  uses(u) > 0 /\ (once(u) /\ once(v) => uses(u) <= uses(v) + r)

ServedEach ==
  answer.kind = "batch" /\ answer.ok =>
    \A i \in {j \in chosen.inputs : j.when = None} :
      \A u, v \in Range(Usable(i.key)) :
        ServedIn(answer.tasks, answer.repeat, form[i.key], i.key, u, v)

LEMMA Served == EveryValueServed <=> ServedEach
BY DEF EveryValueServed, ServedEach, ServedIn

Sound == FormOk /\ TasksFit /\ WithinLimits /\ ServedEach

LEMMA NoAnswerSound == ASSUME answer = NoAnswer PROVE TasksFit /\ WithinLimits /\ ServedEach
BY DEF NoAnswer, TasksFit, WithinLimits, ServedEach

LEMMA InitSound == Init => Sound
<1> SUFFICES ASSUME Init PROVE Sound
  OBVIOUS
<1>1. FormOk
  BY DEF Init, FormOk
<1> QED BY <1>1, NoAnswerSound DEF Init, Sound

\* Filling in the form keeps it a form.
LEMMA FormStep ==
  ASSUME FormOk, NEW k \in DOMAIN form, NEW l, l \in Seq(Raw(Input(chosen, k).type)),
         form' = [form EXCEPT ![k] = l], chosen' = chosen
  PROVE  FormOk'
<1>1. k \in Keys(chosen) /\ DOMAIN form = Keys(chosen)
  BY DEF FormOk
<1>2. DOMAIN form' = Keys(chosen) /\ form' = [j \in Keys(chosen) |-> form'[j]]
  BY <1>1
<1>3. ASSUME NEW j \in Keys(chosen)
      PROVE  form'[j] = None \/ form'[j] \in Seq(Raw(Input(chosen, j).type))
  BY <1>1, <1>3 DEF FormOk
<1> QED BY <1>2, <1>3 DEF FormOk

LEMMA SendEmptySound ==
  ASSUME Sound, NEW k \in DOMAIN form, SendEmpty(k)
  PROVE  Sound'
<1>1. FormOk'
  <2>1. <<>> \in Seq(Raw(Input(chosen, k).type))
    BY EmptySeq
  <2> QED BY <2>1, FormStep DEF SendEmpty, Sound
<1>2. TasksFit' /\ WithinLimits' /\ ServedEach'
  BY DEF SendEmpty, NoAnswer, TasksFit, WithinLimits, ServedEach
<1> QED BY <1>1, <1>2 DEF Sound

LEMMA GiveSound ==
  ASSUME Sound, NEW k \in DOMAIN form, NEW v \in Raw(Input(chosen, k).type), Give(k, v)
  PROVE  Sound'
<1> DEFINE V == Raw(Input(chosen, k).type)
           l == IF form[k] = None THEN <<v>> ELSE Append(form[k], v)
<1>1. FormOk'
  <2>1. form[k] = None \/ form[k] \in Seq(V)
    BY DEF Sound, FormOk
  <2>2. v \in V
    OBVIOUS
  <2>3. form' = [form EXCEPT ![k] = l] /\ chosen' = chosen
    BY DEF Give
  <2> HIDE DEF V
  <2>4. l \in Seq(V)
    BY <2>1, <2>2
  <2> HIDE DEF l
  <2> QED BY <2>3, <2>4, FormStep DEF Sound, V
<1>2. TasksFit' /\ WithinLimits' /\ ServedEach'
  BY DEF Give, NoAnswer, TasksFit, WithinLimits, ServedEach
<1> QED BY <1>1, <1>2 DEF Sound

LEMMA SubmitRunSound ==
  ASSUME Sound, SubmitRun
  PROVE  Sound'
<1> DEFINE data == [k \in DOMAIN form |-> IF form[k] = None THEN None ELSE form[k][1]]
           run == Run(chosen, data)
<1>1. /\ answer' = [kind |-> "run", repeat |-> 1, ok |-> run.ok,
                    tasks |-> IF run.ok THEN <<run.inputs>> ELSE <<>>]
      /\ chosen' = chosen /\ form' = form
  BY DEF SubmitRun
<1> HIDE DEF data
<1>2. FormOk'
  BY <1>1 DEF Sound, FormOk
<1>3. run.ok => Fits(chosen, run.inputs)
  <2>1. WellFormed(chosen)
    BY WorkflowsAssumption DEF Sound, FormOk
  <2> QED BY <2>1, RunFits
<1> HIDE DEF run
<1>4. TasksFit'
  <2> SUFFICES ASSUME run.ok, NEW n \in DOMAIN answer'.tasks
               PROVE  Fits(chosen, answer'.tasks[n])
    BY <1>1 DEF TasksFit
  <2>1. answer'.tasks = <<run.inputs>>
    BY <1>1
  <2>2. n = 1 /\ answer'.tasks[n] = run.inputs
    BY <2>1
  <2> QED BY <1>3, <2>2
<1>5. WithinLimits' /\ ServedEach'
  BY <1>1 DEF WithinLimits, ServedEach
<1> QED BY <1>2, <1>4, <1>5 DEF Sound

LEMMA SubmitBatchSound ==
  ASSUME Sound, NEW repeat, SubmitBatch(repeat)
  PROVE  Sound'
<1> DEFINE batch == Batch(chosen, repeat)
           tasks == batch.tasks
           r == repeat
<1>1. /\ answer' = IF batch.ok THEN batch ELSE [batch EXCEPT !.tasks = <<>>]
      /\ chosen' = chosen /\ form' = form
  BY DEF SubmitBatch
<1>2. batch = [kind |-> "batch", repeat |-> r, ok |-> batch.ok, tasks |-> tasks]
  BY DEF Batch
<1>3. FormOk'
  BY <1>1 DEF Sound, FormOk
<1>4. FormOk /\ WellFormed(chosen)
  BY WorkflowsAssumption DEF Sound, FormOk
<1>5. CASE batch.ok
  <2>1. /\ r \in 1..MaxRepeat
        /\ Groups(chosen) * r \in 1..MaxTasks
        /\ Len(tasks) = Groups(chosen) * r
        /\ \A i \in chosen.inputs : ~Malformed(i)
        /\ \A n \in DOMAIN tasks :
             /\ ((n - 1) \div r) + 1 \in 1..Groups(chosen)
             /\ tasks[n] = Combination(chosen, Candidate(chosen, ((n - 1) \div r) + 1))
        /\ \A g \in 1..Groups(chosen) : ~Lacks(chosen, Candidate(chosen, g))
    BY <1>4, <1>5, BatchIs
  <2> HIDE DEF batch, tasks
  <2>2. answer' = [kind |-> "batch", repeat |-> r, ok |-> batch.ok, tasks |-> tasks]
    BY <1>1, <1>2, <1>5
  <2>3. ASSUME NEW n \in DOMAIN tasks PROVE Fits(chosen, tasks[n])
    <3> DEFINE g == ((n - 1) \div r) + 1
    <3>1. g \in 1..Groups(chosen) /\ tasks[n] = Combination(chosen, Candidate(chosen, g))
      BY <2>1
    <3> HIDE DEF g
    <3>2. Groups(chosen) \in Nat \ {0}
      BY <1>4, GroupsType
    <3>3. g \in Nat \ {0}
      BY <3>1, <3>2
    <3>4. ~Lacks(chosen, Candidate(chosen, g))
      BY <2>1, <3>1
    <3> QED BY <1>4, <2>1, <3>1, <3>3, <3>4, CombinationFits
  <2>4. TasksFit'
    BY <1>1, <2>2, <2>3 DEF TasksFit
  <2>5. ASSUME NEW k \in DOMAIN form PROVE Len(tasks) >= r * Len(Usable(k))
    <3>1. k \in Keys(chosen)
      BY <1>4 DEF FormOk
    <3>2. PICK i \in chosen.inputs : i.key = k
      BY <3>1 DEF Keys
    <3>3. Len(Usable(k)) \in Nat /\ Len(Usable(k)) <= Len(Values(i))
      BY <1>4, <3>2, UsableKept
    <3>4. Len(Values(i)) <= Groups(chosen) /\ Groups(chosen) \in Nat \ {0}
      BY <1>4, GroupsType
    <3>5. Len(Values(i)) \in Nat
      BY <1>4, ValuesType
    <3> DEFINE u == Len(Usable(k))
               G == Groups(chosen)
    <3>6. u \in Nat /\ u <= G /\ G \in Nat \ {0} /\ r \in Nat \ {0} /\ Len(tasks) = G * r
      BY <2>1, <3>3, <3>4, <3>5, BatchAssumption
    <3> HIDE DEF u, G, r
    <3>7. G * r >= r * u
      BY <3>6, Repeated
    <3> QED BY <3>6, <3>7 DEF u
  <2>6. WithinLimits'
    <3>1. \A k : Usable(k)' = Usable(k)
      BY <1>1 DEF Usable
    <3> QED BY <1>1, <2>1, <2>2, <2>5, <3>1 DEF WithinLimits
  <2>7. ASSUME NEW i \in chosen.inputs, i.when = None,
               NEW u \in Range(Usable(i.key)), NEW v \in Range(Usable(i.key))
        PROVE  ServedIn(tasks, r, form[i.key], i.key, u, v)
    <3> DEFINE uses(a) == Cardinality(Uses(tasks, i.key, a))
               given == form[i.key]
               once(a) == Cardinality({n \in DOMAIN given : given[n] = a}) = 1
    <3>1. /\ uses(u) > 0
          /\ (AtMostOnce(given, u) /\ AtMostOnce(given, v)) => uses(u) <= uses(v) + r
      BY <1>4, <1>5, <2>7, BatchServes DEF batch, tasks
    <3>2. given \in Seq(Raw(i.type))
      BY <1>4, <2>7, UsableIsAValue
    <3> HIDE DEF given
    <3>3. (once(u) => AtMostOnce(given, u)) /\ (once(v) => AtMostOnce(given, v))
      BY <3>2, CountedOnce
    <3> QED BY <3>1, <3>3 DEF Uses, ServedIn, given
  <2>8. ServedEach'
    <3>1. \A k : Usable(k)' = Usable(k)
      BY <1>1 DEF Usable
    <3> QED BY <1>1, <2>2, <2>7, <3>1 DEF ServedEach
  <2> QED BY <1>3, <2>4, <2>6, <2>8 DEF Sound
<1>6. CASE ~batch.ok
  <2> HIDE DEF batch, tasks
  <2>1. ~answer'.ok
    BY <1>1, <1>2, <1>6
  <2> QED BY <1>3, <2>1 DEF Sound, TasksFit, WithinLimits, ServedEach
<1> QED BY <1>5, <1>6

LEMMA NextSound == Sound /\ [Next]_vars => Sound'
<1> SUFFICES ASSUME Sound, [Next]_vars PROVE Sound'
  OBVIOUS
<1>1. ASSUME NEW k \in DOMAIN form, SendEmpty(k) PROVE Sound'
  BY <1>1, SendEmptySound
<1>2. ASSUME NEW k \in DOMAIN form, NEW v \in Raw(Input(chosen, k).type), Give(k, v)
      PROVE  Sound'
  BY <1>2, GiveSound
<1>3. CASE SubmitRun
  BY <1>3, SubmitRunSound
<1>4. ASSUME NEW repeat \in 0..(MaxRepeat + 1), SubmitBatch(repeat) PROVE Sound'
  BY <1>4, SubmitBatchSound
<1>5. CASE UNCHANGED vars
  BY <1>5 DEF vars, Sound, FormOk, TasksFit, WithinLimits, ServedEach, Usable
<1> QED BY <1>1, <1>2, <1>3, <1>4, <1>5 DEF Next

LEMMA AlwaysSound == Spec => []Sound
BY InitSound, NextSound, PTL DEF Spec

-----------------------------------------------------------------------------
(* The theorems.                                                           *)

\* An accepted batch stays within the limit on tasks and is never cut down to it,
\* whatever the lists and the number of repetitions (the limits of
\* _resolve_batch_workflow_inputs).
THEOREM LimitsHold == Spec => []WithinLimits
<1>1. Sound => WithinLimits
  BY DEF Sound
<1> QED BY <1>1, AlwaysSound, PTL

\* Every value the user gave is worked on, and values given once equally often but
\* for one round (the cycling of shorter lists in _resolve_batch_workflow_inputs).
THEOREM AllAreServed == Spec => []EveryValueServed
<1>1. Sound => EveryValueServed
  BY Served DEF Sound
<1> QED BY <1>1, AlwaysSound, PTL

\* The two resolutions agree: /api/run accepts every task of a batch, and every
\* task of its own, and resolves it to itself.
THEOREM BatchesAreRuns == Spec => []TaskIsARun
<1>1. Sound => TaskIsARun
  <2> SUFFICES ASSUME Sound, answer.ok, NEW n \in DOMAIN answer.tasks
               PROVE  Run(chosen, answer.tasks[n]) = [ok |-> TRUE, inputs |-> answer.tasks[n]]
    BY DEF TaskIsARun
  <2>1. WellFormed(chosen) /\ Fits(chosen, answer.tasks[n])
    BY WorkflowsAssumption DEF Sound, FormOk, TasksFit
  <2> QED BY <2>1, FitIsARun
<1> QED BY <1>1, AlwaysSound, PTL

\* The workbench accepts no task that the browser run then refuses for want of an
\* input (resolve_uploads, resolve_texts and resolve_widgets of WorkflowSpec).
THEOREM TasksAreTaken == Spec => []RunnerAccepts
<1>1. Sound => RunnerAccepts
  <2> SUFFICES ASSUME Sound, answer.ok, NEW n \in DOMAIN answer.tasks
               PROVE  RunnerTakes(chosen, answer.tasks[n])
    BY DEF RunnerAccepts
  <2>1. WellFormed(chosen) /\ Fits(chosen, answer.tasks[n])
    BY WorkflowsAssumption DEF Sound, FormOk, TasksFit
  <2> QED BY <2>1, FitIsTaken
<1> QED BY <1>1, AlwaysSound, PTL
=============================================================================
