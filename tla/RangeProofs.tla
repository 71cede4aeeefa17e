---------------------------- MODULE RangeProofs ----------------------------
(***************************************************************************)
(* What the range algebra of OffsetRanges preserves, for all offsets: the  *)
(* lists it returns mention exactly the bytes they should, they are        *)
(* canonical, and they stay within the offset space.                       *)
(***************************************************************************)
EXTENDS OffsetRanges, FiniteSetsExt, FiniteSetTheorems, WellFoundedInduction, TLAPS

\* A nonempty set of naturals has a least element.
LEMMA LeastNatural ==
  ASSUME NEW T \in SUBSET Nat, T # {}
  PROVE  \E x \in T : \A y \in T : x <= y
<1>1. PICK x \in T : \A y \in T : ~ (<<y, x>> \in OpToRel(<, Nat))
  BY WFMin, NatLessThanWellFounded
<1>2. \A y \in T : ~(y < x)
  BY <1>1 DEF OpToRel
<1>. QED
  BY <1>2

\* A nonempty set of naturals with a bound has a greatest element.
LEMMA GreatestNatural ==
  ASSUME NEW n \in Nat, NEW T \in SUBSET (0 .. n), T # {}
  PROVE  \E x \in T : \A y \in T : y <= x
<1>. DEFINE U == {n - y : y \in T}
<1>1. U \in SUBSET Nat /\ U # {}
  <2>1. \A y \in T : n - y \in Nat
    OBVIOUS
  <2>. QED
    BY <2>1, Zenon
<1>2. PICK u \in U : \A v \in U : u <= v
  BY <1>1, LeastNatural
<1>3. PICK x \in T : u = n - x
  BY <1>2
<1>4. \A y \in T : n - x <= n - y
  BY <1>2, <1>3
<1>. QED
  BY <1>4

\* What Min and Max choose, for a bounded set of naturals.
LEMMA MinMax ==
  ASSUME NEW n \in Nat, NEW T \in SUBSET (0 .. n), T # {}
  PROVE  /\ Min(T) \in T /\ \A x \in T : Min(T) <= x
         /\ Max(T) \in T /\ \A x \in T : x <= Max(T)
<1>1. T \in SUBSET Nat
  OBVIOUS
<1>2. \E x \in T : \A y \in T : x <= y
  BY <1>1, LeastNatural
<1>3. Min(T) \in T /\ \A x \in T : Min(T) <= x
  BY <1>2 DEF Min
<1>4. \E x \in T : \A y \in T : x >= y
  <2>1. PICK x \in T : \A y \in T : y <= x
    BY GreatestNatural
  <2>. QED
    BY <2>1
<1>5. Max(T) \in T /\ \A x \in T : Max(T) >= x
  BY <1>4 DEF Max
<1>. QED
  BY <1>3, <1>5

-----------------------------------------------------------------------------
(* Loops.  The models write a loop as a recursive function of the number   *)
(* of turns.  Induction is over sets of naturals, so that no lemma needs   *)
(* an operator for a parameter.                                            *)

\* A set that has 0 and the successor of each of its members has all naturals.
LEMMA SetInduction ==
  ASSUME NEW S, 0 \in S, \A n \in Nat : n \in S => n + 1 \in S
  PROVE  Nat \subseteq S
<1>. SUFFICES ASSUME Nat \ S # {} PROVE FALSE
  OBVIOUS
<1>1. PICK x \in Nat \ S : \A y \in Nat \ S : x <= y
  BY LeastNatural
<1>2. x - 1 \in Nat /\ x - 1 \notin Nat \ S
  BY <1>1
<1>. QED
  BY <1>1, <1>2

\* A step on the members of S can be repeated any number of times: the function
\* that a recursive definition chooses exists.
LEMMA Iteration ==
  ASSUME NEW S, NEW base \in S, NEW step \in [S -> S]
  PROVE  \E f \in [Nat -> S] : f = [n \in Nat |-> IF n = 0 THEN base ELSE step[f[n - 1]]]
<1>. DEFINE A(n, g) == /\ g \in [0 .. n -> S]
                       /\ g[0] = base
                       /\ \A k \in 0 .. n : k # 0 => g[k] = step[g[k - 1]]
<1>1. ASSUME NEW n \in Nat, NEW g, NEW h, NEW m \in Nat, m >= n, A(n, g), A(m, h)
      PROVE  \A k \in 0 .. n : g[k] = h[k]
  <2>. DEFINE D == {k \in 0 .. n : g[k] # h[k]}
  <2>. SUFFICES ASSUME D # {} PROVE FALSE
    OBVIOUS
  <2>1. D \in SUBSET Nat
    OBVIOUS
  <2>2. PICK k \in D : \A j \in D : k <= j
    BY <2>1, LeastNatural
  <2>3. k # 0
    BY <1>1
  <2>4. k - 1 \in 0 .. n /\ k - 1 \notin D
    BY <2>2, <2>3
  <2>. QED
    BY <1>1, <2>3, <2>4
<1>. DEFINE E == {n \in Nat : \E g : A(n, g)}
<1>2. 0 \in E
  <2>1. A(0, [k \in 0 .. 0 |-> base])
    OBVIOUS
  <2>. QED
    BY <2>1
<1>3. ASSUME NEW n \in Nat, n \in E PROVE n + 1 \in E
  <2>1. PICK g : A(n, g)
    BY <1>3
  <2>. DEFINE h == [k \in 0 .. n + 1 |-> IF k = n + 1 THEN step[g[n]] ELSE g[k]]
  <2>2. h \in [0 .. n + 1 -> S]
    BY <2>1
  <2>3. h[0] = base
    BY <2>1
  <2>4. ASSUME NEW k \in 0 .. n + 1, k # 0 PROVE h[k] = step[h[k - 1]]
    <3>1. CASE k = n + 1
      BY <3>1
    <3>2. CASE k # n + 1
      <4>1. k \in 0 .. n /\ k - 1 \in 0 .. n /\ k - 1 # n + 1
        BY <2>4, <3>2
      <4>. QED
        BY <2>1, <2>4, <4>1
    <3>. QED
      BY <3>1, <3>2
  <2>5. A(n + 1, h)
    BY <2>2, <2>3, <2>4
  <2>. QED
    BY <2>5
<1>4. \A n \in Nat : \E g : A(n, g)
  <2>1. Nat \subseteq E
    <3>. HIDE DEF E
    <3>. QED
      BY <1>2, <1>3, SetInduction
  <2>. QED
    BY <2>1
<1>. DEFINE G == [n \in Nat |-> CHOOSE g : A(n, g)]
            f == [n \in Nat |-> G[n][n]]
<1>5. \A n \in Nat : A(n, G[n])
  BY <1>4
<1>. HIDE DEF G
<1>6. f \in [Nat -> S]
  BY <1>5
<1>7. ASSUME NEW n \in Nat PROVE f[n] = IF n = 0 THEN base ELSE step[f[n - 1]]
  <2>1. CASE n = 0
    BY <1>5, <2>1
  <2>2. CASE n # 0
    <3>1. n - 1 \in Nat /\ n >= n - 1 /\ n - 1 \in 0 .. n - 1 /\ n \in 0 .. n
      BY <2>2
    <3>2. A(n, G[n]) /\ A(n - 1, G[n - 1])
      BY <1>5, <3>1
    <3>3. G[n - 1][n - 1] = G[n][n - 1]
      <4>. HIDE DEF A
      <4>. QED
        BY <1>1, <3>1, <3>2
    <3>4. G[n][n] = step[G[n][n - 1]]
      BY <2>2, <3>1, <3>2
    <3>. QED
      BY <2>2, <3>1, <3>3, <3>4
  <2>. QED
    BY <2>1, <2>2
<1>8. f = [n \in Nat |-> IF n = 0 THEN base ELSE step[f[n - 1]]]
  BY <1>7
<1>. HIDE DEF f
<1>. QED
  BY <1>6, <1>8

\* A loop whose turns stay in S, and bring a measure down until they are in D,
\* is in D after as many turns as the measure was at first.
LEMMA LoopEnds ==
  ASSUME NEW S, NEW D, NEW f, f[0] \in S, NEW m \in [S -> Nat],
         \A n \in Nat : f[n] \in S => f[n + 1] \in S,
         \A n \in Nat : f[n] \in S /\ f[n] \in D => f[n + 1] \in D,
         \A n \in Nat : f[n] \in S /\ f[n] \notin D => m[f[n + 1]] < m[f[n]]
  PROVE  f[m[f[0]]] \in S /\ f[m[f[0]]] \in D
<1>. DEFINE E == {n \in Nat : f[n] \in S /\ (f[n] \in D \/ m[f[n]] + n <= m[f[0]])}
<1>1. m[f[0]] \in Nat
  OBVIOUS
<1>2. 0 \in E
  BY <1>1
<1>3. ASSUME NEW n \in Nat, n \in E PROVE n + 1 \in E
  <2>1. f[n] \in S /\ f[n + 1] \in S
    BY <1>3
  <2>2. CASE f[n] \in D
    <3>1. f[n + 1] \in D
      BY <2>1, <2>2
    <3>. QED
      BY <2>1, <3>1
  <2>3. CASE f[n] \notin D
    <3>1. m[f[n + 1]] < m[f[n]] /\ m[f[n]] + n <= m[f[0]]
      BY <1>3, <2>1, <2>3
    <3>2. m[f[n]] \in Nat /\ m[f[n + 1]] \in Nat
      BY <2>1
    <3>3. m[f[n + 1]] + (n + 1) <= m[f[0]]
      BY <1>1, <3>1, <3>2
    <3>. QED
      BY <2>1, <3>3
  <2>. QED
    BY <2>2, <2>3
<1>4. Nat \subseteq E
  <2>. HIDE DEF E
  <2>. QED
    BY <1>2, <1>3, SetInduction
<1>. DEFINE k == m[f[0]]
<1>5. k \in E
  BY <1>1, <1>4
<1>6. f[k] \in S /\ (f[k] \in D \/ m[f[k]] + k <= k)
  BY <1>5
<1>7. CASE m[f[k]] + k <= k
  <2>1. m[f[k]] = 0
    BY <1>1, <1>6, <1>7
  <2>2. ASSUME f[k] \notin D PROVE FALSE
    <3>1. m[f[k + 1]] < 0 /\ f[k + 1] \in S
      BY <1>1, <1>6, <2>1, <2>2
    <3>2. m[f[k + 1]] \in Nat
      BY <3>1
    <3>. QED
      BY <3>1, <3>2
  <2>. QED
    BY <1>6, <2>2
<1>. QED
  BY <1>6, <1>7

-----------------------------------------------------------------------------
\* The maximal runs of a bounded set of offsets hold exactly the set.
LEMMA RunsCover ==
  ASSUME NEW n \in Nat, NEW S \in SUBSET (0 .. n)
  PROVE  Covered(Runs(S)) = S
<1>1. Covered(Runs(S)) \subseteq S
  BY DEF Covered, Runs
<1>2. ASSUME NEW x \in S PROVE x \in Covered(Runs(S))
  <2>. DEFINE A == {a \in 0 .. x : a .. x \subseteq S}
              B == {b \in x .. n : x .. b \subseteq S}
  <2>1. A \in SUBSET Nat /\ x \in A
    BY <1>2
  <2>2. PICK a \in A : \A y \in A : a <= y
    BY <2>1, LeastNatural
  <2>3. B \in SUBSET (0 .. n) /\ x \in B
    BY <1>2
  <2>4. PICK b \in B : \A y \in B : y <= b
    BY <2>3, GreatestNatural
  <2>. DEFINE r == OffsetRange(a, b + 1)
  <2>5. a .. b \subseteq S
    BY <2>2, <2>4
  <2>6. a - 1 \notin S
    <3>1. SUFFICES ASSUME a - 1 \in S PROVE FALSE
      OBVIOUS
    <3>2. a - 1 \in A
      BY <2>2, <3>1
    <3>. QED
      BY <3>2, <2>2
  <2>7. b + 1 \notin S
    <3>1. SUFFICES ASSUME b + 1 \in S PROVE FALSE
      OBVIOUS
    <3>2. b + 1 \in B
      BY <2>4, <3>1
    <3>. QED
      BY <3>2, <2>4
  <2>8. r \in Runs(S)
    BY <2>2, <2>4, <2>5, <2>6, <2>7 DEF Runs, OffsetRange, Bytes
  <2>9. x \in Bytes(r)
    BY <2>2, <2>4 DEF OffsetRange, Bytes
  <2>. QED
    BY <2>8, <2>9 DEF Covered
<1>. QED
  BY <1>1, <1>2

\* What membership in Runs says, for any set.
LEMMA RunsMember ==
  ASSUME NEW S, NEW r \in Runs(S)
  PROVE  /\ \E a \in S, b \in S : r = OffsetRange(a, b + 1)
         /\ r.start < r.end /\ Bytes(r) \subseteq S /\ r.start - 1 \notin S /\ r.end \notin S
<1>1. r \in {OffsetRange(a, b + 1) : a \in S, b \in S}
  BY DEF Runs
<1>2. \E a \in S, b \in S : r = OffsetRange(a, b + 1)
  BY <1>1
<1>3. r.start < r.end /\ Bytes(r) \subseteq S /\ r.start - 1 \notin S /\ r.end \notin S
  BY DEF Runs
<1>. QED
  BY <1>2, <1>3

\* A run is a nonempty range of members with no member at either side.
LEMMA RunsElement ==
  ASSUME NEW S \in SUBSET Int, NEW r \in Runs(S)
  PROVE  \E a \in S, b \in S :
           /\ r = OffsetRange(a, b + 1) /\ a <= b
           /\ a .. b \subseteq S /\ a - 1 \notin S /\ b + 1 \notin S
<1>1. PICK a \in S, b \in S : r = OffsetRange(a, b + 1)
  BY RunsMember, Zenon
<1>2. r.start = a /\ r.end = b + 1
  BY <1>1 DEF OffsetRange
<1>3. r.start < r.end /\ Bytes(r) \subseteq S /\ r.start - 1 \notin S /\ r.end \notin S
  BY RunsMember, Zenon
<1>4. Bytes(r) = a .. b
  BY <1>2 DEF Bytes
<1>. QED
  BY <1>1, <1>2, <1>3, <1>4

\* The bytes of a list of ranges are the bytes of its members.
LEMMA InCovered ==
  ASSUME NEW R, NEW x
  PROVE  x \in Covered(R) <=> \E r \in R : x \in Bytes(r)
BY DEF Covered

\* Disjoint finite sets add up.
LEMMA CardinalityOfDisjoint ==
  ASSUME NEW S, NEW T, IsFiniteSet(S), IsFiniteSet(T), S \cap T = {}
  PROVE  /\ IsFiniteSet(S \cup T)
         /\ Cardinality(S \cup T) = Cardinality(S) + Cardinality(T)
<1>1. Cardinality(S \cap T) = 0
  BY FS_EmptySet
<1>2. Cardinality(S) \in Nat /\ Cardinality(T) \in Nat
  BY FS_CardinalityType
<1>3. IsFiniteSet(S \cup T)
      /\ Cardinality(S \cup T) = Cardinality(S) + Cardinality(T) - Cardinality(S \cap T)
  BY FS_Union
<1>. QED
  BY <1>1, <1>2, <1>3

\* They are ranges of the offset space.
LEMMA RunsType ==
  ASSUME NEW n \in Nat, NEW S \in SUBSET (0 .. n - 1)
  PROVE  Runs(S) \subseteq RangesBelow(n)
<1>1. SUFFICES ASSUME NEW r \in Runs(S)
               PROVE  r \in RangesBelow(n)
  OBVIOUS
<1>. S \in SUBSET Int
  OBVIOUS
<1>2. PICK a \in S, b \in S : r = OffsetRange(a, b + 1) /\ a <= b
  BY RunsElement, Zenon
<1>3. a \in 0 .. n /\ b + 1 \in 0 .. n
  OBVIOUS
<1>. QED
  BY <1>2, <1>3 DEF RangesBelow, OffsetRange

\* Two runs neither overlap nor touch.
LEMMA RunsCanonical ==
  ASSUME NEW S \in SUBSET Int
  PROVE  Canonical(Runs(S))
<1>1. SUFFICES ASSUME NEW r \in Runs(S), NEW q \in Runs(S),
                      ~(r.end < q.start), ~(q.end < r.start)
               PROVE  r = q
  BY DEF Canonical
<1>2. PICK a \in S, b \in S :
        /\ r = OffsetRange(a, b + 1) /\ a <= b
        /\ a .. b \subseteq S /\ a - 1 \notin S /\ b + 1 \notin S
  BY RunsElement, Zenon
<1>3. PICK c \in S, d \in S :
        /\ q = OffsetRange(c, d + 1) /\ c <= d
        /\ c .. d \subseteq S /\ c - 1 \notin S /\ d + 1 \notin S
  BY RunsElement, Zenon
<1>4. c <= b + 1 /\ a <= d + 1
  BY <1>1, <1>2, <1>3 DEF OffsetRange
<1>5. a = c
  <2>1. ~(a < c)
    BY <1>2, <1>3, <1>4
  <2>2. ~(c < a)
    BY <1>2, <1>3, <1>4
  <2>. QED
    BY <2>1, <2>2
<1>6. b = d
  <2>1. ~(b < d)
    BY <1>2, <1>3, <1>4
  <2>2. ~(d < b)
    BY <1>2, <1>3, <1>4
  <2>. QED
    BY <2>1, <2>2
<1>. QED
  BY <1>2, <1>3, <1>5, <1>6

\* Ranges of the offset space hold offsets below its end.
LEMMA CoveredType ==
  ASSUME NEW n \in Nat, NEW R \in SUBSET RangesBelow(n)
  PROVE  Covered(R) \in SUBSET (0 .. n - 1)
<1>1. SUFFICES ASSUME NEW r \in R, NEW x \in Bytes(r)
               PROVE  x \in 0 .. n - 1
  BY Zenon DEF Covered
<1>2. r.start \in 0 .. n /\ r.end \in 0 .. n
  BY DEF RangesBelow
<1>. QED
  BY <1>2 DEF Bytes

\* The members of a list of disjoint ranges are finitely many: each has a byte
\* of its own.
LEMMA DisjointFinite ==
  ASSUME NEW n \in Nat, NEW R, Disjoint(R),
         \A r \in R : r.start \in 0 .. n /\ r.end \in 0 .. n /\ r.start < r.end
  PROVE  /\ IsFiniteSet(R)
         /\ Cardinality(R) \in Nat
         /\ IsFiniteSet(Covered(R))
         /\ Cardinality(Covered(R)) \in Nat
         /\ Cardinality(R) <= Cardinality(Covered(R))
<1>. DEFINE f == [r \in R |-> r.start]
<1>1. \A r \in R : r.start \in Covered(R)
  BY DEF Covered, Bytes
<1>2. \A r, q \in R : r.start = q.start => r = q
  BY DEF Disjoint
<1>3. f \in Injection(R, Covered(R))
  BY <1>1, <1>2 DEF Injection, IsInjective
<1>4. Covered(R) \in SUBSET (0 .. n)
  BY DEF Covered, Bytes
<1>5. IsFiniteSet(Covered(R))
  <2>1. IsFiniteSet(0 .. n)
    BY FS_Interval
  <2>. QED
    BY <1>4, <2>1, FS_Subset
<1>6. IsFiniteSet(R) /\ Cardinality(R) <= Cardinality(Covered(R))
  BY <1>3, <1>5, FS_Injection
<1>. QED
  BY <1>5, <1>6, FS_CardinalityType

\* Taking one of them out takes out exactly its bytes.
LEMMA TakeRange ==
  ASSUME NEW n \in Nat, NEW R \in SUBSET RangesBelow(n), Disjoint(R), NEW r \in R
  PROVE  /\ Covered(R) = Covered(R \ {r}) \cup Bytes(r)
         /\ Covered(R \ {r}) \cap Bytes(r) = {}
         /\ Cardinality(Covered(R)) = Cardinality(Covered(R \ {r})) + Length(r)
         /\ Cardinality(Covered(R \ {r})) \in Nat
         /\ Length(r) \in Nat
<1>1. \A q \in R : q.start \in 0 .. n /\ q.end \in 0 .. n /\ q.start < q.end
  BY DEF RangesBelow
<1>2. Covered(R) = Covered(R \ {r}) \cup Bytes(r)
  BY DEF Covered
<1>3. Covered(R \ {r}) \cap Bytes(r) = {}
  <2>1. \A q \in R \ {r} : Bytes(q) \cap Bytes(r) = {}
    BY <1>1 DEF Disjoint, Bytes
  <2>. QED
    BY <2>1 DEF Covered
<1>4. Disjoint(R \ {r})
  BY DEF Disjoint
<1>5. IsFiniteSet(Covered(R \ {r})) /\ Cardinality(Covered(R \ {r})) \in Nat
  BY <1>1, <1>4, DisjointFinite
<1>6. IsFiniteSet(Bytes(r)) /\ Cardinality(Bytes(r)) = Length(r) /\ Length(r) \in Nat
  <2>1. r.start \in Int /\ r.end - 1 \in Int /\ r.start <= r.end - 1
    BY <1>1
  <2>2. /\ IsFiniteSet(r.start .. (r.end - 1))
        /\ Cardinality(r.start .. (r.end - 1))
             = IF r.start > r.end - 1 THEN 0 ELSE (r.end - 1) - r.start + 1
    BY <2>1, FS_Interval
  <2>. QED
    BY <1>1, <2>1, <2>2 DEF Bytes, Length
<1>7. Cardinality(Covered(R)) = Cardinality(Covered(R \ {r})) + Cardinality(Bytes(r))
  BY <1>2, <1>3, <1>5, <1>6, CardinalityOfDisjoint
<1>. QED
  BY <1>2, <1>3, <1>5, <1>6, <1>7

\* normalize_offset_ranges keeps the bytes of the list and makes it canonical.
LEMMA NormalizeExact ==
  ASSUME NEW n \in Nat, NEW R \in SUBSET RangesBelow(n)
  PROVE  /\ Covered(normalize_offset_ranges(R)) = Covered(R)
         /\ normalize_offset_ranges(R) \in SUBSET RangesBelow(n)
         /\ Canonical(normalize_offset_ranges(R))
<1>1. Covered(R) \in SUBSET (0 .. n - 1)
  BY CoveredType
<1>2. Covered(R) \in SUBSET (0 .. n) /\ Covered(R) \in SUBSET Int
  BY <1>1
<1>. QED
  BY <1>1, <1>2, RunsCover, RunsType, RunsCanonical DEF normalize_offset_ranges

\* offset_ranges_not_covered removes the covered bytes and no others.
LEMMA NotCoveredExact ==
  ASSUME NEW n \in Nat, NEW R \in SUBSET RangesBelow(n), NEW C
  PROVE  /\ Covered(offset_ranges_not_covered(R, C)) = Covered(R) \ Covered(C)
         /\ offset_ranges_not_covered(R, C) \in SUBSET RangesBelow(n)
<1>1. ASSUME NEW r \in R
      PROVE  /\ Covered(Runs(Bytes(r) \ Covered(C))) = Bytes(r) \ Covered(C)
             /\ Runs(Bytes(r) \ Covered(C)) \subseteq RangesBelow(n)
  <2>1. r.start \in 0 .. n /\ r.end \in 0 .. n
    BY DEF RangesBelow
  <2>2. Bytes(r) \ Covered(C) \in SUBSET (0 .. n - 1)
    BY <2>1 DEF Bytes
  <2>3. Bytes(r) \ Covered(C) \in SUBSET (0 .. n)
    BY <2>2
  <2>. QED
    BY <2>2, <2>3, RunsCover, RunsType
<1>2. ASSUME NEW x
      PROVE  x \in Covered(offset_ranges_not_covered(R, C)) <=> x \in Covered(R) \ Covered(C)
  <2>1. x \in Covered(offset_ranges_not_covered(R, C))
          <=> \E r \in R : \E q \in Runs(Bytes(r) \ Covered(C)) : x \in Bytes(q)
    BY Zenon DEF offset_ranges_not_covered, Covered
  <2>2. ASSUME NEW r \in R
        PROVE  (\E q \in Runs(Bytes(r) \ Covered(C)) : x \in Bytes(q))
                 <=> x \in Bytes(r) \ Covered(C)
    <3>1. x \in Covered(Runs(Bytes(r) \ Covered(C))) <=> x \in Bytes(r) \ Covered(C)
      BY <1>1, Zenon
    <3>. QED
      BY <3>1, InCovered, Zenon
  <2>3. x \in Covered(R) <=> \E r \in R : x \in Bytes(r)
    BY InCovered, Zenon
  <2>. QED
    BY <2>1, <2>2, <2>3, Zenon
<1>5. offset_ranges_not_covered(R, C) \in SUBSET RangesBelow(n)
  BY <1>1, Zenon DEF offset_ranges_not_covered
<1>. QED
  BY <1>2, <1>5

\* Cutting disjoint ranges leaves disjoint pieces.
LEMMA NotCoveredDisjoint ==
  ASSUME NEW n \in Nat, NEW R \in SUBSET RangesBelow(n), Disjoint(R), NEW C
  PROVE  Disjoint(offset_ranges_not_covered(R, C))
<1>1. SUFFICES ASSUME NEW r \in R, NEW q \in R,
                      NEW s \in Runs(Bytes(r) \ Covered(C)), NEW t \in Runs(Bytes(q) \ Covered(C)),
                      s # t
               PROVE  s.end <= t.start \/ t.end <= s.start
  BY Zenon DEF Disjoint, offset_ranges_not_covered
<1>2. r.start \in Nat /\ r.end \in Nat /\ q.start \in Nat /\ q.end \in Nat
  BY DEF RangesBelow
<1>3. /\ Bytes(r) \ Covered(C) \in SUBSET Int /\ Bytes(q) \ Covered(C) \in SUBSET Int
  BY <1>2 DEF Bytes
<1>4. PICK a \in Bytes(r) \ Covered(C), b \in Bytes(r) \ Covered(C) :
        s = OffsetRange(a, b + 1) /\ a <= b
  BY <1>3, RunsElement, Zenon
<1>5. PICK c \in Bytes(q) \ Covered(C), d \in Bytes(q) \ Covered(C) :
        t = OffsetRange(c, d + 1) /\ c <= d
  BY <1>3, RunsElement, Zenon
<1>6. /\ a \in r.start .. r.end - 1 /\ b \in r.start .. r.end - 1
      /\ c \in q.start .. q.end - 1 /\ d \in q.start .. q.end - 1
      /\ s.start = a /\ s.end = b + 1 /\ t.start = c /\ t.end = d + 1
  BY <1>4, <1>5 DEF Bytes, OffsetRange
<1>7. CASE r = q
  <2>1. Canonical(Runs(Bytes(r) \ Covered(C)))
    BY <1>3, RunsCanonical
  <2>2. s.end < t.start \/ t.end < s.start
    BY <1>1, <1>7, <2>1, Zenon DEF Canonical
  <2>. QED
    BY <1>2, <1>6, <2>2
<1>8. CASE r # q
  <2>1. r.end <= q.start \/ q.end <= r.start
    BY <1>8 DEF Disjoint
  <2>. QED
    BY <1>2, <1>6, <2>1
<1>. QED
  BY <1>7, <1>8
=============================================================================
