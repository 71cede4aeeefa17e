------------------------- MODULE ReliableRecvProofs -------------------------
(***************************************************************************)
(* Theorems about the receive half of a stream and the frames it reports   *)
(* with, for every value of its limits and every sequence of frames.       *)
(***************************************************************************)
EXTENDS ReliableRecv, RangeProofs

-----------------------------------------------------------------------------
(* The RangeSet *)

\* The nodes of a RangeSet over the offsets up to n.
NodesBelow(n) ==
  {q \in [start : 0 .. n, end : 0 .. n, dirty : BOOLEAN] : q.start < q.end}

\* A node spans the range and every node it merges with, and starts and ends
\* where one of them does.
LEMMA MergedSpans ==
  ASSUME NEW n \in Nat, NEW R \in SUBSET NodesBelow(n), NEW r \in RangesBelow(n)
  PROVE  LET m == Merged(R, r)
         IN /\ m \in NodesBelow(n)
            /\ m.start <= r.start /\ r.end <= m.end /\ m.dirty
            /\ \A q \in Touching(R, r) : m.start <= q.start /\ q.end <= m.end
            /\ m.start = r.start \/ \E q \in Touching(R, r) : m.start = q.start
            /\ m.end = r.end \/ \E q \in Touching(R, r) : m.end = q.end
<1>. DEFINE m == Merged(R, r)
            A == {r.start} \cup {q.start : q \in Touching(R, r)}
            B == {r.end} \cup {q.end : q \in Touching(R, r)}
<1>1. /\ r.start \in 0 .. n /\ r.end \in 0 .. n /\ r.start < r.end
      /\ \A q \in Touching(R, r) : q.start \in 0 .. n /\ q.end \in 0 .. n
  BY DEF RangesBelow, NodesBelow, Touching
<1>2. A \in SUBSET (0 .. n) /\ A # {} /\ B \in SUBSET (0 .. n) /\ B # {}
  BY <1>1, Zenon
<1>3. m.start = Min(A) /\ m.end = Max(B) /\ m.dirty = TRUE /\ m = [start |-> Min(A), end |-> Max(B), dirty |-> TRUE]
  BY DEF Merged
<1>4. /\ Min(A) \in A /\ \A x \in A : Min(A) <= x
      /\ Max(B) \in B /\ \A x \in B : x <= Max(B)
  BY <1>2, MinMax, Zenon
<1>5. r.start \in A /\ r.end \in B /\ \A q \in Touching(R, r) : q.start \in A /\ q.end \in B
  BY Zenon
<1>6. m.start = r.start \/ \E q \in Touching(R, r) : m.start = q.start
  BY <1>3, <1>4, Zenon
<1>7. m.end = r.end \/ \E q \in Touching(R, r) : m.end = q.end
  BY <1>3, <1>4, Zenon
<1>8. m.start \in 0 .. n /\ m.end \in 0 .. n
  BY <1>2, <1>3, <1>4, Zenon
<1>9. m.start <= r.start /\ r.end <= m.end
  BY <1>3, <1>4, <1>5, Zenon
<1>10. \A q \in Touching(R, r) : m.start <= q.start /\ q.end <= m.end
  BY <1>3, <1>4, <1>5, Zenon
<1>11. m \in NodesBelow(n)
  <2>1. m.start < m.end
    BY <1>1, <1>8, <1>9
  <2>. HIDE DEF A, B
  <2>. QED
    BY <1>3, <1>8, <2>1 DEF NodesBelow
<1>. HIDE DEF m
<1>. QED
  BY <1>3, <1>6, <1>7, <1>9, <1>10, <1>11, Zenon DEF m

\* RangeSet::insert adds the bytes of the range and no others, and leaves no two
\* nodes that overlap or touch; range_count_after_insert foretells how many.
LEMMA InsertExact ==
  ASSUME NEW n \in Nat, NEW R \in SUBSET NodesBelow(n), Canonical(R), NEW r \in RangesBelow(n)
  PROVE  /\ insert(R, r) \in SUBSET NodesBelow(n)
         /\ Canonical(insert(R, r))
         /\ Covered(insert(R, r)) = Covered(R) \cup Bytes(r)
<1>. DEFINE m == Merged(R, r)
            T == Touching(R, r)
<1>1. /\ m \in NodesBelow(n)
      /\ m.start <= r.start /\ r.end <= m.end
      /\ \A q \in T : m.start <= q.start /\ q.end <= m.end
      /\ m.start = r.start \/ \E q \in T : m.start = q.start
      /\ m.end = r.end \/ \E q \in T : m.end = q.end
  BY MergedSpans
<1>2. /\ m.start \in Nat /\ m.end \in Nat /\ m.start < m.end
      /\ r.start \in Nat /\ r.end \in Nat /\ r.start < r.end
      /\ \A q \in R : q.start \in Nat /\ q.end \in Nat /\ q.start < q.end
  BY <1>1 DEF RangesBelow, NodesBelow
<1>3. insert(R, r) = (R \ T) \cup {m}
  BY DEF insert
<1>4. /\ T \subseteq R
      /\ \A q \in T : q.start <= r.end /\ q.end >= r.start
      /\ \A q \in R \ T : r.end < q.start \/ q.end < r.start
  BY <1>2 DEF Touching
<1>. HIDE DEF m, T
<1>5. Bytes(m) = Bytes(r) \cup Covered(T)
  <2>1. ASSUME NEW x \in Bytes(m) PROVE x \in Bytes(r) \cup Covered(T)
    <3>1. x \in Int /\ m.start <= x /\ x < m.end
      BY <1>2 DEF Bytes
    <3>2. CASE x < r.start
      <4>1. PICK q \in T : m.start = q.start
        BY <1>1, <1>2, <3>1, <3>2
      <4>2. x \in Bytes(q)
        BY <1>2, <1>4, <3>1, <3>2, <4>1 DEF Bytes
      <4>. QED
        BY <4>2 DEF Covered
    <3>3. CASE r.end <= x
      <4>1. PICK q \in T : m.end = q.end
        BY <1>1, <1>2, <3>1, <3>3
      <4>2. x \in Bytes(q)
        BY <1>2, <1>4, <3>1, <3>3, <4>1 DEF Bytes
      <4>. QED
        BY <4>2 DEF Covered
    <3>4. CASE r.start <= x /\ x < r.end
      BY <1>2, <3>1, <3>4 DEF Bytes
    <3>. QED
      BY <1>2, <3>1, <3>2, <3>3, <3>4
  <2>2. Bytes(r) \subseteq Bytes(m)
    BY <1>1, <1>2 DEF Bytes
  <2>3. \A q \in T : Bytes(q) \subseteq Bytes(m)
    BY <1>1, <1>2, <1>4 DEF Bytes
  <2>. QED
    BY <2>1, <2>2, <2>3 DEF Covered
<1>6. Covered((R \ T) \cup {m}) = Covered(R) \cup Bytes(r)
  <2>1. Covered((R \ T) \cup {m}) = Covered(R \ T) \cup Bytes(m)
    BY DEF Covered
  <2>2. Covered(R) = Covered(R \ T) \cup Covered(T)
    BY <1>4 DEF Covered
  <2>. QED
    BY <1>5, <2>1, <2>2
<1>7. ASSUME NEW q \in R \ T PROVE q.end < m.start \/ m.end < q.start
  <2>1. CASE r.end < q.start
    <3>1. CASE m.end = r.end
      BY <2>1, <3>1
    <3>2. CASE \E t \in T : m.end = t.end
      <4>1. PICK t \in T : m.end = t.end
        BY <3>2
      <4>2. t \in R /\ t # q
        BY <1>4
      <4>3. q.end < t.start \/ t.end < q.start
        BY <4>2 DEF Canonical
      <4>. QED
        BY <1>2, <1>4, <2>1, <4>1, <4>2, <4>3
    <3>. QED
      BY <1>1, <3>1, <3>2
  <2>2. CASE q.end < r.start
    <3>1. CASE m.start = r.start
      BY <2>2, <3>1
    <3>2. CASE \E t \in T : m.start = t.start
      <4>1. PICK t \in T : m.start = t.start
        BY <3>2
      <4>2. t \in R /\ t # q
        BY <1>4
      <4>3. q.end < t.start \/ t.end < q.start
        BY <4>2 DEF Canonical
      <4>. QED
        BY <1>2, <1>4, <2>2, <4>1, <4>2, <4>3
    <3>. QED
      BY <1>1, <3>1, <3>2
  <2>. QED
    BY <1>4, <2>1, <2>2
<1>8. Canonical((R \ T) \cup {m})
  BY <1>7 DEF Canonical
<1>. QED
  BY <1>1, <1>3, <1>6, <1>8, SMTT(30)

-----------------------------------------------------------------------------
(* The loops of receive_data *)

\* The bytes from a to b - 1, in order.
Consecutive(a, b) == [i \in 1 .. b - a |-> a + i - 1]

\* Two stretches that meet make one.
LEMMA ConsecutiveJoin ==
  ASSUME NEW a \in Nat, NEW b \in Nat, NEW c \in Nat, a <= b, b <= c
  PROVE  /\ Consecutive(a, b) \in Seq(Nat)
         /\ Consecutive(a, b) \o Consecutive(b, c) = Consecutive(a, c)
<1>1. ASSUME NEW x \in Nat, NEW y \in Nat, x <= y
      PROVE  Consecutive(x, y) \in Seq(Nat) /\ Len(Consecutive(x, y)) = y - x
  BY <1>1 DEF Consecutive
<1>2. a <= c
  OBVIOUS
<1>3. /\ Consecutive(a, b) \in Seq(Nat) /\ Len(Consecutive(a, b)) = b - a
      /\ Consecutive(b, c) \in Seq(Nat) /\ Len(Consecutive(b, c)) = c - b
      /\ Consecutive(a, c) \in Seq(Nat) /\ Len(Consecutive(a, c)) = c - a
  BY <1>1, <1>2, Zenon
<1>. DEFINE s == Consecutive(a, b)
            t == Consecutive(b, c)
<1>4. /\ s \o t \in Seq(Nat)
      /\ Len(s \o t) = Len(s) + Len(t)
      /\ \A i \in 1 .. Len(s) + Len(t) : (s \o t)[i] = IF i <= Len(s) THEN s[i] ELSE t[i - Len(s)]
  <2>. HIDE DEF s, t
  <2>1. s \in Seq(Nat) /\ t \in Seq(Nat)
    BY <1>3 DEF s, t
  <2>. QED
    BY <2>1
<1>5. ASSUME NEW i \in 1 .. c - a PROVE (s \o t)[i] = Consecutive(a, c)[i]
  <2>1. i \in 1 .. Len(s) + Len(t) /\ Len(s) = b - a /\ i \in Int /\ b - a \in Int
    BY <1>3
  <2>2. CASE i <= b - a
    <3>1. (s \o t)[i] = s[i]
      BY <1>4, <2>1, <2>2
    <3>2. s[i] = a + i - 1
      BY <2>2 DEF Consecutive
    <3>. QED
      BY <3>1, <3>2 DEF Consecutive
  <2>3. CASE ~(i <= b - a)
    <3>1. (s \o t)[i] = t[i - (b - a)]
      BY <1>4, <2>1, <2>3
    <3>2. i - (b - a) \in 1 .. c - b
      BY <2>1, <2>3
    <3>3. t[i - (b - a)] = b + (i - (b - a)) - 1
      BY <3>2 DEF Consecutive
    <3>. QED
      BY <3>1, <3>3 DEF Consecutive
  <2>. QED
    BY <2>2, <2>3, Zenon
<1>6. Len(s \o t) = c - a
  BY <1>3, <1>4
<1>7. ASSUME NEW u \in Seq(Nat), NEW v \in Seq(Nat), Len(u) = Len(v),
             \A i \in 1 .. Len(u) : u[i] = v[i]
      PROVE  u = v
  <2>. DEFINE f == [i \in 1 .. Len(u) |-> u[i]]
              g == [i \in 1 .. Len(v) |-> v[i]]
  <2>1. u = f
    OBVIOUS
  <2>2. v = g
    OBVIOUS
  <2>3. f = g
    BY <1>7, Zenon
  <2>. QED
    BY <2>1, <2>2, <2>3, Zenon
<1>. DEFINE u == s \o t
            v == Consecutive(a, c)
<1>8. /\ u \in Seq(Nat) /\ v \in Seq(Nat) /\ Len(u) = Len(v)
      /\ \A i \in 1 .. Len(u) : u[i] = v[i]
  BY <1>3, <1>4, <1>5, <1>6, Zenon
<1>. HIDE DEF u, v
<1>9. u = v
  BY <1>7, <1>8
<1>. QED
  BY <1>3, <1>9 DEF s, t, u, v

\* The locals of receive_data while it hands out bytes from the offset `from`:
\* X are the bytes that are accounted for, `extra` the bytes that the counter
\* has and that no chunk holds yet.
Deliveries(n, from, C, extra, X) ==
  {d \in [next : 0 .. n, bytes : Nat, chunks : SUBSET C, out : Seq(Nat)] :
     /\ d.next >= from
     /\ d.out = Consecutive(from, d.next)
     /\ d.bytes = Cardinality(Covered(d.chunks)) + extra
     /\ \A c \in d.chunks : c.start >= d.next
     /\ (from .. d.next - 1) \cup Covered(d.chunks) = X}

\* Handing out a range that starts at the frontier, and that no chunk holds,
\* keeps the locals exact.
LEMMA HandOut ==
  ASSUME NEW n \in Nat, NEW from \in 0 .. n, NEW C \in SUBSET RangesBelow(n), Disjoint(C),
         NEW x \in Nat, NEW X, NEW d \in Deliveries(n, from, C, x, X),
         NEW r \in C, r.start = d.next,
         NEW y \in Nat, y + Cardinality(Covered(d.chunks \ {r})) + Length(r) = d.bytes
  PROVE  Delivery(r.end, Monus(d.bytes, Length(r)), d.chunks \ {r}, d.out \o Payload(r))
           \in Deliveries(n, from, C, y, X \cup Bytes(r))
<1>. DEFINE D == d.chunks \ {r}
            e == Delivery(r.end, Monus(d.bytes, Length(r)), D, d.out \o Payload(r))
<1>1. /\ d.next \in 0 .. n /\ d.bytes \in Nat /\ d.chunks \in SUBSET C
      /\ d.next >= from /\ d.out = Consecutive(from, d.next)
      /\ \A c \in d.chunks : c.start >= d.next
      /\ (from .. d.next - 1) \cup Covered(d.chunks) = X
  BY DEF Deliveries
<1>2. \A c \in C : c.start \in Nat /\ c.end \in 0 .. n /\ c.start < c.end
  BY DEF RangesBelow
<1>3. \A c \in D : c.start >= r.end
  BY <1>1, <1>2 DEF Disjoint
<1>4. D \in SUBSET C
  BY <1>1
<1>5. Cardinality(Covered(D)) \in Nat
  <2>1. Disjoint(D)
    BY <1>4 DEF Disjoint
  <2>2. \A c \in D : c.start \in 0 .. n /\ c.end \in 0 .. n /\ c.start < c.end
    BY <1>2, <1>4
  <2>. QED
    BY <2>1, <2>2, DisjointFinite
<1>6. Length(r) \in Nat
  BY <1>2 DEF Length
<1>7. Monus(d.bytes, Length(r)) = Cardinality(Covered(D)) + y
  BY <1>5, <1>6 DEF Monus
<1>8. d.out \o Payload(r) = Consecutive(from, r.end) /\ Consecutive(from, r.end) \in Seq(Nat)
  <2>1. Payload(r) = Consecutive(d.next, r.end)
    BY DEF Payload, Consecutive, Length
  <2>2. from \in Nat /\ d.next \in Nat /\ r.end \in Nat /\ from <= d.next /\ d.next <= r.end
    BY <1>1, <1>2
  <2>3. from <= r.end /\ r.end <= r.end
    BY <2>2
  <2>4. Consecutive(from, d.next) \o Consecutive(d.next, r.end) = Consecutive(from, r.end)
    BY <2>2, ConsecutiveJoin, Zenon
  <2>5. Consecutive(from, r.end) \in Seq(Nat)
    BY <2>2, <2>3, ConsecutiveJoin, Zenon
  <2>. QED
    BY <1>1, <2>1, <2>4, <2>5
<1>9. (from .. r.end - 1) \cup Covered(D) = X \cup Bytes(r)
  <2>1. Covered(d.chunks) \cup Bytes(r) = Covered(D) \cup Bytes(r)
    BY DEF Covered
  <2>2. from .. r.end - 1 = (from .. d.next - 1) \cup Bytes(r)
    BY <1>1, <1>2 DEF Bytes
  <2>. QED
    BY <1>1, <2>1, <2>2, Zenon
<1>10. r.end \in 0 .. n /\ r.end >= from
  BY <1>1, <1>2
<1>11. e = [next |-> r.end, bytes |-> Cardinality(Covered(D)) + y, chunks |-> D, out |-> Consecutive(from, r.end)]
  BY <1>7, <1>8 DEF Delivery
<1>. HIDE DEF e, D
<1>12. e \in [next : 0 .. n, bytes : Nat, chunks : SUBSET C, out : Seq(Nat)]
  BY <1>4, <1>5, <1>8, <1>10, <1>11
<1>13. /\ e.next = r.end /\ e.bytes = Cardinality(Covered(D)) + y /\ e.chunks = D
       /\ e.out = Consecutive(from, r.end)
  BY <1>11
<1>. QED
  BY <1>3, <1>9, <1>10, <1>12, <1>13, Zenon DEF Deliveries, e, D

\* One turn of the drain takes the chunk at the frontier.
LEMMA TakeBufferedExact ==
  ASSUME NEW n \in Nat, NEW from \in 0 .. n, NEW C \in SUBSET RangesBelow(n), Disjoint(C),
         NEW x \in Nat, NEW X, NEW d \in Deliveries(n, from, C, x, X)
  PROVE  /\ TakeBuffered(d) \in Deliveries(n, from, C, x, X)
         /\ Cardinality(d.chunks) \in Nat
         /\ ~StartsAt(d.chunks, d.next) => TakeBuffered(d) = d
         /\ StartsAt(d.chunks, d.next)
              => Cardinality(TakeBuffered(d).chunks) < Cardinality(d.chunks)
<1>1. /\ d.next \in 0 .. n /\ d.bytes \in Nat /\ d.chunks \in SUBSET C
      /\ d.bytes = Cardinality(Covered(d.chunks)) + x
      /\ (from .. d.next - 1) \cup Covered(d.chunks) = X
  BY DEF Deliveries
<1>2. d.chunks \in SUBSET RangesBelow(n) /\ Disjoint(d.chunks)
  BY <1>1 DEF Disjoint
<1>3. IsFiniteSet(d.chunks) /\ Cardinality(d.chunks) \in Nat
  <2>1. \A c \in d.chunks : c.start \in 0 .. n /\ c.end \in 0 .. n /\ c.start < c.end
    BY <1>2 DEF RangesBelow
  <2>. QED
    BY <1>2, <2>1, DisjointFinite
<1>4. CASE ~StartsAt(d.chunks, d.next)
  BY <1>3, <1>4 DEF TakeBuffered
<1>5. CASE StartsAt(d.chunks, d.next)
  <2>. DEFINE r == ChunkAt(d.chunks, d.next)
  <2>1. r \in d.chunks /\ r.start = d.next
    BY <1>5 DEF StartsAt, ChunkAt
  <2>2. TakeBuffered(d)
          = Delivery(r.end, Monus(d.bytes, Length(r)), d.chunks \ {r}, d.out \o Payload(r))
    BY <1>5 DEF TakeBuffered
  <2>. HIDE DEF r
  <2>3. /\ Covered(d.chunks) = Covered(d.chunks \ {r}) \cup Bytes(r)
        /\ Cardinality(Covered(d.chunks)) = Cardinality(Covered(d.chunks \ {r})) + Length(r)
        /\ Cardinality(Covered(d.chunks \ {r})) \in Nat /\ Length(r) \in Nat
    BY <1>2, <2>1, TakeRange, Zenon
  <2>4. x + Cardinality(Covered(d.chunks \ {r})) + Length(r) = d.bytes
    BY <1>1, <2>3
  <2>5. r \in C
    BY <1>1, <2>1
  <2>6. TakeBuffered(d) \in Deliveries(n, from, C, x, X \cup Bytes(r))
    BY <2>1, <2>2, <2>4, <2>5, HandOut
  <2>7. X \cup Bytes(r) = X
    BY <1>1, <2>3
  <2>8. Cardinality(d.chunks \ {r}) = Cardinality(d.chunks) - 1
    BY <1>3, <2>1, FS_RemoveElement, Zenon
  <2>9. TakeBuffered(d).chunks = d.chunks \ {r}
    BY <2>2 DEF Delivery
  <2>10. TakeBuffered(d) \in Deliveries(n, from, C, x, X)
    BY <2>6, <2>7
  <2>11. Cardinality(TakeBuffered(d).chunks) < Cardinality(d.chunks)
    BY <1>3, <2>8, <2>9
  <2>. QED
    BY <1>3, <1>5, <2>10, <2>11
<1>. QED
  BY <1>4, <1>5

\* The recursive function of the drain is what its definition says, on any set
\* that the turns do not leave.
LEMMA DrainTurnsDef ==
  ASSUME NEW S, NEW d \in S, \A x \in S : TakeBuffered(x) \in S
  PROVE  DrainTurns(d) = [n \in Nat |-> IF n = 0 THEN d ELSE TakeBuffered(DrainTurns(d)[n - 1])]
<1>. DEFINE step == [x \in S |-> TakeBuffered(x)]
            R(f) == f = [n \in Nat |-> IF n = 0 THEN d ELSE TakeBuffered(f[n - 1])]
<1>1. step \in [S -> S]
  OBVIOUS
<1>2. PICK f \in [Nat -> S] : f = [n \in Nat |-> IF n = 0 THEN d ELSE step[f[n - 1]]]
  <2>. HIDE DEF step
  <2>. QED
    BY <1>1, Iteration
<1>3. R(f)
  <2>1. \A n \in Nat : n # 0 => step[f[n - 1]] = TakeBuffered(f[n - 1])
    OBVIOUS
  <2>. HIDE DEF step
  <2>. QED
    BY <1>2, <2>1, Zenon
<1>4. DrainTurns(d) = CHOOSE g : R(g)
  BY DEF DrainTurns
<1>5. R(DrainTurns(d))
  <2>. HIDE DEF R
  <2>. QED
    BY <1>3, <1>4
<1>. QED
  BY <1>5

\* The drain ends with no chunk at the frontier, and accounts for every byte.
LEMMA DrainExact ==
  ASSUME NEW n \in Nat, NEW from \in 0 .. n, NEW C \in SUBSET RangesBelow(n), Disjoint(C),
         NEW x \in Nat, NEW X, NEW d \in Deliveries(n, from, C, x, X)
  PROVE  /\ Drain(d) \in Deliveries(n, from, C, x, X)
         /\ ~StartsAt(Drain(d).chunks, Drain(d).next)
<1>. DEFINE S == Deliveries(n, from, C, x, X)
            D == {e \in S : ~StartsAt(e.chunks, e.next)}
            f == DrainTurns(d)
            m == [e \in S |-> Cardinality(e.chunks)]
<1>1. \A e \in S : /\ TakeBuffered(e) \in S
                   /\ Cardinality(e.chunks) \in Nat
                   /\ ~StartsAt(e.chunks, e.next) => TakeBuffered(e) = e
                   /\ StartsAt(e.chunks, e.next)
                        => Cardinality(TakeBuffered(e).chunks) < Cardinality(e.chunks)
  BY TakeBufferedExact
<1>. HIDE DEF S
<1>. d \in S
  BY DEF S
<1>2. f = [k \in Nat |-> IF k = 0 THEN d ELSE TakeBuffered(f[k - 1])]
  BY <1>1, DrainTurnsDef, Zenon
<1>. HIDE DEF f
<1>3. f[0] = d /\ \A k \in Nat : f[k + 1] = TakeBuffered(f[k])
  <2>1. \A k \in Nat : k + 1 \in Nat /\ k + 1 # 0 /\ (k + 1) - 1 = k
    OBVIOUS
  <2>. QED
    BY <1>2, <2>1
<1>4. m \in [S -> Nat]
  BY <1>1
<1>5. \A k \in Nat : f[k] \in S => f[k + 1] \in S
  BY <1>1, <1>3
<1>6. \A k \in Nat : f[k] \in S /\ f[k] \in D => f[k + 1] \in D
  BY <1>1, <1>3
<1>7. \A k \in Nat : f[k] \in S /\ f[k] \notin D => m[f[k + 1]] < m[f[k]]
  BY <1>1, <1>3
<1>8. f[m[f[0]]] \in S /\ f[m[f[0]]] \in D
  <2>. HIDE DEF m, D
  <2>. QED
    BY <1>3, <1>4, <1>5, <1>6, <1>7, LoopEnds, Zenon
<1>9. Drain(d) = f[m[f[0]]]
  BY <1>3 DEF Drain, f
<1>. QED
  BY <1>8, <1>9 DEF S

\* The loop over the missing ranges: what is left to place is not accounted for
\* yet, and no chunk waits at the frontier.
Placings(n, from, C, X) ==
  {p \in [delivery : [next : 0 .. n, bytes : Nat, chunks : SUBSET C, out : Seq(Nat)],
          left : SUBSET C] :
     /\ p.delivery \in Deliveries(n, from, C, Cardinality(Covered(p.left)), X \ Covered(p.left))
     /\ Covered(p.left) \subseteq X
     /\ ~StartsAt(p.delivery.chunks, p.delivery.next)}

\* Placing a missing range accounts for its bytes, whether it is handed out or
\* buffered.
LEMMA PlaceExact ==
  ASSUME NEW n \in Nat, NEW from \in 0 .. n, NEW C \in SUBSET RangesBelow(n), Disjoint(C),
         \A c \in C : c.start >= from,
         NEW X, NEW L \in SUBSET C, NEW r \in L, Covered(L) \subseteq X,
         NEW d \in Deliveries(n, from, C, Cardinality(Covered(L)), X \ Covered(L)),
         ~StartsAt(d.chunks, d.next)
  PROVE  /\ Place(d, r)
              \in Deliveries(n, from, C, Cardinality(Covered(L \ {r})), X \ Covered(L \ {r}))
         /\ ~StartsAt(Place(d, r).chunks, Place(d, r).next)
<1>. DEFINE M == L \ {r}
            Y == X \ Covered(L)
            Z == X \ Covered(M)
<1>1. /\ d.next \in 0 .. n /\ d.next >= from /\ d.bytes \in Nat /\ d.chunks \in SUBSET C
      /\ d.out = Consecutive(from, d.next) /\ d.out \in Seq(Nat)
      /\ d.bytes = Cardinality(Covered(d.chunks)) + Cardinality(Covered(L))
      /\ \A c \in d.chunks : c.start >= d.next
      /\ (from .. d.next - 1) \cup Covered(d.chunks) = Y
  BY DEF Deliveries
<1>2. \A c \in C : c.start \in 0 .. n /\ c.end \in 0 .. n /\ c.start < c.end
  BY DEF RangesBelow
<1>3. r \in C /\ r.start \in Covered(L)
  BY <1>2 DEF Covered, Bytes
<1>4. /\ L \in SUBSET RangesBelow(n) /\ Disjoint(L)
      /\ d.chunks \in SUBSET RangesBelow(n) /\ Disjoint(d.chunks)
  BY <1>1 DEF Disjoint
<1>5. /\ Covered(L) = Covered(M) \cup Bytes(r) /\ Covered(M) \cap Bytes(r) = {}
      /\ Cardinality(Covered(L)) = Cardinality(Covered(M)) + Length(r)
      /\ Cardinality(Covered(M)) \in Nat /\ Length(r) \in Nat
  BY <1>4, TakeRange, Zenon
<1>6. Y \cup Bytes(r) = Z
  BY <1>5, Zenon
<1>7. r \notin d.chunks
  <2>1. r.start \notin Covered(d.chunks)
    BY <1>1, <1>3
  <2>. QED
    BY <1>2, <1>3, <2>1 DEF Covered, Bytes
<1>8. r.start >= d.next
  BY <1>1, <1>2, <1>3
<1>9. Cardinality(Covered(d.chunks)) \in Nat
  <2>1. \A c \in d.chunks : c.start \in 0 .. n /\ c.end \in 0 .. n /\ c.start < c.end
    BY <1>1, <1>2
  <2>. QED
    BY <1>4, <2>1, DisjointFinite
<1>. HIDE DEF M, Y, Z
<1>10. CASE r.start = d.next
  <2>. DEFINE e == Delivery(r.end, Monus(d.bytes, Length(r)), d.chunks, d.out \o Payload(r))
  <2>1. d.chunks \ {r} = d.chunks
    BY <1>7
  <2>2. Cardinality(Covered(M)) + Cardinality(Covered(d.chunks \ {r})) + Length(r) = d.bytes
    <3>1. Cardinality(Covered(d.chunks \ {r})) = Cardinality(Covered(d.chunks))
      BY <2>1, Zenon
    <3>. QED
      BY <1>1, <1>5, <1>9, <3>1
  <2>3. e \in Deliveries(n, from, C, Cardinality(Covered(M)), Y \cup Bytes(r))
    <3>1. Cardinality(Covered(L)) \in Nat /\ d \in Deliveries(n, from, C, Cardinality(Covered(L)), Y)
      BY <1>5 DEF Y
    <3>. QED
      BY <1>3, <1>5, <1>10, <2>1, <2>2, <3>1, HandOut, Zenon
  <2>4. Place(d, r) = Drain(e)
    BY <1>10 DEF Place
  <2>. HIDE DEF e
  <2>5. e \in Deliveries(n, from, C, Cardinality(Covered(M)), Z)
    BY <1>6, <2>3
  <2>6. /\ Drain(e) \in Deliveries(n, from, C, Cardinality(Covered(M)), Z)
        /\ ~StartsAt(Drain(e).chunks, Drain(e).next)
    BY <1>5, <2>5, DrainExact
  <2>. QED
    BY <2>4, <2>6 DEF M, Z
<1>11. CASE r.start # d.next
  <2>. DEFINE K == d.chunks \cup {r}
              e == Delivery(d.next, d.bytes, K, d.out)
  <2>1. Place(d, r) = e
    BY <1>11 DEF Place
  <2>2. e = [next |-> d.next, bytes |-> d.bytes, chunks |-> K, out |-> d.out]
    BY DEF Delivery
  <2>3. K \in SUBSET C /\ K \in SUBSET RangesBelow(n) /\ Disjoint(K) /\ r \in K /\ K \ {r} = d.chunks
    <3>1. K \in SUBSET C /\ r \in K /\ K \ {r} = d.chunks
      BY <1>1, <1>3, <1>7
    <3>. QED
      BY <3>1 DEF Disjoint
  <2>4. /\ Covered(K) = Covered(d.chunks) \cup Bytes(r)
        /\ Cardinality(Covered(K)) = Cardinality(Covered(d.chunks)) + Length(r)
    <3>. HIDE DEF K
    <3>1. /\ Covered(K) = Covered(K \ {r}) \cup Bytes(r)
          /\ Cardinality(Covered(K)) = Cardinality(Covered(K \ {r})) + Length(r)
      BY <2>3, TakeRange, Zenon
    <3>. QED
      BY <2>3, <3>1, Zenon
  <2>5. d.bytes = Cardinality(Covered(K)) + Cardinality(Covered(M))
    BY <1>1, <1>5, <1>9, <2>4
  <2>6. \A c \in K : c.start >= d.next
    BY <1>1, <1>8
  <2>7. (from .. d.next - 1) \cup Covered(K) = Z
    BY <1>1, <1>6, <2>4, Zenon
  <2>8. ~StartsAt(K, d.next)
    BY <1>11 DEF StartsAt
  <2>. HIDE DEF K, e
  <2>9. /\ e \in [next : 0 .. n, bytes : Nat, chunks : SUBSET C, out : Seq(Nat)]
        /\ e.next = d.next /\ e.bytes = d.bytes /\ e.chunks = K /\ e.out = d.out
    BY <1>1, <2>2, <2>3
  <2>10. e \in Deliveries(n, from, C, Cardinality(Covered(M)), Z)
    BY <1>1, <2>5, <2>6, <2>7, <2>9 DEF Deliveries
  <2>. QED
    BY <2>1, <2>8, <2>9, <2>10 DEF M, Z
<1>. QED
  BY <1>10, <1>11

\* The recursive function of that loop is what its definition says.
LEMMA PlaceTurnsDef ==
  ASSUME NEW S, NEW d, NEW M, [delivery |-> d, left |-> M] \in S,
         \A p \in S : PlaceFirst(p) \in S
  PROVE  PlaceTurns(d, M)
           = [n \in Nat |-> IF n = 0 THEN [delivery |-> d, left |-> M]
                            ELSE PlaceFirst(PlaceTurns(d, M)[n - 1])]
<1>. DEFINE base == [delivery |-> d, left |-> M]
            step == [p \in S |-> PlaceFirst(p)]
            R(f) == f = [n \in Nat |-> IF n = 0 THEN base ELSE PlaceFirst(f[n - 1])]
<1>1. step \in [S -> S] /\ base \in S
  OBVIOUS
<1>2. PICK f \in [Nat -> S] : f = [n \in Nat |-> IF n = 0 THEN base ELSE step[f[n - 1]]]
  <2>. HIDE DEF step, base
  <2>. QED
    BY <1>1, Iteration
<1>3. R(f)
  <2>1. \A n \in Nat : n # 0 => step[f[n - 1]] = PlaceFirst(f[n - 1])
    OBVIOUS
  <2>. HIDE DEF step, base
  <2>. QED
    BY <1>2, <2>1, Zenon
<1>4. PlaceTurns(d, M) = CHOOSE g : R(g)
  BY DEF PlaceTurns
<1>5. R(PlaceTurns(d, M))
  <2>. HIDE DEF R
  <2>. QED
    BY <1>3, <1>4
<1>. QED
  BY <1>5

\* The first of a nonempty list of disjoint ranges.
LEMMA FirstIn ==
  ASSUME NEW n \in Nat, NEW L \in SUBSET RangesBelow(n), L # {}
  PROVE  First(L) \in L
<1>. DEFINE A == {r.start : r \in L}
<1>1. \A r \in L : r.start \in Nat
  BY DEF RangesBelow
<1>2. A \in SUBSET Nat /\ A # {}
  BY <1>1, Zenon
<1>3. PICK a \in A : \A b \in A : a <= b
  BY <1>2, LeastNatural, Zenon
<1>4. PICK r \in L : r.start = a
  BY <1>3, Zenon
<1>5. \A q \in L : r.start <= q.start
  BY <1>3, <1>4, Zenon
<1>. QED
  BY <1>5, Zenon DEF First

\* One turn of the loop places one range.
LEMMA PlaceFirstExact ==
  ASSUME NEW n \in Nat, NEW from \in 0 .. n, NEW C \in SUBSET RangesBelow(n), Disjoint(C),
         \A c \in C : c.start >= from,
         NEW X, NEW p \in Placings(n, from, C, X)
  PROVE  /\ PlaceFirst(p) \in Placings(n, from, C, X)
         /\ Cardinality(p.left) \in Nat
         /\ p.left = {} => PlaceFirst(p) = p
         /\ p.left # {} => Cardinality(PlaceFirst(p).left) < Cardinality(p.left)
<1>. DEFINE L == p.left
            d == p.delivery
<1>1. /\ L \in SUBSET C /\ Covered(L) \subseteq X
      /\ d \in Deliveries(n, from, C, Cardinality(Covered(L)), X \ Covered(L))
      /\ ~StartsAt(d.chunks, d.next)
  BY DEF Placings
<1>2. IsFiniteSet(L) /\ Cardinality(L) \in Nat
  <2>1. Disjoint(L)
    BY <1>1 DEF Disjoint
  <2>2. \A c \in L : c.start \in 0 .. n /\ c.end \in 0 .. n /\ c.start < c.end
    BY <1>1 DEF RangesBelow
  <2>. QED
    BY <2>1, <2>2, DisjointFinite
<1>3. CASE L = {}
  BY <1>2, <1>3 DEF PlaceFirst
<1>4. CASE L # {}
  <2>. DEFINE r == First(L)
              M == L \ {r}
              e == Place(d, r)
  <2>1. r \in L
    BY <1>1, <1>4, FirstIn
  <2>2. PlaceFirst(p) = [delivery |-> e, left |-> M]
    BY <1>4 DEF PlaceFirst
  <2>. HIDE DEF r, d, L
  <2>3. /\ e \in Deliveries(n, from, C, Cardinality(Covered(M)), X \ Covered(M))
        /\ ~StartsAt(e.chunks, e.next)
    BY <1>1, <2>1, PlaceExact, Zenon
  <2>4. M \in SUBSET C /\ Covered(M) \subseteq X
    BY <1>1 DEF Covered
  <2>5. e \in [next : 0 .. n, bytes : Nat, chunks : SUBSET C, out : Seq(Nat)]
    BY <2>3 DEF Deliveries
  <2>6. Cardinality(M) = Cardinality(L) - 1
    BY <1>2, <2>1, FS_RemoveElement
  <2>. HIDE DEF M, e
  <2>7. PlaceFirst(p) \in Placings(n, from, C, X)
    <3>. DEFINE q == [delivery |-> e, left |-> M]
    <3>1. q.delivery = e /\ q.left = M
      OBVIOUS
    <3>2. q \in [delivery : [next : 0 .. n, bytes : Nat, chunks : SUBSET C, out : Seq(Nat)],
                 left : SUBSET C]
      BY <2>4, <2>5
    <3>. HIDE DEF q
    <3>3. q \in Placings(n, from, C, X)
      BY <2>3, <2>4, <3>1, <3>2, Zenon DEF Placings
    <3>. QED
      BY <2>2, <3>3 DEF q
  <2>8. Cardinality(PlaceFirst(p).left) < Cardinality(p.left)
    BY <1>2, <2>2, <2>6 DEF L
  <2>. QED
    BY <1>2, <1>4, <2>7, <2>8 DEF L
<1>. QED
  BY <1>3, <1>4

\* The loop over the missing ranges accounts for all of them.
LEMMA PlaceAllExact ==
  ASSUME NEW n \in Nat, NEW from \in 0 .. n, NEW C \in SUBSET RangesBelow(n), Disjoint(C),
         \A c \in C : c.start >= from,
         NEW X, NEW M \in SUBSET C, Covered(M) \subseteq X,
         NEW d \in Deliveries(n, from, C, Cardinality(Covered(M)), X \ Covered(M)),
         ~StartsAt(d.chunks, d.next)
  PROVE  /\ PlaceAll(d, M) \in Deliveries(n, from, C, 0, X)
         /\ ~StartsAt(PlaceAll(d, M).chunks, PlaceAll(d, M).next)
<1>. DEFINE S == Placings(n, from, C, X)
            D == {p \in S : p.left = {}}
            f == PlaceTurns(d, M)
            m == [p \in S |-> Cardinality(p.left)]
            base == [delivery |-> d, left |-> M]
<1>1. \A p \in S : /\ PlaceFirst(p) \in S
                   /\ Cardinality(p.left) \in Nat
                   /\ p.left = {} => PlaceFirst(p) = p
                   /\ p.left # {} => Cardinality(PlaceFirst(p).left) < Cardinality(p.left)
  BY PlaceFirstExact
<1>2. base \in S
  <2>1. d \in [next : 0 .. n, bytes : Nat, chunks : SUBSET C, out : Seq(Nat)]
    BY DEF Deliveries
  <2>. QED
    BY <2>1, Zenon DEF Placings
<1>3. base.left = M
  OBVIOUS
<1>. HIDE DEF S
<1>4. f = [k \in Nat |-> IF k = 0 THEN base ELSE PlaceFirst(f[k - 1])]
  BY <1>1, <1>2, PlaceTurnsDef
<1>. HIDE DEF f, base
<1>5. f[0] = base /\ \A k \in Nat : f[k + 1] = PlaceFirst(f[k])
  <2>1. \A k \in Nat : k + 1 \in Nat /\ k + 1 # 0 /\ (k + 1) - 1 = k
    OBVIOUS
  <2>. QED
    BY <1>4, <2>1
<1>6. m \in [S -> Nat]
  BY <1>1
<1>7. \A k \in Nat : f[k] \in S => f[k + 1] \in S
  BY <1>1, <1>5
<1>8. \A k \in Nat : f[k] \in S /\ f[k] \in D => f[k + 1] \in D
  BY <1>1, <1>5
<1>9. \A k \in Nat : f[k] \in S /\ f[k] \notin D => m[f[k + 1]] < m[f[k]]
  BY <1>1, <1>5
<1>10. f[m[f[0]]] \in S /\ f[m[f[0]]] \in D
  <2>. HIDE DEF m, D
  <2>. QED
    BY <1>2, <1>5, <1>6, <1>7, <1>8, <1>9, LoopEnds, Zenon
<1>11. m[f[0]] = Cardinality(M)
  BY <1>2, <1>3, <1>5
<1>. DEFINE p == f[Cardinality(M)]
<1>12. p \in S /\ p.left = {}
  BY <1>10, <1>11
<1>13. PlaceAll(d, M) = p.delivery
  BY DEF PlaceAll, f
<1>. HIDE DEF p
<1>14. /\ p.delivery \in Deliveries(n, from, C, Cardinality(Covered({})), X \ Covered({}))
       /\ ~StartsAt(p.delivery.chunks, p.delivery.next)
  BY <1>12, Zenon DEF S, Placings
<1>15. Cardinality(Covered({})) = 0 /\ X \ Covered({}) = X
  BY FS_EmptySet DEF Covered
<1>. QED
  BY <1>13, <1>14, <1>15

-----------------------------------------------------------------------------
(* The exact preview of the reorder chunks *)

\* The recursive function of the walk is what its definition says.
LEMMA WalkTurnsDef ==
  ASSUME NEW S, NEW C, next_offset \in S, \A w \in S : WalkOver(C, w) \in S
  PROVE  WalkTurns(C)
           = [n \in Nat |-> IF n = 0 THEN next_offset ELSE WalkOver(C, WalkTurns(C)[n - 1])]
<1>. DEFINE step == [w \in S |-> WalkOver(C, w)]
            R(f) == f = [n \in Nat |-> IF n = 0 THEN next_offset ELSE WalkOver(C, f[n - 1])]
<1>1. step \in [S -> S]
  OBVIOUS
<1>2. PICK f \in [Nat -> S] : f = [n \in Nat |-> IF n = 0 THEN next_offset ELSE step[f[n - 1]]]
  <2>. HIDE DEF step
  <2>. QED
    BY <1>1, Iteration
<1>3. R(f)
  <2>1. \A n \in Nat : n # 0 => step[f[n - 1]] = WalkOver(C, f[n - 1])
    OBVIOUS
  <2>. HIDE DEF step
  <2>. QED
    BY <1>2, <2>1, Zenon
<1>4. WalkTurns(C) = CHOOSE g : R(g)
  BY DEF WalkTurns
<1>5. R(WalkTurns(C))
  <2>. HIDE DEF R
  <2>. QED
    BY <1>3, <1>4
<1>. QED
  BY <1>5

\* The cursor of the walk stands between chunks, behind it are chunks only.
Cursors(n, from, C) ==
  {w \in 0 .. n : /\ w >= from
                  /\ from .. w - 1 \subseteq Covered(C)
                  /\ \A c \in C : c.end <= w \/ c.start >= w}

\* One turn passes one chunk.
LEMMA WalkOverExact ==
  ASSUME NEW n \in Nat, NEW from \in 0 .. n, NEW C \in SUBSET RangesBelow(n), Disjoint(C),
         NEW w \in Cursors(n, from, C)
  PROVE  /\ WalkOver(C, w) \in Cursors(n, from, C)
         /\ Cardinality({c \in C : c.start >= w}) \in Nat
         /\ ~StartsAt(C, w) => WalkOver(C, w) = w
         /\ StartsAt(C, w) => Cardinality({c \in C : c.start >= WalkOver(C, w)})
                                < Cardinality({c \in C : c.start >= w})
<1>. DEFINE A(x) == {c \in C : c.start >= x}
<1>1. \A c \in C : c.start \in 0 .. n /\ c.end \in 0 .. n /\ c.start < c.end
  BY DEF RangesBelow
<1>2. IsFiniteSet(C)
  BY <1>1, DisjointFinite
<1>3. \A x : IsFiniteSet(A(x)) /\ Cardinality(A(x)) \in Nat
  <2>1. \A x : A(x) \in SUBSET C
    OBVIOUS
  <2>. HIDE DEF A
  <2>. QED
    BY <1>2, <2>1, FS_Subset, FS_CardinalityType
<1>4. CASE ~StartsAt(C, w)
  BY <1>3, <1>4 DEF WalkOver
<1>5. CASE StartsAt(C, w)
  <2>. DEFINE r == ChunkAt(C, w)
  <2>1. r \in C /\ r.start = w
    BY <1>5 DEF StartsAt, ChunkAt
  <2>2. WalkOver(C, w) = r.end
    BY <1>5 DEF WalkOver
  <2>. HIDE DEF r
  <2>3. w \in 0 .. n /\ w >= from /\ from .. w - 1 \subseteq Covered(C)
        /\ \A c \in C : c.end <= w \/ c.start >= w
    BY DEF Cursors
  <2>4. \A c \in C : c.end <= r.end \/ c.start >= r.end
    BY <1>1, <2>1, <2>3 DEF Disjoint
  <2>5. from .. r.end - 1 \subseteq Covered(C)
    <3>1. from .. r.end - 1 = (from .. w - 1) \cup Bytes(r)
      BY <1>1, <2>1, <2>3 DEF Bytes
    <3>2. Bytes(r) \subseteq Covered(C)
      BY <2>1 DEF Covered
    <3>. QED
      BY <2>3, <3>1, <3>2
  <2>6. r.end \in Cursors(n, from, C)
    BY <1>1, <2>1, <2>3, <2>4, <2>5 DEF Cursors
  <2>7. A(r.end) \subseteq A(w) \ {r} /\ r \in A(w)
    BY <1>1, <2>1, <2>3
  <2>8. Cardinality(A(r.end)) < Cardinality(A(w))
    <3>. HIDE DEF A
    <3>1. Cardinality(A(w) \ {r}) = Cardinality(A(w)) - 1 /\ IsFiniteSet(A(w) \ {r})
      BY <1>3, <2>7, FS_RemoveElement
    <3>2. Cardinality(A(r.end)) <= Cardinality(A(w) \ {r})
      BY <2>7, <3>1, FS_Subset
    <3>3. Cardinality(A(w)) \in Nat /\ Cardinality(A(r.end)) \in Nat
      BY <1>3
    <3>. QED
      BY <3>1, <3>2, <3>3
  <2>9. Cardinality(A(w)) \in Nat
    BY <1>3
  <2>. QED
    BY <1>5, <2>2, <2>6, <2>8, <2>9
<1>. QED
  BY <1>4, <1>5

\* The walk ends at the first offset from the frontier that no chunk holds.
LEMMA WalkExact ==
  ASSUME NEW n \in Nat, next_offset \in 0 .. n, NEW C \in SUBSET RangesBelow(n), Disjoint(C),
         \A c \in C : c.start >= next_offset
  PROVE  LET w == WalkTurns(C)[Cardinality(C)]
         IN /\ w \in 0 .. n /\ w >= next_offset
            /\ next_offset .. w - 1 \subseteq Covered(C)
            /\ w \notin Covered(C)
<1>. DEFINE S == Cursors(n, next_offset, C)
            D == {w \in S : ~StartsAt(C, w)}
            f == WalkTurns(C)
            m == [w \in S |-> Cardinality({c \in C : c.start >= w})]
<1>1. \A w \in S : /\ WalkOver(C, w) \in S
                   /\ Cardinality({c \in C : c.start >= w}) \in Nat
                   /\ ~StartsAt(C, w) => WalkOver(C, w) = w
                   /\ StartsAt(C, w) => Cardinality({c \in C : c.start >= WalkOver(C, w)})
                                          < Cardinality({c \in C : c.start >= w})
  BY WalkOverExact, Zenon
<1>2. next_offset \in S
  BY DEF Cursors
<1>. HIDE DEF S
<1>3. f = [k \in Nat |-> IF k = 0 THEN next_offset ELSE WalkOver(C, f[k - 1])]
  BY <1>1, <1>2, WalkTurnsDef, Zenon
<1>. HIDE DEF f
<1>4. f[0] = next_offset /\ \A k \in Nat : f[k + 1] = WalkOver(C, f[k])
  <2>1. \A k \in Nat : k + 1 \in Nat /\ k + 1 # 0 /\ (k + 1) - 1 = k
    OBVIOUS
  <2>. QED
    BY <1>3, <2>1
<1>5. m \in [S -> Nat]
  BY <1>1, Zenon
<1>6. \A k \in Nat : f[k] \in S => f[k + 1] \in S
  BY <1>1, <1>4, Zenon
<1>7. \A k \in Nat : f[k] \in S /\ f[k] \in D => f[k + 1] \in D
  BY <1>1, <1>4, Zenon
<1>8. \A k \in Nat : f[k] \in S /\ f[k] \notin D => m[f[k + 1]] < m[f[k]]
  <2>. SUFFICES ASSUME NEW k \in Nat, f[k] \in S, f[k] \notin D
                PROVE  m[f[k + 1]] < m[f[k]]
    OBVIOUS
  <2>1. StartsAt(C, f[k]) /\ f[k + 1] = WalkOver(C, f[k]) /\ f[k + 1] \in S
    BY <1>4, <1>6
  <2>. QED
    BY <1>1, <2>1
<1>9. f[m[f[0]]] \in S /\ f[m[f[0]]] \in D
  <2>. HIDE DEF m, D
  <2>. QED
    BY <1>2, <1>4, <1>5, <1>6, <1>7, <1>8, LoopEnds, Zenon
<1>10. m[f[0]] = Cardinality(C)
  <2>1. {c \in C : c.start >= next_offset} = C
    OBVIOUS
  <2>. QED
    BY <1>2, <1>4, <2>1
<1>. DEFINE w == f[Cardinality(C)]
<1>11. w \in S /\ ~StartsAt(C, w)
  BY <1>9, <1>10
<1>. HIDE DEF w
<1>12. /\ w \in 0 .. n /\ w >= next_offset /\ next_offset .. w - 1 \subseteq Covered(C)
       /\ \A c \in C : c.end <= w \/ c.start >= w
  BY <1>11 DEF S, Cursors
<1>13. w \notin Covered(C)
  <2>1. \A c \in C : c.start \in 0 .. n /\ c.end \in 0 .. n
    BY DEF RangesBelow
  <2>2. \A c \in C : w \notin Bytes(c)
    BY <1>11, <1>12, <2>1 DEF StartsAt, Bytes
  <2>. QED
    BY <2>2 DEF Covered
<1>. QED
  BY <1>12, <1>13 DEF w, f

\* What stays buffered is what starts where the walk ended or later.
LEMMA PreviewExact ==
  ASSUME NEW n \in Nat, next_offset \in 0 .. n, NEW C \in SUBSET RangesBelow(n), Disjoint(C),
         \A c \in C : c.start >= next_offset,
         NEW d \in Deliveries(n, next_offset, C, 0, Covered(C)),
         ~StartsAt(d.chunks, d.next)
  PROVE  d.chunks = {c \in C : c.start >= WalkTurns(C)[Cardinality(C)]}
<1>. DEFINE w == WalkTurns(C)[Cardinality(C)]
<1>1. /\ w \in 0 .. n /\ w >= next_offset
      /\ next_offset .. w - 1 \subseteq Covered(C) /\ w \notin Covered(C)
  BY WalkExact
<1>. HIDE DEF w
<1>2. /\ d.next \in 0 .. n /\ d.next >= next_offset /\ d.chunks \in SUBSET C
      /\ \A c \in d.chunks : c.start >= d.next
      /\ (next_offset .. d.next - 1) \cup Covered(d.chunks) = Covered(C)
  BY DEF Deliveries
<1>3. \A c \in C : c.start \in 0 .. n /\ c.end \in 0 .. n /\ c.start < c.end
  BY DEF RangesBelow
<1>4. \A x \in Covered(d.chunks) : x \in Int /\ x > d.next
  <2>1. \A c \in d.chunks : c.start > d.next
    BY <1>2, <1>3 DEF StartsAt
  <2>. QED
    BY <1>2, <1>3, <2>1 DEF Covered, Bytes
<1>5. d.next \notin Covered(C)
  BY <1>2, <1>4
<1>6. d.next = w
  <2>1. ~(d.next < w)
    BY <1>1, <1>2, <1>5
  <2>2. ~(w < d.next)
    BY <1>1, <1>2
  <2>. QED
    BY <1>1, <1>2, <2>1, <2>2
<1>7. ASSUME NEW c \in C, c.start >= w PROVE c \in d.chunks
  <2>1. c.start \in Covered(C) /\ c.start \notin next_offset .. d.next - 1
    BY <1>2, <1>3, <1>6, <1>7, SMTT(30) DEF Covered, Bytes
  <2>2. PICK b \in d.chunks : c.start \in Bytes(b)
    BY <1>2, <2>1, InCovered
  <2>3. b = c
    BY <1>2, <1>3, <2>2 DEF Disjoint, Bytes
  <2>. QED
    BY <2>2, <2>3
<1>8. \A c \in d.chunks : c \in C /\ c.start >= w
  BY <1>2, <1>6
<1>. QED
  BY <1>7, <1>8 DEF w

-----------------------------------------------------------------------------
(* The inductive invariant *)

\* Besides what DeliveredOnceInOrder says: the nodes are records of their type,
\* and a node that has been reported ends below the high water.
RecvInv ==
  /\ DeliveredOnceInOrder
  /\ received_ranges \in SUBSET NodesBelow(U64Max)
  /\ \A q \in received_ranges : ~q.dirty => q.end <= ack_high_water

\* The facts that the proofs about a frame start from.
LEMMA StateFacts ==
  ASSUME RecvInv
  PROVE  /\ U64Max \in Nat /\ next_offset \in 0 .. U64Max
         /\ reorder_bytes \in Nat /\ reorder_bytes = Cardinality(Covered(buffered))
         /\ buffered \in SUBSET RangesBelow(U64Max) /\ Disjoint(buffered)
         /\ \A c \in buffered : c.start \in Nat /\ c.end \in Nat /\ c.start < c.end
         /\ \A c \in buffered : c.start > next_offset
         /\ received_ranges \in SUBSET NodesBelow(U64Max) /\ Canonical(received_ranges)
         /\ Received = (0 .. next_offset - 1) \cup Covered(buffered)
         /\ IsFiniteSet(buffered) /\ Cardinality(buffered) \in Nat
         /\ IsFiniteSet(received_ranges) /\ Cardinality(received_ranges) \in Nat
<1>1. /\ U64Max \in Nat /\ next_offset \in 0 .. U64Max
      /\ reorder_bytes \in Nat /\ reorder_bytes = Cardinality(Covered(buffered))
      /\ buffered \in SUBSET RangesBelow(U64Max) /\ Disjoint(buffered)
      /\ \A c \in buffered : c.start > next_offset
      /\ received_ranges \in SUBSET NodesBelow(U64Max) /\ Canonical(received_ranges)
      /\ Received = (0 .. next_offset - 1) \cup Covered(buffered)
  BY RecvLimits DEF RecvInv, DeliveredOnceInOrder, ReorderStateExact, RecvTypeOK
<1>2. /\ \A c \in buffered : c.start \in 0 .. U64Max /\ c.end \in 0 .. U64Max /\ c.start < c.end
      /\ \A c \in received_ranges :
           c.start \in 0 .. U64Max /\ c.end \in 0 .. U64Max /\ c.start < c.end
  BY <1>1 DEF RangesBelow, NodesBelow
<1>3. IsFiniteSet(buffered) /\ Cardinality(buffered) \in Nat
  BY <1>1, <1>2, DisjointFinite
<1>4. Disjoint(received_ranges)
  BY <1>1, <1>2 DEF Canonical, Disjoint
<1>5. IsFiniteSet(received_ranges) /\ Cardinality(received_ranges) \in Nat
  BY <1>1, <1>2, <1>4, DisjointFinite
<1>. QED
  BY <1>1, <1>2, <1>3, <1>5

\* Missing(r) are ranges of their own: disjoint, new, and all that is new of r.
LEMMA MissingExact ==
  ASSUME RecvInv, NEW r \in RangesBelow(U64Max)
  PROVE  /\ Missing(r) \in SUBSET RangesBelow(U64Max)
         /\ Disjoint(Missing(r))
         /\ Covered(Missing(r)) = Bytes(r) \ Received
         /\ Disjoint(buffered \cup Missing(r))
         /\ \A c \in buffered \cup Missing(r) : c.start >= next_offset
         /\ buffered \cap Missing(r) = {}
<1>. DEFINE A == Bytes(r) \ Received
            M == Missing(r)
<1>1. U64Max \in Nat /\ r.start \in 0 .. U64Max /\ r.end \in 0 .. U64Max
  BY StateFacts DEF RangesBelow
<1>2. M = Runs(A)
  BY DEF Missing, uncovered_ranges, Received
<1>3. A \in SUBSET (0 .. U64Max - 1) /\ A \in SUBSET (0 .. U64Max) /\ A \in SUBSET Int
  BY <1>1 DEF Bytes
<1>. HIDE DEF A, M
<1>4. M \in SUBSET RangesBelow(U64Max) /\ Canonical(M) /\ Covered(M) = A
  BY <1>1, <1>2, <1>3, RunsCover, RunsType, RunsCanonical, Zenon
<1>5. \A c \in M : c.start \in Nat /\ c.end \in Nat /\ c.start < c.end /\ Bytes(c) \subseteq A
  BY <1>1, <1>4 DEF RangesBelow, Covered
<1>6. Disjoint(M)
  BY <1>4, <1>5 DEF Canonical, Disjoint
<1>7. \A c \in M : c.start >= next_offset
  <2>. SUFFICES ASSUME NEW c \in M PROVE c.start >= next_offset
    OBVIOUS
  <2>1. c.start \in A
    BY <1>5 DEF Bytes
  <2>. QED
    BY <1>5, <2>1, StateFacts DEF A
<1>8. ASSUME NEW c \in M, NEW b \in buffered PROVE c.end <= b.start \/ b.end <= c.start
  <2>1. b.start \in Nat /\ b.end \in Nat /\ b.start < b.end
    BY StateFacts
  <2>2. Bytes(b) \subseteq Received
    BY StateFacts DEF Covered
  <2>3. Bytes(c) \cap Bytes(b) = {}
    BY <1>5, <2>2 DEF A
  <2>. QED
    BY <1>5, <2>1, <2>3 DEF Bytes
<1>9. Disjoint(buffered \cup M)
  BY <1>6, <1>8, StateFacts DEF Disjoint
<1>10. buffered \cap M = {}
  BY <1>5, <1>8, StateFacts
<1>11. \A c \in buffered \cup M : c.start >= next_offset
  <2>1. \A c \in buffered : c.start >= next_offset
    BY StateFacts
  <2>. QED
    BY <1>7, <2>1
<1>. QED
  BY <1>4, <1>6, <1>9, <1>10, <1>11 DEF A, M

\* The locals at the start of either path are exact when their counter is.
LEMMA DeliveryStart ==
  ASSUME NEW n \in Nat, NEW from \in 0 .. n, NEW C \in SUBSET RangesBelow(n),
         NEW x \in Nat, NEW chunks \in SUBSET C, \A c \in chunks : c.start > from,
         Cardinality(Covered(chunks)) \in Nat
  PROVE  LET d == Delivery(from, Cardinality(Covered(chunks)) + x, chunks, <<>>)
         IN /\ d \in Deliveries(n, from, C, x, Covered(chunks))
            /\ ~StartsAt(d.chunks, d.next)
<1>. DEFINE d == Delivery(from, Cardinality(Covered(chunks)) + x, chunks, <<>>)
<1>1. \A c \in C : c.start \in Nat
  BY DEF RangesBelow
<1>2. /\ Consecutive(from, from) = <<>> /\ <<>> \in Seq(Nat)
      /\ from .. from - 1 = {}
  BY DEF Consecutive
<1>3. /\ d.next = from /\ d.bytes = Cardinality(Covered(chunks)) + x
      /\ d.chunks = chunks /\ d.out = <<>>
  BY DEF Delivery
<1>4. d \in [next : 0 .. n, bytes : Nat, chunks : SUBSET C, out : Seq(Nat)]
  BY <1>2 DEF Delivery
<1>. HIDE DEF d
<1>5. d.next >= from /\ d.out = Consecutive(from, d.next)
  BY <1>2, <1>3
<1>6. \A c \in d.chunks : c.start >= d.next
  BY <1>1, <1>3
<1>7. (from .. d.next - 1) \cup Covered(d.chunks) = Covered(chunks)
  <2>1. from .. d.next - 1 = {}
    BY <1>2, <1>3
  <2>. QED
    BY <1>3, <2>1
<1>8. d.bytes = Cardinality(Covered(d.chunks)) + x
  BY <1>3
<1>9. d \in Deliveries(n, from, C, x, Covered(chunks))
  BY <1>4, <1>5, <1>6, <1>7, <1>8 DEF Deliveries
<1>10. ~StartsAt(d.chunks, d.next)
  BY <1>1, <1>3 DEF StartsAt
<1>. QED
  BY <1>9, <1>10 DEF d

\* The fast path of receive_data and its general path end in a delivery that
\* accounts for the new bytes, out of the chunks there were.
LEMMA DeliveringExact ==
  ASSUME RecvInv, NEW r \in RangesBelow(U64Max)
  PROVE  LET C == buffered \cup Missing(r)
             d == Delivering(r)
         IN /\ d \in Deliveries(U64Max, next_offset, C, 0, Covered(C))
            /\ ~StartsAt(d.chunks, d.next)
            /\ InOrder(r) => d.chunks \subseteq buffered
<1>. DEFINE M == Missing(r)
            C == buffered \cup M
            d == Delivering(r)
<1>1. /\ M \in SUBSET RangesBelow(U64Max) /\ Disjoint(M) /\ Disjoint(C)
      /\ \A c \in C : c.start >= next_offset
      /\ buffered \cap M = {}
  BY MissingExact, Zenon
<1>2. U64Max \in Nat /\ next_offset \in 0 .. U64Max /\ C \in SUBSET RangesBelow(U64Max)
  BY <1>1, StateFacts
<1>3. /\ \A c \in buffered : c.start > next_offset
      /\ reorder_bytes \in Nat /\ reorder_bytes = Cardinality(Covered(buffered))
      /\ buffered \in SUBSET C
  BY StateFacts
<1>4. /\ Consecutive(next_offset, next_offset) = <<>> /\ <<>> \in Seq(Nat)
      /\ next_offset .. next_offset - 1 = {}
  BY <1>2 DEF Consecutive
<1>5. CASE InOrder(r)
  <2>. DEFINE b == Delivery(next_offset, reorder_bytes + Length(r), buffered, <<>>)
              e == Delivery(r.end, reorder_bytes, buffered, Payload(r))
  <2>1. r \in C /\ r.start = next_offset /\ M = {r}
    BY <1>5 DEF InOrder
  <2>2. r.start \in Nat /\ r.end \in Nat /\ r.start < r.end /\ Length(r) \in Nat
    BY <1>2 DEF RangesBelow, Length
  <2>3. b \in Deliveries(U64Max, next_offset, C, Length(r), Covered(buffered))
    BY <1>2, <1>3, <2>2, DeliveryStart DEF b
  <2>4. buffered \ {r} = buffered
    BY <1>1, <2>1
  <2>5. /\ b.next = next_offset /\ b.bytes = reorder_bytes + Length(r) /\ b.chunks = buffered
        /\ b.out = <<>>
    BY DEF Delivery
  <2>6. e = Delivery(r.end, Monus(b.bytes, Length(r)), b.chunks \ {r}, b.out \o Payload(r))
    <3>1. Monus(reorder_bytes + Length(r), Length(r)) = reorder_bytes
      BY <1>3, <2>2 DEF Monus
    <3>2. <<>> \o Payload(r) = Payload(r)
      <4>1. Payload(r) \in Seq(Nat)
        BY <2>2 DEF Payload, Length
      <4>. QED
        BY <4>1
    <3>. QED
      BY <2>4, <2>5, <3>1, <3>2, Zenon
  <2>. HIDE DEF b, e, C, M
  <2>7. 0 + Cardinality(Covered(b.chunks \ {r})) + Length(r) = b.bytes
    <3>1. Cardinality(Covered(b.chunks \ {r})) = reorder_bytes
      BY <1>3, <2>4, <2>5, Zenon
    <3>. QED
      BY <1>3, <2>2, <2>5, <3>1
  <2>8. e \in Deliveries(U64Max, next_offset, C, 0, Covered(buffered) \cup Bytes(r))
    BY <1>1, <1>2, <2>1, <2>2, <2>3, <2>5, <2>6, <2>7, HandOut, Zenon
  <2>9. Covered(buffered) \cup Bytes(r) = Covered(C)
    BY <2>1 DEF Covered, C
  <2>10. d = Drain(e)
    BY <1>5 DEF Delivering, e
  <2>13. e \in Deliveries(U64Max, next_offset, C, 0, Covered(C))
    BY <2>8, <2>9
  <2>. HIDE DEF d
  <2>11. /\ d \in Deliveries(U64Max, next_offset, C, 0, Covered(C))
         /\ ~StartsAt(d.chunks, d.next)
    BY <1>1, <1>2, <2>10, <2>13, DrainExact
  <2>12. d.chunks \subseteq buffered
    <3>1. d.chunks \subseteq C /\ (\A c \in d.chunks : c.start >= d.next) /\ d.next \in Nat
      BY <1>2, <2>11 DEF Deliveries
    <3>2. r \notin d.chunks
      <4>1. ~StartsAt(d.chunks, d.next) /\ d.next >= next_offset
        BY <2>11 DEF Deliveries
      <4>. QED
        BY <1>2, <2>1, <2>2, <3>1, <4>1 DEF StartsAt
    <3>. QED
      BY <2>1, <3>1, <3>2 DEF C
  <2>. QED
    BY <2>11, <2>12 DEF C, M, d
<1>6. CASE ~InOrder(r)
  <2>. DEFINE b == Delivery(next_offset, reorder_bytes + Cardinality(Covered(M)), buffered, <<>>)
  <2>1. Cardinality(Covered(M)) \in Nat
    <3>1. \A c \in M : c.start \in 0 .. U64Max /\ c.end \in 0 .. U64Max /\ c.start < c.end
      BY <1>1 DEF RangesBelow
    <3>. QED
      BY <1>1, <1>2, <3>1, DisjointFinite
  <2>2. Covered(C) \ Covered(M) = Covered(buffered) /\ Covered(M) \subseteq Covered(C)
    <3>1. Covered(C) = Covered(buffered) \cup Covered(M)
      BY DEF Covered
    <3>2. Covered(buffered) \cap Covered(M) = {}
      <4>1. Covered(buffered) \subseteq Received /\ Covered(M) = Bytes(r) \ Received
        BY StateFacts, MissingExact, Zenon
      <4>. QED
        BY <4>1
    <3>. QED
      BY <3>1, <3>2
  <2>3. /\ b \in Deliveries(U64Max, next_offset, C, Cardinality(Covered(M)), Covered(buffered))
        /\ ~StartsAt(b.chunks, b.next)
    BY <1>2, <1>3, <2>1, DeliveryStart
  <2>4. d = PlaceAll(b, M)
    BY <1>6 DEF Delivering
  <2>. HIDE DEF b, C, M, d
  <2>5. b \in Deliveries(U64Max, next_offset, C, Cardinality(Covered(M)), Covered(C) \ Covered(M))
    BY <2>2, <2>3
  <2>7. M \in SUBSET C
    BY DEF C
  <2>8. /\ d \in Deliveries(U64Max, next_offset, C, 0, Covered(C))
        /\ ~StartsAt(d.chunks, d.next)
    BY <1>1, <1>2, <2>2, <2>3, <2>4, <2>5, <2>7, PlaceAllExact, Zenon
  <2>. QED
    BY <1>6, <2>8 DEF C, M, d
<1>. QED
  BY <1>5, <1>6

\* range_count_after_insert is the number of nodes that insert leaves, and
\* the cheap bound is above it.
LEMMA RangeCount ==
  ASSUME RecvInv, NEW r \in RangesBelow(U64Max)
  PROVE  LET R == received_ranges
         IN /\ Cardinality(insert(R, r)) = range_count_after_insert(R, r)
            /\ Cardinality(insert(R, r)) <= Cardinality(R) + 1
<1>. DEFINE R == received_ranges
            T == Touching(R, r)
            m == Merged(R, r)
<1>1. /\ U64Max \in Nat /\ R \in SUBSET NodesBelow(U64Max) /\ IsFiniteSet(R)
      /\ Cardinality(R) \in Nat
  BY StateFacts
<1>2. T \in SUBSET R /\ insert(R, r) = (R \ T) \cup {m}
  BY DEF insert, Touching
<1>3. m \notin R \ T
  <2>1. m.start <= r.start /\ r.end <= m.end /\ m \in NodesBelow(U64Max)
    BY <1>1, MergedSpans
  <2>2. /\ m.start \in Nat /\ m.end \in Nat /\ m.start < m.end
        /\ r.start \in Nat /\ r.end \in Nat /\ r.start < r.end
    BY <1>1, <2>1 DEF NodesBelow, RangesBelow
  <2>3. m.start <= r.end /\ m.end >= r.start
    BY <2>1, <2>2
  <2>. HIDE DEF m
  <2>. QED
    BY <2>3 DEF Touching
<1>. HIDE DEF R, T, m
<1>4. IsFiniteSet(T) /\ Cardinality(T) \in Nat
  BY <1>1, <1>2, FS_Subset, FS_CardinalityType
<1>5. IsFiniteSet(R \ T) /\ Cardinality(R \ T) = Cardinality(R) - Cardinality(R \cap T)
  BY <1>1, FS_Difference
<1>6. R \cap T = T
  BY <1>2
<1>7. Cardinality((R \ T) \cup {m}) = Cardinality(R \ T) + 1
  BY <1>3, <1>5, FS_AddElement, Zenon
<1>8. Cardinality(insert(R, r)) = Cardinality(R) - Cardinality(T) + 1
  BY <1>2, <1>5, <1>6, <1>7
<1>9. Cardinality(insert(R, r)) <= Cardinality(R) + 1
  BY <1>1, <1>4, <1>8
<1>. QED
  BY <1>8, <1>9 DEF range_count_after_insert, R, T

\* A frame with new bytes: the frontier, the buffer and the ranges move
\* together.
LEMMA NewFrameExact ==
  ASSUME RecvInv, NEW r \in RangesBelow(U64Max), ReceiveNew(r),
         published_max_offset' \in 0 .. U64Max
  PROVE  /\ ReorderStateExact'
         /\ delivered' = [i \in 1 .. next_offset' |-> i - 1]
         /\ received_ranges' \in SUBSET NodesBelow(U64Max)
         /\ \A q \in received_ranges' : ~q.dirty => q.end <= ack_high_water'
<1>. DEFINE M == Missing(r)
            C == buffered \cup M
            d == Delivering(r)
            R == received_ranges
<1>1. /\ next_offset' = d.next /\ reorder_bytes' = d.bytes /\ buffered' = d.chunks
      /\ delivered' = delivered \o d.out /\ ack_high_water' = ack_high_water
      /\ received_ranges' = insert(R, r)
  BY DEF ReceiveNew
<1>2. /\ d \in Deliveries(U64Max, next_offset, C, 0, Covered(C))
      /\ ~StartsAt(d.chunks, d.next)
  BY DeliveringExact
<1>3. /\ M \in SUBSET RangesBelow(U64Max) /\ Disjoint(C)
      /\ Covered(M) = Bytes(r) \ Received
  BY MissingExact
<1>4. /\ U64Max \in Nat /\ next_offset \in 0 .. U64Max
      /\ buffered \in SUBSET RangesBelow(U64Max)
      /\ R \in SUBSET NodesBelow(U64Max) /\ Canonical(R)
      /\ Received = (0 .. next_offset - 1) \cup Covered(buffered)
  BY StateFacts
<1>5. C \in SUBSET RangesBelow(U64Max)
  BY <1>3, <1>4
<1>6. /\ insert(R, r) \in SUBSET NodesBelow(U64Max) /\ Canonical(insert(R, r))
      /\ Covered(insert(R, r)) = Covered(R) \cup Bytes(r)
  BY <1>4, InsertExact
<1>. HIDE DEF M, C, d
<1>7. /\ d.next \in 0 .. U64Max /\ d.next >= next_offset /\ d.chunks \in SUBSET C
      /\ d.out = Consecutive(next_offset, d.next)
      /\ d.bytes = Cardinality(Covered(d.chunks)) + 0
      /\ \A c \in d.chunks : c.start >= d.next
      /\ (next_offset .. d.next - 1) \cup Covered(d.chunks) = Covered(C)
  BY <1>2 DEF Deliveries
<1>8. delivered' = [i \in 1 .. next_offset' |-> i - 1]
  <2>1. delivered = Consecutive(0, next_offset)
    BY <1>4 DEF RecvInv, DeliveredOnceInOrder, Consecutive
  <2>2. delivered' = Consecutive(0, d.next)
    <3>1. next_offset \in Nat /\ d.next \in Nat /\ 0 <= next_offset /\ next_offset <= d.next
      BY <1>4, <1>7
    <3>. QED
      BY <1>1, <1>7, <2>1, <3>1, ConsecutiveJoin, Zenon
  <2>3. Consecutive(0, d.next) = [i \in 1 .. d.next |-> i - 1]
    BY <1>7 DEF Consecutive
  <2>. QED
    BY <1>1, <2>2, <2>3
<1>9. \A q \in received_ranges' : ~q.dirty => q.end <= ack_high_water'
  <2>. SUFFICES ASSUME NEW q \in insert(R, r), ~q.dirty PROVE q.end <= ack_high_water
    BY <1>1
  <2>1. Merged(R, r).dirty
    BY DEF Merged
  <2>2. q \in R
    BY <2>1 DEF insert
  <2>. QED
    BY <2>2 DEF RecvInv
<1>10. Received' = (0 .. next_offset' - 1) \cup Covered(buffered')
  <2>1. Received' = Received \cup Bytes(r)
    BY <1>1, <1>6 DEF Received
  <2>2. Received' = Received \cup Covered(M)
    BY <1>3, <2>1
  <2>3. Received' = (0 .. next_offset - 1) \cup Covered(C)
    BY <1>4, <2>2 DEF Covered, C
  <2>4. Received' = (0 .. next_offset - 1) \cup (next_offset .. d.next - 1) \cup Covered(d.chunks)
    BY <1>7, <2>3
  <2>5. (0 .. next_offset - 1) \cup (next_offset .. d.next - 1) = 0 .. d.next - 1
    BY <1>4, <1>7
  <2>. QED
    BY <1>1, <2>4, <2>5
<1>11. /\ d.chunks \in SUBSET RangesBelow(U64Max) /\ Disjoint(d.chunks)
       /\ \A c \in d.chunks : c.start > d.next
  <2>1. d.chunks \in SUBSET RangesBelow(U64Max) /\ Disjoint(d.chunks)
    BY <1>3, <1>5, <1>7 DEF Disjoint
  <2>2. \A c \in d.chunks : c.start \in Nat
    BY <2>1 DEF RangesBelow
  <2>. QED
    BY <1>2, <1>7, <2>1, <2>2 DEF StartsAt
<1>12. d.bytes = Cardinality(Covered(d.chunks)) /\ d.bytes \in 0 .. U64Max
  <2>1. Covered(d.chunks) \in SUBSET (0 .. U64Max - 1)
    BY <1>4, <1>11, CoveredType
  <2>2. IsFiniteSet(0 .. U64Max - 1) /\ Cardinality(0 .. U64Max - 1) = U64Max
    <3>1. 0 \in Int /\ U64Max - 1 \in Int
      BY <1>4
    <3>2. /\ IsFiniteSet(0 .. U64Max - 1)
          /\ Cardinality(0 .. U64Max - 1) = IF 0 > U64Max - 1 THEN 0 ELSE U64Max - 1 - 0 + 1
      BY <3>1, FS_Interval, Zenon
    <3>. QED
      BY <1>4, <3>2
  <2>3. /\ IsFiniteSet(Covered(d.chunks))
        /\ Cardinality(Covered(d.chunks)) <= Cardinality(0 .. U64Max - 1)
    BY <2>1, <2>2, FS_Subset, Zenon
  <2>4. Cardinality(Covered(d.chunks)) \in Nat
    BY <2>3, FS_CardinalityType
  <2>. QED
    BY <1>4, <1>7, <2>2, <2>3, <2>4
<1>13. /\ ack_ranges' \subseteq RangesBelow(U64Max)
       /\ \A q \in received_ranges' : q.dirty \in BOOLEAN
  <2>1. \A q \in NodesBelow(U64Max) : Extent(q) \in RangesBelow(U64Max) /\ q.dirty \in BOOLEAN
    BY DEF NodesBelow, RangesBelow, Extent, OffsetRange
  <2>. QED
    BY <1>1, <1>6, <2>1, Zenon DEF ack_ranges
<1>14. ReorderStateExact'
  <2>1. ack_high_water' \in 0 .. U64Max
    BY <1>1 DEF RecvInv, DeliveredOnceInOrder, ReorderStateExact, RecvTypeOK
  <2>2. RecvTypeOK'
    BY <1>1, <1>7, <1>11, <1>12, <1>13, <2>1 DEF RecvTypeOK
  <2>. QED
    BY <1>1, <1>6, <1>10, <1>11, <1>12, <2>2 DEF ReorderStateExact
<1>. QED
  BY <1>1, <1>6, <1>8, <1>9, <1>14

\* And the checks before it hold the three ceilings.
LEMMA NewFrameWithinLimits ==
  ASSUME RecvInv, NEW r \in RangesBelow(U64Max), ReceiveNew(r),
         ~TooManyReceiveRanges(r), ~ReorderBufferFull(r), ~TooManyReorderBufferChunks(r)
  PROVE  WithinLimits'
<1>. DEFINE M == Missing(r)
            C == buffered \cup M
            d == Delivering(r)
            R == received_ranges
<1>1. /\ reorder_bytes' = d.bytes /\ buffered' = d.chunks /\ received_ranges' = insert(R, r)
  BY DEF ReceiveNew
<1>2. /\ d \in Deliveries(U64Max, next_offset, C, 0, Covered(C))
      /\ ~StartsAt(d.chunks, d.next)
      /\ InOrder(r) => d.chunks \subseteq buffered
  BY DeliveringExact
<1>3. /\ M \in SUBSET RangesBelow(U64Max) /\ Disjoint(M) /\ Disjoint(C)
      /\ \A c \in C : c.start >= next_offset
  BY MissingExact
<1>4. /\ U64Max \in Nat /\ next_offset \in 0 .. U64Max
      /\ buffered \in SUBSET RangesBelow(U64Max) /\ Disjoint(buffered)
      /\ reorder_bytes = Cardinality(Covered(buffered))
      /\ IsFiniteSet(R) /\ Cardinality(R) \in Nat
      /\ reorder_bytes <= max_reorder_bytes
      /\ Cardinality(buffered) <= max_reorder_buffer_chunks
  BY StateFacts DEF RecvInv, DeliveredOnceInOrder, WithinLimits
<1>5. C \in SUBSET RangesBelow(U64Max)
  BY <1>3, <1>4
<1>6. ASSUME NEW S \in SUBSET RangesBelow(U64Max), Disjoint(S)
      PROVE  /\ IsFiniteSet(S) /\ Cardinality(S) \in Nat
             /\ IsFiniteSet(Covered(S)) /\ Cardinality(Covered(S)) \in Nat
  <2>1. \A c \in S : c.start \in 0 .. U64Max /\ c.end \in 0 .. U64Max /\ c.start < c.end
    BY DEF RangesBelow
  <2>. QED
    BY <1>4, <1>6, <2>1, DisjointFinite
<1>7. /\ max_reorder_bytes \in Nat /\ max_reorder_buffer_chunks \in Nat
      /\ max_retained_receive_ranges \in Nat
  BY RecvLimits
<1>8. Cardinality(insert(R, r)) <= max_retained_receive_ranges
  <2>1. /\ Cardinality(insert(R, r)) = range_count_after_insert(R, r)
        /\ Cardinality(insert(R, r)) <= Cardinality(R) + 1
    BY RangeCount
  <2>2. IsFiniteSet(R \ Touching(R, r))
    BY <1>4, FS_Difference, Zenon
  <2>3. IsFiniteSet(insert(R, r))
    BY <2>2, FS_AddElement DEF insert
  <2>4. Cardinality(insert(R, r)) \in Nat
    BY <2>3, FS_CardinalityType
  <2>. QED
    BY <1>4, <1>7, <2>1, <2>4 DEF TooManyReceiveRanges
<1>9. /\ d.chunks \in SUBSET C /\ d.bytes = Cardinality(Covered(d.chunks)) + 0
  BY <1>2 DEF Deliveries
<1>. HIDE DEF M, C, d, R
<1>10. d.chunks \in SUBSET RangesBelow(U64Max) /\ Disjoint(d.chunks)
  BY <1>3, <1>5, <1>9, SMTT(30) DEF Disjoint
<1>11. /\ IsFiniteSet(buffered) /\ Cardinality(buffered) \in Nat
       /\ IsFiniteSet(Covered(buffered)) /\ Cardinality(Covered(buffered)) \in Nat
       /\ IsFiniteSet(M) /\ Cardinality(M) \in Nat
       /\ IsFiniteSet(Covered(M)) /\ Cardinality(Covered(M)) \in Nat
       /\ IsFiniteSet(d.chunks) /\ Cardinality(d.chunks) \in Nat
       /\ IsFiniteSet(Covered(d.chunks)) /\ Cardinality(Covered(d.chunks)) \in Nat
  BY <1>3, <1>4, <1>6, <1>10
<1>12. CASE InOrder(r)
  <2>1. d.chunks \in SUBSET buffered /\ Covered(d.chunks) \in SUBSET Covered(buffered)
    BY <1>2, <1>12 DEF Covered
  <2>2. Cardinality(d.chunks) <= Cardinality(buffered)
    BY <1>11, <2>1, FS_Subset
  <2>3. Cardinality(Covered(d.chunks)) <= Cardinality(Covered(buffered))
    BY <1>11, <2>1, FS_Subset, SMTT(30)
  <2>4. d.bytes <= max_reorder_bytes /\ Cardinality(d.chunks) <= max_reorder_buffer_chunks
    BY <1>4, <1>7, <1>9, <1>11, <2>2, <2>3
  <2>. QED
    BY <1>1, <1>8, <2>4 DEF WithinLimits
<1>13. CASE ~InOrder(r)
  <2>1. d.bytes <= max_reorder_bytes
    <3>1. Covered(d.chunks) \in SUBSET (Covered(buffered) \cup Covered(M))
      BY <1>9 DEF Covered, C
    <3>2. /\ IsFiniteSet(Covered(buffered) \cup Covered(M))
          /\ Cardinality(Covered(buffered) \cup Covered(M))
               = Cardinality(Covered(buffered)) + Cardinality(Covered(M))
                   - Cardinality(Covered(buffered) \cap Covered(M))
      BY <1>11, FS_Union
    <3>3. Cardinality(Covered(d.chunks)) <= Cardinality(Covered(buffered) \cup Covered(M))
      BY <3>1, <3>2, FS_Subset
    <3>4. Cardinality(Covered(buffered) \cap Covered(M)) \in Nat
      BY <1>11, FS_Intersection, FS_CardinalityType, Zenon
    <3>5. reorder_bytes + Cardinality(Covered(M)) <= max_reorder_bytes
      BY <1>4, <1>7, <1>11, <1>13 DEF ReorderBufferFull, M
    <3>. QED
      BY <1>4, <1>7, <1>9, <1>11, <3>2, <3>3, <3>4, <3>5
  <2>2. Cardinality(d.chunks) <= max_reorder_buffer_chunks
    <3>1. CASE Cardinality(buffered) + Cardinality(M) <= max_reorder_buffer_chunks
      <4>1. /\ IsFiniteSet(buffered \cup M)
            /\ Cardinality(buffered \cup M)
                 = Cardinality(buffered) + Cardinality(M) - Cardinality(buffered \cap M)
        BY <1>11, FS_Union, Zenon
      <4>2. Cardinality(d.chunks) <= Cardinality(buffered \cup M)
        BY <1>9, <4>1, FS_Subset DEF C
      <4>3. Cardinality(buffered \cap M) \in Nat
        BY <1>11, FS_Intersection, FS_CardinalityType, Zenon
      <4>. QED
        BY <1>7, <1>11, <3>1, <4>1, <4>2, <4>3
    <3>2. CASE ~(Cardinality(buffered) + Cardinality(M) <= max_reorder_buffer_chunks)
      <4>1. d.chunks = {c \in C : c.start >= WalkTurns(C)[Cardinality(C)]}
        BY <1>2, <1>3, <1>4, <1>5, PreviewExact
      <4>2. reorder_chunk_count_after_receive(M) = Cardinality(d.chunks)
        BY <4>1 DEF reorder_chunk_count_after_receive, C
      <4>. QED
        BY <1>7, <1>11, <1>13, <3>2, <4>2, SMTT(30) DEF TooManyReorderBufferChunks, M
    <3>. QED
      BY <3>1, <3>2
  <2>. QED
    BY <1>1, <1>8, <2>1, <2>2 DEF WithinLimits, R
<1>. QED
  BY <1>12, <1>13

\* receive_data keeps the invariant, whatever happens to the published credit.
LEMMA ReceivePreserves ==
  ASSUME RecvInv, NEW r \in RangesBelow(U64Max), NEW credit, Receive(r, credit),
         published_max_offset' \in 0 .. U64Max
  PROVE  RecvInv'
<1>1. CASE covers(received_ranges, r)
  <2>1. UNCHANGED <<next_offset, reorder_bytes, buffered, received_ranges,
                    ack_high_water, delivered>>
    BY <1>1 DEF Receive
  <2>. QED
    BY <2>1 DEF RecvInv, DeliveredOnceInOrder, ReorderStateExact, WithinLimits, RecvTypeOK, Received,
                ack_ranges
<1>2. CASE ~covers(received_ranges, r)
  <2>1. /\ ReceiveNew(r)
        /\ ~TooManyReceiveRanges(r) /\ ~ReorderBufferFull(r) /\ ~TooManyReorderBufferChunks(r)
    BY <1>2 DEF Receive, Rejected
  <2>2. WithinLimits'
    BY <2>1, NewFrameWithinLimits
  <2>. QED
    BY <2>1, <2>2, NewFrameExact DEF RecvInv, DeliveredOnceInOrder
<1>. QED
  BY <1>1, <1>2

\* The greatest end of a RangeSet.
LEMMA LargestEnd ==
  ASSUME NEW n \in Nat, NEW R, \A q \in R : q.end \in 0 .. n
  PROVE  /\ largest_end(R) \in 0 .. n
         /\ \A q \in R : q.end <= largest_end(R)
         /\ largest_end(R) = 0 \/ \E q \in R : q.end = largest_end(R)
<1>. DEFINE E == {0} \cup {q.end : q \in R}
<1>1. E \in SUBSET (0 .. n) /\ E # {}
  <2>1. 0 \in 0 .. n
    OBVIOUS
  <2>. QED
    BY <2>1, Zenon
<1>2. largest_end(R) = Max(E)
  BY DEF largest_end
<1>3. Max(E) \in E /\ \A x \in E : x <= Max(E)
  <2>. HIDE DEF E
  <2>. QED
    BY <1>1, MinMax
<1>4. \A q \in R : q.end \in E
  OBVIOUS
<1>. QED
  BY <1>1, <1>2, <1>3, <1>4, Zenon

\* Marking every node as reported changes no node but for the mark.
LEMMA CleanNodes ==
  ASSUME NEW n \in Nat, NEW R \in SUBSET NodesBelow(n), Canonical(R)
  PROVE  LET Q == {[q EXCEPT !.dirty = FALSE] : q \in R}
         IN /\ Q \in SUBSET NodesBelow(n) /\ Canonical(Q) /\ Covered(Q) = Covered(R)
            /\ \A q \in Q : \E p \in R : q.start = p.start /\ q.end = p.end /\ q.dirty = FALSE
            /\ \A p \in R : \E q \in Q : q.start = p.start /\ q.end = p.end
            /\ IsFiniteSet(R) => Cardinality(Q) <= Cardinality(R)
<1>. DEFINE c(q) == [q EXCEPT !.dirty = FALSE]
            Q == {c(q) : q \in R}
<1>1. \A p \in NodesBelow(n) : /\ c(p) \in NodesBelow(n) /\ c(p).start = p.start
                               /\ c(p).end = p.end /\ c(p).dirty = FALSE
  BY Zenon DEF NodesBelow
<1>2. \A p \in R : /\ c(p) \in NodesBelow(n) /\ c(p).start = p.start
                   /\ c(p).end = p.end /\ c(p).dirty = FALSE
  BY <1>1, Zenon
<1>. HIDE DEF c
<1>3. Q \in SUBSET NodesBelow(n)
  BY <1>2
<1>4. \A q \in Q : \E p \in R : q = c(p) /\ q.start = p.start /\ q.end = p.end /\ q.dirty = FALSE
  BY <1>2
<1>5. \A p \in R : \E q \in Q : q.start = p.start /\ q.end = p.end
  BY <1>2
<1>6. Canonical(Q)
  <2>. SUFFICES ASSUME NEW p \in R, NEW q \in R, c(p) # c(q)
                PROVE  c(p).end < c(q).start \/ c(q).end < c(p).start
    BY DEF Canonical
  <2>. QED
    BY <1>2 DEF Canonical
<1>7. Covered(Q) = Covered(R)
  <2>1. \A p \in R : Bytes(c(p)) = Bytes(p)
    BY <1>2 DEF Bytes
  <2>2. \A x : x \in Covered(Q) <=> \E p \in R : x \in Bytes(c(p))
    BY DEF Covered
  <2>3. \A x : x \in Covered(R) <=> \E p \in R : x \in Bytes(p)
    BY DEF Covered
  <2>. QED
    BY <2>1, <2>2, <2>3, Zenon
<1>8. ASSUME IsFiniteSet(R) PROVE Cardinality(Q) <= Cardinality(R)
  <2>. DEFINE f == [q \in R |-> c(q)]
  <2>1. f \in Surjection(R, Q)
    BY DEF Surjection
  <2>. HIDE DEF f, Q
  <2>. QED
    BY <1>8, <2>1, FS_Surjection
<1>. QED
  BY <1>3, <1>4, <1>5, <1>6, <1>7, <1>8, Zenon DEF c

\* take_ack_update keeps the invariant: every node is reported and the high
\* water is the largest end.
LEMMA TakePreserves ==
  ASSUME RecvInv, take_ack_update
  PROVE  RecvInv'
<1>. DEFINE R == received_ranges
            Q == {[q EXCEPT !.dirty = FALSE] : q \in R}
<1>1. /\ U64Max \in Nat /\ R \in SUBSET NodesBelow(U64Max) /\ Canonical(R)
      /\ IsFiniteSet(R) /\ Cardinality(R) \in Nat
  BY StateFacts
<1>2. /\ Q \in SUBSET NodesBelow(U64Max) /\ Canonical(Q) /\ Covered(Q) = Covered(R)
      /\ \A q \in Q : \E p \in R : q.start = p.start /\ q.end = p.end /\ q.dirty = FALSE
      /\ Cardinality(Q) <= Cardinality(R)
  BY <1>1, CleanNodes, Zenon
<1>3. received_ranges' = Q /\ ack_high_water' = largest_end(R)
  BY DEF take_ack_update
<1>4. UNCHANGED <<next_offset, published_max_offset, reorder_bytes, buffered, delivered>>
  BY DEF take_ack_update
<1>. HIDE DEF Q
<1>5. /\ largest_end(R) \in 0 .. U64Max /\ \A q \in R : q.end <= largest_end(R)
  <2>1. \A q \in R : q.end \in 0 .. U64Max
    BY <1>1 DEF NodesBelow
  <2>. QED
    BY <1>1, <2>1, LargestEnd
<1>6. \A q \in Q : q.end <= largest_end(R)
  BY <1>2, <1>5
<1>7. Cardinality(Q) <= max_retained_receive_ranges
  <2>1. Cardinality(R) <= max_retained_receive_ranges
    BY DEF RecvInv, DeliveredOnceInOrder, WithinLimits
  <2>2. Disjoint(Q)
    <3>1. \A q \in Q : q.start \in Nat /\ q.end \in Nat
      BY <1>1, <1>2 DEF NodesBelow
    <3>. QED
      BY <1>2, <3>1 DEF Canonical, Disjoint
  <2>3. Cardinality(Q) \in Nat
    <3>1. \A q \in Q : q.start \in 0 .. U64Max /\ q.end \in 0 .. U64Max /\ q.start < q.end
      BY <1>2 DEF NodesBelow
    <3>. QED
      BY <1>1, <2>2, <3>1, DisjointFinite
  <2>. QED
    BY <1>1, <1>2, <2>1, <2>3, RecvLimits
<1>8. /\ ack_ranges' \subseteq RangesBelow(U64Max)
      /\ \A q \in received_ranges' : q.dirty \in BOOLEAN
  <2>1. \A q \in NodesBelow(U64Max) : Extent(q) \in RangesBelow(U64Max) /\ q.dirty \in BOOLEAN
    BY DEF NodesBelow, RangesBelow, Extent, OffsetRange
  <2>. QED
    BY <1>2, <1>3, <2>1, Zenon DEF ack_ranges
<1>9. RecvTypeOK'
  BY <1>3, <1>4, <1>5, <1>8 DEF RecvInv, DeliveredOnceInOrder, ReorderStateExact, RecvTypeOK
<1>10. ReorderStateExact'
  BY <1>2, <1>3, <1>4, <1>9 DEF RecvInv, DeliveredOnceInOrder, ReorderStateExact, Received
<1>11. WithinLimits'
  BY <1>3, <1>4, <1>7 DEF RecvInv, DeliveredOnceInOrder, WithinLimits
<1>12. DeliveredOnceInOrder'
  BY <1>4, <1>10, <1>11 DEF RecvInv, DeliveredOnceInOrder
<1>. QED
  BY <1>2, <1>3, <1>6, <1>12 DEF RecvInv

\* A commit of credit changes nothing but the greatest published credit.
LEMMA CommitPreserves ==
  ASSUME RecvInv, NEW m \in 0 .. U64Max, commit_max_data(m)
  PROVE  RecvInv'
<1>1. U64Max \in Nat /\ {published_max_offset, m} \in SUBSET (0 .. U64Max)
  BY RecvLimits DEF RecvInv, DeliveredOnceInOrder, ReorderStateExact, RecvTypeOK
<1>2. published_max_offset' \in 0 .. U64Max
  BY <1>1, MinMax, Zenon DEF commit_max_data
<1>. QED
  BY <1>2 DEF commit_max_data, RecvInv, DeliveredOnceInOrder, ReorderStateExact, WithinLimits,
              RecvTypeOK, Received, ack_ranges

\* A stream that has received nothing satisfies the invariant.
Fresh ==
  /\ next_offset = 0 /\ reorder_bytes = 0 /\ buffered = {} /\ received_ranges = {}
  /\ ack_high_water = 0 /\ delivered = <<>>

LEMMA FreshRecvInv ==
  ASSUME Fresh, published_max_offset \in 0 .. U64Max
  PROVE  RecvInv
<1>1. /\ Covered({}) = {} /\ Cardinality({}) = 0
  BY FS_EmptySet DEF Covered
<1>2. RecvTypeOK
  BY RecvLimits DEF Fresh, RecvTypeOK, ack_ranges
<1>3. ReorderStateExact
  <2>1. Received = {} /\ Covered(buffered) = {} /\ 0 .. next_offset - 1 = {}
    BY <1>1 DEF Fresh, Received
  <2>2. Canonical(received_ranges) /\ Disjoint(buffered)
    BY DEF Fresh, Canonical, Disjoint
  <2>3. /\ \A c \in buffered : c.start > next_offset
        /\ reorder_bytes = Cardinality(Covered(buffered))
    BY <1>1, Zenon DEF Fresh
  <2>. QED
    BY <1>2, <2>1, <2>2, <2>3 DEF ReorderStateExact
<1>4. WithinLimits
  BY <1>1, RecvLimits DEF Fresh, WithinLimits
<1>5. delivered = [i \in 1 .. next_offset |-> i - 1]
  BY DEF Fresh
<1>. QED
  BY <1>3, <1>4, <1>5 DEF Fresh, RecvInv, DeliveredOnceInOrder

LEMMA InitRecvInv ==
  ASSUME RecvInit
  PROVE  RecvInv
<1>1. Fresh /\ published_max_offset \in 0 .. U64Max
  BY RecvLimits DEF RecvInit, Fresh
<1>. QED
  BY <1>1, FreshRecvInv

\* Every step of the stream keeps the invariant.
LEMMA NextPreserves ==
  ASSUME RecvInv, [RecvNext]_recv_vars
  PROVE  RecvInv'
<1>1. ASSUME NEW r \in RangesBelow(U64Max), receive_data(r) PROVE RecvInv'
  <2>1. published_max_offset' \in 0 .. U64Max
    BY <1>1 DEF receive_data, RecvInv, DeliveredOnceInOrder, ReorderStateExact, RecvTypeOK
  <2>. QED
    BY <1>1, <2>1, ReceivePreserves DEF receive_data
<1>2. CASE take_ack_update
  BY <1>2, TakePreserves
<1>3. ASSUME NEW m \in 0 .. U64Max, commit_max_data(m) PROVE RecvInv'
  BY <1>3, CommitPreserves
<1>4. CASE UNCHANGED recv_vars
  BY <1>4 DEF recv_vars, RecvInv, DeliveredOnceInOrder, ReorderStateExact, WithinLimits,
              RecvTypeOK, Received, ack_ranges
<1>. QED
  BY <1>1, <1>2, <1>3, <1>4 DEF RecvNext

\* Whatever frames receive_data is given, in whatever order, with whatever
\* overlap and however often, the relay is handed every byte once and in order,
\* the reorder buffer and the received ranges agree with it, and the three
\* ceilings of the configuration hold.
THEOREM DeliveredOnceInOrderAlways == RecvSpec => []DeliveredOnceInOrder
<1>1. RecvInv => DeliveredOnceInOrder
  BY DEF RecvInv
<1>. QED
  BY <1>1, InitRecvInv, NextPreserves, PTL DEF RecvSpec

-----------------------------------------------------------------------------
(* The frames of an acknowledgement *)

\* Lists of ranges, as the frames are built from.
RangeLists(n) == {R \in SUBSET RangesBelow(n) : Canonical(R)}

LEMMA ListFacts ==
  ASSUME NEW n \in Nat, NEW R \in RangeLists(n)
  PROVE  /\ \A q \in R : q.start \in 0 .. n /\ q.end \in 0 .. n /\ q.start < q.end
         /\ \A p, q \in R : p.start < q.start => p.end < q.start
         /\ \A p, q \in R : p.start = q.start => p = q
         /\ IsFiniteSet(R)
<1>1. \A q \in R : q.start \in 0 .. n /\ q.end \in 0 .. n /\ q.start < q.end
  BY DEF RangeLists, RangesBelow
<1>2. \A p, q \in R : p # q => p.end < q.start \/ q.end < p.start
  BY DEF RangeLists, Canonical
<1>3. \A p, q \in R : p.start < q.start => p.end < q.start
  BY <1>1, <1>2
<1>4. \A p, q \in R : p.start = q.start => p = q
  BY <1>1, <1>2
<1>5. Disjoint(R)
  BY <1>1, <1>2 DEF Disjoint
<1>. QED
  BY <1>1, <1>3, <1>4, <1>5, DisjointFinite

\* The last range of a list ends it.
LEMMA LastExact ==
  ASSUME NEW n \in Nat, NEW R \in RangeLists(n), NEW S \in SUBSET R, S # {}
  PROVE  /\ Last(S) \in S
         /\ \A q \in S : q.start <= Last(S).start /\ q.end <= Last(S).end
<1>1. /\ \A q \in R : q.start \in 0 .. n /\ q.end \in 0 .. n /\ q.start < q.end
      /\ \A p, q \in R : p.start < q.start => p.end < q.start
      /\ \A p, q \in R : p.start = q.start => p = q
  BY ListFacts
<1>. DEFINE T == {q.start : q \in S}
<1>2. T \in SUBSET (0 .. n) /\ T # {}
  <2>1. \A q \in S : q.start \in 0 .. n
    BY <1>1
  <2>. QED
    BY <2>1
<1>3. PICK x \in T : \A y \in T : y <= x
  <2>. HIDE DEF T
  <2>. QED
    BY <1>2, GreatestNatural, Zenon
<1>4. \E r \in S : \A q \in S : q.start <= r.start
  BY <1>3, Zenon
<1>5. Last(S) \in S /\ \A q \in S : q.start <= Last(S).start
  BY <1>4 DEF Last
<1>6. ASSUME NEW q \in S PROVE q.end <= Last(S).end
  <2>1. /\ q.start \in Nat /\ q.end \in Nat /\ q.start <= Last(S).start
        /\ Last(S).start \in Nat /\ Last(S).end \in Nat /\ Last(S).start < Last(S).end
        /\ q \in R /\ Last(S) \in R
    BY <1>1, <1>5
  <2>2. q.start = Last(S).start => q = Last(S)
    BY <1>1, <2>1
  <2>3. q.start < Last(S).start => q.end < Last(S).start
    BY <1>1, <2>1
  <2>. QED
    BY <2>1, <2>2, <2>3
<1>. QED
  BY <1>5, <1>6

\* Division, as ranges.chunks uses it.
LEMMA Division ==
  ASSUME NEW b \in Nat \ {0}
  PROVE  /\ \A a \in Nat : /\ a \div b \in Nat
                           /\ a \in b * (a \div b) .. b * (a \div b) + (b - 1)
         /\ \A a, c \in Nat : a <= c => a \div b <= c \div b
<1>1. ASSUME NEW a \in Nat
      PROVE  /\ a \div b \in Nat /\ b * (a \div b) <= a /\ a < b * (a \div b) + b
             /\ b * (a \div b) \in Nat
  OBVIOUS
<1>2. ASSUME NEW a \in Nat, NEW c \in Nat, a <= c PROVE a \div b <= c \div b
  BY <1>2
<1>3. ASSUME NEW a \in Nat PROVE a \in b * (a \div b) .. b * (a \div b) + (b - 1)
  BY <1>1
<1>. QED
  BY <1>1, <1>2, <1>3

\* The number of ranges before one counts them in ascending order.
LEMMA RankExact ==
  ASSUME NEW n \in Nat, NEW R \in RangeLists(n)
  PROVE  LET rank(q) == Cardinality({p \in R : p.start < q.start})
         IN /\ \A q \in R : rank(q) \in Nat
            /\ \A p, q \in R : p.start < q.start => rank(p) < rank(q)
<1>. DEFINE before(q) == {p \in R : p.start < q.start}
            rank(q) == Cardinality(before(q))
<1>1. /\ \A q \in R : q.start \in 0 .. n
      /\ IsFiniteSet(R)
  BY ListFacts
<1>2. ASSUME NEW q \in R PROVE IsFiniteSet(before(q)) /\ rank(q) \in Nat
  BY <1>1, FS_Subset, FS_CardinalityType
<1>3. ASSUME NEW p \in R, NEW q \in R, p.start < q.start PROVE rank(p) < rank(q)
  <2>1. before(p) \in SUBSET before(q) /\ p \in before(q) /\ p \notin before(p)
    BY <1>1, <1>3
  <2>2. before(p) # before(q)
    BY <2>1
  <2>3. /\ IsFiniteSet(before(q)) /\ Cardinality(before(q)) \in Nat
        /\ Cardinality(before(p)) \in Nat
    BY <1>2
  <2>. HIDE DEF before
  <2>4. /\ Cardinality(before(p)) <= Cardinality(before(q))
        /\ Cardinality(before(q)) = Cardinality(before(p)) => before(q) = before(p)
    BY <2>1, <2>3, FS_Subset
  <2>. QED
    BY <2>2, <2>3, <2>4
<1>. QED
  BY <1>2, <1>3

\* The chunks are in ascending order, and none is larger than the chunk size.
LEMMA ChunksExact ==
  ASSUME NEW n \in Nat, NEW R \in RangeLists(n)
  PROVE  /\ \A q \in R : ChunkOf(R, q) \in Nat
         /\ \A p, q \in R : ChunkOf(R, p) < ChunkOf(R, q) => p.start < q.start
         /\ \A i \in Nat : Cardinality(Chunk(R, i)) <= ChunkSize
<1>. DEFINE rank(q) == Cardinality({p \in R : p.start < q.start})
<1>1. ChunkSize \in Nat \ {0}
  BY RecvLimits DEF ChunkSize
<1>2. /\ \A q \in R : rank(q) \in Nat
      /\ \A p, q \in R : p.start < q.start => rank(p) < rank(q)
  BY RankExact
<1>3. \A q \in R : ChunkOf(R, q) = rank(q) \div ChunkSize
  BY DEF ChunkOf
<1>4. /\ \A a \in Nat : /\ a \div ChunkSize \in Nat
                        /\ a \in ChunkSize * (a \div ChunkSize)
                                   .. ChunkSize * (a \div ChunkSize) + (ChunkSize - 1)
      /\ \A a, c \in Nat : a <= c => a \div ChunkSize <= c \div ChunkSize
  BY <1>1, Division, Zenon
<1>5. /\ \A q \in R : q.start \in Nat
      /\ \A p, q \in R : p.start = q.start => p = q
      /\ IsFiniteSet(R)
  BY ListFacts
<1>. HIDE DEF rank
<1>6. ASSUME NEW p \in R, NEW q \in R, ChunkOf(R, p) < ChunkOf(R, q) PROVE p.start < q.start
  <2>. SUFFICES ASSUME q.start <= p.start PROVE FALSE
    BY <1>5
  <2>1. rank(q) <= rank(p)
    BY <1>2, <1>5
  <2>2. ChunkOf(R, q) <= ChunkOf(R, p) /\ ChunkOf(R, q) \in Nat /\ ChunkOf(R, p) \in Nat
    BY <1>2, <1>3, <1>4, <2>1
  <2>. QED
    BY <1>6, <2>2
<1>7. ASSUME NEW i \in Nat PROVE Cardinality(Chunk(R, i)) <= ChunkSize
  <2>. DEFINE low == ChunkSize * i
              T == low .. low + (ChunkSize - 1)
              S == Chunk(R, i)
              f == [q \in S |-> rank(q)]
  <2>1. low \in Nat
    BY <1>1
  <2>. HIDE DEF low
  <2>2. S \in SUBSET R /\ \A q \in S : rank(q) \div ChunkSize = i
    BY <1>3 DEF Chunk
  <2>3. \A q \in S : rank(q) \in T
    BY <1>2, <1>4, <2>2 DEF low
  <2>4. \A p, q \in S : rank(p) = rank(q) => p = q
    BY <1>2, <1>5, <2>2
  <2>5. f \in Injection(S, T)
    BY <2>3, <2>4 DEF Injection, IsInjective
  <2>6. IsFiniteSet(T) /\ Cardinality(T) = ChunkSize
    <3>. DEFINE high == low + (ChunkSize - 1)
    <3>1. low \in Int /\ high \in Int /\ ~(low > high) /\ high - low + 1 = ChunkSize
      BY <1>1, <2>1
    <3>. HIDE DEF high
    <3>2. /\ IsFiniteSet(low .. high)
          /\ Cardinality(low .. high) = IF low > high THEN 0 ELSE high - low + 1
      BY <3>1, FS_Interval
    <3>. QED
      BY <3>1, <3>2 DEF high
  <2>. HIDE DEF T, f, S
  <2>7. Cardinality(S) <= Cardinality(T)
    BY <2>5, <2>6, FS_Injection
  <2>. QED
    BY <2>6, <2>7 DEF S
<1>. QED
  BY <1>2, <1>3, <1>4, <1>6, <1>7

\* The running high water of scoped_ack_frames: at or above everything the
\* chunks before listed, and no higher than it must be.
LEMMA HighWaterExact ==
  ASSUME NEW n \in Nat, NEW R \in RangeLists(n), NEW h \in 0 .. n, NEW i \in Nat
  PROVE  LET water == HighWater(R, h, i)
         IN /\ water \in 0 .. n /\ h <= water
            /\ \A p \in R : ChunkOf(R, p) < i => p.end <= water
            /\ water = h \/ \E p \in R : ChunkOf(R, p) < i /\ p.end = water
<1>. DEFINE earlier == {j \in ChunkIndexes(R) : j < i}
            last(j) == Last(Chunk(R, j))
            E == {h} \cup {last(j).end : j \in earlier}
<1>1. \A j \in earlier : Chunk(R, j) \in SUBSET R /\ Chunk(R, j) # {} /\ j < i
  BY DEF ChunkIndexes, Chunk
<1>2. ASSUME NEW j \in earlier
      PROVE  /\ last(j) \in R /\ ChunkOf(R, last(j)) < i
             /\ \A q \in Chunk(R, j) : q.end <= last(j).end
  <2>1. /\ last(j) \in Chunk(R, j)
        /\ \A q \in Chunk(R, j) : q.end <= last(j).end
    BY <1>1, LastExact
  <2>. QED
    BY <1>1, <2>1 DEF Chunk
<1>3. \A q \in R : q.end \in 0 .. n
  BY ListFacts
<1>. HIDE DEF last
<1>4. \A j \in earlier : last(j).end \in 0 .. n
  BY <1>2, <1>3
<1>. HIDE DEF earlier
<1>5. E \in SUBSET (0 .. n) /\ E # {}
  BY <1>4
<1>6. HighWater(R, h, i) = Max(E)
  BY DEF HighWater, earlier, last
<1>7. Max(E) \in E /\ \A x \in E : x <= Max(E)
  <2>. HIDE DEF E
  <2>. QED
    BY <1>5, MinMax, Zenon
<1>8. ASSUME NEW p \in R, ChunkOf(R, p) < i PROVE p.end <= Max(E)
  <2>1. ChunkOf(R, p) \in earlier /\ p \in Chunk(R, ChunkOf(R, p))
    BY <1>8 DEF earlier, ChunkIndexes, Chunk
  <2>2. p.end <= last(ChunkOf(R, p)).end
    BY <1>2, <2>1
  <2>3. last(ChunkOf(R, p)).end \in E /\ last(ChunkOf(R, p)).end \in 0 .. n
    BY <1>4, <2>1
  <2>4. last(ChunkOf(R, p)).end <= Max(E)
    BY <1>7, <2>3, Zenon
  <2>. QED
    BY <1>3, <1>5, <1>7, <2>2, <2>3, <2>4
<1>9. Max(E) = h \/ \E p \in R : ChunkOf(R, p) < i /\ p.end = Max(E)
  BY <1>2, <1>7, Zenon
<1>10. h <= Max(E)
  BY <1>7, Zenon
<1>. HIDE DEF E
<1>. QED
  BY <1>5, <1>6, <1>7, <1>8, <1>9, <1>10, Zenon

\* What a frame of scoped_ack_frames holds.
LEMMA FrameParts ==
  ASSUME NEW n \in Nat, NEW R \in RangeLists(n), NEW h \in 0 .. n, NEW i \in ChunkIndexes(R)
  PROVE  LET f == ScopedFrame(R, h, i)
             S == Chunk(R, i)
             water == HighWater(R, h, i)
         IN /\ i \in Nat /\ S \in SUBSET R /\ S # {}
            /\ f.ranges = S
            /\ f.scope_start = (IF Last(S).start > water THEN water ELSE NoScope)
            /\ Last(S) \in S /\ largest_end(S) = Last(S).end
            /\ \A q \in S : q.end <= Last(S).end
<1>. DEFINE f == ScopedFrame(R, h, i)
            S == Chunk(R, i)
            water == HighWater(R, h, i)
<1>1. i \in Nat /\ S \in SUBSET R /\ S # {}
  BY ChunksExact DEF ChunkIndexes, Chunk
<1>2. /\ f.ranges = S
      /\ f.scope_start = (IF Last(S).start > water THEN water ELSE NoScope)
  BY DEF ScopedFrame, AckFrame
<1>3. Last(S) \in S /\ \A q \in S : q.end <= Last(S).end
  BY <1>1, LastExact
<1>4. \A q \in R : q.start \in 0 .. n /\ q.end \in 0 .. n /\ q.start < q.end
  BY ListFacts
<1>5. \A q \in S : q.end \in 0 .. n /\ q.end > 0
  BY <1>1, <1>4
<1>. HIDE DEF S
<1>6. /\ largest_end(S) \in 0 .. n
      /\ \A q \in S : q.end <= largest_end(S)
      /\ largest_end(S) = 0 \/ \E q \in S : q.end = largest_end(S)
  BY <1>5, LargestEnd
<1>7. largest_end(S) = Last(S).end
  BY <1>3, <1>5, <1>6
<1>. HIDE DEF f, water
<1>. QED
  BY <1>1, <1>2, <1>3, <1>7 DEF f, S, water

\* A frame is true: it lists ranges of the list, its scope leaves out nothing
\* that was received, the scope is one that validate_stream_ack accepts, and
\* the frame has at most max_ack_ranges ranges.
LEMMA FramesTrue ==
  ASSUME NEW n \in Nat, NEW R \in RangeLists(n), NEW h \in 0 .. n,
         NEW X, X \subseteq Covered(R) \cup (0 .. h - 1),
         NEW f \in scoped_ack_frames(R, h)
  PROVE  /\ Covered(f.ranges) \subseteq Covered(R)
         /\ Omitted(f) \cap X = {}
         /\ Omitted(f) \subseteq 0 .. largest_end(R) - 1
         /\ f.scope_start # NoScope => f.scope_start < largest_end(f.ranges)
         /\ Cardinality(f.ranges) <= ChunkSize
<1>1. CASE R = {}
  <2>1. f.scope_start = NoScope /\ f.ranges = {}
    BY <1>1 DEF scoped_ack_frames, AckFrame
  <2>2. Cardinality({}) = 0 /\ 0 <= ChunkSize
    BY FS_EmptySet, RecvLimits DEF ChunkSize
  <2>. QED
    BY <2>1, <2>2 DEF Omitted, Covered
<1>2. CASE R # {}
  <2>1. PICK i \in ChunkIndexes(R) : f = ScopedFrame(R, h, i)
    BY <1>2 DEF scoped_ack_frames
  <2>. DEFINE S == Chunk(R, i)
              water == HighWater(R, h, i)
              L == Last(S)
  <2>2. /\ i \in Nat /\ S \in SUBSET R /\ S # {}
        /\ f.ranges = S
        /\ f.scope_start = (IF L.start > water THEN water ELSE NoScope)
        /\ L \in S /\ largest_end(S) = L.end
        /\ \A q \in S : q.end <= L.end
    BY <2>1, FrameParts
  <2>3. /\ water \in 0 .. n /\ h <= water
        /\ \A p \in R : ChunkOf(R, p) < i => p.end <= water
    BY <2>2, HighWaterExact
  <2>4. /\ \A q \in R : q.start \in 0 .. n /\ q.end \in 0 .. n /\ q.start < q.end
        /\ \A p, q \in R : p.start < q.start => p.end < q.start
    BY ListFacts
  <2>5. /\ \A q \in R : ChunkOf(R, q) \in Nat
        /\ \A p, q \in R : ChunkOf(R, p) < ChunkOf(R, q) => p.start < q.start
        /\ Cardinality(S) <= ChunkSize
    BY <2>2, ChunksExact
  <2>6. ChunkOf(R, L) = i /\ \A p \in R : p \in S <=> ChunkOf(R, p) = i
    BY <2>2 DEF Chunk
  <2>. HIDE DEF S, water, L
  <2>7. L \in R /\ L.start \in 0 .. n /\ L.end \in 0 .. n /\ L.start < L.end
    BY <2>2, <2>4
  <2>8. Covered(S) \subseteq Covered(R)
    BY <2>2 DEF Covered
  <2>9. f.scope_start # NoScope => f.scope_start < largest_end(f.ranges)
    BY <2>2, <2>3, <2>7 DEF NoScope
  <2>10. CASE f.scope_start = NoScope
    BY <2>2, <2>5, <2>8, <2>10, SMTT(30) DEF Omitted
  <2>11. CASE f.scope_start # NoScope
    <3>1. Omitted(f) = (water .. L.end - 1) \ Covered(S)
      BY <2>2, <2>11 DEF Omitted
    <3>2. ASSUME NEW x \in Omitted(f), x \in X PROVE FALSE
      <4>1. x \in Int /\ water <= x /\ x < L.end /\ x \notin Covered(S)
        BY <2>3, <2>7, <3>1, <3>2
      <4>2. x \in Covered(R)
        BY <2>3, <3>2, <4>1
      <4>3. PICK p \in R : x \in Bytes(p)
        BY <4>2, InCovered
      <4>4. p.start \in Nat /\ p.end \in Nat /\ p.start <= x /\ x < p.end
        BY <2>4, <4>1, <4>3 DEF Bytes
      <4>5. ~(ChunkOf(R, p) < i)
        BY <2>3, <4>1, <4>4
      <4>6. ChunkOf(R, p) # i
        BY <2>6, <4>1, <4>3, InCovered
      <4>7. ChunkOf(R, L) < ChunkOf(R, p)
        BY <2>2, <2>5, <2>6, <4>5, <4>6
      <4>8. L.end < p.start
        BY <2>4, <2>5, <2>7, <4>7
      <4>. QED
        BY <2>7, <4>1, <4>4, <4>8
    <3>3. Omitted(f) \subseteq 0 .. largest_end(R) - 1
      <4>1. largest_end(R) \in 0 .. n /\ L.end <= largest_end(R)
        BY <2>4, <2>7, LargestEnd
      <4>. QED
        BY <2>3, <2>7, <3>1, <4>1
    <3>. QED
      BY <2>2, <2>5, <2>8, <2>9, <3>2, <3>3
  <2>. QED
    BY <2>10, <2>11
<1>. QED
  BY <1>1, <1>2

\* The frames leave nothing out: every range of the list is in one of them, and
\* every offset from the high water to the end of the list is listed or denied.
LEMMA FramesTotal ==
  ASSUME NEW n \in Nat, NEW R \in RangeLists(n), NEW h \in 0 .. n
  PROVE  LET F == scoped_ack_frames(R, h)
         IN /\ Covered(R) \subseteq UNION {Covered(f.ranges) : f \in F}
            /\ \A x \in Nat : x >= h /\ (\E q \in R : x < q.end)
                 => \E f \in F : x \in Covered(f.ranges) \cup Omitted(f)
<1>. DEFINE F == scoped_ack_frames(R, h)
<1>1. ASSUME NEW q \in R
      PROVE  /\ ChunkOf(R, q) \in ChunkIndexes(R) /\ q \in Chunk(R, ChunkOf(R, q))
             /\ ScopedFrame(R, h, ChunkOf(R, q)) \in F
  BY DEF scoped_ack_frames, ChunkIndexes, Chunk
<1>2. Covered(R) \subseteq UNION {Covered(f.ranges) : f \in F}
  <2>. SUFFICES ASSUME NEW x \in Covered(R)
                PROVE  \E f \in F : x \in Covered(f.ranges)
    <3>. HIDE DEF F
    <3>. QED
      OBVIOUS
  <2>1. PICK q \in R : x \in Bytes(q)
    BY InCovered
  <2>. DEFINE f == ScopedFrame(R, h, ChunkOf(R, q))
  <2>2. f \in F /\ f.ranges = Chunk(R, ChunkOf(R, q))
    BY <1>1, FrameParts
  <2>3. x \in Covered(f.ranges)
    BY <1>1, <2>1, <2>2, InCovered
  <2>. QED
    BY <2>2, <2>3
<1>3. ASSUME NEW x \in Nat, x >= h, \E q \in R : x < q.end
      PROVE  \E f \in F : x \in Covered(f.ranges) \cup Omitted(f)
  <2>. DEFINE A == {q \in R : x < q.end}
              T == {q.start : q \in A}
  <2>1. /\ \A q \in R : q.start \in 0 .. n /\ q.end \in 0 .. n /\ q.start < q.end
        /\ \A p, q \in R : p.start < q.start => p.end < q.start
    BY ListFacts
  <2>2. T \in SUBSET Nat /\ T # {}
    BY <1>3, <2>1
  <2>3. PICK t \in T : \A y \in T : t <= y
    <3>. HIDE DEF T
    <3>. QED
      BY <2>2, LeastNatural
  <2>4. PICK q \in A : \A p \in A : q.start <= p.start
    BY <2>3, Zenon
  <2>. DEFINE i == ChunkOf(R, q)
              f == ScopedFrame(R, h, i)
              S == Chunk(R, i)
              water == HighWater(R, h, i)
              L == Last(S)
  <2>5. q \in R /\ x < q.end /\ i \in ChunkIndexes(R) /\ q \in S /\ f \in F
    BY <1>1
  <2>6. /\ i \in Nat /\ S \in SUBSET R
        /\ f.ranges = S
        /\ f.scope_start = (IF L.start > water THEN water ELSE NoScope)
        /\ L \in S /\ largest_end(S) = L.end
        /\ \A p \in S : p.end <= L.end
    <3>1. i \in ChunkIndexes(R)
      BY <2>5
    <3>. HIDE DEF i, F
    <3>. QED
      BY <3>1, FrameParts
  <2>7. /\ water \in 0 .. n
        /\ water = h \/ \E p \in R : ChunkOf(R, p) < i /\ p.end = water
    BY <2>6, HighWaterExact, Zenon
  <2>8. water <= x
    <3>1. CASE water = h
      BY <1>3, <3>1
    <3>2. ASSUME NEW p \in R, ChunkOf(R, p) < i, p.end = water PROVE water <= x
      <4>1. p.start < q.start
        BY <2>5, <3>2, ChunksExact
      <4>2. p \notin A
        BY <2>1, <2>4, <2>5, <4>1
      <4>. QED
        BY <2>1, <3>2, <4>2
    <3>. QED
      BY <2>7, <3>1, <3>2
  <2>. HIDE DEF i, f, S, water, L, F
  <2>9. L.start \in Nat /\ L.end \in Nat /\ x < L.end
    BY <2>1, <2>5, <2>6
  <2>10. CASE L.start > water
    <3>1. f.scope_start = water /\ f.scope_start # NoScope
      BY <2>6, <2>7, <2>10 DEF NoScope
    <3>2. Omitted(f) = (water .. L.end - 1) \ Covered(S)
      BY <2>6, <3>1 DEF Omitted
    <3>3. x \in Covered(S) \cup Omitted(f)
      BY <2>7, <2>8, <2>9, <3>2
    <3>. QED
      BY <2>5, <2>6, <3>3
  <2>11. CASE ~(L.start > water)
    <3>1. x \in Bytes(L)
      BY <2>7, <2>8, <2>9, <2>11 DEF Bytes
    <3>2. x \in Covered(S)
      BY <2>6, <3>1, InCovered
    <3>. QED
      BY <2>5, <2>6, <3>2
  <2>. QED
    BY <2>10, <2>11
<1>. QED
  BY <1>2, <1>3

\* The list of a set of nodes.
LEMMA ExtentsExact ==
  ASSUME NEW n \in Nat, NEW R \in SUBSET NodesBelow(n), Canonical(R)
  PROVE  LET E == {Extent(q) : q \in R}
         IN /\ E \in RangeLists(n) /\ Covered(E) = Covered(R)
            /\ \A q \in R : \E e \in E : e.start = q.start /\ e.end = q.end
            /\ \A e \in E : \E q \in R : e.start = q.start /\ e.end = q.end
<1>. DEFINE E == {Extent(q) : q \in R}
<1>1. \A q \in NodesBelow(n) : /\ Extent(q) \in RangesBelow(n)
                               /\ Extent(q).start = q.start /\ Extent(q).end = q.end
  BY DEF NodesBelow, RangesBelow, Extent, OffsetRange
<1>2. \A q \in R : /\ Extent(q) \in RangesBelow(n)
                   /\ Extent(q).start = q.start /\ Extent(q).end = q.end
  BY <1>1
<1>3. E \in SUBSET RangesBelow(n)
  BY <1>2
<1>4. Canonical(E)
  <2>. SUFFICES ASSUME NEW p \in R, NEW q \in R, Extent(p) # Extent(q)
                PROVE  Extent(p).end < Extent(q).start \/ Extent(q).end < Extent(p).start
    BY DEF Canonical
  <2>. QED
    BY <1>2 DEF Canonical
<1>5. Covered(E) = Covered(R)
  <2>1. \A q \in R : Bytes(Extent(q)) = Bytes(q)
    BY <1>2 DEF Bytes
  <2>2. \A x : x \in Covered(E) <=> \E q \in R : x \in Bytes(Extent(q))
    BY DEF Covered
  <2>3. \A x : x \in Covered(R) <=> \E q \in R : x \in Bytes(q)
    BY DEF Covered
  <2>. QED
    BY <2>1, <2>2, <2>3, Zenon
<1>. QED
  BY <1>2, <1>3, <1>4, <1>5 DEF RangeLists

\* What the cumulative and the incremental frames are built from.
LEMMA ListsOfStream ==
  ASSUME RecvInv
  PROVE  /\ U64Max \in Nat /\ ack_high_water \in 0 .. U64Max
         /\ ack_ranges \in RangeLists(U64Max) /\ Covered(ack_ranges) = Received
         /\ largest_end(ack_ranges) = largest_end(received_ranges)
         /\ largest_end(received_ranges) \in 0 .. U64Max
         /\ \A x \in Nat : x < largest_end(received_ranges) => \E q \in ack_ranges : x < q.end
         /\ changed_ranges \in RangeLists(U64Max) /\ Covered(changed_ranges) \subseteq Received
         /\ Received \subseteq Covered(changed_ranges) \cup (0 .. ack_high_water - 1)
         /\ \A q \in received_ranges : q.dirty => Bytes(q) \subseteq Covered(changed_ranges)
         /\ \A x \in Nat : ack_high_water <= x /\ x < largest_end(received_ranges)
              => \E q \in changed_ranges : x < q.end
<1>. DEFINE R == received_ranges
            D == {p \in R : p.dirty}
            A == ack_ranges
            B == changed_ranges
<1>1. /\ U64Max \in Nat /\ R \in SUBSET NodesBelow(U64Max) /\ Canonical(R)
      /\ D \in SUBSET NodesBelow(U64Max) /\ Canonical(D)
  BY StateFacts DEF Canonical
<1>2. ack_high_water \in 0 .. U64Max /\ \A q \in R : ~q.dirty => q.end <= ack_high_water
  BY DEF RecvInv, DeliveredOnceInOrder, ReorderStateExact, RecvTypeOK
<1>3. /\ A \in RangeLists(U64Max) /\ Covered(A) = Covered(R)
      /\ \A q \in R : \E e \in A : e.start = q.start /\ e.end = q.end
      /\ \A e \in A : \E q \in R : e.start = q.start /\ e.end = q.end
  BY <1>1, ExtentsExact, Zenon DEF ack_ranges
<1>4. /\ B \in RangeLists(U64Max) /\ Covered(B) = Covered(D)
      /\ \A q \in D : \E e \in B : e.start = q.start /\ e.end = q.end
  BY <1>1, ExtentsExact DEF changed_ranges
<1>. HIDE DEF A, B
<1>5. \A q \in R : q.start \in 0 .. U64Max /\ q.end \in 0 .. U64Max /\ q.start < q.end
  BY <1>1 DEF NodesBelow
<1>6. \A q \in A : q.end \in 0 .. U64Max
  BY <1>3, <1>5
<1>7. /\ largest_end(R) \in 0 .. U64Max
      /\ \A q \in R : q.end <= largest_end(R)
      /\ largest_end(R) = 0 \/ \E q \in R : q.end = largest_end(R)
  BY <1>1, <1>5, LargestEnd
<1>8. /\ largest_end(A) \in 0 .. U64Max
      /\ \A q \in A : q.end <= largest_end(A)
      /\ largest_end(A) = 0 \/ \E q \in A : q.end = largest_end(A)
  BY <1>1, <1>6, LargestEnd
<1>9. largest_end(A) = largest_end(R)
  <2>1. largest_end(A) <= largest_end(R)
    BY <1>3, <1>7, <1>8
  <2>2. largest_end(R) <= largest_end(A)
    BY <1>3, <1>7, <1>8
  <2>. QED
    BY <1>7, <1>8, <2>1, <2>2
<1>10. ASSUME NEW x \in Nat, x < largest_end(R) PROVE \E q \in A : x < q.end
  BY <1>8, <1>9, <1>10
<1>11. Covered(D) \subseteq Received
  BY DEF Covered, Received
<1>12. ASSUME NEW x \in Received PROVE x \in Covered(D) \cup (0 .. ack_high_water - 1)
  <2>1. PICK q \in R : x \in Bytes(q)
    BY InCovered DEF Received
  <2>2. CASE q.dirty
    BY <2>1, <2>2, InCovered
  <2>3. CASE ~q.dirty
    BY <1>2, <1>5, <2>1, <2>3 DEF Bytes
  <2>. QED
    BY <2>2, <2>3
<1>13. \A q \in R : q.dirty => Bytes(q) \subseteq Covered(B)
  BY <1>4 DEF Covered
<1>14. ASSUME NEW x \in Nat, ack_high_water <= x, x < largest_end(R)
       PROVE  \E q \in B : x < q.end
  <2>1. PICK q \in R : q.end = largest_end(R)
    BY <1>7, <1>14
  <2>2. q.dirty
    BY <1>2, <1>5, <1>14, <2>1
  <2>. QED
    BY <1>4, <1>14, <2>1, <2>2
<1>. QED
  BY <1>1, <1>2, <1>3, <1>4, <1>7, <1>9, <1>10, <1>11, <1>12, <1>13, <1>14
     DEF A, B, Received

\* What the invariant says of the frames.
LEMMA FramesExact ==
  ASSUME RecvInv
  PROVE  AckFramesExact
<1>. DEFINE n == U64Max
            A == ack_ranges
            B == changed_ranges
            e == largest_end(received_ranges)
<1>1. /\ n \in Nat /\ 0 \in 0 .. n /\ ack_high_water \in 0 .. n
      /\ A \in RangeLists(n) /\ Covered(A) = Received
      /\ largest_end(A) = e /\ e \in 0 .. n
      /\ \A x \in Nat : x < e => \E q \in A : x < q.end
      /\ B \in RangeLists(n) /\ Covered(B) \subseteq Received
      /\ Received \subseteq Covered(B) \cup (0 .. ack_high_water - 1)
      /\ Received \subseteq Covered(A) \cup (0 .. 0 - 1)
  BY ListsOfStream
<1>. HIDE DEF n, A, B, e
<1>2. ASSUME NEW f \in scoped_ack_frames(A, 0)
      PROVE  /\ Covered(f.ranges) \subseteq Received
             /\ Omitted(f) \cap Received = {}
             /\ Omitted(f) \subseteq 0 .. e - 1
             /\ f.scope_start # NoScope => f.scope_start < largest_end(f.ranges)
             /\ Cardinality(f.ranges) <= ChunkSize
  BY <1>1, FramesTrue, SMTT(30)
<1>3. ASSUME NEW f \in scoped_ack_frames(B, ack_high_water)
      PROVE  /\ Covered(f.ranges) \subseteq Received
             /\ Omitted(f) \cap Received = {}
             /\ f.scope_start # NoScope => f.scope_start < largest_end(f.ranges)
             /\ Cardinality(f.ranges) <= ChunkSize
  BY <1>1, FramesTrue
<1>4. ack_frames = scoped_ack_frames(A, 0) /\ ack_update = scoped_ack_frames(B, ack_high_water)
  BY DEF ack_frames, ack_update, A, B
<1>5. AckFramesTruthful
  BY <1>2, <1>3, <1>4 DEF AckFramesTruthful
<1>6. Received \subseteq 0 .. e - 1
  <2>. SUFFICES ASSUME NEW x \in Received PROVE x \in 0 .. e - 1
    OBVIOUS
  <2>1. PICK q \in A : x \in Bytes(q)
    BY <1>1, InCovered
  <2>2. /\ \A p \in A : p.start \in 0 .. n /\ p.end \in 0 .. n
    BY <1>1, ListFacts
  <2>3. q.end <= e
    BY <1>1, <2>2, LargestEnd
  <2>. QED
    BY <1>1, <2>1, <2>2, <2>3 DEF Bytes
<1>7. ASSUME NEW x \in 0 .. e - 1
      PROVE  \E f \in ack_frames : x \in Covered(f.ranges) \cup Omitted(f)
  <2>1. x \in Nat /\ x >= 0 /\ \E q \in A : x < q.end
    BY <1>1
  <2>. QED
    BY <1>1, <1>4, <2>1, FramesTotal
<1>8. \A f \in ack_frames : Covered(f.ranges) \cup Omitted(f) \subseteq 0 .. e - 1
  BY <1>2, <1>4, <1>6, Zenon
<1>9. UNION {Covered(f.ranges) \cup Omitted(f) : f \in ack_frames} = 0 .. e - 1
  BY <1>7, <1>8, Zenon
<1>. QED
  BY <1>5, <1>9 DEF AckFramesExact, e

\* Every STREAM_ACK frame the stream would build, at any time and for any limits,
\* is true on its own and fits, and the cumulative frames together say
\* everything up to the largest received end.
THEOREM AckFramesExactAlways == RecvSpec => []AckFramesExact
BY FramesExact, InitRecvInv, NextPreserves, PTL DEF RecvSpec

-----------------------------------------------------------------------------
(* What a peer that stays within its credit can rely on *)

\* The ranges of a stream that is at most a window ahead of its frontier: each
\* ends at another offset of the window, or at the frontier.
LEMMA RangesInWindow ==
  ASSUME NEW n \in Nat, NEW R \in SUBSET NodesBelow(n), Canonical(R),
         NEW next \in Nat, 0 .. next - 1 \subseteq Covered(R),
         NEW w \in Nat, Covered(R) \subseteq 0 .. next + w - 1
  PROVE  Cardinality(R) <= w + 1
<1>. DEFINE f == [q \in R |-> q.end]
            E == next .. next + w
<1>1. \A q \in R : q.start \in Nat /\ q.end \in Nat /\ q.start < q.end
  BY DEF NodesBelow
<1>2. ASSUME NEW q \in R PROVE q.end \in E
  <2>1. q.end - 1 \in Covered(R)
    <3>1. q.end - 1 \in Bytes(q)
      BY <1>1 DEF Bytes
    <3>. QED
      BY <3>1, InCovered
  <2>2. q.end \in Nat /\ q.end - 1 < next + w
    BY <1>1, <2>1
  <2>3. ASSUME q.end < next PROVE FALSE
    <3>1. q.end \in Covered(R)
      BY <1>1, <2>3
    <3>2. PICK p \in R : q.end \in Bytes(p)
      BY <3>1, InCovered
    <3>3. p.start <= q.end /\ q.end < p.end
      BY <1>1, <3>2 DEF Bytes
    <3>4. p # q
      BY <1>1, <3>3
    <3>5. p.end < q.start \/ q.end < p.start
      BY <3>4 DEF Canonical
    <3>. QED
      BY <1>1, <3>3, <3>5
  <2>. QED
    BY <2>2, <2>3
<1>3. \A p, q \in R : p.end = q.end => p = q
  BY <1>1 DEF Canonical
<1>4. f \in Injection(R, E)
  <2>. HIDE DEF E
  <2>. QED
    BY <1>2, <1>3 DEF Injection, IsInjective
<1>5. IsFiniteSet(E) /\ Cardinality(E) = w + 1
  <2>1. next \in Int /\ next + w \in Int /\ next <= next + w
    OBVIOUS
  <2>2. IsFiniteSet(E) /\ Cardinality(E) = (next + w) - next + 1
    BY <2>1, FS_Interval
  <2>. QED
    BY <2>2
<1>. HIDE DEF E, f
<1>. QED
  BY <1>4, <1>5, FS_Injection

\* DATA within the credit is never refused, when no more than a window of bytes
\* beyond the frontier was ever assigned and the ceilings cover the window.
LEMMA NotRejected ==
  ASSUME RecvInv, NEW r \in RangesBelow(U64Max), NEW credit \in Int, NEW w \in Nat,
         Length(r) <= max_payload_bytes, r.end <= credit,
         Received \cup Bytes(r) \subseteq 0 .. next_offset + w - 1,
         w <= max_reorder_bytes, w <= max_reorder_buffer_chunks,
         w + 1 <= max_retained_receive_ranges
  PROVE  ~Rejected(r, credit)
<1>. DEFINE M == Missing(r)
            X == Covered(buffered)
            Y == Covered(M)
            W == next_offset .. next_offset + w - 1
            N == insert(received_ranges, r)
<1>1. /\ U64Max \in Nat /\ next_offset \in Nat
      /\ reorder_bytes = Cardinality(X)
      /\ buffered \in SUBSET RangesBelow(U64Max) /\ Disjoint(buffered)
      /\ received_ranges \in SUBSET NodesBelow(U64Max) /\ Canonical(received_ranges)
      /\ Received = (0 .. next_offset - 1) \cup X
      /\ Cardinality(received_ranges) \in Nat
  BY StateFacts
<1>2. /\ max_payload_bytes \in Nat /\ max_reorder_bytes \in Nat
      /\ max_reorder_buffer_chunks \in Nat /\ max_retained_receive_ranges \in Nat
      /\ r.start \in Nat /\ r.end \in Nat /\ Length(r) \in Nat
  BY RecvLimits DEF RangesBelow, Length
<1>3. ~TooManyReceiveRanges(r)
  <2>1. /\ N \in SUBSET NodesBelow(U64Max) /\ Canonical(N)
        /\ Covered(N) = Received \cup Bytes(r)
    BY <1>1, InsertExact DEF Received
  <2>2. 0 .. next_offset - 1 \subseteq Covered(N)
    BY <1>1, <2>1
  <2>3. Cardinality(N) <= w + 1
    <3>. HIDE DEF N
    <3>. QED
      BY <1>1, <2>1, <2>2, RangesInWindow
  <2>4. Cardinality(N) = range_count_after_insert(received_ranges, r)
    BY RangeCount
  <2>5. Cardinality(N) \in Int
    <3>1. \A q \in N : q.start \in 0 .. U64Max /\ q.end \in 0 .. U64Max /\ q.start < q.end
      BY <2>1 DEF NodesBelow
    <3>2. Disjoint(N)
      <4>. HIDE DEF N
      <4>. QED
        BY <1>1, <2>1, <3>1 DEF Canonical, Disjoint
    <3>. HIDE DEF N
    <3>3. Cardinality(N) \in Nat
      BY <1>1, <3>1, <3>2, DisjointFinite
    <3>. QED
      BY <3>3
  <2>. HIDE DEF N
  <2>. QED
    BY <1>2, <2>3, <2>4, <2>5 DEF TooManyReceiveRanges
<1>4. /\ M \in SUBSET RangesBelow(U64Max) /\ Disjoint(M) /\ Y = Bytes(r) \ Received
      /\ \A c \in buffered \cup M : c.start >= next_offset
  BY MissingExact, Zenon
<1>5. ASSUME NEW R \in SUBSET RangesBelow(U64Max), Disjoint(R)
      PROVE  /\ IsFiniteSet(Covered(R)) /\ Cardinality(Covered(R)) \in Nat
             /\ Cardinality(R) \in Nat /\ Cardinality(R) <= Cardinality(Covered(R))
  <2>1. \A c \in R : c.start \in 0 .. U64Max /\ c.end \in 0 .. U64Max /\ c.start < c.end
    BY DEF RangesBelow
  <2>. QED
    BY <1>1, <1>5, <2>1, DisjointFinite
<1>6. X \cup Y \subseteq W /\ X \cap Y = {}
  <2>1. \A c \in buffered \cup M : c.start \in Int /\ c.end \in Int
    BY <1>1, <1>4 DEF RangesBelow
  <2>2. X \cup Y \subseteq 0 .. next_offset + w - 1
    BY <1>1, <1>4
  <2>3. ASSUME NEW x \in X \cup Y PROVE x >= next_offset
    <3>1. PICK c \in buffered \cup M : x \in Bytes(c)
      BY InCovered
    <3>. QED
      BY <1>1, <1>4, <2>1, <3>1 DEF Bytes
  <2>. HIDE DEF X, Y
  <2>4. X \cup Y \subseteq W
    BY <1>1, <2>2, <2>3
  <2>. QED
    BY <1>1, <1>4, <2>4
<1>7. Cardinality(X) + Cardinality(Y) <= w
  <2>1. IsFiniteSet(W) /\ Cardinality(W) = w
    <3>1. next_offset \in Int /\ next_offset + w - 1 \in Int
      BY <1>1
    <3>2. /\ IsFiniteSet(W)
          /\ Cardinality(W) = IF next_offset > next_offset + w - 1 THEN 0
                              ELSE (next_offset + w - 1) - next_offset + 1
      BY <3>1, FS_Interval
    <3>. QED
      BY <1>1, <3>2
  <2>2. IsFiniteSet(X) /\ IsFiniteSet(Y)
    BY <1>1, <1>4, <1>5, Zenon
  <2>. HIDE DEF X, Y, W
  <2>3. Cardinality(X \cup Y) = Cardinality(X) + Cardinality(Y)
    BY <1>6, <2>2, CardinalityOfDisjoint
  <2>4. Cardinality(X \cup Y) <= Cardinality(W)
    BY <1>6, <2>1, FS_Subset
  <2>. QED
    BY <2>1, <2>3, <2>4
<1>8. /\ Cardinality(X) \in Nat /\ Cardinality(Y) \in Nat
      /\ Cardinality(buffered) \in Nat /\ Cardinality(buffered) <= Cardinality(X)
      /\ Cardinality(M) \in Nat /\ Cardinality(M) <= Cardinality(Y)
  BY <1>1, <1>4, <1>5, Zenon
<1>9. ~ReorderBufferFull(r)
  <2>1. reorder_bytes + Cardinality(Covered(Missing(r))) <= max_reorder_bytes
    <3>. HIDE DEF X
    <3>. QED
      BY <1>1, <1>2, <1>7, <1>8
  <2>. QED
    BY <1>1, <1>2, <1>8, <2>1 DEF ReorderBufferFull
<1>10. ~TooManyReorderBufferChunks(r)
  <2>1. Cardinality(buffered) + Cardinality(Missing(r)) <= max_reorder_buffer_chunks
    BY <1>2, <1>7, <1>8
  <2>. QED
    BY <1>2, <1>8, <2>1 DEF TooManyReorderBufferChunks
<1>. QED
  BY <1>2, <1>3, <1>9, <1>10 DEF Rejected, FlowControlViolation

\* A frame that is accepted moves the frontier forward only, and exactly its
\* bytes have then been received.
LEMMA ReceiveEffects ==
  ASSUME RecvInv, NEW r \in RangesBelow(U64Max), NEW credit, Receive(r, credit)
  PROVE  next_offset' >= next_offset /\ Received' = Received \cup Bytes(r)
<1>1. /\ U64Max \in Nat /\ next_offset \in Nat
      /\ received_ranges \in SUBSET NodesBelow(U64Max) /\ Canonical(received_ranges)
  BY StateFacts
<1>2. CASE covers(received_ranges, r)
  <2>1. UNCHANGED <<next_offset, received_ranges>>
    BY <1>2 DEF Receive
  <2>2. PICK q \in received_ranges : q.start <= r.start /\ q.end >= r.end
    BY <1>2 DEF covers
  <2>3. q.start \in Int /\ q.end \in Int /\ r.start \in Int /\ r.end \in Int
    BY <1>1 DEF NodesBelow, RangesBelow
  <2>4. Bytes(r) \subseteq Bytes(q)
    BY <2>2, <2>3 DEF Bytes
  <2>5. Bytes(r) \subseteq Received
    BY <2>4 DEF Received, Covered
  <2>6. Received' = Received
    BY <2>1 DEF Received
  <2>. QED
    BY <1>1, <2>1, <2>5, <2>6
<1>3. CASE ~covers(received_ranges, r)
  <2>1. next_offset' = Delivering(r).next /\ received_ranges' = insert(received_ranges, r)
    BY <1>3 DEF Receive, ReceiveNew
  <2>2. Delivering(r).next >= next_offset
    BY DeliveringExact, Zenon DEF Deliveries
  <2>. QED
    BY <1>1, <2>1, <2>2, InsertExact DEF Received
<1>. QED
  BY <1>2, <1>3

\* Publishing reports what was received and changes none of it.
LEMMA TakeEffects ==
  ASSUME RecvInv, take_ack_update
  PROVE  Received' = Received /\ UNCHANGED <<next_offset, published_max_offset, delivered>>
<1>1. received_ranges \in SUBSET NodesBelow(U64Max) /\ Canonical(received_ranges)
      /\ U64Max \in Nat /\ IsFiniteSet(received_ranges)
  BY StateFacts
<1>2. Covered({[q EXCEPT !.dirty = FALSE] : q \in received_ranges}) = Covered(received_ranges)
  BY <1>1, CleanNodes, Zenon
<1>. QED
  BY <1>2 DEF Received, take_ack_update

\* Every frame the stream builds is one the peer's validate_stream_ack accepts.
LEMMA FramesAcceptable ==
  ASSUME RecvInv, NEW f \in ack_frames \cup ack_update
  PROVE  /\ f \in [scope_start : {NoScope} \cup 0 .. U64Max, ranges : SUBSET RangesBelow(U64Max)]
         /\ Covered(f.ranges) \subseteq Received
         /\ f.scope_start # NoScope => \E r \in f.ranges : f.scope_start < r.end
<1>1. /\ U64Max \in Nat /\ ack_high_water \in 0 .. U64Max /\ 0 \in 0 .. U64Max
      /\ ack_ranges \in RangeLists(U64Max) /\ changed_ranges \in RangeLists(U64Max)
  BY ListsOfStream
<1>2. PICK R \in RangeLists(U64Max), h \in 0 .. U64Max : f \in scoped_ack_frames(R, h)
  BY <1>1 DEF ack_frames, ack_update
<1>3. Covered(f.ranges) \subseteq Received
  BY FramesExact DEF AckFramesExact, AckFramesTruthful
<1>4. CASE R = {}
  <2>1. f = AckFrame(NoScope, {})
    BY <1>2, <1>4 DEF scoped_ack_frames
  <2>. QED
    BY <1>3, <2>1 DEF AckFrame
<1>5. CASE R # {}
  <2>1. PICK i \in ChunkIndexes(R) : f = ScopedFrame(R, h, i)
    BY <1>2, <1>5 DEF scoped_ack_frames
  <2>. DEFINE S == Chunk(R, i)
              water == HighWater(R, h, i)
  <2>2. /\ i \in Nat /\ S \in SUBSET R
        /\ f.ranges = S
        /\ f.scope_start = (IF Last(S).start > water THEN water ELSE NoScope)
        /\ Last(S) \in S
    BY <1>1, <2>1, FrameParts
  <2>3. water \in 0 .. U64Max
    BY <1>1, <2>2, HighWaterExact, Zenon
  <2>4. f = AckFrame(IF Last(S).start > water THEN water ELSE NoScope, S)
    BY <2>1 DEF ScopedFrame
  <2>5. Last(S) \in RangesBelow(U64Max) /\ S \in SUBSET RangesBelow(U64Max)
    BY <2>2 DEF RangeLists
  <2>. HIDE DEF S, water
  <2>6. f \in [scope_start : {NoScope} \cup 0 .. U64Max, ranges : SUBSET RangesBelow(U64Max)]
    BY <2>3, <2>4, <2>5 DEF AckFrame
  <2>7. f.scope_start # NoScope => f.scope_start < Last(S).end
    BY <1>1, <2>2, <2>3, <2>5 DEF RangesBelow
  <2>. QED
    BY <1>3, <2>2, <2>6, <2>7
<1>. QED
  BY <1>4, <1>5
=============================================================================
