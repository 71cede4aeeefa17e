------------------------- MODULE ReliableSendProofs -------------------------
(***************************************************************************)
(* Theorems about the send half of a stream, for every value of its limits *)
(* and every ACK.                                                          *)
(***************************************************************************)
EXTENDS ReliableSend, RangeProofs

\* Max of a pair, without its CHOOSE.
LEMMA MaxOfTwo ==
  ASSUME NEW a \in Int, NEW b \in Int
  PROVE  Max({a, b}) = IF a >= b THEN a ELSE b
BY DEF Max

\* The conjunction that is inductive.
SendInv ==
  /\ SendTypeOK
  /\ RetainedUntilAcked
  /\ CacheAccounted
  /\ WithinCredit
  /\ GapsAreRetained

\* The retained bytes are a finite set of assigned offsets.
LEMMA RetainedFinite ==
  ASSUME SendInv
  PROVE  /\ Retained \in SUBSET (0 .. send_next - 1)
         /\ Retained \in SUBSET (0 .. U64Max)
         /\ IsFiniteSet(Retained)
         /\ Cardinality(Retained) \in Nat
<1>1. Retained \in SUBSET (0 .. send_next - 1)
  BY DEF SendInv, RetainedUntilAcked
<1>2. send_next \in 0 .. U64Max /\ U64Max \in Nat
  BY SendLimits DEF SendInv, SendTypeOK
<1>3. Retained \in SUBSET (0 .. U64Max)
  BY <1>1, <1>2
<1>4. IsFiniteSet(0 .. U64Max)
  BY <1>2, FS_Interval
<1>5. IsFiniteSet(Retained)
  BY <1>3, <1>4, FS_Subset, Zenon
<1>. QED
  BY <1>1, <1>3, <1>5, FS_CardinalityType

\* The bytes of a cache with one more chunk.
LEMMA CoveredAdd ==
  ASSUME NEW C, NEW f
  PROVE  Covered(C \cup {f}) = Covered(C) \cup Bytes(f)
BY DEF Covered

\* A commit extends what is retained by exactly the new bytes.
LEMMA SendPreserves ==
  ASSUME SendInv, NEW len \in Nat, send_data(len)
  PROVE  SendInv'
<1>. DEFINE f == Prepared(len)
<1>1. /\ send_next \in Nat /\ U64Max \in Nat /\ max_offset \in 0 .. U64Max
      /\ len > 0 /\ send_next + len <= U64Max /\ send_next + len <= max_offset
      /\ reinjection_bytes + len <= max_repair_bytes
  BY SendLimits DEF SendInv, SendTypeOK, send_data, prepare_data
<1>2. f.start = send_next /\ f.end = send_next + len /\ Length(f) = len
  BY <1>1 DEF Prepared, OffsetRange, Length
<1>3. /\ send_next' = send_next + len
      /\ reinjection_bytes' = reinjection_bytes + len
      /\ reinjection_cache' = reinjection_cache \cup {f}
      /\ UNCHANGED <<max_offset, gaps, acked>>
  BY <1>2 DEF send_data, BecomesStream, commit_prepared_data, Stream
<1>4. Bytes(f) = send_next .. send_next + len - 1
  BY <1>1, <1>2 DEF Bytes
<1>5. Retained' = Retained \cup (send_next .. send_next + len - 1)
  BY <1>3, <1>4, CoveredAdd, Zenon DEF Retained
<1>6. SendTypeOK'
  <2>1. f \in RangesBelow(U64Max)
    BY <1>1, <1>2 DEF RangesBelow, Prepared, OffsetRange
  <2>. QED
    BY <1>1, <1>3, <2>1 DEF SendInv, SendTypeOK
<1>7. RetainedUntilAcked'
  BY <1>1, <1>3, <1>5 DEF SendInv, RetainedUntilAcked
<1>8. CacheAccounted'
  <2>1. Disjoint(reinjection_cache')
    <3>1. \A c \in reinjection_cache : c.end <= f.start
      <4>1. SUFFICES ASSUME NEW c \in reinjection_cache PROVE c.end <= send_next
        BY <1>2
      <4>2. c.start \in Nat /\ c.end \in Nat /\ c.start < c.end
        BY SendLimits DEF SendInv, SendTypeOK, RangesBelow
      <4>3. c.end - 1 \in Retained
        BY <4>2 DEF Retained, Covered, Bytes
      <4>. QED
        BY <4>2, <4>3, <1>1, RetainedFinite
    <3>. QED
      BY <1>3, <3>1 DEF SendInv, CacheAccounted, Disjoint
  <2>2. Cardinality(Retained') = Cardinality(Retained) + len
    <3>1. /\ IsFiniteSet(send_next .. send_next + len - 1)
          /\ Cardinality(send_next .. send_next + len - 1) = len
      BY <1>1, FS_Interval
    <3>2. Retained \cap (send_next .. send_next + len - 1) = {}
      BY <1>1, RetainedFinite
    <3>4. IsFiniteSet(Retained)
      BY RetainedFinite
    <3>5. Cardinality(Retained \cup (send_next .. send_next + len - 1))
            = Cardinality(Retained) + Cardinality(send_next .. send_next + len - 1)
      BY <3>1, <3>2, <3>4, CardinalityOfDisjoint, Zenon
    <3>. QED
      BY <1>5, <3>1, <3>5
  <2>. QED
    BY <1>3, <2>1, <2>2 DEF SendInv, CacheAccounted
<1>9. WithinCredit'
  BY <1>1, <1>3 DEF WithinCredit
<1>10. GapsAreRetained'
  BY <1>3, <1>5 DEF SendInv, GapsAreRetained
<1>. QED
  BY <1>6, <1>7, <1>8, <1>9, <1>10 DEF SendInv

\* Rolling a commit back gives the stream from before it.
LEMMA RollbackUndoesCommit ==
  ASSUME SendInv, NEW len \in Nat, len > 0
  PROVE  rollback_committed_data(commit_prepared_data(Prepared(len)), Prepared(len))
           = Stream(send_next, reinjection_bytes, reinjection_cache)
<1>. DEFINE f == Prepared(len)
<1>1. send_next \in Nat /\ reinjection_bytes \in Nat
  BY DEF SendInv, SendTypeOK
<1>2. f.start = send_next /\ f.end = send_next + len /\ Length(f) = len
  BY <1>1 DEF Prepared, OffsetRange, Length
<1>3. f \notin reinjection_cache
  <2>1. send_next \in Bytes(f)
    BY <1>1, <1>2 DEF Bytes
  <2>2. send_next \notin Retained
    BY <1>1, RetainedFinite
  <2>. QED
    BY <2>1, <2>2 DEF Retained, Covered
<1>4. (reinjection_cache \cup {f}) \ {f} = reinjection_cache
  BY <1>3
<1>5. Monus(reinjection_bytes + len, len) = reinjection_bytes
  BY <1>1 DEF Monus
<1>. QED
  BY <1>2, <1>4, <1>5 DEF rollback_committed_data, commit_prepared_data, Stream

\* An assignment that the carrier refuses changes nothing at all.
LEMMA RefusedPreserves ==
  ASSUME SendInv, NEW len \in Nat, send_data_refused(len)
  PROVE  SendInv' /\ UNCHANGED send_vars
<1>1. BecomesStream(Stream(send_next, reinjection_bytes, reinjection_cache))
  BY RollbackUndoesCommit DEF send_data_refused, prepare_data
<1>2. UNCHANGED send_vars
  BY <1>1 DEF BecomesStream, Stream, send_vars
<1>. QED
  BY <1>2 DEF send_vars, SendInv, SendTypeOK, RetainedUntilAcked, CacheAccounted, WithinCredit,
              GapsAreRetained, Retained

\* A grant only ever raises the credit.
LEMMA CreditPreserves ==
  ASSUME SendInv, NEW m \in 0 .. U64Max, update_max_offset(m)
  PROVE  SendInv'
<1>1. U64Max \in Nat /\ max_offset \in 0 .. U64Max /\ send_next \in 0 .. U64Max
  BY SendLimits DEF SendInv, SendTypeOK
<1>2. max_offset' \in 0 .. U64Max /\ max_offset' >= max_offset
  BY <1>1, MaxOfTwo DEF update_max_offset
<1>3. UNCHANGED <<send_next, reinjection_bytes, reinjection_cache, gaps, acked>>
  BY DEF update_max_offset
<1>4. SendTypeOK'
  BY <1>2, <1>3 DEF SendInv, SendTypeOK
<1>5. WithinCredit'
  BY <1>1, <1>2, <1>3 DEF SendInv, WithinCredit
<1>6. RetainedUntilAcked' /\ CacheAccounted' /\ GapsAreRetained'
  BY <1>3 DEF SendInv, RetainedUntilAcked, CacheAccounted, GapsAreRetained, Retained
<1>. QED
  BY <1>4, <1>5, <1>6 DEF SendInv

-----------------------------------------------------------------------------
\* The range lists that the wire format can carry.
WireLists == SUBSET [start : 0 .. U64Max, end : 0 .. U64Max]

LEMMA AckLists ==
  ASSUME NEW ack \in Acks
  PROVE  ack.ranges \in WireLists
BY SendLimits DEF Acks, Ack, WireLists

\* An accepted ACK lists assigned bytes only.
LEMMA AckRangesBelow ==
  ASSUME SendInv, NEW ack, ack.ranges \in WireLists, validate_stream_ack(ack)
  PROVE  /\ ack.ranges \in SUBSET RangesBelow(U64Max)
         /\ Covered(ack.ranges) \in SUBSET (0 .. send_next - 1)
<1>2. \A r \in ack.ranges : r \in [start : 0 .. U64Max, end : 0 .. U64Max]
  BY DEF WireLists
<1>3. \A r \in ack.ranges : r.start < r.end /\ r.end <= send_next
  BY DEF validate_stream_ack
<1>4. ack.ranges \in SUBSET RangesBelow(U64Max)
  BY <1>2, <1>3 DEF RangesBelow
<1>5. send_next \in Nat
  BY DEF SendInv, SendTypeOK
<1>6. ASSUME NEW r \in ack.ranges, NEW x \in Bytes(r) PROVE x \in 0 .. send_next - 1
  <2>1. r.start \in 0 .. U64Max /\ r.end \in 0 .. U64Max
    BY <1>2
  <2>. QED
    BY <1>3, <1>5, <2>1 DEF Bytes
<1>. QED
  BY <1>4, <1>6 DEF Covered

\* Releasing the listed bytes keeps exactly the others.
LEMMA CacheAfterExact ==
  ASSUME SendInv, NEW ack
  PROVE  /\ Covered(CacheAfter(ack)) = Retained \ Covered(ack.ranges)
         /\ CacheAfter(ack) \in SUBSET RangesBelow(U64Max)
         /\ Disjoint(CacheAfter(ack))
<1>1. U64Max \in Nat /\ reinjection_cache \in SUBSET RangesBelow(U64Max)
  BY SendLimits DEF SendInv, SendTypeOK
<1>2. /\ Covered(CacheAfter(ack)) = Retained \ Covered(ack.ranges)
      /\ CacheAfter(ack) \in SUBSET RangesBelow(U64Max)
  BY <1>1, NotCoveredExact, Zenon DEF CacheAfter, Retained
<1>3. Disjoint(CacheAfter(ack))
  BY <1>1, NotCoveredDisjoint DEF CacheAfter, SendInv, CacheAccounted
<1>. QED
  BY <1>2, <1>3

\* What an ACK adds to the snapshot is retained.
LEMMA InScopeRetained ==
  ASSUME NEW C \in SUBSET RangesBelow(U64Max), NEW ack
  PROVE  /\ Covered(InScope(C, ack)) \in SUBSET Covered(C)
         /\ InScope(C, ack) \in SUBSET RangesBelow(U64Max)
<1>1. U64Max \in Nat
  BY SendLimits
<1>2. CASE ack.scope_start = NoScope
  BY <1>2 DEF InScope, Covered
<1>3. CASE ack.scope_start # NoScope
  <2>. DEFINE S == Covered(C) \cap Bytes(ScopeOf(ack))
  <2>1. Covered(C) \in SUBSET (0 .. U64Max - 1)
    BY <1>1, CoveredType
  <2>2. S \in SUBSET (0 .. U64Max - 1) /\ S \in SUBSET (0 .. U64Max)
    BY <1>1, <2>1
  <2>3. InScope(C, ack) = Runs(S)
    BY <1>3 DEF InScope, retained_ranges_in_scope
  <2>4. Covered(Runs(S)) = S /\ Runs(S) \in SUBSET RangesBelow(U64Max)
    BY <1>1, <2>2, RunsCover, RunsType, Zenon
  <2>. QED
    BY <2>3, <2>4
<1>. QED
  BY <1>2, <1>3

\* An ACK releases the bytes it lists, and nothing else.
LEMMA AckPreserves ==
  ASSUME SendInv, NEW ack, ack.ranges \in WireLists, apply_stream_ack(ack)
  PROVE  SendInv'
<1>. DEFINE A == Covered(ack.ranges)
<1>1. /\ U64Max \in Nat /\ send_next \in Nat /\ max_repair_bytes \in Nat
      /\ reinjection_bytes \in Nat /\ acked \in SUBSET Nat
  BY SendLimits DEF SendInv, SendTypeOK
<1>2. /\ ack.ranges \in SUBSET RangesBelow(U64Max)
      /\ A \in SUBSET (0 .. send_next - 1)
  BY AckRangesBelow DEF apply_stream_ack
<1>3. acked' = acked \cup A /\ UNCHANGED <<send_next, max_offset>>
  BY DEF apply_stream_ack
<1>. acked' \in SUBSET Nat
  <2>1. 0 .. send_next - 1 \in SUBSET Nat
    BY <1>1
  <2>2. A \in SUBSET Nat
    BY <1>2, <2>1, Zenon
  <2>. QED
    BY <1>1, <1>3, <2>2, Zenon
<1>4. CASE subsumes(reinjection_cache, gaps, ack)
  <2>1. UNCHANGED <<reinjection_bytes, reinjection_cache, gaps>>
    BY <1>4 DEF apply_stream_ack
  <2>2. Retained' = Retained /\ Retained \cap A = {}
    BY <1>4, <2>1 DEF subsumes, has_unacknowledged_ranges, Retained
  <2>3. SendTypeOK'
    BY <1>3, <2>1 DEF SendInv, SendTypeOK
  <2>4. RetainedUntilAcked'
    BY <1>2, <1>3, <2>2 DEF SendInv, RetainedUntilAcked
  <2>5. CacheAccounted' /\ WithinCredit' /\ GapsAreRetained'
    BY <1>3, <2>1, <2>2 DEF SendInv, CacheAccounted, WithinCredit, GapsAreRetained
  <2>. QED
    BY <2>3, <2>4, <2>5 DEF SendInv
<1>5. CASE ~subsumes(reinjection_cache, gaps, ack)
  <2>1. /\ reinjection_cache' = CacheAfter(ack)
        /\ reinjection_bytes' = Monus(reinjection_bytes, ReleasedBytes(ack))
        /\ gaps' = GapsAfter(ack)
    BY <1>5 DEF apply_stream_ack
  <2>2. /\ Retained' = Retained \ A
        /\ reinjection_cache' \in SUBSET RangesBelow(U64Max)
        /\ Disjoint(reinjection_cache')
    BY <2>1, CacheAfterExact DEF Retained
  <2>3. /\ Cardinality(Retained \ A) = reinjection_bytes - ReleasedBytes(ack)
        /\ ReleasedBytes(ack) \in Nat /\ ReleasedBytes(ack) <= reinjection_bytes
    <3>1. IsFiniteSet(Retained) /\ reinjection_bytes = Cardinality(Retained)
      BY RetainedFinite DEF SendInv, CacheAccounted
    <3>2. IsFiniteSet(Retained \cap A) /\ Cardinality(Retained \cap A) <= Cardinality(Retained)
      BY <3>1, FS_Intersection
    <3>3. Cardinality(Retained \ A) = Cardinality(Retained) - Cardinality(Retained \cap A)
      BY <3>1, FS_Difference, Zenon
    <3>4. Cardinality(Retained \cap A) \in Nat
      BY <3>2, FS_CardinalityType
    <3>. QED
      BY <3>1, <3>2, <3>3, <3>4 DEF ReleasedBytes
  <2>4. reinjection_bytes' = reinjection_bytes - ReleasedBytes(ack)
    BY <1>1, <2>1, <2>3 DEF Monus
  <2>5. /\ Covered(gaps') \in SUBSET Retained'
        /\ gaps' \in SUBSET RangesBelow(U64Max)
        /\ Canonical(gaps')
    <3>. DEFINE G == offset_ranges_not_covered(gaps, ack.ranges)
                I == InScope(CacheAfter(ack), ack)
    <3>1. gaps \in SUBSET RangesBelow(U64Max) /\ Covered(gaps) \in SUBSET Retained
      BY DEF SendInv, SendTypeOK, GapsAreRetained
    <3>2. Covered(G) = Covered(gaps) \ A /\ G \in SUBSET RangesBelow(U64Max)
      BY <1>1, <3>1, NotCoveredExact, Zenon
    <3>3. Covered(I) \in SUBSET (Retained \ A) /\ I \in SUBSET RangesBelow(U64Max)
      BY InScopeRetained, CacheAfterExact
    <3>4. G \cup I \in SUBSET RangesBelow(U64Max)
      BY <3>2, <3>3
    <3>5. Covered(G \cup I) = Covered(G) \cup Covered(I)
      BY DEF Covered
    <3>6. gaps' = normalize_offset_ranges(G \cup I)
      BY <2>1 DEF GapsAfter
    <3>7. /\ Covered(gaps') = Covered(G \cup I)
          /\ gaps' \in SUBSET RangesBelow(U64Max) /\ Canonical(gaps')
      BY <1>1, <3>4, <3>6, NormalizeExact, Zenon
    <3>. QED
      BY <2>2, <3>1, <3>2, <3>3, <3>5, <3>7
  <2>6. SendTypeOK'
    BY <1>1, <1>3, <2>2, <2>3, <2>4, <2>5 DEF SendInv, SendTypeOK
  <2>7. RetainedUntilAcked'
    BY <1>2, <1>3, <2>2 DEF SendInv, RetainedUntilAcked
  <2>8. CacheAccounted'
    BY <2>2, <2>3, <2>4 DEF CacheAccounted
  <2>9. WithinCredit'
    BY <1>1, <1>3, <2>3, <2>4 DEF SendInv, WithinCredit
  <2>10. GapsAreRetained'
    BY <2>5 DEF GapsAreRetained
  <2>. QED
    BY <2>6, <2>7, <2>8, <2>9, <2>10 DEF SendInv
<1>. QED
  BY <1>4, <1>5

-----------------------------------------------------------------------------
\* The initial states satisfy the inductive invariant.
LEMMA InitSendInv == SendInit => SendInv
<1>. SUFFICES ASSUME SendInit PROVE SendInv
  OBVIOUS
<1>2. U64Max \in Nat /\ max_repair_bytes \in Nat
  BY SendLimits
<1>3. Covered({}) = {} /\ Cardinality({}) = 0
  BY FS_EmptySet DEF Covered
<1>4. SendTypeOK /\ WithinCredit
  BY <1>2 DEF SendInit, SendTypeOK, WithinCredit
<1>5. Retained = {} /\ 0 .. send_next - 1 = {}
  BY <1>3 DEF SendInit, Retained
<1>6. RetainedUntilAcked /\ CacheAccounted /\ GapsAreRetained
  BY <1>3, <1>5 DEF SendInit, RetainedUntilAcked, CacheAccounted, GapsAreRetained, Disjoint,
                    Canonical
<1>. QED
  BY <1>4, <1>6 DEF SendInv

\* Every step of the send half preserves it.
LEMMA NextSendInv == SendInv /\ [SendNext]_send_vars => SendInv'
<1>. SUFFICES ASSUME SendInv, [SendNext]_send_vars PROVE SendInv'
  OBVIOUS
<1>2. CASE UNCHANGED send_vars
  BY <1>2 DEF send_vars, SendInv, SendTypeOK, RetainedUntilAcked, CacheAccounted, WithinCredit,
              GapsAreRetained, Retained
<1>3. CASE \E m \in 0 .. U64Max : update_max_offset(m)
  BY <1>3, CreditPreserves
<1>4. CASE \E len \in 1 .. U64Max : send_data(len)
  BY <1>4, SendPreserves
<1>5. CASE \E len \in 1 .. U64Max : send_data_refused(len)
  BY <1>5, RefusedPreserves
<1>6. CASE \E ack \in Acks : apply_stream_ack(ack)
  BY <1>6, AckLists, AckPreserves
<1>. QED
  BY <1>2, <1>3, <1>4, <1>5, <1>6 DEF SendNext

\* Hence it holds in every reachable state.
LEMMA InvariantHolds == SendSpec => []SendInv
BY InitSendInv, NextSendInv, PTL DEF SendSpec

\* The state of the send half is always well formed: offsets, counters, the
\* cache and the snapshot stay in their types (mux/stream.rs).
THEOREM TypeCorrect == SendSpec => []SendTypeOK
<1>1. SendInv => SendTypeOK
  BY DEF SendInv
<1>. QED
  BY <1>1, InvariantHolds, PTL

\* Every assigned byte is retained for reinjection exactly until a Data ACK
\* lists it, over every history of assignments, rollbacks, credit and ACKs.
THEOREM NoByteForgotten == SendSpec => []RetainedUntilAcked
<1>1. SendInv => RetainedUntilAcked
  BY DEF SendInv
<1>. QED
  BY <1>1, InvariantHolds, PTL

\* The retained-bytes counter that admission trusts is exact, and the cached
\* chunks never overlap, although ACKs split and drop them.
THEOREM CounterExact == SendSpec => []CacheAccounted
<1>1. SendInv => CacheAccounted
  BY DEF SendInv
<1>. QED
  BY <1>1, InvariantHolds, PTL

\* The peer's credit and the repair budget are never exceeded.
THEOREM CreditNeverExceeded == SendSpec => []WithinCredit
<1>1. SendInv => WithinCredit
  BY DEF SendInv
<1>. QED
  BY <1>1, InvariantHolds, PTL

\* What the ACK snapshot calls missing is retained and can be sent again.
THEOREM GapsRecoverable == SendSpec => []GapsAreRetained
<1>1. SendInv => GapsAreRetained
  BY DEF SendInv
<1>. QED
  BY <1>1, InvariantHolds, PTL

-----------------------------------------------------------------------------
\* The frontier is the least retained offset, or the end of what is assigned.
FrontierIsLeast ==
  /\ data_ack_frontier \in Nat
  /\ data_ack_frontier \in Retained \/ data_ack_frontier = send_next
  /\ data_ack_frontier <= send_next
  /\ \A x \in Retained : data_ack_frontier <= x

\* That is what data_ack_frontier computes from the first key of the cache.
LEMMA FrontierLeast == SendInv => FrontierIsLeast
<1>. SUFFICES ASSUME SendInv PROVE FrontierIsLeast
  OBVIOUS
<1>. DEFINE starts == {c.start : c \in reinjection_cache}
<1>1. \A c \in reinjection_cache : c.start \in Nat /\ c.end \in Nat /\ c.start < c.end
  BY SendLimits DEF SendInv, SendTypeOK, RangesBelow
<1>2. send_next \in Nat /\ Retained \in SUBSET (0 .. send_next - 1)
  BY RetainedFinite DEF SendInv, SendTypeOK
<1>3. CASE reinjection_cache = {}
  <2>1. Retained = {}
    BY <1>3 DEF Retained, Covered
  <2>2. data_ack_frontier = send_next
    BY <1>3 DEF data_ack_frontier
  <2>. QED
    BY <1>2, <2>1, <2>2 DEF FrontierIsLeast
<1>4. CASE reinjection_cache # {}
  <2>1. starts \in SUBSET Nat /\ starts # {}
    BY <1>1, <1>4, Zenon
  <2>2. \E x \in starts : \A y \in starts : x <= y
    BY <2>1, LeastNatural, Zenon
  <2>3. Min(starts) \in starts /\ \A y \in starts : Min(starts) <= y
    BY <2>2, Zenon DEF Min
  <2>4. data_ack_frontier = Min(starts)
    BY <1>4 DEF data_ack_frontier
  <2>5. PICK c \in reinjection_cache : Min(starts) = c.start
    BY <2>3, Zenon
  <2>6. c.start \in Retained
    BY <1>1 DEF Retained, Covered, Bytes
  <2>7. ASSUME NEW x \in Retained PROVE Min(starts) <= x
    <3>1. PICK d \in reinjection_cache : x \in Bytes(d)
      BY DEF Retained, Covered
    <3>2. d.start <= x /\ x \in Int
      BY <1>1, <3>1 DEF Bytes
    <3>3. Min(starts) <= d.start
      BY <2>3, Zenon
    <3>. QED
      BY <1>1, <2>5, <3>2, <3>3
  <2>. QED
    BY <1>2, <2>1, <2>3, <2>4, <2>5, <2>6, <2>7 DEF FrontierIsLeast
<1>. QED
  BY <1>3, <1>4

\* A step retains nothing new below the bytes that were already assigned.
LEMMA NoOldByteReturns ==
  ASSUME SendInv, SendNext
  PROVE  /\ send_next' >= send_next
         /\ \A x \in Retained' : x \in Retained \/ x >= send_next
<1>1. send_next \in Nat
  BY DEF SendInv, SendTypeOK
<1>2. CASE \E m \in 0 .. U64Max : update_max_offset(m)
  BY <1>1, <1>2 DEF update_max_offset, Retained
<1>3. ASSUME NEW len \in 1 .. U64Max, send_data(len)
      PROVE  /\ send_next' >= send_next
             /\ \A x \in Retained' : x \in Retained \/ x >= send_next
  <2>1. len \in Nat /\ len > 0
    BY SendLimits
  <2>2. /\ send_next' = send_next + len
        /\ reinjection_cache' = reinjection_cache \cup {Prepared(len)}
    BY <1>3 DEF send_data, BecomesStream, commit_prepared_data, Stream, Prepared, OffsetRange
  <2>3. Bytes(Prepared(len)) = send_next .. send_next + len - 1
    BY <1>1, <2>1 DEF Bytes, Prepared, OffsetRange
  <2>4. Retained' = Retained \cup (send_next .. send_next + len - 1)
    BY <2>2, <2>3, CoveredAdd, Zenon DEF Retained
  <2>. QED
    BY <1>1, <2>1, <2>2, <2>4
<1>4. ASSUME NEW len \in 1 .. U64Max, send_data_refused(len)
      PROVE  send_next' = send_next /\ Retained' = Retained
  <2>1. len \in Nat
    BY SendLimits
  <2>2. UNCHANGED send_vars
    BY <1>4, <2>1, RefusedPreserves
  <2>. QED
    BY <2>2 DEF send_vars, Retained
<1>5. ASSUME NEW ack \in Acks, apply_stream_ack(ack)
      PROVE  send_next' = send_next /\ Retained' \subseteq Retained
  <2>1. send_next' = send_next
    BY <1>5 DEF apply_stream_ack
  <2>2. reinjection_cache' = reinjection_cache \/ reinjection_cache' = CacheAfter(ack)
    BY <1>5 DEF apply_stream_ack
  <2>3. Covered(CacheAfter(ack)) \subseteq Retained
    BY CacheAfterExact
  <2>. QED
    BY <2>1, <2>2, <2>3 DEF Retained
<1>. QED
  BY <1>1, <1>2, <1>3, <1>4, <1>5 DEF SendNext

\* The lowest unacknowledged offset never moves back, which the frontier timers
\* of both relay actors take for granted.
THEOREM FrontierNeverMovesBack == SendSpec => FrontierMonotone
<1>1. SendInv' => FrontierIsLeast'
  BY FrontierLeast, PTL
<1>2. SendInv /\ SendInv' /\ [SendNext]_send_vars => [data_ack_frontier' >= data_ack_frontier]_send_vars
  <2>. SUFFICES ASSUME SendInv, SendInv', SendNext
                PROVE  data_ack_frontier' >= data_ack_frontier
    OBVIOUS
  <2>1. FrontierIsLeast /\ FrontierIsLeast'
    BY <1>1, FrontierLeast
  <2>2. /\ send_next' >= send_next
        /\ \A x \in Retained' : x \in Retained \/ x >= send_next
    BY NoOldByteReturns
  <2>3. send_next \in Nat /\ send_next' \in Nat /\ Retained' \in SUBSET Nat
    <3>1. send_next \in Nat /\ send_next' \in Nat
      BY DEF SendInv, SendTypeOK
    <3>2. Retained' \in SUBSET (0 .. send_next' - 1)
      BY DEF SendInv, RetainedUntilAcked
    <3>3. \A n \in Nat : 0 .. n - 1 \in SUBSET Nat
      OBVIOUS
    <3>. QED
      BY <3>1, <3>2, <3>3, Zenon
  <2>. QED
    BY <2>1, <2>2, <2>3 DEF FrontierIsLeast
<1>. QED
  BY <1>2, InvariantHolds, PTL DEF SendSpec, FrontierMonotone

-----------------------------------------------------------------------------
(* What an ACK leaves behind *)

\* The bytes an ACK speaks for.
ScopeBytes(ack) == IF ack.scope_start = NoScope THEN {} ELSE Bytes(ScopeOf(ack))

\* The retained ranges of a scope cover what is retained in it.
LEMMA InScopeExact ==
  ASSUME NEW C \in SUBSET RangesBelow(U64Max), NEW ack
  PROVE  Covered(InScope(C, ack)) = Covered(C) \cap ScopeBytes(ack)
<1>1. U64Max \in Nat
  BY SendLimits
<1>2. CASE ack.scope_start = NoScope
  BY <1>2 DEF InScope, ScopeBytes, Covered
<1>3. CASE ack.scope_start # NoScope
  <2>. DEFINE S == Covered(C) \cap ScopeBytes(ack)
  <2>1. Covered(C) \in SUBSET (0 .. U64Max - 1)
    BY <1>1, CoveredType
  <2>2. S \in SUBSET (0 .. U64Max)
    BY <1>1, <2>1
  <2>3. InScope(C, ack) = Runs(S)
    BY <1>3 DEF InScope, retained_ranges_in_scope, ScopeBytes
  <2>. HIDE DEF S
  <2>4. Covered(Runs(S)) = S
    BY <1>1, <2>2, RunsCover
  <2>. QED
    BY <2>3, <2>4 DEF S
<1>. QED
  BY <1>2, <1>3

\* The snapshot after an ACK: what was missing and what the scope leaves out,
\* without what the ACK lists.
LEMMA GapsAfterExact ==
  ASSUME SendInv, NEW ack
  PROVE  /\ Covered(GapsAfter(ack))
              = (Covered(gaps) \ Covered(ack.ranges))
                  \cup ((Retained \ Covered(ack.ranges)) \cap ScopeBytes(ack))
         /\ GapsAfter(ack) \in SUBSET RangesBelow(U64Max)
         /\ Canonical(GapsAfter(ack))
<1>. DEFINE R == Covered(ack.ranges)
            G == offset_ranges_not_covered(gaps, ack.ranges)
            I == InScope(CacheAfter(ack), ack)
<1>1. U64Max \in Nat /\ gaps \in SUBSET RangesBelow(U64Max)
  BY SendLimits DEF SendInv, SendTypeOK
<1>2. Covered(G) = Covered(gaps) \ R /\ G \in SUBSET RangesBelow(U64Max)
  BY <1>1, NotCoveredExact, Zenon
<1>3. /\ Covered(CacheAfter(ack)) = Retained \ R
      /\ CacheAfter(ack) \in SUBSET RangesBelow(U64Max)
  BY CacheAfterExact
<1>4. I \in SUBSET RangesBelow(U64Max) /\ Covered(I) = (Retained \ R) \cap ScopeBytes(ack)
  BY <1>3, InScopeRetained, InScopeExact
<1>5. Covered(G \cup I) = Covered(G) \cup Covered(I)
  BY DEF Covered
<1>6. G \cup I \in SUBSET RangesBelow(U64Max)
  BY <1>2, <1>4
<1>7. /\ Covered(GapsAfter(ack)) = Covered(G \cup I)
      /\ GapsAfter(ack) \in SUBSET RangesBelow(U64Max)
      /\ Canonical(GapsAfter(ack))
  BY <1>1, <1>6, NormalizeExact, Zenon DEF GapsAfter
<1>. QED
  BY <1>2, <1>4, <1>5, <1>7

\* After any ACK the missing set is the one the protocol defines (RFC section
\* 8.3): what was missing or is newly left out by the scope, and is still not
\* acknowledged (AuthoritativeStreamAckSnapshot::update).
THEOREM MissingSetAlwaysExact == SendSpec => []MissingSetExact
<1>1. SendInv => MissingSetExact
  <2>. SUFFICES ASSUME SendInv, NEW ack \in Acceptable
                PROVE  LET S == IF ack.scope_start = NoScope THEN {} ELSE Bytes(ScopeOf(ack))
                            R == Covered(ack.ranges)
                            U == (0 .. send_next - 1) \ (acked \cup R)
                        IN Covered(GapsAfter(ack)) = (Covered(gaps) \cup (S \ R)) \cap U
    BY DEF MissingSetExact
  <2>. DEFINE S == IF ack.scope_start = NoScope THEN {} ELSE Bytes(ScopeOf(ack))
              R == Covered(ack.ranges)
              U == (0 .. send_next - 1) \ (acked \cup R)
  <2>1. Covered(gaps) \in SUBSET Retained
    BY DEF SendInv, GapsAreRetained
  <2>2. U = Retained \ R
    BY DEF SendInv, RetainedUntilAcked
  <2>3. S = ScopeBytes(ack)
    BY DEF ScopeBytes
  <2>4. Covered(GapsAfter(ack)) = (Covered(gaps) \cup (S \ R)) \cap U
    <3>. HIDE DEF S, R, U
    <3>1. Covered(GapsAfter(ack)) = (Covered(gaps) \ R) \cup ((Retained \ R) \cap S)
      BY <2>3, GapsAfterExact DEF R
    <3>. QED
      BY <2>1, <2>2, <3>1
  <2>. QED
    BY <2>4
<1>. QED
  BY <1>1, InvariantHolds, PTL

\* A range is the only run of its bytes.
LEMMA RunsOfRange ==
  ASSUME NEW n \in Nat, NEW r \in RangesBelow(n)
  PROVE  Runs(Bytes(r)) = {r}
<1>1. /\ r.start \in 0 .. n /\ r.end \in 0 .. n /\ r.start < r.end
      /\ r = OffsetRange(r.start, r.end)
  BY DEF RangesBelow, OffsetRange
<1>2. Bytes(r) = r.start .. r.end - 1 /\ Bytes(r) \in SUBSET Int
  BY <1>1 DEF Bytes
<1>3. ASSUME NEW q \in Runs(Bytes(r)) PROVE q = r
  <2>1. PICK a \in Bytes(r), b \in Bytes(r) :
          /\ q = OffsetRange(a, b + 1) /\ a <= b
          /\ a - 1 \notin Bytes(r) /\ b + 1 \notin Bytes(r)
    BY <1>2, RunsElement, Zenon
  <2>2. a = r.start /\ b + 1 = r.end
    BY <1>1, <1>2, <2>1
  <2>. QED
    BY <1>1, <2>1, <2>2
<1>4. r \in Runs(Bytes(r))
  <2>1. r.start \in Bytes(r) /\ r.end - 1 \in Bytes(r) /\ r = OffsetRange(r.start, (r.end - 1) + 1)
    BY <1>1, <1>2
  <2>2. r.start - 1 \notin Bytes(r) /\ r.end \notin Bytes(r)
    BY <1>1, <1>2
  <2>. QED
    BY <1>1, <2>1, <2>2 DEF Runs
<1>. QED
  BY <1>3, <1>4

\* Canonical ranges are the runs of the bytes they cover.
LEMMA RunsOfCanonical ==
  ASSUME NEW n \in Nat, NEW R \in SUBSET RangesBelow(n), Canonical(R)
  PROVE  Runs(Covered(R)) = R
<1>. DEFINE S == Covered(R)
<1>1. /\ \A r \in R : r.start \in Nat /\ r.end \in Nat /\ r.start < r.end
      /\ \A r \in R : r = OffsetRange(r.start, r.end)
  BY DEF RangesBelow, OffsetRange
<1>2. S \in SUBSET (0 .. n - 1) /\ S \in SUBSET Int
  <2>1. S \in SUBSET (0 .. n - 1)
    BY CoveredType
  <2>. QED
    BY <2>1
<1>3. ASSUME NEW r \in R PROVE r \in Runs(S)
  <2>1. Bytes(r) \subseteq S
    BY DEF Covered
  <2>2. r.start \in S /\ r.end - 1 \in S /\ r = OffsetRange(r.start, (r.end - 1) + 1)
    BY <1>1, <2>1 DEF Bytes
  <2>3. ASSUME NEW x \in S, x = r.start - 1 \/ x = r.end PROVE FALSE
    <3>1. PICK q \in R : x \in Bytes(q)
      BY InCovered
    <3>2. q.start <= x /\ x < q.end /\ x \in Int
      BY <1>1, <3>1 DEF Bytes
    <3>3. q # r
      BY <1>1, <2>3, <3>2
    <3>4. q.end < r.start \/ r.end < q.start
      BY <3>3 DEF Canonical
    <3>. QED
      BY <1>1, <2>3, <3>2, <3>4
  <2>4. r.start - 1 \notin S /\ r.end \notin S
    BY <2>3
  <2>. HIDE DEF S
  <2>. QED
    BY <1>1, <2>1, <2>2, <2>4 DEF Runs
<1>4. ASSUME NEW q \in Runs(S) PROVE q \in R
  <2>1. PICK a \in S, b \in S :
          /\ q = OffsetRange(a, b + 1) /\ a <= b
          /\ a .. b \subseteq S /\ a - 1 \notin S /\ b + 1 \notin S
    BY <1>2, RunsElement, Zenon
  <2>2. PICK r \in R : a \in Bytes(r)
    BY InCovered
  <2>3. r \in Runs(S)
    BY <1>3
  <2>4. Canonical(Runs(S))
    BY <1>2, RunsCanonical
  <2>5. /\ q.start = a /\ q.end = b + 1 /\ a \in Int /\ b \in Int
    BY <1>2, <2>1 DEF OffsetRange
  <2>6. r.start <= a /\ a < r.end
    BY <1>1, <2>2, <2>5 DEF Bytes
  <2>7. ~(q.end < r.start) /\ ~(r.end < q.start)
    BY <1>1, <2>1, <2>5, <2>6
  <2>8. q = r
    BY <2>3, <2>4, <2>7 DEF Canonical
  <2>. QED
    BY <2>8
<1>. QED
  BY <1>3, <1>4

\* Where a set of bytes stops, a run of it ends.
LEMMA RunEnds ==
  ASSUME NEW n \in Nat, NEW S \in SUBSET (0 .. n), NEW y \in S, y + 1 \notin S
  PROVE  \E r \in Runs(S) : r.end = y + 1 /\ y \in Bytes(r)
<1>1. PICK r \in Runs(S) : y \in Bytes(r)
  <2>1. Covered(Runs(S)) = S
    BY RunsCover, Zenon
  <2>2. y \in Covered(Runs(S))
    BY <2>1
  <2>. QED
    BY <2>2, InCovered
<1>2. S \in SUBSET Int
  OBVIOUS
<1>3. PICK a \in S, b \in S :
        /\ r = OffsetRange(a, b + 1) /\ a <= b
        /\ a .. b \subseteq S /\ a - 1 \notin S /\ b + 1 \notin S
  BY <1>2, RunsElement, Zenon
<1>4. a \in Int /\ b \in Int /\ r.start = a /\ r.end = b + 1 /\ y \in Int /\ y <= b
  BY <1>1, <1>2, <1>3 DEF OffsetRange, Bytes
<1>5. b = y
  BY <1>1, <1>3, <1>4 DEF Bytes
<1>. QED
  BY <1>1, <1>4, <1>5

\* Ranges that cover nothing are none.
LEMMA NothingCovered ==
  ASSUME NEW n \in Nat, NEW R \in SUBSET RangesBelow(n), Covered(R) = {}
  PROVE  R = {}
<1>1. \A r \in R : r.start \in Bytes(r)
  BY DEF RangesBelow, Bytes
<1>. QED
  BY <1>1 DEF Covered

\* The values of a map on a finite set are no more than its arguments.
LEMMA ImageSize ==
  ASSUME NEW S, IsFiniteSet(S), NEW f, DOMAIN f = S
  PROVE  LET T == {f[x] : x \in S}
         IN IsFiniteSet(T) /\ Cardinality(T) \in Nat /\ Cardinality(T) <= Cardinality(S)
<1>. DEFINE T == {f[x] : x \in S}
            g == [x \in S |-> f[x]]
<1>1. g \in Surjection(S, T)
  BY DEF Surjection
<1>. HIDE DEF g, T
<1>2. IsFiniteSet(T) /\ Cardinality(T) <= Cardinality(S)
  BY <1>1, FS_Surjection
<1>. QED
  BY <1>2, FS_CardinalityType DEF T

\* Disjoint ranges cut into pieces: there are no more pieces than ranges and
\* cuts together.
LEMMA PiecesBound ==
  ASSUME NEW n \in Nat, NEW R \in SUBSET RangesBelow(n), Disjoint(R),
         NEW C \in SUBSET RangesBelow(n)
  PROVE  LET P == offset_ranges_not_covered(R, C)
             Q == normalize_offset_ranges(C)
         IN Cardinality(P) <= Cardinality(R) + Cardinality(Q)
<1>. DEFINE P == offset_ranges_not_covered(R, C)
            Q == normalize_offset_ranges(C)
            E == {r.end : r \in R}
            F == {q.start : q \in Q}
<1>1. P \in SUBSET RangesBelow(n) /\ Disjoint(P)
  BY NotCoveredExact, NotCoveredDisjoint
<1>2. /\ Q \in SUBSET RangesBelow(n) /\ Canonical(Q) /\ Covered(Q) = Covered(C)
  BY NormalizeExact
<1>3. /\ \A r \in R : r.start \in 0 .. n /\ r.end \in 0 .. n /\ r.start < r.end
      /\ \A r \in P : r.start \in 0 .. n /\ r.end \in 0 .. n /\ r.start < r.end
      /\ \A r \in Q : r.start \in 0 .. n /\ r.end \in 0 .. n /\ r.start < r.end
  BY <1>1, <1>2 DEF RangesBelow
<1>4. ASSUME NEW p \in P PROVE p.end \in E \cup F
  <2>1. PICK r \in R : p \in Runs(Bytes(r) \ Covered(C))
    BY DEF offset_ranges_not_covered
  <2>. DEFINE S == Bytes(r) \ Covered(C)
  <2>2. S \in SUBSET Int /\ Bytes(r) = r.start .. r.end - 1
    BY <1>3 DEF Bytes
  <2>3. PICK a \in S, b \in S :
          /\ p = OffsetRange(a, b + 1) /\ a <= b
          /\ a .. b \subseteq S /\ a - 1 \notin S /\ b + 1 \notin S
    BY <2>1, <2>2, RunsElement, Zenon
  <2>4. p.end = b + 1 /\ b \in Int /\ r.start <= b /\ b < r.end
    BY <1>3, <2>2, <2>3 DEF OffsetRange
  <2>5. CASE p.end = r.end
    BY <2>5
  <2>6. CASE p.end # r.end
    <3>1. b + 1 \in Bytes(r)
      BY <1>3, <2>2, <2>4, <2>6
    <3>2. b + 1 \in Covered(Q) /\ b \notin Covered(Q)
      BY <1>2, <2>3, <3>1
    <3>3. PICK q \in Q : b + 1 \in Bytes(q)
      BY <3>2, InCovered
    <3>4. b \notin Bytes(q)
      BY <3>2, InCovered
    <3>5. q.start = b + 1
      BY <1>3, <2>4, <3>3, <3>4 DEF Bytes
    <3>. QED
      BY <2>4, <3>5
  <2>. QED
    BY <2>5, <2>6
<1>5. \A p, q \in P : p.end = q.end => p = q
  BY <1>1, <1>3 DEF Disjoint
<1>6. Disjoint(Q)
  BY <1>2, <1>3 DEF Canonical, Disjoint
<1>7. /\ IsFiniteSet(R) /\ Cardinality(R) \in Nat /\ IsFiniteSet(Q) /\ Cardinality(Q) \in Nat
  BY <1>3, <1>6, DisjointFinite
<1>. DEFINE e == [r \in R |-> r.end]
            s == [q \in Q |-> q.start]
<1>8. E = {e[r] : r \in R} /\ F = {s[q] : q \in Q}
  OBVIOUS
<1>9. /\ IsFiniteSet(E) /\ Cardinality(E) \in Nat /\ Cardinality(E) <= Cardinality(R)
      /\ IsFiniteSet(F) /\ Cardinality(F) \in Nat /\ Cardinality(F) <= Cardinality(Q)
  <2>1. DOMAIN e = R /\ DOMAIN s = Q
    OBVIOUS
  <2>. HIDE DEF e, s, E, F, Q
  <2>. QED
    BY <1>7, <1>8, <2>1, ImageSize
<1>. DEFINE f == [p \in P |-> p.end]
<1>10. f \in Injection(P, E \cup F)
  <2>. HIDE DEF E, F, P
  <2>. QED
    BY <1>4, <1>5 DEF Injection, IsInjective
<1>. HIDE DEF E, F, P, Q, f
<1>11. /\ IsFiniteSet(E \cup F)
       /\ Cardinality(E \cup F) = Cardinality(E) + Cardinality(F) - Cardinality(E \cap F)
  BY <1>9, FS_Union
<1>12. IsFiniteSet(P) /\ Cardinality(P) <= Cardinality(E \cup F)
  BY <1>10, <1>11, FS_Injection
<1>13. Cardinality(E \cap F) \in Nat /\ Cardinality(P) \in Nat
  BY <1>9, <1>12, FS_Intersection, FS_CardinalityType, Zenon
<1>14. Cardinality(P) <= Cardinality(R) + Cardinality(Q)
  BY <1>7, <1>9, <1>11, <1>12, <1>13
<1>. QED
  BY <1>14 DEF P, Q

\* The scope of an accepted ACK ends right after a byte it lists.
LEMMA ScopeEnd ==
  ASSUME SendInv, NEW ack \in Acks, validate_stream_ack(ack), ack.scope_start # NoScope
  PROVE  /\ ack.scope_start \in Nat
         /\ ScopeOf(ack).start = ack.scope_start
         /\ ScopeOf(ack).end \in 1 .. send_next
         /\ ScopeOf(ack).end - 1 \in Covered(ack.ranges)
<1>. DEFINE N == normalize_offset_ranges(ack.ranges)
            E == {r.end : r \in N}
<1>1. U64Max \in Nat /\ send_next \in Nat
  BY SendLimits DEF SendInv, SendTypeOK
<1>2. /\ ack.ranges \in SUBSET RangesBelow(U64Max)
      /\ Covered(ack.ranges) \in SUBSET (0 .. send_next - 1)
  BY AckLists, AckRangesBelow
<1>3. ack.scope_start \in Nat
  BY SendLimits DEF Acks, Ack, NoScope
<1>4. N \in SUBSET RangesBelow(U64Max) /\ Covered(N) = Covered(ack.ranges)
  BY <1>1, <1>2, NormalizeExact
<1>5. N # {}
  <2>1. PICK r \in ack.ranges : TRUE
    BY DEF validate_stream_ack
  <2>2. r.start \in Bytes(r)
    BY <1>2 DEF RangesBelow, Bytes
  <2>3. Covered(N) # {}
    BY <1>4, <2>2 DEF Covered
  <2>. QED
    BY <2>3 DEF Covered
<1>6. \A r \in N : r.start \in 0 .. U64Max /\ r.end \in 0 .. U64Max /\ r.start < r.end
  BY <1>4 DEF RangesBelow
<1>7. E \in SUBSET (0 .. U64Max) /\ E # {}
  BY <1>5, <1>6
<1>8. Max(E) \in E
  <2>. HIDE DEF E
  <2>. QED
    BY <1>1, <1>7, MinMax, Zenon
<1>9. PICK r \in N : r.end = Max(E)
  BY <1>8
<1>10. Max(E) - 1 \in Bytes(r)
  BY <1>6, <1>9 DEF Bytes
<1>11. Max(E) - 1 \in Covered(ack.ranges)
  BY <1>4, <1>10, InCovered
<1>12. Max(E) \in 1 .. send_next
  <2>1. Max(E) \in Int /\ Max(E) - 1 \in 0 .. send_next - 1
    BY <1>2, <1>6, <1>9, <1>11
  <2>. QED
    BY <1>1, <2>1
<1>13. ScopeOf(ack) = OffsetRange(ack.scope_start, Max(E))
  BY DEF ScopeOf
<1>. QED
  BY <1>3, <1>11, <1>12, <1>13 DEF OffsetRange

\* An ACK reports a byte as missing only below one it lists, so every gap it
\* leaves ends at an acknowledged byte.
LEMMA GapsEndAcked ==
  ASSUME SendInv, \A g \in gaps : g.end \in acked,
         NEW ack \in Acks, validate_stream_ack(ack), NEW g \in GapsAfter(ack)
  PROVE  g.end \in acked \cup Covered(ack.ranges)
<1>. DEFINE A == Covered(ack.ranges)
            G == Covered(GapsAfter(ack))
            y == g.end - 1
<1>1. U64Max \in Nat /\ send_next \in Nat /\ gaps \in SUBSET RangesBelow(U64Max)
  BY SendLimits DEF SendInv, SendTypeOK
<1>2. /\ G = (Covered(gaps) \ A) \cup ((Retained \ A) \cap ScopeBytes(ack))
      /\ GapsAfter(ack) \in SUBSET RangesBelow(U64Max)
      /\ Canonical(GapsAfter(ack))
  BY GapsAfterExact
<1>3. g.start \in Nat /\ g.end \in Nat /\ g.start < g.end
  BY <1>2 DEF RangesBelow
<1>4. y \in G
  <2>1. y \in Bytes(g)
    BY <1>3 DEF Bytes
  <2>. QED
    BY <2>1, InCovered
<1>5. g.end \notin G
  <2>1. g \in Runs(G)
    BY <1>1, <1>2, RunsOfCanonical
  <2>. QED
    BY <2>1, RunsMember
<1>6. CASE y \in Covered(gaps) \ A
  <2>1. PICK h \in gaps : y \in Bytes(h)
    BY <1>6, InCovered
  <2>2. h.start \in Nat /\ h.end \in Nat /\ h.start <= y /\ y < h.end
    BY <1>1, <1>3, <2>1 DEF RangesBelow, Bytes
  <2>3. CASE g.end = h.end
    BY <2>3
  <2>4. CASE g.end # h.end
    <3>1. g.end \in Bytes(h)
      BY <1>3, <2>2, <2>4 DEF Bytes
    <3>2. g.end \in Covered(gaps)
      BY <3>1, InCovered
    <3>. QED
      BY <1>2, <1>5, <3>2
  <2>. QED
    BY <2>3, <2>4
<1>7. CASE y \in (Retained \ A) \cap ScopeBytes(ack)
  <2>1. ack.scope_start # NoScope /\ ScopeBytes(ack) = Bytes(ScopeOf(ack))
    BY <1>7 DEF ScopeBytes
  <2>. DEFINE e == ScopeOf(ack).end
  <2>2. /\ ack.scope_start \in Nat /\ e \in 1 .. send_next /\ e - 1 \in A
        /\ ScopeBytes(ack) = ack.scope_start .. e - 1
    BY <2>1, ScopeEnd DEF Bytes
  <2>. HIDE DEF e
  <2>3. g.end < e /\ ack.scope_start < g.end
    <3>1. y # e - 1
      BY <1>7, <2>2
    <3>. QED
      BY <1>3, <1>7, <2>2, <3>1
  <2>4. g.end \in ScopeBytes(ack) /\ g.end \in 0 .. send_next - 1
    BY <1>1, <1>3, <2>2, <2>3
  <2>5. g.end \in Retained \cup acked
    BY <2>4 DEF SendInv, RetainedUntilAcked
  <2>. QED
    BY <1>2, <1>5, <2>4, <2>5
<1>. QED
  BY <1>2, <1>4, <1>6, <1>7

\* The ceiling on cached chunks holds after an ACK that is not refused, also
\* when the cheap bound of apply_normalized_ack skipped the exact count.
LEMMA ChunksWithinLimit ==
  ASSUME SendInv, Cardinality(reinjection_cache) <= max_reinjection_cache_chunks,
         NEW ack \in Acks, validate_stream_ack(ack), ~TooManyReinjectionCacheChunks(ack)
  PROVE  Cardinality(CacheAfter(ack)) <= max_reinjection_cache_chunks
<1>. DEFINE N == normalize_offset_ranges(ack.ranges)
<1>1. /\ U64Max \in Nat /\ max_reinjection_cache_chunks \in Nat
      /\ reinjection_cache \in SUBSET RangesBelow(U64Max) /\ Disjoint(reinjection_cache)
  BY SendLimits DEF SendInv, SendTypeOK, CacheAccounted
<1>2. ack.ranges \in SUBSET RangesBelow(U64Max)
  BY AckLists, AckRangesBelow
<1>3. CASE ack.ranges = {} \/ reinjection_cache = {}
  <2>1. CacheAfter(ack) \in SUBSET reinjection_cache
    <3>1. CASE reinjection_cache = {}
      BY <3>1 DEF CacheAfter, offset_ranges_not_covered
    <3>2. CASE ack.ranges = {}
      <4>1. \A c : Bytes(c) \ Covered(ack.ranges) = Bytes(c)
        BY <3>2 DEF Covered
      <4>2. \A c \in reinjection_cache : Runs(Bytes(c)) = {c}
        BY <1>1, RunsOfRange
      <4>. QED
        BY <4>1, <4>2 DEF CacheAfter, offset_ranges_not_covered
    <3>. QED
      BY <1>3, <3>1, <3>2
  <2>2. IsFiniteSet(reinjection_cache)
    <3>1. \A c \in reinjection_cache :
            c.start \in 0 .. U64Max /\ c.end \in 0 .. U64Max /\ c.start < c.end
      BY <1>1 DEF RangesBelow
    <3>. QED
      BY <1>1, <3>1, DisjointFinite
  <2>3. /\ Cardinality(CacheAfter(ack)) <= Cardinality(reinjection_cache)
        /\ Cardinality(CacheAfter(ack)) \in Nat /\ Cardinality(reinjection_cache) \in Nat
    BY <2>1, <2>2, FS_Subset, FS_CardinalityType
  <2>. QED
    BY <1>1, <2>3
<1>4. CASE ~(ack.ranges = {} \/ reinjection_cache = {})
  <2>1. Cardinality(CacheAfter(ack)) <= Cardinality(reinjection_cache) + Cardinality(N)
    BY <1>1, <1>2, PiecesBound DEF CacheAfter
  <2>2. /\ Cardinality(CacheAfter(ack)) \in Nat
        /\ Cardinality(reinjection_cache) \in Nat /\ Cardinality(N) \in Nat
    <3>1. ASSUME NEW R \in SUBSET RangesBelow(U64Max), Disjoint(R) PROVE Cardinality(R) \in Nat
      <4>1. \A c \in R : c.start \in 0 .. U64Max /\ c.end \in 0 .. U64Max /\ c.start < c.end
        BY DEF RangesBelow
      <4>. QED
        BY <1>1, <3>1, <4>1, DisjointFinite
    <3>2. CacheAfter(ack) \in SUBSET RangesBelow(U64Max) /\ Disjoint(CacheAfter(ack))
      BY CacheAfterExact
    <3>3. N \in SUBSET RangesBelow(U64Max) /\ Canonical(N)
      BY <1>1, <1>2, NormalizeExact
    <3>4. \A c \in N : c.start \in Int /\ c.end \in Int /\ c.start < c.end
      BY <3>3 DEF RangesBelow
    <3>5. Disjoint(N)
      <4>. HIDE DEF N
      <4>. QED
        BY <3>3, <3>4 DEF Canonical, Disjoint
    <3>. QED
      BY <1>1, <3>1, <3>2, <3>3, <3>5
  <2>. QED
    BY <1>1, <1>4, <2>1, <2>2 DEF TooManyReinjectionCacheChunks
<1>. QED
  BY <1>3, <1>4

\* Gaps that end at acknowledged bytes each end a component of what is
\* retained, so there are no more of them than components.
LEMMA GapsEndComponents ==
  ASSUME SendInv, \A g \in gaps : g.end \in acked
  PROVE  Cardinality(gaps) <= Cardinality(Runs(Retained))
<1>. DEFINE T == Runs(Retained)
            E == {r.end : r \in T}
<1>1. /\ U64Max \in Nat /\ gaps \in SUBSET RangesBelow(U64Max)
      /\ Covered(gaps) \in SUBSET Retained /\ Canonical(gaps)
      /\ reinjection_cache \in SUBSET RangesBelow(U64Max)
  BY SendLimits DEF SendInv, SendTypeOK, GapsAreRetained
<1>2. Retained \in SUBSET (0 .. U64Max - 1) /\ Retained \cap acked = {}
  BY <1>1, CoveredType DEF SendInv, RetainedUntilAcked, Retained
<1>3. Retained \in SUBSET (0 .. U64Max) /\ Retained \in SUBSET Int
  BY RetainedFinite
<1>4. \A g \in gaps : g.start \in Nat /\ g.end \in Nat /\ g.start < g.end
  BY <1>1 DEF RangesBelow
<1>5. T \in SUBSET RangesBelow(U64Max) /\ Canonical(T)
  BY <1>1, <1>2, <1>3, RunsType, RunsCanonical
<1>6. \A r \in T : r.start \in 0 .. U64Max /\ r.end \in 0 .. U64Max /\ r.start < r.end
  BY <1>5 DEF RangesBelow
<1>7. IsFiniteSet(T) /\ Cardinality(T) \in Nat
  <2>1. Disjoint(T)
    <3>. HIDE DEF T
    <3>. QED
      BY <1>1, <1>5, <1>6 DEF Canonical, Disjoint
  <2>. HIDE DEF T
  <2>. QED
    BY <1>1, <1>6, <2>1, DisjointFinite
<1>8. ASSUME NEW g \in gaps PROVE g.end \in E
  <2>. DEFINE y == g.end - 1
  <2>1. y \in Bytes(g) /\ y \in 0 .. U64Max /\ y + 1 = g.end
    BY <1>1, <1>4 DEF Bytes, RangesBelow
  <2>2. y \in Retained /\ y + 1 \notin Retained
    BY <1>1, <1>2, <2>1, InCovered
  <2>. HIDE DEF y
  <2>3. PICK r \in T : r.end = y + 1
    BY <1>1, <1>3, <2>2, RunEnds, Zenon
  <2>. QED
    BY <2>1, <2>3
<1>. DEFINE e == [r \in T |-> r.end]
            f == [g \in gaps |-> g.end]
<1>9. IsFiniteSet(E) /\ Cardinality(E) \in Nat /\ Cardinality(E) <= Cardinality(T)
  <2>1. DOMAIN e = T /\ E = {e[r] : r \in T}
    OBVIOUS
  <2>. HIDE DEF e, E, T
  <2>. QED
    BY <1>7, <2>1, ImageSize
<1>10. f \in Injection(gaps, E)
  <2>1. \A g, h \in gaps : g.end = h.end => g = h
    BY <1>1, <1>4 DEF Canonical
  <2>. HIDE DEF E
  <2>. QED
    BY <1>8, <2>1 DEF Injection, IsInjective
<1>. HIDE DEF E, T, f
<1>11. IsFiniteSet(gaps) /\ Cardinality(gaps) <= Cardinality(E)
  BY <1>9, <1>10, FS_Injection
<1>12. Cardinality(gaps) \in Nat
  BY <1>11, FS_CardinalityType
<1>13. Cardinality(gaps) <= Cardinality(T)
  BY <1>7, <1>9, <1>11, <1>12
<1>. QED
  BY <1>13 DEF T

\* With the ceiling and the ends of the gaps, what an ACK leaves is inductive.
AckInv ==
  /\ SendInv
  /\ Cardinality(reinjection_cache) <= max_reinjection_cache_chunks
  /\ \A g \in gaps : g.end \in acked

\* The initial states satisfy it.
LEMMA InitAckInv == SendInit => AckInv
<1>. SUFFICES ASSUME SendInit PROVE AckInv
  OBVIOUS
<1>1. SendInv
  BY InitSendInv
<1>2. Cardinality({}) <= max_reinjection_cache_chunks
  BY SendLimits, FS_EmptySet
<1>. QED
  BY <1>1, <1>2 DEF AckInv, SendInit

\* Every step preserves it.
LEMMA NextAckInv == AckInv /\ [SendNext]_send_vars => AckInv'
<1>. SUFFICES ASSUME AckInv, [SendNext]_send_vars PROVE AckInv'
  OBVIOUS
<1>1. SendInv /\ SendInv'
  BY NextSendInv DEF AckInv
<1>2. CASE UNCHANGED send_vars
  BY <1>1, <1>2 DEF AckInv, send_vars
<1>3. ASSUME NEW m \in 0 .. U64Max, update_max_offset(m) PROVE AckInv'
  BY <1>1, <1>3 DEF AckInv, update_max_offset
<1>4. ASSUME NEW len \in 1 .. U64Max, send_data(len) PROVE AckInv'
  <2>1. /\ Cardinality(reinjection_cache) + 1 <= max_reinjection_cache_chunks
        /\ reinjection_cache' = reinjection_cache \cup {Prepared(len)}
        /\ UNCHANGED <<gaps, acked>>
    BY <1>4 DEF send_data, prepare_data, BecomesStream, commit_prepared_data, Stream
  <2>2. IsFiniteSet(reinjection_cache) /\ Cardinality(reinjection_cache) \in Nat
    <3>1. /\ U64Max \in Nat /\ Disjoint(reinjection_cache)
          /\ \A c \in reinjection_cache :
               c.start \in 0 .. U64Max /\ c.end \in 0 .. U64Max /\ c.start < c.end
      BY <1>1, SendLimits DEF SendInv, SendTypeOK, CacheAccounted, RangesBelow
    <3>. QED
      BY <3>1, DisjointFinite
  <2>3. /\ Cardinality(reinjection_cache') \in Nat
        /\ Cardinality(reinjection_cache') <= Cardinality(reinjection_cache) + 1
    <3>. DEFINE C == reinjection_cache \cup {Prepared(len)}
    <3>1. /\ IsFiniteSet(C)
          /\ \/ Cardinality(C) = Cardinality(reinjection_cache)
             \/ Cardinality(C) = Cardinality(reinjection_cache) + 1
      BY <2>2, FS_AddElement
    <3>. HIDE DEF C
    <3>2. Cardinality(C) \in Nat /\ Cardinality(C) <= Cardinality(reinjection_cache) + 1
      BY <2>2, <3>1, FS_CardinalityType
    <3>. QED
      BY <2>1, <3>2 DEF C
  <2>4. Cardinality(reinjection_cache)' <= max_reinjection_cache_chunks
    BY <2>1, <2>2, <2>3, SendLimits
  <2>. QED
    BY <1>1, <2>1, <2>4 DEF AckInv
<1>5. ASSUME NEW len \in 1 .. U64Max, send_data_refused(len) PROVE AckInv'
  <2>1. len \in Nat
    BY SendLimits
  <2>2. UNCHANGED send_vars
    BY <1>1, <1>5, <2>1, RefusedPreserves
  <2>. QED
    BY <1>1, <2>2 DEF AckInv, send_vars
<1>6. ASSUME NEW ack \in Acks, apply_stream_ack(ack) PROVE AckInv'
  <2>1. validate_stream_ack(ack) /\ acked' = acked \cup Covered(ack.ranges)
    BY <1>6 DEF apply_stream_ack
  <2>2. CASE subsumes(reinjection_cache, gaps, ack)
    <3>1. UNCHANGED <<reinjection_cache, gaps>>
      BY <1>6, <2>2 DEF apply_stream_ack
    <3>. QED
      BY <1>1, <2>1, <3>1 DEF AckInv
  <2>3. CASE ~subsumes(reinjection_cache, gaps, ack)
    <3>1. /\ ~TooManyReinjectionCacheChunks(ack)
          /\ reinjection_cache' = CacheAfter(ack) /\ gaps' = GapsAfter(ack)
      BY <1>6, <2>3 DEF apply_stream_ack
    <3>2. Cardinality(reinjection_cache') <= max_reinjection_cache_chunks
      BY <1>1, <2>1, <3>1, ChunksWithinLimit DEF AckInv
    <3>3. \A g \in gaps' : g.end \in acked'
      BY <1>1, <2>1, <3>1, GapsEndAcked DEF AckInv
    <3>. QED
      BY <1>1, <3>2, <3>3 DEF AckInv
  <2>. QED
    BY <2>2, <2>3
<1>. QED
  BY <1>2, <1>3, <1>4, <1>5, <1>6 DEF SendNext

\* What an ACK leaves behind is consistent and bounded: the ceiling on cached
\* chunks survives every split, also where ReliableSendStream skips its exact
\* preview, and the snapshot never holds more gaps than the cache components.
THEOREM AckStateAlwaysExact == SendSpec => []AckStateExact
<1>1. SendSpec => []AckInv
  BY InitAckInv, NextAckInv, PTL DEF SendSpec
<1>2. AckInv => AckStateExact
  BY GapsEndComponents DEF AckInv, AckStateExact, SendInv
<1>. QED
  BY <1>1, <1>2, PTL

\* An ACK that has been applied is recognised when it comes again.
LEMMA AppliedIsRecognised ==
  ASSUME SendInv, NEW ack
  PROVE  subsumes(CacheAfter(ack), GapsAfter(ack), ack)
<1>. DEFINE A == Covered(ack.ranges)
            I == InScope(CacheAfter(ack), ack)
            M == offset_ranges_not_covered(I, GapsAfter(ack))
<1>1. U64Max \in Nat
  BY SendLimits
<1>2. /\ Covered(CacheAfter(ack)) = Retained \ A
      /\ CacheAfter(ack) \in SUBSET RangesBelow(U64Max)
  BY CacheAfterExact
<1>3. I \in SUBSET RangesBelow(U64Max) /\ Covered(I) = (Retained \ A) \cap ScopeBytes(ack)
  BY <1>2, InScopeRetained, InScopeExact
<1>4. Covered(I) \in SUBSET Covered(GapsAfter(ack))
  BY <1>3, GapsAfterExact
<1>5. M \in SUBSET RangesBelow(U64Max) /\ Covered(M) = {}
  <2>1. /\ Covered(M) = Covered(I) \ Covered(GapsAfter(ack))
        /\ M \in SUBSET RangesBelow(U64Max)
    BY <1>1, <1>3, NotCoveredExact, Zenon
  <2>. QED
    BY <1>4, <2>1
<1>6. M = {}
  <2>. HIDE DEF M
  <2>. QED
    BY <1>1, <1>5, NothingCovered
<1>7. ~has_unacknowledged_ranges(CacheAfter(ack), ack.ranges)
  BY <1>2 DEF has_unacknowledged_ranges
<1>. QED
  BY <1>6, <1>7 DEF subsumes

\* An ACK that is recognised would change nothing.
LEMMA RecognisedChangesNothing ==
  ASSUME SendInv, NEW ack, subsumes(reinjection_cache, gaps, ack)
  PROVE  CacheAfter(ack) = reinjection_cache /\ ReleasedBytes(ack) = 0 /\ GapsAfter(ack) = gaps
<1>. DEFINE A == Covered(ack.ranges)
            I == InScope(reinjection_cache, ack)
<1>1. /\ U64Max \in Nat /\ reinjection_cache \in SUBSET RangesBelow(U64Max)
      /\ gaps \in SUBSET RangesBelow(U64Max)
      /\ Covered(gaps) \in SUBSET Retained /\ Canonical(gaps)
  BY SendLimits DEF SendInv, SendTypeOK, GapsAreRetained
<1>2. Retained \cap A = {} /\ offset_ranges_not_covered(I, gaps) = {}
  BY DEF subsumes, has_unacknowledged_ranges, Retained
<1>3. CacheAfter(ack) = reinjection_cache
  <2>1. ASSUME NEW c \in reinjection_cache PROVE Runs(Bytes(c) \ A) = {c}
    <3>1. Bytes(c) \in SUBSET Retained
      BY DEF Retained, Covered
    <3>2. Bytes(c) \ A = Bytes(c)
      BY <1>2, <3>1
    <3>3. Runs(Bytes(c)) = {c}
      BY <1>1, RunsOfRange
    <3>. QED
      BY <3>2, <3>3
  <2>2. CacheAfter(ack) = UNION {Runs(Bytes(c) \ A) : c \in reinjection_cache}
    BY DEF CacheAfter, offset_ranges_not_covered
  <2>3. ASSUME NEW x PROVE x \in CacheAfter(ack) <=> x \in reinjection_cache
    <3>1. x \in CacheAfter(ack) <=> \E c \in reinjection_cache : x \in Runs(Bytes(c) \ A)
      BY <2>2, Zenon
    <3>2. x \in CacheAfter(ack) <=> \E c \in reinjection_cache : x \in {c}
      BY <2>1, <3>1, Zenon
    <3>. QED
      BY <3>2
  <2>. QED
    BY <2>3
<1>4. ReleasedBytes(ack) = 0
  BY <1>2, FS_EmptySet DEF ReleasedBytes
<1>5. Retained \cap ScopeBytes(ack) \in SUBSET Covered(gaps)
  <2>1. I \in SUBSET RangesBelow(U64Max) /\ Covered(I) = Retained \cap ScopeBytes(ack)
    BY <1>1, InScopeRetained, InScopeExact DEF Retained
  <2>2. Covered(offset_ranges_not_covered(I, gaps)) = Covered(I) \ Covered(gaps)
    BY <1>1, <2>1, NotCoveredExact, Zenon
  <2>3. Covered({}) = {}
    BY DEF Covered
  <2>. QED
    BY <1>2, <2>1, <2>2, <2>3
<1>6. Covered(GapsAfter(ack)) = Covered(gaps)
  BY <1>1, <1>2, <1>5, GapsAfterExact
<1>7. Runs(Covered(gaps)) = gaps /\ Runs(Covered(GapsAfter(ack))) = GapsAfter(ack)
  BY <1>1, GapsAfterExact, RunsOfCanonical
<1>. QED
  BY <1>3, <1>4, <1>6, <1>7

\* Redundant publication of an ACK over several carriers runs no mutation
\* twice: what is skipped would change nothing, and what has been applied is
\* skipped (AuthoritativeStreamAckSnapshot::subsumes).
THEOREM RedundantAcksAlwaysIdempotent == SendSpec => []RedundantAcksIdempotent
<1>1. SendInv => RedundantAcksIdempotent
  BY AppliedIsRecognised, RecognisedChangesNothing DEF RedundantAcksIdempotent
<1>. QED
  BY <1>1, InvariantHolds, PTL

-----------------------------------------------------------------------------
(* What a peer that reports only what it received can rely on *)

\* An ACK of assigned bytes is never refused, when the ceiling on cached chunks
\* covers the repair budget.
LEMMA AckAccepted ==
  ASSUME SendInv, NEW ack, ack.ranges \in SUBSET RangesBelow(U64Max),
         Covered(ack.ranges) \subseteq 0 .. send_next - 1,
         ack.scope_start # NoScope => \E r \in ack.ranges : ack.scope_start < r.end,
         max_repair_bytes <= max_reinjection_cache_chunks
  PROVE  validate_stream_ack(ack) /\ ~TooManyReinjectionCacheChunks(ack)
<1>1. /\ U64Max \in Nat /\ send_next \in Nat /\ max_repair_bytes \in Nat
      /\ max_reinjection_cache_chunks \in Nat
      /\ reinjection_bytes = Cardinality(Retained) /\ reinjection_bytes <= max_repair_bytes
  BY SendLimits DEF SendInv, SendTypeOK, CacheAccounted, WithinCredit
<1>2. ASSUME NEW r \in ack.ranges PROVE r.start < r.end /\ r.end <= send_next
  <2>1. r.start \in Nat /\ r.end \in Nat /\ r.start < r.end
    BY DEF RangesBelow
  <2>2. r.end - 1 \in Bytes(r)
    BY <2>1 DEF Bytes
  <2>3. r.end - 1 \in 0 .. send_next - 1
    BY <2>2 DEF Covered
  <2>. QED
    BY <1>1, <2>1, <2>3
<1>3. /\ Covered(CacheAfter(ack)) \in SUBSET Retained
      /\ CacheAfter(ack) \in SUBSET RangesBelow(U64Max)
      /\ Disjoint(CacheAfter(ack))
  BY CacheAfterExact
<1>4. /\ Cardinality(CacheAfter(ack)) \in Nat
      /\ Cardinality(Covered(CacheAfter(ack))) \in Nat
      /\ Cardinality(CacheAfter(ack)) <= Cardinality(Covered(CacheAfter(ack)))
  <2>1. \A c \in CacheAfter(ack) :
          c.start \in 0 .. U64Max /\ c.end \in 0 .. U64Max /\ c.start < c.end
    BY <1>3 DEF RangesBelow
  <2>. QED
    BY <1>1, <1>3, <2>1, DisjointFinite
<1>5. Cardinality(Covered(CacheAfter(ack))) <= Cardinality(Retained) /\ Cardinality(Retained) \in Nat
  BY <1>3, RetainedFinite, FS_Subset
<1>6. Cardinality(CacheAfter(ack)) <= max_reinjection_cache_chunks
  BY <1>1, <1>4, <1>5
<1>. QED
  BY <1>1, <1>2, <1>4, <1>6 DEF validate_stream_ack, TooManyReinjectionCacheChunks

\* A frame that is sent again carries assigned bytes, no more than asked for.
LEMMA ReinjectedFrame ==
  ASSUME SendInv, NEW range \in RangesBelow(send_next), NEW limit \in Nat \ {0},
         first_retransmission_frame_for_range(range, limit) # <<>>
  PROVE  \E f \in RangesBelow(send_next) :
           /\ first_retransmission_frame_for_range(range, limit) = <<f>>
           /\ Length(f) <= limit
<1>. DEFINE hit == {c \in reinjection_cache : Bytes(c) \cap Bytes(range) # {}}
            chunk == CHOOSE c \in hit : \A d \in hit : c.start <= d.start
            start == Max({range.start, chunk.start})
            end == Min({range.end, start + limit, chunk.end})
            f == OffsetRange(start, end)
<1>1. hit # {} /\ first_retransmission_frame_for_range(range, limit) = <<f>>
  BY DEF first_retransmission_frame_for_range
<1>2. /\ U64Max \in Nat /\ send_next \in Nat
      /\ \A c \in reinjection_cache : c.start \in Nat /\ c.end \in Nat /\ c.start < c.end
  BY SendLimits DEF SendInv, SendTypeOK, RangesBelow
<1>3. chunk \in hit
  <2>. DEFINE T == {c.start : c \in hit}
  <2>1. T \in SUBSET Nat /\ T # {}
    BY <1>1, <1>2
  <2>2. PICK t \in T : \A y \in T : t <= y
    <3>. HIDE DEF T
    <3>. QED
      BY <2>1, LeastNatural
  <2>3. \E c \in hit : \A d \in hit : c.start <= d.start
    BY <2>2
  <2>. HIDE DEF hit
  <2>. QED
    BY <2>3
<1>4. PICK x \in Bytes(chunk) : x \in Bytes(range)
  BY <1>3
<1>5. /\ chunk.start \in Nat /\ chunk.end \in Nat
      /\ range.start \in Nat /\ range.end \in Nat /\ range.end <= send_next
  BY <1>2, <1>3 DEF RangesBelow
<1>. HIDE DEF chunk, hit
<1>6. x \in Int /\ chunk.start <= x /\ x < chunk.end /\ range.start <= x /\ x < range.end
  BY <1>4, <1>5 DEF Bytes
<1>7. start = IF range.start >= chunk.start THEN range.start ELSE chunk.start
  BY <1>5, MaxOfTwo
<1>8. start \in Nat /\ start <= x
  BY <1>5, <1>6, <1>7
<1>. HIDE DEF start
<1>9. /\ end \in {range.end, start + limit, chunk.end}
      /\ end <= range.end /\ end <= start + limit
  <2>. DEFINE T == {range.end, start + limit, chunk.end}
  <2>1. \E m \in T : \A y \in T : m <= y
    BY <1>5, <1>8
  <2>2. end \in T /\ \A y \in T : end <= y
    <3>. HIDE DEF T
    <3>1. end = Min(T)
      BY DEF T
    <3>. QED
      BY <2>1, <3>1 DEF Min
  <2>. QED
    BY <2>2
<1>10. end \in Nat /\ start < end
  BY <1>5, <1>6, <1>8, <1>9
<1>. HIDE DEF end
<1>11. f \in RangesBelow(send_next) /\ Length(f) <= limit
  BY <1>2, <1>5, <1>8, <1>9, <1>10 DEF RangesBelow, OffsetRange, Length
<1>. QED
  BY <1>1, <1>11
=============================================================================
