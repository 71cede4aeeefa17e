---------------------------- MODULE ReliableSend ----------------------------
(***************************************************************************)
(* The send half of one stream direction: ReliableSendStream               *)
(* (mux/stream.rs) and the AuthoritativeStreamAckSnapshot that the relay   *)
(* actor keeps next to it (runtime/relay/io.rs).  The reinjection cache is *)
(* a set of ranges with distinct starts.  A step is one operation of the   *)
(* actor that owns both, from its first check to its last assignment.      *)
(***************************************************************************)
EXTENDS OffsetRanges, Sequences, FiniteSetsExt

CONSTANTS
  max_repair_bytes,
  max_reinjection_cache_chunks,
  AckRangeLists                  \* the range lists a peer may put in an ACK

ASSUME SendLimits ==
  /\ U64Max \in Nat
  /\ max_payload_bytes \in Nat
  /\ max_repair_bytes \in Nat
  /\ max_reinjection_cache_chunks \in Nat
  /\ \A R \in AckRangeLists : R \subseteq [start : 0 .. U64Max, end : 0 .. U64Max]

VARIABLES
  send_next,           \* next_offset: the bytes below it have been assigned
  max_offset,          \* the credit the peer advertised
  reinjection_bytes,   \* the counter of retained bytes
  reinjection_cache,   \* BTreeMap<u64, SentChunk>, as a set of OffsetRange
  gaps,                \* AuthoritativeStreamAckSnapshot.gaps
  acked                \* history: the bytes some accepted ACK listed

send_vars == <<send_next, max_offset, reinjection_bytes, reinjection_cache, gaps, acked>>

SendInit ==
  /\ send_next = 0
  /\ max_offset \in 0 .. U64Max
  /\ reinjection_bytes = 0
  /\ reinjection_cache = {}
  /\ gaps = {}
  /\ acked = {}

Retained == Covered(reinjection_cache)

data_ack_frontier ==
  IF reinjection_cache = {} THEN send_next
  ELSE Min({c.start : c \in reinjection_cache})

\* Mutant of retained_ranges_in_scope: the first byte of the scope is left out.
RetainedPastScopeStart(cache, scope) ==
  Runs(Covered(cache) \cap (Bytes(scope) \ {scope.start}))

retained_ranges_in_scope(cache, scope) == Runs(Covered(cache) \cap Bytes(scope))

has_unacknowledged_ranges(cache, ranges) == Covered(cache) \cap Covered(ranges) # {}

update_max_offset(m) ==
  /\ max_offset' = Max({max_offset, m})
  /\ UNCHANGED <<send_next, reinjection_bytes, reinjection_cache, gaps, acked>>

-----------------------------------------------------------------------------
(* Assigning new bytes *)

\* The conditions that prepare_data and commit_prepared_data both check.
prepare_data(len) ==
  /\ len > 0
  /\ len <= max_payload_bytes
  /\ send_next + len <= U64Max
  /\ send_next + len <= max_offset
  /\ reinjection_bytes + len <= max_repair_bytes
  /\ Cardinality(reinjection_cache) + 1 <= max_reinjection_cache_chunks

Prepared(len) == OffsetRange(send_next, send_next + len)

Stream(next, bytes, cache) == [next |-> next, bytes |-> bytes, cache |-> cache]

commit_prepared_data(frame) ==
  Stream(frame.end, reinjection_bytes + Length(frame), reinjection_cache \cup {frame})

\* On the stream s of the commit it undoes.
rollback_committed_data(s, frame) ==
  IF frame.end = s.next /\ frame \in s.cache
  THEN Stream(frame.start, Monus(s.bytes, Length(frame)), s.cache \ {frame})
  ELSE s

BecomesStream(s) ==
  /\ send_next' = s.next
  /\ reinjection_bytes' = s.bytes
  /\ reinjection_cache' = s.cache
  /\ UNCHANGED <<max_offset, gaps, acked>>

send_data(len) ==
  /\ prepare_data(len)
  /\ BecomesStream(commit_prepared_data(Prepared(len)))

\* The carrier refuses the frame after the commit, under the same fence: the
\* assignment is rolled back before anyone else can look at the stream.
send_data_refused(len) ==
  /\ prepare_data(len)
  /\ BecomesStream(rollback_committed_data(commit_prepared_data(Prepared(len)), Prepared(len)))

-----------------------------------------------------------------------------
(* Applying an ACK *)

Ack(scope, R) == [scope_start |-> scope, ranges |-> R]

validate_stream_ack(ack) ==
  /\ \A r \in ack.ranges : r.start < r.end /\ r.end <= send_next
  /\ ack.scope_start # NoScope => \E r \in ack.ranges : ack.scope_start < r.end

\* Mutant of ScopeOf: the scope reaches to everything that was assigned.
ScopeToNext(ack) == OffsetRange(ack.scope_start, send_next)

\* The scope of a validated ACK ends with its last range.
ScopeOf(ack) ==
  OffsetRange(ack.scope_start, Max({r.end : r \in normalize_offset_ranges(ack.ranges)}))

InScope(cache, ack) ==
  IF ack.scope_start = NoScope THEN {} ELSE retained_ranges_in_scope(cache, ScopeOf(ack))

\* Mutant of subsumes: what the ACK reports as missing is not looked at.
SubsumesPositive(cache, missing, ack) == ~has_unacknowledged_ranges(cache, ack.ranges)

\* Whether a cache and a snapshot already account for all the ACK says.
subsumes(cache, missing, ack) ==
  /\ ~has_unacknowledged_ranges(cache, ack.ranges)
  /\ offset_ranges_not_covered(InScope(cache, ack), missing) = {}

\* Mutant of CacheAfter: a chunk goes with the first byte acknowledged in it.
CacheUntouched(ack) == {c \in reinjection_cache : Bytes(c) \cap Covered(ack.ranges) = {}}

\* What is left of the chunks: an acknowledged middle splits a chunk.
CacheAfter(ack) == offset_ranges_not_covered(reinjection_cache, ack.ranges)

TooManyReinjectionCacheChunks(ack) ==
  /\ ack.ranges # {} /\ reinjection_cache # {}
  /\ Cardinality(reinjection_cache) + Cardinality(normalize_offset_ranges(ack.ranges))
       > max_reinjection_cache_chunks
  /\ Cardinality(CacheAfter(ack)) > max_reinjection_cache_chunks

ReleasedBytes(ack) == Cardinality(Retained \cap Covered(ack.ranges))

\* The snapshot is updated after the release, from what is then retained.
GapsAfter(ack) ==
  normalize_offset_ranges(
    offset_ranges_not_covered(gaps, ack.ranges) \cup InScope(CacheAfter(ack), ack))

\* One ACK transaction.  An ACK that is refused ends the stream actor, so no
\* step follows it; one that says nothing new is skipped.
apply_stream_ack(ack) ==
  /\ validate_stream_ack(ack)
  /\ acked' = acked \cup Covered(ack.ranges)
  /\ UNCHANGED <<send_next, max_offset>>
  /\ IF subsumes(reinjection_cache, gaps, ack)
     THEN UNCHANGED <<reinjection_bytes, reinjection_cache, gaps>>
     ELSE /\ ~TooManyReinjectionCacheChunks(ack)
          /\ reinjection_cache' = CacheAfter(ack)
          /\ reinjection_bytes' = Monus(reinjection_bytes, ReleasedBytes(ack))
          /\ gaps' = GapsAfter(ack)

Acks == {Ack(s, R) : s \in {NoScope} \cup 0 .. U64Max, R \in AckRangeLists}

-----------------------------------------------------------------------------
(* Choosing bytes to send again *)

\* The first retained slice of a range, cut to the limit, or nothing.
first_retransmission_frame_for_range(range, byte_limit) ==
  LET hit == {c \in reinjection_cache : Bytes(c) \cap Bytes(range) # {}}
      chunk == CHOOSE c \in hit : \A d \in hit : c.start <= d.start
      start == Max({range.start, chunk.start})
  IN IF byte_limit = 0 \/ hit = {} THEN <<>>
     ELSE <<OffsetRange(start, Min({range.end, start + byte_limit, chunk.end}))>>

-----------------------------------------------------------------------------
SendNext ==
  \/ \E m \in 0 .. U64Max : update_max_offset(m)
  \/ \E len \in 1 .. U64Max : send_data(len)
  \/ \E len \in 1 .. U64Max : send_data_refused(len)
  \/ \E ack \in Acks : apply_stream_ack(ack)

SendSpec == SendInit /\ [][SendNext]_send_vars

-----------------------------------------------------------------------------
(* Properties *)

SendTypeOK ==
  /\ send_next \in 0 .. U64Max
  /\ max_offset \in 0 .. U64Max
  /\ reinjection_bytes \in Nat
  /\ reinjection_cache \subseteq RangesBelow(U64Max)
  /\ gaps \subseteq RangesBelow(U64Max)
  /\ acked \subseteq Nat

\* Every assigned byte is retained until a peer ACK lists it, and none longer:
\* neither a split of a chunk, nor a skipped ACK, nor a rolled back commit
\* loses a byte that a reinjection would need.
RetainedUntilAcked ==
  /\ Retained \cap acked = {}
  /\ Retained \cup acked = 0 .. send_next - 1

\* The chunks of the cache never overlap and the byte counter that admission
\* compares with max_repair_bytes is exactly what they hold.
CacheAccounted ==
  /\ Disjoint(reinjection_cache)
  /\ reinjection_bytes = Cardinality(Retained)

\* The peer's credit and the repair budget hold after every operation: neither
\* an assignment, nor a split, nor a rolled back commit exceeds them.
WithinCredit ==
  /\ send_next <= max_offset
  /\ reinjection_bytes <= max_repair_bytes

\* A delayed negative report never resurrects acknowledged bytes: every byte
\* the snapshot calls missing is still retained, so it can be sent again.
GapsAreRetained ==
  /\ Covered(gaps) \subseteq Retained
  /\ Canonical(gaps)

\* What an ACK leaves behind is consistent and bounded.  The cheap bound with which
\* apply_normalized_ack skips its exact preview never lets too many pieces of
\* split chunks by; and, by the comment on AuthoritativeStreamAckSnapshot,
\* "each surviving gap ends at acknowledged coverage, so within one normalized
\* retained-cache component it can cover only a suffix", hence there are no more
\* gaps than components of the cache.
AckStateExact ==
  /\ SendTypeOK /\ CacheAccounted /\ GapsAreRetained
  /\ Cardinality(reinjection_cache) <= max_reinjection_cache_chunks
  /\ \A g \in gaps : g.end \in acked
  /\ Cardinality(gaps) <= Cardinality(Runs(Retained))

\* The ACKs that the next transaction would accept.
Acceptable == {ack \in Acks : validate_stream_ack(ack) /\ ~TooManyReinjectionCacheChunks(ack)}

\* Skipping an ACK that `subsumes` recognises is the same as applying it, and
\* an ACK that has been applied is recognised when it arrives again on another
\* carrier: redundant publication runs no mutation twice.
RedundantAcksIdempotent ==
  \A ack \in Acceptable :
    /\ subsumes(CacheAfter(ack), GapsAfter(ack), ack)
    /\ subsumes(reinjection_cache, gaps, ack)
         => CacheAfter(ack) = reinjection_cache /\ ReleasedBytes(ack) = 0 /\ GapsAfter(ack) = gaps

\* The missing set after an ACK is exactly what RFC section 8.3 asks for: with
\* G the set before, S the scope, R the ranges and U the bytes that are not
\* acknowledged after it, (G \cup (S \ R)) \cap U.
MissingSetExact ==
  \A ack \in Acceptable :
    LET S == IF ack.scope_start = NoScope THEN {} ELSE Bytes(ScopeOf(ack))
        R == Covered(ack.ranges)
        U == (0 .. send_next - 1) \ (acked \cup R)
    IN Covered(GapsAfter(ack)) = (Covered(gaps) \cup (S \ R)) \cap U

\* The lowest unacknowledged offset never moves back.  The frontier timers of
\* both relay actors take a change of it for progress.
FrontierMonotone == [][data_ack_frontier' >= data_ack_frontier]_send_vars
=============================================================================
