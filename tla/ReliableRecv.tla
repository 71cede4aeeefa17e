---------------------------- MODULE ReliableRecv ----------------------------
(***************************************************************************)
(* The receive half of one stream direction: ReliableRecvStream and its    *)
(* RangeSet (mux/stream.rs).  A payload byte is identified by its Data     *)
(* Sequence offset.  The BTreeMaps keyed by start are sets of records with *)
(* distinct starts.                                                        *)
(***************************************************************************)
EXTENDS OffsetRanges, Sequences, FiniteSetsExt

CONSTANTS
  max_ack_ranges,
  max_reorder_bytes,
  max_reorder_buffer_chunks,
  max_retained_receive_ranges

ASSUME RecvLimits ==
  /\ U64Max \in Nat /\ max_payload_bytes \in Nat \ {0}
  /\ max_ack_ranges \in Nat /\ max_reorder_bytes \in Nat
  /\ max_reorder_buffer_chunks \in Nat \ {0}
  /\ max_retained_receive_ranges \in Nat \ {0}

VARIABLES
  next_offset,           \* all bytes below it have been handed to the relay
  published_max_offset,  \* the greatest credit that was queued for the peer
  reorder_bytes,         \* the counter of buffered bytes
  buffered,              \* BTreeMap<u64, RecvChunk>, as a set of OffsetRange
  received_ranges,       \* RangeSet: records [start, end, dirty]
  ack_high_water,        \* largest end at the last publication boundary
  delivered              \* history: the bytes handed to the relay, in order

recv_vars == <<next_offset, published_max_offset, reorder_bytes, buffered,
               received_ranges, ack_high_water, delivered>>

Received == Covered(received_ranges)

RecvInit ==
  /\ next_offset = 0
  /\ published_max_offset = 0
  /\ reorder_bytes = 0
  /\ buffered = {}
  /\ received_ranges = {}
  /\ ack_high_water = 0
  /\ delivered = <<>>

-----------------------------------------------------------------------------
(* RangeSet *)

\* The nodes an inserted range overlaps or touches; they are merged with it.
Touching(ranges, r) == {q \in ranges : q.start <= r.end /\ q.end >= r.start}

\* Mutant of Merged: growing a reported node does not make it dirty again.
MergedKeepsClean(ranges, r) ==
  [start |-> Min({r.start} \cup {q.start : q \in Touching(ranges, r)}),
   end   |-> Max({r.end} \cup {q.end : q \in Touching(ranges, r)}),
   dirty |-> Touching(ranges, r) = {}]

Merged(ranges, r) ==
  [start |-> Min({r.start} \cup {q.start : q \in Touching(ranges, r)}),
   end   |-> Max({r.end} \cup {q.end : q \in Touching(ranges, r)}),
   dirty |-> TRUE]

insert(ranges, r) ==
  (ranges \ Touching(ranges, r)) \cup {Merged(ranges, r)}

covers(ranges, r) == \E q \in ranges : q.start <= r.start /\ q.end >= r.end

uncovered_ranges(ranges, r) == Runs(Bytes(r) \ Covered(ranges))

range_count_after_insert(ranges, r) ==
  Cardinality(ranges) - Cardinality(Touching(ranges, r)) + 1

largest_end(ranges) == Max({0} \cup {q.end : q \in ranges})

\* The first and the last entry of a list in ascending order.
First(R) == CHOOSE r \in R : \A q \in R : r.start <= q.start

Last(R) == CHOOSE r \in R : \A q \in R : q.start <= r.start

Extent(q) == OffsetRange(q.start, q.end)

-----------------------------------------------------------------------------
(* receive_data *)

Payload(c) == [i \in 1 .. Length(c) |-> c.start + i - 1]

\* The locals of receive_data while it hands out chunks.
Delivery(next, bytes, chunks, out) ==
  [next |-> next, bytes |-> bytes, chunks |-> chunks, out |-> out]

StartsAt(chunks, cursor) == \E c \in chunks : c.start = cursor

ChunkAt(chunks, cursor) == CHOOSE c \in chunks : c.start = cursor

\* One turn of `while let Some(chunk) = self.buffered.remove(&next_offset)`;
\* the loop has ended when no chunk starts at the frontier.
TakeBuffered(d) ==
  LET chunk == ChunkAt(d.chunks, d.next)
  IN IF StartsAt(d.chunks, d.next)
     THEN Delivery(chunk.end, Monus(d.bytes, Length(chunk)),
                   d.chunks \ {chunk}, d.out \o Payload(chunk))
     ELSE d

DrainTurns(d) ==
  LET turn[n \in Nat] == IF n = 0 THEN d ELSE TakeBuffered(turn[n - 1])
  IN turn

Drain(d) == DrainTurns(d)[Cardinality(d.chunks)]

\* Mutant of Place: the frontier is not compared.
PlaceAnywhere(d, m) ==
  Drain(Delivery(m.end, Monus(d.bytes, Length(m)), d.chunks, d.out \o Payload(m)))

\* The body of the loop over the missing ranges: hand out at the frontier or
\* buffer.
Place(d, m) ==
  IF m.start = d.next
  THEN Drain(Delivery(m.end, Monus(d.bytes, Length(m)), d.chunks, d.out \o Payload(m)))
  ELSE Delivery(d.next, d.bytes, d.chunks \cup {m}, d.out)

\* One turn of that loop: the ranges are placed in ascending order.
PlaceFirst(p) ==
  IF p.left = {} THEN p
  ELSE [delivery |-> Place(p.delivery, First(p.left)), left |-> p.left \ {First(p.left)}]

PlaceTurns(d, missing) ==
  LET turn[n \in Nat] ==
        IF n = 0 THEN [delivery |-> d, left |-> missing] ELSE PlaceFirst(turn[n - 1])
  IN turn

PlaceAll(d, missing) == PlaceTurns(d, missing)[Cardinality(missing)].delivery

\* The exact preview of how many chunks stay buffered: a cursor walks from the
\* frontier over the buffered and the missing ranges.
WalkOver(all, cursor) ==
  IF StartsAt(all, cursor) THEN ChunkAt(all, cursor).end ELSE cursor

WalkTurns(all) ==
  LET turn[n \in Nat] == IF n = 0 THEN next_offset ELSE WalkOver(all, turn[n - 1])
  IN turn

reorder_chunk_count_after_receive(missing) ==
  LET all == buffered \cup missing
  IN Cardinality({c \in all : c.start >= WalkTurns(all)[Cardinality(all)]})

Missing(r) == uncovered_ranges(received_ranges, r)

InOrder(r) == r.start = next_offset /\ Missing(r) = {r}

FlowControlViolation(r, credit) == r.end > credit

TooManyReceiveRanges(r) ==
  /\ Cardinality(received_ranges) + 1 > max_retained_receive_ranges
  /\ range_count_after_insert(received_ranges, r) > max_retained_receive_ranges

ReorderBufferFull(r) ==
  /\ ~InOrder(r)
  /\ reorder_bytes + Cardinality(Covered(Missing(r))) > max_reorder_bytes

TooManyReorderBufferChunks(r) ==
  /\ ~InOrder(r)
  /\ Cardinality(buffered) + Cardinality(Missing(r)) > max_reorder_buffer_chunks
  /\ reorder_chunk_count_after_receive(Missing(r)) > max_reorder_buffer_chunks

\* Why receive_data would refuse r, with `credit` published so far.
Rejected(r, credit) ==
  \/ Length(r) > max_payload_bytes
  \/ FlowControlViolation(r, credit)
  \/ /\ ~covers(received_ranges, r)
     /\ TooManyReceiveRanges(r) \/ ReorderBufferFull(r) \/ TooManyReorderBufferChunks(r)

\* The state after the fast path, and after the general path.
Delivering(r) ==
  IF InOrder(r)
  THEN Drain(Delivery(r.end, reorder_bytes, buffered, Payload(r)))
  ELSE PlaceAll(Delivery(next_offset, reorder_bytes + Cardinality(Covered(Missing(r))),
                         buffered, <<>>),
                Missing(r))

ReceiveNew(r) ==
  LET d == Delivering(r)
  IN /\ received_ranges' = insert(received_ranges, r)
     /\ next_offset' = d.next
     /\ reorder_bytes' = d.bytes
     /\ buffered' = d.chunks
     /\ delivered' = delivered \o d.out
     /\ ack_high_water' = ack_high_water

\* What receive_data does to everything but the published credit.
Receive(r, credit) ==
  /\ ~Rejected(r, credit)
  /\ IF covers(received_ranges, r)
     THEN UNCHANGED <<next_offset, reorder_bytes, buffered, received_ranges,
                      ack_high_water, delivered>>
     ELSE ReceiveNew(r)

receive_data(r) ==
  /\ Receive(r, published_max_offset)
  /\ published_max_offset' = published_max_offset

-----------------------------------------------------------------------------
(* STREAM_ACK and STREAM_MAX_DATA *)

AckFrame(scope, ranges) == [scope_start |-> scope, ranges |-> ranges]

ChunkSize == IF max_ack_ranges > 1 THEN max_ack_ranges ELSE 1

\* ranges.chunks(chunk_size): the chunk a range of the ascending list is in,
\* by the number of ranges before it.
ChunkOf(ranges, q) == Cardinality({p \in ranges : p.start < q.start}) \div ChunkSize

Chunk(ranges, i) == {q \in ranges : ChunkOf(ranges, q) = i}

ChunkIndexes(ranges) == {ChunkOf(ranges, q) : q \in ranges}

\* Mutant of HighWater: the chunks before are not counted.
FirstHighWater(ranges, high_water, i) == high_water

\* Where the scope of a chunk starts: where the ones before it ended.
HighWater(ranges, high_water, i) ==
  LET earlier == {j \in ChunkIndexes(ranges) : j < i}
  IN Max({high_water} \cup {Last(Chunk(ranges, j)).end : j \in earlier})

\* The scope is left out when the last range covers all of it.
ScopedFrame(ranges, high_water, i) ==
  LET water == HighWater(ranges, high_water, i)
  IN AckFrame(IF Last(Chunk(ranges, i)).start > water THEN water ELSE NoScope,
              Chunk(ranges, i))

\* One frame per chunk.  Each says what it says on its own, so the list that
\* the code sends in order is a set.
scoped_ack_frames(ranges, high_water) ==
  IF ranges = {} THEN {AckFrame(NoScope, {})}
  ELSE {ScopedFrame(ranges, high_water, i) : i \in ChunkIndexes(ranges)}

ack_ranges == {Extent(q) : q \in received_ranges}

changed_ranges == {Extent(q) : q \in {p \in received_ranges : p.dirty}}

\* The cumulative frames; `ack_frame` is the one of the first chunk.
ack_frames == scoped_ack_frames(ack_ranges, 0)

\* The frames of one publication boundary: what changed since the last one.
ack_update == scoped_ack_frames(changed_ranges, ack_high_water)

take_ack_update ==
  /\ received_ranges' = {[q EXCEPT !.dirty = FALSE] : q \in received_ranges}
  /\ ack_high_water' = largest_end(received_ranges)
  /\ UNCHANGED <<next_offset, published_max_offset, reorder_bytes, buffered, delivered>>

commit_max_data(max_offset) ==
  /\ published_max_offset' = Max({published_max_offset, max_offset})
  /\ UNCHANGED <<next_offset, reorder_bytes, buffered, received_ranges,
                 ack_high_water, delivered>>

-----------------------------------------------------------------------------
RecvNext ==
  \/ \E r \in RangesBelow(U64Max) : receive_data(r)
  \/ take_ack_update
  \/ \E m \in 0 .. U64Max : commit_max_data(m)

RecvSpec == RecvInit /\ [][RecvNext]_recv_vars

-----------------------------------------------------------------------------
(* Properties *)

RecvTypeOK ==
  /\ next_offset \in 0 .. U64Max
  /\ published_max_offset \in 0 .. U64Max
  /\ reorder_bytes \in 0 .. U64Max
  /\ buffered \subseteq RangesBelow(U64Max)
  /\ ack_ranges \subseteq RangesBelow(U64Max)
  /\ \A q \in received_ranges : q.dirty \in BOOLEAN
  /\ ack_high_water \in 0 .. U64Max

\* The RangeSet stays canonical (no two nodes overlap or touch) and the
\* reorder buffer holds exactly what was received beyond the frontier, once,
\* with the counter agreeing; nothing deliverable is left behind in it.
ReorderStateExact ==
  /\ RecvTypeOK
  /\ Canonical(received_ranges)
  /\ Disjoint(buffered)
  /\ Received = (0 .. next_offset - 1) \cup Covered(buffered)
  /\ \A c \in buffered : c.start > next_offset
  /\ reorder_bytes = Cardinality(Covered(buffered))

\* The cheap bounds and the exact previews of receive_data together keep the
\* three configured ceilings.
WithinLimits ==
  /\ reorder_bytes <= max_reorder_bytes
  /\ Cardinality(buffered) <= max_reorder_buffer_chunks
  /\ Cardinality(received_ranges) <= max_retained_receive_ranges

\* Whatever order, overlap and repetition the peer's frames have, the relay is
\* handed every byte once and in order and never a byte past the frontier, with
\* the reorder state exact and within its limits.
DeliveredOnceInOrder ==
  /\ delivered = [i \in 1 .. next_offset |-> i - 1]
  /\ ReorderStateExact
  /\ WithinLimits

\* The bytes a frame reports as missing: its scope ends with its last range.
Omitted(f) ==
  IF f.scope_start = NoScope THEN {}
  ELSE (f.scope_start .. largest_end(f.ranges) - 1) \ Covered(f.ranges)

\* Every STREAM_ACK frame the stream would build now, cumulative or
\* incremental, is true on its own: what it lists was received, what its scope
\* leaves out was not, the peer's validate_stream_ack accepts the scope, and
\* the frame fits max_ack_ranges.
AckFramesTruthful ==
  \A f \in ack_frames \cup ack_update :
    /\ Covered(f.ranges) \subseteq Received
    /\ Omitted(f) \cap Received = {}
    /\ f.scope_start # NoScope => f.scope_start < largest_end(f.ranges)
    /\ Cardinality(f.ranges) <= ChunkSize

\* And the cumulative frames together say everything: each byte below the
\* largest received end is listed or reported as missing by one of them.
AckFramesExact ==
  /\ AckFramesTruthful
  /\ UNION {Covered(f.ranges) \cup Omitted(f) : f \in ack_frames}
       = 0 .. largest_end(received_ranges) - 1
=============================================================================
