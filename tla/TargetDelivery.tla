--------------------------- MODULE TargetDelivery ---------------------------
(***************************************************************************)
(* Delivery of a stream's contiguous bytes to its target socket            *)
(* (runtime/relay/server_delivery.rs, used by both relays): the first      *)
(* batch is kept as chunks, later ones are packed into a ring, one poll    *)
(* makes at most one write, and the frontier that grants credit to the     *)
(* peer moves only on a flush.  Bytes are numbered in stream order, so the *)
(* model sees any byte that is lost, repeated or moved.                    *)
(***************************************************************************)
EXTENDS Integers, SequencesExt

CONSTANTS
  quantum_bytes,
  window_bytes,
  MaxSlices,        \* the eight slices of one vectored write
  TotalBytes,       \* bound on the length of the stream
  MaxBatchChunks    \* bound on the chunks of one received batch

ASSUME DeliveryBounds ==
  /\ window_bytes \in Nat \ {0} /\ quantum_bytes \in 1 .. window_bytes
  /\ MaxSlices \in Nat \ {0} /\ TotalBytes \in Nat /\ MaxBatchChunks \in Nat

VARIABLES
  active, active_index, active_offset, active_bytes,
  deferred, deferred_offset, deferred_len,
  pending_bytes, delivered_offset, flush_pending,
  flushed_offset, flushing, shutdown_requested, shutting_down, shutdown,
  is_write_vectored,  \* which kind of writer the target is
  received,           \* bytes appended so far (the receive stream's next_offset)
  target,             \* what the target accepted
  target_flushed      \* how much of it the target has flushed

batches == <<active, active_index, active_offset, active_bytes>>
ring == <<deferred, deferred_offset, deferred_len>>
phases == <<shutdown_requested, shutting_down, shutdown>>
vars == <<batches, ring, pending_bytes, delivered_offset, flush_pending,
          flushed_offset, flushing, phases, is_write_vectored, received, target,
          target_flushed>>

Init ==
  /\ active = <<>> /\ active_index = 0 /\ active_offset = 0 /\ active_bytes = 0
  /\ deferred = <<>> /\ deferred_offset = 0 /\ deferred_len = 0
  /\ pending_bytes = 0 /\ delivered_offset = 0 /\ flush_pending = FALSE
  /\ flushed_offset = 0 /\ flushing = FALSE
  /\ shutdown_requested = FALSE /\ shutting_down = FALSE /\ shutdown = FALSE
  /\ is_write_vectored \in BOOLEAN
  /\ received = 0 /\ target = <<>> /\ target_flushed = 0

is_empty == pending_bytes = 0

Concat(chunks) == FoldLeft(LAMBDA a, b : a \o b, <<>>, chunks)

\* The n bytes of the ring r from position first on.
RingBytes(r, first, n) == [i \in 1 .. n |-> r[((first + i - 1) % Len(r)) + 1]]

-----------------------------------------------------------------------------
(* append_batch *)

\* Mutant of reserve_deferred: a wrapped ring is copied as it lies.
ReserveWrapped(additional) ==
  LET required == deferred_len + additional
      geometric == IF deferred = <<>> THEN required ELSE 2 * Len(deferred)
      capacity == Min({Max({geometric, required}), window_bytes})
  IN IF required <= Len(deferred)
     THEN [bytes |-> deferred, offset |-> deferred_offset]
     ELSE [bytes |-> [i \in 1 .. capacity |-> IF i <= deferred_len THEN deferred[i] ELSE 0],
           offset |-> 0]

\* The ring with room for the additional bytes, and where its data starts.
reserve_deferred(additional) ==
  LET required == deferred_len + additional
      geometric == IF deferred = <<>> THEN required ELSE 2 * Len(deferred)
      capacity == Min({Max({geometric, required}), window_bytes})
      kept == RingBytes(deferred, deferred_offset, deferred_len)
  IN IF required <= Len(deferred)
     THEN [bytes |-> deferred, offset |-> deferred_offset]
     ELSE [bytes |-> [i \in 1 .. capacity |-> IF i <= deferred_len THEN kept[i] ELSE 0],
           offset |-> 0]

AppendDeferred(bytes) ==
  LET room == reserve_deferred(Len(bytes))
      size == Len(room.bytes)
      tail == (room.offset + deferred_len) % size
      At(i) == ((i - 1 - tail) % size) + 1
  IN /\ deferred' = [i \in 1 .. size |->
                       IF At(i) <= Len(bytes) THEN bytes[At(i)] ELSE room.bytes[i]]
     /\ deferred_offset' = room.offset
     /\ deferred_len' = deferred_len + Len(bytes)

append_batch(batch) ==
  LET bytes == Concat(batch)
  IN /\ bytes # <<>> => ~(shutting_down \/ shutdown)
     /\ pending_bytes + Len(bytes) <= window_bytes
     /\ pending_bytes' = pending_bytes + Len(bytes)
     /\ \/ /\ bytes # <<>> /\ is_empty
           /\ active' = SelectSeq(batch, LAMBDA chunk : chunk # <<>>)
           /\ active_index' = 0 /\ active_offset' = 0
           /\ active_bytes' = Len(bytes)
           /\ UNCHANGED ring
        \/ /\ bytes # <<>> /\ ~is_empty
           /\ AppendDeferred(bytes)
           /\ UNCHANGED batches
        \/ /\ bytes = <<>>
           /\ UNCHANGED <<batches, ring>>

-----------------------------------------------------------------------------
(* One native write *)

\* The slices offered from the active batch, at most MaxSlices of them.
ActiveSlices ==
  LET last == Min({active_index + MaxSlices, Len(active)})
  IN [i \in 1 .. last - active_index |->
        LET chunk == active[active_index + i]
        IN IF i = 1 THEN SubSeq(chunk, active_offset + 1, Len(chunk)) ELSE chunk]

Prefix(s, n) == SubSeq(s, 1, Min({n, Len(s)}))

\* What poll_write_with_limit offers to the writer.
Offered(byte_limit) ==
  IF active_bytes > 0
  THEN Prefix(IF is_write_vectored THEN Concat(ActiveSlices) ELSE ActiveSlices[1], byte_limit)
  ELSE LET take == Min({deferred_len, byte_limit})
           first == Min({take, Len(deferred) - deferred_offset})
       IN RingBytes(deferred, deferred_offset,
                    IF first < take /\ is_write_vectored THEN take ELSE first)

\* How many descriptors a write of n bytes finishes, and its offset in the next.
Finished(n) ==
  Max({k \in 0 .. Len(active) - active_index :
         Len(Concat(SubSeq(active, active_index + 1, active_index + k))) <= active_offset + n})

AdvanceActive(n) ==
  LET k == Finished(n)
      past == Len(Concat(SubSeq(active, active_index + 1, active_index + k)))
  IN IF active_bytes = n
     THEN active' = <<>> /\ active_index' = 0 /\ active_offset' = 0 /\ active_bytes' = 0
     ELSE /\ active' = [i \in DOMAIN active |-> IF i <= active_index + k THEN <<>> ELSE active[i]]
          /\ active_index' = active_index + k
          /\ active_offset' = active_offset + n - past
          /\ active_bytes' = active_bytes - n

AdvanceDeferred(n) ==
  IF deferred_len = n
  THEN deferred' = <<>> /\ deferred_offset' = 0 /\ deferred_len' = 0
  ELSE /\ deferred_offset' = (deferred_offset + n) % Len(deferred)
       /\ deferred_len' = deferred_len - n
       /\ UNCHANGED deferred

\* The writer accepts n bytes of what poll_write_with_limit offers.
poll_write_with_limit(byte_limit, n) ==
  /\ n \in 1 .. Len(Offered(byte_limit))
  /\ target' = target \o SubSeq(Offered(byte_limit), 1, n)
  /\ IF active_bytes > 0
     THEN AdvanceActive(n) /\ UNCHANGED ring
     ELSE AdvanceDeferred(n) /\ UNCHANGED batches
  /\ pending_bytes' = pending_bytes - n
  /\ delivered_offset' = delivered_offset + n

-----------------------------------------------------------------------------
(* poll_io: write, flush and shutdown phases, each of which may stay pending *)

WritePhase == ~shutting_down /\ ~flushing /\ ~is_empty

write_budget == quantum_bytes - (delivered_offset - flushed_offset)

\* Mutant of FlushThenShutdown: the frontier moves before the flush is ready.
FlushedEarly(d, p) ==
  \/ /\ flushing' = TRUE /\ flush_pending' = TRUE
     /\ flushed_offset' = d
     /\ UNCHANGED <<phases, target_flushed>>
  \/ /\ flushing' = FALSE /\ flush_pending' = FALSE
     /\ flushed_offset' = d
     /\ target_flushed' = Len(target')
     /\ IF shutdown_requested /\ p = 0
        THEN shutting_down' = TRUE /\ shutdown' \in BOOLEAN /\ UNCHANGED shutdown_requested
        ELSE UNCHANGED phases

\* Mutant of FlushThenShutdown: the shutdown does not wait for the queue.
ShutdownWithBytes(d, p) ==
  \/ /\ flushing' = TRUE /\ flush_pending' = TRUE
     /\ UNCHANGED <<flushed_offset, phases, target_flushed>>
  \/ /\ flushing' = FALSE /\ flush_pending' = FALSE
     /\ flushed_offset' = d
     /\ target_flushed' = Len(target')
     /\ IF shutdown_requested
        THEN shutting_down' = TRUE /\ shutdown' \in BOOLEAN /\ UNCHANGED shutdown_requested
        ELSE UNCHANGED phases

\* After the write cursor stands at d with p bytes pending, try to flush; then
\* start the shutdown if it is requested and nothing is left.
FlushThenShutdown(d, p) ==
  \/ /\ flushing' = TRUE /\ flush_pending' = TRUE
     /\ UNCHANGED <<flushed_offset, phases, target_flushed>>
  \/ /\ flushing' = FALSE /\ flush_pending' = FALSE
     /\ flushed_offset' = d
     /\ target_flushed' = Len(target')
     /\ IF shutdown_requested /\ p = 0
        THEN /\ shutting_down' = TRUE
             /\ shutdown' \in BOOLEAN
             /\ UNCHANGED shutdown_requested
        ELSE UNCHANGED phases

Unwritten == UNCHANGED <<batches, ring, pending_bytes, delivered_offset, target>>

\* A write that neither fills the quantum nor drains the queue.
WriteMore ==
  /\ ~shutdown /\ WritePhase
  /\ \E n \in 1 .. quantum_bytes : poll_write_with_limit(write_budget, n)
  /\ pending_bytes' > 0 /\ delivered_offset' - flushed_offset # quantum_bytes
  /\ flush_pending' = TRUE
  /\ UNCHANGED <<flushed_offset, flushing, phases, target_flushed>>

\* A write that does, and the flush it leads to.
WriteAndFlush ==
  /\ ~shutdown /\ WritePhase
  /\ \E n \in 1 .. quantum_bytes : poll_write_with_limit(write_budget, n)
  /\ pending_bytes' = 0 \/ delivered_offset' - flushed_offset = quantum_bytes
  /\ FlushThenShutdown(delivered_offset', pending_bytes')

FlushOnly ==
  /\ ~shutdown /\ ~shutting_down /\ ~WritePhase
  /\ flushing \/ flush_pending
  /\ Unwritten
  /\ FlushThenShutdown(delivered_offset, pending_bytes)

\* Mutant of ShutdownOnly: a request on a drained and flushed queue is missed.
ShutdownOnlyStarted ==
  /\ ~shutdown /\ shutting_down
  /\ shutting_down' = TRUE /\ shutdown' \in BOOLEAN
  /\ UNCHANGED <<flushed_offset, flushing, flush_pending, shutdown_requested, target_flushed>>
  /\ Unwritten

ShutdownOnly ==
  /\ ~shutdown
  /\ \/ shutting_down
     \/ /\ ~WritePhase /\ ~flushing /\ ~flush_pending
        /\ shutdown_requested /\ is_empty
  /\ shutting_down' = TRUE /\ shutdown' \in BOOLEAN
  /\ UNCHANGED <<flushed_offset, flushing, flush_pending, shutdown_requested, target_flushed>>
  /\ Unwritten

poll_io ==
  /\ WriteMore \/ WriteAndFlush \/ FlushOnly \/ ShutdownOnly
  /\ UNCHANGED <<is_write_vectored, received>>

-----------------------------------------------------------------------------
(* The relay that owns it *)

\* Credit covers the window beyond what was flushed, so the receive stream
\* hands over no byte past it.
Credit == flushed_offset + window_bytes

Total(lengths) == FoldLeft(LAMBDA a, b : a + b, 0, lengths)

\* The next bytes of the stream, in chunks of these lengths.
Batch(lengths) ==
  [i \in DOMAIN lengths |->
     [j \in 1 .. lengths[i] |-> received + Total(SubSeq(lengths, 1, i - 1)) + j - 1]]

BatchLengths ==
  {lengths \in UNION {[1 .. k -> 0 .. window_bytes] : k \in 1 .. MaxBatchChunks} :
     Total(lengths) <= window_bytes}

ReceiveBatch(lengths) ==
  /\ ~shutdown_requested
  /\ received + Total(lengths) <= Min({Credit, TotalBytes})
  /\ received' = received + Total(lengths)
  /\ append_batch(Batch(lengths))
  /\ UNCHANGED <<delivered_offset, flush_pending, flushed_offset, flushing, phases,
                 is_write_vectored, target, target_flushed>>

\* The client relay asks for a flush after a frame that delivered nothing.
request_empty_flush ==
  /\ ~shutdown_requested /\ ~shutdown /\ is_empty
  /\ flushing' = TRUE /\ flush_pending' = TRUE
  /\ UNCHANGED <<batches, ring, pending_bytes, delivered_offset, flushed_offset, phases,
                 is_write_vectored, received, target, target_flushed>>

\* The remote FIN is in and every byte before it was appended.
request_shutdown ==
  /\ ~shutdown_requested
  /\ shutdown_requested' = TRUE
  /\ UNCHANGED <<batches, ring, pending_bytes, delivered_offset, flush_pending, flushed_offset,
                 flushing, shutting_down, shutdown, is_write_vectored, received, target,
                 target_flushed>>

Next ==
  \/ \E lengths \in BatchLengths : ReceiveBatch(lengths)
  \/ request_empty_flush
  \/ request_shutdown
  \/ poll_io

\* The relay polls the delivery in every turn of a fair select while it has
\* work, and a target that is not broken accepts bytes, flushes and shuts down
\* in the end.
Fairness ==
  /\ WF_vars(poll_io /\ delivered_offset' > delivered_offset)
  /\ WF_vars(poll_io /\ flushing /\ ~flushing')
  /\ WF_vars(poll_io /\ shutdown')

Spec == Init /\ [][Next]_vars /\ Fairness

-----------------------------------------------------------------------------
(* Properties *)

TypeOK ==
  /\ active_index \in 0 .. Len(active) /\ active_offset \in 0 .. window_bytes
  /\ \A i \in DOMAIN active : active[i] \in Seq(0 .. TotalBytes - 1)
  /\ deferred \in Seq(0 .. TotalBytes - 1) /\ Len(deferred) <= window_bytes
  /\ {active_bytes, deferred_offset, deferred_len, pending_bytes} \subseteq 0 .. window_bytes
  /\ {delivered_offset, flushed_offset, received, target_flushed} \subseteq 0 .. TotalBytes
  /\ {flush_pending, flushing, shutdown_requested, shutting_down, shutdown, is_write_vectored}
       \subseteq BOOLEAN
  /\ target \in Seq(0 .. TotalBytes - 1)

\* The bytes that are still owned: the rest of the active batch, then the ring.
Unsent ==
  (IF active_bytes = 0 THEN <<>>
   ELSE LET rest == SubSeq(active, active_index + 1, Len(active))
        IN SubSeq(Concat(rest), active_offset + 1, Len(Concat(rest))))
  \o RingBytes(deferred, deferred_offset, deferred_len)

\* Whatever the batches, short writes, wraps and growths of the ring were, the
\* target got a prefix of the stream and the rest of it is still owned, in order,
\* as the counters that poll_write_with_limit and append_batch trust say.
NothingLostOrMoved ==
  /\ TypeOK
  /\ target \o Unsent = [i \in 1 .. received |-> i - 1]
  /\ pending_bytes = Len(Unsent)
  /\ delivered_offset = Len(target)
  /\ deferred_len > 0 => deferred_offset < Len(deferred)

\* Credit is given for flushed bytes only, therefore everything the peer may
\* send fits: append_batch never fails with "exceeds the existing receive
\* window", and the ring never has to grow past the window.  The unflushed
\* bytes stay within a quantum, and a write always has budget (the subtraction
\* and the debug_assert in poll_io).
CreditFitsWindow ==
  /\ flushed_offset <= target_flushed
  /\ pending_bytes + (Credit - received) <= window_bytes
  /\ delivered_offset - flushed_offset <= quantum_bytes
  /\ WritePhase => write_budget > 0

\* The target is shut down after the last byte was written and flushed.
ShutdownAfterLastByte ==
  shutting_down => is_empty /\ target_flushed = received /\ flushed_offset = received

\* What was received is flushed in the end, so credit returns to the peer; and a
\* requested shutdown completes.
DeliveryCompletes ==
  /\ \A n \in 1 .. TotalBytes : received = n ~> flushed_offset >= n
  /\ shutdown_requested ~> shutdown
=============================================================================
