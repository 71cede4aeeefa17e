--------------------------- MODULE StreamTransfer ---------------------------
(***************************************************************************)
(* One direction of a stream end to end: the sending relay actor with its  *)
(* ReliableSendStream, the receiving relay actor with its                  *)
(* ReliableRecvStream and target, the feedback state that carrier tasks    *)
(* publish from on their own, and the carriers.                            *)
(*                                                                         *)
(* Every carrier is ordered until it fails, but a stream uses several, a   *)
(* frame may be copied to more than one, and a failing carrier loses what  *)
(* it holds.  Together they are the set of frames that were ever sent: one *)
(* of them may arrive at any time, again, or never.                        *)
(***************************************************************************)
EXTENDS ReliableSend, ReliableRecv

CONSTANT max_stream_window_bytes

\* stream_resource_limit_bytes of reliable_bulk_product_windows.
Window == Max({1, Min({max_stream_window_bytes, max_repair_bytes, max_reorder_bytes})})

\* The chunk ceilings are counted in frames and ranges, the windows in bytes.
\* With these a stream of single bytes stays below every ceiling.
ASSUME CeilingsCoverWindow ==
  /\ max_stream_window_bytes \in 1 .. U64Max
  /\ max_repair_bytes # 0 /\ max_reorder_bytes # 0
  /\ max_reinjection_cache_chunks >= max_repair_bytes
  /\ max_reorder_buffer_chunks >= Window
  /\ max_retained_receive_ranges >= Window + 1

VARIABLES
  local_open,       \* the source may still have bytes that are not assigned
  flushed_offset,                                         \* ServerTargetIo
  remote_open, pending_remote_fin_offset,
  max_data_offset, admitted_max_data_offset,              \* ResponseStreamOutputs
  data, fins, acks, credits,                              \* frames sent
  failed                                                  \* an actor ended with an error

recv_half == <<next_offset, reorder_bytes, buffered, received_ranges, ack_high_water, delivered>>
target == <<flushed_offset, remote_open, pending_remote_fin_offset>>
feedback == <<max_data_offset, admitted_max_data_offset>>
network == <<data, fins, acks, credits>>
vars == <<send_vars, local_open, recv_half, published_max_offset, target, feedback, network,
          failed>>

None == -1

Init ==
  /\ SendInit /\ max_offset = Window
  /\ local_open = TRUE
  /\ next_offset = 0 /\ published_max_offset = Window /\ reorder_bytes = 0
  /\ buffered = {} /\ received_ranges = {} /\ ack_high_water = 0 /\ delivered = <<>>
  /\ flushed_offset = 0 /\ remote_open = TRUE /\ pending_remote_fin_offset = None
  /\ max_data_offset = Window /\ admitted_max_data_offset = Window
  /\ data = {} /\ fins = {} /\ acks = {} /\ credits = {}
  /\ failed = FALSE

-----------------------------------------------------------------------------
(* The sending actor *)

SendData(len) ==
  /\ local_open
  /\ send_data(len)
  /\ data' = data \cup {Prepared(len)}
  /\ UNCHANGED <<local_open, recv_half, published_max_offset, target, feedback,
                 fins, acks, credits, failed>>

\* Recovery may pick any retained range; what it sends is a retained slice.
Reinject(range, byte_limit) ==
  LET frames == first_retransmission_frame_for_range(range, byte_limit)
  IN /\ frames # <<>>
     /\ data' = data \cup Range(frames)
     /\ UNCHANGED <<send_vars, local_open, recv_half, published_max_offset, target, feedback,
                    fins, acks, credits, failed>>

\* EOF of the source, once every byte read before it has been assigned: the
\* code clears its own local_open at the EOF, goes on assigning, and queues the
\* FIN when the sender queue is empty.
LocalEof ==
  /\ local_open
  /\ local_open' = FALSE
  /\ UNCHANGED <<send_vars, recv_half, published_max_offset, target, feedback, network, failed>>

\* The FIN, its terminal replay, and the FIN of a new attachment.
SendFin ==
  /\ ~local_open
  /\ fins' = fins \cup {send_next}
  /\ UNCHANGED <<send_vars, local_open, recv_half, published_max_offset, target, feedback,
                 data, acks, credits, failed>>

HandleAck(ack) ==
  /\ IF validate_stream_ack(ack)
        /\ (subsumes(reinjection_cache, gaps, ack) \/ ~TooManyReinjectionCacheChunks(ack))
     THEN apply_stream_ack(ack) /\ failed' = FALSE
     ELSE failed' = TRUE /\ UNCHANGED send_vars
  /\ UNCHANGED <<local_open, recv_half, published_max_offset, target, feedback, network>>

HandleMaxData(m) ==
  /\ update_max_offset(m)
  /\ UNCHANGED <<local_open, recv_half, published_max_offset, target, feedback, network, failed>>

-----------------------------------------------------------------------------
(* The receiving actor *)

\* Mutant of Reconciled: only the credit the actor itself published counts.
ReconciledLate == published_max_offset

\* The credit that carrier tasks admitted is committed before DATA is judged.
Reconciled == Max({published_max_offset, admitted_max_data_offset})

BeyondFinal(r) ==
  pending_remote_fin_offset # None /\ r.end > pending_remote_fin_offset

DataRefused(r) ==
  IF remote_open THEN BeyondFinal(r) \/ Rejected(r, Reconciled)
  ELSE r.end > next_offset

ReceiveData(r) ==
  /\ failed' = DataRefused(r)
  /\ published_max_offset' = IF remote_open THEN Reconciled ELSE published_max_offset
  /\ IF DataRefused(r) \/ ~remote_open THEN UNCHANGED recv_half
     ELSE Receive(r, Reconciled)
  /\ UNCHANGED <<send_vars, local_open, target, feedback, network>>

FinRefused(final) ==
  \/ final < largest_end(received_ranges)
  \/ ~remote_open /\ final # next_offset
  \/ /\ remote_open
     /\ pending_remote_fin_offset # None /\ pending_remote_fin_offset # final

receive_stream_fin(final) ==
  /\ failed' = FinRefused(final)
  /\ pending_remote_fin_offset' =
       IF remote_open /\ ~FinRefused(final) THEN final ELSE pending_remote_fin_offset
  /\ UNCHANGED <<send_vars, local_open, recv_half, published_max_offset, flushed_offset,
                 remote_open, feedback, network>>

\* The target flushed more bytes: the grant the actor retains moves with it.
TargetFlush(offset) ==
  /\ offset > flushed_offset
  /\ flushed_offset' = offset
  /\ max_data_offset' = Max({max_data_offset, published_max_offset, Min({offset + Window, U64Max})})
  /\ UNCHANGED <<send_vars, local_open, recv_half, published_max_offset, remote_open,
                 pending_remote_fin_offset, admitted_max_data_offset, network, failed>>

\* Mutant of TargetShutdown: the final offset of the FIN is not waited for.
ShutdownOnFin ==
  /\ remote_open
  /\ pending_remote_fin_offset # None
  /\ flushed_offset = next_offset
  /\ remote_open' = FALSE
  /\ pending_remote_fin_offset' = None
  /\ UNCHANGED <<send_vars, local_open, recv_half, published_max_offset, flushed_offset,
                 feedback, network, failed>>

\* The target is shut down at the flushed final offset.
TargetShutdown ==
  /\ remote_open
  /\ pending_remote_fin_offset = next_offset
  /\ flushed_offset = next_offset
  /\ remote_open' = FALSE
  /\ pending_remote_fin_offset' = None
  /\ UNCHANGED <<send_vars, local_open, recv_half, published_max_offset, flushed_offset,
                 feedback, network, failed>>

\* One ACK publication: outputs that are up to date get the increment, the
\* others, now or when they attach, the cumulative frames.  The server publishes
\* after each batch, the client at a threshold or by timer: here at any time.
PublishAck ==
  LET frames == ack_frames \cup ack_update
  IN /\ acks' = acks \cup frames
     /\ take_ack_update
     /\ UNCHANGED <<send_vars, local_open, target, feedback, data, fins, credits, failed>>

-----------------------------------------------------------------------------
(* Carrier tasks *)

\* Mutant of AdmitMaxData: the admission is not recorded.
AdmitUnrecorded ==
  /\ credits' = credits \cup {max_data_offset}
  /\ UNCHANGED <<send_vars, local_open, recv_half, published_max_offset, target, feedback,
                 data, fins, acks, failed>>

\* A carrier admits the retained grant, on the actor's behalf or on its own
\* when it attaches or regains capacity.
AdmitMaxData ==
  /\ credits' = credits \cup {max_data_offset}
  /\ admitted_max_data_offset' = Max({admitted_max_data_offset, max_data_offset})
  /\ UNCHANGED <<send_vars, local_open, recv_half, published_max_offset, target,
                 max_data_offset, data, fins, acks, failed>>

Next ==
  /\ ~failed
  /\ \/ \E len \in 1 .. max_payload_bytes : SendData(len)
     \/ \E r \in RangesBelow(send_next), limit \in 1 .. max_payload_bytes : Reinject(r, limit)
     \/ LocalEof
     \/ SendFin
     \/ \E f \in acks : HandleAck(f)
     \/ \E m \in credits : HandleMaxData(m)
     \/ \E r \in data : ReceiveData(r)
     \/ \E final \in fins : receive_stream_fin(final)
     \/ \E offset \in 0 .. next_offset : TargetFlush(offset)
     \/ TargetShutdown
     \/ PublishAck
     \/ AdmitMaxData

Spec == Init /\ [][Next]_vars

-----------------------------------------------------------------------------
(* Properties *)

\* Two relay actors that follow the code never end each other's stream: no
\* DATA is beyond the credit or the declared final offset or overflows the
\* reorder state, no FIN conflicts, and no ACK is beyond the assigned bytes,
\* whatever is delayed, repeated or lost and whichever task admitted a grant.
NoProtocolFailure == ~failed

\* A byte the sender has let go of is at the receiver: what the ACKs released
\* was received, and every assigned byte is retained or received.  The sender
\* never passes a grant that some carrier admitted, and the target queue of the
\* receiver (append_batch) never exceeds its window.
NothingLostOrOverrun ==
  /\ acked \subseteq Received
  /\ 0 .. send_next - 1 \subseteq Retained \cup Received
  /\ send_next <= max_offset
  /\ max_offset <= admitted_max_data_offset
  /\ next_offset - flushed_offset <= Window

\* The direction implements a bounded byte pipe between the applications: the
\* target is given the source's bytes once and in order, never more than the
\* window ahead of its flushes, and is half-closed only after the source ended
\* and every byte was flushed, even when the FIN overtakes DATA on a carrier.
Pipe == INSTANCE BytePipe
  WITH Capacity <- Window,
       written <- [i \in 1 .. send_next |-> i - 1],
       read <- SubSeq(delivered, 1, flushed_offset),
       closed <- ~local_open,
       ended <- ~remote_open

ImplementsPipe == Pipe!PipeSpec
=============================================================================
