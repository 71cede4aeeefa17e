------------------------ MODULE StreamTransferProofs ------------------------
(***************************************************************************)
(* Theorems about one direction of a stream end to end, for every value of *)
(* the limits under which the ceilings cover the window.                   *)
(***************************************************************************)
EXTENDS StreamTransfer, ReliableSendProofs, ReliableRecvProofs

\* What is on the carriers: DATA of assigned bytes, and ACKs that list nothing
\* but received bytes, with a scope that validate_stream_ack accepts.
AckFrames == [scope_start : {None} \cup 0 .. U64Max, ranges : SUBSET RangesBelow(U64Max)]

CarriersSound ==
  /\ \A r \in data : r \in RangesBelow(send_next) /\ Length(r) <= max_payload_bytes
  /\ Received \in SUBSET (0 .. send_next - 1)
  /\ acked \in SUBSET Received
  /\ \A f \in acks :
       /\ f \in AckFrames
       /\ Covered(f.ranges) \in SUBSET Received
       /\ f.scope_start # None => \E r \in f.ranges : f.scope_start < r.end

\* Credit only ever comes from the flushed offset: what the sender may use was
\* admitted by a carrier, what was admitted was granted by the actor.
CreditChain ==
  /\ flushed_offset \in 0 .. next_offset
  /\ max_data_offset \in 0 .. U64Max
  /\ max_data_offset <= flushed_offset + Window
  /\ admitted_max_data_offset \in 0 .. max_data_offset
  /\ published_max_offset <= max_data_offset
  /\ \A m \in credits : m \in 0 .. admitted_max_data_offset
  /\ max_offset <= admitted_max_data_offset

\* Both sides agree on where the stream ends.
EndAgreed ==
  /\ local_open \in BOOLEAN /\ remote_open \in BOOLEAN
  /\ fins \in SUBSET {send_next}
  /\ fins # {} => ~local_open
  /\ pending_remote_fin_offset # None => pending_remote_fin_offset = send_next /\ ~local_open
  /\ ~remote_open => flushed_offset = send_next /\ ~local_open

\* The inductive invariant of the direction.
TransferInv ==
  /\ SendInv /\ RecvInv
  /\ CarriersSound /\ CreditChain /\ EndAgreed
  /\ failed = FALSE

-----------------------------------------------------------------------------
(* The limits *)

\* The window is within every byte limit.
LEMMA WindowFits ==
  /\ Window \in Nat /\ 1 <= Window /\ Window <= U64Max
  /\ Window <= max_repair_bytes /\ Window <= max_reorder_bytes
<1>. DEFINE a == max_stream_window_bytes
            b == max_repair_bytes
            c == max_reorder_bytes
<1>1. a \in Nat /\ b \in Nat /\ c \in Nat /\ 1 <= a /\ 1 <= b /\ 1 <= c /\ a <= U64Max
      /\ U64Max \in Nat
  BY CeilingsCoverWindow, SendLimits, RecvLimits
<1>. HIDE DEF a, b, c
<1>2. PICK m \in {a, b, c} : \A y \in {a, b, c} : m <= y
  BY <1>1
<1>3. Min({a, b, c}) = m
  BY <1>1, <1>2 DEF Min
<1>4. Max({1, m}) = m
  BY <1>1, <1>2 DEF Max
<1>5. Window = m
  BY <1>3, <1>4 DEF Window, a, b, c
<1>6. m <= a /\ m <= b /\ m <= c /\ m \in Nat /\ 1 <= m
  BY <1>1, <1>2
<1>. QED
  BY <1>1, <1>5, <1>6 DEF a, b, c

-----------------------------------------------------------------------------
\* What the proofs about the steps start from.
LEMMA TransferFacts ==
  ASSUME TransferInv
  PROVE  /\ U64Max \in Nat /\ Window \in Nat
         /\ send_next \in 0 .. U64Max /\ max_offset \in 0 .. U64Max /\ send_next <= max_offset
         /\ next_offset \in Nat /\ published_max_offset \in 0 .. U64Max
         /\ 0 .. next_offset - 1 \subseteq Received
         /\ next_offset <= send_next
         /\ flushed_offset \in 0 .. next_offset
         /\ max_data_offset \in 0 .. U64Max /\ max_data_offset <= flushed_offset + Window
         /\ admitted_max_data_offset \in 0 .. max_data_offset
         /\ max_offset <= admitted_max_data_offset
         /\ delivered = [i \in 1 .. next_offset |-> i - 1]
<1>1. U64Max \in Nat /\ Window \in Nat
  BY RecvLimits, WindowFits
<1>2. send_next \in 0 .. U64Max /\ max_offset \in 0 .. U64Max /\ send_next <= max_offset
  BY DEF TransferInv, SendInv, SendTypeOK, WithinCredit
<1>3. /\ next_offset \in 0 .. U64Max /\ published_max_offset \in 0 .. U64Max
      /\ Received = (0 .. next_offset - 1) \cup Covered(buffered)
      /\ delivered = [i \in 1 .. next_offset |-> i - 1]
  BY DEF TransferInv, RecvInv, DeliveredOnceInOrder, ReorderStateExact, RecvTypeOK
<1>4. 0 .. next_offset - 1 \subseteq 0 .. send_next - 1 /\ 0 .. next_offset - 1 \subseteq Received
  BY <1>3 DEF TransferInv, CarriersSound
<1>5. next_offset <= send_next
  BY <1>2, <1>3, <1>4
<1>. QED
  BY <1>1, <1>2, <1>3, <1>4, <1>5 DEF TransferInv, CreditChain

\* A half that a step leaves alone keeps its invariant.
LEMMA SendUnchanged ==
  ASSUME SendInv, UNCHANGED send_vars
  PROVE  SendInv'
BY NextSendInv

LEMMA RecvUnchanged ==
  ASSUME RecvInv, UNCHANGED <<recv_half, published_max_offset>>
  PROVE  RecvInv'
<1>1. UNCHANGED recv_vars
  BY DEF recv_vars, recv_half
<1>. QED
  BY <1>1, NextPreserves

\* A stream that has just been opened.
LEMMA InitTransfer ==
  ASSUME Init
  PROVE  TransferInv
<1>1. Window \in 0 .. U64Max /\ U64Max \in Nat
  BY WindowFits, RecvLimits
<1>2. SendInv
  BY InitSendInv DEF Init
<1>3. RecvInv
  <2>1. Fresh /\ published_max_offset \in 0 .. U64Max
    BY <1>1 DEF Init, Fresh
  <2>. QED
    BY <2>1, FreshRecvInv
<1>4. send_next = 0 /\ acked = {} /\ Received = {}
  BY DEF Init, SendInit, Received, Covered
<1>5. CarriersSound
  BY <1>4 DEF Init, CarriersSound
<1>6. CreditChain /\ EndAgreed /\ failed = FALSE
  BY <1>1, <1>4 DEF Init, CreditChain, EndAgreed
<1>. QED
  BY <1>2, <1>3, <1>5, <1>6 DEF TransferInv

-----------------------------------------------------------------------------
(* The steps *)

LEMMA HalvesUnchanged ==
  ASSUME TransferInv, UNCHANGED <<send_vars, recv_half, published_max_offset>>
  PROVE  /\ SendInv' /\ RecvInv' /\ Received' = Received
         /\ UNCHANGED <<send_next, max_offset, acked, next_offset, published_max_offset>>
BY SendUnchanged, RecvUnchanged DEF TransferInv, Received, send_vars, recv_half

\* The steps that touch neither half and read no frame.
LEMMA QuietStep ==
  ASSUME TransferInv, LocalEof \/ SendFin \/ TargetShutdown \/ AdmitMaxData
  PROVE  TransferInv'
<1>. /\ send_next \in Nat /\ next_offset \in Nat /\ next_offset <= send_next
     /\ U64Max \in Nat /\ max_offset \in Nat /\ max_offset <= admitted_max_data_offset
     /\ max_data_offset \in 0 .. U64Max /\ admitted_max_data_offset \in 0 .. max_data_offset
     /\ flushed_offset \in 0 .. next_offset
  BY TransferFacts
<1>. /\ UNCHANGED <<send_vars, recv_half, published_max_offset>>
     /\ UNCHANGED <<data, acks, failed, flushed_offset, max_data_offset>>
  BY DEF LocalEof, SendFin, TargetShutdown, AdmitMaxData, target, feedback, network
<1>. /\ SendInv' /\ RecvInv' /\ Received' = Received
     /\ UNCHANGED <<send_next, max_offset, acked, next_offset, published_max_offset>>
  BY HalvesUnchanged
<1>1. CarriersSound'
  BY DEF TransferInv, CarriersSound
<1>2. CreditChain'
  <2>1. \/ UNCHANGED <<admitted_max_data_offset, credits>>
        \/ /\ admitted_max_data_offset' = max_data_offset
           /\ credits' = credits \cup {max_data_offset}
    BY MaxOfTwo DEF LocalEof, SendFin, TargetShutdown, AdmitMaxData, feedback, network
  <2>. QED
    BY <2>1 DEF TransferInv, CreditChain
<1>3. EndAgreed'
  <2>. EndAgreed
    BY DEF TransferInv
  <2>1. CASE LocalEof
    BY <2>1, Zenon DEF EndAgreed, LocalEof, target, network
  <2>2. CASE SendFin
    BY <2>2 DEF EndAgreed, SendFin, target
  <2>3. CASE TargetShutdown
    <3>1. /\ pending_remote_fin_offset = next_offset /\ flushed_offset = next_offset
          /\ pending_remote_fin_offset' = None /\ remote_open' = FALSE
          /\ UNCHANGED <<local_open, fins>>
      BY <2>3 DEF TargetShutdown, network
    <3>2. next_offset # None
      BY DEF None
    <3>3. flushed_offset = send_next /\ ~local_open
      BY <3>1, <3>2 DEF EndAgreed
    <3>. QED
      BY <3>1, <3>3, Zenon DEF EndAgreed
  <2>4. CASE AdmitMaxData
    BY <2>4 DEF EndAgreed, AdmitMaxData, target
  <2>. QED
    BY <2>1, <2>2, <2>3, <2>4
<1>. QED
  BY <1>1, <1>2, <1>3 DEF TransferInv

LEMMA MinOfTwo ==
  ASSUME NEW a \in Int, NEW b \in Int
  PROVE  Min({a, b}) = IF a <= b THEN a ELSE b
BY DEF Min

LEMMA MaxOfThree ==
  ASSUME NEW a \in Int, NEW b \in Int, NEW c \in Int
  PROVE  /\ Max({a, b, c}) \in {a, b, c}
         /\ a <= Max({a, b, c}) /\ b <= Max({a, b, c}) /\ c <= Max({a, b, c})
<1>1. PICK m \in {a, b, c} : \A y \in {a, b, c} : m >= y
  OBVIOUS
<1>2. Max({a, b, c}) = m
  BY <1>1 DEF Max
<1>. QED
  BY <1>1, <1>2

\* A flush moves the grant, and with it all that may still be admitted.
LEMMA FlushStep ==
  ASSUME TransferInv, NEW offset \in 0 .. next_offset, TargetFlush(offset)
  PROVE  TransferInv'
<1>. /\ U64Max \in Nat /\ Window \in Nat /\ send_next \in Nat
     /\ next_offset \in Nat /\ next_offset <= send_next /\ flushed_offset \in 0 .. next_offset
     /\ published_max_offset \in 0 .. U64Max /\ max_data_offset \in 0 .. U64Max
     /\ max_data_offset <= flushed_offset + Window
     /\ admitted_max_data_offset \in 0 .. max_data_offset
  BY TransferFacts
<1>. DEFINE grant == Min({offset + Window, U64Max})
<1>. /\ UNCHANGED <<send_vars, recv_half, published_max_offset>>
     /\ UNCHANGED <<data, acks, failed, fins, credits, local_open, remote_open,
                    pending_remote_fin_offset, admitted_max_data_offset>>
     /\ flushed_offset' = offset /\ offset > flushed_offset
     /\ max_data_offset' = Max({max_data_offset, published_max_offset, grant})
  BY DEF TargetFlush, network
<1>. /\ SendInv' /\ RecvInv' /\ Received' = Received
     /\ UNCHANGED <<send_next, max_offset, acked, next_offset, published_max_offset>>
  BY HalvesUnchanged
<1>1. grant \in 0 .. U64Max /\ grant <= offset + Window
  BY MinOfTwo
<1>. HIDE DEF grant
<1>2. /\ max_data_offset' \in 0 .. U64Max /\ max_data_offset' >= max_data_offset
      /\ max_data_offset' <= offset + Window
  <2>1. /\ max_data_offset' \in {max_data_offset, published_max_offset, grant}
        /\ max_data_offset' >= max_data_offset
    <3>1. max_data_offset \in Int /\ published_max_offset \in Int /\ grant \in Int
      BY <1>1
    <3>. QED
      BY <3>1, MaxOfThree, Zenon
  <2>. QED
    BY <1>1, <2>1 DEF TransferInv, CreditChain
<1>3. CarriersSound' /\ EndAgreed'
  BY DEF TransferInv, CarriersSound, EndAgreed
<1>4. CreditChain'
  BY <1>2 DEF TransferInv, CreditChain
<1>. QED
  BY <1>3, <1>4 DEF TransferInv

\* A FIN states the end of the assigned bytes: no FIN is refused.
LEMMA FinStep ==
  ASSUME TransferInv, NEW final \in fins, receive_stream_fin(final)
  PROVE  TransferInv'
<1>. /\ U64Max \in Nat /\ send_next \in Nat /\ next_offset \in Nat /\ next_offset <= send_next
     /\ flushed_offset \in 0 .. next_offset
  BY TransferFacts
<1>. /\ UNCHANGED <<send_vars, recv_half, published_max_offset>>
     /\ UNCHANGED <<local_open, flushed_offset, remote_open, max_data_offset,
                    admitted_max_data_offset, data, fins, acks, credits>>
  BY DEF receive_stream_fin, feedback, network
<1>. /\ SendInv' /\ RecvInv' /\ Received' = Received
     /\ UNCHANGED <<send_next, max_offset, acked, next_offset, published_max_offset>>
  BY HalvesUnchanged
<1>1. largest_end(received_ranges) \in 0 .. send_next
  <2>1. ASSUME NEW q \in received_ranges PROVE q.end \in 0 .. send_next
    <3>1. q.start \in Nat /\ q.end \in Nat /\ q.start < q.end
      BY DEF TransferInv, RecvInv, NodesBelow
    <3>2. q.end - 1 \in Received
      BY <3>1 DEF Received, Covered, Bytes
    <3>. QED
      BY <3>1, <3>2 DEF TransferInv, CarriersSound
  <2>. QED
    BY <2>1, LargestEnd
<1>2. final = send_next /\ ~local_open
  BY DEF TransferInv, EndAgreed
<1>3. ~FinRefused(final)
  BY <1>1, <1>2 DEF FinRefused, TransferInv, EndAgreed
<1>4. failed' = FALSE /\ pending_remote_fin_offset' \in {pending_remote_fin_offset, send_next}
  BY <1>2, <1>3 DEF receive_stream_fin
<1>5. CarriersSound' /\ CreditChain'
  BY DEF TransferInv, CarriersSound, CreditChain
<1>6. EndAgreed'
  BY <1>2, <1>4 DEF TransferInv, EndAgreed
<1>. QED
  BY <1>4, <1>5, <1>6 DEF TransferInv

\* DATA of the next bytes, within the credit.
LEMMA SendDataStep ==
  ASSUME TransferInv, NEW len \in 1 .. max_payload_bytes, SendData(len)
  PROVE  TransferInv'
<1>. /\ U64Max \in Nat /\ max_payload_bytes \in Nat /\ send_next \in Nat /\ max_offset \in Nat
     /\ next_offset \in Nat /\ next_offset <= send_next /\ flushed_offset \in 0 .. next_offset
  BY TransferFacts, SendLimits
<1>. DEFINE f == OffsetRange(send_next, send_next + len)
<1>. /\ send_next' = send_next + len /\ data' = data \cup {f}
     /\ UNCHANGED <<max_offset, acked, recv_half, published_max_offset, flushed_offset, remote_open,
                    pending_remote_fin_offset, max_data_offset, admitted_max_data_offset,
                    fins, acks, credits, failed, local_open>>
     /\ local_open
  BY DEF SendData, send_data, BecomesStream, commit_prepared_data, Stream,
      Prepared, target, feedback, OffsetRange
<1>1. SendInv'
  BY SendPreserves DEF SendData, TransferInv
<1>2. RecvInv' /\ Received' = Received /\ next_offset' = next_offset
  BY RecvUnchanged DEF TransferInv, Received, recv_half
<1>3. CarriersSound'
  <2>1. f \in RangesBelow(send_next + len) /\ Length(f) <= max_payload_bytes
    BY DEF OffsetRange, RangesBelow, Length
  <2>2. \A r \in RangesBelow(send_next) : r \in RangesBelow(send_next + len)
    BY DEF RangesBelow
  <2>3. Received \in SUBSET (0 .. send_next + len - 1)
    BY DEF TransferInv, CarriersSound
  <2>. QED
    BY <1>2, <2>1, <2>2, <2>3 DEF TransferInv, CarriersSound
<1>4. CreditChain'
  BY <1>2 DEF TransferInv, CreditChain
<1>5. EndAgreed'
  BY DEF TransferInv, EndAgreed
<1>. QED
  BY <1>1, <1>2, <1>3, <1>4, <1>5 DEF TransferInv

\* DATA again, cut from what is retained.
LEMMA ReinjectStep ==
  ASSUME TransferInv, NEW range \in RangesBelow(send_next),
         NEW limit \in 1 .. max_payload_bytes, Reinject(range, limit)
  PROVE  TransferInv'
<1>. max_payload_bytes \in Nat
  BY SendLimits
<1>1. PICK f \in RangesBelow(send_next) :
        /\ first_retransmission_frame_for_range(range, limit) = <<f>>
        /\ Length(f) <= limit
  BY ReinjectedFrame DEF TransferInv, Reinject
<1>2. Length(f) <= max_payload_bytes
  BY <1>1 DEF Length, RangesBelow
<1>. /\ data' = data \cup {f}
     /\ UNCHANGED <<send_vars, recv_half, published_max_offset>>
     /\ UNCHANGED <<local_open, flushed_offset, remote_open, pending_remote_fin_offset,
                    max_data_offset, admitted_max_data_offset, fins, acks, credits, failed>>
  BY <1>1 DEF Reinject, Range, target, feedback
<1>. /\ SendInv' /\ RecvInv' /\ Received' = Received
     /\ UNCHANGED <<send_next, max_offset, acked, next_offset, published_max_offset>>
  BY HalvesUnchanged
<1>3. CarriersSound'
  BY <1>2 DEF TransferInv, CarriersSound
<1>4. CreditChain' /\ EndAgreed'
  BY DEF TransferInv, CreditChain, EndAgreed
<1>. QED
  BY <1>3, <1>4 DEF TransferInv

\* An ACK is accepted, whatever it is late for, and frees received bytes.
LEMMA AckStep ==
  ASSUME TransferInv, NEW ack \in acks, HandleAck(ack)
  PROVE  TransferInv'
<1>. /\ ack \in AckFrames /\ Covered(ack.ranges) \in SUBSET Received
     /\ Received \in SUBSET (0 .. send_next - 1)
     /\ ack.scope_start # None => \E r \in ack.ranges : ack.scope_start < r.end
  BY DEF TransferInv, CarriersSound
<1>1. validate_stream_ack(ack) /\ ~TooManyReinjectionCacheChunks(ack)
  <2>1. /\ ack.ranges \in SUBSET RangesBelow(U64Max)
        /\ Covered(ack.ranges) \subseteq 0 .. send_next - 1
        /\ ack.scope_start # NoScope => \E r \in ack.ranges : ack.scope_start < r.end
    BY Zenon DEF AckFrames, NoScope, None
  <2>2. max_repair_bytes <= max_reinjection_cache_chunks
    BY CeilingsCoverWindow
  <2>. QED
    BY <2>1, <2>2, AckAccepted DEF TransferInv
<1>2. apply_stream_ack(ack) /\ failed' = FALSE
  BY <1>1 DEF HandleAck
<1>3. SendInv'
  <2>1. ack.ranges \in WireLists
    BY DEF AckFrames, RangesBelow, WireLists
  <2>. QED
    BY <1>2, <2>1, AckPreserves DEF TransferInv
<1>. /\ acked' = acked \cup Covered(ack.ranges) /\ send_next' = send_next /\ max_offset' = max_offset
  BY <1>2, SMTT(30) DEF apply_stream_ack
<1>. UNCHANGED <<recv_half, published_max_offset, local_open, flushed_offset, remote_open,
                 pending_remote_fin_offset, max_data_offset, admitted_max_data_offset,
                 data, fins, acks, credits>>
  BY DEF HandleAck, target, feedback, network
<1>4. RecvInv' /\ Received' = Received /\ next_offset' = next_offset
  BY RecvUnchanged, Zenon DEF TransferInv, Received, recv_half
<1>5. CarriersSound'
  BY <1>4, Zenon DEF TransferInv, CarriersSound
<1>6. CreditChain' /\ EndAgreed'
  BY <1>4 DEF TransferInv, CreditChain, EndAgreed
<1>. QED
  BY <1>2, <1>3, <1>4, <1>5, <1>6 DEF TransferInv

\* The credit the sender learns was admitted by a carrier.
LEMMA CreditStep ==
  ASSUME TransferInv, NEW m \in credits, HandleMaxData(m)
  PROVE  TransferInv'
<1>. /\ U64Max \in Nat /\ max_offset \in Nat /\ max_data_offset \in 0 .. U64Max
     /\ admitted_max_data_offset \in 0 .. max_data_offset
     /\ max_offset <= admitted_max_data_offset
  BY TransferFacts
<1>. m \in 0 .. admitted_max_data_offset
  BY DEF TransferInv, CreditChain
<1>1. SendInv'
  BY CreditPreserves DEF TransferInv, HandleMaxData
<1>. max_offset' \in {max_offset, m} /\ UNCHANGED <<send_next, acked>>
  BY MaxOfTwo DEF HandleMaxData, update_max_offset
<1>. UNCHANGED <<recv_half, published_max_offset, local_open, flushed_offset, remote_open,
                 pending_remote_fin_offset, max_data_offset, admitted_max_data_offset,
                 data, fins, acks, credits, failed>>
  BY DEF HandleMaxData, target, feedback, network
<1>2. RecvInv' /\ Received' = Received /\ next_offset' = next_offset
  BY RecvUnchanged DEF TransferInv, Received, recv_half
<1>3. CarriersSound' /\ CreditChain' /\ EndAgreed'
  BY <1>2 DEF TransferInv, CarriersSound, CreditChain, EndAgreed
<1>. QED
  BY <1>1, <1>2, <1>3 DEF TransferInv

\* Every published frame lists received bytes only.
LEMMA PublishStep ==
  ASSUME TransferInv, PublishAck
  PROVE  TransferInv'
<1>. take_ack_update
  BY DEF PublishAck
<1>1. RecvInv'
  BY TakePreserves DEF TransferInv
<1>2. /\ Received' = Received /\ UNCHANGED <<next_offset, published_max_offset, delivered>>
  BY TakeEffects DEF TransferInv
<1>. UNCHANGED <<send_vars, local_open, flushed_offset, remote_open,
                 pending_remote_fin_offset, max_data_offset, admitted_max_data_offset,
                 data, fins, credits, failed>>
  BY DEF PublishAck, target, feedback
<1>3. SendInv' /\ UNCHANGED <<send_next, max_offset, acked>>
  BY SendUnchanged DEF TransferInv, send_vars
<1>4. CarriersSound'
  <2>1. ASSUME NEW f \in ack_frames \cup ack_update
        PROVE  /\ f \in AckFrames /\ Covered(f.ranges) \in SUBSET Received
               /\ f.scope_start # None => \E r \in f.ranges : f.scope_start < r.end
    BY FramesAcceptable DEF TransferInv, AckFrames, NoScope, None
  <2>2. acks' = acks \cup (ack_frames \cup ack_update)
    BY DEF PublishAck
  <2>. QED
    BY <1>2, <1>3, <2>1, <2>2, Zenon DEF TransferInv, CarriersSound
<1>5. CreditChain' /\ EndAgreed'
  BY <1>2, <1>3 DEF TransferInv, CreditChain, EndAgreed
<1>. QED
  BY <1>1, <1>3, <1>4, <1>5 DEF TransferInv

\* No DATA is refused: the credit it was sent under has been reconciled, and
\* what the sender has assigned fits the window above the delivered frontier.
LEMMA DataStep ==
  ASSUME TransferInv, NEW r \in data, ReceiveData(r)
  PROVE  TransferInv'
<1>. /\ U64Max \in Nat /\ Window \in Nat /\ send_next \in Nat /\ max_offset \in Nat
     /\ send_next <= max_offset /\ max_offset <= admitted_max_data_offset
     /\ next_offset \in Nat /\ next_offset <= send_next /\ flushed_offset \in 0 .. next_offset
     /\ published_max_offset \in 0 .. U64Max /\ max_data_offset \in 0 .. U64Max
     /\ max_data_offset <= flushed_offset + Window
     /\ admitted_max_data_offset \in 0 .. max_data_offset
  BY TransferFacts
<1>. /\ published_max_offset <= max_data_offset
     /\ r \in RangesBelow(send_next) /\ Length(r) <= max_payload_bytes
     /\ Received \in SUBSET (0 .. send_next - 1)
  BY DEF TransferInv, CarriersSound, CreditChain
<1>. Reconciled \in 0 .. max_data_offset /\ Reconciled >= admitted_max_data_offset
  BY MaxOfTwo DEF Reconciled
<1>. r \in RangesBelow(U64Max) /\ r.end \in Nat /\ r.end <= send_next
     /\ Bytes(r) \in SUBSET (0 .. send_next - 1)
  BY DEF RangesBelow, Bytes
<1>. UNCHANGED <<send_vars, local_open, flushed_offset, remote_open,
                 pending_remote_fin_offset, max_data_offset, admitted_max_data_offset,
                 data, fins, acks, credits>>
  BY DEF ReceiveData, target, feedback, network
<1>1. SendInv' /\ UNCHANGED <<send_next, max_offset, acked>>
  BY SendUnchanged DEF TransferInv, send_vars
<1>2. /\ failed' = FALSE /\ RecvInv'
      /\ Received' \in {Received, Received \cup Bytes(r)} /\ next_offset' >= next_offset
      /\ published_max_offset' <= max_data_offset
  <2>1. CASE ~remote_open
    <3>1. ~DataRefused(r)
      BY <2>1 DEF DataRefused, TransferInv, EndAgreed
    <3>2. failed' = FALSE /\ UNCHANGED <<recv_half, published_max_offset>>
      BY <2>1, <3>1 DEF ReceiveData
    <3>3. RecvInv' /\ Received' = Received /\ UNCHANGED <<next_offset, published_max_offset>>
      BY <3>2, HalvesUnchanged
    <3>. QED
      BY <3>2, <3>3
  <2>2. CASE remote_open
    <3>1. ~Rejected(r, Reconciled)
      <4>. /\ Window <= max_reorder_bytes /\ Window <= max_reorder_buffer_chunks
           /\ Window + 1 <= max_retained_receive_ranges
        BY WindowFits, CeilingsCoverWindow
      <4>. 0 .. send_next - 1 \subseteq 0 .. next_offset + Window - 1
        OBVIOUS
      <4>. Received \cup Bytes(r) \subseteq 0 .. next_offset + Window - 1
        BY Zenon
      <4>. QED
        BY NotRejected DEF TransferInv
    <3>2. ~DataRefused(r)
      BY <2>2, <3>1 DEF DataRefused, BeyondFinal, TransferInv, EndAgreed
    <3>3. failed' = FALSE /\ published_max_offset' = Reconciled /\ Receive(r, Reconciled)
      BY <2>2, <3>2 DEF ReceiveData
    <3>4. RecvInv'
      BY <3>3, ReceivePreserves DEF TransferInv
    <3>5. next_offset' >= next_offset /\ Received' = Received \cup Bytes(r)
      BY <3>3, ReceiveEffects DEF TransferInv
    <3>. QED
      BY <3>3, <3>4, <3>5
  <2>. QED
    BY <2>1, <2>2, Zenon DEF TransferInv, EndAgreed
<1>3. next_offset' \in Nat
  BY <1>2 DEF RecvInv, DeliveredOnceInOrder, ReorderStateExact, RecvTypeOK
<1>4. CarriersSound'
  BY <1>1, <1>2, Zenon DEF TransferInv, CarriersSound
<1>5. CreditChain'
  BY <1>1, <1>2, <1>3 DEF TransferInv, CreditChain
<1>6. EndAgreed'
  BY <1>1 DEF TransferInv, EndAgreed
<1>. QED
  BY <1>1, <1>2, <1>4, <1>5, <1>6 DEF TransferInv

LEMMA NextTransfer ==
  ASSUME TransferInv, [Next]_vars
  PROVE  TransferInv'
<1>1. CASE UNCHANGED vars
  <2>. UNCHANGED <<send_vars, recv_half, published_max_offset, target, feedback, network>>
       /\ UNCHANGED <<failed, local_open>>
    BY <1>1 DEF vars
  <2>. /\ SendInv' /\ RecvInv' /\ Received' = Received
       /\ UNCHANGED <<send_next, max_offset, acked, next_offset, published_max_offset>>
    BY HalvesUnchanged
  <2>. QED
    BY DEF TransferInv, CarriersSound, CreditChain, EndAgreed, target, feedback, network
<1>. QED
  BY <1>1, SendDataStep, ReinjectStep, QuietStep, AckStep, CreditStep, DataStep, FinStep,
     FlushStep, PublishStep DEF Next

LEMMA TransferAlways == Spec => []TransferInv
<1>1. Init => TransferInv
  BY InitTransfer
<1>2. TransferInv /\ [Next]_vars => TransferInv'
  BY NextTransfer
<1>. QED
  BY <1>1, <1>2, PTL DEF Spec

\* Two relay actors that follow the code never end each other's stream, for
\* every limit, window and frame size, and whatever the carriers do.
THEOREM TransferNeverFails == Spec => []NoProtocolFailure
<1>1. TransferInv => NoProtocolFailure
  BY DEF TransferInv, NoProtocolFailure
<1>. QED
  BY <1>1, TransferAlways, PTL

\* No byte is lost between the two halves and no window is exceeded: what the
\* ACKs released was received, every assigned byte is retained or received, the
\* sender stays below an admitted grant, and the target queue below its window.
THEOREM NothingLostOrOverrunAlways == Spec => []NothingLostOrOverrun
<1>1. ASSUME TransferInv PROVE NothingLostOrOverrun
  <2>1. 0 .. send_next - 1 \subseteq Retained \cup Received
    <3>1. Retained \cup acked = 0 .. send_next - 1 /\ acked \in SUBSET Received
      BY <1>1 DEF TransferInv, CarriersSound, SendInv, RetainedUntilAcked
    <3>. QED
      BY <3>1
  <2>2. /\ send_next <= max_offset /\ max_offset <= admitted_max_data_offset
        /\ next_offset - flushed_offset <= Window
    BY <1>1, TransferFacts
  <2>. QED
    BY <1>1, <2>1, <2>2 DEF NothingLostOrOverrun, TransferInv, CarriersSound
<1>. QED
  BY <1>1, TransferAlways, PTL

-----------------------------------------------------------------------------
(* The byte pipe *)

\* The first n bytes of the stream.
Sent(n) == [i \in 1 .. n |-> i - 1]

LEMMA SentPrefix ==
  ASSUME NEW n \in Nat, NEW m \in 0 .. n
  PROVE  Sent(n) \in Seq(Int) /\ Len(Sent(n)) = n /\ SubSeq(Sent(n), 1, m) = Sent(m)
BY DEF Sent

LEMMA SentMore ==
  ASSUME NEW n \in Nat, NEW m \in Nat
  PROVE  Sent(n + m) = Sent(n) \o [i \in 1 .. m |-> n + i - 1]
BY DEF Sent

\* What the target was given is the beginning of what the source wrote.
LEMMA ReadSoFar ==
  TransferInv => /\ SubSeq(delivered, 1, flushed_offset) = Sent(flushed_offset)
                 /\ flushed_offset \in 0 .. send_next
<1>. SUFFICES ASSUME TransferInv
     PROVE  SubSeq(delivered, 1, flushed_offset) = Sent(flushed_offset)
            /\ flushed_offset \in 0 .. send_next
  OBVIOUS
<1>1. /\ delivered = Sent(next_offset) /\ flushed_offset \in 0 .. next_offset
      /\ next_offset \in Nat /\ send_next \in Nat /\ next_offset <= send_next
  BY TransferFacts DEF Sent
<1>. QED
  BY <1>1, SentPrefix

LEMMA ReadNext ==
  (TransferInv => /\ SubSeq(delivered, 1, flushed_offset) = Sent(flushed_offset)
                  /\ flushed_offset \in 0 .. send_next)'
BY ReadSoFar, PTL

\* A step of the direction is a step of the pipe, or none that it shows.
LEMMA PipeStep ==
  ASSUME TransferInv, TransferInv', [Next]_vars
  PROVE  [Pipe!PipeNext]_(Pipe!pipe)
<1>. DEFINE read == SubSeq(delivered, 1, flushed_offset)
<1>. /\ send_next \in Nat /\ max_offset \in Nat /\ max_offset <= flushed_offset + Window
     /\ flushed_offset \in 0 .. send_next /\ next_offset \in Nat /\ next_offset <= send_next
     /\ Window \in Nat
  BY TransferFacts, ReadSoFar
<1>. read = Sent(flushed_offset)
  BY ReadSoFar
<1>. read' = Sent(flushed_offset')
  BY ReadNext DEF Sent
<1>. Len(Sent(send_next)) = send_next /\ Len(Sent(flushed_offset)) = flushed_offset
  BY SentPrefix
<1>. HIDE DEF read
<1>1. ASSUME UNCHANGED <<send_next, flushed_offset, local_open, remote_open>>
      PROVE  UNCHANGED Pipe!pipe
  BY <1>1 DEF Pipe!pipe, read
<1>2. ASSUME NEW len \in 1 .. max_payload_bytes, SendData(len) PROVE Pipe!Write
  <2>1. /\ len \in Nat /\ send_next' = send_next + len /\ send_next + len <= max_offset
        /\ local_open /\ UNCHANGED <<flushed_offset, local_open, remote_open>>
    BY <1>2
    DEF SendData, send_data, prepare_data, BecomesStream,
        commit_prepared_data, Stream, Prepared, target, OffsetRange
  <2>2. len \in 1 .. Window /\ send_next + len <= flushed_offset + Window
    BY <2>1
  <2>3. Sent(send_next') = Sent(send_next) \o [i \in 1 .. len |-> send_next + i - 1]
    BY <2>1, SentMore, Zenon
  <2>. QED
    BY <2>1, <2>2, <2>3, SMTT(30) DEF Pipe!Write, Sent, read
<1>3. ASSUME NEW offset \in 0 .. next_offset, TargetFlush(offset) PROVE Pipe!Read
  <2>1. /\ offset > flushed_offset /\ flushed_offset' = offset
        /\ UNCHANGED <<send_next, local_open, remote_open>>
    BY <1>3 DEF TargetFlush, send_vars
  <2>2. /\ offset \in flushed_offset + 1 .. send_next
        /\ Sent(offset) = SubSeq(Sent(send_next), 1, offset)
    BY <2>1, SentPrefix
  <2>. QED
    BY <2>1, <2>2 DEF Pipe!Read, Sent, read
<1>4. ASSUME LocalEof PROVE Pipe!Close
  BY <1>4 DEF LocalEof, target, send_vars, Pipe!Close, read
<1>5. ASSUME TargetShutdown PROVE Pipe!End
  BY <1>5 DEF TargetShutdown, send_vars, TransferInv, EndAgreed, Pipe!End, Sent, read, None
<1>6. ASSUME NEW ack, HandleAck(ack) PROVE send_next' = send_next
  BY <1>6 DEF HandleAck, apply_stream_ack, send_vars
<1>7. CASE UNCHANGED vars
  BY <1>1, <1>7 DEF vars, send_vars, target
<1>. QED
  BY <1>1, <1>2, <1>3, <1>4, <1>5, <1>6, <1>7, Zenon
  DEF Next, Reinject, SendFin, HandleAck, HandleMaxData, update_max_offset, ReceiveData,
      receive_stream_fin, PublishAck, AdmitMaxData, send_vars, target, Pipe!PipeNext

\* The direction implements the bounded byte pipe.
THEOREM TransferImplementsPipe == Spec => ImplementsPipe
<1>1. Init => Pipe!PipeInit
  BY SentPrefix DEF Init, SendInit, Pipe!PipeInit, Sent
<1>2. TransferInv /\ TransferInv' /\ [Next]_vars => [Pipe!PipeNext]_(Pipe!pipe)
  BY PipeStep
<1>. QED
  BY <1>1, <1>2, TransferAlways, PTL DEF Spec, ImplementsPipe, Pipe!PipeSpec
=============================================================================
