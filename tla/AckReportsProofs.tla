-------------------------- MODULE AckReportsProofs --------------------------
(***************************************************************************)
(* What the increments of the acknowledgements have told the peer, for     *)
(* every value of the limits and every sequence of frames.                 *)
(***************************************************************************)
EXTENDS AckReports, ReliableRecvProofs

\* The reports of the increments stay complete: a frame leaves what was clean
\* clean, and a boundary lists every dirty range and denies every gap above the
\* old high water.
LEMMA ReportsPreserved ==
  ASSUME RecvInv, AckUpdatesComplete, [ReportNext]_ReportVars
  PROVE  RecvInv' /\ AckUpdatesComplete'
<1>1. ASSUME NEW r \in RangesBelow(U64Max), receive_data(r), UNCHANGED <<reported, denied>>
      PROVE  RecvInv' /\ AckUpdatesComplete'
  <2>1. RecvInv'
    BY <1>1, NextPreserves DEF RecvNext
  <2>2. ack_high_water' = ack_high_water
    BY <1>1 DEF receive_data, Receive, ReceiveNew
  <2>3. CASE received_ranges' = received_ranges
    BY <1>1, <2>1, <2>2, <2>3 DEF AckUpdatesComplete, Received
  <2>4. CASE received_ranges' = insert(received_ranges, r)
    <3>1. Received' = Received \cup Bytes(r)
      BY <2>4, StateFacts, InsertExact DEF Received
    <3>2. Merged(received_ranges, r).dirty
      BY DEF Merged
    <3>3. \A q \in received_ranges' : ~q.dirty => q \in received_ranges
      BY <2>4, <3>2 DEF insert
    <3>. QED
      BY <1>1, <2>1, <2>2, <3>1, <3>3 DEF AckUpdatesComplete
  <2>. QED
    BY <1>1, <2>3, <2>4 DEF receive_data, Receive, ReceiveNew
<1>2. ASSUME NEW m \in 0 .. U64Max, commit_max_data(m), UNCHANGED <<reported, denied>>
      PROVE  RecvInv' /\ AckUpdatesComplete'
  BY <1>2, CommitPreserves DEF commit_max_data, AckUpdatesComplete, Received
<1>3. CASE PublishUpdate
  <2>. DEFINE R == received_ranges
              B == changed_ranges
              F == ack_update
              e == largest_end(R)
  <2>1. RecvInv'
    BY <1>3, TakePreserves DEF PublishUpdate
  <2>2. /\ received_ranges' = {[q EXCEPT !.dirty = FALSE] : q \in R} /\ ack_high_water' = e
        /\ reported' = reported \cup UNION {Covered(f.ranges) : f \in F}
        /\ denied' = denied \cup UNION {Omitted(f) : f \in F}
    BY <1>3 DEF PublishUpdate, take_ack_update
  <2>3. /\ U64Max \in Nat /\ ack_high_water \in 0 .. U64Max /\ e \in 0 .. U64Max
        /\ B \in RangeLists(U64Max) /\ Covered(B) \subseteq Received
        /\ Received \subseteq Covered(B) \cup (0 .. ack_high_water - 1)
        /\ \A q \in R : q.dirty => Bytes(q) \subseteq Covered(B)
        /\ \A x \in Nat : ack_high_water <= x /\ x < e => \E q \in B : x < q.end
    BY ListsOfStream
  <2>4. F = scoped_ack_frames(B, ack_high_water)
    BY DEF ack_update
  <2>5. /\ R \in SUBSET NodesBelow(U64Max) /\ Canonical(R)
    BY StateFacts
  <2>6. /\ Received' = Received
        /\ \A q \in received_ranges' : \E p \in R : q.start = p.start /\ q.end = p.end
    <3>. DEFINE Q == {[q EXCEPT !.dirty = FALSE] : q \in R}
    <3>1. /\ Covered(Q) = Covered(R)
          /\ \A q \in Q : \E p \in R : q.start = p.start /\ q.end = p.end /\ q.dirty = FALSE
      BY <2>3, <2>5, CleanNodes, Zenon
    <3>2. received_ranges' = Q
      BY <2>2
    <3>. HIDE DEF Q
    <3>. QED
      BY <3>1, <3>2 DEF Received
  <2>. HIDE DEF R, B, F, e
  <2>7. Covered(B) \subseteq UNION {Covered(f.ranges) : f \in F}
    BY <2>3, <2>4, FramesTotal
  <2>8. ASSUME NEW q \in R PROVE Bytes(q) \subseteq reported'
    <3>1. CASE q.dirty
      BY <2>2, <2>3, <2>7, <3>1
    <3>2. CASE ~q.dirty
      BY <2>2, <3>2 DEF AckUpdatesComplete, R
    <3>. QED
      BY <3>1, <3>2
  <2>9. \A q \in received_ranges' : Bytes(q) \subseteq reported'
    BY <2>6, <2>8 DEF Bytes
  <2>10. 0 .. ack_high_water' - 1 \subseteq reported' \cup denied'
    <3>. SUFFICES ASSUME NEW x \in 0 .. e - 1 PROVE x \in reported' \cup denied'
      BY <2>2
    <3>1. x \in Nat /\ x < e
      BY <2>3
    <3>2. CASE x < ack_high_water
      <4>1. x \in 0 .. ack_high_water - 1
        BY <2>3, <3>1, <3>2
      <4>. QED
        BY <2>2, <4>1 DEF AckUpdatesComplete
    <3>3. CASE ~(x < ack_high_water)
      <4>1. x >= ack_high_water /\ \E q \in B : x < q.end
        BY <2>3, <3>1, <3>3
      <4>2. \E f \in F : x \in Covered(f.ranges) \cup Omitted(f)
        BY <2>3, <2>4, <3>1, <4>1, FramesTotal
      <4>. QED
        BY <2>2, <4>2
    <3>. QED
      BY <3>2, <3>3
  <2>11. reported' \subseteq Received'
    <3>1. \A f \in F : Covered(f.ranges) \subseteq Covered(B)
      BY <2>3, <2>4, FramesTrue, Zenon
    <3>. QED
      BY <2>2, <2>3, <2>6, <3>1 DEF AckUpdatesComplete
  <2>. QED
    BY <2>1, <2>9, <2>10, <2>11 DEF AckUpdatesComplete
<1>4. CASE UNCHANGED ReportVars
  <2>1. UNCHANGED recv_vars
    BY <1>4 DEF ReportVars
  <2>2. RecvInv'
    BY <2>1, NextPreserves
  <2>. QED
    BY <1>4, <2>2 DEF ReportVars, recv_vars, AckUpdatesComplete, Received
<1>. QED
  BY <1>1, <1>2, <1>3, <1>4 DEF ReportNext

\* The increments of take_ack_update lose nothing, for any limits and any history
\* of frames: a clean range has been reported in full, and up to the high water
\* the peer has been told of every byte whether it was received.
THEOREM AckUpdatesCompleteAlways == ReportSpec => []AckUpdatesComplete
<1>1. ReportInit => RecvInv /\ AckUpdatesComplete
  <2>1. ASSUME ReportInit PROVE RecvInv
    BY <2>1, InitRecvInv DEF ReportInit
  <2>2. ASSUME ReportInit PROVE AckUpdatesComplete
    BY <2>2 DEF ReportInit, RecvInit, AckUpdatesComplete
  <2>. QED
    BY <2>1, <2>2
<1>. QED
  BY <1>1, ReportsPreserved, PTL DEF ReportSpec
=============================================================================
