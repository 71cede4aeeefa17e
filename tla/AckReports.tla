----------------------------- MODULE AckReports -----------------------------
(***************************************************************************)
(* A receive stream together with what its incremental STREAM_ACK updates  *)
(* have told the peer so far.  The relay actors send each update exactly   *)
(* once per publication boundary (take_ack_update, mux/stream.rs), so what *)
(* the increments left out would never be reported again.                  *)
(***************************************************************************)
EXTENDS ReliableRecv

VARIABLES
  reported,   \* the bytes the updates listed as received
  denied      \* the bytes the updates reported as missing

ReportVars == <<recv_vars, reported, denied>>

ReportInit == RecvInit /\ reported = {} /\ denied = {}

PublishUpdate ==
  /\ take_ack_update
  /\ reported' = reported \cup UNION {Covered(f.ranges) : f \in ack_update}
  /\ denied' = denied \cup UNION {Omitted(f) : f \in ack_update}

ReportNext ==
  \/ PublishUpdate
  \/ /\ \/ \E r \in RangesBelow(U64Max) : receive_data(r)
        \/ \E m \in 0 .. U64Max : commit_max_data(m)
     /\ UNCHANGED <<reported, denied>>

ReportSpec == ReportInit /\ [][ReportNext]_ReportVars

\* The increments lose nothing: a range is clean only when all of it has been
\* reported, up to the high water every byte was either reported as received
\* or reported as missing, and right after a boundary everything received has
\* been reported.
AckUpdatesComplete ==
  /\ \A q \in received_ranges : ~q.dirty => Bytes(q) \subseteq reported
  /\ 0 .. ack_high_water - 1 \subseteq reported \cup denied
  /\ reported \subseteq Received
=============================================================================
