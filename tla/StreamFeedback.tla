---------------------------- MODULE StreamFeedback ----------------------------
(***************************************************************************)
(* How a receiver publishes its feedback, Data ACKs and receive credit, on *)
(* every carrier attached to a stream: the shared desired state and the    *)
(* per-attachment cursor of runtime/stream/feedback.rs, and the operations *)
(* of runtime/stream/response/attachment.rs, each under the lock of the    *)
(* outputs.                                                                *)
(*                                                                         *)
(* ACK generation g reports one new fact, g.  Its cumulative frames report *)
(* all facts up to g, the older ones in a frame of their own; its update   *)
(* reports g only.                                                         *)
(***************************************************************************)
EXTENDS Integers, SequencesExt

CONSTANTS
  Outputs,         \* carrier paths
  QueueLimit,      \* control frames a carrier queue admits
  MaxGeneration,   \* bound on the ACK generations
  MaxOffset,       \* bound on the receive credit
  Receipts         \* whether the peer probes the feedback path

ASSUME FeedbackInputs ==
  /\ Outputs # {} /\ Receipts \in BOOLEAN
  /\ {QueueLimit, MaxGeneration, MaxOffset} \subseteq Nat \ {0}

VARIABLES
  ack_generation, max_data_offset,   \* StreamFeedbackState
  entry    \* per path: the attachment and its command queue; see Entry

desired == <<ack_generation, max_data_offset>>
vars == <<desired, entry>>

-----------------------------------------------------------------------------
(* The cursor of one attachment *)

cursor == [published_generation |-> 0, pending_generation |-> 0,
           pending_frames |-> <<>>, prefer_max_data |-> FALSE]

\* An attachment that has been given nothing.  The frames of its queue are
\* admitted and not yet written; told is a history, all facts it was given.
Entry(admission) ==
  [admission |-> admission, cursor |-> cursor, max |-> 0, receipt |-> "none",
   queue |-> <<>>, told |-> {}]

\* Admission of control frames is open; draining carriers are only alive.
Open(o) == entry[o].admission = "open"
Live(o) == entry[o].admission \in {"open", "draining"}

cumulative_ack_frames(g) == IF g = 1 THEN <<{1}>> ELSE <<1 .. g - 1, {g}>>
update_frames(g) == <<{g}>>

is_pending(e, g) == g # 0 /\ e.cursor.published_generation # g

\* Mutant of CurrentFrames: any attachment is given the update.
UpdateForAll(c, g, update) == IF update THEN update_frames(g) ELSE cumulative_ack_frames(g)

\* Only an attachment that has the generation before this one gets the update.
CurrentFrames(c, g, update) ==
  IF update /\ c.published_generation = g - 1
  THEN update_frames(g) ELSE cumulative_ack_frames(g)

\* The job an ACK turn works on: the retained tail, or the current generation.
\* The code borrows a job that is not blocked; the outcome is the same.
Job(c, g, update) ==
  IF c.pending_frames # <<>> THEN c
  ELSE [c EXCEPT !.pending_generation = g,
                 !.pending_frames = CurrentFrames(c, g, update)]

Popped(c) ==
  IF Len(c.pending_frames) = 1
  THEN [published_generation |-> c.pending_generation, pending_generation |-> 0,
        pending_frames |-> <<>>, prefer_max_data |-> TRUE]
  ELSE [c EXCEPT !.pending_frames = Tail(@), !.prefer_max_data = TRUE]

\* Mutant of MaxTurn: credit waits until no ACK is pending.
AckFirst(e, g, m) == e.max < m /\ ~is_pending(e, g)

MaxTurn(e, g, m) == e.max < m /\ (e.cursor.prefer_max_data \/ ~is_pending(e, g))

Admit(e, frame, facts) ==
  [e EXCEPT !.queue = Append(@, frame), !.told = @ \cup facts]

\* One round of the loop of `service`.
Round(e, g, m, update) ==
  LET room == Len(e.queue) < QueueLimit
      job == Job(e.cursor, g, update)
  IN CASE e.receipt = "ready" ->
            IF room THEN Admit([e EXCEPT !.receipt = "none"], "receipt", {}) ELSE e
       [] e.receipt # "ready" /\ MaxTurn(e, g, m) ->
            IF room
            THEN Admit([e EXCEPT !.max = m, !.cursor.prefer_max_data = FALSE], "max", {})
            ELSE e
       [] e.receipt # "ready" /\ ~MaxTurn(e, g, m) /\ is_pending(e, g) ->
            IF room
            THEN Admit([e EXCEPT !.cursor = Popped(job)], "ack", Head(job.pending_frames))
            ELSE [e EXCEPT !.cursor = job]
       [] OTHER -> e

\* Every round admits a frame or is the last.
service(e, g, m, update) ==
  FoldLeft(LAMBDA s, i : Round(s, g, m, update), e, [i \in 1 .. QueueLimit + 1 |-> i])

\* All outputs, at desired generation g and credit m; one that is closed to
\* control frames keeps no work.
service_feedback(g, m, update) ==
  /\ ack_generation' = g /\ max_data_offset' = m
  /\ entry' = [o \in Outputs |->
       IF Open(o) THEN service(entry[o], g, m, update)
       ELSE [entry[o] EXCEPT !.cursor = cursor, !.receipt = "none"]]

-----------------------------------------------------------------------------
(* The operations *)

Init ==
  /\ ack_generation = 0 /\ max_data_offset = 0
  /\ \E o \in Outputs : entry = [p \in Outputs |-> Entry(IF p = o THEN "open" ELSE "absent")]

Becomes(o, admission) ==
  /\ entry' = [entry EXCEPT ![o] = Entry(admission)]
  /\ UNCHANGED desired

\* A new attachment, or one in the place of a closed one, starts from nothing.
try_attach_output(o) ==
  entry[o].admission \in {"absent", "closed"} /\ Becomes(o, "open")

begin_path_detach(o) ==
  entry[o].admission # "absent" /\ Becomes(o, "absent")

\* The carrier stops admitting control frames, and then closes; what was
\* published on it is looked at no more.
Retire(o) ==
  \/ entry[o].admission = "open" /\ Becomes(o, "draining")
  \/ entry[o].admission = "draining" /\ Becomes(o, "closed")

\* The carrier writes a frame.
Write(o) ==
  /\ entry[o].queue # <<>>
  /\ entry' = [entry EXCEPT ![o].queue = Tail(@)]
  /\ UNCHANGED desired

\* New data was received, and a generation is due.
publish_ack ==
  /\ ack_generation < MaxGeneration
  /\ service_feedback(ack_generation + 1, max_data_offset, TRUE)

\* Bytes were flushed to the target, and credit is free.
publish_max_data ==
  /\ max_data_offset < MaxOffset
  /\ service_feedback(ack_generation, max_data_offset + 1, FALSE)

\* retry_pending_ack, retry_pending_max_data, service_feedback_replies.
Retry == service_feedback(ack_generation, max_data_offset, FALSE)

\* A probe of the peer; the credit it requires may still be to come.
record_feedback_probe(o) ==
  /\ Receipts /\ Open(o)
  /\ entry' = [entry EXCEPT ![o].receipt = "early"]
  /\ UNCHANGED desired

\* The credit that every probe so far requires is applied; see Retry.
ApplyPeerMax ==
  /\ entry' = [o \in Outputs |-> IF entry[o].receipt = "early"
                                 THEN [entry[o] EXCEPT !.receipt = "ready"] ELSE entry[o]]
  /\ UNCHANGED desired

Next ==
  \/ publish_ack \/ publish_max_data \/ Retry \/ ApplyPeerMax
  \/ \E o \in Outputs :
       \/ try_attach_output(o) \/ begin_path_detach(o) \/ Retire(o) \/ Write(o)
       \/ record_feedback_probe(o)

Spec == Init /\ [][Next]_vars

-----------------------------------------------------------------------------
(* Properties *)

TypeOK ==
  /\ ack_generation \in 0 .. MaxGeneration /\ max_data_offset \in 0 .. MaxOffset
  /\ \A o \in Outputs :
       /\ entry[o].admission \in {"absent", "open", "draining", "closed"}
       /\ entry[o].max \in 0 .. max_data_offset
       /\ entry[o].cursor.published_generation \in 0 .. ack_generation
       /\ Len(entry[o].queue) <= QueueLimit
       /\ entry[o].told \subseteq 1 .. ack_generation

\* An attachment that counts as having accepted an ACK generation was given
\* every fact up to it, whatever updates, cumulative states and interrupted
\* tails that took; and a tail that it retains completes its generation.
AckPublicationComplete ==
  /\ TypeOK
  /\ \A o \in Outputs :
       LET c == entry[o].cursor
           told == entry[o].told
       IN Open(o) => /\ 1 .. c.published_generation \subseteq told
                     /\ 1 .. c.pending_generation
                          \subseteq told \cup UNION Range(c.pending_frames)

\* "Alternating successful service": while a carrier still needs the latest
\* credit it is not given two ACK frames in a row, and while it still needs the
\* latest ACK it is not given credit twice in a row, across all service calls.
FeedbackTakesTurns ==
  [][\A o \in Outputs :
       LET old == Len(entry[o].queue)
           q == entry'[o].queue
           max_sent(i) == \E k \in old + 1 .. i : q[k] = "max"
       IN \A i \in 1 .. Len(q) - 1 :
            i >= old =>
              /\ q[i] = "ack" /\ q[i + 1] = "ack" =>
                   max_sent(i) \/ entry[o].max = max_data_offset'
              /\ q[i] = "max" /\ q[i + 1] = "max" => ~is_pending(entry[o], ack_generation')]_vars

===============================================================================
