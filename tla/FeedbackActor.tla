---------------------------- MODULE FeedbackActor ----------------------------
(***************************************************************************)
(* The relay actor of runtime/relay/server.rs around the feedback of a     *)
(* stream.  A turn of its loop looks at the attachments, services them,    *)
(* and arms waits on the capacity of the carriers that blocked before it   *)
(* tries them again; then it sleeps in its select, or ends the relay.      *)
(* Attachments come and go, the registry services them, and carriers free  *)
(* capacity between any two steps.  A wait is a Notify of tokio: a release *)
(* of capacity wakes who is armed at that moment, and nobody else.         *)
(***************************************************************************)
EXTENDS StreamFeedback

CONSTANT MaxAttaches   \* bound on the attachments that join

ASSUME ActorInputs == MaxAttaches \in Nat

VARIABLES
  membership_changed,  \* the actor has not seen the latest membership
  updated,             \* an output update is waiting for the actor
  replay,              \* attachments the registry has yet to service
  attaches,            \* attachments so far
  phase,               \* where the actor is in its turn
  publication,         \* ServerAckPublicationState: pending, published
  ack_wait, max_wait,  \* the capacity waits: armed on, fired, generation
  reconcile, retry,    \* the membership changed; credit is pending
  closing              \* both halves of the stream are done

registry == <<membership_changed, updated, replay, attaches>>
waits == <<ack_wait, max_wait>>
turn == <<phase, publication, reconcile, retry, closing>>
actorVars == <<vars, registry, waits, turn>>

AckPending == {o \in Outputs : Open(o) /\ is_pending(entry[o], ack_generation)}
MaxPending == {o \in Outputs : Open(o) /\ entry[o].max < max_data_offset}

feedback_status ==
  [pending |-> AckPending # {},
   published |-> \E o \in Outputs : Open(o) /\ ~is_pending(entry[o], ack_generation)]

current_generation_is_fully_published ==
  ~publication.pending /\ (ack_generation = 0 \/ publication.published)

NoWait == [on |-> {}, fired |-> FALSE, generation |-> 0]

arm_carrier_capacity_notifies(S, g) ==
  IF S = {} THEN NoWait ELSE [on |-> S, fired |-> FALSE, generation |-> g]

ActorInit ==
  /\ Init
  /\ membership_changed = FALSE /\ updated = FALSE /\ replay = 0 /\ attaches = 0
  /\ phase = "select" /\ publication = [pending |-> FALSE, published |-> FALSE]
  /\ ack_wait = NoWait /\ max_wait = NoWait
  /\ reconcile = FALSE /\ retry = FALSE /\ closing = FALSE

-----------------------------------------------------------------------------
(* Outside the actor *)

Attach(o) ==
  /\ phase # "finished" /\ attaches < MaxAttaches
  /\ try_attach_output(o)
  /\ membership_changed' = TRUE /\ updated' = TRUE
  /\ replay' = replay + 1 /\ attaches' = attaches + 1
  /\ UNCHANGED <<waits, turn>>

\* The registry then replays the retained credit on the stream's outputs.
Replay ==
  /\ replay > 0
  /\ Retry
  /\ replay' = replay - 1
  /\ UNCHANGED <<membership_changed, updated, attaches, waits, turn>>

Detach(o) ==
  /\ phase # "finished"
  /\ begin_path_detach(o)
  /\ membership_changed' = TRUE /\ updated' = TRUE
  /\ UNCHANGED <<replay, attaches, waits, turn>>

\* Mutant of notify_waiters: a wait that is not polled yet is not enabled.
NotifyPolled(o) ==
  /\ ack_wait' = [ack_wait EXCEPT !.fired = @ \/ (phase = "select" /\ o \in ack_wait.on)]
  /\ max_wait' = [max_wait EXCEPT !.fired = @ \/ (phase = "select" /\ o \in max_wait.on)]

notify_waiters(o) ==
  /\ ack_wait' = [ack_wait EXCEPT !.fired = @ \/ o \in ack_wait.on]
  /\ max_wait' = [max_wait EXCEPT !.fired = @ \/ o \in max_wait.on]

\* A drain and a failure notify; the end of the carrier's task does not.
CarrierRetires(o) ==
  /\ phase # "finished" /\ Retire(o)
  /\ notify_waiters(o) \/ UNCHANGED waits
  /\ UNCHANGED <<registry, turn>>

CarrierWrites(o) ==
  /\ phase # "finished" /\ Write(o) /\ notify_waiters(o)
  /\ UNCHANGED <<registry, turn>>

-----------------------------------------------------------------------------
(* A turn *)

ObserveMembership ==
  /\ phase = "turn"
  /\ reconcile' = membership_changed /\ membership_changed' = FALSE
  /\ phase' = "service"
  /\ UNCHANGED <<vars, updated, replay, attaches, waits, publication, retry, closing>>

\* service_feedback_replies, whose publication feedback_status replaces.
ServiceReplies ==
  /\ phase = "service"
  /\ Retry
  /\ phase' = "status"
  /\ UNCHANGED <<registry, waits, publication, reconcile, retry, closing>>

\* "A retained wait covers only the exact attachment set and ACK generation for
\* which it was armed."
StaleWait(status) == reconcile \/ ack_wait.generation # ack_generation \/ ~status.pending

ReadStatus ==
  LET status == feedback_status
      kept == IF StaleWait(status) THEN NoWait ELSE ack_wait
      ack_due == ack_generation # 0 /\ (reconcile \/ (status.pending /\ kept = NoWait))
  IN /\ phase = "status"
     /\ publication' = status /\ ack_wait' = kept
     /\ reconcile' = FALSE
     /\ phase' = IF ack_due THEN "arm_ack" ELSE "arm_max"
     /\ UNCHANGED <<vars, registry, max_wait, retry, closing>>

\* "Arm before retry."
ArmAckWait ==
  /\ phase = "arm_ack"
  /\ ack_wait' = arm_carrier_capacity_notifies(AckPending, ack_generation)
  /\ phase' = "retry_ack"
  /\ UNCHANGED <<vars, registry, max_wait, publication, reconcile, retry, closing>>

RetryAck ==
  /\ phase = "retry_ack"
  /\ Retry
  /\ publication' = feedback_status'
  /\ ack_wait' = IF publication'.pending THEN ack_wait ELSE NoWait
  /\ phase' = "arm_max"
  /\ UNCHANGED <<registry, max_wait, reconcile, retry, closing>>

ArmMaxWait ==
  /\ phase = "arm_max"
  /\ max_wait' = arm_carrier_capacity_notifies(MaxPending, 0)
  /\ retry' = (MaxPending # {})
  /\ phase' = "retry_max"
  /\ UNCHANGED <<vars, registry, ack_wait, publication, reconcile, closing>>

RetryMax ==
  /\ phase = "retry_max"
  /\ IF retry
     THEN /\ Retry
          /\ publication' = feedback_status'
          /\ ack_wait' = IF publication'.pending THEN ack_wait ELSE NoWait
     ELSE UNCHANGED <<vars, publication, ack_wait>>
  /\ retry' = FALSE
  /\ phase' = "replies"
  /\ UNCHANGED <<registry, max_wait, reconcile, closing>>

\* The receipts are tried again.
RetryReplies ==
  /\ phase = "replies"
  /\ Retry
  /\ publication' = feedback_status'
  /\ phase' = "end"
  /\ UNCHANGED <<registry, waits, reconcile, retry, closing>>

\* The state of the publication, once more, before the end is decided.
ReadFinalStatus ==
  /\ phase = "end"
  /\ publication' = IF closing THEN feedback_status ELSE publication
  /\ max_wait' = IF MaxPending = {} THEN NoWait ELSE max_wait
  /\ phase' = "decide"
  /\ UNCHANGED <<vars, registry, ack_wait, reconcile, retry, closing>>

\* Mutant of MayFinish: the membership is not compared again.
MayFinishUnfenced ==
  /\ closing
  /\ (\A o \in Outputs : ~Live(o)) \/ current_generation_is_fully_published

MayFinish ==
  /\ closing
  /\ (\A o \in Outputs : ~Live(o)) \/ current_generation_is_fully_published
  /\ ~membership_changed

Decide ==
  /\ phase = "decide"
  /\ phase' = IF MayFinish THEN "finished" ELSE "select"
  /\ UNCHANGED <<vars, registry, waits, publication, reconcile, retry, closing>>

-----------------------------------------------------------------------------
(* The select of the actor *)

AckCapacity ==
  /\ phase = "select" /\ publication.pending /\ ack_wait.fired
  /\ ack_wait' = NoWait /\ max_wait' = NoWait /\ phase' = "turn"
  /\ UNCHANGED <<vars, registry, publication, reconcile, retry, closing>>

MaxCapacity ==
  /\ phase = "select" /\ max_wait.fired
  /\ max_wait' = NoWait /\ phase' = "turn"
  /\ UNCHANGED <<vars, registry, ack_wait, publication, reconcile, retry, closing>>

OutputUpdate ==
  /\ phase = "select" /\ updated
  /\ updated' = FALSE
  /\ max_wait' = NoWait /\ phase' = "turn"
  /\ UNCHANGED <<vars, membership_changed, replay, attaches, ack_wait, publication,
                 reconcile, retry, closing>>

\* Data or a flush of the target is handled: enqueue_tcp_recv_progress.
RecvProgress ==
  /\ phase = "select" /\ ~closing
  /\ publish_ack \/ publish_max_data
  /\ publication' = feedback_status'
  /\ max_wait' = NoWait /\ phase' = "turn"
  /\ UNCHANGED <<registry, ack_wait, reconcile, retry, closing>>

\* The last byte is delivered and acknowledged, in both directions.
CloseHalves ==
  /\ phase = "select" /\ ~closing
  /\ closing' = TRUE
  /\ max_wait' = NoWait /\ phase' = "turn"
  /\ UNCHANGED <<vars, registry, ack_wait, publication, reconcile, retry>>

Turn ==
  \/ ObserveMembership \/ ServiceReplies \/ ReadStatus \/ ArmAckWait \/ RetryAck
  \/ ArmMaxWait \/ RetryMax \/ RetryReplies \/ ReadFinalStatus \/ Decide

Wake == AckCapacity \/ MaxCapacity \/ OutputUpdate

ActorNext ==
  \/ Turn \/ Wake \/ RecvProgress \/ CloseHalves \/ Replay
  \/ \E o \in Outputs : Attach(o) \/ Detach(o) \/ CarrierRetires(o) \/ CarrierWrites(o)

\* The runtime polls a task that is ready; a carrier that stays open writes.
Fairness ==
  /\ WF_actorVars(Turn) /\ WF_actorVars(Wake) /\ WF_actorVars(Replay)
  /\ \A o \in Outputs : WF_actorVars(CarrierWrites(o))

ActorSpec == ActorInit /\ [][ActorNext]_actorVars /\ Fairness

-----------------------------------------------------------------------------
(* Properties *)

\* The relay ends only when every carrier that still admits frames was given
\* the whole final ACK state: one that joins while the end is being decided
\* holds it up (the exact-recipient fence).
FinishedOnlyWhenTold ==
  [][phase' = "finished" /\ phase # "finished" =>
       \A o \in Outputs : Open(o) => 1 .. ack_generation \subseteq entry[o].told]_actorVars

\* A carrier that is blocked is caught up when it frees capacity, or else goes
\* away, or the relay ends: no wake-up is lost between a failed retry and the
\* sleep of the actor, and no attachment is overlooked.
EveryOutputCaughtUp ==
  \A o \in Outputs :
    (o \in AckPending \cup MaxPending) ~>
      (o \notin AckPending \cup MaxPending \/ phase = "finished")
===============================================================================
