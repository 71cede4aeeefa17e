-------------------------- MODULE TcpHeartbeatProofs --------------------------
(***************************************************************************)
(* The TCP heartbeat for every interval, timeout and choice of delays: an  *)
(* honest peer never breaks the protocol, the failure waiter never         *)
(* oversleeps, and a drain reaches the connection that is being published. *)
(***************************************************************************)
EXTENDS TcpHeartbeat, TLAPS

IdleStates == [name : {"Idle"}, due : Instants]
PendingStates ==
  [name : {"Pending"}, nonce : Nonces, deadline : 0 .. Timeout, phase : {"Sending", "AwaitingPong"}]
DrainingStates == [name : {"Draining"}, tombstone : Nonces \cup {NoNonce}]
FailedStates == [name : {"Failed"}, failure : Failures \ {"ProtocolViolation"}]

States == IdleStates \cup PendingStates \cup DrainingStates \cup FailedStates
Actors ==
  [at : {"subscribing", "reading", "sleeping", "claiming", "writing", "flushing", "stopped"},
   until : Int, nonce : Nonces]
WaiterStates == [at : {"subscribing", "reading", "sleeping", "returned"}, until : Int]
Wires == [ping : Nonces \cup {NoNonce}, pong : Nonces \cup {NoNonce}]

Types ==
  /\ state \in States
  /\ sample \in 0 .. Interval /\ delay \in Delays
  /\ changed \subseteq Waiters
  /\ actor \in Actors /\ waiter \in WaiterStates /\ wire \in Wires
  /\ silent \in Nat

\* The PING that is not answered yet.
Unanswered ==
  CASE state.name = "Pending" -> state.nonce
    [] state.name = "Draining" -> state.tombstone
    [] OTHER -> NoNonce

\* It is the actor's last one, and it is about to be written, or on its way, or
\* its answer is; without one nothing is under way.
OneUnderWay ==
  state.name # "Failed" =>
    IF Unanswered = NoNonce
    THEN actor.at # "writing" /\ wire.ping = NoNonce /\ wire.pong = NoNonce
    ELSE /\ actor.nonce = Unanswered
         /\ \/ actor.at = "writing" /\ wire.ping = NoNonce /\ wire.pong = NoNonce
            \/ actor.at # "writing" /\ wire.ping = Unanswered /\ wire.pong = NoNonce
            \/ actor.at # "writing" /\ wire.ping = NoNonce /\ wire.pong = Unanswered

\* Until it is late, the bound in force is within one interval and one timeout of
\* the last frame.
BoundFollowsSilence ==
  /\ state.name = "Idle" => state.due <= delay
  /\ state.name = "Idle" /\ ~Late => state.due + silent = delay
  /\ state.name = "Pending" /\ ~Late => state.deadline + silent <= Interval + Timeout

\* The waiter sleeps to the bound in force or less, unless it will be woken.
NeverOversleeps ==
  /\ waiter.at = "sleeping" /\ "waiter" \notin changed /\ state.name \in {"Idle", "Pending"} =>
       waiter.until <= failure_deadline
  /\ waiter.at = "returned" => state.name = "Failed"

HInv == Types /\ OneUnderWay /\ BoundFollowsSilence /\ NeverOversleeps

\* The constants of a heartbeat, in the form the steps below use.
LEMMA Constants ==
  /\ Interval \in Nat \ {0} /\ Timeout \in Nat \ {0}
  /\ \A d \in Delays : d \in 1 .. Interval
BY HeartbeatInputs

\* A carrier starts with an idle schedule and nothing under way.
LEMMA Initially == Init => HInv
<1>. SUFFICES ASSUME Init PROVE HInv
  OBVIOUS
<1>1. Types
  BY Constants DEF Init, Types, States, Actors, WaiterStates, Wires, Idle, IdleStates, Instants,
                   Nonces, NoNonce, Never, Waiters
<1>2. OneUnderWay
  BY DEF Init, OneUnderWay, Unanswered, Idle, NoNonce
<1>3. BoundFollowsSilence
  BY Constants DEF Init, BoundFollowsSilence, Idle, Late
<1>4. NeverOversleeps
  BY DEF Init, NeverOversleeps
<1> QED
  BY <1>1, <1>2, <1>3, <1>4 DEF HInv

-----------------------------------------------------------------------------
(* Steps that leave the heartbeat alone *)

\* A step that moves a thread between its reads and its sleep.
LEMMA HeartbeatKept ==
  ASSUME HInv, UNCHANGED <<state, sample, delay, waiter, wire, silent>>,
         changed' \subseteq Waiters, "waiter" \in changed' <=> "waiter" \in changed,
         actor' \in Actors, actor'.nonce = actor.nonce,
         actor'.at = "writing" <=> actor.at = "writing"
  PROVE  HInv'
<1>1. Types'
  BY DEF HInv, Types
<1>2. OneUnderWay'
  BY DEF HInv, OneUnderWay, Unanswered
<1>3. BoundFollowsSilence'
  BY DEF HInv, BoundFollowsSilence, Late
<1>4. NeverOversleeps'
  BY DEF HInv, NeverOversleeps, failure_deadline
<1> QED
  BY <1>1, <1>2, <1>3, <1>4 DEF HInv

\* The actor's moves that send nothing keep its last nonce.
LEMMA ActorGoesTyped ==
  ASSUME HInv, ActorGoes("subscribing") \/ ActorGoes("reading") \/ ActorGoes("claiming")
                 \/ ActorGoes("flushing") \/ ActorGoes("stopped")
  PROVE  actor' \in Actors /\ actor'.nonce = actor.nonce /\ actor'.at # "writing"
BY Constants DEF HInv, Types, ActorGoes, Actors, Never

\* The actor's wait_until_due, and the two writes of the drain latch.
LEMMA WaitingSteps ==
  ASSUME HInv, ActorSubscribes \/ ActorReads \/ ActorWakes \/ PublishOwner \/ begin_path_drain
  PROVE  HInv'
<1>0. changed \subseteq Waiters /\ actor \in Actors
  BY DEF HInv, Types
<1>1. CASE ActorSubscribes
  BY <1>0, <1>1, ActorGoesTyped, HeartbeatKept DEF ActorSubscribes, ActorAt, Waiters
<1>2. CASE ActorReads
  <2>1. actor' \in Actors /\ actor'.nonce = actor.nonce /\ actor'.at # "writing"
    BY <1>2, Constants
       DEF ActorReads, ActorGoes, due_at, Lesser, HInv, Types, Actors, Never, Instants,
           States, IdleStates, PendingStates, DrainingStates, FailedStates
  <2> QED
    BY <1>0, <1>2, <2>1, HeartbeatKept DEF ActorReads, ActorAt
<1>3. CASE ActorWakes
  BY <1>0, <1>3, ActorGoesTyped, HeartbeatKept DEF ActorWakes, ActorAt
<1>4. CASE PublishOwner \/ begin_path_drain
  BY <1>0, <1>4, HeartbeatKept DEF PublishOwner, begin_path_drain
<1> QED
  BY <1>1, <1>2, <1>3, <1>4

\* The PING leaves, and its answer comes back.
LEMMA WireSteps ==
  ASSUME HInv, ActorWrites \/ PeerAnswers
  PROVE  HInv'
<1>1. actor' \in Actors /\ actor'.nonce = actor.nonce
  BY ActorGoesTyped DEF ActorWrites, PeerAnswers, HInv, Types
<1>2. wire' \in Wires
  BY DEF ActorWrites, PeerAnswers, HInv, Types, Wires, Actors
<1>3. Types'
  BY <1>1, <1>2 DEF ActorWrites, PeerAnswers, HInv, Types
<1>4. OneUnderWay'
  BY <1>1 DEF ActorWrites, PeerAnswers, ActorAt, ActorGoes, HInv, Types, OneUnderWay, Unanswered,
              Wires, Actors, Nonces, NoNonce
<1>5. BoundFollowsSilence' /\ NeverOversleeps'
  BY DEF ActorWrites, PeerAnswers, HInv, BoundFollowsSilence, Late, NeverOversleeps,
         failure_deadline
<1> QED
  BY <1>3, <1>4, <1>5 DEF HInv

\* The waiter reads the bound after it has marked its revision as seen.
LEMMA WaiterReadSteps ==
  ASSUME HInv, WaiterSubscribes \/ WaiterReads
  PROVE  HInv'
<1>1. waiter' \in WaiterStates
  BY Constants DEF WaiterSubscribes, WaiterReads, WaiterGoes, failure_deadline, HInv, Types,
                   WaiterStates, Never, Instants, States, IdleStates, PendingStates,
                   DrainingStates, FailedStates
<1>2. Types'
  BY <1>1 DEF WaiterSubscribes, WaiterReads, HInv, Types
<1>3. OneUnderWay' /\ BoundFollowsSilence'
  BY DEF WaiterSubscribes, WaiterReads, HInv, OneUnderWay, Unanswered, BoundFollowsSilence, Late
<1>4. NeverOversleeps'
  BY Constants DEF WaiterSubscribes, WaiterReads, WaiterGoes, HInv, Types, NeverOversleeps,
                   failure_deadline, Instants, States, IdleStates, PendingStates,
                   DrainingStates, FailedStates
<1> QED
  BY <1>2, <1>3, <1>4 DEF HInv

-----------------------------------------------------------------------------
(* Steps that change the heartbeat *)

HonestFailures == Failures \ {"ProtocolViolation"}

\* A failed carrier promises nothing any more.
LEMMA HeartbeatFails ==
  ASSUME HInv, NEW failure \in HonestFailures, fail_locked(failure),
         UNCHANGED <<sample, delay>>, actor' \in Actors, waiter' \in WaiterStates,
         wire' \in Wires, silent' \in Nat
  PROVE  HInv'
<1>1. state' \in FailedStates /\ state'.name = "Failed"
  BY DEF fail_locked, Failed, FailedStates, HonestFailures
<1>2. Types'
  BY <1>1 DEF HInv, Types, States, fail_locked
<1> QED
  BY <1>1, <1>2 DEF HInv, OneUnderWay, BoundFollowsSilence, NeverOversleeps, Late

\* A timeout is not an accusation.
LEMMA TimeoutsAreHonest == Overdue \in HonestFailures
BY DEF Overdue, HonestFailures, Failures

\* A claim comes with nothing under way, and its deadline is within the silence bound.
LEMMA ActorClaimsStep ==
  ASSUME HInv, ActorClaims
  PROVE  HInv'
<1>0. Types
  BY DEF HInv
<1>1. CASE ~(state.name = "Idle" /\ due_at <= 0)
  BY <1>0, <1>1, ActorGoesTyped, HeartbeatKept DEF ActorClaims, ActorAt, Types
<1>2. CASE state.name = "Idle" /\ due_at <= 0
  <2>0. UNCHANGED <<sample, delay, waiter, wire, silent>>
    BY DEF ActorClaims
  <2>1. ASSUME NEW failure \in {"SendProgressTimeout", "RandomSourceFailure"}, fail_locked(failure)
        PROVE  HInv'
    <3>1. actor' \in Actors
      BY <1>2, <2>1, ActorGoesTyped DEF ActorClaims, fail_locked, Failed
    <3> QED
      BY <1>0, <2>0, <2>1, <3>1, HeartbeatFails DEF Types, HonestFailures, Failures
  <2>2. CASE /\ ~Late /\ changed' = Waiters
             /\ state' = Pending(1 - actor.nonce, Lesser(state.due, 0) + Timeout)
    <3>1. state.due \in Instants
      BY <1>0, <1>2 DEF Types, States, IdleStates, PendingStates, DrainingStates, FailedStates
    <3>2. actor' = [at |-> "writing", until |-> Never, nonce |-> 1 - actor.nonce]
      BY <1>2, <2>2 DEF ActorClaims, Pending
    <3>3. actor' \in Actors /\ 1 - actor.nonce \in Nonces
      BY <1>0, <3>2, Constants DEF Types, Actors, Nonces, Never
    <3>4. Lesser(state.due, 0) + Timeout \in 0 .. Timeout
      BY <1>2, <2>2, <3>1, Constants DEF Late, Lesser, Instants
    <3>5. Types'
      BY <1>0, <2>0, <2>2, <3>3, <3>4 DEF Types, States, PendingStates, Pending
    <3>6. OneUnderWay'
      BY <1>2, <2>0, <2>2, <3>2, <3>3 DEF HInv, OneUnderWay, Unanswered, Pending, Nonces, NoNonce
    <3>7. BoundFollowsSilence'
      <4>1. state.due + silent = delay
        BY <1>2, <2>2 DEF HInv, BoundFollowsSilence
      <4>2. silent \in Nat /\ delay \in 1 .. Interval
        BY <1>0, Constants DEF Types
      <4>3. Lesser(state.due, 0) + Timeout + silent <= Interval + Timeout
        BY <3>1, <4>1, <4>2, Constants DEF Lesser, Instants
      <4> QED
        BY <2>0, <2>2, <4>3 DEF BoundFollowsSilence, Pending
    <3>8. NeverOversleeps'
      BY <1>2, <2>0, <2>2 DEF HInv, NeverOversleeps, Waiters
    <3> QED
      BY <3>5, <3>6, <3>7, <3>8 DEF HInv
  <2> QED
    BY <1>2, <2>1, <2>2 DEF ActorClaims, claim_due_ping
<1> QED
  BY <1>1, <1>2

\* The flush finds its own PING, or none.
LEMMA ActorFlushesStep ==
  ASSUME HInv, ActorFlushes
  PROVE  HInv'
<1>0. Types /\ actor.at = "flushing" /\ UNCHANGED <<sample, delay, waiter, wire, silent>>
  BY DEF HInv, ActorFlushes, ActorAt
<1>1. actor' \in Actors /\ actor'.nonce = actor.nonce /\ actor'.at # "writing"
  BY ActorGoesTyped DEF ActorFlushes
<1>2. CASE UNCHANGED <<state, changed>>
  BY <1>0, <1>1, <1>2, HeartbeatKept DEF Types
<1>3. CASE fail_locked("SendProgressTimeout")
  BY <1>0, <1>1, <1>3, HeartbeatFails DEF Types, HonestFailures, Failures
<1>4. CASE /\ state.name = "Pending" /\ state' = [state EXCEPT !.phase = "AwaitingPong"]
           /\ UNCHANGED changed
  <2>1. state \in PendingStates
    BY <1>0, <1>4 DEF Types, States, IdleStates, PendingStates, DrainingStates, FailedStates
  <2>2. state' \in PendingStates /\ state'.name = "Pending" /\ state'.nonce = state.nonce
        /\ state'.deadline = state.deadline
    BY <1>4, <2>1 DEF PendingStates
  <2>3. Types'
    BY <1>0, <1>1, <1>4, <2>2 DEF Types, States
  <2>4. OneUnderWay'
    BY <1>0, <1>1, <1>4, <2>2 DEF HInv, OneUnderWay, Unanswered
  <2>5. BoundFollowsSilence' /\ NeverOversleeps'
    BY <1>0, <1>4, <2>2 DEF HInv, BoundFollowsSilence, NeverOversleeps, Late, failure_deadline
  <2> QED
    BY <2>3, <2>4, <2>5 DEF HInv
<1>5. state.name = "Pending" => state.nonce = actor.nonce
  BY <1>0 DEF HInv, OneUnderWay, Unanswered, Types, States, PendingStates, IdleStates,
              DrainingStates, FailedStates, Nonces, NoNonce
<1> QED
  BY <1>2, <1>3, <1>4, <1>5 DEF ActorFlushes, mark_ping_flushed

\* The waiter wakes early, or expires what is late.
LEMMA WaiterWakesStep ==
  ASSUME HInv, WaiterWakes
  PROVE  HInv'
<1>0. Types /\ UNCHANGED <<sample, delay, actor, wire, silent>>
  BY DEF HInv, WaiterWakes
<1>1. waiter' \in WaiterStates /\ waiter'.at = "subscribing"
  BY Constants DEF WaiterWakes, WaiterGoes, WaiterStates, Never
<1>2. CASE fail_locked(Overdue)
  BY <1>0, <1>1, <1>2, TimeoutsAreHonest, HeartbeatFails DEF Types
<1>3. CASE UNCHANGED <<state, changed>>
  BY <1>0, <1>1, <1>3 DEF HInv, Types, OneUnderWay, Unanswered, BoundFollowsSilence, Late,
                          NeverOversleeps
<1> QED
  BY <1>2, <1>3 DEF WaiterWakes

\* A drain keeps the nonce of the PING under way.
LEMMA BeginDrain ==
  ASSUME HInv, begin_drain, UNCHANGED <<sample, delay, actor, waiter, wire>>,
         silent' = silent \/ silent' = 0
  PROVE  HInv'
<1>0. Types /\ silent' \in Nat
  BY DEF HInv, Types
<1>1. CASE fail_locked(Overdue)
  BY <1>0, <1>1, TimeoutsAreHonest, HeartbeatFails DEF Types
<1>2. CASE state.name \in {"Idle", "Pending"} /\ state' = Draining(Unanswered) /\ changed' = Waiters
  <2>1. state' \in DrainingStates /\ state'.name = "Draining" /\ state'.tombstone = Unanswered
    BY <1>0, <1>2 DEF Types, Draining, Unanswered, States, IdleStates, PendingStates,
                      DrainingStates, FailedStates
  <2>2. Types'
    BY <1>0, <1>2, <2>1 DEF Types, States
  <2>3. OneUnderWay'
    BY <1>2, <2>1 DEF HInv, OneUnderWay, Unanswered
  <2> QED
    BY <1>2, <2>1, <2>2, <2>3 DEF HInv, BoundFollowsSilence, NeverOversleeps, Late
<1>3. CASE state.name \in {"Draining", "Failed"} /\ UNCHANGED <<state, changed>>
  BY <1>0, <1>3 DEF HInv, Types, OneUnderWay, Unanswered, BoundFollowsSilence, Late, NeverOversleeps
<1>4. state.name \in {"Idle", "Pending", "Draining", "Failed"}
  BY <1>0 DEF Types, States, IdleStates, PendingStates, DrainingStates, FailedStates
<1> QED
  BY <1>1, <1>2, <1>3, <1>4 DEF begin_drain, Unanswered

\* A drain by the latch, by its publisher, or asked for by the peer.
LEMMA DrainSteps ==
  ASSUME HInv, path_owner_published \/ apply_to_published_owner \/ ReceiveDrain
  PROVE  HInv'
<1>1. CASE begin_drain
  BY <1>1, BeginDrain DEF path_owner_published, apply_to_published_owner, ReceiveDrain
<1>2. CASE UNCHANGED <<state, changed, sample, delay, actor, waiter, wire, silent>>
  BY <1>2, HeartbeatKept DEF HInv, Types
<1> QED
  BY <1>1, <1>2 DEF path_owner_published, apply_to_published_owner, ReceiveDrain

\* Any other frame restarts an idle schedule and leaves a pending deadline.
LEMMA ReceiveOtherStep ==
  ASSUME HInv, ReceiveOther
  PROVE  HInv'
<1>0. Types /\ silent' = 0 /\ UNCHANGED <<sample, delay, actor, waiter, wire>>
  BY DEF HInv, ReceiveOther
<1>1. CASE fail_locked(Overdue)
  BY <1>0, <1>1, TimeoutsAreHonest, HeartbeatFails DEF Types
<1>2. CASE state.name = "Idle" /\ ~Late /\ state' = Idle(delay) /\ UNCHANGED changed
  <2>1. state' \in IdleStates /\ state'.name = "Idle" /\ state'.due = delay
    BY <1>0, <1>2, Constants DEF Types, Idle, IdleStates, Instants
  <2>2. Types'
    BY <1>0, <1>2, <2>1 DEF Types, States
  <2>3. OneUnderWay'
    BY <1>0, <1>2, <2>1 DEF HInv, OneUnderWay, Unanswered
  <2>4. BoundFollowsSilence'
    BY <1>0, <2>1, Constants DEF BoundFollowsSilence, Types
  <2>5. NeverOversleeps'
    BY <1>0, <1>2, <2>1, Constants
       DEF HInv, BoundFollowsSilence, NeverOversleeps, failure_deadline, Types, States, IdleStates,
           PendingStates, DrainingStates, FailedStates, Instants, WaiterStates
  <2> QED
    BY <2>2, <2>3, <2>4, <2>5 DEF HInv
<1>3. CASE state.name # "Idle" /\ UNCHANGED <<state, changed>>
  BY <1>0, <1>3, Constants
     DEF HInv, Types, OneUnderWay, Unanswered, BoundFollowsSilence, Late, NeverOversleeps,
         failure_deadline, States, IdleStates, PendingStates, DrainingStates, FailedStates
<1> QED
  BY <1>1, <1>2, <1>3 DEF ReceiveOther, ObserveOther

\* A PONG is always the answer to the PING that is unanswered.
LEMMA ReceivePongStep ==
  ASSUME HInv, ReceivePong
  PROVE  HInv'
<1>0. /\ Types /\ silent' = 0 /\ UNCHANGED <<actor, waiter>>
      /\ wire.pong # NoNonce /\ wire' = [wire EXCEPT !.pong = NoNonce]
  BY DEF HInv, ReceivePong
<1>1. wire' \in Wires /\ wire'.ping = wire.ping /\ wire'.pong = NoNonce
  BY <1>0 DEF Types, Wires
<1>2. state.name # "Failed" =>
        Unanswered = wire.pong /\ wire.ping = NoNonce /\ actor.at # "writing"
  BY <1>0 DEF HInv, OneUnderWay
<1>3. state.name # "Failed" => state.name \in {"Pending", "Draining"}
  BY <1>0, <1>2 DEF Types, States, IdleStates, PendingStates, DrainingStates, FailedStates,
                    Unanswered
<1>4. ASSUME NEW failure \in {Overdue, "RandomSourceFailure"}, fail_locked(failure),
             UNCHANGED <<sample, delay>>
      PROVE  HInv'
  BY <1>0, <1>1, <1>4, TimeoutsAreHonest, HeartbeatFails DEF Types, HonestFailures, Failures
<1>5. CASE state.name = "Failed"
  BY <1>0, <1>1, <1>5 DEF ReceivePong, ObservePong, PongOutOfTurn, HInv, Types, OneUnderWay,
                          BoundFollowsSilence, Late, NeverOversleeps
<1>6. CASE state.name = "Draining"
  <2>1. state' = Draining(NoNonce) /\ UNCHANGED <<changed, delay, sample>>
    BY <1>2, <1>6 DEF ReceivePong, ObservePong, PongOutOfTurn, Unanswered, Late
  <2>2. state' \in DrainingStates /\ state'.name = "Draining" /\ state'.tombstone = NoNonce
    BY <2>1 DEF Draining, DrainingStates
  <2>3. Types'
    BY <1>0, <1>1, <2>1, <2>2 DEF Types, States
  <2>4. OneUnderWay'
    BY <1>0, <1>1, <1>2, <1>6, <2>2 DEF OneUnderWay, Unanswered
  <2> QED
    BY <1>0, <1>6, <2>1, <2>2, <2>3, <2>4 DEF HInv, BoundFollowsSilence, Late, NeverOversleeps
<1>7. CASE state.name = "Pending" /\ Late
  BY <1>4, <1>7 DEF ReceivePong, ObservePong, PongOutOfTurn
<1>8. CASE state.name = "Pending" /\ ~Late
  <2>1. Renew
    BY <1>2, <1>8 DEF ReceivePong, ObservePong, Unanswered
  <2>2. CASE delay' \in Delays /\ sample' = delay' /\ state' = Idle(delay') /\ changed' = Waiters
    <3>1. state' \in IdleStates /\ state'.name = "Idle" /\ state'.due = delay'
      BY <2>2, Constants DEF Idle, IdleStates, Instants
    <3>2. Types'
      BY <1>0, <1>1, <2>2, <3>1, Constants DEF Types, States
    <3>3. OneUnderWay'
      BY <1>0, <1>1, <1>2, <1>8, <3>1 DEF OneUnderWay, Unanswered
    <3>4. BoundFollowsSilence'
      BY <1>0, <2>2, <3>1, Constants DEF BoundFollowsSilence
    <3> QED
      BY <1>0, <1>8, <2>2, <3>2, <3>3, <3>4 DEF HInv, NeverOversleeps, Waiters
  <2> QED
    BY <1>4, <2>1, <2>2 DEF Renew
<1> QED
  BY <1>3, <1>5, <1>6, <1>7, <1>8

\* Time passes: every instant comes nearer by as much.
LEMMA TickStep ==
  ASSUME HInv, Tick
  PROVE  HInv'
<1>. USE Constants DEF HInv, Tick, Late, Types, States, IdleStates, PendingStates, DrainingStates,
                       FailedStates
<1>1. Types'
  <2>1. state' \in States
    BY DEF Instants
  <2>2. actor' \in Actors /\ waiter' \in WaiterStates
    BY DEF Actors, WaiterStates
  <2> QED
    BY <2>1, <2>2
<1>2. OneUnderWay'
  BY DEF Actors, OneUnderWay, Unanswered
<1>3. BoundFollowsSilence'
  BY DEF BoundFollowsSilence, Instants
<1>4. NeverOversleeps'
  BY DEF WaiterStates, NeverOversleeps, BoundFollowsSilence, failure_deadline, Instants,
         WaiterBusy, SleepOver, Never
<1> QED
  BY <1>1, <1>2, <1>3, <1>4

-----------------------------------------------------------------------------
\* Every step preserves the invariant.
LEMMA Inductive == HInv /\ [Next]_vars => HInv'
<1>. SUFFICES ASSUME HInv, [Next]_vars PROVE HInv'
  OBVIOUS
<1>1. CASE Actor \/ FailureWaiter
  BY <1>1, WaitingSteps, WireSteps, WaiterReadSteps, ActorClaimsStep, ActorFlushesStep,
     WaiterWakesStep DEF Actor, FailureWaiter
<1>2. CASE PublishOwner \/ path_owner_published \/ begin_path_drain \/ apply_to_published_owner
  BY <1>2, WaitingSteps, DrainSteps
<1>3. CASE PeerAnswers \/ Reader
  BY <1>3, WireSteps, ReceivePongStep, ReceiveOtherStep, DrainSteps DEF Reader
<1>4. CASE Tick
  BY <1>4, TickStep
<1>5. CASE UNCHANGED vars
  BY <1>5, HeartbeatKept DEF vars, HInv, Types
<1> QED
  BY <1>1, <1>2, <1>3, <1>4, <1>5 DEF Next

\* The inductive invariant holds throughout.
LEMMA Invariance == Spec => []HInv
BY Initially, Inductive, PTL DEF Spec

\* observe_authenticated_frame and mark_ping_flushed never accuse a peer that
\* answers each PING once, for every interval, timeout and choice of delays.
THEOREM HonestPeerKeptHolds == Spec => []HonestPeerKept
<1>1. HInv => HonestPeerKept
  BY DEF HInv, Types, States, IdleStates, PendingStates, DrainingStates, FailedStates,
         HonestPeerKept, TypeOK, Failures
<1> QED
  BY Invariance, <1>1, PTL

\* wait_for_failure never oversleeps its bound, and silence ends a carrier within
\* one interval and one timeout.
THEOREM FailsOnTimeHolds == Spec => FailsOnTime
<1> DEFINE OnTime ==
      silent' > silent /\ Watched =>
        /\ ~Late
        /\ silent' > Interval + Timeout => state.name \in {"Draining", "Failed"}
<1>1. ASSUME HInv, [Next]_vars PROVE [OnTime]_vars
  <2>1. CASE Tick
    <3>1. CASE Watched
      <4>1. \/ waiter.at = "returned"
            \/ waiter.at = "sleeping" /\ "waiter" \notin changed /\ ~SleepOver
        BY <1>1, <2>1, <3>1 DEF Tick, WaiterBusy, HInv, Types, WaiterStates
      <4>2. ~Late
        BY <1>1, <4>1, Constants
           DEF HInv, NeverOversleeps, SleepOver, Late, failure_deadline, Types, WaiterStates,
               States, IdleStates, PendingStates, DrainingStates, FailedStates, Instants, Never
      <4>3. state.name \in {"Idle", "Pending"} => silent' <= Interval + Timeout
        BY <1>1, <2>1, <4>2, Constants
           DEF HInv, BoundFollowsSilence, Late, Tick, Types, States, IdleStates, PendingStates,
               DrainingStates, FailedStates, Instants
      <4>4. silent' \in Nat /\ state.name \in {"Idle", "Pending", "Draining", "Failed"}
        BY <1>1, <2>1, Constants
           DEF HInv, Tick, Types, States, IdleStates, PendingStates, DrainingStates, FailedStates
      <4> QED
        BY <4>2, <4>3, <4>4, Constants
    <3> QED
      BY <3>1
  <2>2. CASE silent' \in {0, silent}
    BY <1>1, <2>2 DEF HInv, Types
  <2> QED
    BY <1>1, <2>1, <2>2
       DEF Next, vars, Actor, FailureWaiter, Reader, ActorSubscribes, ActorReads, ActorWakes,
           ActorClaims, ActorWrites, ActorFlushes, WaiterSubscribes, WaiterReads, WaiterWakes,
           PublishOwner, path_owner_published, begin_path_drain, apply_to_published_owner,
           PeerAnswers, ReceivePong, ReceiveOther, ReceiveDrain
<1>2. HInv /\ [Next]_vars => [OnTime]_vars
  BY <1>1
<1> QED
  BY Invariance, <1>2, PTL DEF Spec, FailsOnTime

-----------------------------------------------------------------------------
(* The drain latch *)

Drained == state.name \in {"Draining", "Failed"}

Latches ==
  [publisher : {"installing", "checking", "done"}, drainer : {"none", "idle", "applying", "done"}]

DrainInv == latch \in Latches /\ DrainReachesOwner

\* begin_drain leaves no carrier in service.
LEMMA BeginDrainDrains ==
  ASSUME HInv, begin_drain
  PROVE  Drained'
<1>1. state.name \in {"Idle", "Pending", "Draining", "Failed"}
  BY DEF HInv, Types, States, IdleStates, PendingStates, DrainingStates, FailedStates
<1> QED
  BY <1>1 DEF begin_drain, fail_locked, Failed, Draining, Drained

\* No frame, PING, timeout or passing of time puts a drained carrier back.
LEMMA DrainIsFinal ==
  ASSUME HInv, Drained, [Next]_vars
  PROVE  Drained'
<1>1. ~Late /\ state.name # "Idle" /\ state.name # "Pending"
  BY DEF Drained, Late
<1>2. CASE UNCHANGED state
  BY <1>2 DEF Drained
<1>3. CASE ActorClaims \/ ActorFlushes \/ WaiterWakes
  BY <1>1, <1>2, <1>3 DEF ActorClaims, ActorFlushes, mark_ping_flushed, WaiterWakes
<1>4. CASE ReceivePong
  <2>1. PongOutOfTurn(wire.pong)
    BY <1>1, <1>4 DEF ReceivePong, ObservePong
  <2> QED
    BY <1>1, <1>2, <2>1 DEF PongOutOfTurn, fail_locked, Failed, Draining, Drained
<1>5. CASE ReceiveOther
  BY <1>1, <1>2, <1>5 DEF ReceiveOther, ObserveOther
<1>6. CASE path_owner_published \/ apply_to_published_owner \/ ReceiveDrain
  BY <1>2, <1>6, BeginDrainDrains DEF path_owner_published, apply_to_published_owner, ReceiveDrain
<1>7. CASE Tick
  BY <1>1, <1>2, <1>7 DEF Tick
<1> QED
  BY <1>2, <1>3, <1>4, <1>5, <1>6, <1>7
     DEF Next, vars, Actor, FailureWaiter, Reader, ActorSubscribes, ActorReads, ActorWakes,
         ActorWrites, WaiterSubscribes, WaiterReads, PublishOwner, begin_path_drain, PeerAnswers

\* Whoever of the publisher and the drainer comes second sees the other's write.
LEMMA DrainStep ==
  ASSUME HInv, DrainInv, [Next]_vars
  PROVE  DrainInv'
<1>1. CASE UNCHANGED latch
  BY <1>1, DrainIsFinal DEF DrainInv, DrainReachesOwner, Drained
<1>2. CASE PublishOwner \/ begin_path_drain
  BY <1>2 DEF PublishOwner, begin_path_drain, DrainInv, Latches, DrainReachesOwner
<1>3. CASE path_owner_published
  <2>1. latch' \in Latches /\ latch'.drainer = latch.drainer
    BY <1>3 DEF path_owner_published, DrainInv, Latches
  <2>2. latch.drainer = "done" => Drained'
    BY <1>3, BeginDrainDrains DEF path_owner_published
  <2> QED
    BY <2>1, <2>2 DEF DrainInv, DrainReachesOwner, Drained
<1>4. CASE apply_to_published_owner
  <2>1. latch' \in Latches /\ latch'.publisher = latch.publisher
    BY <1>4 DEF apply_to_published_owner, DrainInv, Latches
  <2>2. latch.publisher = "done" => Drained'
    BY <1>4, BeginDrainDrains DEF apply_to_published_owner, Watched
  <2> QED
    BY <2>1, <2>2 DEF DrainInv, DrainReachesOwner, Drained
<1> QED
  BY <1>1, <1>2, <1>3, <1>4
     DEF Next, vars, Actor, FailureWaiter, Reader, ActorSubscribes, ActorReads, ActorWakes,
         ActorClaims, ActorWrites, ActorFlushes, WaiterSubscribes, WaiterReads, WaiterWakes,
         PeerAnswers, ReceivePong, ReceiveOther, ReceiveDrain, Tick

\* begin_path_drain and the publication of a connection may interleave in every
\* way: once both are over, the published heartbeat drains or has failed, and the
\* drain is never undone.
THEOREM DrainReachesOwnerHolds == Spec => []DrainReachesOwner
<1>1. Init => DrainInv
  BY DEF Init, DrainInv, Latches, DrainReachesOwner
<1>2. HInv /\ DrainInv /\ [Next]_vars => DrainInv'
  BY DrainStep
<1>3. DrainInv => DrainReachesOwner
  BY DEF DrainInv
<1> QED
  BY Invariance, <1>1, <1>2, <1>3, PTL DEF Spec
=============================================================================
