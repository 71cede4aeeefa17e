----------------------------- MODULE TcpHeartbeat -----------------------------
(***************************************************************************)
(* The liveness of one authenticated TCP carrier                           *)
(* (runtime/path/tcp/heartbeat.rs) with the threads that share it: the     *)
(* reader that observes frames, the carrier actor that sends PINGs         *)
(* (client/connection.rs), the waiter that fails the carrier, and the      *)
(* lifecycle that drains it while it is being published                    *)
(* (client/session.rs).  Every instant is kept as its distance from now,   *)
(* so time has no bound.                                                   *)
(***************************************************************************)
EXTENDS Integers

CONSTANTS
  Interval,   \* tcp_path_heartbeat_interval
  Timeout,    \* tcp_path_heartbeat_timeout
  Delays      \* what heartbeat_renewal_delay can choose

ASSUME HeartbeatInputs ==
  /\ {Interval, Timeout} \subseteq Nat \ {0}
  /\ Delays # {} /\ Delays \subseteq 1 .. Interval

VARIABLES
  side,       \* which end of the carrier this is
  state,      \* HeartbeatState
  sample,     \* sample_due_at
  delay,      \* the renewal delay in force
  changed,    \* the waiters with a schedule revision they have not seen
  actor,      \* the carrier actor, with the instant it sleeps to and its last nonce
  waiter,     \* wait_for_failure, with the instant it sleeps to
  latch,      \* the drain latch, and how far each of its two users is
  wire,       \* the PING and the PONG under way
  silent      \* history: the time since the last authenticated frame

vars == <<side, state, sample, delay, changed, actor, waiter, latch, wire, silent>>

Never == Interval + Timeout + 1     \* an instant no clock reaches
NoNonce == -1
Lesser(a, b) == IF a <= b THEN a ELSE b

Idle(due) == [name |-> "Idle", due |-> due]
Pending(nonce, deadline) ==
  [name |-> "Pending", nonce |-> nonce, deadline |-> deadline, phase |-> "Sending"]
Draining(tombstone) == [name |-> "Draining", tombstone |-> tombstone]
Failed(failure) == [name |-> "Failed", failure |-> failure]

Waiters == {"actor", "waiter"}

\* A client's first sample is due with its first delay, a server's at once.  A
\* client's connection may be published when its session starts, or be installed
\* by a later command.
Init ==
  /\ delay \in Delays /\ state = Idle(delay)
  /\ \/ side = "server" /\ sample = 0 /\ latch = [publisher |-> "done", drainer |-> "none"]
     \/ side = "client" /\ sample = delay
        /\ latch \in [publisher : {"installing", "done"}, drainer : {"idle"}]
  /\ changed = {}
  /\ actor = [at |-> "subscribing", until |-> Never, nonce |-> 0]
  /\ waiter = [at |-> "subscribing", until |-> Never]
  /\ wire = [ping |-> NoNonce, pong |-> NoNonce]
  /\ silent = 0

-----------------------------------------------------------------------------
(* The shared state: each operation holds its lock and reads the clock there *)

\* The first failure is kept, since nothing below fails a failed carrier.
fail_locked(failure) == state' = Failed(failure) /\ changed' = Waiters

\* Past the immutable bound: the due instant, or the claim's deadline.
Late ==
  \/ state.name = "Idle" /\ state.due + Timeout <= 0
  \/ state.name = "Pending" /\ state.deadline <= 0

Overdue ==
  IF state.name = "Pending" /\ state.phase = "AwaitingPong" THEN "ReplyTimeout"
  ELSE "SendProgressTimeout"

\* Mutant of due_at: receive traffic also postpones the timing sample.
IdleOnly == state.due

due_at == Lesser(sample, state.due)

\* Mutant of claim_due_ping: the waiters are not told of the nearer deadline.
ClaimSilently(nonce) ==
  IF Late THEN fail_locked("SendProgressTimeout")
  ELSE state' = Pending(nonce, Lesser(state.due, 0) + Timeout) /\ UNCHANGED changed

\* claim_due_ping of an idle schedule that is due
claim_due_ping(nonce) ==
  IF Late THEN fail_locked("SendProgressTimeout")
  ELSE \/ state' = Pending(nonce, Lesser(state.due, 0) + Timeout) /\ changed' = Waiters
       \/ fail_locked("RandomSourceFailure")

\* The PONG may have come before the flush returns, and the drain too.
mark_ping_flushed(nonce) ==
  IF state.name # "Pending" THEN UNCHANGED <<state, changed>>
  ELSE CASE state.nonce # nonce -> fail_locked("ProtocolViolation")
         [] state.nonce = nonce /\ Late -> fail_locked("SendProgressTimeout")
         [] OTHER -> state' = [state EXCEPT !.phase = "AwaitingPong"] /\ UNCHANGED changed

\* An exact and timely PONG draws the next delay.
Renew ==
  \/ /\ delay' \in Delays /\ sample' = delay' /\ state' = Idle(delay')
     /\ changed' = Waiters
  \/ fail_locked("RandomSourceFailure") /\ UNCHANGED <<delay, sample>>

\* Mutant of PongOutOfTurn: a drain forgets the PING under way.
ForgetTombstone(nonce) ==
  CASE state.name = "Failed" -> UNCHANGED <<state, changed>>
    [] Late -> fail_locked(Overdue)
    [] OTHER -> fail_locked("ProtocolViolation")

\* Any other PONG: consumed by a drain that expects it, too late, or not asked for.
PongOutOfTurn(nonce) ==
  CASE state.name = "Failed" -> UNCHANGED <<state, changed>>
    [] state.name = "Draining" /\ state.tombstone = nonce ->
         state' = Draining(NoNonce) /\ UNCHANGED changed
    [] Late -> fail_locked(Overdue)
    [] OTHER -> fail_locked("ProtocolViolation")

\* observe_authenticated_frame, of a PONG
ObservePong(nonce) ==
  IF state.name = "Pending" /\ ~Late /\ state.nonce = nonce THEN Renew
  ELSE PongOutOfTurn(nonce) /\ UNCHANGED <<delay, sample>>

\* observe_authenticated_frame, of any other frame.  The due instant only moves
\* away, so no waiter is told; a pending deadline stays.
ObserveOther ==
  CASE Late -> fail_locked(Overdue)
    [] ~Late /\ state.name = "Idle" -> state' = Idle(delay) /\ UNCHANGED changed
    [] OTHER -> UNCHANGED <<state, changed>>

begin_drain ==
  CASE Late -> fail_locked(Overdue)
    [] ~Late /\ state.name = "Idle" -> state' = Draining(NoNonce) /\ changed' = Waiters
    [] ~Late /\ state.name = "Pending" -> state' = Draining(state.nonce) /\ changed' = Waiters
    [] OTHER -> UNCHANGED <<state, changed>>

-----------------------------------------------------------------------------
(* The carrier actor: wait_until_due, then one PING.  It runs once the       *)
(* connection is installed, and other work may keep it.                      *)

Running == latch.publisher = "done" /\ waiter.at # "returned"
ActorAt(at) == Running /\ actor.at = at
ActorGoes(at) == actor' = [at |-> at, until |-> Never, nonce |-> actor.nonce]

\* borrow_and_update, before the schedule is read
ActorSubscribes ==
  /\ ActorAt("subscribing")
  /\ ActorGoes("reading") /\ changed' = changed \ {"actor"}
  /\ UNCHANGED <<side, state, sample, delay, waiter, latch, wire, silent>>

\* next_due_at
ActorReads ==
  /\ ActorAt("reading")
  /\ LET due == IF state.name = "Idle" THEN due_at ELSE Never
     IN IF due # Never /\ due <= 0 THEN ActorGoes("claiming")
        ELSE actor' = [at |-> "sleeping", until |-> due, nonce |-> actor.nonce]
  /\ UNCHANGED <<side, state, sample, delay, changed, waiter, latch, wire, silent>>

\* A change is preferred to the end of the sleep; other work of the actor drops
\* the wait and starts it again.
ActorWakes ==
  /\ ActorAt("sleeping")
  /\ \/ ActorGoes("subscribing")
     \/ /\ "actor" \notin changed /\ actor.until # Never /\ actor.until <= 0
        /\ ActorGoes("claiming")
  /\ UNCHANGED <<side, state, sample, delay, changed, waiter, latch, wire, silent>>

\* tick_heartbeat and send_due_heartbeat, to the write
ActorClaims ==
  /\ ActorAt("claiming")
  /\ IF state.name = "Idle" /\ due_at <= 0
     THEN /\ claim_due_ping(1 - actor.nonce)
          /\ IF state'.name = "Failed" THEN ActorGoes("stopped")
             ELSE actor' = [at |-> "writing", until |-> Never, nonce |-> 1 - actor.nonce]
     ELSE /\ ActorGoes(IF state.name = "Failed" THEN "stopped" ELSE "subscribing")
          /\ UNCHANGED <<state, changed>>
  /\ UNCHANGED <<side, sample, delay, waiter, latch, wire, silent>>

\* The peer has the frame before the flush returns.
ActorWrites ==
  /\ ActorAt("writing")
  /\ wire' = [wire EXCEPT !.ping = actor.nonce]
  /\ ActorGoes("flushing")
  /\ UNCHANGED <<side, state, sample, delay, changed, waiter, latch, silent>>

ActorFlushes ==
  /\ ActorAt("flushing")
  /\ mark_ping_flushed(actor.nonce)
  /\ ActorGoes(IF state'.name = "Failed" THEN "stopped" ELSE "subscribing")
  /\ UNCHANGED <<side, sample, delay, waiter, latch, wire, silent>>

-----------------------------------------------------------------------------
(* wait_for_failure, over the published owner *)

Watched == latch.publisher # "installing"
WaiterGoes(at) == waiter' = [at |-> at, until |-> Never]

failure_deadline ==
  CASE state.name = "Idle" -> state.due + Timeout
    [] state.name = "Pending" -> state.deadline
    [] OTHER -> Never

WaiterSubscribes ==
  /\ Watched /\ waiter.at = "subscribing"
  /\ WaiterGoes("reading") /\ changed' = changed \ {"waiter"}
  /\ UNCHANGED <<side, state, sample, delay, actor, latch, wire, silent>>

\* A failure ends the session and its actor, wherever the actor waits.
WaiterReads ==
  /\ waiter.at = "reading"
  /\ IF state.name = "Failed" THEN WaiterGoes("returned")
     ELSE waiter' = [at |-> "sleeping", until |-> failure_deadline]
  /\ UNCHANGED <<side, state, sample, delay, changed, actor, latch, wire, silent>>

SleepOver == waiter.until # Never /\ waiter.until <= 0

\* A change is preferred to the end of the sleep, which expires what is late.
WaiterWakes ==
  /\ waiter.at = "sleeping"
  /\ "waiter" \in changed \/ SleepOver
  /\ IF "waiter" \notin changed /\ Late THEN fail_locked(Overdue)
     ELSE UNCHANGED <<state, changed>>
  /\ WaiterGoes("subscribing")
  /\ UNCHANGED <<side, sample, delay, actor, latch, wire, silent>>

FailureWaiter == WaiterSubscribes \/ WaiterReads \/ WaiterWakes

\* It has something to do.
WaiterBusy ==
  \/ Watched /\ waiter.at = "subscribing"
  \/ waiter.at = "reading"
  \/ waiter.at = "sleeping" /\ ("waiter" \in changed \/ SleepOver)

-----------------------------------------------------------------------------
(* A planned drain while the connection is being installed: each thread      *)
(* writes its half before it reads the other's.                              *)

\* replace_connection: the owner is published,
PublishOwner ==
  /\ latch.publisher = "installing"
  /\ latch' = [latch EXCEPT !.publisher = "checking"]
  /\ UNCHANGED <<side, state, sample, delay, changed, actor, waiter, wire, silent>>

\* Mutant of path_owner_published: the latch is not read again.
LatchNotReread ==
  /\ latch.publisher = "checking"
  /\ latch' = [latch EXCEPT !.publisher = "done"]
  /\ UNCHANGED <<side, state, sample, delay, changed, actor, waiter, wire, silent>>

\* and the latch is read again.
path_owner_published ==
  /\ latch.publisher = "checking"
  /\ IF latch.drainer # "idle" THEN begin_drain ELSE UNCHANGED <<state, changed>>
  /\ latch' = [latch EXCEPT !.publisher = "done"]
  /\ UNCHANGED <<side, sample, delay, actor, waiter, wire, silent>>

\* The lifecycle sets the latch,
begin_path_drain ==
  /\ latch.drainer = "idle"
  /\ latch' = [latch EXCEPT !.drainer = "applying"]
  /\ UNCHANGED <<side, state, sample, delay, changed, actor, waiter, wire, silent>>

\* and drains the owner that is published.
apply_to_published_owner ==
  /\ latch.drainer = "applying"
  /\ IF Watched THEN begin_drain ELSE UNCHANGED <<state, changed>>
  /\ latch' = [latch EXCEPT !.drainer = "done"]
  /\ UNCHANGED <<side, sample, delay, actor, waiter, wire, silent>>

-----------------------------------------------------------------------------
(* The peer, the reader and the clock *)

\* The peer answers each PING once, or never.
PeerAnswers ==
  /\ wire.ping # NoNonce
  /\ wire' = [ping |-> NoNonce, pong |-> wire.ping]
  /\ UNCHANGED <<side, state, sample, delay, changed, actor, waiter, latch, silent>>

ReceivePong ==
  /\ wire.pong # NoNonce
  /\ ObservePong(wire.pong)
  /\ wire' = [wire EXCEPT !.pong = NoNonce] /\ silent' = 0
  /\ UNCHANGED <<side, actor, waiter, latch>>

ReceiveOther ==
  /\ ObserveOther
  /\ silent' = 0
  /\ UNCHANGED <<side, sample, delay, actor, waiter, latch, wire>>

\* PATH_DRAIN of this path or SESSION_CLOSE, at a server: the drain begins before
\* the frame counts as activity, and then it changes nothing more.
ReceiveDrain ==
  /\ side = "server"
  /\ begin_drain
  /\ silent' = 0
  /\ UNCHANGED <<side, sample, delay, actor, waiter, latch, wire>>

\* Every wake-up of the failure waiter comes before the clock moves on; the other
\* threads may take their time.  What is past every bound stays there.
Tick ==
  /\ ~WaiterBusy
  /\ state' = CASE state.name = "Idle" /\ ~Late -> [state EXCEPT !.due = @ - 1]
                [] state.name = "Pending" /\ ~Late -> [state EXCEPT !.deadline = @ - 1]
                [] OTHER -> state
  /\ sample' = IF sample = 0 THEN 0 ELSE sample - 1
  /\ waiter' = [waiter EXCEPT !.until = IF @ = Never THEN @ ELSE @ - 1]
  /\ actor' = [actor EXCEPT !.until = IF @ = Never THEN @ ELSE IF @ <= 0 THEN 0 ELSE @ - 1]
  /\ silent' = IF silent > Interval + Timeout THEN silent ELSE silent + 1
  /\ UNCHANGED <<side, delay, changed, latch, wire>>

Actor ==
  \/ ActorSubscribes \/ ActorReads \/ ActorWakes
  \/ ActorClaims \/ ActorWrites \/ ActorFlushes

Reader == ReceivePong \/ ReceiveOther \/ ReceiveDrain

Next ==
  \/ Actor \/ FailureWaiter
  \/ PublishOwner \/ path_owner_published \/ begin_path_drain \/ apply_to_published_owner
  \/ PeerAnswers \/ Reader \/ Tick

\* Each actor step but the wait follows the one before it; the wait ends by its
\* timer.  The peer answers and its answer is read.
Fairness ==
  /\ WF_vars(ActorSubscribes) /\ WF_vars(ActorReads) /\ WF_vars(ActorWakes)
  /\ WF_vars(ActorClaims) /\ WF_vars(ActorWrites) /\ WF_vars(ActorFlushes)
  /\ WF_vars(FailureWaiter) /\ WF_vars(PeerAnswers) /\ WF_vars(ReceivePong)
  /\ WF_vars(Tick)

Spec == Init /\ [][Next]_vars /\ Fairness

-----------------------------------------------------------------------------
Nonces == {0, 1}
Instants == -Timeout .. Interval + Timeout
Failures == {"SendProgressTimeout", "ReplyTimeout", "ProtocolViolation", "RandomSourceFailure"}

\* The heartbeat state is one of the four of the code, with its instants in range.
TypeOK ==
  /\ state \in [name : {"Idle"}, due : Instants]
         \cup [name : {"Pending"}, nonce : Nonces, deadline : 0 .. Timeout,
               phase : {"Sending", "AwaitingPong"}]
         \cup [name : {"Draining"}, tombstone : Nonces \cup {NoNonce}]
         \cup [name : {"Failed"}, failure : Failures]
  /\ sample \in 0 .. Interval /\ delay \in Delays
  /\ changed \subseteq Waiters

\* A peer that answers every PING once is never told it broke the protocol, in
\* whatever order its PONG meets the flush, a drain, the deadline and the next
\* claim.
HonestPeerKept ==
  TypeOK /\ (state.name = "Failed" => state.failure # "ProtocolViolation")

\* The failure waiter never oversleeps: while it watches the carrier no time
\* passes beyond the bound in force, and a peer that falls silent is found out
\* within one interval and one timeout, however busy the actor and its writer are.
FailsOnTime ==
  [][silent' > silent /\ Watched =>
       /\ ~Late
       /\ silent' > Interval + Timeout => state.name \in {"Draining", "Failed"}]_vars

\* A drain that meets the installation of a connection reaches its heartbeat,
\* whichever of the two comes first.
DrainReachesOwner ==
  latch.drainer = "done" /\ latch.publisher = "done" => state.name \in {"Draining", "Failed"}

\* A server's carrier keeps taking round-trip samples however dense the traffic
\* it receives, until it drains or fails.
SampledUnderTraffic ==
  side = "server" => []<>(state.name \in {"Pending", "Draining", "Failed"})
=============================================================================
