----------------------------- MODULE SendBuffer -----------------------------
(***************************************************************************)
(* The session-wide send buffer that the sources of all streams share      *)
(* (runtime/stream/send_buffer.rs).  Every step is one critical section of *)
(* the accounting lock, or one step of a source that holds its own handle. *)
(* A source is one stream with its waiter, its reservation future, its     *)
(* permit and its StreamSendBufferReservation.                             *)
(***************************************************************************)
EXTENDS Integers, FiniteSets, SequencesExt

CONSTANTS
  Sources,
  limit_bytes,
  MaxRead,      \* bound on the max_bytes of a reservation
  MaxTicket     \* bound on the demand tickets that are allocated

ASSUME BufferBounds ==
  /\ limit_bytes \in Nat \ {0} /\ MaxRead \in Nat \ {0} /\ MaxTicket \in Nat

VARIABLES
  used_bytes,
  next_ticket,
  pending,      \* ticket-keyed map: records [ticket, source, max_bytes]
  ticket,       \* SessionSendBufferWaiter.ticket
  granted,      \* SessionSendBufferWaiter.granted_bytes
  waiting,      \* a SourceReservation that started and did not complete
  permit,       \* SessionSendBufferPermit.reserved_bytes, or NoPermit
  held          \* StreamSendBufferReservation.held_bytes

vars == <<used_bytes, next_ticket, pending, ticket, granted, waiting, permit, held>>

None == -1
NoPermit == -1

Init ==
  /\ used_bytes = 0
  /\ next_ticket = 0
  /\ pending = {}
  /\ ticket = [s \in Sources |-> None]
  /\ granted = [s \in Sources |-> 0]
  /\ waiting = [s \in Sources |-> FALSE]
  /\ permit = [s \in Sources |-> NoPermit]
  /\ held = [s \in Sources |-> 0]

\* Mutant of ByTicket: the newest request first.
NewestFirst(P) == SetToSortSeq(P, LAMBDA a, b : a.ticket > b.ticket)

ByTicket(P) == SetToSortSeq(P, LAMBDA a, b : a.ticket < b.ticket)

\* One turn of the loop: the oldest request is charged before it is woken.
Grant(b, request) ==
  IF b.used < limit_bytes
  THEN LET bytes == Min({limit_bytes - b.used, request.max_bytes})
       IN [used |-> b.used + bytes,
           pending |-> b.pending \ {request},
           granted |-> [b.granted EXCEPT ![request.source] = bytes]]
  ELSE b

\* The buffer after grant_pending, given what the caller did before it.
grant_pending(used, requests, grants) ==
  FoldLeft(Grant, [used |-> used, pending |-> requests, granted |-> grants],
           ByTicket(requests))

Granting(used, requests, grants) ==
  LET b == grant_pending(used, requests, grants)
  IN /\ used_bytes' = b.used
     /\ pending' = b.pending
     /\ granted' = b.granted

-----------------------------------------------------------------------------
(* SourceReservation::poll *)

\* The first poll finds capacity and nobody waiting.
PollImmediate(s, max_bytes) ==
  /\ ~waiting[s] /\ permit[s] = NoPermit
  /\ pending = {} /\ used_bytes < limit_bytes
  /\ LET bytes == Min({limit_bytes - used_bytes, max_bytes})
     IN /\ used_bytes' = used_bytes + bytes
        /\ permit' = [permit EXCEPT ![s] = bytes]
  /\ ticket' = [ticket EXCEPT ![s] = None]
  /\ UNCHANGED <<next_ticket, pending, granted, waiting, held>>

\* Otherwise it joins, at the age of a ticket it kept or with a new one.
PollEnqueue(s, max_bytes) ==
  /\ ~waiting[s] /\ permit[s] = NoPermit
  /\ ~(pending = {} /\ used_bytes < limit_bytes)
  /\ ticket[s] = None => next_ticket < MaxTicket
  /\ LET t == IF ticket[s] = None THEN next_ticket ELSE ticket[s]
     IN /\ ticket' = [ticket EXCEPT ![s] = t]
        /\ pending' = pending \cup {[ticket |-> t, source |-> s, max_bytes |-> max_bytes]}
  /\ next_ticket' = IF ticket[s] = None THEN next_ticket + 1 ELSE next_ticket
  /\ waiting' = [waiting EXCEPT ![s] = TRUE]
  /\ UNCHANGED <<used_bytes, granted, permit, held>>

\* A woken owner takes the bytes assigned to it.
PollGranted(s) ==
  /\ waiting[s] /\ granted[s] > 0
  /\ permit' = [permit EXCEPT ![s] = granted[s]]
  /\ granted' = [granted EXCEPT ![s] = 0]
  /\ ticket' = [ticket EXCEPT ![s] = None]
  /\ waiting' = [waiting EXCEPT ![s] = FALSE]
  /\ UNCHANGED <<used_bytes, next_ticket, pending, held>>

-----------------------------------------------------------------------------
(* Cancellation and release *)

\* Mutant of cancel_request: a grant that was not taken is not refunded.
CancelUnrefunded(s) ==
  Granting(used_bytes, {p \in pending : p.ticket # ticket[s]}, [granted EXCEPT ![s] = 0])

cancel_request(s) ==
  Granting(used_bytes - granted[s],
           {p \in pending : p.ticket # ticket[s]},
           [granted EXCEPT ![s] = 0])

\* The reservation future loses a select and is dropped; the age is kept.
DropReservation(s) ==
  /\ waiting[s]
  /\ cancel_request(s)
  /\ waiting' = [waiting EXCEPT ![s] = FALSE]
  /\ UNCHANGED <<next_ticket, ticket, permit, held>>

\* The source is no longer eligible, or its owner is dropped.
withdraw(s) ==
  /\ ~waiting[s] /\ ticket[s] # None
  /\ cancel_request(s)
  /\ ticket' = [ticket EXCEPT ![s] = None]
  /\ UNCHANGED <<next_ticket, waiting, permit, held>>

\* Mutant of release: nobody is granted the bytes.
ReleaseSilently(bytes) == used_bytes' = used_bytes - bytes /\ UNCHANGED <<pending, granted>>

release(bytes) == Granting(used_bytes - bytes, pending, granted)

\* A local read took some of the permit; the rest goes back.
retain(s, bytes) ==
  /\ permit[s] # NoPermit /\ bytes <= permit[s]
  /\ held' = [held EXCEPT ![s] = @ + bytes]
  /\ release(permit[s] - bytes)
  /\ permit' = [permit EXCEPT ![s] = NoPermit]
  /\ UNCHANGED <<next_ticket, ticket, waiting>>

\* The read is cancelled with the future that owns the permit.
DropPermit(s) ==
  /\ permit[s] # NoPermit
  /\ release(permit[s])
  /\ permit' = [permit EXCEPT ![s] = NoPermit]
  /\ UNCHANGED <<next_ticket, ticket, waiting, held>>

\* A Data ACK, or with all the bytes the end of the stream.
ReleaseHeld(s, bytes) ==
  /\ bytes \in 1 .. held[s]
  /\ held' = [held EXCEPT ![s] = @ - bytes]
  /\ release(bytes)
  /\ UNCHANGED <<next_ticket, ticket, waiting, permit>>

-----------------------------------------------------------------------------
Next ==
  \E s \in Sources :
    \/ \E m \in 1 .. MaxRead : PollImmediate(s, m) \/ PollEnqueue(s, m)
    \/ PollGranted(s)
    \/ DropReservation(s)
    \/ withdraw(s)
    \/ \E b \in 0 .. limit_bytes : retain(s, b)
    \/ DropPermit(s)
    \/ \E b \in 1 .. limit_bytes : ReleaseHeld(s, b)

\* The relay loops poll a reservation in a select without `biased` ("Fair
\* polling", server.rs), so a source that is given a grant again and again is
\* polled in time once: strong fairness.  A weak one would not do, two sources
\* with old tickets could pass one grant to each other by cancelling for ever.
\* A read that holds a permit ends, with data, with EOF or because its select
\* turn is lost; and Data ACKs keep arriving for bytes that are held.
Fairness ==
  \A s \in Sources :
    /\ SF_vars(PollGranted(s))
    /\ WF_vars(DropPermit(s) \/ \E b \in 0 .. limit_bytes : retain(s, b))
    /\ WF_vars(\E b \in 1 .. limit_bytes : ReleaseHeld(s, b))

Spec == Init /\ [][Next]_vars /\ Fairness

-----------------------------------------------------------------------------
(* Properties *)

TypeOK ==
  /\ used_bytes \in 0 .. limit_bytes
  /\ next_ticket \in 0 .. MaxTicket
  /\ pending \subseteq [ticket : 0 .. MaxTicket - 1, source : Sources, max_bytes : 1 .. MaxRead]
  /\ ticket \in [Sources -> {None} \cup 0 .. MaxTicket - 1]
  /\ granted \in [Sources -> 0 .. limit_bytes]
  /\ waiting \in [Sources -> BOOLEAN]
  /\ permit \in [Sources -> {NoPermit} \cup 0 .. limit_bytes]
  /\ held \in [Sources -> 0 .. limit_bytes]

Sum(f) == FoldLeft(LAMBDA a, s : a + f[s], 0, SetToSeq(Sources))

\* Release and cancellation assign all available bytes at once, which poll
\* relies on (its debug_assert): nobody waits while capacity is free.  And the
\* map is what it is taken for: a request in it belongs to a live reservation
\* without a grant, under its own ticket, and a live reservation without a
\* grant is in it, so that it cannot be forgotten.
NobodyWaitsForNothing ==
  /\ pending # {} => used_bytes = limit_bytes
  /\ \A p \in pending : waiting[p.source] /\ ticket[p.source] = p.ticket /\ granted[p.source] = 0
  /\ \A s \in Sources : waiting[s] /\ granted[s] = 0 => \E p \in pending : p.source = s
  /\ \A s \in Sources : granted[s] > 0 => waiting[s]
  /\ \A s, r \in Sources : s # r /\ ticket[s] # None => ticket[s] # ticket[r]

\* Every charged byte has one owner: an assigned grant, a permit, or a stream.
\* No order of grants, cancellations and refunds counts one twice or leaks it,
\* the limit of the session holds, and a byte nobody owns is not waited for.
EveryByteOwned ==
  /\ TypeOK
  /\ used_bytes = Sum(granted) + Sum(held)
                    + Sum([s \in Sources |-> IF permit[s] = NoPermit THEN 0 ELSE permit[s]])
  /\ NobodyWaitsForNothing

\* "the oldest unsatisfied request MUST own the next positive grant" (RFC):
\* nobody is given bytes, assigned or immediate, past an older request.
OldestFirst ==
  [][\A s \in Sources :
       (granted'[s] > granted[s] \/ (permit'[s] > permit[s] /\ granted[s] = 0))
         => ~\E p \in pending : p \in pending' /\ (ticket[s] = None \/ p.ticket < ticket[s])]_vars

\* A reservation that is not cancelled gets bytes as long as held bytes are
\* acknowledged and reads end, however often others cancel and come back.
EveryWaiterServed ==
  \A s \in Sources : waiting[s] ~> ~waiting[s]
=============================================================================
