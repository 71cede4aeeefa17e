--------------------------- MODULE Requalification ---------------------------
(***************************************************************************)
(* How a stale carrier attachment of one stream direction earns its place  *)
(* back (model/requalification.rs and its owner, the request sender in     *)
(* runtime/sender/request/multipath.rs): one data-bearing probe at a time, *)
(* an exact and timely receipt, then OriginalData that was assigned after  *)
(* the receipt.  Probes and receipts travel outside, may be lost, late or  *)
(* repeated.                                                               *)
(***************************************************************************)
EXTENDS Integers, FiniteSets, SequencesExt

CONSTANTS
  Candidates,     \* attachment instances, each attached at most once
  retry_after,    \* reliable_path_stale_interval
  MaxTime, MaxProbe,   \* bounds
  MaxLate,        \* bound: further attachments come before one is marked stale
                  \* (Attach neither reads nor changes the ledger)
  MaxFlights(_)   \* bound on the flights, for a number of attachments

ASSUME RequalificationBounds ==
  /\ retry_after \in Nat \ {0} /\ {MaxTime, MaxProbe, MaxLate} \subseteq Nat
  /\ \A n \in 0 .. Cardinality(Candidates) : MaxFlights(n) \in Nat

VARIABLES
  entries,              \* sequence of [candidate, state]
  next_probe_id, next_candidate_index,
  authority,            \* product_qualification authority of each instance
  flights,              \* OriginalData in flight: [instance, sent_at, proving], and
                        \* fresh (history): assigned since the last mark or receipt
  live,                 \* attachments of the stream
  now,
  detached,             \* instances that are gone for good
  probes,               \* every probe published, a receipt of which may arrive
  passes                \* history: probes given to others since its last turn

ledger == <<entries, next_probe_id, next_candidate_index>>
vars == <<ledger, authority, flights, live, now, detached, probes, passes>>

Qualified == [kind |-> "Qualified"]
Stale(t) == [kind |-> "Stale", retry_at |-> t]
Requalifying(p, t) == [kind |-> "Requalifying", probe |-> p, retry_at |-> t]
Acquiring(t) == [kind |-> "Acquiring", started_at |-> t]

Nobody == "nobody"

Init ==
  /\ entries = <<>> /\ next_probe_id = 1 /\ next_candidate_index = 0
  /\ authority = [c \in Candidates |-> "Active"]
  /\ flights = {}
  /\ live = {} /\ detached = {}
  /\ now = 0
  /\ probes = {}
  /\ passes = [c \in Candidates |-> 0]

-----------------------------------------------------------------------------
(* The ledger's operations, on a record of its three fields *)

Ledger == [entries |-> entries, id |-> next_probe_id, index |-> next_candidate_index]

Becomes(l) == entries' = l.entries /\ next_probe_id' = l.id /\ next_candidate_index' = l.index

Positions(es, c) == {i \in DOMAIN es : es[i].candidate = c}

state(es, c) ==
  IF Positions(es, c) = {} THEN Qualified
  ELSE es[CHOOSE i \in Positions(es, c) : TRUE].state

\* state_mut: the entry is added when it is missing.
SetState(es, c, q) ==
  IF Positions(es, c) = {} THEN Append(es, [candidate |-> c, state |-> q])
  ELSE [i \in DOMAIN es |-> IF es[i].candidate = c THEN [es[i] EXCEPT !.state = q] ELSE es[i]]

stale_for_original_data(c) == state(entries, c).kind \in {"Stale", "Requalifying"}

expire_probe_at(es) ==
  [i \in DOMAIN es |->
     IF es[i].state.kind = "Requalifying" /\ es[i].state.retry_at <= now
     THEN [es[i] EXCEPT !.state = Stale(es[i].state.retry_at)] ELSE es[i]]

retain_live(l) ==
  LET kept == SelectSeq(l.entries, LAMBDA e : e.candidate \in live)
  IN [l EXCEPT !.entries = kept,
               !.index = IF kept = <<>> THEN 0 ELSE l.index % Len(kept)]

ProbePending(es) == \E i \in DOMAIN es : es[i].state.kind = "Requalifying"

Due(q) == q.kind = "Stale" /\ q.retry_at <= now

\* The stale candidates that are due, in turn from next_candidate_index on.
eligible_probe_candidates_where(l, eligible) ==
  LET n == Len(l.entries)
      turn == [d \in 1 .. n |-> l.entries[((l.index + d - 1) % n) + 1]]
      due == SelectSeq(turn, LAMBDA e : Due(e.state) /\ e.candidate \in eligible)
  IN IF ProbePending(l.entries) THEN <<>> ELSE [i \in DOMAIN due |-> due[i].candidate]

CanStart(l, c) ==
  ~ProbePending(l.entries) /\ Due(state(l.entries, c)) /\ l.id <= MaxProbe

\* Mutant of start_probe: the turn is not passed on.
StartSameTurn(l, c) ==
  [entries |-> SetState(l.entries, c, Requalifying(l.id, now + retry_after)),
   id |-> l.id + 1,
   index |-> l.index]

\* Probe payload and offset are never reused apart from the id.
start_probe(l, c) ==
  LET i == CHOOSE k \in Positions(l.entries, c) : TRUE
  IN [entries |-> SetState(l.entries, c, Requalifying(l.id, now + retry_after)),
      id |-> l.id + 1,
      index |-> i % Len(l.entries)]

\* Mutant of cancel_unpublished_probe: the refused probe stays expected.
CancelNothing(l, c) == l

cancel_unpublished_probe(l, c) == [l EXCEPT !.entries = SetState(l.entries, c, Stale(now))]

-----------------------------------------------------------------------------
(* Attachments and OriginalData *)

Attached == Cardinality(live \cup detached)

Attach(c) ==
  /\ c \notin live \cup detached
  /\ entries = <<>> \/ Attached < MaxLate
  /\ Cardinality(flights) <= MaxFlights(Attached + 1)
  /\ live' = live \cup {c}
  /\ UNCHANGED <<ledger, authority, flights, now, detached, probes, passes>>

\* The carrier goes away; the sender learns of it when it reconciles.
Detach(c) ==
  /\ c \in live
  /\ live' = live \ {c} /\ detached' = detached \cup {c}
  /\ UNCHANGED <<ledger, authority, flights, now, probes, passes>>

\* Only an attachment that is not stale is given OriginalData.
AssignOriginal(c) ==
  /\ c \in live /\ ~stale_for_original_data(c)
  /\ Cardinality(flights) < MaxFlights(Attached)
  /\ flights' = flights \cup {[instance |-> c, sent_at |-> now, proving |-> TRUE,
                               fresh |-> TRUE]}
  /\ UNCHANGED <<ledger, authority, live, now, detached, probes, passes>>

\* Mutant of invalidate_original_evidence: older flights stay proving.
EvidenceKept(fs, S) == fs

invalidate_original_evidence(fs, S) ==
  {[f EXCEPT !.proving = f.proving /\ f.instance \notin S] : f \in fs}

Aged(fs, c) == {[f EXCEPT !.fresh = f.fresh /\ f.instance # c] : f \in fs}

mark_path_stale(c) ==
  /\ c \in live
  /\ ~stale_for_original_data(c)
  /\ entries' = SetState(entries, c, Stale(now))
  /\ flights' = invalidate_original_evidence(Aged(flights, c), {c})
  /\ authority' = [authority EXCEPT ![c] = "Revoked"]
  /\ passes' = [passes EXCEPT ![c] = 0]
  /\ UNCHANGED <<next_probe_id, next_candidate_index, live, now, detached, probes>>

observe_unique_original_progress(es, c, assigned_at) ==
  LET q == state(es, c)
  IN SetState(es, c, IF q.kind = "Acquiring" /\ assigned_at >= q.started_at THEN Qualified ELSE q)

\* A Data ACK releases a flight; only a unique original is evidence.
ReleaseOriginal(f) ==
  /\ flights' = flights \ {f}
  /\ entries' = IF f.proving
                THEN observe_unique_original_progress(entries, f.instance, f.sent_at)
                ELSE entries
  /\ UNCHANGED <<next_probe_id, next_candidate_index, authority, live, now, detached, probes,
                 passes>>

-----------------------------------------------------------------------------
(* Probes *)

\* What the sender does before it looks for candidates.
Reconciled == [retain_live(Ledger) EXCEPT !.entries = expire_probe_at(@)]

\* The candidates in turn, up to the one whose probe the carrier takes.  Those
\* before it have no capacity, or their probe is started and cannot be queued.
Attempt(l, c, cancelled) ==
  IF c \in cancelled /\ CanStart(l, c) THEN cancel_unpublished_probe(start_probe(l, c), c) ELSE l

try_enqueue_requalification_probe ==
  LET reconciled == Reconciled
      due == eligible_probe_candidates_where(reconciled, live)
      place(c) == CHOOSE i \in DOMAIN due : due[i] = c
      before(c) == IF c = Nobody THEN due ELSE SubSeq(due, 1, place(c) - 1)
  IN \E c \in ToSet(due) \cup {Nobody} : \E cancelled \in SUBSET ToSet(before(c)) :
       LET tried == ToSet(before(c))
           l == FoldLeft(LAMBDA a, b : Attempt(a, b, cancelled), reconciled, before(c))
       IN /\ flights' = invalidate_original_evidence(flights, detached)
          /\ \/ /\ c # Nobody /\ CanStart(l, c)
                /\ Becomes(start_probe(l, c))
                /\ probes' = probes \cup {[id |-> l.id, target |-> c]}
                /\ passes' = [b \in Candidates |->
                                IF b = c \/ b \in tried THEN 0
                                ELSE IF b \in ToSet(due) THEN passes[b] + 1
                                ELSE passes[b]]
             \/ /\ c = Nobody
                /\ Becomes(l)
                /\ passes' = [b \in Candidates |-> IF b \in tried THEN 0 ELSE passes[b]]
                /\ UNCHANGED probes
          /\ UNCHANGED <<authority, live, now, detached>>

Expects(es, c, id) == state(es, c).kind = "Requalifying" /\ state(es, c).probe = id

\* Mutant of acknowledge_requalification_probe: a late receipt gives the
\* authority back.
AcknowledgeLate(id) ==
  /\ \E c \in {entries[i].candidate : i \in DOMAIN entries} :
       /\ Expects(entries, c, id)
       /\ authority[c] = "Revoked"
       /\ LET timely == now < state(entries, c).retry_at
          IN entries' = SetState(entries, c, IF timely THEN Acquiring(now)
                                             ELSE Stale(state(entries, c).retry_at))
       /\ authority' = [authority EXCEPT ![c] = "Active"]
       /\ flights' = Aged(flights, c)
  /\ UNCHANGED <<next_probe_id, next_candidate_index, live, now, detached, probes, passes>>

\* A receipt, found by its probe and not by the carrier that returned it.
acknowledge_requalification_probe(id) ==
  /\ \E c \in {entries[i].candidate : i \in DOMAIN entries} :
       /\ Expects(entries, c, id)
       /\ authority[c] = "Revoked"
       /\ LET timely == now < state(entries, c).retry_at
          IN /\ entries' = SetState(entries, c, IF timely THEN Acquiring(now)
                                                ELSE Stale(state(entries, c).retry_at))
             /\ authority' = IF timely THEN [authority EXCEPT ![c] = "Active"] ELSE authority
       /\ flights' = Aged(flights, c)
  /\ UNCHANGED <<next_probe_id, next_candidate_index, live, now, detached, probes, passes>>

Tick ==
  /\ now < MaxTime
  /\ now' = now + 1
  /\ UNCHANGED <<ledger, authority, flights, live, detached, probes, passes>>

Next ==
  \/ \E c \in Candidates : Attach(c) \/ Detach(c) \/ AssignOriginal(c) \/ mark_path_stale(c)
  \/ \E f \in flights : ReleaseOriginal(f)
  \/ try_enqueue_requalification_probe
  \/ \E id \in {p.id : p \in probes} : acknowledge_requalification_probe(id)
  \/ Tick

Spec == Init /\ [][Next]_vars

-----------------------------------------------------------------------------
(* Properties *)

Qualification ==
  {Qualified} \cup {Stale(t) : t \in 0 .. MaxTime} \cup {Acquiring(t) : t \in 0 .. MaxTime}
    \cup {Requalifying(p, t) : p \in 1 .. MaxProbe, t \in 0 .. MaxTime + retry_after}

TypeOK ==
  /\ \A i \in DOMAIN entries : entries[i] \in [candidate : Candidates, state : Qualification]
  /\ \A c \in Candidates : Cardinality(Positions(entries, c)) <= 1
  /\ next_probe_id \in 1 .. MaxProbe + 1
  /\ next_candidate_index \in 0 .. Cardinality(Candidates)
  /\ authority \in [Candidates -> {"Active", "Revoked"}]
  /\ flights \subseteq [instance : Candidates, sent_at : 0 .. MaxTime, proving : BOOLEAN,
                        fresh : BOOLEAN]
  /\ live \subseteq Candidates /\ detached \subseteq Candidates
  /\ now \in 0 .. MaxTime
  /\ probes \subseteq [id : 1 .. MaxProbe, target : Candidates]

\* "At most one entry can be Requalifying": speculative traffic of a stream
\* direction is one probe, however many carriers are stale, expire or detach.
\* That probe was published, on the candidate that waits for it, and under an id
\* no other probe has: an attempt the carrier refuses leaves nobody waiting, and
\* a receipt of an older probe admits nobody.
OneProbeAndItWasSent ==
  /\ TypeOK
  /\ Cardinality({i \in DOMAIN entries : entries[i].state.kind = "Requalifying"}) <= 1
  /\ \A c \in Candidates, id \in 1 .. MaxProbe :
       Expects(entries, c, id) => [id |-> id, target |-> c] \in probes
  /\ \A p, q \in probes : p.id = q.id => p = q

\* Placement and the qualification ledger agree: an attachment is excluded from
\* OriginalData exactly while its authority is revoked, so a receipt can always
\* reactivate it ("unreachable in a valid execution" in the code).
StaleIffRevoked ==
  \A c \in live : stale_for_original_data(c) <=> authority[c] = "Revoked"

\* An attachment is qualified again only by the ACK of OriginalData that was
\* given to it after its receipt: no flight from before it went stale counts,
\* even when all of it happens within one clock instant.
RequalifiedByFreshData ==
  [][\A c \in Candidates :
       state(entries, c).kind # "Qualified" /\ state(entries', c).kind = "Qualified" /\ c \in live
         => \E f \in flights \ flights' : f.instance = c /\ f.fresh]_vars

\* Probes take turns: a stale attachment that is due and could be asked is
\* passed over at most once by each of the others before it is its turn.  A
\* detachment can move next_candidate_index past it (retain_live only takes the
\* index modulo the new length), which costs it no more than one further round.
\* An attempt that is cancelled or finds no capacity is a turn like any other.
ProbesTakeTurns ==
  LET others == Cardinality(Candidates) - 1
  IN \A c \in Candidates : passes[c] <= others + Cardinality(detached) * (others - 1)
=============================================================================
