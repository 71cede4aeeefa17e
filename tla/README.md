# MPTUNNEL in TLA+

This directory holds TLA+ models of the reliable-stream core of MPTUNNEL (the
MPP protocol), of the heartbeat of its TCP carriers, of its configuration store
and of the process that runs one configuration after another over a managed VPN;
the TLC configurations that check them on small instances; and TLAPS proofs
about both halves of a stream, the transfer that they make together, the
configuration store, the process and the heartbeat. The models are translated from the Rust sources under `src/src`; `PROJECT.json` gives, for
every definition, the lines it stands for.

## 1. The system

MPP carries logical streams and datagrams over several TCP and QUIC carriers at
once. A native ACK of a carrier is only evidence about that path. The protocol
has its own Data Sequence: byte offsets per direction, `STREAM_ACK` frames that
list received ranges within a scope, a monotone credit `STREAM_MAX_DATA`, and a
FIN with the final offset. Bytes are retained by the sender until a `STREAM_ACK`
lists them, and may be *reinjected* on another carrier.

| Part | State | Operations | Hard behaviour |
|---|---|---|---|
| `mux/stream.rs`, receive half | next offset, buffered chunks, received ranges, pending ACK update, published credit | `receive_data`, `take_ack_update`, cumulative ACK, `max_data` | any order, overlap and repetition; ceilings in chunks and ranges; ACKs split over frames |
| `mux/stream.rs`, send half; ACK snapshot in `relay/io.rs` | next offset, credit, reinjection cache, byte counter, gaps | `prepare_data`, `commit`, `rollback`, ACK, credit, `retransmission_frames_for_ranges` | ACKs overtake each other; an ACK splits chunks; commit undone after a refusal |
| relay actors (`relay/server.rs`, `client.rs`) | both halves, FIN state, select loop | one turn per wake-up | carrier tasks publish on their own; FIN overtakes data; wake-ups must not be lost |
| `stream/send_buffer.rs` | bytes used, ticket queue | reserve (future), grant, cancel, release | grants to futures that are dropped; fairness |
| `relay/server_delivery.rs` | batch, ring, flush phase | `append_batch`, `poll_io`, shutdown | wrapped ring that grows, short writes, pending flush |
| `model/requalification.rs` and owner | entries, one probe, authority | mark stale, probe, receipt, expire, detach | late and repeated receipts, old evidence |
| `stream/feedback.rs`, `response/attachment.rs` | generation, credit, cursor per attachment | publish, retry, join, drain, close | an attachment misses generations while blocked |
| `path/tcp/heartbeat.rs`, `client/session.rs` | idle, pending, draining or failed; sample instant; drain latch | claim, flush, observe, drain, wait for failure | four threads and a clock; a PONG before its flush; a drain while a connection is installed |
| `config/store.rs` | canonical file, last-good copy, journal | open, replace, activate, roll back | crash or failure between any two file operations |
| `platform/linux_transaction.rs`, `linux_vpn.rs` | journals of prepared and published steps | prepare, publish, unpublish, clean up | a step fails, and so does its reversal |
| `app.rs`, `runtime/readiness.rs`, `node/combined.rs`, `management/` | generation control, pending candidate, publication guard | start, publish, commit, activate, reload, restart, shut down | a signal, a reload, a task's end or a timeout at every await |

Flight ledger, sender services, registry and two-phase open, path set, the rest
of the TCP carrier, QUIC carriers, datagrams, TUN, product policy and reporting
make up the rest. `PROJECT.json` lists every part under `components`,
with the reason where it is not modelled, and every behaviour that is hard to
test under `hazards`, with the properties that would catch it.

What must be right, across these parts: the target receives the source's bytes
once, in order, and then the end; no byte is released before the peer has it;
actors that follow the code never end each other's stream with a protocol error;
every ceiling and window holds; a waiter, a blocked carrier and a stale path are
all served in the end; a silent peer is found in time and an honest one kept; a
restart finds the configuration that was active; and a process that ends leaves
no rule behind that captures the host's traffic.

## 2. Modules

    OffsetRanges ─┬─ ReliableRecv ─┬─ AckReports
                  │                │
                  │                ├─ StreamTransfer ──> BytePipe
                  │                │
                  └─ ReliableSend ─┴─ Retransmission

    RangeProofs ─┬─ ReliableRecvProofs ─┬─ AckReportsProofs
                 └─ ReliableSendProofs ─┴─ StreamTransferProofs

    SendBuffer   TargetDelivery   Requalification
    ConfigStore ── ConfigStoreProofs
    StreamFeedback ── FeedbackActor
    HostTransaction ── ManagedGeneration ── ManagedGenerationProofs
    TcpHeartbeat ── TcpHeartbeatProofs

An arrow is a refinement, a line EXTENDS or INSTANCE: `AckReports` extends the
receive half, `Retransmission` the send half, `StreamTransfer` both. `MC*` modules only define
values and symmetry sets for TLC.

**OffsetRanges.** Half-open ranges of offsets. The code keeps them in vectors
and B-trees ordered by their distinct starts; here they are sets. The operators
say what the loops compute (normalise, cover, subtract), not how.

**ReliableRecv.** `ReliableRecvStream`. `receive_data` is one action: the early
returns and limit checks are its guards, in the order of the code, each failing
check an outcome of its own. A payload byte is its own offset, so that a
misplaced byte is visible. **AckReports** adds what a peer has been told by the
incremental updates.

**ReliableSend.** `ReliableSendStream` with `AuthoritativeStreamAckSnapshot`.
Actions: assign (prepare and commit), refused assignment (commit and rollback),
credit, ACK (validate, skip when subsumed, check the ceiling, release, update
the missing set). `acked` is a history variable. **Retransmission** adds the
operator that answers a recovery request with frames.

**StreamTransfer.** One direction end to end. It extends the two halves, takes
their operations as they are, and composes them with the actors' FIN handling, the flushed target and the credit
that carrier tasks admit without the actor. The carriers together are the set of
frames ever sent: one may arrive at any time, again, or never. That covers loss,
duplication, reordering, reinjection and carrier failure at once. **BytePipe** is
the promise: a bounded pipe that delivers what was written and ends after it.

**SendBuffer.** `SessionSendBuffer`: tickets, grants made while a future is not
polled, drops and withdrawals of the future, permits, releases. A `poll` or
`drop` is atomic, as it is under the mutex.

**TargetDelivery.** `ServerTargetIo`, with the ring as an array with a start and
a length, growth as the code does it, and a writer that accepts any part of what
it is offered, may be pending in every phase and may or may not be vectored.

**Requalification.** Stale marks, the single probe, receipts, expiry and turns
(`model/requalification.rs`), and its owner in the request sender: the authority
of an attachment and the flights that may restore it. Time is a bounded clock.

**StreamFeedback.** The cursor `service` of `feedback.rs` and the operations of
the response attachments. A new ACK generation `g` is one new fact `g`; the
cumulative frames of `g` hold the facts `1..g` in two frames, the update only
`g`. `told` is a history variable. **FeedbackActor** adds the actor: arming the
capacity waits before each retry, the select arms, the fence on the membership
generation before it ends, and the registry's replay of credit. Tokio's `Notify`
is external: an armed waiter is woken by `notify_waiters`, an unarmed one is not.

**ConfigStore.** Every file operation of `atomic_replace` and `remove_sidecar`
(write and rename, directory sync, unlink) is a step. The machine may lose power
between any two steps, the process may be killed, and each call may fail.
`directory` is what the process sees; `unsynced` is the set of directories since
the last sync, any of which a power loss may bring back. `legit` and `manual` are
history variables.

**HostTransaction.** The Linux controller. An operation is the set of its
outcomes: any step may fail to apply, any step may fail to be undone, and what
was not undone stays in the journal. A step is its index, so that a journal is a
set. `inert` and `captures` are what the host really holds; they outlive the
controller, whose drop undoes nothing.

**ManagedGeneration.** The process. The operation
(`run_config_file_generations` and the two drivers below it) is a program counter
that moves from one await, or one read of what another thread writes, to the
next. The runtime is a future of the operation: it advances only while the
operation is in its select loop or awaits it (`Polled`), which is why a runtime
that waits for leave to retire cannot block the removal of the rules. The packet
worker, the other services and the management request are tasks of their own. A
request to reload writes two channels, phase and reason, in two steps, and the
management task may be aborted before the first. The main task holds the signal,
the teardown timeout and the abort. The store is its promise (active and pending
document; `ConfigStore` has its files), and every store operation may fail.

**TcpHeartbeat.** `TcpCarrierHeartbeat`, one action per operation under its lock,
with the reader, the carrier actor, the failure waiter and the drain that meets
the installation of a connection. `changed` is the schedule's watch channel: the
waiters that have not seen the last revision. Every instant is kept as its
distance from now, so that time has no bound and the states are finite. Nonces
alternate between two values: the code draws them at random, and the one before
last is never compared.

## 3. Runs

| Run | Shows | Bounds |
|---|---|---|
| `reliable_recv` | bytes delivered once and in order, reorder state exact, ceilings, ACK frames true and complete, updates complete | 6 offsets, payload 3, 2 ranges per ACK |
| `reliable_send` | retention, accounting, ceiling, missing set, idempotent ACKs, exact retransmission | 5 offsets, ACKs of up to 2 ranges, 2 chunks |
| `stream_transfer` | no protocol failure, no byte lost, credit covers the target, refines `BytePipe` | 3 bytes, window 2 |
| `send_buffer` | every byte owned, nobody waits for nothing, oldest first, every waiter served | 3 streams, 2 bytes, 3 tickets |
| `target_delivery` | bytes neither lost nor moved, credit within the window, a flush per quantum, shutdown after the last byte; everything is flushed, shutdown completes | 7 bytes, window 4, quantum 2 |
| `requalification` | one probe that was sent, stale iff revoked, probes take turns, authority only from fresh data | 3 attachments, 3 probes; 2 flights of one attachment, 1 with a second (`FlightBound`); the third joins before one is marked stale (`MaxLate`) |
| `stream_feedback` | an accepted generation is complete, ACKs and credit alternate | 2 attachments, 3 generations, queue 2 |
| `feedback_actor` | the actor ends only when every open carrier was told; no wake-up is lost, every output is caught up | 2 attachments, 1 generation, queue 1 |
| `config_store` | a restart loads the active document, recovery always decides, a manual edit is kept | 4 documents; no other bound |
| `config_store_comment` | *violation*: see section 6 | 3 documents |
| `managed_generation` | no captured traffic left behind or unowned, the worker outlives the capture, activation means committed and published, a clean return, every candidate decided, every shutdown completes | 2 + 2 host steps, 3 documents (2 with a VPN), 2 applied, 3 failures, 2 attempts, 1 restart |
| `tcp_heartbeat` | an honest peer is kept, a silent one found in time, a drain reaches its owner, samples under traffic | interval 5, timeout 3, delays 4 and 5; time unbounded |

The bounds are chosen so that the cases that matter occur. Five or six offsets
hold two separate holes with a chunk that is cut on both sides, so merges,
splits and a list longer than one ACK frame all happen; `U64Max` is the largest
offset, so overflow checks fire. A ring of four bytes wraps and grows within
seven. Three streams on two bytes leave one waiter that is overtaken if the queue
allows it. Three documents are the active one, a candidate and an edit. A queue
of one frame blocks in the middle of a two-frame publication. Two steps per phase
and three failures let a publication fail half way, its reversal fail, and the
retry fail again; two applied documents give a candidate that is rejected and one
that succeeds it. An interval longer than the timeout with two delays makes the
deadline of a claim fall before and after the idle bound. `PROJECT.json`
names for every property a plausible mistake in the code (a mutant) that breaks
it under the same bounds.

Deadlock is checked only for `ConfigStore`: a stream, a delivery, a relay and a
process really end, and the other models stop at their bounds. Where a type
invariant is not a property of its own, it is a conjunct of one.

## 4. Fairness

- `SendBuffer`: a source holding a grant is polled (strong: it may cancel and
  come back with the same ticket, and the relay's select is not `biased`, so its
  arms are polled from a random start), a read that holds a permit ends, and held bytes are
  acknowledged.
- `TargetDelivery`: `poll_io` is polled while there is work, and a target that is
  not broken accepts, flushes and closes in the end.
- `FeedbackActor`: Tokio polls a task that is ready (turn, wake-up, replay), and
  a carrier that stays open writes its queue.
- `ManagedGeneration`: Tokio polls what is ready (the operation, the runtime it
  polls, the main task and its timers, a started worker, a management request
  that is not aborted). The host's steps may fail, but not for ever: `MaxFaults`
  bounds the failures, and without such a bound `unpublish_managed_vpn` retries
  for ever by design. Nothing is assumed of signals, applied documents and tasks
  that end.
- `TcpHeartbeat`: the actor's steps follow each other, its wait ends, the peer
  answers and the answer is read. Other traffic is unrestricted: it may be dense
  or absent. The failure waiter runs before the clock moves on (`Tick`), so
  `FailsOnTime` is exact up to the delay of one wake-up.

Nothing is assumed of operators, crashes, peers that close, or arriving frames:
`StreamTransfer` has no fairness, so it promises safety only.

## 5. Proofs

### The send half

`ReliableSendProofs` proves, for every value of the limits and for arbitrary
ACKs, not only those of the run:

- `TypeCorrect`, `NoByteForgotten`, `CounterExact`, `CreditNeverExceeded`,
  `GapsRecoverable`: the invariants `SendTypeOK`, `RetainedUntilAcked`,
  `CacheAccounted`, `WithinCredit`, `GapsAreRetained` (the run checks the first,
  third and fifth as conjuncts of `AckStateExact`);
- `AckStateAlwaysExact`: with them the chunk ceiling, and the two claims of the
  comment on the snapshot, that a gap ends at acknowledged bytes and that there
  are no more gaps than components of the cache;
- `RedundantAcksAlwaysIdempotent`: an ACK that was applied is recognised when it
  comes again, and one that is recognised would change nothing;
- `FrontierNeverMovesBack`: the lowest unacknowledged offset is monotone, which
  the frontier timers of both relay actors take for progress;
- `MissingSetAlwaysExact`: the missing set after an ACK is the one of RFC
  section 8.3.

The inductive invariant `SendInv` is the conjunction of the first five. They are
not inductive one by one. That the counter stays exact needs
disjoint chunks inside the assigned offsets, since a release subtracts the size
of what it drops; that gaps stay retained needs to know that retained is
"assigned and not acknowledged", since an ACK removes from both; and retention
needs the types so that a commit adds only new offsets. There is one lemma per
action (`SendPreserves`, `RefusedPreserves`, `CreditPreserves`, `AckPreserves`);
`RollbackUndoesCommit` reduces the refused assignment to a stutter.

`AckInv` adds the ceiling and the ends of the gaps. The ceiling is the point
where the code argues: it skips the exact preview of the pieces when a cheap
bound fits. `PiecesBound` shows that the bound is one: each piece of a cut chunk
ends where its chunk ends or where a listed range begins, and no two pieces end
alike. `GapsEndComponents` counts the gaps by the components that they end.
`FrontierLeast` says what the first key of the cache is, and `NoOldByteReturns`
that no step retains an offset below `send_next` that was not retained.

`RangeProofs` has the lemmas about ranges: the maximal runs of a finite set of
offsets cover exactly that set (`RunsCover`) and are canonical (`RunsCanonical`),
and normalising and subtracting ranges is exact (`NormalizeExact`,
`NotCoveredExact`). It also has what the proofs about loops rest on. The induction
theorems of the library take a predicate as a parameter, which these provers
cannot instantiate, so here the predicate is a set: `SetInduction`. `Iteration`
says that the function that repeats a turn exists and is what its recursive
definition says, and `LoopEnds` that a loop whose turns keep a set of states and
decrease a measure has ended after as many turns as the measure was. The only
assumption is `SendLimits`: the limits are naturals and an ACK's ranges have
offsets within the integer width.

### The receive half

`ReliableRecvProofs` proves `DeliveredOnceInOrderAlways` and
`AckFramesExactAlways`, and `AckReportsProofs` proves `AckUpdatesCompleteAlways`,
for every limit and every order of overlapping and repeated frames (`RecvLimits`).

`receive_data` is a loop within a loop: for each missing range, hand it out or
buffer it, then drain what has become contiguous. Both are iterations of one turn
(`PlaceTurns`, `DrainTurns`). `Deliveries` is the loop invariant: what was handed
out is the stretch from the frontier where the call began, the counter is the
number of buffered bytes and of the missing ones still to place, and the
frontier, the chunks and the missing ranges account for the same bytes
throughout. `DrainExact`, `PlaceAllExact` and `WalkExact` are the three
loops; `PreviewExact` shows that the chunk count computed before anything is
changed (`reorder_chunk_count_after_receive`) is the count after it, and with
`RangeCount` for the received ranges that no ceiling is passed.

`RecvInv` adds to the property that a range that is not dirty lies below
the ACK high water. This is what a later ACK update rests on, and it is kept
because an insertion that grows a range makes it dirty again. The frames are cut
by rank (`RankExact`, `ChunksExact`); each is true within its own scope
(`FramesTrue`) and together they account for all bytes (`FramesTotal`).

### The transfer

`StreamTransferProofs` proves the three properties of the run for every window,
limit and frame size: `TransferNeverFails`, `NothingLostOrOverrunAlways` and the
refinement `TransferImplementsPipe`. Besides the limits of the two halves it
assumes `CeilingsCoverWindow` (section 7).

`TransferInv` is the invariant of both halves with what ties them together.
`CarriersSound`: a DATA frame, however old, is of assigned bytes; an ACK frame,
however old, lists received bytes only, with a scope that the sender accepts. An
old frame stays sound because assigned and received bytes only grow.
`CreditChain`: the credit the sender uses was admitted by a carrier, what was
admitted was granted by the actor, and a grant is at most one window above what
the target flushed. So whatever is assigned fits the window above the flushed
offset, and with it the reorder limits: DATA is never refused, once the receiver
has reconciled what the carriers admitted (`Reconciled`). `EndAgreed`: a FIN
names the end of the assigned bytes, and no byte is assigned after it. An ACK
meets the sender's ceiling by `AckAccepted`, DATA the receiver's by `NotRejected`.

For the refinement, a step of the direction writes to the pipe (`SendData`),
reads from it (`TargetFlush`), closes or ends it, or leaves it as it is
(`PipeStep`).

### The configuration store

`ConfigStoreProofs` proves all three properties of the run for every set of
documents: `RestartLoadsActiveHolds`, `ManualEditKeptHolds` and
`NoConflictWithoutEditHolds`, which includes the types. A crash may come between
any two calls, so the invariant is about every directory that it may leave, the
one in place and those not yet synced: recovery can decide it (`Decided`) and
loads an admissible document from it (`Loads`), which is `Safe`. To know that the
next call keeps this, `Stage` says how far each operation is in terms of the calls
that have not taken effect (`Left`), and what the files then hold; `Clean` and
`Trial` relate the memory of the store to them between operations, whatever failed
before. `Synced` says that an operation that succeeds has left nothing unsynced,
so that a restart may then be held to one document. `Untouched` is the case of an
edit: no call is under way over it and no operation takes it for its own. There
is one lemma per operation and call. `StoreInputs` is the only assumption: there
is a document, and no document is an absent file.

### The process

`ManagedGenerationProofs` proves `HostNeverStrandedHolds`,
`CapturedTrafficIsOwnedHolds` and `WorkerOutlivesCaptureHolds` for plans of any
length and any number of documents, failures, attempts and restarts
(`PlanInputs`, `GenerationInputs`). None of the three is inductive: that the
process may exit depends on where the operation is. `IInv` has two parts. `Owned`
is about the controller alone: what captures is journaled, what is journaled as
prepared is on the host, and nothing is published without a complete
preparation; it is kept by every outcome of every operation, proved once per
operation (`HostPrepareQuiet`, `PublishOwned`, `UnpublishOwned`, `CleanupQuiet`). The other part
ties the controller to the process: a published step exists only while a managed
generation is driven, which is exactly while the guard is set and retirement is
not authorized; and once the main task has decided to abort, nothing is published
and the operation is past the points from which it could be, since the request
was made before. The last fact is why a guard read and used later is safe.

Two more theorems build on that invariant. `ActivatedIsCommittedHolds` needs `CommitInv`: readiness is seen once in a
generation, a publication stays whole from its last step to the commit, and
between the commit and the activation the store's active document is the one that
runs. `ReturnIsCleanHolds`, which includes the types, needs `CleanInv`: as long as
no step of the host has failed, the journal accounts for all that is prepared
(`Tidy`); outside a generation the host is then bare (`Bare`) and no service runs,
so no document can be applied behind the operation's back; and a cleanup comes
only after the runtime and its device have gone.

### The heartbeat

`TcpHeartbeatProofs` proves `HonestPeerKeptHolds`, `FailsOnTimeHolds` and
`DrainReachesOwnerHolds` for every interval, timeout and set of delays within the interval
(`HeartbeatInputs`). `HInv` adds to the types: `OneUnderWay`, that an unanswered
PING is in one place only (about to be written, on its way out, or its answer on
its way back) and is the one the state or the drain's tombstone names, so no PONG
is unexpected; `BoundFollowsSilence`, that the bound in force is at most one
interval and one timeout from the last frame; and `NeverOversleeps`, that a
sleeping waiter wakes by that bound unless a change it has not seen will wake it
earlier, which is what the notification of a claim is for. The drain needs
`DrainInv`: the publisher of a connection and the drainer each write before they
read, so whichever comes second sees the other's write; and a drained carrier
stays drained, whatever arrives (`DrainIsFinal`).

### What is only model-checked

Liveness and ENABLED are out of the prover's reach. `RetransmissionExact`, the
sums over the queue of `SendBuffer`, the batches and the ring of
`TargetDelivery` and the rounds of `StreamFeedback` are stated with folds over
sequences, which take an operator as a parameter and which the provers cannot
unfold. To prove them, the loops would have to be stated as turns, as those of
the receive half are. `Requalification` has no proofs yet.

## 6. A comment the code does not keep

`replace` (`config/store.rs:329-333`) treats every error of its last
`atomic_replace` as "not replaced": "The canonical document is still the active
one. Clearing the journal keeps this live store usable". `atomic_replace` renames
first and syncs the directory after it. When only the sync fails, the candidate
is on disk, the journal is removed, the live store refuses every later update as
an external modification, and a restart adopts a candidate that was never
activated. `config_store_comment` is that history. `RestartLoadsActive` therefore
asks nothing of a restart between such a failure and the next operation that
succeeds.

## 7. Abstractions and assumptions

- Receive windows are at most `max_reorder_bytes` (`model/capacity.rs`).
  `CeilingsCoverWindow` also assumes that the ceilings counted in frames and
  ranges are not met inside a window counted in bytes; a stream of very small
  frames under tight ceilings can end with an error, which `ReliableRecv` models
  and `StreamTransfer` excludes.
- The loops of `receive_data` are iterations of their turn, as many as there are
  elements; the ranges of an ACK frame and the frames of an ACK are sets, as the
  receiver of either does not depend on their order. The grant that follows a
  flush saturates at the greatest offset.
- `ConfigStore`: directory changes reach the disk in order (a journaling file
  system), on Unix (the sync does nothing elsewhere). Documents are valid. An
  operator's edit is durable and falls between operations: the window between
  the store's comparison and its rename is left out. An edit equal to a journaled
  revision cannot be told from it, by the store or by the model.
- `FeedbackActor` has no probe receipts (`Receipts = FALSE`); they are covered in
  `StreamFeedback`. The ACK generation does not wrap at 2^64.
- The client's attachments drive the same feedback cursor; the model follows the
  server's binding.
- `ManagedGeneration` models the process with a configuration file and the Linux
  host. A failure before the readiness barrier is sealed, the webhook drain, and
  an edit of the document between generations are left out. A live update keeps
  the managed VPN as it is, as `classify_live_update` requires. A process that is
  killed is outside the model: nothing in the code undoes its rules.
- `TcpHeartbeat`: the client's first connection, or one installed later; the
  replacement of a failed connection starts a new heartbeat, hence a new
  behaviour. The peer answers each PING at most once.
- `Requalification` lets an attachment carry flights only while at most two have
  joined; the third one competes for probes. It joins before the first stale mark:
  joining neither reads nor changes the ledger, so the moment is immaterial to it.
- Carrier choice, pacing, rates and timers are left open: any carrier may be
  chosen and any timer may fire at any time.

## 8. Plan

Done, in this order: ranges and both stream halves; the transfer and its
refinement; send buffer and target delivery; requalification; configuration
store; feedback and its actor; the proofs of the send half; the host transaction
and the process over it, with proofs; the TCP heartbeat, with proofs; the
proofs of the configuration store, of the receive half and of the transfer.

Next, models:

1. `FlightLedger` (`stream/request/flight.rs`, `response/data_commit.rs`):
   original and reinjected flights per attachment instance, capacity charged and
   released once, salvage at detachment; then recovery and FIN replay as liveness
   over `StreamTransfer`.
2. Registry and two-phase open; carrier command queue and path health; datagram
   association table; the TCP carrier's connection attempts and group.
3. `process_transaction.rs`, the macOS and Windows counterpart of the Linux
   controller.
4. `RangeAlgorithms`: the loops of `mux/stream.rs` over ranges against
   `OffsetRanges`.

Next, proofs: `CreditFitsWindow` of `TargetDelivery`, `AckPublicationComplete` of
`StreamFeedback` and `EveryByteOwned` of `SendBuffer`, with the folds over the
batches, rounds and tickets of one step stated as turns; the invariants of
`Requalification`; `RetransmissionExact`.

Out of reach as they stand: the estimators and schedulers of `model/` and
`scheduler/`, which compute with floating rates and time stamps; the vendored
QUIC crates; codecs and cryptographic framing, which hold no state that a small
instance would tell apart.
