-------------------------- MODULE ManagedGeneration --------------------------
(***************************************************************************)
(* The process that runs one runtime generation after another (app.rs):    *)
(* the task that waits for a signal, the operation that drives the         *)
(* generations, the runtime it polls (runtime/node/combined.rs) with its   *)
(* generation control (runtime/readiness.rs), the packet worker that owns  *)
(* the prepared device (platform/packet_device.rs), the management service *)
(* that persists a new configuration, and the host transaction.  Every     *)
(* task runs on a thread of its own, except that the runtime's supervision *)
(* only advances while the operation polls it.                             *)
(***************************************************************************)
EXTENDS HostTransaction

CONSTANTS
  Revisions,     \* configuration documents
  ManagedVpn,    \* those that ask for a managed VPN
  Attempts,      \* MANAGED_VPN_SHUTDOWN_ATTEMPTS
  MaxRestarts,   \* service.max_restarts of a supervised service
  MaxApplies,    \* bound on the documents applied
  MaxFaults      \* bound on the failures: of host steps, of tasks, of the store

ASSUME GenerationInputs ==
  /\ Revisions # {} /\ ManagedVpn \subseteq Revisions
  /\ Attempts \in Nat \ {0}
  /\ {MaxRestarts, MaxApplies, MaxFaults} \subseteq Nat

VARIABLES
  main,        \* run_process_with_signal
  requested,   \* ProcessShutdown.requested
  guarded,     \* ProcessShutdown.host_publication_may_be_active
  pc,          \* where the operation is
  local,       \* its local variables
  store,       \* the configuration store: active and pending document
  revision,    \* RuntimeConfigControl.runtime_revision
  gen,         \* RuntimeGenerationControl
  rt,          \* combined::run: its state and its outcome
  worker,      \* the packet worker: device, guard and readiness signal
  exited,      \* a service task of the generation has ended
  mgmt,        \* the management request in progress
  vpn,         \* the controller and the host
  applies      \* documents that may still be applied

process == <<main, requested, guarded>>
tasks == <<rt, worker, exited, mgmt>>
vars == <<process, pc, local, store, revision, gen, tasks, vpn, applies>>

None == "none"
document == IF store.pending # None THEN store.pending ELSE store.active
managed == revision \in ManagedVpn
device_live == worker.state \in {"open", "ready"}

\* RuntimeConfigControl::next_generation, with the defer_activation it calls.
NewGeneration == [phase |-> "Starting", stop |-> None, authorized |-> TRUE, activated |-> FALSE]
NewLocal(restarts) ==
  [loaded |-> None, candidate |-> FALSE, readiness_pending |-> TRUE, activated |-> FALSE,
   result |-> None, retire |-> FALSE, tries |-> 0, restarts |-> restarts]

NoRuntime == [state |-> "none", outcome |-> None]
NoWorker == [state |-> "none", signal |-> "closed"]

Init ==
  /\ main = "running" /\ requested = FALSE /\ guarded = FALSE
  /\ pc = "top" /\ local = NewLocal(0)
  /\ \E r \in Revisions : store = [active |-> r, pending |-> None] /\ revision = r
  /\ gen = NewGeneration
  /\ rt = NoRuntime /\ worker = NoWorker /\ exited = FALSE /\ mgmt = "idle"
  /\ vpn = NewController({}, {}, MaxFaults)
  /\ applies = MaxApplies

-----------------------------------------------------------------------------
(* RuntimeGenerationControl *)

mark_stopping(g) == IF g.phase \in {"Starting", "Ready"} THEN [g EXCEPT !.phase = "Stopping"] ELSE g
mark_failed(g) == IF g.phase \in {"Starting", "Ready"} THEN [g EXCEPT !.phase = "Failed"] ELSE g
request_shutdown(g) == [mark_stopping(g) EXCEPT !.stop = "Shutdown"]

activate(g) == IF g.phase = "Ready" THEN [g EXCEPT !.activated = TRUE] ELSE g

-----------------------------------------------------------------------------
(* The operation: one step from one await, or one read of what other threads *)
(* write, to the next.                                                       *)

Goto(label) == pc' = label

\* A new generation of a revision.
Restart(r, restarts) ==
  /\ revision' = r
  /\ local' = NewLocal(restarts)
  /\ gen' = NewGeneration
  /\ rt' = NoRuntime /\ worker' = NoWorker /\ exited' = FALSE /\ mgmt' = "idle"
  /\ pc' = "top"

Return(label) == Goto(label) /\ UNCHANGED <<revision, local, gen, tasks>>

\* A store operation that fails ends the operation with its error.
StoreFails ==
  /\ vpn.faults > 0 /\ vpn' = [vpn EXCEPT !.faults = @ - 1]
  /\ Return("failed")
  /\ UNCHANGED store

Rollback(then) ==
  \/ /\ store' = [store EXCEPT !.pending = None]
     /\ then
     /\ UNCHANGED vpn
  \/ StoreFails

\* rollback_unactivated_desired, and the return after it.
RollbackAndReturn ==
  \/ store.pending # None /\ Rollback(Return("returned"))
  \/ store.pending = None /\ Return("returned") /\ UNCHANGED <<store, vpn>>

Top ==
  /\ pc = "top"
  /\ \/ requested /\ RollbackAndReturn
     \/ /\ ~requested
        /\ local' = [local EXCEPT !.loaded = revision, !.candidate = store.pending = revision]
        /\ Goto("protect")
        /\ UNCHANGED <<store, revision, gen, tasks, vpn>>
  /\ UNCHANGED <<process, applies>>

Protect ==
  /\ pc = "protect"
  /\ guarded' = TRUE
  /\ Goto("prepare")
  /\ UNCHANGED <<main, requested, local, store, revision, gen, tasks, vpn, applies>>

StartRuntime ==
  /\ rt' = [state |-> "starting", outcome |-> None]
  /\ Goto("select")
  /\ UNCHANGED <<local, exited, mgmt>>

\* run_canonical_generation up to its driver.  The names a plan needs may not
\* resolve; a failed preparation drops its controller.
Prepare ==
  /\ pc = "prepare"
  /\ \/ /\ ~managed
        /\ guarded' = FALSE
        /\ StartRuntime
        /\ UNCHANGED <<gen, worker, vpn>>
     \/ /\ managed
        /\ \E p \in HostPrepare(vpn) \cup Outcomes(FALSE, {vpn}) :
             \/ /\ p.ok /\ vpn' = p.to
                /\ gen' = [gen EXCEPT !.authorized = FALSE]
                /\ worker' = [state |-> "spawned", signal |-> "waiting"]
                /\ StartRuntime
                /\ UNCHANGED guarded
             \/ /\ ~p.ok /\ vpn' = reset_idle(p.to)
                /\ guarded' = FALSE
                /\ local' = [local EXCEPT !.result = "Error"]
                /\ Goto("terminal")
                /\ UNCHANGED <<gen, tasks>>
  /\ UNCHANGED <<main, requested, store, revision, applies>>

-----------------------------------------------------------------------------
(* The select loop of drive_managed_runtime_generation_with_policy, and of   *)
(* drive_canonical_generation.  The runtime is polled first, and only here.  *)

RuntimeCompleted ==
  /\ pc = "select" /\ rt.state = "done"
  /\ local' = [local EXCEPT !.result = rt.outcome]
  /\ Goto(IF managed THEN "unpublish" ELSE "terminal")
  /\ UNCHANGED <<process, store, revision, gen, tasks, vpn, applies>>

\* retire_managed_runtime, or the plain wait for the runtime.
Retire(result) ==
  /\ local' = [local EXCEPT !.result = result, !.retire = TRUE, !.readiness_pending = FALSE]
  /\ Goto(IF managed THEN "unpublish" ELSE "await_runtime")

SeeShutdown ==
  /\ pc = "select" /\ rt.state # "done" /\ requested
  /\ gen' = request_shutdown(gen)
  /\ Retire(None)
  /\ UNCHANGED <<process, store, revision, tasks, vpn, applies>>

SeeStop ==
  /\ pc = "select" /\ rt.state # "done" /\ managed /\ gen.stop # None
  /\ Retire(None)
  /\ UNCHANGED <<process, store, revision, gen, tasks, vpn, applies>>

SeeReadiness ==
  /\ pc = "select" /\ rt.state # "done"
  /\ local.readiness_pending /\ gen.phase # "Starting"
  /\ \/ /\ gen.phase = "Ready"
        /\ local' = [local EXCEPT !.readiness_pending = FALSE]
        /\ Goto("ready")
        /\ UNCHANGED gen
     \/ /\ gen.phase # "Ready" /\ managed
        /\ gen' = request_shutdown(gen)
        /\ Retire(None)
     \/ /\ gen.phase # "Ready" /\ ~managed
        /\ local' = [local EXCEPT !.readiness_pending = FALSE]
        /\ UNCHANGED <<pc, gen>>
  /\ UNCHANGED <<process, store, revision, tasks, vpn, applies>>

\* Mutant of Ready: a managed generation is committed without its publication.
ReadyCommits ==
  /\ pc = "ready"
  /\ Goto(IF gen.phase = "Ready" /\ ~requested /\ gen.stop = None THEN "commit" ELSE "select")
  /\ UNCHANGED <<process, local, store, revision, gen, tasks, vpn, applies>>

\* The state is read again after the wait.
Ready ==
  /\ pc = "ready"
  /\ LET go == gen.phase = "Ready" /\ ~requested /\ (managed => gen.stop = None)
     IN Goto(CASE ~go -> "select" [] go /\ managed -> "await_worker" [] OTHER -> "commit")
  /\ UNCHANGED <<process, local, store, revision, gen, tasks, vpn, applies>>

-----------------------------------------------------------------------------
(* PreparedLinuxVpn::publish_when_worker_ready *)

PublishFailed == gen' = request_shutdown(gen) /\ Retire("Error")

\* The signal, its loss, or the timeout; and the first look at the device.
AwaitWorker ==
  /\ pc = "await_worker"
  /\ IF worker.signal = "sent" /\ device_live
     THEN Goto("publish") /\ UNCHANGED <<local, gen>>
     ELSE PublishFailed
  /\ UNCHANGED <<process, store, revision, tasks, vpn, applies>>

Publish ==
  /\ pc = "publish"
  /\ \E p \in publish(vpn) :
       /\ vpn' = p.to
       /\ IF p.ok THEN Goto("check") /\ UNCHANGED <<local, gen>> ELSE PublishFailed
  /\ UNCHANGED <<process, store, revision, tasks, applies>>

\* The worker may have gone meanwhile: one attempt to unpublish, here.
CheckDevice ==
  /\ pc = "check"
  /\ IF device_live THEN Goto("recheck") /\ UNCHANGED <<local, gen, vpn>>
     ELSE PublishFailed /\ \E u \in unpublish(vpn) : vpn' = u.to
  /\ UNCHANGED <<process, store, revision, tasks, applies>>

\* A stop that raced with the publication.
Recheck ==
  /\ pc = "recheck"
  /\ IF requested \/ gen.stop # None \/ gen.phase # "Ready"
     THEN /\ gen' = IF requested THEN request_shutdown(gen) ELSE gen
          /\ Retire(None)
     ELSE Goto("commit") /\ UNCHANGED <<local, gen>>
  /\ UNCHANGED <<process, store, revision, tasks, vpn, applies>>

\* activate_ready_generation, under the mutation lock of the store.
Commit ==
  /\ pc = "commit"
  /\ \/ /\ store.active = revision
        /\ UNCHANGED <<store, vpn, gen>>
        /\ local' = [local EXCEPT !.activated = TRUE] /\ Goto("activate")
     \/ /\ store.active # revision /\ document = revision
        /\ store' = [active |-> revision, pending |-> None]
        /\ UNCHANGED <<vpn, gen>>
        /\ local' = [local EXCEPT !.activated = TRUE] /\ Goto("activate")
     \/ /\ store.active # revision /\ (document # revision \/ vpn.faults > 0)
        /\ vpn' = IF document = revision THEN [vpn EXCEPT !.faults = @ - 1] ELSE vpn
        /\ gen' = request_shutdown(gen)
        /\ Retire("Error")
        /\ UNCHANGED store
  /\ UNCHANGED <<process, revision, tasks, applies>>

Activate ==
  /\ pc = "activate"
  /\ gen' = activate(gen)
  /\ Goto("select")
  /\ UNCHANGED <<process, local, store, revision, tasks, vpn, applies>>

-----------------------------------------------------------------------------
(* Retirement *)

\* Unpublication is done: no step of it is pending.
Unpublished(c) == c.published = {}

\* Mutant of Unpublish: the runtime is waited for first.
UnpublishAfterRuntime ==
  /\ pc = "unpublish" /\ rt.state = "done"
  /\ \E u \in unpublish(vpn) : vpn' = u.to
  /\ guarded' = FALSE /\ Goto("cleanup")
  /\ UNCHANGED <<main, requested, gen, local, store, revision, tasks, applies>>

\* unpublish_managed_vpn tries for ever; the runtime stays until it succeeds.
Unpublish ==
  /\ pc = "unpublish"
  /\ \E c \in IF vpn.published = {} THEN {vpn} ELSE {u.to : u \in unpublish(vpn)} :
       /\ vpn' = c
       /\ \/ /\ Unpublished(c)
             /\ guarded' = FALSE
             /\ gen' = IF local.retire THEN [gen EXCEPT !.authorized = TRUE] ELSE gen
             /\ Goto(IF local.retire THEN "await_runtime" ELSE "cleanup")
          \/ /\ ~Unpublished(c)
             /\ UNCHANGED <<guarded, gen, pc>>
  /\ UNCHANGED <<main, requested, local, store, revision, tasks, applies>>

AwaitRuntime ==
  /\ pc = "await_runtime" /\ rt.state = "done"
  /\ local' = IF local.result = None THEN [local EXCEPT !.result = rt.outcome] ELSE local
  /\ Goto(IF managed THEN "cleanup" ELSE "terminal")
  /\ UNCHANGED <<process, store, revision, gen, tasks, vpn, applies>>

\* cleanup_after_worker_stopped; its end drops the controller.
Cleanup ==
  /\ pc = "cleanup"
  /\ LET refused == vpn.published # {} \/ device_live
         last == refused \/ local.tries + 1 = Attempts
     IN \E c \in CASE refused -> Outcomes(FALSE, {vpn})
                   [] ~refused /\ controller_state(vpn) = "Idle" -> Outcomes(TRUE, {vpn})
                   [] OTHER -> cleanup(vpn) :
          \/ /\ c.ok /\ vpn' = c.to
             /\ Goto("terminal") /\ UNCHANGED local
          \/ /\ ~c.ok /\ last /\ vpn' = reset_idle(c.to)
             /\ local' = [local EXCEPT !.result = "Error"] /\ Goto("terminal")
          \/ /\ ~c.ok /\ ~last /\ vpn' = c.to
             /\ local' = [local EXCEPT !.tries = @ + 1] /\ UNCHANGED pc
  /\ UNCHANGED <<process, store, revision, gen, tasks, applies>>

-----------------------------------------------------------------------------
(* run_config_file_generations, after a generation *)

\* A rejected candidate is rolled back and the active document runs again.
Rejected == local.candidate /\ store.pending = local.loaded

\* Mutant of Terminal: a shutdown leaves the candidate pending.
ShutdownKeepsPending ==
  /\ pc = "terminal"
  /\ Return("returned") /\ UNCHANGED <<store, vpn>>
  /\ UNCHANGED <<process, applies>>

Terminal ==
  /\ pc = "terminal"
  /\ \/ /\ local.result = "Error"
        /\ \/ Rejected /\ Rollback(Restart(store.active, 0))
           \/ ~Rejected /\ Return("failed") /\ UNCHANGED <<store, vpn>>
     \/ /\ local.result = "Shutdown"
        /\ RollbackAndReturn
     \/ /\ local.result = "Reload"
        /\ \/ requested /\ RollbackAndReturn
           \/ ~requested /\ Restart(document, 0) /\ UNCHANGED <<store, vpn>>
     \/ /\ local.result = "Failed"
        /\ \/ Rejected /\ ~local.activated /\ Rollback(Restart(store.active, 0))
           \/ /\ ~(Rejected /\ ~local.activated)
              /\ \/ requested /\ RollbackAndReturn
                 \/ /\ ~requested /\ store.pending # None
                    /\ Restart(document, 0) /\ UNCHANGED <<store, vpn>>
                 \/ /\ ~requested /\ store.pending = None
                    /\ IF local.restarts >= MaxRestarts THEN Return("failed")
                       ELSE /\ local' = [local EXCEPT !.restarts = @ + 1]
                            /\ Goto("backoff")
                            /\ UNCHANGED <<revision, gen, tasks>>
                    /\ UNCHANGED <<store, vpn>>
  /\ UNCHANGED <<process, applies>>

\* wait_for_restart_or_shutdown, then the document is opened again.
Backoff ==
  /\ pc = "backoff"
  /\ \/ requested /\ RollbackAndReturn
     \/ StoreFails
     \/ /\ Restart(document, IF document = local.loaded THEN local.restarts ELSE 0)
        /\ UNCHANGED <<store, vpn>>
  /\ UNCHANGED <<process, applies>>

Operation ==
  \/ Top \/ Protect \/ Prepare
  \/ RuntimeCompleted \/ SeeShutdown \/ SeeStop \/ SeeReadiness \/ Ready
  \/ AwaitWorker \/ Publish \/ CheckDevice \/ Recheck \/ Commit \/ Activate
  \/ Unpublish \/ AwaitRuntime \/ Cleanup
  \/ Terminal \/ Backoff

-----------------------------------------------------------------------------
(* The runtime: combined::run from the seal of its readiness barrier on *)

Polled == pc \in {"select", "await_runtime"}
rest == <<process, pc, local, store, revision, vpn, applies>>

\* retire_runtime_services: every task is aborted and joined.  The management
\* task can be aborted while it writes its response, before it asks for the
\* reload, but not within request_reload.
RetireServices(outcome) ==
  /\ mgmt # "marked" /\ mgmt' = "idle"
  /\ worker' = [state |-> IF worker.state = "none" THEN "none" ELSE "gone",
                signal |-> IF worker.signal = "waiting" THEN "closed" ELSE worker.signal]
  /\ rt' = [state |-> "done", outcome |-> outcome]
  /\ UNCHANGED exited

RuntimeStarted ==
  /\ Polled /\ rt.state = "starting" /\ gen.phase = "Ready"
  /\ rt' = [rt EXCEPT !.state = "running"]
  /\ UNCHANGED <<rest, gen, worker, exited, mgmt>>

\* A service ended, or readiness is out of reach: nobody is waited for.
RuntimeFails ==
  /\ Polled
  /\ \/ rt.state \in {"starting", "running"} /\ exited
     \/ rt.state = "starting" /\ gen.stop = None /\ gen.phase \in {"Stopping", "Failed"}
  /\ gen' = mark_failed(gen)
  /\ RetireServices("Failed")
  /\ UNCHANGED rest

RuntimeStops ==
  /\ Polled /\ rt.state \in {"starting", "running"} /\ gen.stop # None
  /\ rt' = [state |-> "draining", outcome |-> gen.stop]
  /\ UNCHANGED <<rest, gen, worker, exited, mgmt>>

\* Mutant of Authorized: retirement waits for nothing.
NotAwaited == TRUE

\* wait_for_retirement_authorization
Authorized == gen.authorized

RuntimeRetires ==
  /\ Polled /\ rt.state = "draining" /\ Authorized
  /\ RetireServices(rt.outcome)
  /\ UNCHANGED <<rest, gen>>

Runtime == RuntimeStarted \/ RuntimeFails \/ RuntimeStops \/ RuntimeRetires

-----------------------------------------------------------------------------
(* The services *)

Serving == rt.state \in {"starting", "running", "draining"}

WorkerOpen ==
  /\ Serving /\ worker.state = "spawned"
  /\ worker' = [worker EXCEPT !.state = "open"]
  /\ UNCHANGED <<rest, gen, rt, exited, mgmt>>

\* signal_ready, and the worker's part of the readiness barrier.
WorkerReady ==
  /\ Serving /\ worker.state = "open"
  /\ worker' = [state |-> "ready", signal |-> "sent"]
  /\ UNCHANGED <<rest, gen, rt, exited, mgmt>>

\* The last required service reports ready.
BarrierReady ==
  /\ Serving /\ gen.phase = "Starting"
  /\ managed => worker.signal = "sent"
  /\ gen' = [gen EXCEPT !.phase = "Ready"]
  /\ UNCHANGED <<rest, tasks>>

\* The worker ends, with its guard and, if it was not ready, its part of the barrier.
WorkerExit ==
  /\ Serving /\ worker.state \in {"spawned", "open", "ready"}
  /\ vpn.faults > 0 /\ vpn' = [vpn EXCEPT !.faults = @ - 1]
  /\ exited' = TRUE
  /\ worker' = [state |-> "gone",
                signal |-> IF worker.signal = "waiting" THEN "closed" ELSE worker.signal]
  /\ gen' = IF worker.state = "ready" THEN gen ELSE mark_failed(gen)
  /\ UNCHANGED <<process, pc, local, store, revision, applies, rt, mgmt>>

\* Another service ends, before it was ready or after.
ServiceExit ==
  /\ Serving /\ ~exited
  /\ vpn.faults > 0 /\ vpn' = [vpn EXCEPT !.faults = @ - 1]
  /\ exited' = TRUE
  /\ \/ gen.phase = "Starting" /\ gen' = mark_failed(gen)
     \/ UNCHANGED gen
  /\ UNCHANGED <<process, pc, local, store, revision, applies, rt, worker, mgmt>>

\* apply_config_document: a document that needs a new generation is persisted.
Apply(r) ==
  /\ Serving /\ mgmt = "idle" /\ applies > 0
  /\ store.pending = None /\ r # document
  /\ store' = [store EXCEPT !.pending = r]
  /\ mgmt' = "persisted" /\ applies' = applies - 1
  /\ UNCHANGED <<process, pc, local, revision, vpn, gen, rt, worker, exited>>

\* A document that changes only credentials or logging is activated in place.
ApplyLive(r) ==
  /\ Serving /\ mgmt = "idle" /\ applies > 0
  /\ store.pending = None /\ r # document /\ (r \in ManagedVpn <=> managed)
  /\ store' = [store EXCEPT !.active = r]
  /\ revision' = r /\ applies' = applies - 1
  /\ UNCHANGED <<process, pc, local, vpn, gen, tasks>>

\* request_reload, after the response: the phase, then the reason.
ReloadMarks ==
  /\ mgmt = "persisted"
  /\ mgmt' = "marked" /\ gen' = mark_stopping(gen)
  /\ UNCHANGED <<rest, rt, worker, exited>>

\* Mutant of ReloadStops: the phase is marked, and no stop is requested.
MarkOnly ==
  /\ mgmt = "marked"
  /\ mgmt' = "idle"
  /\ UNCHANGED <<rest, gen, rt, worker, exited>>

ReloadStops ==
  /\ mgmt = "marked"
  /\ mgmt' = "idle"
  /\ gen' = IF gen.stop = None THEN [gen EXCEPT !.stop = "Reload"] ELSE gen
  /\ UNCHANGED <<rest, rt, worker, exited>>

-----------------------------------------------------------------------------
(* run_process_with_signal *)

Ended == pc \in {"returned", "failed", "dropped"}

\* The operation returned: the process ends with its result.
Join ==
  /\ main \in {"running", "stopping", "preserving"} /\ pc \in {"returned", "failed"}
  /\ main' = "exited"
  /\ UNCHANGED <<requested, guarded, pc, local, store, revision, gen, tasks, vpn, applies>>

Signal ==
  /\ main = "running"
  /\ main' = "stopping" /\ requested' = TRUE
  /\ UNCHANGED <<guarded, pc, local, store, revision, gen, tasks, vpn, applies>>

\* Mutant of TeardownTimeout: the timeout aborts whatever is published.
AbortAlways ==
  /\ main = "stopping"
  /\ main' = "aborting"
  /\ UNCHANGED <<requested, guarded, pc, local, store, revision, gen, tasks, vpn, applies>>

TeardownTimeout ==
  /\ main = "stopping"
  /\ main' = IF guarded THEN "preserving" ELSE "aborting"
  /\ UNCHANGED <<requested, guarded, pc, local, store, revision, gen, tasks, vpn, applies>>

Releasable ==
  /\ main = "preserving" /\ ~guarded
  /\ main' = "aborting"
  /\ UNCHANGED <<requested, guarded, pc, local, store, revision, gen, tasks, vpn, applies>>

\* The aborted operation is dropped with the runtime and its services.
Abort ==
  /\ main = "aborting"
  /\ main' = "exited"
  /\ pc' = IF Ended THEN pc ELSE "dropped"
  /\ worker' = [state |-> IF worker.state = "none" THEN "none" ELSE "gone", signal |-> "closed"]
  /\ rt' = [rt EXCEPT !.state = "none"] /\ mgmt' = "idle"
  /\ UNCHANGED <<requested, guarded, local, store, revision, gen, exited, vpn, applies>>

Main == Join \/ TeardownTimeout \/ Releasable \/ Abort

Next ==
  \/ Operation
  \/ Runtime
  \/ WorkerOpen \/ WorkerReady \/ BarrierReady \/ WorkerExit \/ ServiceExit
  \/ \E r \in Revisions : Apply(r) \/ ApplyLive(r)
  \/ ReloadMarks \/ ReloadStops
  \/ Signal \/ Main

Fairness ==
  /\ WF_vars(Operation) /\ WF_vars(Runtime) /\ WF_vars(Main)
  /\ WF_vars(WorkerOpen) /\ WF_vars(WorkerReady) /\ WF_vars(BarrierReady)
  /\ WF_vars(ReloadMarks) /\ WF_vars(ReloadStops)

Spec == Init /\ [][Next]_vars /\ Fairness

-----------------------------------------------------------------------------
(* Properties *)

\* The control states are those of the code, and the host holds only planned steps.
TypeOK ==
  /\ main \in {"running", "stopping", "preserving", "aborting", "exited"}
  /\ {requested, guarded, exited} \subseteq BOOLEAN
  /\ store.active \in Revisions /\ store.pending \in Revisions \cup {None}
  /\ revision \in Revisions
  /\ gen.phase \in {"Starting", "Ready", "Stopping", "Failed"}
  /\ gen.stop \in {None, "Reload", "Shutdown"}
  /\ rt.state \in {"none", "starting", "running", "draining", "done"}
  /\ worker.state \in {"none", "spawned", "open", "ready", "gone"}
  /\ vpn.captures \subseteq 1 .. PublishSteps /\ vpn.inert \subseteq 1 .. PrepareSteps
  /\ vpn.faults \in 0 .. MaxFaults

\* Whatever ends the process (a return, an error, a second generation, an
\* aborted shutdown) and whatever step of the host fails on the way, it leaves
\* no rule that captures the host's traffic ("continuing safe retirement
\* instead of aborting its packet runtime", run_process_with_signal).
HostNeverStranded == main = "exited" => vpn.captures = {}

\* While traffic is captured the process is protected from an abort, every
\* route and device that the captured traffic needs is in place, and each
\* capturing step is recorded for its reversal.
CapturedTrafficIsOwned ==
  vpn.captures # {} => guarded /\ 1 .. PrepareSteps \subseteq vpn.inert /\ vpn.captures \subseteq vpn.published

\* "The caller must keep the packet runtime alive until this succeeds"
\* (PreparedLinuxVpn::unpublish): while traffic is captured the worker ends by
\* itself or with a failed generation, never by a stop, a reload or an abort.
WorkerOutlivesCapture ==
  [][device_live /\ ~device_live' /\ vpn.captures # {} => WorkerExit \/ RuntimeFails]_vars

\* An activated generation that is in service runs the active document, and a
\* managed one has all of its plan on the host: readiness, publication, the
\* store's commit and activation cannot be told apart from outside.
ActivatedIsCommitted ==
  gen.activated /\ pc = "select" =>
    /\ store.active = revision
    /\ managed => vpn.active /\ vpn.captures = 1 .. PublishSteps

\* An operation that returns without an error has left no candidate pending
\* and nothing of its last generation on the host beyond earlier failures.
ReturnIsClean ==
  /\ TypeOK
  /\ pc = "returned" => store.pending = None /\ (vpn.faults = MaxFaults => vpn.inert = {})

\* "A client that disconnects after the store transaction must not strand a
\* pending generation" (management/http.rs): every persisted document is
\* activated or rolled back, unless the process ends first.
CandidateDecided == store.pending # None ~> store.pending = None \/ main = "exited"

\* A shutdown request ends the process, though unpublication is retried for
\* as long as it fails and the teardown timeout may abort nothing meanwhile.
ShutdownEndsProcess == requested ~> main = "exited"
=============================================================================
