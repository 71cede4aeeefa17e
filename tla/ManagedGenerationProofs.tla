----------------------- MODULE ManagedGenerationProofs -----------------------
(***************************************************************************)
(* The safety of the managed VPN's generations, for every plan, every set  *)
(* of documents and every bound.                                           *)
(***************************************************************************)
EXTENDS ManagedGeneration, FiniteSetTheorems, TLAPS

-----------------------------------------------------------------------------
(* The host transaction *)

Controllers ==
  [prepared : SUBSET (1 .. PrepareSteps), published : SUBSET (1 .. PublishSteps),
   planned : BOOLEAN, complete : BOOLEAN, taken : BOOLEAN, active : BOOLEAN,
   inert : SUBSET (1 .. PrepareSteps), captures : SUBSET (1 .. PublishSteps), faults : Int]

\* Every capturing step of the host is in the journal; published steps stand on
\* a complete preparation, and a complete preparation is on the host.
Owned(c) ==
  /\ c \in Controllers
  /\ c.captures \subseteq c.published
  /\ c.prepared \subseteq c.inert
  /\ c.complete => c.prepared = 1 .. PrepareSteps
  /\ c.published # {} => c.complete

\* Nothing is published, so nothing is captured.
Quiet(c) == Owned(c) /\ c.published = {}

\* What a reversal leaves is part of what it was given, and its size is a number.
LEMMA Residual ==
  ASSUME NEW n \in Nat, NEW applied \in SUBSET (1 .. n), NEW faults,
         NEW residual \in rollback_steps(applied, faults)
  PROVE  residual \subseteq applied /\ Cardinality(residual) \in Nat
<1>1. residual \subseteq applied
  BY DEF rollback_steps
<1>2. IsFiniteSet(1 .. n)
  BY FS_Interval
<1>3. IsFiniteSet(residual)
  BY <1>1, <1>2, FS_Subset
<1> QED
  BY <1>1, <1>3, FS_CardinalityType

\* RollbackPublished keeps every capturing step it cannot undo in the journal.
LEMMA RollbackPublishedOwned ==
  ASSUME NEW c, c \in Controllers, c.captures \subseteq c.published,
         NEW u \in RollbackPublished(c)
  PROVE  /\ u \in Controllers
         /\ u.captures \subseteq u.published /\ u.published \subseteq c.published
         /\ u.prepared = c.prepared /\ u.inert = c.inert /\ u.complete = c.complete
<1>1. PICK residual \in rollback_steps(c.published, c.faults) :
        u = [c EXCEPT !.published = residual, !.captures = (@ \ c.published) \cup residual,
                      !.faults = @ - Cardinality(residual)]
  BY DEF RollbackPublished
<1>2. residual \subseteq c.published /\ Cardinality(residual) \in Nat
  <2>1. PublishSteps \in Nat
    BY PlanInputs
  <2>2. c.published \in SUBSET (1 .. PublishSteps)
    BY DEF Controllers
  <2> QED
    BY <2>1, <2>2, Residual
<1>3. /\ u.published = residual /\ u.captures = (c.captures \ c.published) \cup residual
      /\ u.prepared = c.prepared /\ u.inert = c.inert /\ u.complete = c.complete
  BY <1>1 DEF Controllers
<1>4. u \in Controllers
  <2>1. residual \in SUBSET (1 .. PublishSteps) /\ u.captures \in SUBSET (1 .. PublishSteps)
    BY <1>2, <1>3 DEF Controllers
  <2>2. c.faults - Cardinality(residual) \in Int
    BY <1>2 DEF Controllers
  <2> QED
    BY <1>1, <1>3, <2>1, <2>2 DEF Controllers
<1> QED
  BY <1>2, <1>3, <1>4

\* A rollback of the prepared steps keeps the journal in step with the host.
LEMMA RollbackPreparedOwned ==
  ASSUME NEW c, c \in Controllers, c.prepared \subseteq c.inert,
         NEW u \in RollbackPrepared(c)
  PROVE  /\ u \in Controllers
         /\ u.prepared \subseteq u.inert
         /\ u.published = c.published /\ u.captures = c.captures /\ u.complete = c.complete
<1>1. PICK residual \in rollback_steps(c.prepared, c.faults) :
        u = [c EXCEPT !.prepared = residual, !.inert = (@ \ c.prepared) \cup residual,
                      !.faults = @ - Cardinality(residual)]
  BY DEF RollbackPrepared
<1>2. residual \subseteq c.prepared /\ Cardinality(residual) \in Nat
  <2>1. PrepareSteps \in Nat
    BY PlanInputs
  <2>2. c.prepared \in SUBSET (1 .. PrepareSteps)
    BY DEF Controllers
  <2> QED
    BY <2>1, <2>2, Residual
<1>3. /\ u.prepared = residual /\ u.inert = (c.inert \ c.prepared) \cup residual
      /\ u.published = c.published /\ u.captures = c.captures /\ u.complete = c.complete
  BY <1>1 DEF Controllers
<1>4. u \in Controllers
  <2>1. residual \in SUBSET (1 .. PrepareSteps) /\ u.inert \in SUBSET (1 .. PrepareSteps)
    BY <1>2, <1>3 DEF Controllers
  <2>2. c.faults - Cardinality(residual) \in Int
    BY <1>2 DEF Controllers
  <2> QED
    BY <1>1, <1>3, <2>1, <2>2 DEF Controllers
<1> QED
  BY <1>2, <1>3, <1>4

\* Nothing is published, though the flags may say that a preparation is complete.
Still(c) ==
  c \in Controllers /\ c.captures = {} /\ c.published = {} /\ c.prepared \subseteq c.inert

\* A controller with nothing published, before and after its preparation is complete.
LEMMA QuietStill ==
  ASSUME NEW c
  PROVE  /\ Quiet(c) => Still(c)
         /\ Still(c) /\ ~c.complete => Quiet(c)
BY DEF Quiet, Owned, Still

\* A failure costs nothing but a failure.
LEMMA CostsOne ==
  ASSUME NEW c \in Controllers
  PROVE  LET d == [c EXCEPT !.faults = @ - 1]
         IN /\ d \in Controllers /\ d.captures = c.captures /\ d.published = c.published
            /\ d.prepared = c.prepared /\ d.inert = c.inert /\ d.complete = c.complete
BY DEF Controllers

\* Dropping or resetting a controller that captures nothing.
LEMMA ResetQuiet ==
  ASSUME NEW c, c \in Controllers, c.captures = {}
  PROVE  Quiet(reset_idle(c))
BY DEF Controllers, Quiet, Owned, reset_idle, NewController

\* A cleanup without published steps captures nothing.
LEMMA CleanupQuiet ==
  ASSUME NEW c, Still(c), NEW r \in cleanup(c)
  PROVE  Quiet(r.to)
<1> DEFINE d == [c EXCEPT !.active = FALSE, !.complete = FALSE]
           clean(u) == u.published = {} /\ u.prepared = {}
<1>1. Still(d) /\ ~d.complete
  BY DEF Still, Controllers
<1>2. PICK p \in RollbackPublished(d) : \E u \in RollbackPrepared(p) :
        r = [ok |-> clean(u), to |-> IF clean(u) THEN reset_idle(u) ELSE u]
  BY DEF cleanup
<1>3. PICK u \in RollbackPrepared(p) :
        r = [ok |-> clean(u), to |-> IF clean(u) THEN reset_idle(u) ELSE u]
  BY <1>2
<1> HIDE DEF d
<1>4. Still(p) /\ ~p.complete
  BY <1>1, RollbackPublishedOwned DEF Still
<1>5. Still(u) /\ ~u.complete
  BY <1>4, RollbackPreparedOwned DEF Still
<1>6. Quiet(u) /\ Quiet(reset_idle(u))
  BY <1>5, ResetQuiet, QuietStill DEF Still
<1> QED
  BY <1>3, <1>6

\* The cleanup after a failed preparation.
LEMMA FailedQuiet ==
  ASSUME NEW f, Still(f),
         NEW g \in IF controller_state(f) = "Idle" THEN {f} ELSE {r.to : r \in cleanup(f)}
  PROVE  Quiet(g)
<1>1. CASE controller_state(f) = "Idle"
  <2>1. ~f.complete
    BY <1>1 DEF controller_state, Still, Controllers
  <2> QED
    BY <1>1, <2>1, QuietStill
<1>2. CASE controller_state(f) # "Idle"
  BY <1>2, CleanupQuiet
<1> QED
  BY <1>1, <1>2

\* prepare publishes nothing, and says so truthfully when it succeeds.
LEMMA PrepareStill ==
  ASSUME NEW c, Quiet(c), NEW p \in prepare(c)
  PROVE  Still(p.to) /\ (p.ok => Quiet(p.to))
<1> DEFINE first(n) == [c EXCEPT !.planned = TRUE, !.prepared = 1 .. n, !.inert = @ \cup 1 .. n]
           failed(n) == [first(n) EXCEPT !.faults = @ - 1]
<1>1. PrepareSteps \in Nat \ {0}
  BY PlanInputs
<1>2. \A n \in 0 .. PrepareSteps : Still(first(n))
  <2>. TAKE n \in 0 .. PrepareSteps
  <2>1. 1 .. n \in SUBSET (1 .. PrepareSteps)
    BY <1>1
  <2>2. c \in Controllers /\ c.captures = {} /\ c.published = {}
    BY DEF Quiet, Owned
  <2>3. c.inert \cup 1 .. n \in SUBSET (1 .. PrepareSteps)
    BY <2>1, <2>2 DEF Controllers
  <2>4. /\ first(n).captures = {} /\ first(n).published = {}
        /\ first(n).prepared = 1 .. n /\ first(n).inert = c.inert \cup 1 .. n
    BY <2>2 DEF Controllers
  <2>5. first(n) \in Controllers
    BY <2>1, <2>2, <2>3 DEF Controllers
  <2> HIDE DEF first
  <2> QED
    BY <2>4, <2>5 DEF Still
<1>3. CASE controller_state(c) # "Idle"
  BY <1>3, QuietStill DEF prepare, Outcomes
<1>4. CASE p = [ok |-> TRUE, to |-> [first(PrepareSteps) EXCEPT !.complete = TRUE]]
  BY <1>1, <1>4 DEF Quiet, Owned, Still, Controllers
<1>5. ASSUME NEW n \in 0 .. PrepareSteps - 1, NEW f \in RollbackPrepared(failed(n)),
             p = [ok |-> FALSE, to |-> IF f.prepared = {} THEN reset_idle(f) ELSE f]
      PROVE  Still(p.to) /\ (p.ok => Quiet(p.to))
  <2> HIDE DEF first
  <2>0. Still(first(n))
    BY <1>1, <1>2
  <2>1. Still(failed(n))
    BY <2>0, CostsOne DEF Still
  <2>2. Still(f)
    BY <2>1, RollbackPreparedOwned DEF Still
  <2>3. Quiet(reset_idle(f))
    BY <2>2, ResetQuiet DEF Still
  <2> QED
    BY <1>5, <2>2, <2>3, QuietStill
<1> QED
  BY <1>3, <1>4, <1>5 DEF prepare, Outcomes

\* The handover of the device applies no step.
LEMMA TakeQuiet ==
  ASSUME NEW c, Quiet(c), NEW t \in take_prepared_device(c)
  PROVE  Quiet(t.to)
<1> DEFINE given == [c EXCEPT !.taken = TRUE]
           kept == [c EXCEPT !.faults = @ - 1]
<1>1. Quiet(given)
  BY DEF Quiet, Owned, Controllers
<1>2. Quiet(kept)
  BY CostsOne DEF Quiet, Owned
<1>3. \/ take_prepared_device(c) = Outcomes(FALSE, {c})
      \/ take_prepared_device(c) = Outcomes(TRUE, {given})
                                   \cup Outcomes(FALSE, {f \in {kept} : c.faults > 0})
  BY DEF take_prepared_device
<1> HIDE DEF given, kept
<1> QED
  BY <1>1, <1>2, <1>3 DEF Outcomes

\* The whole preparation of a generation leaves nothing published.
LEMMA HostPrepareQuiet ==
  ASSUME NEW c, Quiet(c), NEW r \in HostPrepare(c)
  PROVE  Quiet(r.to)
<1> DEFINE failed(f) == IF controller_state(f) = "Idle" THEN {f} ELSE {x.to : x \in cleanup(f)}
<1>1. PICK p \in prepare(c) :
        \/ ~p.ok /\ \E g \in failed(p.to) : r = [ok |-> FALSE, to |-> g]
        \/ /\ p.ok
           /\ \E t \in take_prepared_device(p.to) :
                \/ t.ok /\ r = [ok |-> TRUE, to |-> t.to]
                \/ ~t.ok /\ \E g \in failed(t.to) : r = [ok |-> FALSE, to |-> g]
  BY DEF HostPrepare, Outcomes
<1>2. Still(p.to) /\ (p.ok => Quiet(p.to))
  BY PrepareStill
<1>3. CASE ~p.ok
  BY <1>1, <1>2, <1>3, FailedQuiet
<1>4. CASE p.ok
  <2>1. PICK t \in take_prepared_device(p.to) :
          \/ t.ok /\ r = [ok |-> TRUE, to |-> t.to]
          \/ ~t.ok /\ \E g \in failed(t.to) : r = [ok |-> FALSE, to |-> g]
    BY <1>1, <1>4
  <2>2. Quiet(t.to)
    BY <1>2, <1>4, TakeQuiet
  <2> QED
    BY <2>1, <2>2, FailedQuiet, QuietStill
<1> QED
  BY <1>3, <1>4

\* publish records each step that it applies and cannot undo.
LEMMA PublishOwned ==
  ASSUME NEW c, Owned(c), NEW p \in publish(c)
  PROVE  Owned(p.to)
<1> DEFINE first(n) == [c EXCEPT !.published = 1 .. n, !.captures = @ \cup 1 .. n]
           failed(n) == [first(n) EXCEPT !.faults = @ - 1]
<1>1. PublishSteps \in Nat \ {0}
  BY PlanInputs
<1>2. CASE controller_state(c) # "Prepared" \/ ~c.taken
  <2>1. publish(c) = Outcomes(FALSE, {c})
    BY <1>2 DEF publish
  <2> QED
    BY <2>1 DEF Outcomes
<1>3. CASE controller_state(c) = "Prepared" /\ c.taken
  <2>1. c.complete /\ c.published = {} /\ c.captures = {}
    BY <1>3 DEF controller_state, Owned, Controllers
  <2>2. \A n \in 0 .. PublishSteps : Owned(first(n)) /\ first(n).complete
    <3>. TAKE n \in 0 .. PublishSteps
    <3>1. 1 .. n \in SUBSET (1 .. PublishSteps)
      BY <1>1
    <3>2. first(n) \in Controllers
      BY <2>1, <3>1 DEF Owned, Controllers
    <3>3. /\ first(n).captures = 1 .. n /\ first(n).published = 1 .. n
          /\ first(n).prepared = c.prepared /\ first(n).inert = c.inert /\ first(n).complete
      BY <2>1 DEF Owned, Controllers
    <3> HIDE DEF first
    <3> QED
      BY <2>1, <3>2, <3>3 DEF Owned
  <2>3. CASE p = [ok |-> TRUE, to |-> [first(PublishSteps) EXCEPT !.active = TRUE]]
    <3> HIDE DEF first
    <3>1. Owned(first(PublishSteps))
      BY <1>1, <2>2
    <3>2. Owned([first(PublishSteps) EXCEPT !.active = TRUE])
      BY <3>1 DEF Owned, Controllers
    <3> QED
      BY <2>3, <3>2
  <2>4. ASSUME NEW n \in 0 .. PublishSteps - 1, NEW f \in RollbackPublished(failed(n)),
               p = [ok |-> FALSE, to |-> f]
        PROVE  Owned(p.to)
    <3> HIDE DEF first
    <3>0. Owned(first(n)) /\ first(n).complete
      BY <1>1, <2>2
    <3>1. Owned(failed(n)) /\ failed(n).complete
      BY <3>0, CostsOne DEF Owned
    <3> HIDE DEF failed
    <3> QED
      BY <2>4, <3>1, RollbackPublishedOwned DEF Owned
  <2> QED
    BY <1>3, <2>3, <2>4 DEF publish, Outcomes
<1> QED
  BY <1>2, <1>3

\* unpublish keeps in the journal what it cannot undo.
LEMMA UnpublishOwned ==
  ASSUME NEW c, Owned(c), NEW r \in unpublish(c)
  PROVE  Owned(r.to)
<1>1. CASE ~c.complete \/ c.published = {}
  BY <1>1 DEF unpublish, Outcomes
<1>2. CASE c.complete /\ c.published # {}
  <2> DEFINE d == [c EXCEPT !.active = FALSE]
  <2>1. Owned(d) /\ d.complete
    BY <1>2 DEF Owned, Controllers
  <2>2. unpublish(c) = {[ok |-> u.published = {}, to |-> u] : u \in RollbackPublished(d)}
    BY <1>2 DEF unpublish
  <2> HIDE DEF d
  <2>3. r.to \in RollbackPublished(d)
    BY <2>2
  <2> QED
    BY <2>1, <2>3, RollbackPublishedOwned DEF Owned
<1> QED
  BY <1>1, <1>2

-----------------------------------------------------------------------------
(* The generations *)

Gens ==
  [phase : {"Starting", "Ready", "Stopping", "Failed"}, stop : {None, "Reload", "Shutdown"},
   authorized : BOOLEAN, activated : BOOLEAN]

\* Where the operation drives a runtime it has prepared and has not yet unpublished.
Driving ==
  {"select", "ready", "await_worker", "publish", "check", "recheck", "commit", "activate",
   "unpublish"}

\* The inductive invariant.  Published steps belong to a managed generation that
\* is being driven; such a generation is protected and its runtime may not
\* retire; and an abort is only decided when nothing is published and nothing
\* can be, since publication is not begun after a shutdown request.
IInv ==
  /\ Owned(vpn) /\ gen \in Gens
  /\ vpn.published # {} => managed /\ pc \in Driving
  /\ managed /\ pc \in Driving => guarded /\ ~gen.authorized
  /\ pc \in {"await_worker", "publish", "check", "recheck", "unpublish"} => managed
  /\ pc = "prepare" => guarded
  /\ main \in {"stopping", "preserving", "aborting"} => requested
  /\ main = "aborting" => vpn.published = {} /\ pc \notin {"await_worker", "publish"}
  /\ main = "exited" => vpn.published = {} /\ pc \in {"returned", "failed", "dropped"}

\* A generation's control never takes back or gives the authorization by itself.
LEMMA GenerationControl ==
  ASSUME NEW g \in Gens
  PROVE  /\ mark_stopping(g) \in Gens /\ mark_stopping(g).authorized = g.authorized
         /\ mark_failed(g) \in Gens /\ mark_failed(g).authorized = g.authorized
         /\ request_shutdown(g) \in Gens /\ request_shutdown(g).authorized = g.authorized
         /\ activate(g) \in Gens /\ activate(g).authorized = g.authorized
BY DEF Gens, mark_stopping, mark_failed, request_shutdown, activate, None

\* The control that a generation starts with is well formed.
LEMMA FreshGeneration == NewGeneration \in Gens
BY DEF NewGeneration, Gens

\* A failure outside the host costs only the budget of failures.
LEMMA SpendOwned ==
  ASSUME NEW c, Owned(c)
  PROVE  Owned([c EXCEPT !.faults = @ - 1])
         /\ [c EXCEPT !.faults = @ - 1].published = c.published
BY CostsOne DEF Owned

\* A process starts with nothing on the host.
LEMMA Initially == Init => IInv
<1>. SUFFICES ASSUME Init PROVE IInv
  OBVIOUS
<1>1. Owned(vpn) /\ vpn.published = {}
  BY GenerationInputs DEF Init, NewController, Owned, Controllers
<1>2. gen \in Gens
  BY DEF Init, NewGeneration, Gens
<1> QED
  BY <1>1, <1>2 DEF Init, IInv, Driving

\* A step after which nothing is published and nothing is driven.
LEMMA Settled ==
  ASSUME IInv, Owned(vpn'), gen' \in Gens, vpn'.published = {},
         pc' \notin Driving, pc' # "prepare",
         UNCHANGED <<main, requested>>, main # "exited"
  PROVE  IInv'
BY DEF IInv, Driving

\* A store operation that may fail, and what follows it.
LEMMA AfterRollback ==
  ASSUME IInv, pc \in {"top", "terminal", "backoff"}, UNCHANGED process,
         RollbackAndReturn \/ Rollback(Restart(store.active, 0)) \/ StoreFails
  PROVE  IInv'
<1>1. main # "exited" /\ vpn.published = {} /\ Owned(vpn)
  BY DEF IInv, Driving
<1>2. Owned(vpn') /\ vpn'.published = {}
  BY <1>1, SpendOwned DEF RollbackAndReturn, Rollback, StoreFails, Restart, Return
<1>3. gen' \in Gens
  <2>1. gen' \in {gen, NewGeneration}
    BY DEF RollbackAndReturn, Rollback, StoreFails, Restart, Return, Goto
  <2> QED
    BY <2>1, FreshGeneration DEF IInv
<1>4. pc' \in {"returned", "failed", "top"}
  BY DEF RollbackAndReturn, Rollback, StoreFails, Restart, Return, Goto
<1> QED
  BY <1>1, <1>2, <1>3, <1>4, Settled DEF Driving, process

\* The steps of the operation outside its driver.
LEMMA OuterSteps ==
  ASSUME IInv, Top \/ Protect \/ Prepare \/ Terminal \/ Backoff
  PROVE  IInv'
<1>1. CASE Top
  <2>1. CASE requested /\ RollbackAndReturn
    BY <1>1, <2>1, AfterRollback DEF Top
  <2>2. CASE ~requested
    BY <1>1, <2>2 DEF Top, IInv, Goto, Driving, managed, process, tasks
  <2> QED
    BY <1>1, <2>1, <2>2 DEF Top
<1>2. CASE Protect
  BY <1>2 DEF Protect, IInv, Goto, Driving, managed, tasks
<1>3. CASE Prepare
  <2>1. main # "exited" /\ vpn.published = {} /\ Quiet(vpn) /\ guarded
    BY <1>3 DEF Prepare, IInv, Driving, Quiet
  <2>2. CASE ~managed
    BY <1>3, <2>1, <2>2 DEF Prepare, StartRuntime, Goto, IInv, Driving, managed
  <2>3. CASE managed
    <3>1. PICK p \in HostPrepare(vpn) \cup Outcomes(FALSE, {vpn}) :
             \/ /\ p.ok /\ vpn' = p.to
                /\ gen' = [gen EXCEPT !.authorized = FALSE]
                /\ StartRuntime
                /\ UNCHANGED guarded
             \/ /\ ~p.ok /\ vpn' = reset_idle(p.to)
                /\ Goto("terminal")
                /\ UNCHANGED gen
      BY <1>3, <2>3 DEF Prepare
    <3>2. Quiet(p.to)
      BY <2>1, HostPrepareQuiet DEF Outcomes
    <3>3. Quiet(vpn')
      BY <3>1, <3>2, ResetQuiet DEF Quiet, Owned
    <3>4. Owned(vpn') /\ vpn'.published = {}
      BY <3>3 DEF Quiet
    <3>5. UNCHANGED <<main, requested, revision>>
      BY <1>3 DEF Prepare
    <3>6. CASE gen' = [gen EXCEPT !.authorized = FALSE] /\ StartRuntime /\ UNCHANGED guarded
      <4>1. gen' \in Gens /\ ~gen'.authorized
        BY <3>6 DEF IInv, Gens
      <4> QED
        BY <1>3, <2>1, <3>4, <3>5, <3>6, <4>1 DEF IInv, StartRuntime, Goto, managed, Driving
    <3>7. CASE Goto("terminal") /\ UNCHANGED gen
      BY <2>1, <3>4, <3>5, <3>7, Settled DEF Goto, Driving, IInv
    <3> QED
      BY <3>1, <3>6, <3>7
  <2> QED
    BY <2>2, <2>3
<1>4. CASE Terminal
  <2>1. main # "exited" /\ vpn.published = {} /\ Owned(vpn) /\ UNCHANGED process
    BY <1>4 DEF Terminal, IInv, Driving
  <2>2. \/ RollbackAndReturn \/ Rollback(Restart(store.active, 0))
        \/ /\ UNCHANGED vpn
           /\ Return("failed") \/ Restart(document, 0) \/ (Goto("backoff") /\ UNCHANGED gen)
    BY <1>4 DEF Terminal
  <2>3. CASE UNCHANGED vpn
             /\ (Return("failed") \/ Restart(document, 0) \/ (Goto("backoff") /\ UNCHANGED gen))
    <3>1. pc' \in {"failed", "top", "backoff"} /\ gen' \in {gen, NewGeneration}
      BY <2>3 DEF Restart, Return, Goto
    <3> QED
      BY <2>1, <2>3, <3>1, FreshGeneration, Settled DEF Driving, process, IInv
  <2>4. CASE RollbackAndReturn \/ Rollback(Restart(store.active, 0))
    BY <1>4, <2>1, <2>4, AfterRollback DEF Terminal
  <2> QED
    BY <2>2, <2>3, <2>4
<1>5. CASE Backoff
  <2>1. CASE RollbackAndReturn \/ StoreFails
    BY <1>5, <2>1, AfterRollback DEF Backoff
  <2>2. CASE /\ Restart(document, IF document = local.loaded THEN local.restarts ELSE 0)
             /\ UNCHANGED vpn
    <3>1. main # "exited" /\ vpn.published = {} /\ Owned(vpn) /\ UNCHANGED process
      BY <1>5 DEF Backoff, IInv, Driving
    <3>2. pc' = "top" /\ gen' \in Gens
      BY <2>2 DEF Restart, NewGeneration, Gens
    <3> QED
      BY <2>2, <3>1, <3>2, Settled DEF Driving, process
  <2> QED
    BY <1>5, <2>1, <2>2 DEF Backoff
<1> QED
  BY <1>1, <1>2, <1>3, <1>4, <1>5

\* A step of the driver that leaves the host alone and does not begin a publication.
LEMMA Drives ==
  ASSUME IInv, pc \in Driving, gen' \in Gens, gen'.authorized = gen.authorized,
         UNCHANGED <<process, revision>>, UNCHANGED vpn,
         \/ pc' \in {"select", "ready", "commit", "activate"}
         \/ managed /\ pc' \in {"check", "recheck", "unpublish"}
         \/ managed /\ ~requested /\ pc' = "await_worker"
         \/ managed /\ pc = "await_worker" /\ pc' = "publish"
         \/ ~managed /\ pc' \in {"terminal", "await_runtime"}
  PROVE  IInv'
<1>1. main # "exited"
  BY DEF IInv, Driving
<1> QED
  BY <1>1 DEF IInv, Driving, managed, process

\* The select loop, up to the publication.
LEMMA SelectSteps ==
  ASSUME IInv,
         RuntimeCompleted \/ SeeShutdown \/ SeeStop \/ SeeReadiness \/ Ready \/ Recheck \/ Activate
  PROVE  IInv'
<1>0. gen \in Gens
  BY DEF IInv
<1>1. CASE RuntimeCompleted
  BY <1>0, <1>1, Drives DEF RuntimeCompleted, Goto, Driving
<1>2. CASE SeeShutdown
  BY <1>0, <1>2, GenerationControl, Drives DEF SeeShutdown, Retire, Goto, Driving
<1>3. CASE SeeStop
  BY <1>0, <1>3, Drives DEF SeeStop, Retire, Goto, Driving
<1>4. CASE SeeReadiness
  BY <1>0, <1>4, GenerationControl, Drives DEF SeeReadiness, Retire, Goto, Driving
<1>5. CASE Ready
  BY <1>0, <1>5, Drives DEF Ready, Goto, Driving
<1>6. CASE Recheck
  BY <1>0, <1>6, GenerationControl, Drives DEF Recheck, Retire, Goto, Driving, IInv
<1>7. CASE Activate
  BY <1>0, <1>7, GenerationControl, Drives DEF Activate, Goto, Driving
<1> QED
  BY <1>1, <1>2, <1>3, <1>4, <1>5, <1>6, <1>7

\* A step of a managed generation's driver that changes the host.
LEMMA DrivesHost ==
  ASSUME IInv, managed, pc \in Driving, gen' \in Gens, gen'.authorized = gen.authorized,
         UNCHANGED <<process, revision>>,
         Owned(vpn'), vpn.published = {} /\ main = "aborting" => vpn'.published = {},
         pc' \in {"check", "unpublish"}
  PROVE  IInv'
<1>1. main # "exited"
  BY DEF IInv, Driving
<1> QED
  BY <1>1 DEF IInv, Driving, managed, process

\* The steps from readiness to the activated generation.
LEMMA PublicationSteps ==
  ASSUME IInv, AwaitWorker \/ Publish \/ CheckDevice \/ Commit
  PROVE  IInv'
<1>0. gen \in Gens /\ Owned(vpn)
  BY DEF IInv
<1>1. CASE AwaitWorker
  <2>1. managed
    BY <1>1 DEF AwaitWorker, IInv
  <2> QED
    BY <1>0, <1>1, <2>1, GenerationControl, Drives
       DEF AwaitWorker, PublishFailed, Retire, Goto, Driving
<1>2. CASE Publish
  <2>1. managed /\ main # "aborting" /\ pc \in Driving /\ UNCHANGED <<process, revision>>
    BY <1>2 DEF Publish, IInv, Driving
  <2>2. Owned(vpn')
    BY <1>0, <1>2, PublishOwned DEF Publish
  <2>3. pc' \in {"check", "unpublish"} /\ (gen' = gen \/ gen' = request_shutdown(gen))
    BY <1>2, <2>1 DEF Publish, PublishFailed, Retire, Goto
  <2> QED
    BY <1>0, <2>1, <2>2, <2>3, GenerationControl, DrivesHost
<1>3. CASE CheckDevice
  <2>1. managed /\ pc \in Driving /\ UNCHANGED <<process, revision>>
    BY <1>3 DEF CheckDevice, IInv, Driving
  <2>2. CASE device_live
    BY <1>0, <1>3, <2>1, <2>2, Drives DEF CheckDevice, Goto
  <2>3. CASE ~device_live
    <3>1. PICK u \in unpublish(vpn) : vpn' = u.to
      BY <1>3, <2>3 DEF CheckDevice
    <3>2. Owned(vpn') /\ (vpn.published = {} => vpn'.published = {})
      BY <1>0, <3>1, UnpublishOwned DEF unpublish, Outcomes
    <3>3. pc' = "unpublish" /\ gen' = request_shutdown(gen)
      BY <1>3, <2>1, <2>3 DEF CheckDevice, PublishFailed, Retire, Goto
    <3> QED
      BY <1>0, <2>1, <3>2, <3>3, GenerationControl, DrivesHost
  <2> QED
    BY <2>2, <2>3
<1>4. CASE Commit
  <2>1. pc \in Driving /\ main # "exited" /\ UNCHANGED <<process, revision>>
    BY <1>4 DEF Commit, IInv, Driving
  <2>2. CASE UNCHANGED vpn
    BY <1>0, <1>4, <2>1, <2>2, GenerationControl, Drives DEF Commit, Retire, Goto
  <2>3. CASE vpn' = [vpn EXCEPT !.faults = @ - 1]
    <3>1. Owned(vpn') /\ vpn'.published = vpn.published
      BY <1>0, <2>3, SpendOwned
    <3>2. /\ gen' \in Gens /\ gen'.authorized = gen.authorized
          /\ pc' \in {"activate", "await_runtime", "unpublish"}
          /\ pc' = "await_runtime" => ~managed
          /\ pc' = "unpublish" => managed
      BY <1>0, <1>4, GenerationControl DEF Commit, Retire, Goto
    <3> QED
      BY <2>1, <3>1, <3>2 DEF IInv, Driving, managed, process
  <2> QED
    BY <1>4, <2>2, <2>3 DEF Commit
<1> QED
  BY <1>1, <1>2, <1>3, <1>4

\* The steps that unpublish, wait for the runtime and clean up.
LEMMA RetirementSteps ==
  ASSUME IInv, Unpublish \/ AwaitRuntime \/ Cleanup
  PROVE  IInv'
<1>0. gen \in Gens /\ Owned(vpn)
  BY DEF IInv
<1>1. CASE Unpublish
  <2>1. managed /\ main # "exited" /\ UNCHANGED <<main, requested, revision>>
    BY <1>1 DEF Unpublish, IInv, Driving
  <2>2. Owned(vpn') /\ (vpn.published = {} => vpn'.published = {})
    BY <1>0, <1>1, UnpublishOwned DEF Unpublish
  <2>3. CASE vpn'.published = {}
    <3>1. /\ pc' \in {"await_runtime", "cleanup"}
          /\ gen' = gen \/ gen' = [gen EXCEPT !.authorized = TRUE]
      BY <1>1, <2>3 DEF Unpublish, Unpublished, Goto
    <3>2. gen' \in Gens
      BY <1>0, <3>1 DEF Gens
    <3> QED
      BY <2>1, <2>2, <2>3, <3>1, <3>2, Settled DEF Driving
  <2>4. CASE vpn'.published # {}
    <3>1. UNCHANGED <<guarded, gen, pc>>
      BY <1>1, <2>4 DEF Unpublish, Unpublished
    <3> QED
      BY <1>1, <2>1, <2>2, <2>4, <3>1, DrivesHost DEF Unpublish, process, IInv, Driving
  <2> QED
    BY <2>3, <2>4
<1>2. CASE AwaitRuntime
  <2>1. main # "exited" /\ vpn.published = {}
    BY <1>2 DEF AwaitRuntime, IInv, Driving
  <2> QED
    BY <1>0, <1>2, <2>1, Settled DEF AwaitRuntime, Goto, Driving, process
<1>3. CASE Cleanup
  <2>1. main # "exited" /\ vpn.published = {} /\ Quiet(vpn) /\ Still(vpn)
    BY <1>0, <1>3, QuietStill DEF Cleanup, IInv, Driving, Quiet
  <2>2. PICK c \in Outcomes(FALSE, {vpn}) \cup Outcomes(TRUE, {vpn}) \cup cleanup(vpn) :
          /\ vpn' = c.to \/ vpn' = reset_idle(c.to)
          /\ pc' \in {"terminal", "cleanup"}
    BY <1>3 DEF Cleanup, Goto
  <2>3. Quiet(c.to)
    BY <2>1, CleanupQuiet DEF Outcomes
  <2>4. Quiet(vpn')
    BY <2>2, <2>3, ResetQuiet DEF Quiet, Owned
  <2> QED
    BY <1>0, <1>3, <2>1, <2>2, <2>4, Settled DEF Cleanup, Driving, process, Quiet
<1> QED
  BY <1>1, <1>2, <1>3

\* A step of another task: it moves neither the operation nor what is published.
LEMMA Elsewhere ==
  ASSUME IInv, Owned(vpn'), vpn'.published = vpn.published,
         gen' \in Gens, gen'.authorized = gen.authorized,
         UNCHANGED <<process, pc>>, managed' = managed
  PROVE  IInv'
BY DEF IInv, process

\* The runtime's own steps leave the host alone.
LEMMA RuntimeSteps ==
  ASSUME IInv, Runtime
  PROVE  IInv'
<1>0. gen \in Gens /\ Owned(vpn)
  BY DEF IInv
<1>1. UNCHANGED <<process, pc, revision, vpn>>
  BY DEF Runtime, RuntimeStarted, RuntimeFails, RuntimeStops, RuntimeRetires, rest
<1>2. gen' = gen \/ gen' = mark_failed(gen)
  BY DEF Runtime, RuntimeStarted, RuntimeFails, RuntimeStops, RuntimeRetires, RetireServices
<1> QED
  BY <1>0, <1>1, <1>2, GenerationControl, Elsewhere DEF managed

\* So do the services.
LEMMA ServiceSteps ==
  ASSUME IInv,
         \/ WorkerOpen \/ WorkerReady \/ BarrierReady \/ WorkerExit \/ ServiceExit
         \/ ReloadMarks \/ ReloadStops
         \/ \E r \in Revisions : Apply(r) \/ ApplyLive(r)
  PROVE  IInv'
<1>0. gen \in Gens /\ Owned(vpn)
  BY DEF IInv
<1>1. UNCHANGED <<process, pc>> /\ managed' = managed
  BY DEF WorkerOpen, WorkerReady, BarrierReady, WorkerExit, ServiceExit, ReloadMarks, ReloadStops,
         Apply, ApplyLive, rest, managed
<1>2. Owned(vpn') /\ vpn'.published = vpn.published
  <2>1. vpn' = vpn \/ vpn' = [vpn EXCEPT !.faults = @ - 1]
    BY DEF WorkerOpen, WorkerReady, BarrierReady, WorkerExit, ServiceExit, ReloadMarks,
           ReloadStops, Apply, ApplyLive, rest
  <2> QED
    BY <1>0, <2>1, SpendOwned
<1>3. gen' \in Gens /\ gen'.authorized = gen.authorized
  <2>1. \/ gen' = gen \/ gen' = mark_failed(gen) \/ gen' = mark_stopping(gen)
        \/ gen' = [gen EXCEPT !.phase = "Ready"] \/ gen' = [gen EXCEPT !.stop = "Reload"]
    BY DEF WorkerOpen, WorkerReady, BarrierReady, WorkerExit, ServiceExit, ReloadMarks,
           ReloadStops, Apply, ApplyLive, tasks
  <2>2. CASE gen' = [gen EXCEPT !.phase = "Ready"] \/ gen' = [gen EXCEPT !.stop = "Reload"]
    BY <1>0, <2>2 DEF Gens
  <2> QED
    BY <1>0, <2>1, <2>2, GenerationControl
<1> QED
  BY <1>1, <1>2, <1>3, Elsewhere

\* The process: an abort finds nothing published.
LEMMA ProcessSteps ==
  ASSUME IInv, Signal \/ Main
  PROVE  IInv'
<1>1. CASE Signal
  BY <1>1 DEF Signal, IInv, managed, tasks
<1>2. CASE Join
  BY <1>2 DEF Join, IInv, managed, Driving, tasks
<1>3. CASE TeardownTimeout
  BY <1>3 DEF TeardownTimeout, IInv, managed, Driving, tasks
<1>4. CASE Releasable
  BY <1>4 DEF Releasable, IInv, managed, Driving, tasks
<1>5. CASE Abort
  BY <1>5 DEF Abort, IInv, managed, Driving, Ended
<1> QED
  BY <1>1, <1>2, <1>3, <1>4, <1>5 DEF Main

\* Every step preserves the invariant.
LEMMA Inductive == IInv /\ [Next]_vars => IInv'
<1>. SUFFICES ASSUME IInv, [Next]_vars PROVE IInv'
  OBVIOUS
<1>1. CASE Operation
  BY <1>1, OuterSteps, SelectSteps, PublicationSteps, RetirementSteps DEF Operation
<1>2. CASE Runtime
  BY <1>2, RuntimeSteps
<1>3. CASE \/ WorkerOpen \/ WorkerReady \/ BarrierReady \/ WorkerExit \/ ServiceExit
           \/ ReloadMarks \/ ReloadStops
           \/ \E r \in Revisions : Apply(r) \/ ApplyLive(r)
  BY <1>3, ServiceSteps
<1>4. CASE Signal \/ Main
  BY <1>4, ProcessSteps
<1>5. CASE UNCHANGED vars
  BY <1>5 DEF vars, IInv, managed, process
<1> QED
  BY <1>1, <1>2, <1>3, <1>4, <1>5 DEF Next

\* The inductive invariant holds throughout.
LEMMA Invariance == Spec => []IInv
BY Initially, Inductive, PTL DEF Spec

\* Captured traffic comes from a step that is recorded as published.
LEMMA CapturedIsPublished ==
  IInv => (vpn.captures # {} => vpn.published # {} /\ vpn.captures \subseteq vpn.published)
BY DEF IInv, Owned

\* run_process_with_signal never leaves a rule that captures the host's traffic,
\* for every plan and whatever fails.
THEOREM HostNeverStrandedHolds == Spec => []HostNeverStranded
<1>1. IInv => HostNeverStranded
  BY CapturedIsPublished DEF IInv, HostNeverStranded
<1> QED
  BY Invariance, <1>1, PTL

\* While traffic is captured, drive_managed_runtime_generation keeps the process
\* protected, the preparation in place and the journal of LinuxTransaction exact.
THEOREM CapturedTrafficIsOwnedHolds == Spec => []CapturedTrafficIsOwned
<1>1. IInv => CapturedTrafficIsOwned
  BY CapturedIsPublished DEF IInv, Owned, CapturedTrafficIsOwned
<1> QED
  BY Invariance, <1>1, PTL

\* No stop, reload or abort takes the packet worker away under captured traffic:
\* retirement is authorized only after unpublish_managed_vpn.
THEOREM WorkerOutlivesCaptureHolds == Spec => WorkerOutlivesCapture
<1>1. ASSUME IInv, [Next]_vars, device_live, ~device_live', vpn.captures # {}
      PROVE  WorkerExit \/ RuntimeFails
  <2>0. /\ managed /\ pc \in Driving /\ ~gen.authorized /\ main # "aborting" /\ main # "exited"
    BY <1>1, CapturedIsPublished DEF IInv
  <2>1. worker' # worker
    BY <1>1 DEF device_live
  <2>2. CASE Operation
    <3>1. ~Top /\ ~Protect /\ ~Prepare /\ ~Terminal /\ ~Backoff
      BY <2>0 DEF Top, Protect, Prepare, Terminal, Backoff, Driving
    <3>2. UNCHANGED worker
      BY <2>2, <3>1
         DEF Operation, RuntimeCompleted, SeeShutdown, SeeStop, SeeReadiness, Ready, AwaitWorker,
             Publish, CheckDevice, Recheck, Commit, Activate, Unpublish, AwaitRuntime, Cleanup,
             tasks
    <3> QED
      BY <2>1, <3>2
  <2>3. CASE Runtime
    BY <2>0, <2>1, <2>3 DEF Runtime, RuntimeStarted, RuntimeStops, RuntimeRetires, Authorized
  <2>4. CASE WorkerOpen \/ WorkerReady
    BY <1>1, <2>4 DEF WorkerOpen, WorkerReady, device_live
  <2>5. CASE \/ BarrierReady \/ ServiceExit \/ ReloadMarks \/ ReloadStops \/ Signal \/ Main
             \/ \E r \in Revisions : Apply(r) \/ ApplyLive(r)
    BY <2>0, <2>1, <2>5
       DEF BarrierReady, ServiceExit, ReloadMarks, ReloadStops, Signal, Main, Join,
           TeardownTimeout, Releasable, Abort, Apply, ApplyLive, tasks
  <2>6. CASE UNCHANGED vars
    BY <2>1, <2>6 DEF vars, tasks
  <2> QED
    BY <1>1, <2>2, <2>3, <2>4, <2>5, <2>6 DEF Next
<1>2. IInv /\ [Next]_vars =>
        [device_live /\ ~device_live' /\ vpn.captures # {} => WorkerExit \/ RuntimeFails]_vars
  BY <1>1
<1> QED
  BY Invariance, <1>2, PTL DEF Spec, WorkerOutlivesCapture

------------------------------------------------------------------------------
(* What an activated generation amounts to: it is the committed one, with   *)
(* its whole plan on the host.                                              *)

Results == {None, "Error", "Shutdown", "Reload", "Failed"}
Locals ==
  [loaded : Revisions \cup {None}, candidate : BOOLEAN, readiness_pending : BOOLEAN,
   activated : BOOLEAN, result : Results, retire : BOOLEAN, tries : Int, restarts : Int]
Stores == [active : Revisions, pending : Revisions \cup {None}]
Runtimes ==
  [state : {"none", "starting", "running", "draining", "done"},
   outcome : {None, "Shutdown", "Reload", "Failed"}]

Types == local \in Locals /\ store \in Stores /\ revision \in Revisions /\ rt \in Runtimes

\* The document that a generation runs is one of the documents.
LEMMA DocumentTyped == Types => document \in Revisions
BY DEF Types, Stores, document

\* The locals of a new generation.
LEMMA NewLocalTyped == \A n \in Int : NewLocal(n) \in Locals
BY DEF NewLocal, Locals, Results

\* A new generation of any document.
LEMMA RestartTyped ==
  ASSUME Types, NEW r \in Revisions, NEW n \in Int, Restart(r, n), store' \in Stores
  PROVE  Types'
BY NewLocalTyped DEF Restart, Types, Runtimes, NoRuntime

\* A store operation, and the return after it.
LEMMA RollbackTyped ==
  ASSUME Types, RollbackAndReturn \/ StoreFails \/ Rollback(Restart(store.active, 0))
  PROVE  Types'
<1>1. store' \in Stores
  BY DEF RollbackAndReturn, Rollback, StoreFails, Types, Stores
<1>2. CASE Restart(store.active, 0)
  BY <1>1, <1>2, RestartTyped DEF Types, Stores
<1>3. CASE UNCHANGED <<revision, local, rt>>
  BY <1>1, <1>3 DEF Types
<1> QED
  BY <1>2, <1>3 DEF RollbackAndReturn, Rollback, StoreFails, Return, tasks

\* The steps of the operation outside its driver.
LEMMA OuterTyped ==
  ASSUME Types, Top \/ Protect \/ Prepare \/ Terminal \/ Backoff
  PROVE  Types'
<1>1. CASE Top
  <2>1. CASE RollbackAndReturn
    BY <2>1, RollbackTyped
  <2>2. CASE /\ local' = [local EXCEPT !.loaded = revision, !.candidate = store.pending = revision]
             /\ UNCHANGED <<store, revision, rt>>
    BY <2>2 DEF Types, Locals
  <2> QED
    BY <1>1, <2>1, <2>2 DEF Top, tasks
<1>2. CASE Protect
  BY <1>2 DEF Protect, Types, tasks
<1>3. CASE Prepare
  <2>1. /\ UNCHANGED <<store, revision>>
        /\ rt' = rt \/ rt' = [state |-> "starting", outcome |-> None]
        /\ local' = local \/ local' = [local EXCEPT !.result = "Error"]
    BY <1>3 DEF Prepare, StartRuntime, tasks
  <2>2. rt' \in Runtimes
    BY <2>1 DEF Types, Runtimes
  <2>3. local' \in Locals
    BY <2>1 DEF Types, Locals, Results
  <2> QED
    BY <2>1, <2>2, <2>3 DEF Types
<1>4. CASE Terminal
  <2>1. \/ RollbackAndReturn \/ Rollback(Restart(store.active, 0))
        \/ UNCHANGED store /\ Restart(document, 0)
        \/ UNCHANGED <<store, revision, rt, local>>
        \/ UNCHANGED <<store, revision, rt>> /\ local' = [local EXCEPT !.restarts = @ + 1]
    BY <1>4 DEF Terminal, Return, tasks
  <2>2. CASE UNCHANGED store /\ Restart(document, 0)
    BY <2>2, DocumentTyped, RestartTyped DEF Types
  <2>3. CASE UNCHANGED <<store, revision, rt>>
             /\ local' \in {local, [local EXCEPT !.restarts = @ + 1]}
    BY <2>3 DEF Types, Locals
  <2> QED
    BY <2>1, <2>2, <2>3, RollbackTyped
<1>5. CASE Backoff
  <2>1. CASE /\ Restart(document, IF document = local.loaded THEN local.restarts ELSE 0)
             /\ UNCHANGED store
    <3>1. (IF document = local.loaded THEN local.restarts ELSE 0) \in Int
      BY DEF Types, Locals
    <3> QED
      BY <2>1, <3>1, DocumentTyped, RestartTyped DEF Types
  <2> QED
    BY <1>5, <2>1, RollbackTyped DEF Backoff
<1> QED
  BY <1>1, <1>2, <1>3, <1>4, <1>5

\* The steps of the driver and of the retirement.
LEMMA DriverTyped ==
  ASSUME Types,
         \/ RuntimeCompleted \/ SeeShutdown \/ SeeStop \/ SeeReadiness \/ Ready
         \/ AwaitWorker \/ Publish \/ CheckDevice \/ Recheck \/ Commit \/ Activate
         \/ Unpublish \/ AwaitRuntime \/ Cleanup
  PROVE  Types'
<1>1. UNCHANGED <<revision, rt>>
  BY DEF RuntimeCompleted, SeeShutdown, SeeStop, SeeReadiness, Ready, AwaitWorker, Publish,
         CheckDevice, Recheck, Commit, Activate, Unpublish, AwaitRuntime, Cleanup, tasks
<1>2. UNCHANGED store \/ store' = [active |-> revision, pending |-> None]
  BY DEF RuntimeCompleted, SeeShutdown, SeeStop, SeeReadiness, Ready, AwaitWorker, Publish,
         CheckDevice, Recheck, Commit, Activate, Unpublish, AwaitRuntime, Cleanup
<1>3. \/ UNCHANGED local
      \/ \E r \in Results : local' = [local EXCEPT !.result = r]
      \/ local' = [local EXCEPT !.readiness_pending = FALSE]
      \/ local' = [local EXCEPT !.activated = TRUE]
      \/ local' = [local EXCEPT !.tries = @ + 1]
      \/ \E r \in Results :
           local' = [local EXCEPT !.result = r, !.retire = TRUE, !.readiness_pending = FALSE]
  BY DEF RuntimeCompleted, SeeShutdown, SeeStop, SeeReadiness, Ready, AwaitWorker, Publish,
         CheckDevice, Recheck, Commit, Activate, Unpublish, AwaitRuntime, Cleanup, Retire,
         PublishFailed, Results, Types, Runtimes
<1>4. local' \in Locals
  <2>0. local \in Locals
    BY DEF Types
  <2>1. ASSUME NEW r \in Results
        PROVE  /\ [local EXCEPT !.result = r] \in Locals
               /\ [local EXCEPT !.result = r, !.retire = TRUE, !.readiness_pending = FALSE]
                    \in Locals
    BY <2>0, <2>1 DEF Locals
  <2>2. /\ [local EXCEPT !.readiness_pending = FALSE] \in Locals
        /\ [local EXCEPT !.activated = TRUE] \in Locals
    BY <2>0 DEF Locals
  <2>3. [local EXCEPT !.tries = @ + 1] \in Locals
    BY <2>0 DEF Locals
  <2> QED
    BY <1>3, <2>0, <2>1, <2>2, <2>3
<1> QED
  BY <1>1, <1>2, <1>4 DEF Types, Stores

\* The steps of the other tasks.
LEMMA TasksTyped ==
  ASSUME Types, gen \in Gens,
         \/ Runtime \/ WorkerOpen \/ WorkerReady \/ BarrierReady \/ WorkerExit \/ ServiceExit
         \/ ReloadMarks \/ ReloadStops \/ Signal \/ Main
         \/ \E r \in Revisions : Apply(r) \/ ApplyLive(r)
  PROVE  Types'
<1>1. CASE Runtime
  BY <1>1 DEF Runtime, RuntimeStarted, RuntimeFails, RuntimeStops, RuntimeRetires, RetireServices,
              rest, Types, Runtimes, Gens
<1>2. CASE \E r \in Revisions : Apply(r) \/ ApplyLive(r)
  BY <1>2 DEF Apply, ApplyLive, Types, Stores, tasks
<1>3. CASE Abort
  BY <1>3 DEF Abort, Types, Runtimes
<1> QED
  BY <1>1, <1>2, <1>3
     DEF WorkerOpen, WorkerReady, BarrierReady, WorkerExit, ServiceExit, ReloadMarks, ReloadStops,
         Signal, Main, Join, TeardownTimeout, Releasable, rest, tasks, Types

\* Every step keeps the types.
LEMMA Typed == IInv /\ Types /\ [Next]_vars => Types'
<1>. SUFFICES ASSUME IInv, Types, [Next]_vars PROVE Types'
  OBVIOUS
<1>1. CASE Operation
  BY <1>1, OuterTyped, DriverTyped DEF Operation
<1>2. CASE UNCHANGED vars
  BY <1>2 DEF vars, tasks, Types
<1> QED
  BY <1>1, <1>2, TasksTyped DEF Next, IInv
-----------------------------------------------------------------------------
(* The committed generation *)

\* From readiness to activation, and everything before.
Committing == {"ready", "await_worker", "publish", "check", "recheck", "commit", "activate"}
Unactivated == {"top", "protect", "prepare"} \cup Committing

WholePlan == vpn.active /\ vpn.captures = 1 .. PublishSteps

\* A generation is committed once: readiness is seen once, the publication stays
\* whole until the store has committed, and the store's active document follows
\* the revision of the generation from then on.
CommitInv ==
  /\ gen.activated => pc \notin Unactivated
  /\ (gen.activated /\ pc = "select") \/ pc \in Committing => ~local.readiness_pending
  /\ pc \in {"check", "recheck"} => WholePlan
  /\ pc \in {"commit", "activate"} /\ managed => WholePlan
  /\ pc = "activate" => store.active = revision
  /\ ActivatedIsCommitted

\* A publication that succeeds has every step of the plan on the host.
LEMMA PublishWhole ==
  ASSUME NEW c, Owned(c), NEW p \in publish(c), p.ok
  PROVE  p.to.active /\ p.to.captures = 1 .. PublishSteps
<1> DEFINE first(n) == [c EXCEPT !.published = 1 .. n, !.captures = @ \cup 1 .. n]
           fails == UNION {RollbackPublished([first(n) EXCEPT !.faults = @ - 1])
                             : n \in {m \in 0 .. PublishSteps - 1 : c.faults > 0}}
           whole == [first(PublishSteps) EXCEPT !.active = TRUE]
<1>1. \/ publish(c) = Outcomes(FALSE, {c})
      \/ publish(c) = Outcomes(TRUE, {whole}) \cup Outcomes(FALSE, fails)
  BY DEF publish
<1>2. whole.active /\ whole.captures = 1 .. PublishSteps
  BY DEF Owned, Controllers
<1> HIDE DEF first, fails, whole
<1> QED
  BY <1>1, <1>2 DEF Outcomes

\* A failure elsewhere takes nothing from the host.
LEMMA SpendWhole ==
  ASSUME NEW c \in Controllers
  PROVE  LET d == [c EXCEPT !.faults = @ - 1]
         IN d.active = c.active /\ d.captures = c.captures
BY DEF Controllers

\* The control of a generation is activated by activate alone.
LEMMA ActivatedKept ==
  ASSUME NEW g \in Gens
  PROVE  /\ mark_stopping(g).activated = g.activated /\ mark_failed(g).activated = g.activated
         /\ request_shutdown(g).activated = g.activated
         /\ [g EXCEPT !.phase = "Ready"].activated = g.activated
         /\ [g EXCEPT !.stop = "Reload"].activated = g.activated
         /\ [g EXCEPT !.authorized = FALSE].activated = g.activated
BY DEF Gens, mark_stopping, mark_failed, request_shutdown

\* Where the operation neither commits nor drives, nothing is claimed of an
\* activated generation; before that there is none.
LEMMA Unclaimed ==
  ASSUME \/ pc' \in {"unpublish", "await_runtime", "cleanup", "terminal", "backoff",
                     "returned", "failed", "dropped"}
         \/ pc' \in {"top", "protect", "prepare", "select"} /\ ~gen'.activated
  PROVE  CommitInv'
BY DEF CommitInv, Unactivated, Committing, ActivatedIsCommitted

\* The steps of the operation outside its driver.
LEMMA OuterCommit ==
  ASSUME IInv, Types, CommitInv, Top \/ Protect \/ Prepare \/ Terminal \/ Backoff
  PROVE  CommitInv'
<1>0. pc \in {"top", "protect", "prepare"} => ~gen.activated
  BY DEF CommitInv, Unactivated
<1>1. ASSUME NEW r, NEW n, Restart(r, n)
      PROVE  CommitInv'
  BY <1>1, Unclaimed DEF Restart, NewGeneration
<1>2. CASE Top
  BY <1>0, <1>2, Unclaimed DEF Top, RollbackAndReturn, Rollback, StoreFails, Return, Goto
<1>3. CASE Protect
  BY <1>0, <1>3, Unclaimed DEF Protect, Goto
<1>4. CASE Prepare
  <2>1. gen' = gen \/ gen' = [gen EXCEPT !.authorized = FALSE]
    BY <1>4 DEF Prepare
  <2>2. ~gen'.activated /\ pc' \in {"select", "terminal"}
    BY <1>0, <1>4, <2>1, ActivatedKept DEF Prepare, StartRuntime, Goto, IInv
  <2> QED
    BY <2>2, Unclaimed
<1>5. CASE Terminal
  BY <1>1, <1>5, Unclaimed DEF Terminal, RollbackAndReturn, Rollback, StoreFails, Return, Goto
<1>6. CASE Backoff
  BY <1>1, <1>6, Unclaimed DEF Backoff, RollbackAndReturn, Rollback, StoreFails, Return, Goto
<1> QED
  BY <1>2, <1>3, <1>4, <1>5, <1>6

\* The steps of the driver.
LEMMA DriverCommit ==
  ASSUME IInv, Types, CommitInv,
         \/ RuntimeCompleted \/ SeeShutdown \/ SeeStop \/ SeeReadiness \/ Ready
         \/ AwaitWorker \/ Publish \/ CheckDevice \/ Recheck \/ Commit \/ Activate
         \/ Unpublish \/ AwaitRuntime \/ Cleanup
  PROVE  CommitInv'
<1>0. local \in Locals /\ gen \in Gens /\ Owned(vpn)
  BY DEF Types, IInv
<1>1. CASE pc' \in {"unpublish", "await_runtime", "cleanup", "terminal"}
  BY <1>1, Unclaimed
<1>2. CASE SeeReadiness
  <2>1. CASE pc' = "ready"
    <3>1. local' = [local EXCEPT !.readiness_pending = FALSE] /\ UNCHANGED gen
      BY <1>2, <2>1 DEF SeeReadiness, Retire, Goto
    <3>2. ~local'.readiness_pending
      BY <1>0, <3>1 DEF Locals
    <3>3. ~gen'.activated
      BY <1>2, <3>1 DEF SeeReadiness, CommitInv
    <3> QED
      BY <2>1, <3>2, <3>3 DEF CommitInv, Unactivated, Committing, ActivatedIsCommitted
  <2>2. CASE pc' = "select"
    <3>1. UNCHANGED <<gen, store, revision, vpn>> /\ ~local'.readiness_pending /\ pc = "select"
      BY <1>0, <1>2, <2>2 DEF SeeReadiness, Retire, Goto, Locals
    <3> QED
      BY <2>2, <3>1 DEF CommitInv, Unactivated, Committing, ActivatedIsCommitted, managed, WholePlan
  <2> QED
    BY <1>1, <1>2, <2>1, <2>2 DEF SeeReadiness, Retire, Goto
<1>3. CASE Ready
  BY <1>3 DEF Ready, Goto, CommitInv, Unactivated, Committing, ActivatedIsCommitted, managed
<1>4. CASE AwaitWorker
  BY <1>1, <1>4 DEF AwaitWorker, PublishFailed, Retire, Goto, CommitInv, Unactivated, Committing,
                    ActivatedIsCommitted
<1>5. CASE Publish
  <2>1. CASE pc' = "check"
    <3>1. PICK p \in publish(vpn) : p.ok /\ vpn' = p.to /\ UNCHANGED <<local, gen>>
      BY <1>5, <2>1 DEF Publish, PublishFailed, Retire, Goto
    <3>2. WholePlan'
      BY <1>0, <3>1, PublishWhole DEF WholePlan
    <3> QED
      BY <1>5, <2>1, <3>1, <3>2 DEF Publish, CommitInv, Unactivated, Committing, ActivatedIsCommitted
  <2> QED
    BY <1>1, <1>5, <2>1 DEF Publish, PublishFailed, Retire, Goto
<1>6. CASE CheckDevice \/ Recheck
  <2>1. CASE pc' \in {"recheck", "commit"}
    <3>1. pc \in {"check", "recheck"} /\ UNCHANGED <<local, gen, vpn, store, revision>>
      BY <1>6, <2>1 DEF CheckDevice, Recheck, PublishFailed, Retire, Goto
    <3>2. ~gen.activated /\ ~local.readiness_pending /\ WholePlan
      BY <3>1 DEF CommitInv, Unactivated, Committing
    <3>3. ~gen'.activated /\ ~local'.readiness_pending /\ WholePlan'
      BY <3>1, <3>2 DEF WholePlan
    <3> QED
      BY <2>1, <3>3 DEF CommitInv, Unactivated, Committing, ActivatedIsCommitted
  <2> QED
    BY <1>1, <1>6, <2>1 DEF CheckDevice, Recheck, PublishFailed, Retire, Goto
<1>7. CASE Commit
  <2>1. CASE pc' = "activate"
    <3>1. /\ UNCHANGED <<vpn, gen, revision>> /\ pc = "commit"
          /\ store'.active = revision
          /\ local' = [local EXCEPT !.activated = TRUE]
      BY <1>7, <2>1 DEF Commit, Retire, Goto
    <3>2. local'.readiness_pending = local.readiness_pending
      BY <1>0, <3>1 DEF Locals
    <3> QED
      BY <2>1, <3>1, <3>2 DEF CommitInv, Unactivated, Committing, ActivatedIsCommitted, managed,
                              WholePlan
  <2> QED
    BY <1>1, <1>7, <2>1 DEF Commit, Retire, Goto
<1>8. CASE Activate
  BY <1>8 DEF Activate, Goto, CommitInv, Unactivated, Committing, ActivatedIsCommitted, managed,
              WholePlan
<1>9. CASE Unpublish
  BY <1>1, <1>9 DEF Unpublish, Goto
<1>10. CASE AwaitRuntime \/ Cleanup
  BY <1>1, <1>10 DEF AwaitRuntime, Cleanup, Goto
<1> QED
  BY <1>1, <1>2, <1>3, <1>4, <1>5, <1>6, <1>7, <1>8, <1>9, <1>10
     DEF RuntimeCompleted, SeeShutdown, SeeStop, Retire, Goto

\* A step of another task, which activates nothing and leaves the store's active
\* document and the revision in step.
LEMMA ElsewhereCommit ==
  ASSUME CommitInv, gen'.activated = gen.activated, UNCHANGED <<pc, local>>, managed' = managed,
         vpn'.active = vpn.active, vpn'.captures = vpn.captures,
         \/ store'.active = store.active /\ UNCHANGED revision
         \/ store'.active = revision'
  PROVE  CommitInv'
BY DEF CommitInv, ActivatedIsCommitted, WholePlan

\* The steps of the other tasks.
LEMMA TasksCommit ==
  ASSUME IInv, Types, CommitInv,
         \/ Runtime \/ WorkerOpen \/ WorkerReady \/ BarrierReady \/ WorkerExit \/ ServiceExit
         \/ ReloadMarks \/ ReloadStops \/ Signal \/ Main
         \/ \E r \in Revisions : Apply(r) \/ ApplyLive(r)
  PROVE  CommitInv'
<1>0. gen \in Gens /\ vpn \in Controllers /\ store \in Stores
  BY DEF IInv, Owned, Types
<1>1. CASE Abort
  BY <1>1, Unclaimed DEF Abort, Ended
<1>2. CASE ~Abort
  <2>1. \/ gen' = gen \/ gen' = mark_failed(gen) \/ gen' = mark_stopping(gen)
        \/ gen' = [gen EXCEPT !.phase = "Ready"] \/ gen' = [gen EXCEPT !.stop = "Reload"]
    BY <1>2
       DEF Runtime, RuntimeStarted, RuntimeFails, RuntimeStops, RuntimeRetires, RetireServices,
           WorkerOpen, WorkerReady, BarrierReady, WorkerExit, ServiceExit, ReloadMarks,
           ReloadStops, Signal, Main, Join, TeardownTimeout, Releasable, Apply, ApplyLive
  <2>2. gen'.activated = gen.activated
    BY <1>0, <2>1, ActivatedKept
  <2>3. UNCHANGED <<pc, local>> /\ (vpn' = vpn \/ vpn' = [vpn EXCEPT !.faults = @ - 1])
    BY <1>2
       DEF Runtime, RuntimeStarted, RuntimeFails, RuntimeStops, RuntimeRetires, rest,
           WorkerOpen, WorkerReady, BarrierReady, WorkerExit, ServiceExit, ReloadMarks,
           ReloadStops, Signal, Main, Join, TeardownTimeout, Releasable, Apply, ApplyLive
  <2>4. vpn'.active = vpn.active /\ vpn'.captures = vpn.captures
    BY <1>0, <2>3, SpendWhole
  <2>5. CASE \E r \in Revisions : Apply(r) \/ ApplyLive(r)
    BY <1>0, <2>2, <2>3, <2>4, <2>5, ElsewhereCommit DEF Apply, ApplyLive, Stores, managed
  <2>6. CASE UNCHANGED <<store, revision>>
    BY <2>2, <2>3, <2>4, <2>6, ElsewhereCommit DEF managed
  <2> QED
    BY <1>2, <2>5, <2>6
       DEF Runtime, RuntimeStarted, RuntimeFails, RuntimeStops, RuntimeRetires, rest,
           WorkerOpen, WorkerReady, BarrierReady, WorkerExit, ServiceExit, ReloadMarks,
           ReloadStops, Signal, Main, Join, TeardownTimeout, Releasable
<1> QED
  BY <1>1, <1>2

\* activate_ready_generation follows the publication and the store's commit: for
\* every plan, a generation that is activated and in service runs the active
\* document, with the whole plan on the host if it is managed.
THEOREM ActivatedIsCommittedHolds == Spec => []ActivatedIsCommitted
<1>1. Init => Types /\ CommitInv
  BY NewLocalTyped DEF Init, Types, Stores, Runtimes, NoRuntime, CommitInv, Unactivated,
                       Committing, ActivatedIsCommitted, NewGeneration
<1>2. IInv /\ Types /\ CommitInv /\ [Next]_vars => Types' /\ CommitInv'
  <2>. SUFFICES ASSUME IInv, Types, CommitInv, [Next]_vars PROVE CommitInv'
    BY Typed
  <2>1. CASE Operation
    BY <2>1, OuterCommit, DriverCommit DEF Operation
  <2>2. CASE UNCHANGED vars
    BY <2>2 DEF vars, CommitInv, ActivatedIsCommitted, managed, WholePlan
  <2> QED
    BY <2>1, <2>2, TasksCommit DEF Next
<1>3. CommitInv => ActivatedIsCommitted
  BY DEF CommitInv
<1> QED
  BY Invariance, <1>1, <1>2, <1>3, PTL DEF Spec

------------------------------------------------------------------------------
(* What an operation that returns has left behind: no candidate, and nothing *)
(* on the host beyond what failed                                           *)

\* Until a failure has happened the journal accounts for all that is prepared;
\* and, outside a generation, there is nothing.
Tidy(c) == c.faults \in 0 .. MaxFaults /\ (c.faults = MaxFaults => c.inert \subseteq c.prepared)
Bare(c) == c.faults \in 0 .. MaxFaults /\ (c.faults = MaxFaults => c.inert = {})

\* A host without anything prepared is tidy, and so is one whose failures grew
\* in number while nothing was prepared or undone.
LEMMA TidyFacts ==
  /\ MaxFaults \in Nat
  /\ \A c : Bare(c) => Tidy(c)
  /\ \A c : Tidy(c) /\ c.prepared = {} => Bare(c)
  /\ \A c, u : Tidy(c) /\ u.faults \in 0 .. c.faults /\ u.inert = c.inert /\ u.prepared = c.prepared
                 => Tidy(u)
  /\ \A c, u : Bare(c) /\ u.faults \in 0 .. c.faults /\ u.inert = c.inert => Bare(u)
  /\ \A c : Bare(c) => Bare(reset_idle(c))
BY GenerationInputs DEF Tidy, Bare, reset_idle, NewController

\* A step that could not be undone is a failure.
LEMMA ResidualCosts ==
  ASSUME NEW n \in Nat, NEW applied \in SUBSET (1 .. n), NEW faults \in Nat,
         NEW residual \in rollback_steps(applied, faults)
  PROVE  /\ faults - Cardinality(residual) \in 0 .. faults
         /\ faults - Cardinality(residual) = faults => residual = {}
<1>1. residual \subseteq applied /\ Cardinality(residual) <= faults
  BY DEF rollback_steps
<1>2. IsFiniteSet(residual)
  <2>1. IsFiniteSet(1 .. n)
    BY FS_Interval
  <2> QED
    BY <1>1, <2>1, FS_Subset
<1>3. Cardinality(residual) \in Nat /\ (Cardinality(residual) = 0 => residual = {})
  BY <1>2, FS_CardinalityType, FS_EmptySet
<1> QED
  BY <1>1, <1>3

\* The reversal of the published steps leaves the prepared ones.
LEMMA RollbackPublishedCosts ==
  ASSUME NEW c \in Controllers, c.faults \in Nat, NEW u \in RollbackPublished(c)
  PROVE  u.faults \in 0 .. c.faults /\ u.inert = c.inert /\ u.prepared = c.prepared
<1>1. PICK residual \in rollback_steps(c.published, c.faults) :
        u = [c EXCEPT !.published = residual, !.captures = (@ \ c.published) \cup residual,
                      !.faults = @ - Cardinality(residual)]
  BY DEF RollbackPublished
<1>2. u.faults = c.faults - Cardinality(residual) /\ u.inert = c.inert /\ u.prepared = c.prepared
  BY <1>1 DEF Controllers
<1>3. PublishSteps \in Nat /\ c.published \in SUBSET (1 .. PublishSteps)
  BY PlanInputs DEF Controllers
<1>4. c.faults - Cardinality(residual) \in 0 .. c.faults
  BY <1>1, <1>3, ResidualCosts
<1> QED
  BY <1>2, <1>4

\* The reversal of the prepared steps undoes them all, or costs a failure.
LEMMA RollbackPreparedCosts ==
  ASSUME NEW c \in Controllers, c.faults \in Nat, NEW u \in RollbackPrepared(c)
  PROVE  /\ u.faults \in 0 .. c.faults
         /\ u.faults = c.faults => u.inert = c.inert \ c.prepared
<1>1. PICK residual \in rollback_steps(c.prepared, c.faults) :
        u = [c EXCEPT !.prepared = residual, !.inert = (@ \ c.prepared) \cup residual,
                      !.faults = @ - Cardinality(residual)]
  BY DEF RollbackPrepared
<1>2. u.faults = c.faults - Cardinality(residual) /\ u.inert = (c.inert \ c.prepared) \cup residual
  BY <1>1 DEF Controllers
<1>3. PrepareSteps \in Nat /\ c.prepared \in SUBSET (1 .. PrepareSteps)
  BY PlanInputs DEF Controllers
<1>4. /\ c.faults - Cardinality(residual) \in 0 .. c.faults
      /\ c.faults - Cardinality(residual) = c.faults => residual = {}
  BY <1>1, <1>3, ResidualCosts
<1> QED
  BY <1>2, <1>4

\* cleanup leaves nothing, or has met a failure.
LEMMA CleanupBare ==
  ASSUME NEW c, Still(c), Tidy(c), NEW r \in cleanup(c)
  PROVE  Bare(r.to)
<1> DEFINE d == [c EXCEPT !.active = FALSE, !.complete = FALSE]
           clean(u) == u.published = {} /\ u.prepared = {}
<1>1. d \in Controllers /\ d.faults = c.faults /\ d.inert = c.inert /\ d.prepared = c.prepared
      /\ d.captures \subseteq d.published
  BY DEF Still, Controllers
<1>2. PICK p \in RollbackPublished(d) : \E u \in RollbackPrepared(p) :
        r = [ok |-> clean(u), to |-> IF clean(u) THEN reset_idle(u) ELSE u]
  BY DEF cleanup
<1>3. PICK u \in RollbackPrepared(p) :
        r = [ok |-> clean(u), to |-> IF clean(u) THEN reset_idle(u) ELSE u]
  BY <1>2
<1> HIDE DEF d
<1>4. c.faults \in 0 .. MaxFaults /\ MaxFaults \in Nat
  BY TidyFacts DEF Tidy
<1>5. p.faults \in 0 .. c.faults /\ p.inert = c.inert /\ p.prepared = c.prepared
  BY <1>1, <1>4, RollbackPublishedCosts
<1>6. p \in Controllers
  BY <1>1, RollbackPublishedOwned
<1>7. u.faults \in 0 .. p.faults /\ (u.faults = p.faults => u.inert = c.inert \ c.prepared)
  BY <1>4, <1>5, <1>6, RollbackPreparedCosts
<1>8. Bare(u)
  BY <1>4, <1>5, <1>7 DEF Tidy, Bare
<1> QED
  BY <1>3, <1>8, TidyFacts

\* So does the cleanup after a failed preparation.
LEMMA FailedBare ==
  ASSUME NEW f, Still(f), Tidy(f),
         NEW g \in IF controller_state(f) = "Idle" THEN {f} ELSE {r.to : r \in cleanup(f)}
  PROVE  Bare(g)
<1>1. CASE controller_state(f) = "Idle"
  <2>1. f.prepared = {}
    BY <1>1 DEF controller_state, Still, Controllers
  <2> QED
    BY <1>1, <2>1, TidyFacts
<1>2. CASE controller_state(f) # "Idle"
  BY <1>2, CleanupBare
<1> QED
  BY <1>1, <1>2

\* A preparation that succeeds has all of its steps in the journal.
LEMMA PrepareTidy ==
  ASSUME NEW c, Quiet(c), Tidy(c), NEW p \in prepare(c)
  PROVE  Tidy(p.to)
<1> DEFINE first(n) == [c EXCEPT !.planned = TRUE, !.prepared = 1 .. n, !.inert = @ \cup 1 .. n]
           failed(n) == [first(n) EXCEPT !.faults = @ - 1]
           whole == [first(PrepareSteps) EXCEPT !.complete = TRUE]
<1>0. /\ c \in Controllers /\ c.faults \in 0 .. MaxFaults /\ MaxFaults \in Nat
      /\ PrepareSteps \in Nat \ {0}
  BY TidyFacts, PlanInputs DEF Quiet, Owned, Tidy
<1>1. CASE p = [ok |-> FALSE, to |-> c]
  BY <1>1
<1>2. CASE p = [ok |-> TRUE, to |-> whole]
  <2>1. /\ whole.faults = c.faults /\ whole.prepared = 1 .. PrepareSteps
        /\ whole.inert = c.inert \cup 1 .. PrepareSteps
    BY <1>0 DEF Controllers
  <2>2. c.inert \subseteq 1 .. PrepareSteps
    BY <1>0 DEF Controllers
  <2> HIDE DEF whole
  <2> QED
    BY <1>0, <1>2, <2>1, <2>2 DEF Tidy
<1>3. ASSUME NEW n \in 0 .. PrepareSteps - 1, c.faults > 0, NEW f \in RollbackPrepared(failed(n)),
             p = [ok |-> FALSE, to |-> IF f.prepared = {} THEN reset_idle(f) ELSE f]
      PROVE  Tidy(p.to)
  <2>1. 1 .. n \in SUBSET (1 .. PrepareSteps) /\ c.inert \cup 1 .. n \in SUBSET (1 .. PrepareSteps)
    BY <1>0 DEF Controllers
  <2>2. first(n) \in Controllers /\ first(n).faults = c.faults
    BY <1>0, <2>1 DEF Controllers
  <2> HIDE DEF first
  <2>3. failed(n) \in Controllers /\ failed(n).faults = c.faults - 1
    BY <2>2 DEF Controllers
  <2> HIDE DEF failed
  <2>4. f.faults \in 0 .. c.faults - 1
    BY <1>0, <1>3, <2>3, RollbackPreparedCosts
  <2>5. Bare(f)
    BY <1>0, <2>4 DEF Bare
  <2> QED
    BY <1>3, <2>5, TidyFacts
<1> QED
  BY <1>1, <1>2, <1>3 DEF prepare, Outcomes

\* The preparation of a generation: tidy when it succeeds, undone when it fails.
LEMMA HostPrepareTidy ==
  ASSUME NEW c, Quiet(c), Tidy(c), NEW r \in HostPrepare(c)
  PROVE  Tidy(r.to) /\ (~r.ok => Bare(r.to))
<1> DEFINE failed(f) == IF controller_state(f) = "Idle" THEN {f} ELSE {x.to : x \in cleanup(f)}
<1>1. PICK p \in prepare(c) :
        \/ ~p.ok /\ \E g \in failed(p.to) : r = [ok |-> FALSE, to |-> g]
        \/ /\ p.ok
           /\ \E t \in take_prepared_device(p.to) :
                \/ t.ok /\ r = [ok |-> TRUE, to |-> t.to]
                \/ ~t.ok /\ \E g \in failed(t.to) : r = [ok |-> FALSE, to |-> g]
  BY DEF HostPrepare, Outcomes
<1>2. Still(p.to) /\ (p.ok => Quiet(p.to)) /\ Tidy(p.to)
  BY PrepareStill, PrepareTidy
<1>3. CASE ~p.ok
  <2>1. PICK g \in failed(p.to) : r = [ok |-> FALSE, to |-> g]
    BY <1>1, <1>3
  <2>2. Bare(g)
    BY <1>2, FailedBare
  <2>. HIDE DEF failed
  <2>. QED
    BY <2>1, <2>2, TidyFacts
<1>4. CASE p.ok
  <2>1. PICK t \in take_prepared_device(p.to) :
          \/ t.ok /\ r = [ok |-> TRUE, to |-> t.to]
          \/ ~t.ok /\ \E g \in failed(t.to) : r = [ok |-> FALSE, to |-> g]
    BY <1>1, <1>4
  <2>2. Quiet(t.to) /\ Still(t.to)
    BY <1>2, <1>4, TakeQuiet, QuietStill
  <2>3. /\ t.to.faults = p.to.faults \/ (p.to.faults > 0 /\ t.to.faults = p.to.faults - 1)
        /\ t.to.inert = p.to.inert /\ t.to.prepared = p.to.prepared
    BY <1>2 DEF take_prepared_device, Outcomes, Still, Controllers
  <2>4. Tidy(t.to)
    <3>1. p.to.faults \in 0 .. MaxFaults /\ MaxFaults \in Nat
      BY <1>2, TidyFacts DEF Tidy
    <3>2. t.to.faults \in 0 .. p.to.faults
      BY <2>3, <3>1
    <3> QED
      BY <1>2, <2>3, <3>2, TidyFacts
  <2>5. CASE t.ok
    BY <2>1, <2>4, <2>5
  <2>6. CASE ~t.ok
    <3>1. PICK g \in failed(t.to) : r = [ok |-> FALSE, to |-> g]
      BY <2>1, <2>6
    <3>2. Bare(g)
      BY <2>2, <2>4, FailedBare
    <3>. HIDE DEF failed
    <3>. QED
      BY <3>1, <3>2, TidyFacts
  <2> QED
    BY <2>5, <2>6
<1> QED
  BY <1>3, <1>4

\* publish and unpublish leave the prepared steps alone.
LEMMA PublicationTidy ==
  ASSUME NEW c, Owned(c), Tidy(c), NEW p \in publish(c) \cup unpublish(c)
  PROVE  Tidy(p.to)
<1> DEFINE first(n) == [c EXCEPT !.published = 1 .. n, !.captures = @ \cup 1 .. n]
           failed(n) == [first(n) EXCEPT !.faults = @ - 1]
           whole == [first(PublishSteps) EXCEPT !.active = TRUE]
           idle == [c EXCEPT !.active = FALSE]
<1>0. /\ c \in Controllers /\ c.faults \in 0 .. MaxFaults /\ MaxFaults \in Nat
      /\ PublishSteps \in Nat \ {0}
  BY TidyFacts, PlanInputs DEF Owned, Tidy
<1>1. CASE p = [ok |-> FALSE, to |-> c]
  BY <1>1
<1>2. CASE p = [ok |-> TRUE, to |-> whole]
  <2>1. whole.faults = c.faults /\ whole.prepared = c.prepared /\ whole.inert = c.inert
    BY <1>0 DEF Controllers
  <2> HIDE DEF whole
  <2> QED
    BY <1>0, <1>2, <2>1 DEF Tidy
<1>3. ASSUME NEW n \in 0 .. PublishSteps - 1, c.faults > 0, NEW f \in RollbackPublished(failed(n)),
             p = [ok |-> FALSE, to |-> f]
      PROVE  Tidy(p.to)
  <2>1. /\ 1 .. n \in SUBSET (1 .. PublishSteps)
        /\ c.captures \cup 1 .. n \in SUBSET (1 .. PublishSteps)
    BY <1>0 DEF Controllers
  <2>2. first(n) \in Controllers /\ first(n).faults = c.faults
    BY <1>0, <2>1 DEF Controllers
  <2> HIDE DEF first
  <2>3. failed(n) \in Controllers /\ failed(n).faults = c.faults - 1
    BY <2>2 DEF Controllers
  <2> HIDE DEF failed
  <2>4. f.faults \in 0 .. c.faults - 1
    BY <1>0, <1>3, <2>3, RollbackPublishedCosts
  <2> QED
    BY <1>0, <1>3, <2>4 DEF Tidy
<1>4. ASSUME NEW f \in RollbackPublished(idle), p.to = f
      PROVE  Tidy(p.to)
  <2>1. /\ idle \in Controllers /\ idle.faults = c.faults /\ idle.inert = c.inert
        /\ idle.prepared = c.prepared
    BY <1>0 DEF Controllers
  <2> HIDE DEF idle
  <2>2. f.faults \in 0 .. c.faults /\ f.inert = c.inert /\ f.prepared = c.prepared
    BY <1>0, <1>4, <2>1, RollbackPublishedCosts
  <2> QED
    BY <1>4, <2>2, TidyFacts
<1>5. CASE p \in publish(c)
  BY <1>1, <1>2, <1>3, <1>5 DEF publish, Outcomes
<1>6. CASE p \in unpublish(c)
  <2>1. \/ unpublish(c) = Outcomes(FALSE, {c})
        \/ unpublish(c) = {[ok |-> u.published = {}, to |-> u] : u \in RollbackPublished(idle)}
    BY DEF unpublish
  <2> HIDE DEF idle
  <2>2. p = [ok |-> FALSE, to |-> c] \/ \E u \in RollbackPublished(idle) : p.to = u
    BY <1>6, <2>1 DEF Outcomes
  <2> QED
    BY <1>1, <1>4, <2>2
<1> QED
  BY <1>5, <1>6
-----------------------------------------------------------------------------
(* The operation's return *)

Workers ==
  [state : {"none", "spawned", "open", "ready", "gone"}, signal : {"closed", "waiting", "sent"}]

TaskTypes ==
  /\ main \in {"running", "stopping", "preserving", "aborting", "exited"}
  /\ requested \in BOOLEAN /\ guarded \in BOOLEAN /\ exited \in BOOLEAN
  /\ worker \in Workers

\* Where the operation has no generation.
Outside == {"top", "protect", "prepare", "terminal", "backoff", "returned", "failed"}

\* Outside a generation no service runs, so no document is applied any more, and
\* the host is bare, as it is for a generation that is not managed; a cleanup
\* comes after the worker has gone.
CleanInv ==
  /\ TaskTypes
  /\ Tidy(vpn)
  /\ pc \in Outside \/ ~managed => Bare(vpn)
  /\ pc \in Outside => ~Serving
  /\ pc = "cleanup" => rt.state = "done"
  /\ pc = "unpublish" /\ ~local.retire => rt.state = "done"
  /\ rt.state = "done" => ~device_live
  /\ pc = "returned" => store.pending = None

\* Every step keeps the types of the process and its tasks.
LEMMA TaskTyped == TaskTypes /\ [Next]_vars => TaskTypes'
<1>. SUFFICES ASSUME TaskTypes, [Next]_vars PROVE TaskTypes'
  OBVIOUS
<1>1. CASE Operation
  <2>1. /\ UNCHANGED <<main, requested>>
        /\ guarded' = guarded \/ guarded' = TRUE \/ guarded' = FALSE
        /\ exited' = exited \/ exited' = FALSE
        /\ \/ worker' = worker \/ worker' = NoWorker
           \/ worker' = [state |-> "spawned", signal |-> "waiting"]
    BY <1>1
       DEF Operation, Top, Protect, Prepare, StartRuntime, RuntimeCompleted, SeeShutdown, SeeStop,
           SeeReadiness, Ready, AwaitWorker, Publish, CheckDevice, Recheck, Commit, Activate,
           Unpublish, AwaitRuntime, Cleanup, Terminal, Backoff, RollbackAndReturn, Rollback,
           StoreFails, Restart, Return, process, tasks
  <2>2. worker' \in Workers
    BY <2>1 DEF TaskTypes, Workers, NoWorker
  <2>3. guarded' \in BOOLEAN /\ exited' \in BOOLEAN
    BY <2>1 DEF TaskTypes
  <2> QED
    BY <2>1, <2>2, <2>3 DEF TaskTypes
<1>2. CASE Runtime
  BY <1>2 DEF Runtime, RuntimeStarted, RuntimeFails, RuntimeStops, RuntimeRetires, RetireServices,
              rest, process, TaskTypes, Workers
<1>3. CASE \/ WorkerOpen \/ WorkerReady \/ BarrierReady \/ WorkerExit \/ ServiceExit
           \/ ReloadMarks \/ ReloadStops \/ \E r \in Revisions : Apply(r) \/ ApplyLive(r)
  <2>1. /\ UNCHANGED <<main, requested, guarded>>
        /\ exited' = exited \/ exited' = TRUE
        /\ \/ worker' = worker \/ worker' = [worker EXCEPT !.state = "open"]
           \/ worker' = [state |-> "ready", signal |-> "sent"]
           \/ worker' = [state |-> "gone",
                         signal |-> IF worker.signal = "waiting" THEN "closed" ELSE worker.signal]
    BY <1>3 DEF WorkerOpen, WorkerReady, BarrierReady, WorkerExit, ServiceExit, ReloadMarks,
                ReloadStops, Apply, ApplyLive, rest, process, tasks
  <2>2. worker' \in Workers
    BY <2>1 DEF TaskTypes, Workers
  <2>3. exited' \in BOOLEAN
    BY <2>1 DEF TaskTypes
  <2> QED
    BY <2>1, <2>2, <2>3 DEF TaskTypes
<1>4. CASE Signal \/ Main
  <2>1. /\ main' \in {main, "stopping", "preserving", "aborting", "exited"}
        /\ requested' = requested \/ requested' = TRUE
        /\ UNCHANGED <<guarded, exited>>
        /\ \/ worker' = worker
           \/ worker' = [state |-> IF worker.state = "none" THEN "none" ELSE "gone",
                         signal |-> "closed"]
    BY <1>4 DEF Signal, Main, Join, TeardownTimeout, Releasable, Abort, tasks
  <2>2. worker' \in Workers
    BY <2>1 DEF TaskTypes, Workers
  <2>3. requested' \in BOOLEAN
    BY <2>1 DEF TaskTypes
  <2> QED
    BY <2>1, <2>2, <2>3 DEF TaskTypes
<1>5. CASE UNCHANGED vars
  BY <1>5 DEF vars, process, tasks, TaskTypes
<1> QED
  BY <1>1, <1>2, <1>3, <1>4, <1>5 DEF Next

\* A step from outside a generation to outside one, which undoes nothing.
LEMMA StaysOutside ==
  ASSUME CleanInv, TaskTypes', pc \in Outside, pc' \in Outside,
         Bare(vpn'), rt' = rt \/ rt' = NoRuntime, UNCHANGED worker \/ rt' = NoRuntime,
         pc' = "returned" => store'.pending = None
  PROVE  CleanInv'
<1>1. ~Serving /\ (rt.state = "done" => ~device_live)
  BY DEF CleanInv
<1>2. ~Serving' /\ (rt'.state = "done" => ~device_live')
  BY <1>1 DEF Serving, NoRuntime, device_live
<1>3. Tidy(vpn')
  BY TidyFacts
<1> QED
  BY <1>2, <1>3 DEF CleanInv, Outside

\* A failure that is neither of the host nor of a generation.
LEMMA SpendBare ==
  ASSUME NEW c \in Controllers, c.faults > 0, NEW d, d = [c EXCEPT !.faults = @ - 1]
  PROVE  (Bare(c) => Bare(d)) /\ (Tidy(c) => Tidy(d))
<1>1. d.faults = c.faults - 1 /\ d.inert = c.inert /\ d.prepared = c.prepared
  BY DEF Controllers
<1>2. ASSUME c.faults \in 0 .. MaxFaults
      PROVE  d.faults \in 0 .. c.faults
  BY <1>1, <1>2, TidyFacts
<1> QED
  BY <1>1, <1>2, TidyFacts DEF Bare, Tidy

\* The steps of the operation outside its driver.
LEMMA OuterClean ==
  ASSUME IInv, Types, CleanInv, TaskTypes', Top \/ Protect \/ Prepare \/ Terminal \/ Backoff
  PROVE  CleanInv'
<1>0. vpn \in Controllers /\ store \in Stores /\ pc \in Outside /\ Bare(vpn) /\ Tidy(vpn)
  BY DEF IInv, Owned, Types, Top, Protect, Prepare, Terminal, Backoff, Outside, CleanInv
<1>1. CASE Prepare
  <2>0. StartRuntime => pc' = "select" /\ rt'.state = "starting"
    BY DEF StartRuntime, Goto
  <2>1. CASE ~managed
    <3>1. vpn' = vpn /\ StartRuntime
      BY <1>1, <2>1 DEF Prepare
    <3> QED
      BY <1>0, <2>0, <3>1 DEF CleanInv, Outside
  <2>2. CASE managed
    <3>1. PICK p \in HostPrepare(vpn) \cup Outcomes(FALSE, {vpn}) :
            \/ p.ok /\ vpn' = p.to /\ StartRuntime
            \/ ~p.ok /\ vpn' = reset_idle(p.to) /\ pc' = "terminal" /\ UNCHANGED tasks
      BY <1>1, <2>2 DEF Prepare, Goto
    <3>2. Quiet(vpn)
      BY <1>1 DEF Prepare, IInv, Driving, Quiet
    <3>3. Tidy(p.to) /\ (~p.ok => Bare(p.to))
      BY <1>0, <3>2, HostPrepareTidy DEF Outcomes
    <3>4. CASE p.ok
      <4>1. managed'
        BY <1>1, <2>2 DEF Prepare, managed
      <4> QED
        BY <2>0, <3>1, <3>3, <3>4, <4>1 DEF CleanInv, Outside
    <3>5. CASE ~p.ok
      <4>1. Bare(vpn') /\ pc' = "terminal" /\ UNCHANGED <<rt, worker>>
        BY <3>1, <3>3, <3>5, TidyFacts DEF tasks
      <4> QED
        BY <1>0, <4>1, StaysOutside DEF Outside
    <3> QED
      BY <3>4, <3>5
  <2> QED
    BY <2>1, <2>2
<1>2. CASE ~Prepare
  <2>1. /\ pc' \in Outside
        /\ vpn' = vpn \/ (vpn.faults > 0 /\ vpn' = [vpn EXCEPT !.faults = @ - 1])
        /\ rt' = NoRuntime \/ UNCHANGED <<rt, worker>>
    BY <1>2 DEF Top, Protect, Terminal, Backoff, RollbackAndReturn, Rollback, StoreFails, Restart,
                Return, Goto, Outside, tasks
  <2>2. pc' = "returned" => store'.pending = None
    <3>1. pc' = "returned" => \/ store.pending = None /\ store' = store
                              \/ store' = [store EXCEPT !.pending = None]
      BY <1>2 DEF Top, Protect, Terminal, Backoff, RollbackAndReturn, Rollback, StoreFails, Restart,
                  Return, Goto
    <3> QED
      BY <1>0, <3>1 DEF Stores
  <2>3. Bare(vpn')
    BY <1>0, <2>1, SpendBare
  <2> QED
    BY <1>0, <2>1, <2>2, <2>3, StaysOutside
<1> QED
  BY <1>1, <1>2

\* The steps of the driver and of the retirement.
LEMMA DriverClean ==
  ASSUME IInv, Types, CleanInv, TaskTypes',
         \/ RuntimeCompleted \/ SeeShutdown \/ SeeStop \/ SeeReadiness \/ Ready
         \/ AwaitWorker \/ Publish \/ CheckDevice \/ Recheck \/ Commit \/ Activate
         \/ Unpublish \/ AwaitRuntime \/ Cleanup
  PROVE  CleanInv'
<1>0. /\ vpn \in Controllers /\ Owned(vpn) /\ Tidy(vpn) /\ local \in Locals
      /\ UNCHANGED <<rt, worker>>
  BY DEF IInv, Owned, Types, CleanInv, RuntimeCompleted, SeeShutdown, SeeStop, SeeReadiness, Ready,
         AwaitWorker, Publish, CheckDevice, Recheck, Commit, Activate, Unpublish, AwaitRuntime,
         Cleanup, tasks
<1>1. rt'.state = "done" => ~device_live'
  BY <1>0 DEF CleanInv, device_live
<1>2. CASE Cleanup
  <2>1. ~device_live /\ vpn.published = {} /\ rt.state = "done"
    BY <1>2 DEF Cleanup, CleanInv, IInv, Driving
  <2>2. Still(vpn)
    BY <1>0, <2>1 DEF Still, Owned
  <2>3. PICK c \in IF controller_state(vpn) = "Idle" THEN Outcomes(TRUE, {vpn}) ELSE cleanup(vpn) :
          /\ vpn' = c.to \/ vpn' = reset_idle(c.to)
          /\ pc' \in {"terminal", "cleanup"}
    BY <1>2, <2>1 DEF Cleanup, Goto
  <2>4. Bare(c.to)
    <3>1. CASE controller_state(vpn) = "Idle"
      <4>1. Bare(vpn)
        BY <1>0, <2>2, <3>1, FailedBare
      <4> QED
        BY <2>3, <3>1, <4>1 DEF Outcomes
    <3>2. CASE controller_state(vpn) # "Idle"
      BY <1>0, <2>2, <2>3, <3>2, CleanupBare
    <3> QED
      BY <3>1, <3>2
  <2>5. Bare(vpn') /\ Tidy(vpn')
    BY <2>3, <2>4, TidyFacts
  <2>6. rt'.state = "done" /\ ~Serving'
    BY <1>0, <2>1 DEF Serving
  <2> QED
    BY <1>1, <2>3, <2>5, <2>6 DEF CleanInv, Outside
<1>3. CASE ~Cleanup
  <2>0. managed' = managed
    BY <1>3
       DEF RuntimeCompleted, SeeShutdown, SeeStop, SeeReadiness, Ready, AwaitWorker, Publish,
           CheckDevice, Recheck, Commit, Activate, Unpublish, AwaitRuntime, managed
  <2>1. Tidy(vpn') /\ (~managed => Bare(vpn'))
    <3>1. \/ vpn' = vpn
          \/ vpn.faults > 0 /\ vpn' = [vpn EXCEPT !.faults = @ - 1]
          \/ managed /\ \E p \in publish(vpn) \cup unpublish(vpn) : vpn' = p.to
      BY <1>3
         DEF RuntimeCompleted, SeeShutdown, SeeStop, SeeReadiness, Ready, AwaitWorker, Publish,
             CheckDevice, Recheck, Commit, Activate, Unpublish, AwaitRuntime, IInv
    <3>2. ~managed => Bare(vpn)
      BY DEF CleanInv
    <3> QED
      BY <1>0, <3>1, <3>2, SpendBare, PublicationTidy
  <2>2. CASE pc' \in {"select", "ready", "await_worker", "publish", "check", "recheck", "commit",
                      "activate", "await_runtime"}
    BY <1>1, <2>0, <2>1, <2>2 DEF CleanInv, Outside
  <2>3. CASE pc' \in {"cleanup", "terminal"} /\ rt'.state = "done" /\ (pc' = "terminal" => ~managed)
    BY <1>1, <2>0, <2>1, <2>3 DEF CleanInv, Outside, Serving
  <2>4. CASE pc' = "unpublish" /\ (local'.retire \/ rt'.state = "done")
    BY <1>1, <2>0, <2>1, <2>4 DEF CleanInv, Outside
  <2>5. CASE RuntimeCompleted \/ AwaitRuntime
    BY <1>0, <2>3, <2>4, <2>5 DEF RuntimeCompleted, AwaitRuntime, Goto
  <2>6. CASE Unpublish
    <3>1. ~local.retire => rt'.state = "done"
      BY <1>0, <2>6 DEF Unpublish, CleanInv
    <3>2. \/ pc' = "await_runtime" \/ (pc' = "cleanup" /\ ~local.retire)
          \/ pc' = "unpublish" /\ local' = local
      BY <2>6 DEF Unpublish, Goto
    <3> QED
      BY <2>2, <2>3, <2>4, <3>1, <3>2
  <2>7. ASSUME NEW result, Retire(result)
        PROVE  CleanInv'
    <3>1. local'.retire
      BY <1>0, <2>7 DEF Retire, Locals
    <3> QED
      BY <2>2, <2>4, <2>7, <3>1 DEF Retire, Goto
  <2>8. CASE Ready \/ Activate
    BY <2>2, <2>8 DEF Ready, Activate, Goto
  <2>9. CASE SeeShutdown \/ SeeStop \/ SeeReadiness \/ Recheck
    BY <2>2, <2>7, <2>9 DEF SeeShutdown, SeeStop, SeeReadiness, Recheck, Goto
  <2>10. CASE AwaitWorker \/ Publish \/ CheckDevice \/ Commit
    BY <2>2, <2>7, <2>10 DEF AwaitWorker, Publish, CheckDevice, Commit, PublishFailed, Goto
  <2> QED
    BY <1>3, <2>5, <2>6, <2>8, <2>9, <2>10
<1> QED
  BY <1>2, <1>3

\* The steps of the other tasks.
LEMMA TasksClean ==
  ASSUME IInv, Types, CleanInv, TaskTypes',
         \/ Runtime \/ WorkerOpen \/ WorkerReady \/ BarrierReady \/ WorkerExit \/ ServiceExit
         \/ ReloadMarks \/ ReloadStops \/ Signal \/ Main
         \/ \E r \in Revisions : Apply(r) \/ ApplyLive(r)
  PROVE  CleanInv'
<1>0. vpn \in Controllers /\ rt \in Runtimes /\ worker \in Workers
  BY DEF IInv, Owned, Types, CleanInv, TaskTypes
<1>1. CASE Runtime
  <2>1. UNCHANGED <<pc, local, store, revision, vpn>> /\ pc \in {"select", "await_runtime"}
    BY <1>1 DEF Runtime, RuntimeStarted, RuntimeFails, RuntimeStops, RuntimeRetires, Polled, rest
  <2>2. rt'.state = "done" => ~device_live'
    BY <1>0, <1>1 DEF Runtime, RuntimeStarted, RuntimeFails, RuntimeStops, RuntimeRetires,
                      RetireServices, device_live, Runtimes
  <2> QED
    BY <2>1, <2>2 DEF CleanInv, Outside, managed
<1>2. CASE Abort
  <2>1. UNCHANGED <<vpn, revision, store>> /\ rt'.state = "none" /\ ~Serving'
    BY <1>0, <1>2 DEF Abort, Runtimes, Serving
  <2>2. pc' = "dropped" \/ (pc' = pc /\ pc \in {"returned", "failed", "dropped"})
    BY <1>2 DEF Abort, Ended
  <2> QED
    BY <2>1, <2>2 DEF CleanInv, Outside, managed
<1>3. CASE \/ WorkerOpen \/ WorkerReady \/ BarrierReady \/ WorkerExit \/ ServiceExit
           \/ \E r \in Revisions : Apply(r) \/ ApplyLive(r)
  <2>1. UNCHANGED <<pc, local, rt>> /\ managed' = managed
    BY <1>3 DEF WorkerOpen, WorkerReady, BarrierReady, WorkerExit, ServiceExit, Apply, ApplyLive,
                rest, tasks, managed
  <2>2. Tidy(vpn') /\ (Bare(vpn) => Bare(vpn'))
    <3>1. vpn' = vpn \/ (vpn.faults > 0 /\ vpn' = [vpn EXCEPT !.faults = @ - 1])
      BY <1>3 DEF WorkerOpen, WorkerReady, BarrierReady, WorkerExit, ServiceExit, Apply, ApplyLive,
                  rest
    <3> QED
      BY <1>0, <3>1, SpendBare DEF CleanInv
  <2>3. CASE BarrierReady
    <3>1. UNCHANGED <<worker, store>>
      BY <2>3 DEF BarrierReady, rest, tasks
    <3> QED
      BY <2>1, <2>2, <3>1 DEF CleanInv, device_live, Serving
  <2>4. CASE ~BarrierReady
    <3>1. Serving
      BY <1>3, <2>4 DEF WorkerOpen, WorkerReady, WorkerExit, ServiceExit, Apply, ApplyLive
    <3>2. rt'.state # "done" /\ pc' \notin Outside
      BY <2>1, <3>1 DEF Serving, CleanInv
    <3>3. pc' # "cleanup" /\ (pc' = "unpublish" => local'.retire)
      BY <2>1, <3>1 DEF Serving, CleanInv
    <3> QED
      BY <2>1, <2>2, <3>2, <3>3 DEF CleanInv, Outside
  <2> QED
    BY <2>3, <2>4
<1>4. CASE ReloadMarks \/ ReloadStops \/ Signal \/ Join \/ TeardownTimeout \/ Releasable
  <2>1. UNCHANGED <<pc, local, store, revision, rt, worker, vpn>>
    BY <1>4 DEF ReloadMarks, ReloadStops, Signal, Join, TeardownTimeout, Releasable, rest, tasks
  <2> QED
    BY <2>1 DEF CleanInv, device_live, Serving, managed
<1> QED
  BY <1>1, <1>2, <1>3, <1>4 DEF Main

\* Every step preserves the invariant.
LEMMA CleanStep == IInv /\ Types /\ CleanInv /\ [Next]_vars => CleanInv'
<1>. SUFFICES ASSUME IInv, Types, CleanInv, [Next]_vars PROVE CleanInv'
  OBVIOUS
<1>1. TaskTypes'
  BY TaskTyped DEF CleanInv
<1>2. CASE Operation
  BY <1>1, <1>2, OuterClean, DriverClean DEF Operation
<1>3. CASE UNCHANGED vars
  BY <1>1, <1>3 DEF vars, tasks, CleanInv, device_live, Serving, managed
<1> QED
  BY <1>1, <1>2, <1>3, TasksClean DEF Next

\* run_config_file_generations returns without an error only after it has rolled
\* back what was pending, and a generation that met no failure has left nothing
\* of its preparation on the host, for every plan, document and bound.
THEOREM ReturnIsCleanHolds == Spec => []ReturnIsClean
<1>1. Init => Types /\ CleanInv
  <2>. SUFFICES ASSUME Init PROVE Types /\ CleanInv
    OBVIOUS
  <2>1. Types
    BY NewLocalTyped DEF Init, Types, Stores, Runtimes, NoRuntime
  <2>2. Bare(vpn) /\ Tidy(vpn)
    <3>1. MaxFaults \in Nat /\ vpn.faults = MaxFaults /\ vpn.inert = {}
      BY TidyFacts DEF Init, NewController
    <3>. QED
      BY <3>1 DEF Bare, Tidy
  <2> QED
    BY <2>1, <2>2 DEF Init, CleanInv, TaskTypes, Workers, NoWorker, NoRuntime, Serving, Outside, device_live
<1>2. IInv /\ Types /\ CleanInv /\ [Next]_vars => Types' /\ CleanInv'
  BY Typed, CleanStep
<1>3. IInv /\ Types /\ CleanInv => ReturnIsClean
  <2>. SUFFICES ASSUME IInv, Types, CleanInv PROVE ReturnIsClean
    OBVIOUS
  <2>1. /\ vpn.captures \subseteq 1 .. PublishSteps /\ vpn.inert \subseteq 1 .. PrepareSteps
        /\ gen \in Gens
    BY DEF IInv, Owned, Controllers
  <2>2. TypeOK
    BY <2>1 DEF TypeOK, Types, Stores, Runtimes, Gens, CleanInv, TaskTypes, Workers, Tidy
  <2> QED
    BY <2>2 DEF ReturnIsClean, CleanInv, Outside, Bare
<1> QED
  BY Invariance, <1>1, <1>2, <1>3, PTL DEF Spec
==============================================================================
