--------------------------- MODULE HostTransaction ---------------------------
(***************************************************************************)
(* The two-phase host transaction of the managed VPN                       *)
(* (platform/linux_transaction.rs, and VpnHostLifecycle of                 *)
(* platform/linux_vpn.rs): prepare creates the TUN and inert routes,       *)
(* publish adds the rules that capture the host's traffic, and both are    *)
(* undone step by step.  A step is its operation_index, so the order of a  *)
(* journal is the order of its members.  An operation is the set of its    *)
(* possible outcomes: any step may fail to apply, any step may fail to be  *)
(* undone, and what was not undone stays in the journal for a retry.       *)
(***************************************************************************)
EXTENDS Integers, FiniteSets

CONSTANTS
  PrepareSteps,   \* the number of prepare operations of a plan
  PublishSteps    \* the number of its publish operations

ASSUME PlanInputs == {PrepareSteps, PublishSteps} \subseteq Nat \ {0}

\* A controller: its two journals and its flags; what the host holds of each
\* phase; and the failures the host may still produce (a bound of the model).
NewController(inert, captures, faults) ==
  [prepared |-> {}, published |-> {}, planned |-> FALSE, complete |-> FALSE,
   taken |-> FALSE, active |-> FALSE,
   inert |-> inert, captures |-> captures, faults |-> faults]

controller_state(c) ==
  CASE c.active -> "Active"
    [] ~c.active /\ c.complete /\ c.published = {} -> "Prepared"
    [] ~c.active /\ ~c.complete /\ ~c.planned /\ c.prepared = {} /\ c.published = {} -> "Idle"
    [] OTHER -> "CleanupPending"

\* reset_idle, and the drop of a controller that still has steps to undo.
reset_idle(c) == NewController(c.inert, c.captures, c.faults)

\* What a reversal may leave: the steps whose reversal fails.
rollback_steps(applied, faults) == {residual \in SUBSET applied : Cardinality(residual) <= faults}

\* Mutant of RollbackPublished: a step that could not be undone is forgotten.
ForgetFailures(c) ==
  {[c EXCEPT !.published = {}, !.captures = (@ \ c.published) \cup residual,
             !.faults = @ - Cardinality(residual)]
     : residual \in rollback_steps(c.published, c.faults)}

RollbackPublished(c) ==
  {[c EXCEPT !.published = residual, !.captures = (@ \ c.published) \cup residual,
             !.faults = @ - Cardinality(residual)]
     : residual \in rollback_steps(c.published, c.faults)}

RollbackPrepared(c) ==
  {[c EXCEPT !.prepared = residual, !.inert = (@ \ c.prepared) \cup residual,
             !.faults = @ - Cardinality(residual)]
     : residual \in rollback_steps(c.prepared, c.faults)}

Outcomes(ok, controllers) == {[ok |-> ok, to |-> c] : c \in controllers}

\* All steps are applied; or the one after the first n fails, and those are undone.
prepare(c) ==
  LET first(n) == [c EXCEPT !.planned = TRUE, !.prepared = 1 .. n, !.inert = @ \cup 1 .. n]
      fails == UNION {RollbackPrepared([first(n) EXCEPT !.faults = @ - 1])
                        : n \in {m \in 0 .. PrepareSteps - 1 : c.faults > 0}}
  IN IF controller_state(c) # "Idle" THEN Outcomes(FALSE, {c})
     ELSE Outcomes(TRUE, {[first(PrepareSteps) EXCEPT !.complete = TRUE]})
          \cup Outcomes(FALSE, {IF f.prepared = {} THEN reset_idle(f) ELSE f : f \in fails})

\* The backend hands the device over, or keeps it.
take_prepared_device(c) ==
  IF controller_state(c) # "Prepared" \/ c.taken THEN Outcomes(FALSE, {c})
  ELSE Outcomes(TRUE, {[c EXCEPT !.taken = TRUE]})
       \cup Outcomes(FALSE, {f \in {[c EXCEPT !.faults = @ - 1]} : c.faults > 0})

publish(c) ==
  LET first(n) == [c EXCEPT !.published = 1 .. n, !.captures = @ \cup 1 .. n]
      fails == UNION {RollbackPublished([first(n) EXCEPT !.faults = @ - 1])
                        : n \in {m \in 0 .. PublishSteps - 1 : c.faults > 0}}
  IN IF controller_state(c) # "Prepared" \/ ~c.taken THEN Outcomes(FALSE, {c})
     ELSE Outcomes(TRUE, {[first(PublishSteps) EXCEPT !.active = TRUE]})
          \cup Outcomes(FALSE, fails)

unpublish(c) ==
  IF ~c.complete \/ c.published = {} THEN Outcomes(FALSE, {c})
  ELSE {[ok |-> u.published = {}, to |-> u] : u \in RollbackPublished([c EXCEPT !.active = FALSE])}

cleanup(c) ==
  LET undone == UNION {RollbackPrepared(u)
                         : u \in RollbackPublished([c EXCEPT !.active = FALSE, !.complete = FALSE])}
      clean(u) == u.published = {} /\ u.prepared = {}
  IN {[ok |-> clean(u), to |-> IF clean(u) THEN reset_idle(u) ELSE u] : u \in undone}

\* VpnHostLifecycle::prepare: what a failure leaves is cleaned up once.
HostPrepare(c) ==
  LET failed(f) == IF controller_state(f) = "Idle" THEN {f} ELSE {r.to : r \in cleanup(f)}
      handoff(p) == UNION {IF t.ok THEN Outcomes(TRUE, {t.to})
                           ELSE Outcomes(FALSE, failed(t.to))
                             : t \in take_prepared_device(p)}
  IN UNION {IF p.ok THEN handoff(p.to) ELSE Outcomes(FALSE, failed(p.to)) : p \in prepare(c)}
=============================================================================
