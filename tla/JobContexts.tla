---------------------------- MODULE JobContexts ----------------------------
(***************************************************************************)
(* The volatile side of Jobs in embodied_runtime/app.py: the registry of   *)
(* JobExecutionContexts, the "foreground" and "parked" compatibility views *)
(* of it, and the synchronous routines that edit a context.                *)
(*                                                                         *)
(* A session is the record of everything those routines assign, so that a  *)
(* handler that calls several of them in a row is a composition.  The      *)
(* ContextVar is the parameter e ("exact") of every view: it differs from  *)
(* task to task, and None means that it is not set.                        *)
(***************************************************************************)
EXTENDS JobLedger, FiniteSets

CONSTANTS
  MaxWork,   \* jobs_max_concurrent_work
  MaxSteps,  \* jobs_max_auto_steps
  None,        \* no Run
  Standalone   \* the owner of an ActiveGoal that no context owns

ASSUME MaxWorkAssumption == MaxWork \in Nat \ {0}
ASSUME MaxStepsAssumption == MaxSteps \in Nat
ASSUME NoneAssumption == None \notin RunIds /\ Standalone \notin RunIds \cup {None}

EndedTask == {"completed", "failed", "stopped"}
Waits == {"delay", "event", "operator"}
Readiness == {"ready"} \cup Waits
NoProposal == "none"
Invalid == "invalid"  \* the outcome of an episode without an accepted report

NoGrant == [state |-> "none", steps |-> 0, ready |-> "ready", due |-> FALSE]
Grant(state, steps, ready) ==
  [state |-> state, steps |-> steps, ready |-> ready, due |-> FALSE]

(***************************************************************************)
(* active_work_task.  phase: the asyncio task is "created", is "running"   *)
(* in the backend, or is "gone" although the context still records it.     *)
(* fresh: neither binding nor task_binding was replaced since the work was *)
(* prepared, which is what _job_work_binding_matches tests by identity.    *)
(***************************************************************************)
NoWork == [phase |-> "none", kind |-> "auto", fresh |-> FALSE,
           cancelled |-> FALSE, proposal |-> NoProposal]
NewWork(phase, kind) == [NoWork EXCEPT !.phase = phase, !.kind = kind, !.fresh = TRUE]

\* A JobExecutionContext: its Task and whether task_binding is set, its execution
\* ("runnable", "parked", "stopping" or "terminal"), its continuation, the Run that its
\* JobProgress names, and its work.
NoContext == [task |-> "none", bound |-> FALSE, exec |-> "none",
              grant |-> NoGrant, progress |-> None, work |-> NoWork]

\* _job_execution_contexts, _foreground_job_run_id, _parked_job_run_id, and the owner
\* of _active_goal: a Run or Standalone.
EmptySession == [ctx |-> [r \in RunIds |-> NoContext], foreground |-> None,
                 parked |-> None, goal |-> None]

-----------------------------------------------------------------------------
Live(s) == {r \in RunIds : s.ctx[r].exec # "none"}
ParkedRuns(s) == {r \in RunIds : s.ctx[r].exec = "parked"}
Occupied(s) == {r \in RunIds : s.ctx[r].work.phase # "none"}
SlotsAvailable(s) == Cardinality(Occupied(s)) < MaxWork
TheOnly(S) == IF Cardinality(S) = 1 THEN CHOOSE r \in S : TRUE ELSE None

\* _parked_job_execution_context: the exact context if it is parked, else the
\* recorded one, else the sole one.
ParkedContext(s, e) ==
  IF e \in ParkedRuns(s) THEN e
  ELSE IF s.parked # None THEN s.parked
  ELSE TheOnly(ParkedRuns(s))

\* _parked_job_run
ParkedRun(s, e) ==
  LET p == ParkedContext(s, e) IN IF p # None /\ s.ctx[p].bound THEN p ELSE None

\* _execution_job_context
ExecutionContext(s, e) == IF e # None THEN e ELSE s.foreground

\* _compat_job_context
CompatContext(s, e) ==
  IF e # None THEN e
  ELSE IF ParkedContext(s, None) # None THEN ParkedContext(s, None)
  ELSE IF s.foreground # None THEN s.foreground
  ELSE TheOnly(Live(s))

\* _standalone_execution_active
StandaloneExecution(s) == s.goal = Standalone

-----------------------------------------------------------------------------
Without(s, field, r) == [s EXCEPT ![field] = IF @ = r THEN None ELSE @]

\* _remove_job_execution_context: a context with recorded work only turns terminal.
Removed(s, r) ==
  IF s.ctx[r].work.phase # "none"
  THEN [s EXCEPT !.ctx[r].exec = "terminal"]
  ELSE Without(Without([s EXCEPT !.ctx[r] = NoContext], "foreground", r), "parked", r)

\* _clear_context_work_task
WorkCleared(s, r) ==
  LET t == [s EXCEPT !.ctx[r].work = NoWork]
  IN  IF t.ctx[r].exec = "terminal" THEN Removed(t, r) ELSE t

\* The same of every context with recorded work, in any order.
AllWorkCleared(s) ==
  LET cleared == [r \in RunIds |-> IF r \in Occupied(s) THEN WorkCleared(s, r).ctx[r]
                                  ELSE s.ctx[r]]
      left == {r \in Occupied(s) : cleared[r].exec = "none"}
  IN  [s EXCEPT !.ctx = cleared, !.foreground = IF @ \in left THEN None ELSE @,
                !.parked = IF @ \in left THEN None ELSE @]

RevokedAtPark(s, r) == [s EXCEPT !.ctx[r].grant = NoGrant]

\* A parked Run that keeps the session's goal and the foreground.
ParkKeepingGoal(s, r) ==
  LET c == s.ctx[r]
      t == [s EXCEPT !.ctx[r].task = "paused", !.ctx[r].exec = "parked",
                     !.ctx[r].work.fresh = FALSE]
  IN  IF ~c.bound \/ c.task # "running" THEN RevokedAtPark(s, r)
      ELSE [t EXCEPT !.parked = TheOnly(ParkedRuns(t))]

\* _park_job_context: the parked view names it only while it is the sole parked one.
Park(s, r) ==
  LET c == s.ctx[r]
      t == [s EXCEPT !.ctx[r].task = "paused", !.ctx[r].exec = "parked",
                     !.ctx[r].work.fresh = FALSE]
  IN  IF ~c.bound \/ c.task # "running" THEN RevokedAtPark(s, r)
      ELSE [Without(Without(t, "goal", r), "foreground", r)
              EXCEPT !.parked = TheOnly(ParkedRuns(t))]

\* The accepting half of _restore_parked_job_run: a fresh Task snapshot and goal.
Restored(s, r, e) ==
  LET t == [s EXCEPT !.ctx[r].task = "running", !.ctx[r].exec = "runnable",
                     !.ctx[r].work.fresh = FALSE]
  IN  [Without(t, "parked", r) EXCEPT !.foreground = IF e = None THEN r ELSE @]

\* _await_operator_after_invalid_outcome
AwaitOperator(s, r) ==
  LET g == s.ctx[r].grant
      steps == IF g.state = "none" THEN MaxSteps ELSE g.steps
  IN  Park([s EXCEPT !.ctx[r].grant = Grant("awaiting", steps, "operator")], r)

ParkIfWaiting(s, r, o) == IF o \in Waits THEN Park(s, r) ELSE s

\* _arm_job_continuation, after explicit and initial work: the full budget.
ArmedAnew(s, r, o) ==
  IF s.ctx[r].exec \in {"none", "stopping"} THEN s
  ELSE IF o = Invalid THEN AwaitOperator(s, r)
  ELSE ParkIfWaiting([s EXCEPT !.ctx[r].grant = Grant("armed", MaxSteps, o)], r, o)

\* The end of _run_automatic_job_work: what is left of the budget.
ArmedAgain(s, r, o) ==
  LET g == s.ctx[r].grant
      h == [g EXCEPT !.state = IF g.steps = 0 THEN "awaiting" ELSE @,
                     !.ready = o, !.due = FALSE]
  IN  IF g.state = "none" THEN s
      ELSE IF o = Invalid THEN AwaitOperator(s, r)
      ELSE ParkIfWaiting([s EXCEPT !.ctx[r].grant = h], r, o)

ArmedAlwaysAnew(s, r, kind, o) == ArmedAnew(s, r, o)
Armed(s, r, kind, o) ==
  IF kind = "auto" THEN ArmedAgain(s, r, o) ELSE ArmedAnew(s, r, o)

-----------------------------------------------------------------------------
\* What _finish_job_run_context accepts: a Task that can still end that way
\* (a parked one is made to run first), or the retry of the same ending.
CanEnd(s, r, verdict) ==
  LET c == s.ctx[r]
  IN  IF c.task \in EndedTask
      THEN c.task = verdict /\ ~c.bound
      ELSE /\ c.bound
           /\ c.task = "paused" => c.exec = "parked" \/ verdict = "stopped"

GrantDropped(s, r) == [s EXCEPT !.ctx[r].grant = NoGrant]

TaskForgotten(s, r, verdict) == Removed(GrantDropped(s, r), r)

\* Its first half, finish_task: the Task's ending is decided, in memory.
TaskEnded(s, r, verdict) ==
  IF s.ctx[r].task \in EndedTask THEN GrantDropped(s, r)
  ELSE Without([GrantDropped(s, r) EXCEPT !.ctx[r].task = verdict, !.ctx[r].bound = FALSE,
                                 !.ctx[r].exec = "runnable", !.ctx[r].work.fresh = FALSE],
               "goal", r)

\* Its second half, once transition_run has recorded the result.
RunEnded(s, r, verdict) ==
  Removed([TaskEnded(s, r, verdict) EXCEPT !.ctx[r].exec = "terminal",
             !.ctx[r].progress = None, !.ctx[r].work.fresh = FALSE], r)

(***************************************************************************)
(* The success path of _start_job_occurrence: a context of its own, the    *)
(* foreground, and _active_goal if the registry was empty.  The empty      *)
(* JobProgress is assigned through the compatibility view.                 *)
(***************************************************************************)
Started(s, r, e) ==
  LET t == [s EXCEPT !.ctx[r] = [NoContext EXCEPT !.task = "running", !.bound = TRUE,
                                                  !.exec = "runnable"],
                     !.foreground = r,
                     !.goal = IF Live(s) = {} THEN r ELSE @]
      owner == CompatContext(t, e)
  IN  IF owner \in Live(t) THEN [t EXCEPT !.ctx[owner].progress = r] ELSE t
=============================================================================
