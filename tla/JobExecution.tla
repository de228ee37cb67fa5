---------------------------- MODULE JobExecution ----------------------------
(***************************************************************************)
(* Job execution in one runtime process: starting occurrences, offering    *)
(* their continuations, the bounded work episodes, explicit control, and   *)
(* what a crash, a restart and a shutdown make of them.                    *)
(*                                                                         *)
(* An action is the code between two suspensions of the asyncio loop.      *)
(* Two routines are broken up further.  Starting an occurrence makes two   *)
(* durable steps without suspending, and a crash can fall between them;    *)
(* a round of offers visits the contexts one by one.  loop is not "idle"   *)
(* while one of them is in progress, and then nothing else in the process  *)
(* runs.                                                                   *)
(***************************************************************************)
EXTENDS JobContexts, FiniteSetsExt

CONSTANTS
  OperatorVerdicts,  \* bound: the endings the operator asks for
  ModelProposals,    \* bound: what the model may report at the end of an episode
  Parties            \* bound: which of AllParties take part

\* Who may act beside the console's start, work and finish commands: goal tools of
\* operator episodes, general initiative, triggers and schedules, edits of the
\* catalog, and a program that drives the Task API (as the tests do).
AllParties == {"goals", "initiative", "triggers", "catalog", "tasks"}

ASSUME PartiesAssumption == Parties \subseteq AllParties
ASSUME VerdictsAssumption == OperatorVerdicts \subseteq EndedTask
ASSUME ProposalsAssumption == ModelProposals \subseteq Readiness \cup {"completed", "failed"}

VARIABLES
  phase,         \* the lifecycle, with the stages of stop() that matter to Jobs
  session,       \* the contexts and their compatibility views
  loop,          \* the multi-part routine the loop is inside of
  operator,      \* an operator episode runs or waits
  initiative,    \* general autonomy holds the autonomous lane
  episodes,      \* the Runs whose work holds an attention episode
  console,       \* what the one operator console is waiting for
  consoleExact   \* the ContextVar of the console's own task

volatile == <<session, loop, operator, initiative, episodes, console, consoleExact>>
vars == <<ledgerVars, phase, volatile>>
durable == ledgerVars

ctx == session.ctx
Idle == [routine |-> "idle", run |-> None, by |-> "none"]
ConsoleIdle == [doing |-> "idle", run |-> None, verdict |-> "none"]

Init ==
  /\ LedgerInit
  /\ phase = "down"
  /\ session = EmptySession
  /\ loop = Idle
  /\ operator = FALSE /\ initiative = FALSE
  /\ episodes = {}
  /\ console = ConsoleIdle
  /\ consoleExact = None

LoopIdle == loop = Idle
Running == phase = "running" /\ LoopIdle

\* AttentionEpisodeCoordinator, as Job work sees it.
GeneralActive == initiative \/ (MaxWork = 1 /\ episodes # {})
EpisodeAvailable ==
  ~operator /\ ~initiative /\ Cardinality(episodes) < MaxWork

\* _job_work_binding_matches
BindingMatches(r) ==
  phase = "running" /\ ctx[r].work.fresh /\ ctx[r].exec # "stopping"

-----------------------------------------------------------------------------
\* Attention around Job work.
OperatorBegins ==
  /\ Running /\ ~operator
  /\ operator' = TRUE
  /\ UNCHANGED <<durable, phase, session, loop, initiative, episodes, console, consoleExact>>

OperatorEnds ==
  /\ LoopIdle /\ operator
  /\ operator' = FALSE
  /\ UNCHANGED <<durable, phase, session, loop, initiative, episodes, console, consoleExact>>

InitiativeBegins ==
  /\ "initiative" \in Parties
  /\ Running /\ ~operator /\ ~initiative /\ episodes = {}
  /\ initiative' = TRUE
  /\ UNCHANGED <<durable, phase, session, loop, operator, episodes, console, consoleExact>>

InitiativeEnds ==
  /\ LoopIdle /\ initiative
  /\ initiative' = FALSE
  /\ UNCHANGED <<durable, phase, session, loop, operator, episodes, console, consoleExact>>

\* Another process sharing the catalog, or the console, enables or disables a Job.
ConfigureJob(j, b) ==
  /\ "catalog" \in Parties
  /\ enabled[j] # b
  /\ SetJobEnabled(j, b)
  /\ UNCHANGED <<phase, volatile>>

-----------------------------------------------------------------------------
\* Starting.
BeginOccurrence(j, r, by) ==
  /\ CreateRun(j, r)
  /\ loop' = [routine |-> "starting", run |-> r, by |-> by]
  /\ UNCHANGED <<phase, session, operator, initiative, episodes, console, consoleExact>>

NoContextOf(j) == \A r \in Live(session) : job[r] # j

\* start_job_run
StartJobRun(j, r) ==
  /\ Running /\ console = ConsoleIdle
  /\ LET x == ExecutionContext(session, consoleExact)
     IN  ~(x # None /\ ctx[x].bound /\ session.foreground = None)
  /\ session.goal # None => Live(session) # {}
  /\ NoContextOf(j)
  /\ BeginOccurrence(j, r, "console")

\* What _activate_triggered_job and _offer_scheduled_job have in common.
ActivateJob(j, r) ==
  /\ "triggers" \in Parties
  /\ Running
  /\ NoContextOf(j)
  /\ SlotsAvailable(session)
  /\ ~StandaloneExecution(session)
  /\ ~operator /\ ~GeneralActive
  /\ BeginOccurrence(j, r, "activation")

\* A console whose ContextVar still names an earlier occurrence cannot install a
\* first Task: the setter of _current_task_binding rejects its identity.
StartRejected == loop.by = "console" /\ consoleExact # None /\ Live(session) = {}

\* _start_job_occurrence, then the attention claim of an activation.
StartOccurrence ==
  LET r == loop.run
      s == Started(session, r, IF loop.by = "console" THEN consoleExact ELSE None)
      claims == loop.by = "activation" /\ EpisodeAvailable
  IN  /\ loop.routine = "starting" /\ ~StartRejected
      /\ TransitionRun(r, "running")
      /\ session' = IF claims THEN [s EXCEPT !.ctx[r].work = NewWork("created", "initial")]
                    ELSE s
      /\ episodes' = IF claims THEN episodes \cup {r} ELSE episodes
      /\ loop' = Idle
      /\ UNCHANGED <<phase, operator, initiative, console, consoleExact>>

StartFailsDeletingRow ==
  /\ loop.routine = "starting"
  /\ status' = [status EXCEPT ![loop.run] = "absent"]
  /\ job' = [job EXCEPT ![loop.run] = Unowned]
  /\ session' = IF StartRejected THEN [session EXCEPT !.goal = Standalone] ELSE session
  /\ loop' = Idle
  /\ UNCHANGED <<enabled, phase, operator, initiative, episodes, console, consoleExact>>

\* The store refuses, or the Task cannot be installed; then the occurrence is
\* stopped, unless that fails as well.  Only the goal of a rejected Task stays.
StartFails ==
  /\ loop.routine = "starting"
  /\ \/ TransitionRun(loop.run, "stopped")
     \/ UNCHANGED durable
  /\ session' = IF StartRejected THEN [session EXCEPT !.goal = Standalone] ELSE session
  /\ loop' = Idle
  /\ UNCHANGED <<phase, operator, initiative, episodes, console, consoleExact>>

\* The operator's set_goal tool.
SetGoal ==
  /\ "goals" \in Parties
  /\ Running /\ operator
  /\ session.goal = None
  /\ session.foreground # None => ~ctx[session.foreground].bound
  /\ session' = [session EXCEPT !.goal = Standalone]
  /\ UNCHANGED <<durable, phase, loop, operator, initiative, episodes, console, consoleExact>>

\* clear_goal, of a goal that belongs to no current Task.
ClearGoal ==
  /\ Running /\ console = ConsoleIdle
  /\ StandaloneExecution(session)
  /\ LET x == ExecutionContext(session, consoleExact)
     IN  ~(x # None /\ ctx[x].bound /\ ctx[x].task = "running")
  /\ session' = [session EXCEPT !.goal = None]
  /\ UNCHANGED <<durable, phase, loop, operator, initiative, episodes, console, consoleExact>>
-----------------------------------------------------------------------------
\* What _restore_parked_job_run re-reads from the store before it restores.
Authorized(r) == enabled[job[r]] /\ status[r] = "running"

(***************************************************************************)
(* Offering.  A heartbeat or a matching event walks the contexts in Run    *)
(* order; Verdict is the chain of early returns of                         *)
(* _offer_exact_job_continuation for the next of them.                     *)
(***************************************************************************)
Offerable(from) ==
  {r \in Live(session) : r >= from /\ ctx[r].work.phase = "none"
                                  /\ ctx[r].grant.state # "none"}

Exhausted(r) == ctx[r].grant.steps = 0

Verdict(r) ==
  LET c == ctx[r]
      p == ParkedRun(session, r)   \* the sole parked sibling when r is not parked
  IN  IF c.grant.state # "armed" THEN "deferred"
      ELSE IF p \notin {None, r} \/ ~c.bound THEN "cleared"
      ELSE IF c.grant.ready # "ready" /\ ~c.grant.due THEN "deferred"
      ELSE IF MaxWork = 1 /\ session.foreground \notin {None, r} THEN "deferred"
      ELSE IF p = None /\ c.task = "paused" THEN "deferred"
      ELSE IF operator \/ GeneralActive THEN "deferred"
      ELSE IF Exhausted(r) THEN "exhausted"
      ELSE IF p = r /\ ~Authorized(r) THEN "cleared"
      ELSE IF p = None /\ c.task # "running" THEN "cleared"
      ELSE IF EpisodeAvailable THEN "accepted"
      ELSE IF p = r THEN "restored" ELSE "deferred"

Runnable(r) ==
  IF ctx[r].exec = "parked" THEN Restored(session, r, r) ELSE session

\* The attention claim is the acceptance boundary: it charges one step.
Accepted(r) ==
  [Runnable(r) EXCEPT !.ctx[r].grant.steps = @ - 1, !.ctx[r].grant.due = FALSE,
                      !.ctx[r].work = NewWork("created", "auto")]

BeginOffers ==
  /\ Running /\ ~operator
  /\ Offerable(1) # {}
  /\ loop' = [routine |-> "offering", run |-> 1, by |-> "heartbeat"]
  /\ UNCHANGED <<durable, phase, session, operator, initiative, episodes, console, consoleExact>>

OfferNext ==
  LET r == Min(Offerable(loop.run))
      v == Verdict(r)
  IN  /\ loop.routine = "offering"
      /\ Offerable(loop.run) # {} /\ SlotsAvailable(session)
      /\ session' = CASE v = "accepted"  -> Accepted(r)
                      [] v = "restored"  -> Runnable(r)
                      [] v = "cleared"   -> GrantDropped(session, r)
                      [] v = "exhausted" -> [session EXCEPT !.ctx[r].grant.state = "awaiting"]
                      [] v = "deferred"  -> session
      /\ episodes' = IF v = "accepted" THEN episodes \cup {r} ELSE episodes
      /\ loop' = [loop EXCEPT !.run = r + 1]
      /\ UNCHANGED <<durable, phase, operator, initiative, console, consoleExact>>

\* The store cannot be read: the offer of a parked Run is given up, nothing else.
OfferFails ==
  LET r == Min(Offerable(loop.run))
  IN  /\ loop.routine = "offering"
      /\ Offerable(loop.run) # {} /\ SlotsAvailable(session)
      /\ ParkedRun(session, r) = r /\ Verdict(r) \in {"accepted", "restored", "cleared"}
      /\ loop' = [loop EXCEPT !.run = r + 1]
      /\ UNCHANGED <<durable, phase, session, operator, initiative, episodes, console, consoleExact>>

EndOffers ==
  /\ loop.routine = "offering"
  /\ Offerable(loop.run) = {} \/ ~SlotsAvailable(session)
  /\ loop' = Idle
  /\ UNCHANGED <<durable, phase, session, operator, initiative, episodes, console, consoleExact>>

\* The monotonic clock passes eligible_at_monotonic.
DelayElapses(r) ==
  /\ LoopIdle
  /\ ctx[r].grant.ready = "delay" /\ ~ctx[r].grant.due
  /\ session' = [session EXCEPT !.ctx[r].grant.due = TRUE]
  /\ UNCHANGED <<durable, phase, loop, operator, initiative, episodes, console, consoleExact>>

\* _satisfy_job_event: every context that waits for the event keeps it, and a
\* match is offered at once.
EventOccurs ==
  LET matched == {r \in Live(session) :
                    /\ ctx[r].grant.ready = "event" /\ ~ctx[r].grant.due
                    /\ ctx[r].grant.state # "none" /\ ctx[r].bound
                    /\ ctx[r].work.phase = "none"}
  IN  /\ Running
      /\ matched # {}
      /\ session' = [session EXCEPT !.ctx =
                       [r \in RunIds |-> IF r \in matched
                                         THEN [@[r] EXCEPT !.grant.due = TRUE] ELSE @[r]]]
      /\ loop' = IF operator THEN Idle
                 ELSE [routine |-> "offering", run |-> 1, by |-> "event"]
      /\ UNCHANGED <<durable, phase, operator, initiative, episodes, console, consoleExact>>

-----------------------------------------------------------------------------
(***************************************************************************)
(* Explicit work, awaited by the console.  The restore, the checks, the    *)
(* attention claim and the first step of the episode do not suspend.       *)
(***************************************************************************)
CanWork(s, r) == r \in Live(s) /\ s.ctx[r].bound /\ s.ctx[r].task = "running"

WithManualWork(s, r) == [s EXCEPT !.ctx[r].work = NewWork("running", "manual")]

\* work_job_run_once
WorkRun(r) ==
  /\ Running /\ console = ConsoleIdle
  /\ CanWork(session, r)
  /\ ctx[r].work.phase = "none" /\ SlotsAvailable(session)
  /\ EpisodeAvailable
  /\ session' = WithManualWork(session, r)
  /\ episodes' = episodes \cup {r}
  /\ console' = [ConsoleIdle EXCEPT !.doing = "working", !.run = r]
  /\ UNCHANGED <<durable, phase, loop, operator, initiative, consoleExact>>

(***************************************************************************)
(* work_current_job_once: the foreground, or else the sole parked Run, with *)
(* its old grant given up.  A refused attention claim leaves the ContextVar *)
(* of the console set to the Run it wanted to work on.                     *)
(***************************************************************************)
WorkCurrent ==
  LET e == consoleExact
      p == ParkedRun(session, e)
      restores == ExecutionContext(session, e) = None /\ p # None
      s == IF restores THEN Restored(session, p, None) ELSE session
      x == ExecutionContext(s, e)
      r == IF x # None THEN x ELSE CompatContext(s, e)
      t == IF CompatContext(s, e) = r THEN GrantDropped(s, r) ELSE s
  IN  /\ Running /\ console = ConsoleIdle
      /\ SlotsAvailable(session)
      /\ \/ /\ restores /\ ~Authorized(p)
            /\ session' = GrantDropped(session, p)
            /\ UNCHANGED <<episodes, console, consoleExact>>
         \/ /\ restores => Authorized(p)
            /\ CanWork(s, r)
            /\ IF EpisodeAvailable /\ ctx[r].work.phase = "none"
               THEN /\ session' = WithManualWork(t, r)
                    /\ episodes' = episodes \cup {r}
                    /\ console' = [ConsoleIdle EXCEPT !.doing = "working", !.run = r]
                    /\ UNCHANGED consoleExact
               ELSE /\ session' = t
                    /\ consoleExact' = IF EpisodeAvailable THEN e ELSE r
                    /\ UNCHANGED <<episodes, console>>
      /\ UNCHANGED <<durable, phase, loop, operator, initiative>>

-----------------------------------------------------------------------------
\* Work episodes.
Phase(r) == ctx[r].work.phase

\* The first step of a created task.  An automatic one tests its binding and its
\* grant and cleans up; an initial one raises before it has anything to clean up.
BeginWork(r) ==
  LET w == ctx[r].work
      holds == IF w.kind = "auto"
               THEN BindingMatches(r) /\ ctx[r].grant.state # "none"
               ELSE w.fresh
      discarded == ~holds /\ w.kind = "auto"
  IN  /\ LoopIdle
      /\ Phase(r) = "created" /\ ~w.cancelled
      /\ session' = IF discarded THEN WorkCleared(session, r)
                    ELSE [session EXCEPT !.ctx[r].work.phase =
                                             IF holds THEN "running" ELSE "gone"]
      /\ episodes' = IF discarded THEN episodes \ {r} ELSE episodes
      /\ UNCHANGED <<durable, phase, loop, operator, initiative, console, consoleExact>>

\* A task cancelled before its first step never runs any of its code.
DropCreatedWork(r) ==
  /\ LoopIdle
  /\ Phase(r) = "created" /\ ctx[r].work.cancelled
  /\ session' = [session EXCEPT !.ctx[r].work.phase = "gone"]
  /\ UNCHANGED <<durable, phase, loop, operator, initiative, episodes, console, consoleExact>>

\* execute_tool of _request_job_outcome: a report is staged, not committed.
Propose(r, o) ==
  /\ LoopIdle
  /\ Phase(r) = "running" /\ ctx[r].work.proposal = NoProposal
  /\ BindingMatches(r)
  /\ session' = [session EXCEPT !.ctx[r].work.proposal = o]
  /\ UNCHANGED <<durable, phase, loop, operator, initiative, episodes, console, consoleExact>>

\* The finally of the episode, then what its caller does with outcome o.
WorkDone(s, r, o) ==
  LET t == WorkCleared(s, r) IN IF r \in Live(t) THEN Armed(t, r, ctx[r].work.kind, o) ELSE t

LeaveAllWork(r) ==
  /\ episodes' = {}
  /\ console' = IF console.doing = "working" /\ console.run = r THEN ConsoleIdle ELSE console
  /\ UNCHANGED <<phase, loop, operator, initiative, consoleExact>>

LeaveWork(r) ==
  /\ episodes' = episodes \ {r}
  /\ console' = IF console.doing = "working" /\ console.run = r THEN ConsoleIdle ELSE console
  /\ UNCHANGED <<phase, loop, operator, initiative, consoleExact>>

EndsRun(r) ==
  LoopIdle /\ Phase(r) = "running" /\ ~ctx[r].work.cancelled

\* The provider returned: commit what was staged, if its binding still holds.
\* A continuation that asks for no durable change is not tested again.
WorkEndsRun(r) ==
  LET o == ctx[r].work.proposal
  IN  /\ EndsRun(r) /\ o \in EndedTask /\ BindingMatches(r)
      /\ TransitionRun(r, o)
      /\ session' = WorkCleared(RunEnded(session, r, o), r)
      /\ LeaveWork(r)

WorkContinues(r) ==
  LET o == ctx[r].work.proposal
      outcome == IF o \in Readiness THEN o ELSE Invalid
  IN  /\ EndsRun(r)
      /\ o \in EndedTask => ~BindingMatches(r)
      /\ session' = WorkDone(session, r, outcome)
      /\ LeaveWork(r)
      /\ UNCHANGED durable

\* The provider or, after the Task has ended, the store raises.
WorkFails(r) ==
  LET o == ctx[r].work.proposal
      storeFailed == o \in EndedTask /\ BindingMatches(r)
      s == IF storeFailed THEN TaskEnded(session, r, o) ELSE session
      t == WorkCleared(s, r)
      g == t.ctx[r].grant
  IN  /\ EndsRun(r)
      /\ session' = IF ctx[r].work.kind = "auto" /\ g.state # "none"
                    THEN [t EXCEPT !.ctx[r].grant.state = "awaiting"] ELSE t
      /\ LeaveWork(r)
      /\ UNCHANGED durable

\* CancelledError in the backend call: only the finally clauses run.
WorkCancelled(r) ==
  /\ LoopIdle
  /\ Phase(r) = "running" /\ ctx[r].work.cancelled
  /\ session' = WorkCleared(session, r)
  /\ LeaveWork(r)
  /\ UNCHANGED durable

-----------------------------------------------------------------------------
(***************************************************************************)
(* Explicit control.  _finish_job_run_context ends the Task in memory and  *)
(* then records the result; the store may refuse to be read, or to write.  *)
(* While the process is not running finish_task raises, so that only an    *)
(* ending decided before can still be recorded.                            *)
(***************************************************************************)
Ending(r, v) ==
  LET ends == CanEnd(session, r, v) /\ (phase = "running" \/ ctx[r].task \in EndedTask)
  IN  \/ ends /\ TransitionRun(r, v) /\ session' = RunEnded(session, r, v)
      \/ ends /\ UNCHANGED durable /\ session' = TaskEnded(session, r, v)
      \/ ~ends /\ UNCHANGED durable /\ session' = GrantDropped(session, r)
      \/ UNCHANGED <<durable, session>>

StopWithoutCancelling(s, r) == GrantDropped(s, r)

\* The work is told to go away before the occurrence is ended.
StopRequested(s, r) ==
  LET t == [GrantDropped(s, r) EXCEPT !.ctx[r].exec = "stopping"]
  IN  IF s.ctx[r].work.phase = "gone" THEN t
      ELSE [t EXCEPT !.ctx[r].work.cancelled = TRUE]

\* finish_job_run_by_id of a Run whose work is not over: cancel it and wait.
FinishWorkingRun(r, v) ==
  /\ Running /\ console = ConsoleIdle
  /\ r \in Live(session) /\ Phase(r) # "none"
  /\ session' = StopRequested(session, r)
  /\ console' = [doing |-> "finishing", run |-> r, verdict |-> v]
  /\ UNCHANGED <<durable, phase, loop, operator, initiative, episodes, consoleExact>>

FinisherWaitsForRemoval ==
  LET r == console.run
  IN  /\ LoopIdle
      /\ console.doing = "finishing" /\ Phase(r) = "none"
      /\ IF r \in Live(session) THEN Ending(r, console.verdict)
         ELSE UNCHANGED <<durable, session>>
      /\ console' = ConsoleIdle
      /\ UNCHANGED <<phase, loop, operator, initiative, episodes, consoleExact>>

\* Its continuation when the work is done.  A Run that left meanwhile is an error.
FinisherResumes ==
  LET r == console.run
  IN  /\ LoopIdle
      /\ console.doing = "finishing" /\ Phase(r) \in {"none", "gone"}
      /\ IF r \in Live(session) THEN Ending(r, console.verdict)
         ELSE UNCHANGED <<durable, session>>
      /\ console' = ConsoleIdle
      /\ UNCHANGED <<phase, loop, operator, initiative, episodes, consoleExact>>

\* finish_job_run_by_id of a Run without work, and finish_job_run, which ends
\* the exact or the sole context and never waits for its work.
FinishRun(r, v) ==
  /\ Running /\ console = ConsoleIdle
  /\ r \in Live(session)
  /\ \/ Phase(r) = "none"
     \/ r = IF consoleExact # None THEN consoleExact ELSE TheOnly(Live(session))
  /\ Ending(r, v)
  /\ UNCHANGED <<phase, loop, operator, initiative, episodes, console, consoleExact>>

\* pause_task, called outside any Job's own task: the foreground Task, or else a
\* parked Run whose grant (of whichever context the view names) is withheld.
Pause ==
  LET f == session.foreground
      g == CompatContext(session, None)
  IN  /\ "tasks" \in Parties
      /\ Running /\ console = ConsoleIdle
      /\ \/ /\ f # None /\ ctx[f].bound /\ ctx[f].task = "running"
            /\ session' = Without([session EXCEPT !.ctx[f].task = "paused",
                                     !.ctx[f].exec = "runnable",
                                     !.ctx[f].work.fresh = FALSE], "goal", f)
         \/ /\ f # None => ~ctx[f].bound
            /\ ParkedRun(session, None) # None
            /\ ctx[g].grant.state = "armed"
            /\ session' = [session EXCEPT !.ctx[g].grant.state = "awaiting"]
      /\ UNCHANGED <<durable, phase, loop, operator, initiative, episodes, console, consoleExact>>

\* resume_task: the same choice, with a fresh goal.
Resume ==
  LET f == session.foreground
      p == ParkedRun(session, None)
      s == Restored(session, p, None)
      g == CompatContext(s, None)
  IN  /\ "tasks" \in Parties
      /\ Running /\ console = ConsoleIdle
      /\ \/ /\ f # None /\ ctx[f].bound /\ ctx[f].task = "paused"
            /\ session' = [session EXCEPT !.ctx[f].task = "running", !.goal = f,
                             !.ctx[f].exec = "runnable", !.ctx[f].work.fresh = FALSE]
         \/ /\ f # None => ~ctx[f].bound
            /\ p # None /\ ctx[p].exec = "parked"
            /\ session' =
                 IF ~Authorized(p) THEN GrantDropped(session, p)
                 ELSE IF s.ctx[g].grant.state = "none" THEN s
                 ELSE [s EXCEPT !.ctx[g].grant.state = "armed"]
      /\ UNCHANGED <<durable, phase, loop, operator, initiative, episodes, console, consoleExact>>

-----------------------------------------------------------------------------
\* The lifecycle.
VolatileLost ==
  /\ session' = EmptySession /\ loop' = Idle
  /\ operator' = FALSE /\ initiative' = FALSE
  /\ episodes' = {} /\ console' = ConsoleIdle /\ consoleExact' = None

\* start(): what an earlier process left live is interrupted first.
Restart ==
  /\ phase = "down"
  /\ InterruptNonterminalRuns
  /\ phase' = "running"
  /\ UNCHANGED volatile

Crash ==
  /\ phase # "down"
  /\ phase' = "down"
  /\ VolatileLost
  /\ UNCHANGED durable

\* stop(), as far as Jobs go: leave "running", ...
BeginStop ==
  /\ Running
  /\ phase' = "stopping"
  /\ UNCHANGED <<durable, volatile>>

CancelCreatedWork ==
  /\ LoopIdle /\ phase = "stopping"
  /\ session' = [session EXCEPT !.ctx = [r \in RunIds |->
       IF @[r].work.phase = "created" THEN [@[r] EXCEPT !.work.cancelled = TRUE] ELSE @[r]]]
  /\ phase' = "joining"
  /\ UNCHANGED <<durable, loop, operator, initiative, episodes, console, consoleExact>>

\* ... cancel every work episode, ...
CancelAllWork ==
  /\ LoopIdle /\ phase = "stopping"
  /\ session' = [session EXCEPT !.ctx = [r \in RunIds |->
       IF @[r].work.phase \in {"created", "running"}
       THEN [@[r] EXCEPT !.work.cancelled = TRUE] ELSE @[r]]]
  /\ phase' = "joining"
  /\ UNCHANGED <<durable, loop, operator, initiative, episodes, console, consoleExact>>

\* ... wait until all are done, forgetting what ended as "gone", ...
JoinAllWork ==
  LET s == AllWorkCleared(session)
      g == CompatContext(s, None)
  IN  /\ LoopIdle /\ phase = "joining"
      /\ \A r \in Occupied(session) : Phase(r) = "gone"
      /\ session' = IF g = None THEN s
                    ELSE [GrantDropped(s, g) EXCEPT !.ctx[g].progress = None]
      /\ phase' = "joined"
      /\ UNCHANGED <<durable, loop, operator, initiative, episodes, console, consoleExact>>

\* ... and interrupt what is still live, each with a step that may fail.
BeginInterrupting ==
  /\ LoopIdle /\ phase = "joined"
  /\ loop' = [routine |-> "interrupting", run |-> 1, by |-> "none"]
  /\ UNCHANGED <<durable, phase, session, operator, initiative, episodes, console, consoleExact>>

ToInterrupt == {r \in Live(session) : r >= loop.run}

InterruptNext ==
  /\ loop.routine = "interrupting"
  /\ \E r \in ToInterrupt :
       /\ \A q \in ToInterrupt : r <= q
       /\ \/ TransitionRun(r, "interrupted")
          \/ UNCHANGED durable
       /\ loop' = [loop EXCEPT !.run = r + 1]
  /\ UNCHANGED <<phase, session, operator, initiative, episodes, console, consoleExact>>

FinishStop ==
  /\ loop.routine = "interrupting"
  /\ ToInterrupt = {}
  /\ phase' = "down"
  /\ VolatileLost
  /\ UNCHANGED durable

-----------------------------------------------------------------------------
Control ==
  \/ \E j \in Jobs, b \in BOOLEAN : ConfigureJob(j, b)
  \/ \E j \in Jobs, r \in RunIds : StartJobRun(j, r) \/ ActivateJob(j, r)
  \/ SetGoal \/ ClearGoal
  \/ \E r \in RunIds : WorkRun(r)
  \/ WorkCurrent
  \/ \E r \in RunIds, v \in OperatorVerdicts : FinishRun(r, v) \/ FinishWorkingRun(r, v)
  \/ Pause \/ Resume

Attention == OperatorBegins \/ OperatorEnds \/ InitiativeBegins \/ InitiativeEnds

Starting == StartOccurrence \/ StartFails

Offering ==
  BeginOffers \/ OfferNext \/ OfferFails \/ EndOffers \/ EventOccurs \/ \E r \in RunIds : DelayElapses(r)

WorkStep(r) ==
  \/ BeginWork(r) \/ DropCreatedWork(r)
  \/ \E o \in ModelProposals : Propose(r, o)
  \/ WorkEndsRun(r) \/ WorkContinues(r) \/ WorkFails(r) \/ WorkCancelled(r)

Stopping ==
  BeginStop \/ CancelAllWork \/ JoinAllWork \/ BeginInterrupting \/ InterruptNext \/ FinishStop

Next ==
  \/ Control \/ Attention \/ Starting \/ Offering \/ FinisherResumes
  \/ \E r \in RunIds : WorkStep(r)
  \/ Restart \/ Crash \/ Stopping

(***************************************************************************)
(* What the asyncio loop owes: a routine in progress goes on, a task that  *)
(* is ready, and above all one that was cancelled, gets its next step, and *)
(* stop() gets on with its stages.  The ready queue is first in, first out *)
(* and a round of offers does not suspend, so that rounds that come again  *)
(* and again do not keep a ready task from its step: hence SF.  Nothing is *)
(* owed by the operator, the model or the clock, nor by a provider whose   *)
(* call was not cancelled.                                                 *)
(***************************************************************************)
CancelledStep(r) == DropCreatedWork(r) \/ WorkCancelled(r)

Fairness ==
  /\ WF_vars(Starting) /\ WF_vars(OfferNext) /\ WF_vars(EndOffers)
  /\ SF_vars(FinisherResumes)
  /\ \A r \in RunIds : SF_vars(CancelledStep(r))
  /\ WF_vars(CancelAllWork) /\ WF_vars(JoinAllWork) /\ WF_vars(BeginInterrupting)
  /\ WF_vars(InterruptNext) /\ WF_vars(FinishStop)

Spec == Init /\ [][Next]_vars
FairSpec == Spec /\ Fairness

-----------------------------------------------------------------------------
(***************************************************************************)
(* LedgerSpec, the specification of the durable side, is what execution    *)
(* promises the next process: whatever it does, crashes and shutdowns      *)
(* included, every step of it is an operation of the store or leaves the   *)
(* store alone.                                                            *)
(***************************************************************************)

\* Between two steps of the loop a Run that the ledger calls running has a context
\* that can still end it, and a Task that can still act belongs to such a Run: no
\* start, ending, refused write or shutdown leaves one side without the other. Nor does
\* _active_goal outlive the running Task that installed it, or a later start would take
\* it for a standalone goal of the operator.
LiveRunsOwned ==
  Running => \A r \in RunIds :
               /\ status[r] = "running" => ctx[r].exec \notin {"none", "terminal"}
               /\ ctx[r].bound => status[r] = "running"
               /\ session.goal = r => ctx[r].bound /\ ctx[r].task = "running"

\* Work that may still run holds its attention episode, and there is never more
\* of it than jobs_max_concurrent_work (_try_start_job_work_episode).
WorkHoldsAttention ==
  /\ \A r \in RunIds : Phase(r) \in {"created", "running"} => r \in episodes
  /\ Cardinality(episodes) <= MaxWork

\* A parked occurrence is at rest: its Task is paused but still bound, no work of
\* it is recorded, and no view of the running Task or goal still leads to it.
ParkedAtRest ==
  \A r \in ParkedRuns(session) :
    /\ ctx[r].task = "paused" /\ ctx[r].bound /\ Phase(r) = "none"
    /\ r \notin {session.foreground, session.goal}

\* No Job episode begins while an operator has attention or waits for it.
OperatorFirst ==
  [][operator => episodes' \subseteq episodes]_vars

\* An operator's verdict, once finish_job_run_by_id waits for the work to go away,
\* is not overtaken by what that work had already staged.
VerdictNotOvertaken ==
  console.doing = "finishing" /\ status[console.run] = "running"
    => status'[console.run] \in {"running", console.verdict, "interrupted"}

\* A Task that ended before its result could be recorded is never recorded as
\* having ended otherwise, whoever retries.
EndingsAgree ==
  \A r \in RunIds :
    ctx[r].task \in EndedTask /\ status[r] = "running"
      => status'[r] \in {"running", ctx[r].task, "interrupted"}

\* Neither what was staged, nor a retry, nor a shutdown records another ending than
\* the one an occurrence has been given.
EndingsKept == [][VerdictNotOvertaken /\ EndingsAgree]_vars

\* Automatic work never widens its own budget: steps grow only at the end of an
\* episode that the operator, a schedule or a trigger asked for.
BudgetNotSelfGranted ==
  \A r \in RunIds :
    ctx'[r].grant.steps > ctx[r].grant.steps
      => Phase(r) = "running" /\ ctx[r].work.kind # "auto"

\* A parked occurrence runs again only if the store says, at that moment, that
\* its Job is enabled and its Run is running.
RestoredWithAuthority ==
  \A r \in RunIds :
    ctx[r].exec = "parked" /\ ctx'[r].exec = "runnable" /\ ctx'[r].task = "running"
      => enabled[job[r]] /\ status[r] = "running"

\* What an occurrence does by itself has been granted by someone else, and is granted
\* still when it is restored for it.
AutomaticWorkAuthorized == [][BudgetNotSelfGranted /\ RestoredWithAuthority]_vars

-----------------------------------------------------------------------------
\* Whoever waits in finish_job_run_by_id gets an answer.
FinisherAnswered == console.doing = "finishing" ~> console.doing # "finishing"

\* stop() ends, whatever the work, the console and the store do.
StopEnds == phase \in {"stopping", "joining", "joined"} ~> phase = "down"
=============================================================================
