---------------------------- MODULE GoalAttention ----------------------------
(***************************************************************************)
(* What moves the robot to think unasked: the GoalAttentionController, the *)
(* TemporalFollowupController whose due follow-up it must deliver, and the *)
(* bounded initiative episode it runs, together with what takes the goal   *)
(* or the attention away meanwhile: operator turns, Job work, the console. *)
(*                                                                         *)
(* An action is the code between two suspensions of the asyncio loop.  A   *)
(* goal is an ActiveGoal object, compared by identity.  The lanes are      *)
(* those of AttentionEpisodes; here an operator waits or is active, and    *)
(* how it is woken is left to that module.                                 *)
(***************************************************************************)
EXTENDS Naturals, Sequences, FiniteSets

CONSTANTS
  Operators,     \* the tasks that call request_cognition
  JobWorkers,    \* as many as Job episodes may run at once
  Purposes,      \* delay and purpose, by which an event names its follow-up
  MaxGoals,      \* bound: goals set in one behaviour
  MaxFollowups,  \* bound: follow-ups scheduled in one behaviour
  MaxReleases    \* bound: release tasks created and not yet run; the loop runs one
                 \* before a later episode can have ended

ASSUME PurposesAssumption == Purposes \subseteq Nat \ {0}
ASSUME BoundsAssumption ==
  /\ MaxGoals \in Nat /\ MaxFollowups \in Nat
  /\ MaxReleases \in Nat \ {0}

None == 0   \* no goal, any purpose

VARIABLES
  phase,      \* the lifecycle, with the two stages of stop() that matter here
  goal,       \* _active_goal
  goals,      \* _next_goal_id - 1
  bound,      \* the active goal is that of _current_task_binding
  followup,   \* _pending, _due_pending and _task of the temporal controller
  scheduled,  \* counts schedule(), for the bound
  events,     \* TemporalFollowupDue events published and not yet handled
  operator,   \* where each operator request stands
  turn,       \* the decision the active operator episode waits for
  jobWork,    \* workers whose Job work holds an attention episode
  episode,    \* the initiative episode and its task
  releases    \* tasks created by _attention_done and not yet run

goalVars == <<goal, goals, bound>>
followupVars == <<followup, scheduled>>
operatorVars == <<operator, turn>>
vars == <<phase, goalVars, followupVars, events, operatorVars, jobWork, episode, releases>>

Running == phase = "running"

-----------------------------------------------------------------------------
NoFollowup == [state |-> "none", goal |-> None, purpose |-> None]
\* Later "due", or "lapsed" when the timer ended and nothing was published.
NewFollowup(g, p) == [state |-> "sleeping", goal |-> g, purpose |-> p]

\* A decision of an operator episode: the goal it was grounded in when its tools were
\* projected (cognition_tools), and whether schedule_followup was one of them.
NoTurn == [grounded |-> None, stage |-> 0, used |-> FALSE, acquired |-> FALSE,
           maySchedule |-> FALSE]
NewTurn(stage) ==
  [NoTurn EXCEPT !.grounded = goal, !.stage = stage,
                 !.maySchedule = goal # None /\ followup = NoFollowup]

Stages == {"initial", "followup", "final", "continuation", "outcome"}
EffectNames == {"orient_body", "schedule_followup"}
NoEpisode == [task |-> "none", kind |-> "none", goal |-> None, stage |-> "initial",
              used |-> FALSE, acquisitions |-> 0, effects |-> <<>>, closure |-> FALSE]
NewEpisode(kind) == [NoEpisode EXCEPT !.task = "created", !.kind = kind, !.goal = goal]

Init ==
  /\ phase = "running"
  /\ goal = None /\ goals = 0 /\ bound = FALSE
  /\ followup = NoFollowup /\ scheduled = 0
  /\ events = <<>>
  /\ operator = [o \in Operators |-> "idle"] /\ turn = NoTurn
  /\ jobWork = {}
  /\ episode = NoEpisode
  /\ releases = 0

-----------------------------------------------------------------------------
\* The goal and the follow-up.
NoOperator(ops) == \A o \in Operators : ops[o] = "idle"

\* _goal_is_live.  One Task at a time runs here; how several share the one active
\* goal is the subject of JobExecution.
GoalIsLive(g) == goal = g

\* set_goal, or start_task for the goal of a Task.
SetGoal(forTask) ==
  /\ goal = None /\ goals < MaxGoals
  /\ goals' = goals + 1
  /\ goal' = goals + 1
  /\ bound' = forTask

LoseGoalKeepingFollowup ==
  /\ goal' = None /\ bound' = FALSE
  /\ UNCHANGED <<goals, followupVars>>

\* What resolve_goal, clear_goal and _release_task_active_goal have in common.
LoseGoal ==
  /\ goal' = None /\ bound' = FALSE
  /\ followup' = NoFollowup
  /\ UNCHANGED <<goals, scheduled>>

\* _execute_schedule_followup and schedule: bound to whatever goal is active now.
Schedule(p) ==
  /\ Running /\ goal # None
  /\ followup = NoFollowup /\ scheduled < MaxFollowups
  /\ followup' = NewFollowup(goal, p)
  /\ scheduled' = scheduled + 1

\* _wait after its sleep: the due follow-up stays in its slot and is published.
TimerEnds ==
  /\ followup.state = "sleeping"
  /\ IF Running /\ goal = followup.goal
     THEN /\ followup' = [followup EXCEPT !.state = "due"]
          /\ events' = Append(events, [goal |-> goal, purpose |-> followup.purpose])
     ELSE followup' = [followup EXCEPT !.state = "lapsed"] /\ UNCHANGED events
  /\ UNCHANGED <<phase, goalVars, scheduled, operatorVars, jobWork, episode, releases>>

\* The console: "goal clear" and "followup clear".
ConsoleClearsGoal ==
  /\ Running /\ goal # None /\ ~bound
  /\ LoseGoal
  /\ UNCHANGED <<phase, events, operatorVars, jobWork, episode, releases>>

ConsoleClearsFollowup ==
  /\ followup # NoFollowup
  /\ followup' = NoFollowup
  /\ UNCHANGED <<phase, goalVars, scheduled, events, operatorVars, jobWork, episode, releases>>

\* A Task starts, from the console, a trigger or a schedule; ...
TaskSetsGoal ==
  /\ Running
  /\ SetGoal(TRUE)
  /\ UNCHANGED <<phase, followupVars, events, operatorVars, jobWork, episode, releases>>

\* ... it is paused, parked or ends, the last also during stop().
TaskReleasesGoal ==
  /\ phase # "stopped" /\ bound
  /\ LoseGoal
  /\ UNCHANGED <<phase, events, operatorVars, jobWork, episode, releases>>

-----------------------------------------------------------------------------
\* Delivery.
AttentionIdle == NoOperator(operator) /\ jobWork = {} /\ episode = NoEpisode

\* claim_due, up to the point where it looks at the current goal.
Refused(g, p) ==
  \/ followup.state # "due"
  \/ g \notin {None, followup.goal}
  \/ p \notin {None, followup.purpose}

(***************************************************************************)
(* claim_due and, in the same step, _consider: the claimed follow-up       *)
(* becomes the episode that occupies the lane its caller has found idle.   *)
(***************************************************************************)
ClaimAndDeliver(g, p) ==
  \/ Refused(g, p) /\ UNCHANGED <<followup, episode>>
  \/ /\ ~Refused(g, p)
     /\ followup' = NoFollowup
     /\ episode' = IF Running /\ goal = followup.goal THEN NewEpisode("followup") ELSE episode

\* _release_temporal_due, when no lane is taken (idle).
Release(idle) ==
  IF idle THEN ClaimAndDeliver(goal, None) ELSE UNCHANGED <<followup, episode>>

DeliverFromEvent ==
  /\ events # <<>> /\ phase # "stopped"
  /\ events' = Tail(events)
  /\ episode' = IF Running /\ goal = Head(events).goal /\ AttentionIdle
                THEN NewEpisode("followup") ELSE episode
  /\ followup' = IF followup.state = "due" THEN NoFollowup ELSE followup
  /\ UNCHANGED <<phase, goalVars, scheduled, operatorVars, jobWork, releases>>

\* _on_temporal_event
HandleDueEvent ==
  /\ events # <<>> /\ phase # "stopped"
  /\ events' = Tail(events)
  /\ IF Head(events).goal = goal /\ AttentionIdle
     THEN ClaimAndDeliver(Head(events).goal, Head(events).purpose)
     ELSE UNCHANGED <<followup, episode>>
  /\ UNCHANGED <<phase, goalVars, scheduled, operatorVars, jobWork, releases>>

\* A reflex or a thermal warning: _consider accepts it or forgets it.
Observe ==
  /\ Running /\ goal # None
  /\ AttentionIdle
  /\ episode' = NewEpisode("observation")
  /\ UNCHANGED <<phase, goalVars, followupVars, events, operatorVars, jobWork, releases>>

\* A task created by _attention_done.
ReleaseTask ==
  /\ releases > 0
  /\ releases' = releases - 1
  /\ Release(AttentionIdle)
  /\ UNCHANGED <<phase, goalVars, scheduled, events, operatorVars, jobWork>>

-----------------------------------------------------------------------------
(***************************************************************************)
(* The initiative episode.  Its requests to the provider are the stages;   *)
(* in each the model may use one capability (execute_tool), and what it    *)
(* did decides which request comes next.                                   *)
(***************************************************************************)
\* The episode closes, its task is done: _attention_done.
EndEpisode ==
  /\ releases < MaxReleases
  /\ episode' = NoEpisode
  /\ releases' = IF Running THEN releases + 1 ELSE releases

\* _reflect's first step, which is a loop turn after the acceptance.
BeginEpisode ==
  /\ episode.task = "created"
  /\ IF GoalIsLive(episode.goal)
     THEN episode' = [episode EXCEPT !.task = "running"] /\ UNCHANGED releases
     ELSE EndEpisode
  /\ UNCHANGED <<phase, goalVars, followupVars, events, operatorVars, jobWork>>

Deciding == episode.task = "running" /\ ~episode.used /\ episode.stage # "outcome"
Live == Running /\ GoalIsLive(episode.goal)

\* effect_tools
EffectTools ==
  IF ~Running \/ goal = None THEN {}
  ELSE IF followup = NoFollowup THEN EffectNames ELSE EffectNames \ {"schedule_followup"}

\* _effect_tools_for_episode, and continuation_tools for the second effect.
ToolsFor(e) ==
  IF e.effects = <<>> THEN EffectTools ELSE EffectTools \ {e.effects[1].name}

\* execute_tool with a read-only capability: even a rejected one is counted.
Acquire ==
  /\ Deciding /\ episode.stage \in {"initial", "followup"}
  /\ episode' = [episode EXCEPT !.used = TRUE, !.acquisitions = @ + 1]
  /\ UNCHANGED <<phase, goalVars, followupVars, events, operatorVars, jobWork, releases>>

EffectDone(name, applied) ==
  episode' = [episode EXCEPT !.used = TRUE,
                             !.effects = Append(@, [name |-> name, applied |-> applied])]

\* execute_tool with an effect: the goal and the projection are tested again.
UseEffect(name) ==
  LET permitted == Live /\ name \in ToolsFor(episode)
  IN  /\ Deciding
      /\ \/ /\ permitted /\ name = "schedule_followup"
            /\ \E p \in Purposes : Schedule(p)
            /\ EffectDone(name, TRUE)
         \/ /\ permitted /\ name # "schedule_followup"
            /\ \E applied \in BOOLEAN : EffectDone(name, applied)
            /\ UNCHANGED followupVars
         \/ /\ ~permitted
            /\ IF episode.stage \in {"initial", "continuation"}
               THEN EffectDone(name, FALSE)
               ELSE episode' = [episode EXCEPT !.used = TRUE]
            /\ UNCHANGED followupVars
      /\ UNCHANGED <<phase, goalVars, events, operatorVars, jobWork, releases>>

Continues(e) ==
  e.effects # <<>> /\ e.effects[1].applied /\ Live /\ ToolsFor(e) # {}

\* _run_initiative_episode between its requests.
NextStage(e) ==
  CASE e.stage = "initial" /\ e.acquisitions > 0 /\ Live -> "followup"
    [] e.stage = "followup" /\ e.acquisitions = 2 /\ GoalIsLive(e.goal) -> "final"
    [] e.stage \in {"initial", "followup", "final"} /\ Continues(e) -> "continuation"
    [] e.stage # "outcome" /\ e.effects # <<>> /\ Live -> "outcome"
    [] OTHER -> "done"

\* The provider returns: the next request is made in the same step.
RequestReturns ==
  /\ episode.task = "running"
  /\ IF NextStage(episode) = "done" THEN EndEpisode
     ELSE /\ episode' = [episode EXCEPT !.stage = NextStage(episode), !.used = FALSE]
          /\ UNCHANGED releases
  /\ UNCHANGED <<phase, goalVars, followupVars, events, operatorVars, jobWork>>

\* The provider raises, in whichever stage: what was done stays done.
RequestFails ==
  /\ episode.task = "running"
  /\ EndEpisode
  /\ UNCHANGED <<phase, goalVars, followupVars, events, operatorVars, jobWork>>

AllApplied == \A i \in DOMAIN episode.effects : episode.effects[i].applied

\* outcome_tools and _execute_outcome_tool: complete_goal.
CompleteGoal ==
  /\ episode.task = "running" /\ episode.stage = "outcome"
  /\ AllApplied /\ Live /\ ~bound
  /\ LoseGoal
  /\ episode' = [episode EXCEPT !.closure = TRUE]
  /\ UNCHANGED <<phase, events, operatorVars, jobWork, releases>>

-----------------------------------------------------------------------------
(***************************************************************************)
(* Operator turns: at most three decisions, all but the last of which      *)
(* acquire something, and in each one capability.                          *)
(***************************************************************************)
NobodyActive == \A o \in Operators : operator[o] # "active"

OperatorArrives(o) ==
  /\ Running /\ operator[o] = "idle"
  /\ IF NobodyActive
     THEN operator' = [operator EXCEPT ![o] = "active"] /\ turn' = NewTurn(0)
     ELSE operator' = [operator EXCEPT ![o] = "waiting"] /\ UNCHANGED turn
  /\ UNCHANGED <<phase, goalVars, followupVars, events, jobWork, episode, releases>>

\* start_operator returns; request_cognition gives up if stop() has begun.
OperatorAdmitted(o) ==
  /\ operator[o] = "waiting" /\ NobodyActive
  /\ IF Running
     THEN operator' = [operator EXCEPT ![o] = "active"] /\ turn' = NewTurn(0)
     ELSE operator' = [operator EXCEPT ![o] = "idle"] /\ UNCHANGED turn
  /\ UNCHANGED <<phase, goalVars, followupVars, events, jobWork, episode, releases>>

\* The task that waits is cancelled.
OperatorWaitCancelled(o) ==
  /\ operator[o] = "waiting"
  /\ operator' = [operator EXCEPT ![o] = "idle"]
  /\ UNCHANGED <<phase, goalVars, followupVars, events, turn, jobWork, episode, releases>>

OperatorDeciding == ~NobodyActive /\ ~turn.used /\ Running
\* The decision is taken: what it was grounded in no longer matters.
UseTurn(acquired) ==
  turn' = [NoTurn EXCEPT !.stage = turn.stage, !.used = TRUE, !.acquired = acquired]

OperatorAcquires ==
  /\ OperatorDeciding /\ turn.stage < 2
  /\ UseTurn(TRUE)
  /\ UNCHANGED <<phase, goalVars, followupVars, events, operator, jobWork, episode, releases>>

\* set_goal, offered only when there was no goal.
OperatorSetsGoal ==
  /\ OperatorDeciding /\ turn.grounded = None
  /\ SetGoal(FALSE)
  /\ UseTurn(FALSE)
  /\ UNCHANGED <<phase, followupVars, events, operator, jobWork, episode, releases>>

\* resolve_goal, of the goal the decision was grounded in.
OperatorResolvesGoal ==
  /\ OperatorDeciding /\ turn.grounded # None
  /\ GoalIsLive(turn.grounded) /\ ~bound
  /\ LoseGoal
  /\ UseTurn(FALSE)
  /\ UNCHANGED <<phase, events, operator, jobWork, episode, releases>>

OperatorSchedulesUnchecked ==
  /\ OperatorDeciding /\ turn.maySchedule
  /\ \E p \in Purposes : Schedule(p)
  /\ UseTurn(FALSE)
  /\ UNCHANGED <<phase, goalVars, events, operator, jobWork, episode, releases>>

\* schedule_followup with expected_goal
OperatorSchedules ==
  /\ OperatorDeciding /\ turn.maySchedule
  /\ goal = turn.grounded
  /\ \E p \in Purposes : Schedule(p)
  /\ UseTurn(FALSE)
  /\ UNCHANGED <<phase, goalVars, events, operator, jobWork, episode, releases>>

\* The provider returns after an acquisition: a fresh decision.
OperatorNextDecision ==
  /\ ~NobodyActive /\ Running
  /\ turn.acquired /\ turn.stage < 2
  /\ turn' = NewTurn(turn.stage + 1)
  /\ UNCHANGED <<phase, goalVars, followupVars, events, operator, jobWork, episode, releases>>

OperatorLeaves(o) ==
  /\ operator[o] = "active"
  /\ operator' = [operator EXCEPT ![o] = "idle"]
  /\ turn' = NoTurn

OperatorEndsUnreleased(o) ==
  /\ OperatorLeaves(o)
  /\ UNCHANGED <<phase, goalVars, followupVars, events, jobWork, episode, releases>>

\* _finish_operator_episode, whether the turn is answered, cancelled or fails.
OperatorEnds(o) ==
  /\ OperatorLeaves(o)
  /\ Release(/\ Running /\ jobWork = {} /\ episode = NoEpisode
             /\ \A q \in Operators \ {o} : operator[q] = "idle")
  /\ UNCHANGED <<phase, goalVars, scheduled, events, jobWork, releases>>

-----------------------------------------------------------------------------
\* Job work, as attention sees it.
JobWorkBegins(w) ==
  /\ Running /\ w \notin jobWork
  /\ NoOperator(operator) /\ episode = NoEpisode
  /\ jobWork' = jobWork \cup {w}
  /\ UNCHANGED <<phase, goalVars, followupVars, events, operatorVars, episode, releases>>

\* _finish_job_work_episode
JobWorkEnds(w) ==
  /\ w \in jobWork
  /\ jobWork' = jobWork \ {w}
  /\ Release(Running /\ jobWork = {w} /\ episode = NoEpisode /\ NoOperator(operator))
  /\ UNCHANGED <<phase, goalVars, scheduled, events, operatorVars, releases>>

\* _run_automatic_job_work finds its binding changed and closes the episode.
JobWorkDiscarded(w) ==
  /\ w \in jobWork
  /\ jobWork' = jobWork \ {w}
  /\ UNCHANGED <<phase, goalVars, followupVars, events, operatorVars, episode, releases>>

-----------------------------------------------------------------------------
\* stop(): operators and Job work are cancelled and joined, then the follow-up, ...
BeginStop ==
  /\ Running
  /\ phase' = "stopping"
  /\ UNCHANGED <<goalVars, followupVars, events, operatorVars, jobWork, episode, releases>>

StopTemporal ==
  /\ phase = "stopping"
  /\ NobodyActive /\ jobWork = {}
  /\ phase' = "untimed"
  /\ followup' = NoFollowup
  /\ UNCHANGED <<goalVars, scheduled, events, operatorVars, jobWork, episode, releases>>

\* ... and last the attention controller with its task and its subscriptions.
StopAttention ==
  /\ phase = "untimed"
  /\ phase' = "stopped"
  /\ events' = <<>>
  /\ episode' = NoEpisode
  /\ UNCHANGED <<goalVars, followupVars, operatorVars, jobWork, releases>>

-----------------------------------------------------------------------------
Next ==
  \/ TimerEnds \/ HandleDueEvent \/ ReleaseTask \/ Observe
  \/ ConsoleClearsGoal \/ ConsoleClearsFollowup \/ TaskSetsGoal \/ TaskReleasesGoal
  \/ BeginEpisode \/ Acquire \/ RequestReturns \/ RequestFails \/ CompleteGoal
  \/ \E name \in EffectNames : UseEffect(name)
  \/ \E o \in Operators : OperatorArrives(o) \/ OperatorAdmitted(o)
  \/ \E o \in Operators : OperatorWaitCancelled(o) \/ OperatorEnds(o)
  \/ OperatorAcquires \/ OperatorSetsGoal \/ OperatorResolvesGoal \/ OperatorSchedules
  \/ OperatorNextDecision
  \/ \E w \in JobWorkers : JobWorkBegins(w) \/ JobWorkEnds(w) \/ JobWorkDiscarded(w)
  \/ BeginStop \/ StopTemporal \/ StopAttention

Spec == Init /\ [][Next]_vars

-----------------------------------------------------------------------------
\* The one slot never keeps a follow-up whose goal is gone, or nothing could be
\* scheduled again: every way a goal ends takes its follow-up along.
FollowupHasItsGoal ==
  Running /\ followup # NoFollowup => followup.goal = goal /\ followup.state # "lapsed"

\* The follow-up is due and attention idle, but nothing is under way to deliver it.
OfferUnderWay ==
  releases > 0 \/ \E i \in DOMAIN events :
                     events[i] = [goal |-> followup.goal, purpose |-> followup.purpose]
Stranded == Running /\ followup.state = "due" /\ AttentionIdle /\ ~OfferUnderWay

\* However attention becomes idle, the due follow-up it deferred is delivered then
\* or still to be offered.  Two ways do not offer it (attention.py:175, app.py:3146):
\* a wait that is cancelled after its lane was freed for it, and Job work that is
\* discarded because its occurrence changed before the work's first step.
DueOfferedAgain ==
  [][~Stranded /\ Stranded' =>
       \/ \E w \in JobWorkers : JobWorkDiscarded(w)
       \/ \E o \in Operators : OperatorWaitCancelled(o)]_vars

\* A follow-up is delivered once, to an episode for its very goal, and never beside
\* operators or Job work, although events of cancelled ones may still be queued.
DeliveredOnce ==
  [][episode = NoEpisode /\ episode'.kind = "followup" =>
       /\ followup.state = "due" /\ followup' = NoFollowup
       /\ episode'.goal = followup.goal /\ goal = followup.goal
       /\ NoOperator(operator') /\ jobWork' = {}]_vars

\* Whoever decides, on what it was shown before the provider was asked, schedules
\* for and completes only that goal, not one that has replaced it since.
DecisionsKeepTheirGoal ==
  [][/\ followup = NoFollowup /\ followup' # NoFollowup =>
          /\ turn' # turn => goal = turn.grounded
          /\ episode' # episode => goal = episode.goal
     /\ ~episode.closure /\ episode'.closure => goal = episode.goal /\ AllApplied]_vars
=============================================================================
