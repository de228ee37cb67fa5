------------------------ MODULE GoalAttention_proofs ------------------------
(***************************************************************************)
(* Theorems about GoalAttention for any number of operators, workers,      *)
(* goals, follow-ups and release tasks: the one follow-up slot never       *)
(* outlives its goal, a due follow-up is delivered once and offered again, *)
(* and no decision acts on a goal that has replaced its own.               *)
(*                                                                         *)
(* The argument.  All of it rests on one invariant, FollowupBound: while   *)
(* the lifecycle runs, a follow-up in the slot belongs to the active goal, *)
(* and there is one.  That there is one has to be carried along: a goal    *)
(* may only be set when there is none, and that this leaves no follow-up   *)
(* of an earlier goal behind is known only if none of them is goalless.    *)
(***************************************************************************)
EXTENDS GoalAttention, TLAPS

-----------------------------------------------------------------------------
Phases == {"running", "stopping", "untimed", "stopped"}
FollowupStates == {"none", "sleeping", "due", "lapsed"}
OperatorStates == {"idle", "waiting", "active"}
EpisodeTasks == {"none", "created", "running"}
EpisodeKinds == {"none", "followup", "observation"}
Followups == [state : FollowupStates, goal : Nat, purpose : Nat]
DueEvents == [goal : Nat, purpose : Nat]
Turns == [grounded : Nat, stage : 0 .. 2, used : BOOLEAN, acquired : BOOLEAN,
          maySchedule : BOOLEAN]
Effects == [name : EffectNames, applied : BOOLEAN]
Episodes == [task : EpisodeTasks, kind : EpisodeKinds, goal : Nat, stage : Stages,
             used : BOOLEAN, acquisitions : Nat, effects : Seq(Effects), closure : BOOLEAN]

\* The state of the lifecycle, of the goal and of the follow-up slot ...
SlotType ==
  /\ phase \in Phases
  /\ goal \in Nat /\ goals \in Nat /\ bound \in BOOLEAN
  /\ followup \in Followups /\ scheduled \in Nat
  /\ events \in Seq(DueEvents)

\* ... and of those who take part.
ActorType ==
  /\ operator \in [Operators -> OperatorStates]
  /\ turn \in Turns
  /\ jobWork \subseteq JobWorkers
  /\ episode \in Episodes
  /\ releases \in Nat

TypeOK == SlotType /\ ActorType

\* While the lifecycle runs, the follow-up in the slot is one of the active goal.
FollowupBound ==
  Running /\ followup # NoFollowup =>
    goal # None /\ followup.goal = goal /\ followup.state # "lapsed"

IInv == TypeOK /\ FollowupBound

-----------------------------------------------------------------------------
\* The empty and fresh records are of their types (NoFollowup, NewFollowup, NoTurn,
\* NewTurn, NoEpisode, NewEpisode).
LEMMA FreshRecords ==
  ASSUME goal \in Nat
  PROVE  /\ NoFollowup \in Followups
         /\ \A p \in Purposes : NewFollowup(goal, p) \in Followups
         /\ NoTurn \in Turns
         /\ \A k \in 0 .. 2 : NewTurn(k) \in Turns
         /\ NoEpisode \in Episodes
         /\ NewEpisode("followup") \in Episodes /\ NewEpisode("observation") \in Episodes
<1>1. NoFollowup \in Followups
  BY DEF NoFollowup, Followups, FollowupStates, None
<1>2. \A p \in Purposes : NewFollowup(goal, p) \in Followups
  BY PurposesAssumption DEF NewFollowup, Followups, FollowupStates
<1>3. NoTurn \in Turns
  BY DEF NoTurn, Turns, None
<1>4. \A k \in 0 .. 2 : NewTurn(k) \in Turns
  BY <1>3 DEF NewTurn, Turns
<1>5. NoEpisode \in Episodes
  BY DEF NoEpisode, Episodes, EpisodeTasks, EpisodeKinds, Stages, None
<1>6. NewEpisode("followup") \in Episodes /\ NewEpisode("observation") \in Episodes
  BY <1>5 DEF NewEpisode, Episodes, EpisodeTasks, EpisodeKinds
<1>. QED BY <1>1, <1>2, <1>3, <1>4, <1>5, <1>6

\* A follow-up that becomes due or lapses stays of its type (_wait).
LEMMA FollowupEdits ==
  ASSUME followup \in Followups
  PROVE  \A t \in FollowupStates : [followup EXCEPT !.state = t] \in Followups
BY DEF Followups

\* The same of an episode (execute_tool, _run_initiative_episode) ...
LEMMA EpisodeEdits ==
  ASSUME episode \in Episodes
  PROVE  /\ [episode EXCEPT !.task = "running"] \in Episodes
         /\ [episode EXCEPT !.used = TRUE] \in Episodes
         /\ [episode EXCEPT !.used = TRUE, !.acquisitions = @ + 1] \in Episodes
         /\ [episode EXCEPT !.closure = TRUE] \in Episodes
         /\ \A t \in Stages : [episode EXCEPT !.stage = t, !.used = FALSE] \in Episodes
         /\ \A n \in EffectNames, b \in BOOLEAN : EffectDone(n, b) => episode' \in Episodes
<1>1. [episode EXCEPT !.task = "running"] \in Episodes
  BY DEF Episodes, EpisodeTasks
<1>2. [episode EXCEPT !.used = TRUE] \in Episodes
  BY DEF Episodes
<1>3. [episode EXCEPT !.used = TRUE, !.acquisitions = @ + 1] \in Episodes
  <2>1. episode.acquisitions + 1 \in Nat
    BY DEF Episodes
  <2>. QED BY <2>1 DEF Episodes
<1>4. [episode EXCEPT !.closure = TRUE] \in Episodes
  BY DEF Episodes
<1>5. \A t \in Stages : [episode EXCEPT !.stage = t, !.used = FALSE] \in Episodes
  BY DEF Episodes
<1>6. ASSUME NEW n \in EffectNames, NEW b \in BOOLEAN, EffectDone(n, b)
      PROVE  episode' \in Episodes
  <2>1. [name |-> n, applied |-> b] \in Effects
    BY DEF Effects
  <2>2. episode.effects \in Seq(Effects)
    BY DEF Episodes
  <2>3. Append(episode.effects, [name |-> n, applied |-> b]) \in Seq(Effects)
    BY <2>1, <2>2
  <2>. QED BY <1>6, <2>3 DEF EffectDone, Episodes
<1>. QED BY <1>1, <1>2, <1>3, <1>4, <1>5, <1>6

\* ... and of a turn whose decision is taken.
LEMMA TurnEdits ==
  ASSUME turn \in Turns
  PROVE  \A b \in BOOLEAN : UseTurn(b) => turn' \in Turns
<1>. TAKE b \in BOOLEAN
<1>. HAVE UseTurn(b)
<1>1. turn.stage \in 0 .. 2
  BY DEF Turns
<1>2. NoTurn \in Turns
  BY DEF NoTurn, Turns, None
<1>. QED BY <1>1, <1>2 DEF UseTurn, Turns

\* However a due follow-up is claimed (claim_due and _consider), the slot and the
\* episode stay of their types.
LEMMA ClaimTypes ==
  ASSUME TypeOK, NEW g, NEW p, ClaimAndDeliver(g, p)
  PROVE  followup' \in Followups /\ episode' \in Episodes
BY FreshRecords DEF ClaimAndDeliver, TypeOK, SlotType, ActorType

\* The same of the offer a task makes when it leaves a lane (_release_temporal_due).
LEMMA ReleaseTypes ==
  ASSUME TypeOK, NEW idle, Release(idle)
  PROVE  followup' \in Followups /\ episode' \in Episodes
BY ClaimTypes DEF Release, TypeOK, SlotType, ActorType

\* Every step keeps the types: the first half of the invariant.
LEMMA TypeStep == TypeOK /\ [Next]_vars => TypeOK'
<1>. SUFFICES ASSUME TypeOK, [Next]_vars PROVE TypeOK'
  OBVIOUS
<1>. USE FreshRecords DEF TypeOK, SlotType, ActorType, goalVars, followupVars, operatorVars
<1>1. CASE TimerEnds
  <2>1. followup' \in Followups
    BY <1>1, FollowupEdits DEF TimerEnds, FollowupStates
  <2>2. [goal |-> goal, purpose |-> followup.purpose] \in DueEvents
    BY DEF DueEvents, Followups
  <2>3. events' \in Seq(DueEvents)
    BY <1>1, <2>2 DEF TimerEnds
  <2>. QED BY <1>1, <2>1, <2>3 DEF TimerEnds
<1>2. CASE HandleDueEvent
  BY <1>2, ClaimTypes DEF HandleDueEvent
<1>3. CASE ReleaseTask
  BY <1>3, ReleaseTypes DEF ReleaseTask
<1>4. CASE Observe
  BY <1>4 DEF Observe
<1>5. CASE ConsoleClearsGoal \/ ConsoleClearsFollowup \/ TaskReleasesGoal
  <2>1. CASE ConsoleClearsGoal
    BY <2>1 DEF ConsoleClearsGoal, LoseGoal, None
  <2>2. CASE TaskReleasesGoal
    BY <2>2 DEF TaskReleasesGoal, LoseGoal, None
  <2>3. CASE ConsoleClearsFollowup
    BY <2>3 DEF ConsoleClearsFollowup
  <2>. QED BY <1>5, <2>1, <2>2, <2>3
<1>6. CASE TaskSetsGoal
  BY <1>6 DEF TaskSetsGoal, SetGoal
<1>7. CASE BeginEpisode
  <2>1. CASE episode' = NoEpisode
    BY <1>7, <2>1 DEF BeginEpisode, EndEpisode
  <2>2. CASE episode' = [episode EXCEPT !.task = "running"]
    <3>1. episode' \in Episodes
      BY <2>2, EpisodeEdits
    <3>. QED BY <1>7, <3>1 DEF BeginEpisode, EndEpisode
  <2>. QED BY <1>7, <2>1, <2>2 DEF BeginEpisode, EndEpisode
<1>8. CASE Acquire
  BY <1>8, EpisodeEdits DEF Acquire
<1>9. CASE RequestReturns
  <2>1. NextStage(episode) # "done" => NextStage(episode) \in Stages
    BY <1>9 DEF NextStage, Stages
  <2>2. episode' \in Episodes
    BY <1>9, <2>1, EpisodeEdits DEF RequestReturns, EndEpisode
  <2>. QED BY <1>9, <2>2 DEF RequestReturns, EndEpisode
<1>10. CASE RequestFails
  BY <1>10 DEF RequestFails, EndEpisode
<1>11. CASE CompleteGoal
  BY <1>11, EpisodeEdits DEF CompleteGoal, LoseGoal, None
<1>12. ASSUME NEW name \in EffectNames, UseEffect(name) PROVE TypeOK'
  <2>1. ASSUME NEW applied \in BOOLEAN, EffectDone(name, applied) PROVE episode' \in Episodes
    BY <2>1, EpisodeEdits
  <2>2. [episode EXCEPT !.used = TRUE] \in Episodes
    BY EpisodeEdits
  <2>3. ASSUME NEW p \in Purposes, Schedule(p)
        PROVE  followup' \in Followups /\ scheduled' \in Nat
    BY <2>3 DEF Schedule
  <2>. QED BY <1>12, <2>1, <2>2, <2>3 DEF UseEffect
<1>13. ASSUME NEW o \in Operators, OperatorArrives(o) \/ OperatorAdmitted(o) PROVE TypeOK'
  BY <1>13 DEF OperatorArrives, OperatorAdmitted, OperatorStates
<1>14. ASSUME NEW o \in Operators, OperatorWaitCancelled(o) PROVE TypeOK'
  BY <1>14 DEF OperatorWaitCancelled, OperatorStates
<1>15. ASSUME NEW o \in Operators, OperatorEnds(o) PROVE TypeOK'
  <2>1. followup' \in Followups /\ episode' \in Episodes
    BY <1>15, ReleaseTypes DEF OperatorEnds
  <2>. QED BY <1>15, <2>1 DEF OperatorEnds, OperatorLeaves, OperatorStates
<1>16. CASE OperatorAcquires
  BY <1>16, TurnEdits DEF OperatorAcquires
<1>17. CASE OperatorSetsGoal
  <2>1. turn' \in Turns
    BY <1>17, TurnEdits DEF OperatorSetsGoal
  <2>2. goal' \in Nat /\ goals' \in Nat
    BY <1>17 DEF OperatorSetsGoal, SetGoal
  <2>3. bound' \in BOOLEAN
    BY <1>17 DEF OperatorSetsGoal, SetGoal
  <2>. QED BY <1>17, <2>1, <2>2, <2>3 DEF OperatorSetsGoal
<1>18. CASE OperatorResolvesGoal
  BY <1>18, TurnEdits DEF OperatorResolvesGoal, LoseGoal, None
<1>19. CASE OperatorSchedules
  <2>1. turn' \in Turns
    BY <1>19, TurnEdits DEF OperatorSchedules
  <2>2. followup' \in Followups /\ scheduled' \in Nat
    BY <1>19 DEF OperatorSchedules, Schedule
  <2>. QED BY <1>19, <2>1, <2>2 DEF OperatorSchedules, Schedule
<1>20. CASE OperatorNextDecision
  <2>1. turn.stage + 1 \in 0 .. 2
    BY <1>20 DEF OperatorNextDecision, Turns
  <2>. QED BY <1>20, <2>1 DEF OperatorNextDecision
<1>21. ASSUME NEW w \in JobWorkers, JobWorkBegins(w) \/ JobWorkDiscarded(w) PROVE TypeOK'
  BY <1>21 DEF JobWorkBegins, JobWorkDiscarded
<1>22. ASSUME NEW w \in JobWorkers, JobWorkEnds(w) PROVE TypeOK'
  <2>1. followup' \in Followups /\ episode' \in Episodes
    BY <1>22, ReleaseTypes DEF JobWorkEnds
  <2>. QED BY <1>22, <2>1 DEF JobWorkEnds
<1>23. CASE BeginStop \/ StopTemporal \/ StopAttention
  <2>1. CASE BeginStop
    BY <2>1 DEF BeginStop, Phases
  <2>2. CASE StopTemporal
    BY <2>2 DEF StopTemporal, Phases
  <2>3. CASE StopAttention
    BY <2>3 DEF StopAttention, Phases
  <2>. QED BY <1>23, <2>1, <2>2, <2>3
<1>24. CASE UNCHANGED vars
  BY <1>24 DEF vars
<1>. QED
  BY <1>1, <1>2, <1>3, <1>4, <1>5, <1>6, <1>7, <1>8, <1>9, <1>10, <1>11, <1>12, <1>13,
     <1>14, <1>15, <1>16, <1>17, <1>18, <1>19, <1>20, <1>21, <1>22, <1>23, <1>24 DEF Next

-----------------------------------------------------------------------------
\* A claim empties the slot or leaves it as it was.
LEMMA ClaimSlot ==
  ASSUME NEW g, NEW p, ClaimAndDeliver(g, p)
  PROVE  followup' \in {followup, NoFollowup}
BY DEF ClaimAndDeliver

\* So does the offer made at the end of an episode.
LEMMA ReleaseSlot ==
  ASSUME NEW idle, Release(idle)
  PROVE  followup' \in {followup, NoFollowup}
BY ClaimSlot DEF Release

\* Every step keeps the follow-up bound to the active goal: whatever ends a goal empties
\* the slot in the same step, and only the active goal's follow-up is ever scheduled.
LEMMA FollowupStep == IInv /\ [Next]_vars => FollowupBound'
<1>. SUFFICES ASSUME IInv, [Next]_vars PROVE FollowupBound'
  OBVIOUS
<1>. USE DEF IInv, TypeOK, SlotType, FollowupBound, Running, goalVars, followupVars
<1>1. CASE TimerEnds
  BY <1>1 DEF TimerEnds, Followups, NoFollowup
<1>2. CASE HandleDueEvent
  BY <1>2, ClaimSlot DEF HandleDueEvent
<1>3. CASE ReleaseTask
  BY <1>3, ReleaseSlot DEF ReleaseTask
<1>4. CASE Observe \/ BeginEpisode \/ Acquire \/ RequestReturns \/ RequestFails
  BY <1>4 DEF Observe, BeginEpisode, Acquire, RequestReturns, RequestFails
<1>5. CASE ConsoleClearsGoal \/ ConsoleClearsFollowup \/ TaskReleasesGoal \/ CompleteGoal
  BY <1>5 DEF ConsoleClearsGoal, ConsoleClearsFollowup, TaskReleasesGoal, CompleteGoal, LoseGoal
<1>6. CASE TaskSetsGoal \/ OperatorSetsGoal
  BY <1>6 DEF TaskSetsGoal, OperatorSetsGoal, SetGoal
<1>7. ASSUME NEW p \in Purposes, Schedule(p), UNCHANGED <<phase, goal>>
      PROVE  FollowupBound'
  BY <1>7 DEF Schedule, NewFollowup
<1>8. ASSUME NEW name \in EffectNames, UseEffect(name) PROVE FollowupBound'
  BY <1>7, <1>8 DEF UseEffect
<1>9. CASE OperatorSchedules
  BY <1>7, <1>9 DEF OperatorSchedules
<1>10. CASE OperatorResolvesGoal
  BY <1>10 DEF OperatorResolvesGoal, LoseGoal
<1>11. ASSUME NEW o \in Operators,
              OperatorArrives(o) \/ OperatorAdmitted(o) \/ OperatorWaitCancelled(o)
       PROVE  FollowupBound'
  BY <1>11 DEF OperatorArrives, OperatorAdmitted, OperatorWaitCancelled
<1>12. ASSUME NEW o \in Operators, OperatorEnds(o) PROVE FollowupBound'
  BY <1>12, ReleaseSlot DEF OperatorEnds
<1>13. CASE OperatorAcquires \/ OperatorNextDecision
  BY <1>13 DEF OperatorAcquires, OperatorNextDecision
<1>14. ASSUME NEW w \in JobWorkers, JobWorkBegins(w) \/ JobWorkDiscarded(w)
       PROVE  FollowupBound'
  BY <1>14 DEF JobWorkBegins, JobWorkDiscarded
<1>15. ASSUME NEW w \in JobWorkers, JobWorkEnds(w) PROVE FollowupBound'
  BY <1>15, ReleaseSlot DEF JobWorkEnds
<1>16. CASE BeginStop \/ StopTemporal \/ StopAttention
  BY <1>16 DEF BeginStop, StopTemporal, StopAttention
<1>17. CASE UNCHANGED vars
  BY <1>17 DEF vars
<1>. QED
  BY <1>1, <1>2, <1>3, <1>4, <1>5, <1>6, <1>8, <1>9, <1>10, <1>11, <1>12, <1>13, <1>14,
     <1>15, <1>16, <1>17 DEF Next

\* A runtime that has just started satisfies the invariant.
LEMMA Initially == Init => IInv
<1>. SUFFICES ASSUME Init PROVE IInv
  OBVIOUS
<1>1. goal \in Nat
  BY DEF Init, None
<1>2. SlotType
  <2>1. goal \in Nat /\ goals \in Nat /\ scheduled \in Nat
    BY DEF Init, None
  <2>2. bound \in BOOLEAN
    BY DEF Init
  <2>3. followup \in Followups /\ events \in Seq(DueEvents)
    BY <1>1, FreshRecords DEF Init
  <2>. QED BY <2>1, <2>2, <2>3 DEF Init, SlotType, Phases
<1>3. ActorType
  BY <1>1, FreshRecords DEF Init, ActorType, OperatorStates
<1>4. TypeOK
  BY <1>2, <1>3 DEF TypeOK
<1>. QED BY <1>4 DEF Init, IInv, FollowupBound

\* The inductive invariant holds in every reachable state.
THEOREM Inductive == Spec => []IInv
<1>1. IInv /\ [Next]_vars => IInv'
  BY TypeStep, FollowupStep DEF IInv
<1>. QED BY Initially, <1>1, PTL DEF Spec

\* The follow-up slot is never blocked by the follow-up of a goal that is gone, whichever
\* of resolve_goal, clear_goal, complete_goal and the end of a Task took the goal away
\* (app.py), and whenever the timer runs out (temporal.py, _wait).
THEOREM FollowupAlwaysHasItsGoal == Spec => []FollowupHasItsGoal
<1>1. IInv => FollowupHasItsGoal
  BY DEF IInv, FollowupBound, FollowupHasItsGoal
<1>. QED BY Inductive, <1>1, PTL

-----------------------------------------------------------------------------
\* The episodes that begin and end, as the properties of a step tell them apart.
LEMMA EpisodeKindOf ==
  /\ NoEpisode.kind = "none" /\ NoEpisode.task = "none" /\ ~NoEpisode.closure
  /\ NewEpisode("followup").goal = goal /\ NewEpisode("followup").kind = "followup"
  /\ NewEpisode("observation").kind = "observation"
  /\ NewEpisode("followup") # NoEpisode /\ NewEpisode("observation") # NoEpisode
BY DEF NoEpisode, NewEpisode

\* What a step may do to begin an episode for a follow-up.
Delivers ==
  episode = NoEpisode /\ episode'.kind = "followup" =>
    /\ followup.state = "due" /\ followup' = NoFollowup
    /\ episode'.goal = followup.goal /\ goal = followup.goal
    /\ NoOperator(operator') /\ jobWork' = {}

\* A claim that makes an episode makes it of the due follow-up and of its goal, and it
\* empties the slot (claim_due and _consider in one step).
LEMMA ClaimDelivers ==
  ASSUME NEW g, NEW p, ClaimAndDeliver(g, p), episode = NoEpisode, episode'.kind = "followup"
  PROVE  /\ followup.state = "due" /\ followup' = NoFollowup
         /\ episode'.goal = followup.goal /\ goal = followup.goal
<1>1. ~Refused(g, p) /\ followup' = NoFollowup
  BY EpisodeKindOf DEF ClaimAndDeliver
<1>2. Running /\ goal = followup.goal /\ episode' = NewEpisode("followup")
  BY <1>1, EpisodeKindOf DEF ClaimAndDeliver
<1>. QED BY <1>1, <1>2, EpisodeKindOf DEF Refused

\* An offer that makes an episode found the lanes idle.
LEMMA ReleaseDelivers ==
  ASSUME NEW idle, Release(idle), episode = NoEpisode, episode'.kind = "followup"
  PROVE  /\ idle
         /\ followup.state = "due" /\ followup' = NoFollowup
         /\ episode'.goal = followup.goal /\ goal = followup.goal
<1>1. idle /\ ClaimAndDeliver(goal, None)
  BY EpisodeKindOf DEF Release
<1>. QED BY <1>1, ClaimDelivers

\* A follow-up is delivered at most once and only to an episode that is for its own goal and
\* has attention to itself: neither a stale TemporalFollowupDue event nor the offers at the
\* end of operator turns, Job work and episodes deliver another (app.py,
\* _release_temporal_due; attention.py, _consider).
THEOREM AlwaysDeliveredOnce == Spec => DeliveredOnce
<1>1. IInv /\ [Next]_vars => Delivers
  <2>. SUFFICES ASSUME TypeOK, [Next]_vars, episode = NoEpisode, episode'.kind = "followup"
                PROVE  /\ followup.state = "due" /\ followup' = NoFollowup
                       /\ episode'.goal = followup.goal /\ goal = followup.goal
                       /\ NoOperator(operator') /\ jobWork' = {}
    BY DEF IInv, Delivers
  <2>. USE EpisodeKindOf DEF goalVars, followupVars, operatorVars
  <2>1. CASE HandleDueEvent
    <3>1. AttentionIdle /\ ClaimAndDeliver(Head(events).goal, Head(events).purpose)
      BY <2>1 DEF HandleDueEvent
    <3>2. NoOperator(operator') /\ jobWork' = {}
      BY <2>1, <3>1 DEF HandleDueEvent, AttentionIdle
    <3>. QED BY <3>1, <3>2, ClaimDelivers
  <2>2. CASE ReleaseTask
    <3>1. AttentionIdle /\ Release(AttentionIdle)
      BY <2>2 DEF ReleaseTask, Release
    <3>2. NoOperator(operator') /\ jobWork' = {}
      BY <2>2, <3>1 DEF ReleaseTask, AttentionIdle
    <3>3. ClaimAndDeliver(goal, None)
      BY <3>1 DEF Release
    <3>. QED BY <3>2, <3>3, ClaimDelivers
  <2>3. ASSUME NEW o \in Operators, OperatorEnds(o)
        PROVE  /\ followup.state = "due" /\ followup' = NoFollowup
               /\ episode'.goal = followup.goal /\ goal = followup.goal
               /\ NoOperator(operator') /\ jobWork' = {}
    <3>1. /\ jobWork = {} /\ \A q \in Operators \ {o} : operator[q] = "idle"
          /\ ClaimAndDeliver(goal, None)
      BY <2>3 DEF OperatorEnds, Release
    <3>2. NoOperator(operator') /\ jobWork' = {}
      BY <2>3, <3>1 DEF OperatorEnds, OperatorLeaves, NoOperator, TypeOK, ActorType
    <3>. QED BY <3>1, <3>2, ClaimDelivers
  <2>4. ASSUME NEW w \in JobWorkers, JobWorkEnds(w)
        PROVE  /\ followup.state = "due" /\ followup' = NoFollowup
               /\ episode'.goal = followup.goal /\ goal = followup.goal
               /\ NoOperator(operator') /\ jobWork' = {}
    <3>1. jobWork = {w} /\ NoOperator(operator) /\ ClaimAndDeliver(goal, None)
      BY <2>4 DEF JobWorkEnds, Release
    <3>2. NoOperator(operator') /\ jobWork' = {}
      BY <2>4, <3>1 DEF JobWorkEnds
    <3>. QED BY <3>1, <3>2, ClaimDelivers
  <2>5. ~Observe
    BY DEF Observe
  <2>6. /\ ~BeginEpisode /\ ~Acquire /\ ~RequestReturns /\ ~RequestFails /\ ~CompleteGoal
        /\ \A name \in EffectNames : ~UseEffect(name)
    BY DEF BeginEpisode, Acquire, RequestReturns, RequestFails, CompleteGoal, UseEffect, Deciding
  <2>7. ~TimerEnds /\ ~ConsoleClearsGoal /\ ~ConsoleClearsFollowup /\ ~TaskSetsGoal
        /\ ~TaskReleasesGoal
    BY DEF TimerEnds, ConsoleClearsGoal, ConsoleClearsFollowup, TaskSetsGoal, TaskReleasesGoal
  <2>8. \A o \in Operators :
          ~OperatorArrives(o) /\ ~OperatorAdmitted(o) /\ ~OperatorWaitCancelled(o)
    BY DEF OperatorArrives, OperatorAdmitted, OperatorWaitCancelled
  <2>9. ~OperatorAcquires /\ ~OperatorSetsGoal /\ ~OperatorResolvesGoal /\ ~OperatorSchedules
        /\ ~OperatorNextDecision
    BY DEF OperatorAcquires, OperatorSetsGoal, OperatorResolvesGoal, OperatorSchedules,
           OperatorNextDecision
  <2>10. \A w \in JobWorkers : ~JobWorkBegins(w) /\ ~JobWorkDiscarded(w)
    BY DEF JobWorkBegins, JobWorkDiscarded
  <2>11. ~BeginStop /\ ~StopTemporal /\ ~StopAttention /\ ~UNCHANGED vars
    BY DEF BeginStop, StopTemporal, StopAttention, vars
  <2>. QED
    BY <2>1, <2>2, <2>3, <2>4, <2>5, <2>6, <2>7, <2>8, <2>9, <2>10, <2>11 DEF Next
<1>. QED BY Inductive, <1>1, PTL DEF Spec, DeliveredOnce, Delivers

-----------------------------------------------------------------------------
\* What a step may do to schedule a follow-up and to complete a goal.
Decides ==
  /\ followup = NoFollowup /\ followup' # NoFollowup =>
       /\ turn' # turn => goal = turn.grounded
       /\ episode' # episode => goal = episode.goal
  /\ ~episode.closure /\ episode'.closure => goal = episode.goal /\ AllApplied

\* The edits of an episode other than that of complete_goal leave its closure as it is.
LEMMA ClosureKept ==
  ASSUME episode \in Episodes, ~episode.closure
  PROVE  /\ ~[episode EXCEPT !.task = "running"].closure
         /\ ~[episode EXCEPT !.used = TRUE].closure
         /\ ~[episode EXCEPT !.used = TRUE, !.acquisitions = @ + 1].closure
         /\ ~[episode EXCEPT !.stage = NextStage(episode), !.used = FALSE].closure
         /\ \A n, b : EffectDone(n, b) => ~episode'.closure
         /\ ~NoEpisode.closure
         /\ ~NewEpisode("followup").closure /\ ~NewEpisode("observation").closure
BY DEF Episodes, EffectDone, NoEpisode, NewEpisode

\* The episode a claim makes has closed nothing.
LEMMA ClaimClosure ==
  ASSUME episode \in Episodes, ~episode.closure, NEW g, NEW p, ClaimAndDeliver(g, p)
  PROVE  ~episode'.closure
BY ClosureKept DEF ClaimAndDeliver

\* So does the offer at the end of an episode.
LEMMA ReleaseClosure ==
  ASSUME episode \in Episodes, ~episode.closure, NEW idle, Release(idle)
  PROVE  ~episode'.closure
BY ClaimClosure DEF Release

\* What an operator turn or an initiative episode schedules, and what an episode completes,
\* is for the goal it was shown, however often the goal was replaced while the provider was
\* asked (app.py, schedule_followup with expected_goal; attention.py, execute_tool).
THEOREM DecisionsAlwaysKeepTheirGoal == Spec => DecisionsKeepTheirGoal
<1>1. IInv /\ [Next]_vars => Decides
  <2>. SUFFICES ASSUME TypeOK, [Next]_vars PROVE Decides
    BY DEF IInv
  <2>. USE DEF Decides, goalVars, followupVars, operatorVars
  <2>0. episode \in Episodes /\ followup \in Followups
    BY DEF TypeOK, SlotType, ActorType
  <2>1. CASE TimerEnds
    BY <2>1 DEF TimerEnds, NoFollowup
  <2>2. CASE HandleDueEvent
    BY <2>0, <2>2, ClaimSlot, ClaimClosure DEF HandleDueEvent
  <2>3. CASE ReleaseTask
    BY <2>0, <2>3, ReleaseSlot, ReleaseClosure DEF ReleaseTask
  <2>4. CASE Observe
    BY <2>0, <2>4, ClosureKept DEF Observe
  <2>5. CASE ConsoleClearsGoal \/ ConsoleClearsFollowup \/ TaskSetsGoal \/ TaskReleasesGoal
    BY <2>5 DEF ConsoleClearsGoal, ConsoleClearsFollowup, TaskSetsGoal, TaskReleasesGoal, LoseGoal
  <2>6. CASE BeginEpisode
    BY <2>0, <2>6, ClosureKept DEF BeginEpisode, EndEpisode
  <2>7. CASE Acquire
    BY <2>0, <2>7, ClosureKept DEF Acquire
  <2>8. CASE RequestReturns
    BY <2>0, <2>8, ClosureKept DEF RequestReturns, EndEpisode
  <2>9. CASE RequestFails
    BY <2>0, <2>9, ClosureKept DEF RequestFails, EndEpisode
  <2>10. CASE CompleteGoal
    BY <2>10 DEF CompleteGoal, LoseGoal, Live, GoalIsLive
  <2>11. ASSUME NEW name \in EffectNames, UseEffect(name) PROVE Decides
    <3>1. ~episode.closure => ~episode'.closure
      BY <2>0, <2>11, ClosureKept DEF UseEffect
    <3>2. followup' # followup => goal = episode.goal
      BY <2>11 DEF UseEffect, Live, GoalIsLive
    <3>3. turn' = turn
      BY <2>11 DEF UseEffect
    <3>. QED BY <3>1, <3>2, <3>3
  <2>12. ASSUME NEW o \in Operators,
                OperatorArrives(o) \/ OperatorAdmitted(o) \/ OperatorWaitCancelled(o)
         PROVE  Decides
    BY <2>12 DEF OperatorArrives, OperatorAdmitted, OperatorWaitCancelled
  <2>13. ASSUME NEW o \in Operators, OperatorEnds(o) PROVE Decides
    BY <2>0, <2>13, ReleaseSlot, ReleaseClosure DEF OperatorEnds
  <2>14. CASE OperatorAcquires \/ OperatorSetsGoal \/ OperatorResolvesGoal
              \/ OperatorNextDecision
    BY <2>14 DEF OperatorAcquires, OperatorSetsGoal, OperatorResolvesGoal, OperatorNextDecision,
                 LoseGoal
  <2>15. CASE OperatorSchedules
    BY <2>15 DEF OperatorSchedules
  <2>16. ASSUME NEW w \in JobWorkers, JobWorkBegins(w) \/ JobWorkDiscarded(w) PROVE Decides
    BY <2>16 DEF JobWorkBegins, JobWorkDiscarded
  <2>17. ASSUME NEW w \in JobWorkers, JobWorkEnds(w) PROVE Decides
    BY <2>0, <2>17, ReleaseSlot, ReleaseClosure DEF JobWorkEnds
  <2>18. CASE BeginStop \/ StopTemporal
    BY <2>18 DEF BeginStop, StopTemporal
  <2>19. CASE StopAttention
    BY <2>0, <2>19, ClosureKept DEF StopAttention
  <2>20. CASE UNCHANGED vars
    BY <2>20 DEF vars
  <2>. QED
    BY <2>1, <2>2, <2>3, <2>4, <2>5, <2>6, <2>7, <2>8, <2>9, <2>10, <2>11, <2>12, <2>13,
       <2>14, <2>15, <2>16, <2>17, <2>18, <2>19, <2>20 DEF Next
<1>. QED BY Inductive, <1>1, PTL DEF Spec, DecisionsKeepTheirGoal, Decides

-----------------------------------------------------------------------------
\* What a step may do to strand a due follow-up.
Strands ==
  ~Stranded /\ Stranded' =>
    \/ \E w \in JobWorkers : JobWorkDiscarded(w)
    \/ \E o \in Operators : OperatorWaitCancelled(o)

\* The event by which the due follow-up is offered.
DueEvent == [goal |-> followup.goal, purpose |-> followup.purpose]

\* A due follow-up of the active goal is never refused to an offer made at the end of an
\* episode, which names no purpose: it leaves the slot.
LEMMA ReleaseOffers ==
  ASSUME followup.state = "due", goal = followup.goal, NEW idle, Release(idle), idle
  PROVE  followup' = NoFollowup
BY DEF Release, ClaimAndDeliver, Refused

\* An empty slot is not due, and an observation's episode is one.
LEMMA NoFollowupNotDue == NoFollowup.state # "due" /\ NewEpisode("observation") # NoEpisode
BY DEF NoFollowup, NewEpisode, NoEpisode

\* Taking the first of the queued events away leaves every other.
LEMMA TailKeeps ==
  ASSUME NEW S, NEW q \in Seq(S), q # <<>>, NEW i \in DOMAIN q, q[i] # Head(q)
  PROVE  Tail(q) \in Seq(S) /\ \E j \in DOMAIN Tail(q) : Tail(q)[j] = q[i]
<1>1. i \in 1 .. Len(q) /\ i # 1
  OBVIOUS
<1>2. i - 1 \in DOMAIN Tail(q) /\ Tail(q)[i - 1] = q[i]
  BY <1>1
<1>. QED BY <1>2

\* An event added leaves every other, and itself is there.
LEMMA AppendKeeps ==
  ASSUME NEW S, NEW q \in Seq(S), NEW e \in S
  PROVE  \E j \in DOMAIN Append(q, e) : Append(q, e)[j] = e
<1>1. Len(q) + 1 \in DOMAIN Append(q, e) /\ Append(q, e)[Len(q) + 1] = e
  OBVIOUS
<1>. QED BY <1>1

\* When attention becomes idle and a due follow-up is left behind, its event is queued or a
\* release task is still to run: only the two ways DueOfferedAgain names leave it without an
\* offer.
THEOREM DueAlwaysOfferedAgain == Spec => DueOfferedAgain
<1>1. IInv /\ [Next]_vars => Strands
  <2>. SUFFICES ASSUME IInv, [Next]_vars, ~Stranded, Stranded',
                       \A w \in JobWorkers : ~JobWorkDiscarded(w),
                       \A o \in Operators : ~OperatorWaitCancelled(o)
                PROVE  FALSE
    BY DEF Strands
  <2>. USE NoFollowupNotDue DEF goalVars, followupVars, operatorVars, None
  <2>1. /\ phase' = "running" /\ followup'.state = "due"
        /\ NoOperator(operator') /\ jobWork' = {} /\ episode' = NoEpisode
        /\ ~(releases' > 0) /\ followup' # NoFollowup
    BY DEF Stranded, AttentionIdle, OfferUnderWay, Running
  <2>2. \A i \in DOMAIN events' : events'[i] # DueEvent'
    BY DEF Stranded, OfferUnderWay, DueEvent
  <2>3. Running /\ followup # NoFollowup => goal # None /\ followup.goal = goal
    BY DEF IInv, FollowupBound
  <2>4. /\ events \in Seq(DueEvents) /\ releases \in Nat /\ followup \in Followups
        /\ operator \in [Operators -> OperatorStates] /\ episode \in Episodes
    BY DEF IInv, TypeOK, SlotType, ActorType
  <2>5. ASSUME Running, followup' = followup, AttentionIdle, events' = events,
               releases' = releases
        PROVE  FALSE
    BY <2>1, <2>2, <2>5 DEF Stranded, OfferUnderWay, DueEvent
  <2>6. CASE TimerEnds
    <3>1. followup' = [followup EXCEPT !.state = "due"]
      BY <2>1, <2>4, <2>6 DEF TimerEnds, Followups
    <3>2. /\ goal = followup.goal
          /\ events' = Append(events, [goal |-> goal, purpose |-> followup.purpose])
      BY <2>1, <2>4, <2>6, <3>1 DEF TimerEnds, Followups
    <3>3. DueEvent' = [goal |-> goal, purpose |-> followup.purpose]
      BY <2>4, <3>1, <3>2 DEF DueEvent, Followups
    <3>4. [goal |-> goal, purpose |-> followup.purpose] \in DueEvents
      BY <2>4, <3>2 DEF DueEvents, Followups
    <3>. QED BY <2>2, <2>4, <3>2, <3>3, <3>4, AppendKeeps
  <2>7. CASE HandleDueEvent
    <3>1. /\ phase = "running" /\ operator' = operator /\ jobWork' = jobWork
          /\ events # <<>> /\ events' = Tail(events) /\ releases' = releases
          /\ followup' \in {followup, NoFollowup}
      BY <2>1, <2>7, ClaimSlot DEF HandleDueEvent
    <3>2. followup' = followup /\ DueEvent' = DueEvent
      BY <2>1, <3>1 DEF DueEvent
    <3>3. episode' = episode /\ AttentionIdle
      <4>1. CASE Head(events).goal = goal /\ AttentionIdle
        BY <2>1, <2>7, <4>1 DEF AttentionIdle
      <4>2. CASE ~(Head(events).goal = goal /\ AttentionIdle)
        BY <2>1, <2>7, <3>1, <4>2 DEF HandleDueEvent, AttentionIdle
      <4>. QED BY <2>1, <4>1, <4>2 DEF AttentionIdle
    <3>4. PICK i \in DOMAIN events : events[i] = DueEvent
      BY <2>1, <3>1, <3>2, <3>3 DEF Stranded, OfferUnderWay, DueEvent, Running
    <3>5. Head(events) # DueEvent
      <4>1. CASE Head(events).goal = goal
        <5>1. Refused(Head(events).goal, Head(events).purpose)
          BY <2>1, <2>7, <3>2, <3>3, <4>1 DEF HandleDueEvent, ClaimAndDeliver
        <5>. QED BY <2>1, <3>2, <5>1 DEF Refused, DueEvent
      <4>2. CASE Head(events).goal # goal
        BY <2>1, <2>3, <3>1, <3>2, <4>2 DEF DueEvent, Running
      <4>. QED BY <4>1, <4>2
    <3>6. \E j \in DOMAIN Tail(events) : Tail(events)[j] = DueEvent
      BY <2>4, <3>1, <3>4, <3>5, TailKeeps
    <3>. QED BY <2>2, <3>1, <3>2, <3>6
  <2>8. CASE ReleaseTask
    <3>1. followup' = followup /\ phase = "running"
      BY <2>1, <2>8, ReleaseSlot DEF ReleaseTask
    <3>2. AttentionIdle
      BY <2>1, <2>8 DEF ReleaseTask, Release, AttentionIdle
    <3>. QED BY <2>1, <2>3, <2>8, <3>1, <3>2, ReleaseOffers DEF ReleaseTask, Running
  <2>9. CASE Observe
    BY <2>1, <2>9 DEF Observe
  <2>10. CASE BeginEpisode \/ RequestReturns \/ RequestFails
    <3>1. CASE EndEpisode /\ UNCHANGED phase
      BY <2>1, <2>4, <3>1 DEF EndEpisode, Running
    <3>2. CASE ~EndEpisode
      <4>1. \/ episode.task = "created" /\ episode' = [episode EXCEPT !.task = "running"]
            \/ /\ episode.task = "running"
               /\ episode' = [episode EXCEPT !.stage = NextStage(episode), !.used = FALSE]
        BY <2>10, <3>2 DEF BeginEpisode, RequestReturns, RequestFails
      <4>2. episode'.task = "running"
        BY <2>4, <4>1 DEF Episodes
      <4>. QED BY <2>1, <4>2, EpisodeKindOf
    <3>. QED BY <2>10, <3>1, <3>2 DEF BeginEpisode, RequestReturns, RequestFails
  <2>11. CASE Acquire \/ CompleteGoal
    <3>1. episode'.task = "running"
      BY <2>4, <2>11 DEF Acquire, CompleteGoal, Deciding, Episodes
    <3>. QED BY <2>1, <3>1, EpisodeKindOf
  <2>12. ASSUME NEW name \in EffectNames, UseEffect(name) PROVE FALSE
    <3>1. episode'.task = "running"
      BY <2>4, <2>12 DEF UseEffect, EffectDone, Deciding, Episodes
    <3>. QED BY <2>1, <3>1, EpisodeKindOf
  <2>13. CASE ConsoleClearsGoal \/ ConsoleClearsFollowup \/ TaskReleasesGoal
    BY <2>1, <2>13 DEF ConsoleClearsGoal, ConsoleClearsFollowup, TaskReleasesGoal, LoseGoal
  <2>14. CASE TaskSetsGoal
    BY <2>1, <2>5, <2>14 DEF TaskSetsGoal, AttentionIdle
  <2>15. ASSUME NEW o \in Operators, OperatorArrives(o) \/ OperatorAdmitted(o) PROVE FALSE
    <3>1. operator'[o] = "idle" /\ phase = "running"
      BY <2>1, <2>15 DEF OperatorArrives, OperatorAdmitted, NoOperator
    <3>. QED BY <2>4, <2>15, <3>1 DEF OperatorArrives, OperatorAdmitted, Running
  <2>16. ASSUME NEW o \in Operators, OperatorEnds(o) PROVE FALSE
    <3>1. followup' = followup /\ phase = "running" /\ jobWork = {}
      BY <2>1, <2>16, ReleaseSlot DEF OperatorEnds
    <3>2. \A q \in Operators \ {o} : operator[q] = "idle"
      BY <2>1, <2>4, <2>16 DEF OperatorEnds, OperatorLeaves, NoOperator
    <3>3. episode = NoEpisode
      BY <2>1, <2>16 DEF OperatorEnds, Release
    <3>. DEFINE idle == /\ Running /\ jobWork = {} /\ episode = NoEpisode
                        /\ \A q \in Operators \ {o} : operator[q] = "idle"
    <3>4. idle /\ Release(idle)
      BY <2>16, <3>1, <3>2, <3>3 DEF OperatorEnds, Running
    <3>5. ClaimAndDeliver(goal, None)
      BY <3>4 DEF Release
    <3>. QED BY <2>1, <2>3, <3>1, <3>5 DEF ClaimAndDeliver, Refused, Running
  <2>17. CASE OperatorAcquires \/ OperatorNextDecision
    BY <2>1, <2>5, <2>17 DEF OperatorAcquires, OperatorNextDecision, AttentionIdle, Running
  <2>18. CASE OperatorSetsGoal \/ OperatorResolvesGoal \/ OperatorSchedules
    BY <2>1, <2>18 DEF OperatorSetsGoal, OperatorResolvesGoal, OperatorSchedules, NobodyActive,
                       NoOperator, OperatorDeciding
  <2>19. ASSUME NEW w \in JobWorkers, JobWorkBegins(w) PROVE FALSE
    BY <2>1, <2>19 DEF JobWorkBegins
  <2>20. ASSUME NEW w \in JobWorkers, JobWorkEnds(w) PROVE FALSE
    <3>1. followup' = followup /\ phase = "running" /\ operator' = operator
      BY <2>1, <2>20, ReleaseSlot DEF JobWorkEnds
    <3>2. jobWork = {w}
      BY <2>1, <2>20 DEF JobWorkEnds
    <3>3. episode = NoEpisode
      BY <2>1, <2>20 DEF JobWorkEnds, Release
    <3>4. ClaimAndDeliver(goal, None)
      BY <2>1, <2>20, <3>1, <3>2, <3>3 DEF JobWorkEnds, Release, Running
    <3>. QED BY <2>1, <2>3, <3>1, <3>4 DEF ClaimAndDeliver, Refused, Running
  <2>21. ASSUME NEW w \in JobWorkers, JobWorkDiscarded(w) PROVE FALSE
    BY <2>21
  <2>22. CASE BeginStop \/ StopTemporal \/ StopAttention
    BY <2>1, <2>22 DEF BeginStop, StopTemporal, StopAttention
  <2>23. CASE UNCHANGED vars
    BY <2>1, <2>5, <2>23 DEF vars, AttentionIdle, Running
  <2>. QED
    BY <2>6, <2>7, <2>8, <2>9, <2>10, <2>11, <2>12, <2>13, <2>14, <2>15, <2>16, <2>17, <2>18,
       <2>19, <2>20, <2>21, <2>22, <2>23 DEF Next
<1>. QED BY Inductive, <1>1, PTL DEF Spec, DueOfferedAgain, Strands
=============================================================================
