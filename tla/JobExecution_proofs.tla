------------------------ MODULE JobExecution_proofs ------------------------
(***************************************************************************)
(* The ledger and Job execution, for every catalog, any number of          *)
(* occurrences and work slots, whatever starts, works, stops, crashes or   *)
(* shuts down.                                                             *)
(*                                                                         *)
(* First the store by itself; then that execution implements it, so that   *)
(* what is shown of LedgerSpec is true of the program that drives it; then *)
(* what the session's routines do to a context; and last the inductive     *)
(* invariant, that an occurrence's context, the two views of the registry, *)
(* the ledger, the attention episodes and the waiting console agree, and   *)
(* the promises that follow from it.                                       *)
(***************************************************************************)
EXTENDS JobExecution, FiniteSetTheorems, WellFoundedInduction, TLAPS

(***************************************************************************)
(* The store.                                                              *)
(***************************************************************************)

\* What a transition of the table may do: it starts a pending row, or ends a live one.
LEMMA TransitionsStayDown ==
  ASSUME NEW s \in Statuses, NEW t \in RunTransitions[s]
  PROVE  s \in LiveStatuses /\ t \in Statuses /\ t # "absent"
BY DEF RunTransitions, Statuses, LiveStatuses, TerminalStatuses

\* Every operation of the store keeps the row and catalog types.
LEMMA LedgerTypeStep == LedgerTypeOK /\ [LedgerNext]_ledgerVars => LedgerTypeOK'
<1> SUFFICES ASSUME LedgerTypeOK, [LedgerNext]_ledgerVars PROVE LedgerTypeOK'
  OBVIOUS
<1> USE DEF LedgerTypeOK
<1>1. ASSUME NEW j \in Jobs, NEW b \in BOOLEAN, SetJobEnabled(j, b) PROVE LedgerTypeOK'
  BY <1>1 DEF SetJobEnabled
<1>2. ASSUME NEW j \in Jobs, NEW r \in RunIds, CreateRun(j, r), Unowned \notin Jobs
      PROVE LedgerTypeOK'
  BY <1>2 DEF CreateRun, NextRow, Statuses, LiveStatuses
<1>3. ASSUME NEW r \in RunIds, NEW s \in Statuses, TransitionRun(r, s) PROVE LedgerTypeOK'
  <2>1. status[r] \in LiveStatuses /\ s # "absent"
    BY <1>3, TransitionsStayDown DEF TransitionRun
  <2>2. QED
    BY <1>3, <2>1 DEF TransitionRun, LiveStatuses
<1>4. CASE InterruptNonterminalRuns
  BY <1>4 DEF InterruptNonterminalRuns, LiveStatuses, TerminalStatuses, Statuses
<1>5. CASE UNCHANGED ledgerVars
  BY <1>5 DEF ledgerVars
<1>6. QED
  BY <1>1, <1>2, <1>3, <1>4, <1>5, JobsAssumption DEF LedgerNext

\* Only an admission makes a row live, and it looks for a live row first.
LEMMA OneLiveStep ==
  LedgerTypeOK /\ OneLiveRunPerJob /\ [LedgerNext]_ledgerVars => OneLiveRunPerJob'
<1> SUFFICES ASSUME LedgerTypeOK, OneLiveRunPerJob, [LedgerNext]_ledgerVars
             PROVE  OneLiveRunPerJob'
  OBVIOUS
<1>0. ASSUME \A j \in Jobs : LiveRuns(j)' \subseteq LiveRuns(j) PROVE OneLiveRunPerJob'
  BY <1>0 DEF OneLiveRunPerJob
<1>1. ASSUME NEW j \in Jobs, NEW b \in BOOLEAN, SetJobEnabled(j, b)
      PROVE  OneLiveRunPerJob'
  BY <1>1, <1>0 DEF SetJobEnabled, LiveRuns
<1>2. ASSUME NEW j \in Jobs, NEW r \in RunIds, CreateRun(j, r) PROVE OneLiveRunPerJob'
  <2>1. LiveRuns(j)' \subseteq {r}
    BY <1>2 DEF CreateRun, LiveRuns, LedgerTypeOK
  <2>2. \A i \in Jobs : i # j => LiveRuns(i)' \subseteq LiveRuns(i)
    BY <1>2 DEF CreateRun, LiveRuns, LedgerTypeOK
  <2>3. QED
    BY <2>1, <2>2 DEF OneLiveRunPerJob
<1>3. ASSUME NEW r \in RunIds, NEW s \in Statuses, TransitionRun(r, s)
      PROVE  OneLiveRunPerJob'
  <2>1. status[r] \in LiveStatuses
    BY <1>3, TransitionsStayDown DEF TransitionRun, LedgerTypeOK
  <2>2. \A j \in Jobs : LiveRuns(j)' \subseteq LiveRuns(j)
    BY <1>3, <2>1 DEF TransitionRun, LiveRuns, LedgerTypeOK
  <2>3. QED
    BY <2>2, <1>0
<1>4. CASE InterruptNonterminalRuns
  BY <1>4, <1>0 DEF InterruptNonterminalRuns, LiveRuns, LiveStatuses, LedgerTypeOK
<1>5. CASE UNCHANGED ledgerVars
  BY <1>5, <1>0 DEF ledgerVars, LiveRuns
<1>6. QED
  BY <1>1, <1>2, <1>3, <1>4, <1>5 DEF LedgerNext

\* Rows, owners and statuses keep their types (every store operation).
THEOREM LedgerTypeCorrect == LedgerSpec => []LedgerTypeOK
<1>1. LedgerInit => LedgerTypeOK
  BY JobsAssumption DEF LedgerInit, LedgerTypeOK, Statuses
<1>2. QED
  BY <1>1, LedgerTypeStep, PTL DEF LedgerSpec

\* For any catalog, a Job has at most one pending or running occurrence
\* (create_triggered_run, transition_run, interrupt_nonterminal_runs).
THEOREM OneLiveRun == LedgerSpec => []OneLiveRunPerJob
<1>1. LedgerInit => OneLiveRunPerJob
  BY DEF LedgerInit, OneLiveRunPerJob, LiveRuns, LiveStatuses
<1>2. QED
  BY <1>1, LedgerTypeCorrect, OneLiveStep, PTL DEF LedgerSpec

\* A completed, failed, stopped or interrupted occurrence never changes again
\* (transition_run, interrupt_nonterminal_runs).
THEOREM ResultsImmutable == LedgerSpec => TerminalForever
<1> DEFINE Kept == \A r \in RunIds : status[r] \in TerminalStatuses
                     => status'[r] = status[r] /\ job'[r] = job[r]
<1>1. ASSUME LedgerTypeOK, [LedgerNext]_ledgerVars PROVE Kept
  <2>1. ASSUME NEW j \in Jobs, NEW b \in BOOLEAN, SetJobEnabled(j, b) PROVE Kept
    BY <2>1 DEF SetJobEnabled
  <2>2. ASSUME NEW j \in Jobs, NEW r \in RunIds, CreateRun(j, r) PROVE Kept
    BY <1>1, <2>2 DEF CreateRun, NextRow, LedgerTypeOK, TerminalStatuses
  <2>3. ASSUME NEW r \in RunIds, NEW s \in Statuses, TransitionRun(r, s) PROVE Kept
    <3>1. status[r] \in LiveStatuses
      BY <1>1, <2>3, TransitionsStayDown DEF TransitionRun, LedgerTypeOK
    <3>2. QED
      BY <1>1, <2>3, <3>1 DEF TransitionRun, LedgerTypeOK, LiveStatuses, TerminalStatuses
  <2>4. CASE InterruptNonterminalRuns
    BY <2>4 DEF InterruptNonterminalRuns, LiveStatuses, TerminalStatuses
  <2>5. CASE UNCHANGED ledgerVars
    BY <2>5 DEF ledgerVars
  <2>6. QED
    BY <1>1, <2>1, <2>2, <2>3, <2>4, <2>5 DEF LedgerNext
<1>2. QED
  BY <1>1, LedgerTypeCorrect, PTL DEF LedgerSpec, TerminalForever

-----------------------------------------------------------------------------
(***************************************************************************)
(* Execution implements the ledger.  The step needs two facts: the ledger's *)
(* types, without which the transition table says nothing, and that a start *)
(* in progress is of a row (the loop record also counts through offers and *)
(* interruptions, where it may point behind the last row).                 *)
(***************************************************************************)

StartsARow == loop.routine = "starting" => loop.run \in RunIds

\* What every action has to be shown to do.
Implemented == [LedgerNext]_ledgerVars /\ StartsARow'

\* A transition that the table of transition_run allows is one of LedgerNext.
LEMMA TransitionIsLedgerStep ==
  ASSUME LedgerTypeOK, NEW r \in RunIds, NEW s, TransitionRun(r, s)
  PROVE  LedgerNext
<1>1. status[r] \in Statuses
  BY DEF LedgerTypeOK
<1>2. s \in Statuses
  BY <1>1, TransitionsStayDown DEF TransitionRun
<1>3. QED
  BY <1>2 DEF LedgerNext

\* _finish_job_run_context records a result by one transition, or nothing.
LEMMA EndingIsLedgerStep ==
  ASSUME LedgerTypeOK, NEW r \in RunIds, NEW v, Ending(r, v)
  PROVE  [LedgerNext]_ledgerVars
BY TransitionIsLedgerStep DEF Ending, durable

\* A step that neither touches the store nor enters _start_job_occurrence.
LEMMA QuietStep ==
  ASSUME StartsARow, UNCHANGED durable, UNCHANGED loop \/ loop'.routine # "starting"
  PROVE  Implemented
BY DEF Implemented, StartsARow, durable

\* create_run is where a start begins: the row is new and it is a row.
LEMMA OccurrenceBegins ==
  ASSUME NEW j \in Jobs, NEW r \in RunIds, NEW by, BeginOccurrence(j, r, by)
  PROVE  Implemented
<1>1. LedgerNext
  BY DEF BeginOccurrence, LedgerNext
<1>2. loop'.run = r
  BY DEF BeginOccurrence
<1>3. QED
  BY <1>1, <1>2 DEF Implemented, StartsARow

\* The console, the catalog and the programs that control Jobs.
LEMMA ControlImplements ==
  ASSUME LedgerTypeOK, StartsARow, Control
  PROVE  Implemented
<1>1. ASSUME NEW j \in Jobs, NEW b \in BOOLEAN, ConfigureJob(j, b) PROVE Implemented
  <2>1. LedgerNext
    BY <1>1 DEF ConfigureJob, LedgerNext
  <2>2. UNCHANGED loop
    BY <1>1 DEF ConfigureJob, volatile
  <2>3. QED
    BY <2>1, <2>2 DEF Implemented, StartsARow
<1>2. ASSUME NEW j \in Jobs, NEW r \in RunIds, StartJobRun(j, r) \/ ActivateJob(j, r)
      PROVE  Implemented
  BY <1>2, OccurrenceBegins DEF StartJobRun, ActivateJob
<1>3. CASE SetGoal \/ ClearGoal
  BY <1>3, QuietStep DEF SetGoal, ClearGoal
<1>4. ASSUME NEW r \in RunIds, WorkRun(r) PROVE Implemented
  BY <1>4, QuietStep DEF WorkRun
<1>5. CASE WorkCurrent
  BY <1>5, QuietStep DEF WorkCurrent
<1>6. ASSUME NEW r \in RunIds, NEW v \in OperatorVerdicts, FinishRun(r, v)
      PROVE  Implemented
  <2>1. Ending(r, v) /\ UNCHANGED loop
    BY <1>6 DEF FinishRun
  <2>2. QED
    BY <2>1, EndingIsLedgerStep DEF Implemented, StartsARow
<1>7. ASSUME NEW r \in RunIds, NEW v \in OperatorVerdicts, FinishWorkingRun(r, v)
      PROVE  Implemented
  BY <1>7, QuietStep DEF FinishWorkingRun
<1>8. CASE Pause \/ Resume
  BY <1>8, QuietStep DEF Pause, Resume
<1>9. QED
  BY <1>1, <1>2, <1>3, <1>4, <1>5, <1>6, <1>7, <1>8 DEF Control

\* Operator turns and general initiative do not touch Jobs.
LEMMA AttentionImplements ==
  ASSUME StartsARow, Attention
  PROVE  Implemented
BY QuietStep DEF Attention, OperatorBegins, OperatorEnds, InitiativeBegins, InitiativeEnds

\* _start_job_occurrence marks the row running, or stops it, or fails to.
LEMMA StartingImplements ==
  ASSUME LedgerTypeOK, StartsARow, Starting
  PROVE  Implemented
<1>1. CASE StartOccurrence
  <2>1. LedgerNext
    BY <1>1, TransitionIsLedgerStep DEF StartOccurrence, StartsARow
  <2>2. loop'.routine # "starting"
    BY <1>1 DEF StartOccurrence, Idle
  <2>3. QED
    BY <2>1, <2>2 DEF Implemented, StartsARow
<1>2. CASE StartFails
  <2>1. [LedgerNext]_ledgerVars
    BY <1>2, TransitionIsLedgerStep DEF StartFails, StartsARow, durable
  <2>2. loop'.routine # "starting"
    BY <1>2 DEF StartFails, Idle
  <2>3. QED
    BY <2>1, <2>2 DEF Implemented, StartsARow
<1>3. QED
  BY <1>1, <1>2 DEF Starting

\* Offers only read the store.
LEMMA OfferingImplements ==
  ASSUME StartsARow, Offering
  PROVE  Implemented
<1>1. CASE BeginOffers
  BY <1>1, QuietStep DEF BeginOffers
<1>2. CASE OfferNext
  <2>1. UNCHANGED durable /\ loop'.routine = "offering"
    BY <1>2 DEF OfferNext
  <2>2. QED
    BY <2>1, QuietStep
<1>3. CASE OfferFails
  <2>1. UNCHANGED durable /\ loop'.routine = "offering"
    BY <1>3 DEF OfferFails
  <2>2. QED
    BY <2>1, QuietStep
<1>4. CASE EndOffers
  BY <1>4, QuietStep DEF EndOffers, Idle
<1>5. CASE EventOccurs
  BY <1>5, QuietStep DEF EventOccurs, Idle
<1>6. ASSUME NEW r \in RunIds, DelayElapses(r) PROVE Implemented
  BY <1>6, QuietStep DEF DelayElapses
<1>7. QED
  BY <1>1, <1>2, <1>3, <1>4, <1>5, <1>6 DEF Offering

\* Of the work of an occurrence only the commit of a report reaches the store.
LEMMA WorkImplements ==
  ASSUME LedgerTypeOK, StartsARow, NEW r \in RunIds, WorkStep(r)
  PROVE  Implemented
<1>1. CASE BeginWork(r) \/ DropCreatedWork(r)
  BY <1>1, QuietStep DEF BeginWork, DropCreatedWork
<1>2. ASSUME NEW o \in ModelProposals, Propose(r, o) PROVE Implemented
  BY <1>2, QuietStep DEF Propose
<1>3. CASE WorkEndsRun(r)
  <2>1. LedgerNext
    BY <1>3, TransitionIsLedgerStep DEF WorkEndsRun
  <2>2. UNCHANGED loop
    BY <1>3 DEF WorkEndsRun, LeaveWork
  <2>3. QED
    BY <2>1, <2>2 DEF Implemented, StartsARow
<1>4. CASE WorkContinues(r) \/ WorkFails(r) \/ WorkCancelled(r)
  BY <1>4, QuietStep DEF WorkContinues, WorkFails, WorkCancelled, LeaveWork
<1>5. QED
  BY <1>1, <1>2, <1>3, <1>4 DEF WorkStep

\* The rest of finish_job_run_by_id, of a Run that may have left meanwhile.
LEMMA FinisherImplements ==
  ASSUME LedgerTypeOK, StartsARow, FinisherResumes
  PROVE  Implemented
<1>1. CASE console.run \in Live(session)
  <2>1. console.run \in RunIds /\ Ending(console.run, console.verdict) /\ UNCHANGED loop
    BY <1>1 DEF FinisherResumes, Live
  <2>2. QED
    BY <2>1, EndingIsLedgerStep DEF Implemented, StartsARow
<1>2. CASE console.run \notin Live(session)
  BY <1>2, QuietStep DEF FinisherResumes
<1>3. QED
  BY <1>1, <1>2

\* stop() records at most that an occurrence was interrupted.
LEMMA StoppingImplements ==
  ASSUME LedgerTypeOK, StartsARow, Stopping
  PROVE  Implemented
<1>1. CASE BeginStop
  BY <1>1, QuietStep DEF BeginStop, volatile
<1>2. CASE CancelAllWork \/ JoinAllWork
  BY <1>2, QuietStep DEF CancelAllWork, JoinAllWork
<1>3. CASE BeginInterrupting
  BY <1>3, QuietStep DEF BeginInterrupting
<1>4. CASE InterruptNext
  <2>1. PICK r \in ToInterrupt : TransitionRun(r, "interrupted") \/ UNCHANGED durable
    BY <1>4 DEF InterruptNext
  <2>2. r \in RunIds
    BY <2>1 DEF ToInterrupt, Live
  <2>3. [LedgerNext]_ledgerVars
    BY <2>1, <2>2, TransitionIsLedgerStep DEF durable
  <2>4. loop'.routine = "interrupting"
    BY <1>4 DEF InterruptNext
  <2>5. QED
    BY <2>3, <2>4 DEF Implemented, StartsARow
<1>5. CASE FinishStop
  BY <1>5, QuietStep DEF FinishStop, VolatileLost, Idle
<1>6. QED
  BY <1>1, <1>2, <1>3, <1>4, <1>5 DEF Stopping

\* A new process reconciles what it finds; a crash only forgets.
LEMMA LifecycleImplements ==
  ASSUME StartsARow, Restart \/ Crash
  PROVE  Implemented
<1>1. CASE Restart
  <2>1. LedgerNext /\ UNCHANGED loop
    BY <1>1 DEF Restart, LedgerNext, volatile
  <2>2. QED
    BY <2>1 DEF Implemented, StartsARow
<1>2. CASE Crash
  BY <1>2, QuietStep DEF Crash, VolatileLost, Idle
<1>3. QED
  BY <1>1, <1>2

\* Every step of execution is one of the store, or leaves it alone.
LEMMA NextImplements ==
  ASSUME LedgerTypeOK, StartsARow, [Next]_vars
  PROVE  Implemented
<1>1. CASE UNCHANGED vars
  BY <1>1 DEF vars, volatile, Implemented, StartsARow
<1>2. CASE Next
  BY <1>2, ControlImplements, AttentionImplements, StartingImplements, OfferingImplements,
     WorkImplements, FinisherImplements, StoppingImplements, LifecycleImplements DEF Next
<1>3. QED
  BY <1>1, <1>2

-----------------------------------------------------------------------------
\* Throughout, the ledger is well typed and a start in progress (the loop inside of
\* _start_job_occurrence) is of one of its rows.
THEOREM LedgerTypedDuringExecution == Spec => [](LedgerTypeOK /\ StartsARow)
<1>1. Init => LedgerTypeOK /\ StartsARow
  BY JobsAssumption DEF Init, LedgerInit, LedgerTypeOK, Statuses, StartsARow, Idle
<1>2. LedgerTypeOK /\ StartsARow /\ [Next]_vars => LedgerTypeOK' /\ StartsARow'
  BY NextImplements, LedgerTypeStep DEF Implemented
<1>3. QED
  BY <1>1, <1>2, PTL DEF Spec

\* Everything RobotApplication does to the store, in any order of its tasks, is a
\* behaviour of the store's own specification.
THEOREM ExecutionImplementsLedger == Spec => LedgerSpec
<1>1. Init => LedgerInit
  BY DEF Init
<1>2. LedgerTypeOK /\ StartsARow /\ [Next]_vars => [LedgerNext]_ledgerVars
  BY NextImplements DEF Implemented
<1>3. QED
  BY <1>1, <1>2, LedgerTypedDuringExecution, PTL DEF Spec, LedgerSpec

\* Hence, however console, triggers and model race, a Job never has two live
\* occurrences (create_triggered_run as the application calls it) ...
THEOREM OneLiveRunDuringExecution == Spec => []OneLiveRunPerJob
BY ExecutionImplementsLedger, OneLiveRun, PTL

\* ... and no ending, retry, restart or shutdown rewrites a recorded result.
THEOREM ResultsImmutableDuringExecution == Spec => TerminalForever
BY ExecutionImplementsLedger, ResultsImmutable, PTL

-----------------------------------------------------------------------------
\* What the rows amount to for whoever asks only which Jobs may run and which do, as
\* JobAdmission does.
EnabledJobs == {j \in Jobs : enabled[j]}
OccupiedJobs == {j \in Jobs : LiveRuns(j) # {}}
Occupancy == INSTANCE JobOccupancy WITH admitted <- EnabledJobs, occupied <- OccupiedJobs

\* The end of an occurrence frees its Job, since it is the only one; its start, from
\* pending to running, changes nothing.
LEMMA TransitionVacates ==
  ASSUME LedgerTypeOK, OneLiveRunPerJob, NEW r \in RunIds, NEW s \in Statuses, TransitionRun(r, s)
  PROVE  Occupancy!OccupancyNext \/ UNCHANGED <<EnabledJobs, OccupiedJobs>>
<1>1. /\ status[r] \in LiveStatuses /\ UNCHANGED <<enabled, job>>
      /\ status' = [status EXCEPT ![r] = s]
  BY TransitionsStayDown DEF TransitionRun, LedgerTypeOK
<1>2. PICK j \in Jobs : j = job[r] /\ r \in LiveRuns(j)
  BY <1>1 DEF LedgerTypeOK, LiveStatuses, LiveRuns
<1>3. EnabledJobs' = EnabledJobs /\ \A i \in Jobs : i # j => LiveRuns(i)' = LiveRuns(i)
  BY <1>1, <1>2 DEF LiveRuns, LedgerTypeOK, EnabledJobs
<1>4. CASE s \in LiveStatuses
  <2>1. LiveRuns(j)' = LiveRuns(j)
    BY <1>1, <1>4 DEF LiveRuns, LedgerTypeOK
  <2>. QED BY <1>2, <1>3, <2>1 DEF OccupiedJobs
<1>5. CASE s \notin LiveStatuses
  <2>1. LiveRuns(j)' = {}
    BY <1>1, <1>2, <1>5 DEF LiveRuns, LedgerTypeOK, OneLiveRunPerJob
  <2>2. OccupiedJobs' = OccupiedJobs \ {j}
    BY <1>2, <1>3, <2>1 DEF OccupiedJobs
  <2>. QED BY <1>2, <1>3, <2>2 DEF Occupancy!OccupancyNext, Occupancy!Vacate
<1>. QED BY <1>4, <1>5

\* Every operation of the store, in these terms.
LEMMA LedgerOccupancyStep ==
  LedgerTypeOK /\ OneLiveRunPerJob /\ [LedgerNext]_ledgerVars
    => [Occupancy!OccupancyNext]_<<EnabledJobs, OccupiedJobs>>
<1>. SUFFICES ASSUME LedgerTypeOK, OneLiveRunPerJob, [LedgerNext]_ledgerVars
              PROVE  Occupancy!OccupancyNext \/ UNCHANGED <<EnabledJobs, OccupiedJobs>>
  OBVIOUS
<1>1. ASSUME NEW j \in Jobs, NEW b \in BOOLEAN, SetJobEnabled(j, b) PROVE Occupancy!OccupancyNext
  <2>1. enabled' = [enabled EXCEPT ![j] = b] /\ enabled \in [Jobs -> BOOLEAN] /\ OccupiedJobs' = OccupiedJobs
    BY <1>1 DEF SetJobEnabled, LedgerTypeOK, OccupiedJobs, LiveRuns
  <2>2. EnabledJobs' = EnabledJobs \cup {j} \/ EnabledJobs' = EnabledJobs \ {j}
    BY <2>1 DEF EnabledJobs
  <2>. QED BY <2>1, <2>2 DEF Occupancy!OccupancyNext, Occupancy!Admit, Occupancy!Exclude
<1>2. ASSUME NEW j \in Jobs, NEW r \in RunIds, CreateRun(j, r) PROVE Occupancy!OccupancyNext
  <2>1. /\ job' = [job EXCEPT ![r] = j] /\ status' = [status EXCEPT ![r] = "pending"]
        /\ status[r] = "absent" /\ UNCHANGED enabled
    BY <1>2 DEF CreateRun, NextRow
  <2>2. r \in LiveRuns(j)' /\ \A i \in Jobs : i # j => LiveRuns(i)' = LiveRuns(i)
    BY <2>1 DEF LiveRuns, LedgerTypeOK, LiveStatuses
  <2>3. OccupiedJobs' = OccupiedJobs \cup {j}
    BY <2>2 DEF OccupiedJobs
  <2>4. j \in EnabledJobs \ OccupiedJobs /\ EnabledJobs' = EnabledJobs
    BY <1>2, <2>1 DEF CreateRun, EnabledJobs, OccupiedJobs
  <2>. QED BY <2>3, <2>4 DEF Occupancy!OccupancyNext, Occupancy!Occupy
<1>3. ASSUME NEW r \in RunIds, NEW s \in Statuses, TransitionRun(r, s)
      PROVE  Occupancy!OccupancyNext \/ UNCHANGED <<EnabledJobs, OccupiedJobs>>
  BY <1>3, TransitionVacates
<1>4. CASE InterruptNonterminalRuns
  <2>1. /\ \A j \in Jobs : LiveRuns(j)' = {}
        /\ UNCHANGED enabled
    BY <1>4 DEF InterruptNonterminalRuns, LiveRuns, LiveStatuses
  <2>2. OccupiedJobs' = {} /\ EnabledJobs' = EnabledJobs
    BY <2>1 DEF OccupiedJobs, EnabledJobs
  <2>. QED BY <2>2 DEF Occupancy!OccupancyNext, Occupancy!VacateAll
<1>5. CASE UNCHANGED ledgerVars
  BY <1>5 DEF ledgerVars, EnabledJobs, OccupiedJobs, LiveRuns
<1>. QED BY <1>1, <1>2, <1>3, <1>4, <1>5 DEF LedgerNext

\* The store keeps its promise, and so does the program that drives it.
THEOREM LedgerImplementsOccupancy == LedgerSpec => Occupancy!OccupancySpec
<1>1. LedgerInit => Occupancy!OccupancyInit
  BY DEF LedgerInit, Occupancy!OccupancyInit, EnabledJobs, OccupiedJobs, LiveRuns, LiveStatuses
<1>. QED
  BY <1>1, LedgerTypeCorrect, OneLiveRun, LedgerOccupancyStep, PTL
  DEF LedgerSpec, Occupancy!OccupancySpec, Occupancy!occupancyVars

\* Hence what execution does to the store is what admission supposes of it: between two of
\* admission's steps a free Job may begin while it is enabled, and a live one may end.
THEOREM ExecutionImplementsOccupancy == Spec => Occupancy!OccupancySpec
BY ExecutionImplementsLedger, LedgerImplementsOccupancy, PTL

-----------------------------------------------------------------------------
\* The last test before an offer is accepted is the attention claim.
LEMMA AcceptedHasAttention ==
  ASSUME NEW r, Verdict(r) = "accepted"
  PROVE  EpisodeAvailable
BY DEF Verdict

\* However many slots there are and whoever asks for work (console, offer, trigger),
\* none of it begins while an operator has attention or waits for it.
THEOREM OperatorsBeforeJobs == Spec => OperatorFirst
<1> DEFINE Kept == operator => episodes' \subseteq episodes
<1>1. ASSUME [Next]_vars PROVE Kept
  <2>1. CASE Control
    <3>1. ASSUME NEW j \in Jobs, NEW b \in BOOLEAN, ConfigureJob(j, b) PROVE Kept
      BY <3>1 DEF ConfigureJob, volatile
    <3>2. ASSUME NEW j \in Jobs, NEW r \in RunIds, StartJobRun(j, r) \/ ActivateJob(j, r)
          PROVE  Kept
      BY <3>2 DEF StartJobRun, ActivateJob, BeginOccurrence
    <3>3. CASE SetGoal \/ ClearGoal \/ Pause \/ Resume
      BY <3>3 DEF SetGoal, ClearGoal, Pause, Resume
    <3>4. ASSUME NEW r \in RunIds, WorkRun(r) PROVE Kept
      BY <3>4 DEF WorkRun, EpisodeAvailable
    <3>5. CASE WorkCurrent
      BY <3>5 DEF WorkCurrent, EpisodeAvailable
    <3>6. ASSUME NEW r \in RunIds, NEW v \in OperatorVerdicts,
                 FinishRun(r, v) \/ FinishWorkingRun(r, v)
          PROVE  Kept
      BY <3>6 DEF FinishRun, FinishWorkingRun
    <3>7. QED
      BY <2>1, <3>1, <3>2, <3>3, <3>4, <3>5, <3>6 DEF Control
  <2>2. CASE Attention
    BY <2>2 DEF Attention, OperatorBegins, OperatorEnds, InitiativeBegins, InitiativeEnds
  <2>3. CASE Starting
    BY <2>3 DEF Starting, StartOccurrence, StartFails, EpisodeAvailable
  <2>4. CASE Offering
    <3>1. CASE OfferNext
      <4>1. Verdict(Min(Offerable(loop.run))) # "accepted" => UNCHANGED episodes
        BY <3>1 DEF OfferNext
      <4>2. QED
        BY <4>1, AcceptedHasAttention DEF EpisodeAvailable
    <3>2. CASE BeginOffers \/ OfferFails \/ EndOffers \/ EventOccurs
               \/ \E r \in RunIds : DelayElapses(r)
      BY <3>2 DEF BeginOffers, OfferFails, EndOffers, EventOccurs, DelayElapses
    <3>3. QED
      BY <2>4, <3>1, <3>2 DEF Offering
  <2>5. ASSUME NEW r \in RunIds, WorkStep(r) PROVE Kept
    BY <2>5 DEF WorkStep, BeginWork, DropCreatedWork, Propose, WorkEndsRun, WorkContinues,
       WorkFails, WorkCancelled, LeaveWork
  <2>6. CASE FinisherResumes
    BY <2>6 DEF FinisherResumes
  <2>7. CASE Restart \/ Crash \/ Stopping
    BY <2>7 DEF Restart, Crash, Stopping, BeginStop, CancelAllWork, JoinAllWork,
       BeginInterrupting, InterruptNext, FinishStop, VolatileLost, volatile
  <2>8. CASE UNCHANGED vars
    BY <2>8 DEF vars, volatile
  <2>9. QED
    BY <1>1, <2>1, <2>2, <2>3, <2>4, <2>5, <2>6, <2>7, <2>8 DEF Next
<1>2. QED
  BY <1>1, PTL DEF Spec, OperatorFirst

-----------------------------------------------------------------------------
(***************************************************************************)
(* Sessions, and what each routine of JobContexts makes of one.            *)
(***************************************************************************)

\* The volatile state's types.
Phases == {"none", "created", "running", "gone"}
Works == [phase : Phases, kind : {"auto", "initial", "manual"},
          fresh : BOOLEAN, cancelled : BOOLEAN,
          proposal : Readiness \cup {"completed", "failed", NoProposal}]
Grants == [state : {"none", "armed", "awaiting"}, steps : Nat, ready : Readiness, due : BOOLEAN]
Tasks == {"none", "running", "paused"} \cup EndedTask
Execs == {"none", "runnable", "parked", "stopping", "terminal"}
Contexts == [task : Tasks, bound : BOOLEAN,
             exec : Execs,
             grant : Grants, progress : RunIds \cup {None}, work : Works]
Sessions == [ctx : [RunIds -> Contexts], foreground : RunIds \cup {None},
             parked : RunIds \cup {None}, goal : RunIds \cup {None, Standalone}]

\* One context: what execution, Task, binding and work can go together.
ContextSound(c) ==
  /\ c.exec = "none" => c.task = "none" /\ c.work.phase = "none"
  /\ c.exec = "parked" => c.task = "paused" /\ c.bound /\ c.work.phase = "none"
  /\ c.exec = "terminal" => c.task \in EndedTask
  /\ c.bound => c.task \in {"running", "paused"}
  /\ c.task \in EndedTask => ~c.work.fresh

\* The same of a whole session, with the two views of it.
SessionSound(s) ==
  \A r \in RunIds :
    /\ ContextSound(s.ctx[r])
    /\ s.goal = r => s.ctx[r].bound /\ s.ctx[r].task = "running" /\ s.ctx[r].exec # "parked"
    /\ s.foreground = r => s.ctx[r].exec # "parked"

\* t is s with at most the context of r, and its place in the views, changed.
Edited(s, t, r) ==
  /\ t \in Sessions
  /\ \A q \in RunIds \ {r} : t.ctx[q] = s.ctx[q]
  /\ t.goal \in {s.goal, None, r}
  /\ t.foreground \in {s.foreground, None, r}

\* The values a context starts from are well typed.
LEMMA NullContexts == NoGrant \in Grants /\ NoWork \in Works /\ NoContext \in Contexts
BY DEF NoGrant, NoWork, NoContext, Grants, Works, Phases, Contexts, Tasks, Execs, Readiness, Waits,
   EndedTask, NoProposal

\* A grant given up: nothing else of the context changes.
LEMMA GrantDroppedEdits ==
  ASSUME NEW s \in Sessions, NEW r \in RunIds
  PROVE  LET t == GrantDropped(s, r) c == s.ctx[r] d == t.ctx[r] IN
           /\ Edited(s, t, r)
           /\ t.goal = s.goal /\ t.foreground = s.foreground
           /\ d.task = c.task /\ d.bound = c.bound /\ d.exec = c.exec /\ d.work = c.work
           /\ d.grant = NoGrant
BY NullContexts DEF GrantDropped, Sessions, Contexts, Edited

\* _remove_job_execution_context: gone, or terminal while work is recorded.
LEMMA RemovedEdits ==
  ASSUME NEW s \in Sessions, NEW r \in RunIds
  PROVE  LET t == Removed(s, r) c == s.ctx[r] d == t.ctx[r] IN
           /\ Edited(s, t, r)
           /\ t.goal = s.goal
           /\ \/ d = NoContext /\ t.foreground = (IF s.foreground = r THEN None ELSE s.foreground)
              \/ /\ c.work.phase # "none"
                 /\ d.exec = "terminal" /\ t.foreground = s.foreground
                 /\ d.task = c.task /\ d.bound = c.bound /\ d.grant = c.grant /\ d.work = c.work
BY NullContexts DEF Removed, Without, Sessions, Contexts, Edited, Execs, Tasks

\* _clear_context_work_task: the work is forgotten, and a terminal context with it.
LEMMA WorkClearedEdits ==
  ASSUME NEW s \in Sessions, NEW r \in RunIds
  PROVE  LET t == WorkCleared(s, r) c == s.ctx[r] d == t.ctx[r] IN
           /\ Edited(s, t, r)
           /\ t.goal = s.goal
           /\ \/ d = NoContext /\ c.exec = "terminal"
                 /\ t.foreground = (IF s.foreground = r THEN None ELSE s.foreground)
              \/ /\ c.exec # "terminal"
                 /\ d.work = NoWork /\ t.foreground = s.foreground
                 /\ d.task = c.task /\ d.bound = c.bound /\ d.grant = c.grant /\ d.exec = c.exec
<1> DEFINE u == [s EXCEPT !.ctx[r].work = NoWork]
<1>1. /\ Edited(s, u, r) /\ u.goal = s.goal /\ u.foreground = s.foreground
      /\ u.ctx[r].work = NoWork /\ u.ctx[r].task = s.ctx[r].task /\ u.ctx[r].bound = s.ctx[r].bound
      /\ u.ctx[r].grant = s.ctx[r].grant /\ u.ctx[r].exec = s.ctx[r].exec
  BY NullContexts DEF Sessions, Contexts, Edited
<1>2. WorkCleared(s, r) = IF u.ctx[r].exec = "terminal" THEN Removed(u, r) ELSE u
  BY DEF WorkCleared
<1>3. u \in Sessions
  BY <1>1 DEF Edited
<1>4. NoWork.phase = "none"
  BY DEF NoWork
<1> HIDE DEF u
<1>5. QED
  BY <1>1, <1>2, <1>3, <1>4, RemovedEdits DEF Edited

\* t is s with at most the context of r changed.
OneContext(s, t, r) ==
  /\ t \in Sessions
  /\ t.goal = s.goal /\ t.foreground = s.foreground
  /\ \A q \in RunIds \ {r} : t.ctx[q] = s.ctx[q]

\* The single assignments the routines are made of: the Task, ...
LEMMA TaskAssigned ==
  ASSUME NEW s \in Sessions, NEW r \in RunIds, NEW x \in Tasks
  PROVE  LET t == [s EXCEPT !.ctx[r].task = x] c == s.ctx[r] d == t.ctx[r] IN
           /\ OneContext(s, t, r)
           /\ d.task = x /\ d.bound = c.bound /\ d.exec = c.exec /\ d.grant = c.grant
           /\ d.work = c.work
BY DEF Sessions, Contexts, OneContext

\* ... task_binding, ...
LEMMA BoundAssigned ==
  ASSUME NEW s \in Sessions, NEW r \in RunIds, NEW x \in BOOLEAN
  PROVE  LET t == [s EXCEPT !.ctx[r].bound = x] c == s.ctx[r] d == t.ctx[r] IN
           /\ OneContext(s, t, r)
           /\ d.bound = x /\ d.task = c.task /\ d.exec = c.exec /\ d.grant = c.grant
           /\ d.work = c.work
BY DEF Sessions, Contexts, OneContext

\* ... the execution state, ...
LEMMA ExecAssigned ==
  ASSUME NEW s \in Sessions, NEW r \in RunIds, NEW x \in Execs
  PROVE  LET t == [s EXCEPT !.ctx[r].exec = x] c == s.ctx[r] d == t.ctx[r] IN
           /\ OneContext(s, t, r)
           /\ d.exec = x /\ d.task = c.task /\ d.bound = c.bound /\ d.grant = c.grant
           /\ d.work = c.work
BY DEF Sessions, Contexts, OneContext

\* ... the continuation, ...
LEMMA GrantAssigned ==
  ASSUME NEW s \in Sessions, NEW r \in RunIds, NEW x \in Grants
  PROVE  LET t == [s EXCEPT !.ctx[r].grant = x] c == s.ctx[r] d == t.ctx[r] IN
           /\ OneContext(s, t, r)
           /\ d.grant = x /\ d.task = c.task /\ d.bound = c.bound /\ d.exec = c.exec
           /\ d.work = c.work
BY DEF Sessions, Contexts, OneContext

\* ... the whole of active_work_task, ...
LEMMA WorkAssigned ==
  ASSUME NEW s \in Sessions, NEW r \in RunIds, NEW x \in Works
  PROVE  LET t == [s EXCEPT !.ctx[r].work = x] c == s.ctx[r] d == t.ctx[r] IN
           /\ OneContext(s, t, r)
           /\ d.work = x /\ d.task = c.task /\ d.bound = c.bound /\ d.exec = c.exec
           /\ d.grant = c.grant
BY DEF Sessions, Contexts, OneContext

\* ... a binding replaced, which makes prepared work stale, ...
LEMMA FreshCleared ==
  ASSUME NEW s \in Sessions, NEW r \in RunIds
  PROVE  LET t == [s EXCEPT !.ctx[r].work.fresh = FALSE] c == s.ctx[r] d == t.ctx[r] IN
           /\ OneContext(s, t, r)
           /\ d.task = c.task /\ d.bound = c.bound /\ d.exec = c.exec /\ d.grant = c.grant
           /\ ~d.work.fresh /\ d.work.phase = c.work.phase /\ d.work.cancelled = c.work.cancelled
<1> DEFINE x == [s.ctx[r].work EXCEPT !.fresh = FALSE]
<1>1. s.ctx[r].work \in Works
  BY DEF Sessions, Contexts
<1>2. x \in Works /\ ~x.fresh /\ x.phase = s.ctx[r].work.phase
      /\ x.cancelled = s.ctx[r].work.cancelled
  BY <1>1 DEF Works
<1>3. [s EXCEPT !.ctx[r].work.fresh = FALSE] = [s EXCEPT !.ctx[r].work = x]
  BY DEF Sessions, Contexts
<1> HIDE DEF x
<1>4. QED
  BY <1>2, <1>3, WorkAssigned

\* The sole member of a set is a member of it.
LEMMA TheOnlyIsOne ==
  ASSUME NEW S, S \subseteq RunIds
  PROVE  TheOnly(S) \in S \cup {None}
<1>1. CASE Cardinality(S) = 1
  <2>1. S # {}
    BY <1>1, FS_EmptySet
  <2>2. QED
    BY <1>1, <2>1 DEF TheOnly
<1>2. CASE Cardinality(S) # 1
  BY <1>2 DEF TheOnly
<1>3. QED
  BY <1>1, <1>2

\* _park_job_context: paused and parked, out of both views; or only the grant is revoked.
LEMMA ParkEdits ==
  ASSUME NEW s \in Sessions, NEW r \in RunIds
  PROVE  LET t == Park(s, r) c == s.ctx[r] d == t.ctx[r] IN
           /\ Edited(s, t, r)
           /\ d.bound = c.bound /\ d.work.phase = c.work.phase
           /\ d.work.cancelled = c.work.cancelled
           /\ \/ /\ c.bound /\ c.task = "running"
                 /\ t.goal = (IF s.goal = r THEN None ELSE s.goal)
                 /\ t.foreground = (IF s.foreground = r THEN None ELSE s.foreground)
                 /\ d.task = "paused" /\ d.exec = "parked" /\ d.grant = c.grant /\ ~d.work.fresh
              \/ /\ ~(c.bound /\ c.task = "running")
                 /\ t.goal = s.goal /\ t.foreground = s.foreground
                 /\ d.task = c.task /\ d.exec = c.exec /\ d.grant = NoGrant /\ d.work = c.work
<1>1. CASE ~(s.ctx[r].bound /\ s.ctx[r].task = "running")
  <2>1. Park(s, r) = GrantDropped(s, r)
    BY <1>1 DEF Park, RevokedAtPark, GrantDropped
  <2>2. QED
    BY <1>1, <2>1, GrantDroppedEdits
<1>2. CASE s.ctx[r].bound /\ s.ctx[r].task = "running"
  <2> DEFINE u1 == [s EXCEPT !.ctx[r].task = "paused"]
             u2 == [u1 EXCEPT !.ctx[r].exec = "parked"]
             u == [u2 EXCEPT !.ctx[r].work.fresh = FALSE]
             w == Without(Without(u, "goal", r), "foreground", r)
             p == TheOnly(ParkedRuns(u))
  <2>1. /\ u \in Sessions /\ u.goal = s.goal /\ u.foreground = s.foreground
        /\ \A q \in RunIds \ {r} : u.ctx[q] = s.ctx[q]
        /\ u.ctx[r].task = "paused" /\ u.ctx[r].exec = "parked" /\ ~u.ctx[r].work.fresh
        /\ u.ctx[r].bound = s.ctx[r].bound /\ u.ctx[r].grant = s.ctx[r].grant
        /\ u.ctx[r].work.phase = s.ctx[r].work.phase
        /\ u.ctx[r].work.cancelled = s.ctx[r].work.cancelled
    <3>0. "paused" \in Tasks /\ "parked" \in Execs
      BY DEF Tasks, Execs
    <3>1. OneContext(s, u1, r) /\ u1.ctx[r].task = "paused" /\ u1.ctx[r].bound = s.ctx[r].bound
          /\ u1.ctx[r].grant = s.ctx[r].grant /\ u1.ctx[r].work = s.ctx[r].work
      BY <3>0, TaskAssigned
    <3> HIDE DEF u1
    <3>2. OneContext(u1, u2, r) /\ u2.ctx[r].exec = "parked" /\ u2.ctx[r].bound = u1.ctx[r].bound
          /\ u2.ctx[r].task = u1.ctx[r].task
          /\ u2.ctx[r].grant = u1.ctx[r].grant /\ u2.ctx[r].work = u1.ctx[r].work
      BY <3>0, <3>1, ExecAssigned DEF OneContext
    <3> HIDE DEF u2
    <3>3. QED
      BY <3>1, <3>2, FreshCleared DEF OneContext
  <2>2. p \in RunIds \cup {None}
    BY TheOnlyIsOne DEF ParkedRuns
  <2>3. Park(s, r) = [w EXCEPT !.parked = p]
    BY <1>2 DEF Park
  <2> HIDE DEF u, p
  <2>4. /\ w \in Sessions /\ w.ctx = u.ctx
        /\ w.goal = (IF u.goal = r THEN None ELSE u.goal)
        /\ w.foreground = (IF u.foreground = r THEN None ELSE u.foreground)
    BY <2>1 DEF Without, Sessions
  <2> HIDE DEF w
  <2> DEFINE t == [w EXCEPT !.parked = p]
  <2>5. t \in Sessions /\ t.ctx = w.ctx /\ t.goal = w.goal /\ t.foreground = w.foreground
    BY <2>2, <2>4 DEF Sessions
  <2>6. Park(s, r) = t
    BY <2>3
  <2> HIDE DEF t
  <2>7. Edited(s, t, r)
    BY <2>1, <2>4, <2>5 DEF Edited
  <2>8. QED
    BY <1>2, <2>1, <2>4, <2>5, <2>6, <2>7
<1>3. QED
  BY <1>1, <1>2

\* _restore_parked_job_run, once accepted: a running Task again.
LEMMA RestoredEdits ==
  ASSUME NEW s \in Sessions, NEW r \in RunIds, NEW e \in RunIds \cup {None}
  PROVE  LET t == Restored(s, r, e) c == s.ctx[r] d == t.ctx[r] IN
           /\ Edited(s, t, r)
           /\ t.goal = s.goal
           /\ t.foreground = (IF e = None THEN r ELSE s.foreground)
           /\ d.task = "running" /\ d.exec = "runnable" /\ ~d.work.fresh
           /\ d.bound = c.bound /\ d.grant = c.grant
           /\ d.work.phase = c.work.phase /\ d.work.cancelled = c.work.cancelled
<1> DEFINE u1 == [s EXCEPT !.ctx[r].task = "running"]
           u2 == [u1 EXCEPT !.ctx[r].exec = "runnable"]
           u == [u2 EXCEPT !.ctx[r].work.fresh = FALSE]
<1>1. /\ u \in Sessions /\ u.goal = s.goal /\ u.foreground = s.foreground
      /\ \A q \in RunIds \ {r} : u.ctx[q] = s.ctx[q]
      /\ u.ctx[r].task = "running" /\ u.ctx[r].exec = "runnable" /\ ~u.ctx[r].work.fresh
      /\ u.ctx[r].bound = s.ctx[r].bound /\ u.ctx[r].grant = s.ctx[r].grant
      /\ u.ctx[r].work.phase = s.ctx[r].work.phase
      /\ u.ctx[r].work.cancelled = s.ctx[r].work.cancelled
  <2>0. "running" \in Tasks /\ "runnable" \in Execs
    BY DEF Tasks, Execs
  <2>1. OneContext(s, u1, r) /\ u1.ctx[r].task = "running" /\ u1.ctx[r].bound = s.ctx[r].bound
        /\ u1.ctx[r].grant = s.ctx[r].grant /\ u1.ctx[r].work = s.ctx[r].work
    BY <2>0, TaskAssigned
  <2> HIDE DEF u1
  <2>2. OneContext(u1, u2, r) /\ u2.ctx[r].exec = "runnable" /\ u2.ctx[r].bound = u1.ctx[r].bound
        /\ u2.ctx[r].task = u1.ctx[r].task
        /\ u2.ctx[r].grant = u1.ctx[r].grant /\ u2.ctx[r].work = u1.ctx[r].work
    BY <2>0, <2>1, ExecAssigned DEF OneContext
  <2> HIDE DEF u2
  <2>3. QED
    BY <2>1, <2>2, FreshCleared DEF OneContext
<1>2. Restored(s, r, e) = [Without(u, "parked", r) EXCEPT !.foreground = IF e = None THEN r ELSE @]
  BY DEF Restored
<1> HIDE DEF u
<1>3. QED
  BY <1>1, <1>2 DEF Edited, Without, Sessions

\* finish_task: the ending is decided unless it was decided before.
LEMMA TaskEndedEdits ==
  ASSUME NEW s \in Sessions, NEW r \in RunIds, NEW v \in EndedTask
  PROVE  LET t == TaskEnded(s, r, v) c == s.ctx[r] d == t.ctx[r] IN
           /\ Edited(s, t, r)
           /\ t.foreground = s.foreground
           /\ d.grant = NoGrant
           /\ d.work.phase = c.work.phase /\ d.work.cancelled = c.work.cancelled
           /\ \/ /\ c.task \in EndedTask
                 /\ t.goal = s.goal
                 /\ d.task = c.task /\ d.bound = c.bound /\ d.exec = c.exec /\ d.work = c.work
              \/ /\ c.task \notin EndedTask
                 /\ t.goal = (IF s.goal = r THEN None ELSE s.goal)
                 /\ d.task = v /\ ~d.bound /\ d.exec = "runnable" /\ ~d.work.fresh
<1>1. CASE s.ctx[r].task \in EndedTask
  BY <1>1, GrantDroppedEdits DEF TaskEnded
<1>2. CASE s.ctx[r].task \notin EndedTask
  <2> DEFINE g == GrantDropped(s, r)
             u1 == [g EXCEPT !.ctx[r].task = v]
             u == [u1 EXCEPT !.ctx[r].bound = FALSE]
             w1 == [u EXCEPT !.ctx[r].exec = "runnable"]
             w == [w1 EXCEPT !.ctx[r].work.fresh = FALSE]
  <2>1. TaskEnded(s, r, v) = Without(w, "goal", r)
    BY <1>2 DEF TaskEnded
  <2>2. Edited(s, g, r) /\ g \in Sessions /\ g.ctx[r].grant = NoGrant
        /\ g.ctx[r].work = s.ctx[r].work
        /\ g.goal = s.goal /\ g.foreground = s.foreground
    BY GrantDroppedEdits DEF Edited
  <2> HIDE DEF g
  <2>3. /\ u \in Sessions /\ u.goal = g.goal /\ u.foreground = g.foreground
        /\ \A q \in RunIds \ {r} : u.ctx[q] = g.ctx[q]
        /\ u.ctx[r].task = v /\ ~u.ctx[r].bound
        /\ u.ctx[r].grant = g.ctx[r].grant /\ u.ctx[r].work = g.ctx[r].work
    <3>0. v \in Tasks
      BY DEF Tasks
    <3>1. OneContext(g, u1, r) /\ u1.ctx[r].task = v /\ u1.ctx[r].grant = g.ctx[r].grant
          /\ u1.ctx[r].work = g.ctx[r].work
      BY <2>2, <3>0, TaskAssigned
    <3> HIDE DEF u1
    <3> DEFINE b == FALSE
    <3>2. u1 \in Sessions /\ b \in BOOLEAN /\ ~b
      BY <3>1 DEF OneContext
    <3>3. u = [u1 EXCEPT !.ctx[r].bound = b]
      OBVIOUS
    <3> HIDE DEF b, u
    <3>4. /\ OneContext(u1, u, r) /\ u.ctx[r].bound = b /\ u.ctx[r].task = u1.ctx[r].task
          /\ u.ctx[r].grant = u1.ctx[r].grant /\ u.ctx[r].work = u1.ctx[r].work
      BY <3>2, <3>3, BoundAssigned
    <3>5. QED
      BY <3>1, <3>2, <3>4 DEF OneContext
  <2> HIDE DEF u
  <2>4. /\ w \in Sessions /\ w.goal = u.goal /\ w.foreground = u.foreground
        /\ \A q \in RunIds \ {r} : w.ctx[q] = u.ctx[q]
        /\ w.ctx[r].task = u.ctx[r].task /\ w.ctx[r].bound = u.ctx[r].bound
        /\ w.ctx[r].grant = u.ctx[r].grant /\ w.ctx[r].exec = "runnable"
        /\ w.ctx[r].work.phase = u.ctx[r].work.phase /\ ~w.ctx[r].work.fresh
        /\ w.ctx[r].work.cancelled = u.ctx[r].work.cancelled
    <3>0. "runnable" \in Execs
      BY DEF Execs
    <3>1. OneContext(u, w1, r) /\ w1.ctx[r].exec = "runnable" /\ w1.ctx[r].grant = u.ctx[r].grant
          /\ w1.ctx[r].work = u.ctx[r].work /\ w1.ctx[r].task = u.ctx[r].task
          /\ w1.ctx[r].bound = u.ctx[r].bound
      BY <2>3, <3>0, ExecAssigned
    <3> HIDE DEF w1
    <3>2. QED
      BY <3>1, FreshCleared DEF OneContext
  <2> HIDE DEF w
  <2> DEFINE t == Without(w, "goal", r)
  <2>5. /\ t \in Sessions /\ t.ctx = w.ctx /\ t.foreground = w.foreground
        /\ t.goal = (IF w.goal = r THEN None ELSE w.goal)
    BY <2>4 DEF Without, Sessions
  <2> HIDE DEF t
  <2>6. QED
    BY <1>2, <2>1, <2>2, <2>3, <2>4, <2>5 DEF Edited, t
<1>3. QED
  BY <1>1, <1>2

\* ... and the JobProgress.
LEMMA ProgressAssigned ==
  ASSUME NEW s \in Sessions, NEW r \in RunIds, NEW x \in RunIds \cup {None}
  PROVE  LET t == [s EXCEPT !.ctx[r].progress = x] c == s.ctx[r] d == t.ctx[r] IN
           /\ OneContext(s, t, r)
           /\ d.task = c.task /\ d.bound = c.bound /\ d.exec = c.exec /\ d.grant = c.grant
           /\ d.work = c.work
BY DEF Sessions, Contexts, OneContext

\* The recorded ending: the context leaves, or stays terminal until its work is gone.
LEMMA RunEndedEdits ==
  ASSUME NEW s \in Sessions, SessionSound(s), NEW r \in RunIds, NEW v \in EndedTask
  PROVE  LET t == RunEnded(s, r, v) c == s.ctx[r] d == t.ctx[r] IN
           /\ Edited(s, t, r)
           /\ t.goal # r /\ (t.foreground = r => s.foreground = r)
           /\ \/ d = NoContext
              \/ /\ d.exec = "terminal" /\ c.work.phase # "none"
                 /\ d.task \in EndedTask /\ ~d.bound /\ d.grant = NoGrant /\ ~d.work.fresh
                 /\ d.work.phase = c.work.phase /\ d.work.cancelled = c.work.cancelled
<1> DEFINE u == TaskEnded(s, r, v)
           w == [u EXCEPT !.ctx[r].exec = "terminal"]
           x == [w EXCEPT !.ctx[r].progress = None]
           y == [x EXCEPT !.ctx[r].work.fresh = FALSE]
<1>1. /\ Edited(s, u, r) /\ u \in Sessions /\ u.goal # r /\ u.foreground = s.foreground
      /\ u.ctx[r].task \in EndedTask /\ ~u.ctx[r].bound /\ u.ctx[r].grant = NoGrant
      /\ u.ctx[r].work.phase = s.ctx[r].work.phase
      /\ u.ctx[r].work.cancelled = s.ctx[r].work.cancelled
  <2>1. "running" \notin EndedTask /\ "paused" \notin EndedTask /\ None # r
    BY NoneAssumption DEF EndedTask
  <2>2. s.ctx[r].task \in EndedTask => s.goal # r /\ ~s.ctx[r].bound
    BY <2>1 DEF SessionSound, ContextSound
  <2>3. s.ctx[r].bound \in BOOLEAN /\ u.ctx[r].bound \in BOOLEAN
    BY TaskEndedEdits DEF Edited, Sessions, Contexts
  <2>4. QED
    BY <2>1, <2>2, <2>3, TaskEndedEdits DEF Edited
<1>2. RunEnded(s, r, v) = Removed(y, r)
  BY DEF RunEnded
<1> HIDE DEF u
<1>3. OneContext(u, w, r) /\ w.ctx[r].exec = "terminal" /\ w.ctx[r].task = u.ctx[r].task
      /\ w.ctx[r].bound = u.ctx[r].bound /\ w.ctx[r].grant = u.ctx[r].grant
      /\ w.ctx[r].work = u.ctx[r].work
  <2>1. "terminal" \in Execs
    BY DEF Execs
  <2>2. QED
    BY <1>1, <2>1, ExecAssigned
<1> HIDE DEF w
<1>4. OneContext(w, x, r) /\ x.ctx[r].exec = w.ctx[r].exec /\ x.ctx[r].task = w.ctx[r].task
      /\ x.ctx[r].bound = w.ctx[r].bound /\ x.ctx[r].grant = w.ctx[r].grant
      /\ x.ctx[r].work = w.ctx[r].work
  BY <1>3, ProgressAssigned DEF OneContext
<1> HIDE DEF x
<1>5. OneContext(x, y, r) /\ y.ctx[r].exec = x.ctx[r].exec /\ y.ctx[r].task = x.ctx[r].task
      /\ y.ctx[r].bound = x.ctx[r].bound /\ y.ctx[r].grant = x.ctx[r].grant
      /\ ~y.ctx[r].work.fresh /\ y.ctx[r].work.phase = x.ctx[r].work.phase
      /\ y.ctx[r].work.cancelled = x.ctx[r].work.cancelled
  BY <1>4, FreshCleared DEF OneContext
<1> HIDE DEF y
<1> DEFINE t == Removed(y, r)
<1>6. /\ Edited(y, t, r) /\ t.goal = y.goal
      /\ \/ t.ctx[r] = NoContext /\ t.foreground = (IF y.foreground = r THEN None ELSE y.foreground)
         \/ /\ y.ctx[r].work.phase # "none" /\ t.ctx[r].exec = "terminal"
            /\ t.foreground = y.foreground
            /\ t.ctx[r].task = y.ctx[r].task /\ t.ctx[r].bound = y.ctx[r].bound
            /\ t.ctx[r].grant = y.ctx[r].grant /\ t.ctx[r].work = y.ctx[r].work
  BY <1>5, RemovedEdits DEF OneContext
<1> HIDE DEF t
<1>7. Edited(s, t, r)
  BY <1>1, <1>3, <1>4, <1>5, <1>6 DEF Edited, OneContext
<1>8. t.goal # r /\ (t.foreground = r => s.foreground = r)
  BY <1>1, <1>3, <1>4, <1>5, <1>6 DEF OneContext
<1>9. QED
  BY <1>1, <1>2, <1>3, <1>4, <1>5, <1>6, <1>7, <1>8 DEF t

\* What the ends of an episode leave an occurrence in: parked, or as it was.
Rested(s, t, r) ==
  LET c == s.ctx[r]
      d == t.ctx[r]
  IN  /\ Edited(s, t, r)
      /\ d.bound = c.bound /\ d.work.phase = c.work.phase /\ d.work.cancelled = c.work.cancelled
      /\ \/ /\ c.bound /\ c.task = "running"
            /\ t.goal # r /\ t.foreground # r
            /\ d.task = "paused" /\ d.exec = "parked" /\ ~d.work.fresh
         \/ /\ t.goal = s.goal /\ t.foreground = s.foreground
            /\ d.task = c.task /\ d.exec = c.exec /\ d.work = c.work

\* A context that Park leaves is still sound, whatever it was.
LEMMA ParkRests ==
  ASSUME NEW s \in Sessions, NEW r \in RunIds, NEW g \in Grants
  PROVE  LET t == Park([s EXCEPT !.ctx[r].grant = g], r) IN
           Rested(s, t, r) /\ t.ctx[r].grant \in {g, NoGrant}
<1> DEFINE u == [s EXCEPT !.ctx[r].grant = g]
           t == Park(u, r)
<1>1. /\ OneContext(s, u, r) /\ u.ctx[r].grant = g /\ u.ctx[r].task = s.ctx[r].task
      /\ u.ctx[r].bound = s.ctx[r].bound /\ u.ctx[r].exec = s.ctx[r].exec
      /\ u.ctx[r].work = s.ctx[r].work
  BY GrantAssigned
<1> HIDE DEF u
<1>2. u \in Sessions
  BY <1>1 DEF OneContext
<1>3. /\ Edited(u, t, r) /\ t.ctx[r].bound = u.ctx[r].bound
      /\ t.ctx[r].work.phase = u.ctx[r].work.phase
      /\ t.ctx[r].work.cancelled = u.ctx[r].work.cancelled
      /\ \/ /\ u.ctx[r].bound /\ u.ctx[r].task = "running"
            /\ t.goal # r /\ t.foreground # r
            /\ t.ctx[r].task = "paused" /\ t.ctx[r].exec = "parked"
            /\ t.ctx[r].grant = u.ctx[r].grant /\ ~t.ctx[r].work.fresh
         \/ /\ t.goal = u.goal /\ t.foreground = u.foreground
            /\ t.ctx[r].task = u.ctx[r].task /\ t.ctx[r].exec = u.ctx[r].exec
            /\ t.ctx[r].grant = NoGrant
            /\ t.ctx[r].work = u.ctx[r].work
  BY <1>2, ParkEdits, NoneAssumption
<1> HIDE DEF t
<1>4. Edited(s, t, r)
  BY <1>1, <1>3 DEF Edited, OneContext
<1>5. QED
  BY <1>1, <1>3, <1>4 DEF Rested, OneContext, u, t

\* Changing a grant does not disturb the rest of a context.
LEMMA GrantSetRests ==
  ASSUME NEW s \in Sessions, NEW r \in RunIds, NEW g \in Grants
  PROVE  LET t == [s EXCEPT !.ctx[r].grant = g] IN Rested(s, t, r) /\ t.ctx[r].grant = g
BY GrantAssigned DEF Rested, Edited, OneContext

\* Parking only if the outcome waits for something.
LEMMA ParkIfWaitingRests ==
  ASSUME NEW s \in Sessions, NEW r \in RunIds, NEW g \in Grants, NEW o
  PROVE  LET t == ParkIfWaiting([s EXCEPT !.ctx[r].grant = g], r, o) IN
           Rested(s, t, r) /\ t.ctx[r].grant \in {g, NoGrant}
BY ParkRests, GrantSetRests DEF ParkIfWaiting

\* _arm_job_continuation, and the end of automatic work: what is armed is sound, and automatic
\* work does not widen its budget.
LEMMA ArmedRests ==
  ASSUME NEW s \in Sessions, NEW r \in RunIds, NEW kind, NEW o \in Readiness \cup {Invalid}
  PROVE  LET t == Armed(s, r, kind, o) IN
           /\ Rested(s, t, r)
           /\ kind = "auto" => t.ctx[r].grant.steps <= s.ctx[r].grant.steps
<1> DEFINE g == s.ctx[r].grant
           h == [g EXCEPT !.state = IF g.steps = 0 THEN "awaiting" ELSE @,
                          !.ready = o, !.due = FALSE]
           anew == Grant("armed", MaxSteps, o)
           steps == IF g.state = "none" THEN MaxSteps ELSE g.steps
           await == Grant("awaiting", steps, "operator")
<1>1. g \in Grants
  BY DEF Sessions, Contexts
<1>2. o # Invalid => h \in Grants /\ anew \in Grants /\ h.steps = g.steps
  BY <1>1, MaxStepsAssumption DEF Grants, Grant
<1>3. await \in Grants /\ await.steps = steps
  BY <1>1, MaxStepsAssumption DEF Grants, Grant, Readiness, Waits
<1>4. NoGrant.steps = 0 /\ g.steps \in Nat
  BY <1>1 DEF NoGrant, Grants
<1>5. Rested(s, s, r)
  BY DEF Rested, Edited
<1>6. AwaitOperator(s, r) = Park([s EXCEPT !.ctx[r].grant = await], r)
  BY DEF AwaitOperator
<1>7. ArmedAgain(s, r, o) = IF g.state = "none" THEN s
                            ELSE IF o = Invalid THEN AwaitOperator(s, r)
                            ELSE ParkIfWaiting([s EXCEPT !.ctx[r].grant = h], r, o)
  BY DEF ArmedAgain
<1>8. ArmedAnew(s, r, o) = IF s.ctx[r].exec \in {"none", "stopping"} THEN s
                           ELSE IF o = Invalid THEN AwaitOperator(s, r)
                           ELSE ParkIfWaiting([s EXCEPT !.ctx[r].grant = anew], r, o)
  BY DEF ArmedAnew
<1> HIDE DEF h, anew, await
<1> DEFINE again == ArmedAgain(s, r, o)
           new == ArmedAnew(s, r, o)
<1>9. Rested(s, new, r)
  BY <1>2, <1>3, <1>5, <1>6, <1>8, ParkRests, ParkIfWaitingRests
<1>10. Rested(s, again, r) /\ again.ctx[r].grant.steps <= s.ctx[r].grant.steps
  <2>1. CASE g.state = "none"
    BY <2>1, <1>4, <1>5, <1>7
  <2>2. CASE g.state # "none" /\ o = Invalid
    <3>1. again = Park([s EXCEPT !.ctx[r].grant = await], r)
      BY <2>2, <1>6, <1>7
    <3>2. Rested(s, again, r) /\ again.ctx[r].grant \in {await, NoGrant}
      BY <3>1, <1>3, ParkRests
    <3>3. QED
      BY <3>2, <2>2, <1>3, <1>4
  <2>3. CASE g.state # "none" /\ o # Invalid
    <3>1. again = ParkIfWaiting([s EXCEPT !.ctx[r].grant = h], r, o)
      BY <2>3, <1>7
    <3>2. Rested(s, again, r) /\ again.ctx[r].grant \in {h, NoGrant}
      BY <3>1, <2>3, <1>2, ParkIfWaitingRests
    <3>3. QED
      BY <3>2, <2>3, <1>2, <1>4
  <2>4. QED
    BY <2>1, <2>2, <2>3
<1>11. QED
  BY <1>9, <1>10 DEF Armed

-----------------------------------------------------------------------------
(***************************************************************************)
(* The invariant.  Every action is shown to keep it, and to do to each     *)
(* occurrence only what StepSound allows.                                  *)
(***************************************************************************)

\* The ledger, the attention and the console agree with the context of r.
ContextMatches(r) ==
  /\ status[r] \in {"absent", "pending"} \/ phase = "down" => ctx[r].exec = "none"
  /\ phase = "running" /\ status[r] = "running" => ctx[r].exec \notin {"none", "terminal"}
  /\ phase = "running" /\ ctx[r].bound => status[r] = "running"
  /\ Phase(r) \in {"created", "running"} => r \in episodes

\* What finish_job_run_by_id has told the work it waits for stays told.
HeldForFinish(r) ==
  console.doing = "finishing" /\ console.run = r =>
    /\ ctx[r].exec = "stopping"
    /\ ctx[r].grant.state = "none"
    /\ Phase(r) \in {"created", "running"} => ctx[r].work.cancelled

\* _active_goal and the foreground lead only to what may run.
ViewsMatch(r) ==
  /\ session.goal = r => ctx[r].bound /\ ctx[r].task = "running"
  /\ session.foreground = r => ctx[r].exec # "parked"

SoundAt(r) == ContextSound(ctx[r]) /\ ViewsMatch(r) /\ ContextMatches(r) /\ HeldForFinish(r)

\* The types, and the loop routines that only exist in one stage of the lifecycle.
VolatileTypeOK ==
  /\ session \in Sessions
  /\ IsFiniteSet(episodes) /\ Cardinality(episodes) <= MaxWork
  /\ consoleExact \in RunIds \cup {None}
  /\ console.doing = "finishing" => console.run \in RunIds /\ console.verdict \in EndedTask
  /\ loop.routine = "starting" => phase = "running"
  /\ loop.routine = "interrupting" => phase = "joined"

IInv == VolatileTypeOK /\ \A r \in RunIds : SoundAt(r)

\* What a step may do to occurrence r: VerdictNotOvertaken, EndingsAgree, BudgetNotSelfGranted and
\* RestoredWithAuthority of one occurrence.
StepSound(r) ==
  /\ console.doing = "finishing" /\ console.run = r /\ status[r] = "running"
       => status'[r] \in {"running", console.verdict, "interrupted"}
  /\ ctx[r].task \in EndedTask /\ status[r] = "running"
       => status'[r] \in {"running", ctx[r].task, "interrupted"}
  /\ ctx'[r].grant.steps > ctx[r].grant.steps
       => Phase(r) = "running" /\ ctx[r].work.kind # "auto"
  /\ ctx[r].exec = "parked" /\ ctx'[r].exec = "runnable" /\ ctx'[r].task = "running"
       => enabled[job[r]] /\ status[r] = "running"

\* What is shown of every action.
Preserved == IInv' /\ \A r \in RunIds : StepSound(r)

\* d is c as far as the invariant can tell.
Undisturbed(c, d) ==
  /\ d.task = c.task /\ d.bound = c.bound /\ d.exec = c.exec
  /\ d.grant.steps = c.grant.steps
  /\ d.work.phase = c.work.phase /\ d.work.fresh = c.work.fresh
  /\ c.work.cancelled => d.work.cancelled

\* The contexts of a session are contexts.
LEMMA ContextsTyped ==
  ASSUME NEW s \in Sessions, NEW r \in RunIds
  PROVE  /\ s.ctx[r] \in Contexts
         /\ s.ctx[r].grant.steps \in Nat
BY DEF Sessions, Contexts, Grants

\* What a step owes of an occurrence that it leaves alone.
LEMMA UntouchedStaysSound ==
  ASSUME IInv, session' \in Sessions, NEW q \in RunIds,
         Undisturbed(ctx[q], ctx'[q]),
         session'.goal = q => session.goal = q, session'.foreground = q => session.foreground = q,
         status'[q] = status[q] \/ (status[q] \in {"absent", "pending"} /\ status'[q] # "running"),
         phase' = phase \/ (phase' = "stopping") \/ (phase' \in {"joining", "joined"}),
         q \in episodes => q \in episodes',
         console'.doing = "finishing" /\ console'.run = q
           => console' = console /\ ctx'[q].grant.state = ctx[q].grant.state
  PROVE  SoundAt(q)' /\ StepSound(q)
<1>1. SoundAt(q)
  BY DEF IInv
<1>2. ctx[q].grant.steps \in Nat
  BY ContextsTyped DEF IInv, VolatileTypeOK, ctx
<1>3. ContextSound(ctx[q])'
  BY <1>1 DEF Undisturbed, SoundAt, ContextSound
<1>4. ViewsMatch(q)'
  BY <1>1 DEF Undisturbed, SoundAt, ViewsMatch
<1>5. ContextMatches(q)'
  <2>1. status[q] \in {"absent", "pending"} => ctx[q].exec = "none" /\ ~ctx[q].bound
    BY <1>1 DEF SoundAt, ContextMatches, ContextSound
  <2>2. QED
    BY <1>1, <2>1 DEF Undisturbed, SoundAt, ContextMatches, Phase
<1>6. HeldForFinish(q)'
  BY <1>1 DEF Undisturbed, SoundAt, HeldForFinish, Phase
<1>7. StepSound(q)
  BY <1>1, <1>2 DEF Undisturbed, StepSound
<1>8. QED
  BY <1>3, <1>4, <1>5, <1>6, <1>7 DEF SoundAt

\* A step that leaves all contexts alone.
LEMMA QuietSession ==
  ASSUME IInv, VolatileTypeOK',
         UNCHANGED session, UNCHANGED phase, episodes \subseteq episodes',
         \A q \in RunIds : status'[q] = status[q] \/ (status[q] \in {"absent", "pending"}
         /\ status'[q] # "running"),
         console' = console \/ console'.doing # "finishing"
  PROVE  Preserved
<1>1. ASSUME NEW q \in RunIds PROVE SoundAt(q)' /\ StepSound(q)
  <2>1. Undisturbed(ctx[q], ctx'[q]) /\ session' \in Sessions /\ ctx'[q] = ctx[q]
    BY DEF Undisturbed, ctx, IInv, VolatileTypeOK
  <2>2. QED
    BY <2>1, UntouchedStaysSound
<1>2. QED
  BY <1>1 DEF Preserved, IInv

\* A step that edits one context owes the invariant only there.
LEMMA EditOfOne ==
  ASSUME IInv, VolatileTypeOK', NEW r \in RunIds, Edited(session, session', r),
         UNCHANGED phase,
         \A q \in RunIds \ {r} : status'[q] = status[q] /\ (q \in episodes => q \in episodes'),
         console' = console \/ console'.doing # "finishing" \/ console'.run = r,
         SoundAt(r)', StepSound(r)
  PROVE  Preserved
<1>1. ASSUME NEW q \in RunIds PROVE SoundAt(q)' /\ StepSound(q)
  <2>1. CASE q = r
    BY <2>1
  <2>2. CASE q # r
    <3>1. Undisturbed(ctx[q], ctx'[q]) /\ session' \in Sessions
      BY <2>2 DEF Undisturbed, ctx, Edited
    <3>2. session'.goal = q => session.goal = q
      BY <2>2, NoneAssumption DEF Edited
    <3>3. session'.foreground = q => session.foreground = q
      BY <2>2, NoneAssumption DEF Edited
    <3>4. /\ console'.doing = "finishing" /\ console'.run = q => console' = console
          /\ ctx'[q].grant = ctx[q].grant
      BY <2>2 DEF Edited, ctx
    <3>5. QED
      BY <2>2, <3>1, <3>2, <3>3, <3>4, UntouchedStaysSound
  <2>3. QED
    BY <2>1, <2>2
<1>2. QED
  BY <1>1 DEF Preserved, IInv

\* Operator turns and general initiative leave Jobs alone.
LEMMA AttentionPreserves ==
  ASSUME IInv, Attention
  PROVE  Preserved
<1>1. /\ UNCHANGED <<session, phase, episodes, status, console, consoleExact, loop>>
  BY DEF Attention, OperatorBegins, OperatorEnds, InitiativeBegins, InitiativeEnds, durable,
     ledgerVars
<1>2. VolatileTypeOK'
  BY <1>1 DEF IInv, VolatileTypeOK
<1>3. QED
  BY <1>1, <1>2, QuietSession

\* create_run makes a row that has no context yet.
LEMMA CreationPreserves ==
  ASSUME IInv, NEW j \in Jobs, NEW r \in RunIds, StartJobRun(j, r) \/ ActivateJob(j, r),
     LedgerTypeOK
  PROVE  Preserved
<1>1. \E by : BeginOccurrence(j, r, by)
  BY DEF StartJobRun, ActivateJob
<1>2. phase = "running"
  BY DEF StartJobRun, ActivateJob, Running
<1>3. UNCHANGED <<session, phase, episodes, console, consoleExact>>
  BY <1>1 DEF BeginOccurrence
<1>4. VolatileTypeOK'
  <2>1. loop'.routine = "starting"
    BY <1>1 DEF BeginOccurrence
  <2>2. QED
    BY <1>2, <1>3, <2>1 DEF IInv, VolatileTypeOK
<1>5. \A q \in RunIds : status'[q] = status[q] \/ (status[q] \in {"absent", "pending"}
      /\ status'[q] # "running")
  BY <1>1 DEF BeginOccurrence, CreateRun, NextRow, LedgerTypeOK
<1>6. QED
  BY <1>3, <1>4, <1>5, QuietSession

\* Enabling and disabling a Job does not reach its occurrences.
LEMMA ConfigurePreserves ==
  ASSUME IInv, NEW j \in Jobs, NEW b \in BOOLEAN, ConfigureJob(j, b)
  PROVE  Preserved
<1>1. UNCHANGED <<session, phase, episodes, status, console, consoleExact, loop>>
  BY DEF ConfigureJob, SetJobEnabled, volatile
<1>2. VolatileTypeOK'
  BY <1>1 DEF IInv, VolatileTypeOK
<1>3. QED
  BY <1>1, <1>2, QuietSession

\* The parts of an action that leave everything but the session of r alone.
LEMMA SessionEdit ==
  ASSUME IInv, NEW r \in RunIds, Edited(session, session', r),
         UNCHANGED <<status, phase, loop, episodes, console, consoleExact>>,
         ContextSound(ctx'[r]), ViewsMatch(r)',
         ctx'[r].exec \in {"none", "terminal"} <=> ctx[r].exec \in {"none", "terminal"},
         ctx[r].exec = "none" <=> ctx'[r].exec = "none",
         ctx'[r].bound => ctx[r].bound,
         Phase(r)' \in {"created", "running"} => Phase(r) \in {"created", "running"},
         HeldForFinish(r)',
         ctx'[r].grant.steps <= ctx[r].grant.steps,
         ctx[r].exec = "parked" /\ ctx'[r].exec = "runnable" /\ ctx'[r].task = "running"
           => enabled[job[r]] /\ status[r] = "running"
  PROVE  Preserved
<1>1. VolatileTypeOK'
  BY DEF IInv, VolatileTypeOK, Edited
<1>2. SoundAt(r)
  BY DEF IInv
<1>3. ContextMatches(r)'
  BY <1>2 DEF SoundAt, ContextMatches, Phase
<1>4. ctx[r].grant.steps \in Nat /\ ctx'[r].grant.steps \in Nat
  BY ContextsTyped DEF IInv, VolatileTypeOK, ctx, Edited
<1>5. StepSound(r)
  BY <1>4 DEF StepSound
<1>6. SoundAt(r)'
  BY <1>3 DEF SoundAt
<1>7. QED
  BY <1>1, <1>5, <1>6, EditOfOne

\* Of the work record: its phase, ...
LEMMA PhaseAssigned ==
  ASSUME NEW s \in Sessions, NEW r \in RunIds, NEW v \in Phases
  PROVE  LET t == [s EXCEPT !.ctx[r].work.phase = v] c == s.ctx[r] d == t.ctx[r] IN
           /\ OneContext(s, t, r)
           /\ d.task = c.task /\ d.bound = c.bound /\ d.exec = c.exec /\ d.grant = c.grant
           /\ d.work.phase = v /\ d.work.kind = c.work.kind /\ d.work.fresh = c.work.fresh
           /\ d.work.cancelled = c.work.cancelled /\ d.work.proposal = c.work.proposal
<1> DEFINE x == [s.ctx[r].work EXCEPT !.phase = v]
<1>1. s.ctx[r].work \in Works
  BY DEF Sessions, Contexts
<1>2. x \in Works /\ x.phase = v /\ x.kind = s.ctx[r].work.kind /\ x.fresh = s.ctx[r].work.fresh
      /\ x.cancelled = s.ctx[r].work.cancelled /\ x.proposal = s.ctx[r].work.proposal
  BY <1>1 DEF Works, Phases
<1>3. [s EXCEPT !.ctx[r].work.phase = v] = [s EXCEPT !.ctx[r].work = x]
  BY DEF Sessions, Contexts
<1> HIDE DEF x
<1>4. QED
  BY <1>2, <1>3, WorkAssigned

\* ... its cancellation, ...
LEMMA CancelRecorded ==
  ASSUME NEW s \in Sessions, NEW r \in RunIds
  PROVE  LET t == [s EXCEPT !.ctx[r].work.cancelled = TRUE] c == s.ctx[r] d == t.ctx[r] IN
           /\ OneContext(s, t, r)
           /\ d.task = c.task /\ d.bound = c.bound /\ d.exec = c.exec /\ d.grant = c.grant
           /\ d.work.cancelled /\ d.work.phase = c.work.phase /\ d.work.kind = c.work.kind
           /\ d.work.fresh = c.work.fresh /\ d.work.proposal = c.work.proposal
<1> DEFINE x == [s.ctx[r].work EXCEPT !.cancelled = TRUE]
<1>1. s.ctx[r].work \in Works
  BY DEF Sessions, Contexts
<1>2. x \in Works /\ x.cancelled /\ x.phase = s.ctx[r].work.phase /\ x.kind = s.ctx[r].work.kind
      /\ x.fresh = s.ctx[r].work.fresh /\ x.proposal = s.ctx[r].work.proposal
  BY <1>1 DEF Works
<1>3. [s EXCEPT !.ctx[r].work.cancelled = TRUE] = [s EXCEPT !.ctx[r].work = x]
  BY DEF Sessions, Contexts
<1> HIDE DEF x
<1>4. QED
  BY <1>2, <1>3, WorkAssigned

\* ... and the staged report.
LEMMA ProposalAssigned ==
  ASSUME NEW s \in Sessions, NEW r \in RunIds, NEW v \in Readiness \cup {"completed", "failed",
     NoProposal}
  PROVE  LET t == [s EXCEPT !.ctx[r].work.proposal = v] c == s.ctx[r] d == t.ctx[r] IN
           /\ OneContext(s, t, r)
           /\ d.task = c.task /\ d.bound = c.bound /\ d.exec = c.exec /\ d.grant = c.grant
           /\ d.work.proposal = v /\ d.work.phase = c.work.phase /\ d.work.kind = c.work.kind
           /\ d.work.fresh = c.work.fresh /\ d.work.cancelled = c.work.cancelled
<1> DEFINE x == [s.ctx[r].work EXCEPT !.proposal = v]
<1>1. s.ctx[r].work \in Works
  BY DEF Sessions, Contexts
<1>2. x \in Works /\ x.proposal = v /\ x.phase = s.ctx[r].work.phase
      /\ x.kind = s.ctx[r].work.kind /\ x.fresh = s.ctx[r].work.fresh
      /\ x.cancelled = s.ctx[r].work.cancelled
  BY <1>1 DEF Works
<1>3. [s EXCEPT !.ctx[r].work.proposal = v] = [s EXCEPT !.ctx[r].work = x]
  BY DEF Sessions, Contexts
<1> HIDE DEF x
<1>4. QED
  BY <1>2, <1>3, WorkAssigned

\* Only a live context has work.
LEMMA OccupiedIsLive ==
  ASSUME IInv, NEW r \in RunIds, Phase(r) # "none"
  PROVE  ctx[r].exec # "none" /\ ctx[r].exec # "parked" /\ phase # "down"
BY DEF IInv, SoundAt, ContextSound, ContextMatches, Phase

\* A staged report changes nothing that is promised.
LEMMA ProposePreserves ==
  ASSUME IInv, NEW r \in RunIds, NEW o \in ModelProposals, Propose(r, o)
  PROVE  Preserved
<1>1. /\ Edited(session, session', r) /\ session'.goal = session.goal
      /\ session'.foreground = session.foreground
      /\ ctx'[r].task = ctx[r].task /\ ctx'[r].bound = ctx[r].bound /\ ctx'[r].exec = ctx[r].exec
      /\ ctx'[r].grant = ctx[r].grant
      /\ ctx'[r].work.phase = ctx[r].work.phase /\ ctx'[r].work.fresh = ctx[r].work.fresh
      /\ ctx'[r].work.cancelled = ctx[r].work.cancelled
  <2>1. o \in Readiness \cup {"completed", "failed", NoProposal}
    BY ProposalsAssumption
  <2>2. session' = [session EXCEPT !.ctx[r].work.proposal = o] /\ session \in Sessions
    BY DEF Propose, IInv, VolatileTypeOK
  <2>3. QED
    BY <2>1, <2>2, ProposalAssigned DEF ctx, Edited, OneContext
<1>2. SoundAt(r)
  BY DEF IInv
<1>3. ContextSound(ctx'[r])
  BY <1>1, <1>2 DEF SoundAt, ContextSound
<1>4. ViewsMatch(r)'
  BY <1>1, <1>2 DEF SoundAt, ViewsMatch
<1>5. UNCHANGED <<status, phase, loop, episodes, console, consoleExact>>
  BY DEF Propose, durable, ledgerVars
<1>6. HeldForFinish(r)'
  BY <1>1, <1>2, <1>5 DEF SoundAt, HeldForFinish, Phase
<1>7. ctx[r].grant.steps \in Nat
  BY ContextsTyped DEF IInv, VolatileTypeOK, ctx
<1>8. QED
  BY <1>1, <1>3, <1>4, <1>5, <1>6, <1>7, SessionEdit DEF Phase

\* Work that was cancelled before its first step.
LEMMA DropPreserves ==
  ASSUME IInv, NEW r \in RunIds, DropCreatedWork(r)
  PROVE  Preserved
<1>1. /\ Edited(session, session', r) /\ session'.goal = session.goal
      /\ session'.foreground = session.foreground
      /\ ctx'[r].task = ctx[r].task /\ ctx'[r].bound = ctx[r].bound /\ ctx'[r].exec = ctx[r].exec
      /\ ctx'[r].grant = ctx[r].grant
      /\ ctx'[r].work.phase = "gone" /\ ctx'[r].work.fresh = ctx[r].work.fresh
  <2> DEFINE x == "gone"
  <2>1. session' = [session EXCEPT !.ctx[r].work.phase = x] /\ session \in Sessions
    BY DEF DropCreatedWork, IInv, VolatileTypeOK
  <2>2. x \in Phases /\ x = "gone"
    BY DEF Phases
  <2> HIDE DEF x
  <2>3. QED
    BY <2>1, <2>2, PhaseAssigned DEF ctx, Edited, OneContext
<1>2. SoundAt(r) /\ Phase(r) = "created"
  BY DEF IInv, DropCreatedWork
<1>3. ContextSound(ctx'[r])
  BY <1>1, <1>2 DEF SoundAt, ContextSound, Phase
<1>4. ViewsMatch(r)'
  BY <1>1, <1>2 DEF SoundAt, ViewsMatch
<1>5. UNCHANGED <<status, phase, loop, episodes, console, consoleExact>>
  BY DEF DropCreatedWork, durable, ledgerVars
<1>6. HeldForFinish(r)'
  BY <1>1, <1>2, <1>5 DEF SoundAt, HeldForFinish, Phase
<1>7. ctx[r].grant.steps \in Nat
  BY ContextsTyped DEF IInv, VolatileTypeOK, ctx
<1>8. QED
  BY <1>1, <1>3, <1>4, <1>5, <1>6, <1>7, SessionEdit DEF Phase

\* What WorkCleared leaves, in the terms the invariant needs.
LEMMA WorkGoneEdits ==
  ASSUME NEW s \in Sessions, NEW r \in RunIds
  PROVE  LET t == WorkCleared(s, r) c == s.ctx[r] d == t.ctx[r] IN
           /\ Edited(s, t, r)
           /\ t.goal = s.goal
           /\ d.work = NoWork /\ d.work.phase = "none" /\ ~d.work.fresh
           /\ \/ c.exec = "terminal" /\ d = NoContext
                 /\ t.foreground = (IF s.foreground = r THEN None ELSE s.foreground)
              \/ /\ c.exec # "terminal" /\ t.foreground = s.foreground
                 /\ d.task = c.task /\ d.bound = c.bound /\ d.grant = c.grant /\ d.exec = c.exec
<1>1. NoContext.work = NoWork /\ NoWork.phase = "none" /\ NoWork.fresh = FALSE
  BY DEF NoContext, NoWork
<1>2. QED
  BY <1>1, WorkClearedEdits

\* The fields of the empty context and grant.
LEMMA NoContextFields ==
  /\ NoContext.exec = "none" /\ NoContext.task = "none" /\ NoContext.bound = FALSE
  /\ NoContext.work.phase = "none" /\ NoContext.grant.steps = 0 /\ NoContext.grant.state = "none"
  /\ NoGrant.steps = 0 /\ NoGrant.state = "none"
BY DEF NoContext, NoWork, NoGrant

\* The types, when an episode leaves.
LEMMA LeavingTypes ==
  ASSUME IInv, NEW r \in RunIds, session' \in Sessions,
         episodes' \in {episodes, episodes \ {r}}, console' \in {console, ConsoleIdle},
         UNCHANGED <<phase, loop, consoleExact>>
  PROVE  VolatileTypeOK'
<1>1. IsFiniteSet(episodes \ {r}) /\ Cardinality(episodes \ {r}) <= MaxWork
  <2>1. IsFiniteSet(episodes) /\ Cardinality(episodes) <= MaxWork
    BY DEF IInv, VolatileTypeOK
  <2>2. IsFiniteSet(episodes \ {r}) /\ Cardinality(episodes \ {r}) <= Cardinality(episodes)
    BY <2>1, FS_Subset
  <2>3. Cardinality(episodes) \in Nat /\ Cardinality(episodes \ {r}) \in Nat
    BY <2>1, <2>2, FS_CardinalityType
  <2>4. QED
    BY <2>1, <2>2, <2>3, MaxWorkAssumption
<1>2. QED
  BY <1>1 DEF IInv, VolatileTypeOK, ConsoleIdle

\* Work on r that is cleared and leaves its episode.
LEMMA ClearedPreserves ==
  ASSUME IInv, NEW r \in RunIds, session' = WorkCleared(session, r), Phase(r) # "none",
         episodes' = episodes \ {r}, console' \in {console, ConsoleIdle},
         UNCHANGED <<status, phase, loop, consoleExact>>
  PROVE  Preserved
<1> DEFINE c == ctx[r]
           d == ctx'[r]
<1>1. session \in Sessions /\ SoundAt(r)
  BY DEF IInv, VolatileTypeOK
<1>2. /\ Edited(session, session', r) /\ session'.goal = session.goal
      /\ d.work.phase = "none" /\ ~d.work.fresh
      /\ \/ c.exec = "terminal" /\ d = NoContext
         \/ /\ c.exec # "terminal" /\ session'.foreground = session.foreground
            /\ d.task = c.task /\ d.bound = c.bound /\ d.grant = c.grant /\ d.exec = c.exec
  BY <1>1, WorkGoneEdits DEF ctx
<1>3. VolatileTypeOK'
  BY <1>2, LeavingTypes DEF Edited
<1>4. c.exec \notin {"none", "parked"} /\ phase # "down"
  BY OccupiedIsLive
<1>5. c.grant.steps \in Nat
  BY <1>1, ContextsTyped DEF ctx
<1>6. CASE c.exec = "terminal" /\ d = NoContext
  <2>1. d.exec = "none" /\ d.task = "none" /\ d.bound = FALSE /\ d.grant.steps = 0
    BY <1>6, NoContextFields
  <2>2. ContextSound(d)
    BY <1>2, <2>1 DEF ContextSound, EndedTask
  <2>3. c.task # "running"
    BY <1>1, <1>6 DEF SoundAt, ContextSound, EndedTask
  <2>4. ViewsMatch(r)'
    BY <1>1, <1>2, <2>1, <2>3 DEF SoundAt, ViewsMatch
  <2>5. ContextMatches(r)'
    BY <1>1, <1>2, <1>6, <2>1 DEF SoundAt, ContextMatches, Phase
  <2>6. HeldForFinish(r)'
    BY <1>1, <1>6 DEF SoundAt, HeldForFinish, ConsoleIdle
  <2>7. StepSound(r)
    BY <1>5, <2>1, <1>6 DEF StepSound
  <2>8. QED
    BY <1>2, <1>3, <2>2, <2>4, <2>5, <2>6, <2>7, EditOfOne DEF SoundAt, ConsoleIdle
<1>7. CASE c.exec # "terminal" /\ d.task = c.task /\ d.bound = c.bound /\ d.grant = c.grant
           /\ d.exec = c.exec /\ session'.foreground = session.foreground
  <2>1. ContextSound(d)
    BY <1>1, <1>2, <1>4, <1>7 DEF ContextSound, SoundAt
  <2>2. ViewsMatch(r)'
    BY <1>1, <1>2, <1>7 DEF SoundAt, ViewsMatch
  <2>3. ContextMatches(r)'
    BY <1>1, <1>2, <1>7 DEF SoundAt, ContextMatches, Phase
  <2>4. HeldForFinish(r)'
    BY <1>1, <1>2, <1>7 DEF SoundAt, HeldForFinish, ConsoleIdle, Phase
  <2>5. StepSound(r)
    BY <1>5, <1>7, <1>4 DEF StepSound
  <2>6. QED
    BY <1>2, <1>3, <2>1, <2>2, <2>3, <2>4, <2>5, EditOfOne DEF SoundAt, ConsoleIdle
<1>8. QED
  BY <1>2, <1>6, <1>7

\* LeaveWork, unfolded.
LEMMA LeaveFacts ==
  ASSUME NEW r, LeaveWork(r)
  PROVE  episodes' = episodes \ {r} /\ console' \in {console, ConsoleIdle}
         /\ UNCHANGED <<phase, loop, consoleExact>>
BY DEF LeaveWork

\* Work whose backend call was cancelled.
LEMMA CancelledPreserves ==
  ASSUME IInv, NEW r \in RunIds, WorkCancelled(r)
  PROVE  Preserved
<1>1. session' = WorkCleared(session, r) /\ Phase(r) # "none" /\ UNCHANGED status /\ LeaveWork(r)
  BY DEF WorkCancelled, durable, ledgerVars
<1>2. QED
  BY <1>1, LeaveFacts, ClearedPreserves

\* The first step of a work task: it runs, is discarded, or is gone.
LEMMA BeginWorkPreserves ==
  ASSUME IInv, NEW r \in RunIds, BeginWork(r)
  PROVE  Preserved
<1>1. Phase(r) = "created" /\ UNCHANGED <<status, phase, loop, console, consoleExact>>
      /\ ~ctx[r].work.cancelled
  BY DEF BeginWork, durable, ledgerVars
<1>2. CASE session' = WorkCleared(session, r) /\ episodes' = episodes \ {r}
  BY <1>1, <1>2, ClearedPreserves
<1>3. CASE \E x \in {"running", "gone"} : session' = [session EXCEPT !.ctx[r].work.phase = x]
           /\ episodes' = episodes
  <2>1. PICK x \in {"running", "gone"} : session' = [session EXCEPT !.ctx[r].work.phase = x]
    BY <1>3
  <2>2. session \in Sessions /\ x \in Phases /\ SoundAt(r)
    BY DEF IInv, VolatileTypeOK, Phases
  <2>3. /\ Edited(session, session', r) /\ session'.goal = session.goal
        /\ session'.foreground = session.foreground
        /\ ctx'[r].task = ctx[r].task /\ ctx'[r].bound = ctx[r].bound /\ ctx'[r].exec = ctx[r].exec
        /\ ctx'[r].grant = ctx[r].grant
        /\ ctx'[r].work.phase = x /\ ctx'[r].work.fresh = ctx[r].work.fresh
        /\ ctx'[r].work.cancelled = ctx[r].work.cancelled
    BY <2>1, <2>2, PhaseAssigned DEF ctx, Edited, OneContext
  <2>4. ContextSound(ctx'[r])
    BY <2>3, <2>2, <1>1 DEF SoundAt, ContextSound, Phase
  <2>5. ViewsMatch(r)'
    BY <2>3, <2>2 DEF SoundAt, ViewsMatch
  <2>6. HeldForFinish(r)'
    BY <2>3, <2>2, <1>1 DEF SoundAt, HeldForFinish, Phase
  <2>7. ctx[r].grant.steps \in Nat
    BY <2>2, ContextsTyped DEF ctx
  <2>8. UNCHANGED <<status, phase, loop, episodes, console, consoleExact>>
    BY <1>1, <1>3
  <2>9. QED
    BY <1>1, <2>3, <2>4, <2>5, <2>6, <2>7, <2>8, SessionEdit DEF Phase
<1>4. QED
  BY <1>2, <1>3 DEF BeginWork

\* Work that was not told to go away is not waited for.
LEMMA NotHeld ==
  ASSUME IInv, NEW r \in RunIds, EndsRun(r)
  PROVE  /\ ~(console.doing = "finishing" /\ console.run = r)
         /\ ctx[r].exec # "none" /\ ctx[r].exec # "parked" /\ phase # "down"
<1>1. SoundAt(r) /\ Phase(r) = "running" /\ ~ctx[r].work.cancelled
  BY DEF IInv, EndsRun
<1>2. QED
  BY <1>1, OccupiedIsLive DEF SoundAt, HeldForFinish

\* An episode that ends without ending its Run: cleared, then armed or parked.
LEMMA ContinuesPreserves ==
  ASSUME IInv, NEW r \in RunIds, WorkContinues(r)
  PROVE  Preserved
<1> DEFINE t == WorkCleared(session, r)
           c == ctx[r]
           d == ctx'[r]
           o == IF ctx[r].work.proposal \in Readiness THEN ctx[r].work.proposal ELSE Invalid
<1>1. /\ session' = (IF r \in Live(t) THEN Armed(t, r, c.work.kind, o) ELSE t)
      /\ UNCHANGED status /\ LeaveWork(r) /\ EndsRun(r)
  BY DEF WorkContinues, WorkDone, durable, ledgerVars
<1>2. session \in Sessions /\ SoundAt(r) /\ Phase(r) = "running"
  BY <1>1 DEF IInv, VolatileTypeOK, EndsRun
<1>3. CASE r \notin Live(t)
  BY <1>1, <1>2, <1>3, LeaveFacts, ClearedPreserves
<1>4. CASE r \in Live(t)
  <2>1. t.ctx[r].exec # "none"
    BY <1>4 DEF Live
  <2>2. /\ Edited(session, t, r) /\ t.goal = session.goal /\ t.foreground = session.foreground
        /\ t.ctx[r].work.phase = "none" /\ ~t.ctx[r].work.fresh /\ c.exec # "terminal"
        /\ t.ctx[r].task = c.task /\ t.ctx[r].bound = c.bound /\ t.ctx[r].grant = c.grant
        /\ t.ctx[r].exec = c.exec
    BY <1>2, <2>1, WorkGoneEdits, NoContextFields DEF ctx
  <2>3. t \in Sessions
    BY <2>2 DEF Edited
  <2>4. session' = Armed(t, r, c.work.kind, o)
    BY <1>1, <1>4
  <2> HIDE DEF t
  <2>5. o \in Readiness \cup {Invalid}
    OBVIOUS
  <2> HIDE DEF o
  <2>6. Rested(t, session', r) /\ (c.work.kind = "auto" => d.grant.steps <= t.ctx[r].grant.steps)
    BY <2>3, <2>4, <2>5, ArmedRests DEF ctx
  <2>7. /\ Edited(session, session', r)
        /\ d.bound = c.bound /\ d.work.phase = "none"
        /\ \/ /\ c.bound /\ c.task = "running"
              /\ session'.goal # r /\ session'.foreground # r
              /\ d.task = "paused" /\ d.exec = "parked" /\ ~d.work.fresh
           \/ /\ session'.goal = session.goal /\ session'.foreground = session.foreground
              /\ d.task = c.task /\ d.exec = c.exec /\ ~d.work.fresh
    BY <2>2, <2>6 DEF Rested, Edited, ctx
  <2>8. c.exec \notin {"none", "parked"} /\ ~(console.doing = "finishing" /\ console.run = r)
        /\ phase # "down"
    BY <1>1, NotHeld
  <2>9. ContextSound(d)
    BY <1>2, <2>7, <2>8 DEF ContextSound, SoundAt, EndedTask
  <2>10. ViewsMatch(r)'
    BY <1>2, <2>7, <2>8 DEF SoundAt, ViewsMatch
  <2>11. ContextMatches(r)'
    BY <1>1, <1>2, <2>2, <2>7, <2>8, LeaveFacts DEF SoundAt, ContextMatches, Phase
  <2>12. HeldForFinish(r)'
    BY <1>1, <2>8, LeaveFacts DEF HeldForFinish, ConsoleIdle
  <2>13. StepSound(r)
    <3>1. c.grant.steps \in Nat /\ d.grant.steps \in Nat
      BY <1>2, <2>7, ContextsTyped DEF ctx, Edited
    <3>2. Phase(r) = "running" /\ status'[r] = status[r] /\ c.exec # "parked"
      BY <1>1, <1>2, <2>8
    <3>3. c.work.kind = "auto" => d.grant.steps <= c.grant.steps
      BY <2>2, <2>6
    <3>4. QED
      BY <2>8, <3>1, <3>2, <3>3 DEF StepSound
  <2>14. VolatileTypeOK'
    BY <1>1, <2>7, LeaveFacts, LeavingTypes DEF Edited
  <2>15. QED
    BY <1>1, <2>7, <2>9, <2>10, <2>11, <2>12, <2>13, <2>14, LeaveFacts, EditOfOne DEF SoundAt,
       ConsoleIdle
<1>5. QED
  BY <1>3, <1>4

\* An episode's staged ending is recorded.
LEMMA EndsPreserves ==
  ASSUME IInv, LedgerTypeOK, NEW r \in RunIds, WorkEndsRun(r)
  PROVE  Preserved
<1> DEFINE o == ctx[r].work.proposal
           u == RunEnded(session, r, o)
           c == ctx[r]
           d == ctx'[r]
<1>1. /\ session' = WorkCleared(u, r) /\ o \in EndedTask /\ TransitionRun(r, o)
      /\ LeaveWork(r) /\ EndsRun(r) /\ BindingMatches(r)
  BY DEF WorkEndsRun
<1>2. session \in Sessions /\ SoundAt(r) /\ SessionSound(session)
  BY DEF IInv, VolatileTypeOK, SessionSound, SoundAt, ViewsMatch, ctx, ContextSound
<1>3. /\ Edited(session, u, r) /\ u.goal # r /\ (u.foreground = r => session.foreground = r)
      /\ u.ctx[r] = NoContext \/ u.ctx[r].exec = "terminal"
  <2>1. u = RunEnded(session, r, o) /\ o \in EndedTask
    BY <1>1
  <2> HIDE DEF u, o
  <2>2. QED
    BY <2>1, <1>2, RunEndedEdits
<1>4. u \in Sessions
  BY <1>3 DEF Edited
<1>5. u.ctx[r] = NoContext => u.ctx[r].exec # "terminal" /\ u.ctx[r].task = "none"
      /\ u.ctx[r].exec = "none" /\ u.ctx[r].bound = FALSE
              /\ u.ctx[r].grant.steps = 0
  BY NoContextFields
<1> HIDE DEF u, o
<1>6. /\ Edited(u, session', r) /\ session'.goal = u.goal
      /\ d.work.phase = "none" /\ ~d.work.fresh
      /\ d.exec = "none" /\ d.bound = FALSE /\ d.task = "none" /\ d.grant.steps = 0
  BY <1>1, <1>3, <1>4, <1>5, WorkGoneEdits, NoContextFields DEF ctx
<1>7. Edited(session, session', r) /\ session'.goal # r
  BY <1>3, <1>6, NoneAssumption DEF Edited
<1>8. c.grant.steps \in Nat
  BY <1>2, ContextsTyped DEF ctx
<1>9. phase' = phase /\ status' = [status EXCEPT ![r] = o] /\ c.work.fresh
  BY <1>1, LeaveFacts DEF TransitionRun, BindingMatches
<1>10. ContextSound(d) /\ ViewsMatch(r)'
  BY <1>6, <1>7 DEF ContextSound, ViewsMatch, EndedTask
<1>11. ~(console.doing = "finishing" /\ console.run = r)
  BY <1>1, NotHeld
<1>12. HeldForFinish(r)'
  BY <1>1, <1>11, LeaveFacts DEF HeldForFinish, ConsoleIdle
<1>13. ContextMatches(r)'
  <2>1. status'[r] = o
    BY <1>9 DEF LedgerTypeOK
  <2>2. status'[r] # "running"
    BY <2>1, <1>1 DEF EndedTask
  <2>3. QED
    BY <1>6, <2>2 DEF ContextMatches, Phase
<1>14. StepSound(r)
  <2>1. c.task \notin EndedTask
    BY <1>2, <1>9 DEF SoundAt, ContextSound
  <2>2. ctx[r].exec # "parked"
    BY <1>1, NotHeld
  <2>3. QED
    BY <1>6, <1>8, <1>11, <2>1, <2>2 DEF StepSound
<1>15. VolatileTypeOK'
  BY <1>1, <1>7, LeaveFacts, LeavingTypes DEF Edited
<1>16. \A q \in RunIds \ {r} : status'[q] = status[q]
  BY <1>9 DEF LedgerTypeOK
<1>17. QED
  BY <1>1, <1>7, <1>9, <1>10, <1>12, <1>13, <1>14, <1>15, <1>16, LeaveFacts, EditOfOne DEF SoundAt,
     ConsoleIdle

\* A grant that is to wait for the operator.
LEMMA GrantAwaitsEdits ==
  ASSUME NEW s \in Sessions, NEW r \in RunIds
  PROVE  LET t == [s EXCEPT !.ctx[r].grant.state = "awaiting"] c == s.ctx[r] d == t.ctx[r] IN
           /\ OneContext(s, t, r)
           /\ d.task = c.task /\ d.bound = c.bound /\ d.exec = c.exec /\ d.work = c.work
           /\ d.grant.steps = c.grant.steps
<1> DEFINE g == [s.ctx[r].grant EXCEPT !.state = "awaiting"]
<1>1. s.ctx[r].grant \in Grants
  BY DEF Sessions, Contexts
<1>2. g \in Grants /\ g.steps = s.ctx[r].grant.steps
  BY <1>1 DEF Grants
<1>3. [s EXCEPT !.ctx[r].grant.state = "awaiting"] = [s EXCEPT !.ctx[r].grant = g]
  BY DEF Sessions, Contexts
<1> HIDE DEF g
<1>4. QED
  BY <1>2, <1>3, GrantAssigned

\* An episode that raises, with the Task ended in memory or not.
LEMMA FailsPreserves ==
  ASSUME IInv, NEW r \in RunIds, WorkFails(r)
  PROVE  Preserved
<1> DEFINE o == ctx[r].work.proposal
           s == IF o \in EndedTask /\ BindingMatches(r) THEN TaskEnded(session, r, o) ELSE session
           t == WorkCleared(s, r)
           c == ctx[r]
           d == ctx'[r]
<1>1. /\ session' \in {t, [t EXCEPT !.ctx[r].grant.state = "awaiting"]}
      /\ t.ctx[r].grant.state = "none" => session' = t
      /\ UNCHANGED status /\ LeaveWork(r) /\ EndsRun(r)
  BY DEF WorkFails, durable, ledgerVars
<1>2. session \in Sessions /\ SoundAt(r) /\ Phase(r) = "running"
  BY <1>1 DEF IInv, VolatileTypeOK, EndsRun
<1>3. c.exec \notin {"none", "parked"} /\ ~(console.doing = "finishing" /\ console.run = r)
      /\ phase # "down"
  BY <1>1, NotHeld
<1>4. /\ Edited(session, s, r) /\ s.foreground = session.foreground
      /\ s.goal = r => session.goal = r
      /\ s.ctx[r].grant \in {c.grant, NoGrant}
      /\ \/ /\ s.goal = session.goal /\ s.ctx[r].task = c.task /\ s.ctx[r].bound = c.bound
            /\ s.ctx[r].exec = c.exec
         \/ /\ s.goal # r /\ s.ctx[r].task \in EndedTask /\ ~s.ctx[r].bound
            /\ s.ctx[r].exec = "runnable"
  <2>1. CASE o \in EndedTask /\ BindingMatches(r)
    <3>1. s = TaskEnded(session, r, o)
      BY <2>1
    <3>2. o \in EndedTask
      BY <2>1
    <3> HIDE DEF s, o
    <3>3. QED
      BY <3>1, <3>2, <1>2, TaskEndedEdits, NoneAssumption DEF ctx
  <2>2. CASE ~(o \in EndedTask /\ BindingMatches(r))
    <3>1. s = session
      BY <2>2
    <3> HIDE DEF s
    <3>2. QED
      BY <3>1, <1>2 DEF Edited, ctx
  <2>3. QED
    BY <2>1, <2>2
<1> HIDE DEF s, o
<1>5. s \in Sessions
  BY <1>4 DEF Edited
<1>6. /\ Edited(s, t, r) /\ t.goal = s.goal
      /\ t.ctx[r].work.phase = "none" /\ ~t.ctx[r].work.fresh
      /\ \/ s.ctx[r].exec = "terminal" /\ t.ctx[r] = NoContext
         \/ /\ s.ctx[r].exec # "terminal" /\ t.foreground = s.foreground
            /\ t.ctx[r].task = s.ctx[r].task /\ t.ctx[r].bound = s.ctx[r].bound
            /\ t.ctx[r].grant = s.ctx[r].grant /\ t.ctx[r].exec = s.ctx[r].exec
  BY <1>5, WorkGoneEdits
<1>7. t \in Sessions
  BY <1>6 DEF Edited
<1> HIDE DEF t
<1>8. /\ Edited(t, session', r) /\ session'.goal = t.goal /\ session'.foreground = t.foreground
      /\ d.task = t.ctx[r].task /\ d.bound = t.ctx[r].bound /\ d.exec = t.ctx[r].exec
      /\ d.work = t.ctx[r].work /\ d.grant.steps = t.ctx[r].grant.steps
  <2>1. CASE session' = t
    BY <2>1, <1>7 DEF Edited, ctx
  <2>2. CASE session' = [t EXCEPT !.ctx[r].grant.state = "awaiting"]
    BY <2>2, <1>7, GrantAwaitsEdits DEF Edited, OneContext, ctx
  <2>3. QED
    BY <1>1, <2>1, <2>2
<1>9. Edited(session, session', r)
  BY <1>4, <1>6, <1>8 DEF Edited
<1>10. c.grant.steps \in Nat /\ NoGrant.steps = 0 /\ d.grant.steps <= c.grant.steps
  <2>1. c.grant.steps \in Nat /\ NoGrant.steps = 0
    BY <1>2, ContextsTyped, NoContextFields DEF ctx
  <2>2. t.ctx[r].grant.steps \in {0, c.grant.steps}
    BY <1>4, <1>6, NoContextFields
  <2>3. QED
    BY <2>1, <2>2, <1>8
<1>11. /\ d.work.phase = "none" /\ ~d.work.fresh
       /\ \/ d.exec = "none" /\ d.task = "none" /\ d.bound = FALSE /\ c.exec = "terminal"
             /\ session'.goal = session.goal
          \/ /\ c.exec # "terminal" /\ d.task = c.task /\ d.bound = c.bound /\ d.exec = c.exec
             /\ session'.goal = session.goal /\ session'.foreground = session.foreground
          \/ /\ session'.goal # r /\ d.task \in EndedTask /\ ~d.bound /\ d.exec = "runnable"
  BY <1>4, <1>6, <1>8, NoContextFields
<1>12. ContextSound(d)
  BY <1>2, <1>3, <1>11 DEF SoundAt, ContextSound, EndedTask
<1>13. ViewsMatch(r)'
  BY <1>2, <1>3, <1>11 DEF SoundAt, ViewsMatch, ContextSound, EndedTask
<1>14. ContextMatches(r)'
  BY <1>1, <1>2, <1>3, <1>11, LeaveFacts DEF SoundAt, ContextMatches, Phase
<1>15. HeldForFinish(r)'
  BY <1>1, <1>3, LeaveFacts DEF HeldForFinish, ConsoleIdle
<1>16. StepSound(r)
  <2>1. status'[r] = status[r] /\ d.grant.steps \in Nat
    BY <1>1, <1>9, ContextsTyped DEF ctx, Edited
  <2>2. QED
    BY <1>3, <1>10, <2>1 DEF StepSound
<1>17. VolatileTypeOK'
  BY <1>1, <1>9, LeaveFacts, LeavingTypes DEF Edited
<1>18. QED
  BY <1>1, <1>9, <1>12, <1>13, <1>14, <1>15, <1>16, <1>17, LeaveFacts, EditOfOne DEF SoundAt,
     ConsoleIdle

\* _finish_job_run_context, in each of its outcomes.
LEMMA EndingPreserves ==
  ASSUME IInv, LedgerTypeOK, NEW r \in RunIds, ctx[r].exec # "none", NEW v \in EndedTask, Ending(r,
     v),
         UNCHANGED <<phase, loop, episodes, consoleExact>>, console' \in {console, ConsoleIdle},
         console.doing = "finishing" /\ console.run = r => console' = ConsoleIdle
         /\ v = console.verdict
  PROVE  Preserved
<1> DEFINE c == ctx[r]
           d == ctx'[r]
<1>1. session \in Sessions /\ SoundAt(r) /\ SessionSound(session) /\ phase # "down"
      /\ c.exec # "none"
  BY DEF IInv, VolatileTypeOK, SessionSound, SoundAt, ViewsMatch, ctx, ContextSound, ContextMatches
<1>2. HeldForFinish(r)'
  BY DEF HeldForFinish, ConsoleIdle
<1>3. c.grant.steps \in Nat /\ NoGrant.steps = 0
  BY <1>1, ContextsTyped, NoContextFields DEF ctx
<1>4. ASSUME Edited(session, session', r) PROVE VolatileTypeOK'
  BY <1>4 DEF Edited, IInv, VolatileTypeOK, ConsoleIdle
<1>5. CASE UNCHANGED <<durable, session>>
  <2>1. UNCHANGED <<session, status, phase>>
    BY <1>5 DEF durable, ledgerVars
  <2>2. VolatileTypeOK'
    BY <2>1 DEF IInv, VolatileTypeOK, ConsoleIdle
  <2>3. QED
    BY <2>1, <2>2, QuietSession DEF ConsoleIdle
<1>6. CASE UNCHANGED durable /\ session' = GrantDropped(session, r)
  <2>1. /\ Edited(session, session', r) /\ session'.goal = session.goal
        /\ session'.foreground = session.foreground
        /\ d.task = c.task /\ d.bound = c.bound /\ d.exec = c.exec /\ d.work = c.work
        /\ d.grant = NoGrant
    BY <1>1, <1>6, GrantDroppedEdits DEF ctx
  <2>2. ContextSound(d) /\ ViewsMatch(r)'
    BY <1>1, <2>1 DEF SoundAt, ContextSound, ViewsMatch
  <2>3. status' = status
    BY <1>6 DEF durable, ledgerVars
  <2>4. ContextMatches(r)'
    BY <1>1, <2>1, <2>3 DEF SoundAt, ContextMatches, Phase
  <2>5. StepSound(r)
    BY <1>3, <2>1, <2>3 DEF StepSound
  <2>6. QED
    BY <1>2, <1>4, <2>1, <2>2, <2>3, <2>4, <2>5, EditOfOne DEF SoundAt, ConsoleIdle
<1>7. CASE UNCHANGED durable /\ session' = TaskEnded(session, r, v)
  <2>1. /\ Edited(session, session', r) /\ session'.foreground = session.foreground
        /\ d.grant = NoGrant /\ d.work.phase = c.work.phase
        /\ \/ /\ c.task \in EndedTask /\ session'.goal = session.goal
              /\ d.task = c.task /\ d.bound = c.bound /\ d.exec = c.exec /\ d.work = c.work
           \/ /\ c.task \notin EndedTask /\ session'.goal # r
              /\ d.task = v /\ ~d.bound /\ d.exec = "runnable" /\ ~d.work.fresh
    BY <1>1, <1>7, TaskEndedEdits, NoneAssumption DEF ctx
  <2>2. ContextSound(d) /\ ViewsMatch(r)'
    BY <1>1, <2>1 DEF SoundAt, ContextSound, ViewsMatch, EndedTask
  <2>3. status' = status
    BY <1>7 DEF durable, ledgerVars
  <2>4. ContextMatches(r)'
    BY <1>1, <2>1, <2>3 DEF SoundAt, ContextMatches, Phase
  <2>5. StepSound(r)
    <3>1. d.exec = "runnable" /\ c.exec = "parked" => d.task \in EndedTask
      BY <2>1
    <3>2. d.task \in EndedTask => d.task # "running"
      BY DEF EndedTask
    <3>3. QED
      BY <1>3, <2>1, <2>3, <3>1, <3>2 DEF StepSound
  <2>6. QED
    BY <1>2, <1>4, <2>1, <2>2, <2>3, <2>4, <2>5, EditOfOne DEF SoundAt, ConsoleIdle
<1>8. CASE CanEnd(session, r, v) /\ TransitionRun(r, v) /\ session' = RunEnded(session, r, v)
  <2>1. /\ Edited(session, session', r) /\ session'.goal # r
           /\ (session'.foreground = r => session.foreground = r)
        /\ \/ d = NoContext
           \/ /\ d.exec = "terminal" /\ d.task \in EndedTask /\ ~d.bound /\ d.grant = NoGrant
              /\ ~d.work.fresh
              /\ d.work.phase = c.work.phase
    BY <1>1, <1>8, RunEndedEdits DEF ctx
  <2>2. /\ d.exec \in {"none", "terminal"} /\ ~d.bound /\ ~d.work.fresh
        /\ d.work.phase \in {"none", c.work.phase}
        /\ d.grant.steps = 0 /\ (d.exec = "none" => d.task = "none" /\ d.work.phase = "none")
        /\ (d.exec = "terminal" => d.task \in EndedTask)
    BY <2>1, NoContextFields DEF NoContext, NoWork
  <2>3. ContextSound(d) /\ ViewsMatch(r)'
    BY <2>1, <2>2 DEF ContextSound, ViewsMatch
  <2>4. status' = [status EXCEPT ![r] = v]
    BY <1>8 DEF TransitionRun
  <2>5. status'[r] = v /\ \A q \in RunIds \ {r} : status'[q] = status[q]
    BY <2>4 DEF LedgerTypeOK
  <2>6. v \notin {"absent", "pending", "running"}
    BY DEF EndedTask
  <2>7. ContextMatches(r)'
    BY <1>1, <2>2, <2>5, <2>6 DEF SoundAt, ContextMatches, Phase
  <2>8. StepSound(r)
    <3>1. c.task \in EndedTask => c.task = v
      BY <1>8 DEF CanEnd, ctx
    <3>2. QED
      BY <1>3, <2>2, <2>5, <3>1 DEF StepSound
  <2>9. QED
    BY <1>2, <1>4, <2>1, <2>3, <2>5, <2>7, <2>8, EditOfOne DEF SoundAt, ConsoleIdle
<1>9. QED
  BY <1>5, <1>6, <1>7, <1>8 DEF Ending

\* finish_job_run, and finish_job_run_by_id of a Run without work.
LEMMA FinishRunPreserves ==
  ASSUME IInv, LedgerTypeOK, NEW r \in RunIds, NEW v \in OperatorVerdicts, FinishRun(r, v)
  PROVE  Preserved
<1>1. v \in EndedTask /\ ctx[r].exec # "none" /\ console = ConsoleIdle
  BY VerdictsAssumption DEF FinishRun, Live, ctx
<1>2. console.doing # "finishing"
  BY <1>1 DEF ConsoleIdle
<1>3. QED
  BY <1>1, <1>2, EndingPreserves DEF FinishRun

\* finish_job_run_by_id after its wait: the verdict is the one it was given.
LEMMA FinisherPreserves ==
  ASSUME IInv, LedgerTypeOK, FinisherResumes
  PROVE  Preserved
<1>1. console.run \in RunIds /\ console.verdict \in EndedTask
  BY DEF FinisherResumes, IInv, VolatileTypeOK
<1>2. console' = ConsoleIdle /\ UNCHANGED <<phase, loop, episodes, consoleExact>>
  BY DEF FinisherResumes
<1>3. CASE console.run \in Live(session)
  <2>1. ctx[console.run].exec # "none" /\ Ending(console.run, console.verdict)
    BY <1>3 DEF FinisherResumes, Live, ctx
  <2>2. QED
    BY <1>1, <1>2, <2>1, EndingPreserves
<1>4. CASE console.run \notin Live(session)
  <2>1. UNCHANGED <<session, status>>
    BY <1>4 DEF FinisherResumes, durable, ledgerVars
  <2>2. VolatileTypeOK'
    BY <1>2, <2>1 DEF IInv, VolatileTypeOK, ConsoleIdle
  <2>3. QED
    BY <1>2, <2>1, <2>2, QuietSession DEF ConsoleIdle
<1>5. QED
  BY <1>3, <1>4

\* What the finisher tells the context before it waits.
LEMMA StopRequestedEdits ==
  ASSUME NEW s \in Sessions, NEW r \in RunIds
  PROVE  LET t == StopRequested(s, r) c == s.ctx[r] d == t.ctx[r] IN
           /\ Edited(s, t, r) /\ t.goal = s.goal /\ t.foreground = s.foreground
           /\ d.task = c.task /\ d.bound = c.bound /\ d.exec = "stopping" /\ d.grant = NoGrant
           /\ d.work.phase = c.work.phase /\ d.work.fresh = c.work.fresh
           /\ c.work.phase # "gone" => d.work.cancelled
<1> DEFINE g == GrantDropped(s, r)
           x == "stopping"
           u == [g EXCEPT !.ctx[r].exec = x]
           w == [u EXCEPT !.ctx[r].work.cancelled = TRUE]
<1>1. StopRequested(s, r) = IF s.ctx[r].work.phase = "gone" THEN u ELSE w
  BY DEF StopRequested
<1>2. x \in Execs /\ x = "stopping"
  BY DEF Execs
<1> HIDE DEF x
<1>3. /\ Edited(s, g, r) /\ g.goal = s.goal /\ g.foreground = s.foreground /\ g \in Sessions
      /\ g.ctx[r].task = s.ctx[r].task /\ g.ctx[r].bound = s.ctx[r].bound
      /\ g.ctx[r].work = s.ctx[r].work /\ g.ctx[r].grant = NoGrant
  BY GrantDroppedEdits DEF Edited
<1> HIDE DEF g
<1>4. /\ OneContext(g, u, r) /\ u.ctx[r].exec = x /\ u.ctx[r].task = g.ctx[r].task
      /\ u.ctx[r].bound = g.ctx[r].bound /\ u.ctx[r].work = g.ctx[r].work
      /\ u.ctx[r].grant = g.ctx[r].grant
  BY <1>2, <1>3, ExecAssigned
<1> HIDE DEF u
<1>5. /\ OneContext(u, w, r) /\ w.ctx[r].exec = u.ctx[r].exec /\ w.ctx[r].task = u.ctx[r].task
      /\ w.ctx[r].bound = u.ctx[r].bound /\ w.ctx[r].grant = u.ctx[r].grant
      /\ w.ctx[r].work.cancelled /\ w.ctx[r].work.phase = u.ctx[r].work.phase
      /\ w.ctx[r].work.fresh = u.ctx[r].work.fresh
  BY <1>4, CancelRecorded DEF OneContext
<1> HIDE DEF w
<1>6. QED
  BY <1>1, <1>2, <1>3, <1>4, <1>5 DEF Edited, OneContext

\* finish_job_run_by_id begins to wait.
LEMMA FinishWorkingPreserves ==
  ASSUME IInv, NEW r \in RunIds, NEW v \in OperatorVerdicts, FinishWorkingRun(r, v)
  PROVE  Preserved
<1> DEFINE c == ctx[r]
           d == ctx'[r]
<1>1. session \in Sessions /\ SoundAt(r) /\ c.exec # "none" /\ Phase(r) # "none"
      /\ c.exec # "parked"
  BY OccupiedIsLive DEF IInv, VolatileTypeOK, FinishWorkingRun
<1>2. /\ Edited(session, session', r) /\ session'.goal = session.goal
      /\ session'.foreground = session.foreground
      /\ d.task = c.task /\ d.bound = c.bound /\ d.exec = "stopping" /\ d.grant = NoGrant
      /\ d.work.phase = c.work.phase /\ d.work.fresh = c.work.fresh
      /\ (c.work.phase # "gone" => d.work.cancelled)
  BY <1>1, StopRequestedEdits DEF FinishWorkingRun, ctx
<1>3. /\ console' = [doing |-> "finishing", run |-> r, verdict |-> v] /\ console = ConsoleIdle
      /\ UNCHANGED <<status, phase, loop, episodes, consoleExact>> /\ phase = "running"
  BY DEF FinishWorkingRun, durable, ledgerVars, Running
<1>4. VolatileTypeOK'
  BY <1>2, <1>3, VerdictsAssumption DEF IInv, VolatileTypeOK, Edited
<1>5. ContextSound(d) /\ ViewsMatch(r)'
  BY <1>1, <1>2 DEF SoundAt, ContextSound, ViewsMatch
<1>6. ContextMatches(r)'
  BY <1>1, <1>2, <1>3 DEF SoundAt, ContextMatches, Phase
<1>7. HeldForFinish(r)'
  BY <1>2, NoContextFields DEF HeldForFinish, Phase
<1>8. StepSound(r)
  <2>1. c.grant.steps \in Nat /\ NoGrant.steps = 0
    BY <1>1, ContextsTyped, NoContextFields DEF ctx
  <2>2. console.doing # "finishing"
    BY <1>3 DEF ConsoleIdle
  <2>3. QED
    BY <1>1, <1>2, <1>3, <2>1, <2>2 DEF StepSound
<1>9. QED
  BY <1>2, <1>3, <1>4, <1>5, <1>6, <1>7, <1>8, EditOfOne DEF SoundAt

\* A start in progress is of a row that nobody has moved since create_run.
StartsPending == loop.routine = "starting" => status[loop.run] = "pending"

\* An attention claim that is granted stays within jobs_max_concurrent_work.
LEMMA ClaimTypes ==
  ASSUME IInv, NEW r \in RunIds, EpisodeAvailable
  PROVE  IsFiniteSet(episodes \cup {r}) /\ Cardinality(episodes \cup {r}) <= MaxWork
<1>1. IsFiniteSet(episodes) /\ Cardinality(episodes) < MaxWork
  BY DEF IInv, VolatileTypeOK, EpisodeAvailable
<1>2. Cardinality(episodes) \in Nat
  BY <1>1, FS_CardinalityType
<1>3. QED
  BY <1>1, <1>2, FS_AddElement, MaxWorkAssumption

\* Work just prepared is fresh.
LEMMA NewWorkFields ==
  ASSUME NEW p \in Phases, NEW k \in {"auto", "initial", "manual"}
  PROVE  /\ NewWork(p, k) \in Works
         /\ NewWork(p, k).phase = p /\ NewWork(p, k).fresh /\ ~NewWork(p, k).cancelled
BY DEF NewWork, NoWork, Works, Phases, NoProposal

\* The parked view names an occurrence that has its Task, or none.
LEMMA ParkedRunTyped ==
  ASSUME NEW s \in Sessions, NEW e \in RunIds \cup {None}
  PROVE  /\ ParkedContext(s, e) \in RunIds \cup {None}
         /\ ParkedRun(s, e) \in RunIds \cup {None}
         /\ ParkedRun(s, e) # None => s.ctx[ParkedRun(s, e)].bound
            /\ ParkedRun(s, e) = ParkedContext(s, e)
         /\ e \in RunIds /\ s.ctx[e].exec = "parked" /\ s.ctx[e].bound => ParkedRun(s, e) = e
<1>1. ParkedRuns(s) \subseteq RunIds
  BY DEF ParkedRuns
<1>2. TheOnly(ParkedRuns(s)) \in RunIds \cup {None}
  BY <1>1, TheOnlyIsOne
<1>3. s.parked \in RunIds \cup {None}
  BY DEF Sessions
<1>4. ParkedContext(s, e) \in RunIds \cup {None}
  BY <1>1, <1>2, <1>3 DEF ParkedContext
<1>5. /\ ParkedRun(s, e) \in RunIds \cup {None}
      /\ ParkedRun(s, e) # None => s.ctx[ParkedRun(s, e)].bound
         /\ ParkedRun(s, e) = ParkedContext(s, e)
  <2> DEFINE p == ParkedContext(s, e)
  <2>1. ParkedRun(s, e) = IF p # None /\ s.ctx[p].bound THEN p ELSE None
    BY DEF ParkedRun
  <2>2. p \in RunIds \cup {None}
    BY <1>4
  <2> HIDE DEF p
  <2>3. CASE p # None /\ s.ctx[p].bound
    BY <2>1, <2>2, <2>3 DEF p
  <2>4. CASE ~(p # None /\ s.ctx[p].bound)
    BY <2>1, <2>4
  <2>5. QED
    BY <2>3, <2>4
<1>6. ASSUME e \in RunIds, s.ctx[e].exec = "parked" PROVE ParkedContext(s, e) = e /\ e # None
  BY <1>6, NoneAssumption DEF ParkedContext, ParkedRuns
<1>7. e \in RunIds /\ s.ctx[e].exec = "parked" /\ s.ctx[e].bound => ParkedRun(s, e) = e
  BY <1>6 DEF ParkedRun
<1>8. QED
  BY <1>4, <1>5, <1>7

\* The compatibility view names an occurrence, or none.
LEMMA CompatContextTyped ==
  ASSUME NEW s \in Sessions, NEW e \in RunIds \cup {None}
  PROVE  CompatContext(s, e) \in RunIds \cup {None}
<1>1. ParkedContext(s, None) \in RunIds \cup {None}
  BY ParkedRunTyped
<1>2. TheOnly(Live(s)) \in RunIds \cup {None}
  BY TheOnlyIsOne DEF Live
<1>3. s.foreground \in RunIds \cup {None}
  BY DEF Sessions
<1>4. QED
  BY <1>1, <1>2, <1>3 DEF CompatContext

\* A step that disturbs no context may touch many of them.
LEMMA AllUndisturbed ==
  ASSUME IInv, VolatileTypeOK', session' \in Sessions,
         \A q \in RunIds : Undisturbed(ctx[q], ctx'[q]) /\ ctx'[q].grant.state = ctx[q].grant.state,
         session'.goal \in RunIds => session'.goal = session.goal,
         session'.foreground \in RunIds => session'.foreground = session.foreground,
         \A q \in RunIds : status'[q] = status[q] \/ (status[q] \in {"absent", "pending"}
         /\ status'[q] # "running"),
         UNCHANGED <<episodes, console>>, phase' \in {phase, "stopping", "joining"}
  PROVE  Preserved
<1>1. ASSUME NEW q \in RunIds PROVE SoundAt(q)' /\ StepSound(q)
  BY UntouchedStaysSound
<1>2. QED
  BY <1>1 DEF Preserved, IInv

\* set_goal and clear_goal of a standalone goal.
LEMMA GoalPreserves ==
  ASSUME IInv, SetGoal \/ ClearGoal
  PROVE  Preserved
<1> DEFINE o == IF SetGoal THEN Standalone ELSE None
<1>1. session \in Sessions /\ o \in {Standalone, None}
  BY DEF IInv, VolatileTypeOK
<1>2. session' = [session EXCEPT !.goal = o]
  BY DEF SetGoal, ClearGoal
<1> HIDE DEF o
<1>3. session' \in Sessions /\ session'.ctx = session.ctx /\ session'.goal = o
      /\ session'.foreground = session.foreground
  BY <1>1, <1>2 DEF Sessions
<1>4. UNCHANGED <<status, phase, loop, episodes, console, consoleExact>>
  BY DEF SetGoal, ClearGoal, durable, ledgerVars
<1>5. VolatileTypeOK'
  BY <1>3, <1>4 DEF IInv, VolatileTypeOK
<1>6. \A q \in RunIds : Undisturbed(ctx[q], ctx'[q]) /\ ctx'[q].grant.state = ctx[q].grant.state
  BY <1>3 DEF Undisturbed, ctx
<1>7. session'.goal \notin RunIds
  BY <1>1, <1>3, NoneAssumption
<1>8. QED
  BY <1>3, <1>4, <1>5, <1>6, <1>7, AllUndisturbed

\* A start that the store or the Task setter refuses.
LEMMA StartFailsPreserves ==
  ASSUME IInv, LedgerTypeOK, StartsARow, StartsPending, StartFails
  PROVE  Preserved
<1>1. loop.run \in RunIds /\ loop' = Idle
  BY DEF StartFails, StartsARow
<1>2. UNCHANGED <<phase, episodes, console, consoleExact>>
      /\ loop'.routine \notin {"starting", "interrupting"}
  BY <1>1 DEF StartFails, Idle
<1>3. session \in Sessions
  BY DEF IInv, VolatileTypeOK
<1> DEFINE o == IF StartRejected THEN Standalone ELSE session.goal
<1>4. /\ session' \in Sessions /\ session'.ctx = session.ctx
      /\ session'.foreground = session.foreground
      /\ session'.goal \in {Standalone, session.goal}
  BY <1>3 DEF StartFails, Sessions
<1>5. VolatileTypeOK'
  BY <1>2, <1>4 DEF IInv, VolatileTypeOK
<1>6. \A q \in RunIds : Undisturbed(ctx[q], ctx'[q]) /\ ctx'[q] = ctx[q]
  BY <1>4 DEF Undisturbed, ctx
<1>7. session'.goal \in RunIds => session'.goal = session.goal
  BY <1>4, NoneAssumption
<1>8. status[loop.run] = "pending"
  BY DEF StartFails, StartsPending
<1>9. \A q \in RunIds : status'[q] = status[q] \/ (status[q] \in {"absent", "pending"}
      /\ status'[q] # "running")
  <2>1. status' = status \/ status' = [status EXCEPT ![loop.run] = "stopped"]
    BY DEF StartFails, TransitionRun, durable, ledgerVars
  <2>2. QED
    BY <1>1, <1>8, <2>1 DEF LedgerTypeOK
<1>10. QED
  BY <1>2, <1>4, <1>5, <1>6, <1>7, <1>9, AllUndisturbed

\* The new context takes the foreground; the empty JobProgress may land in another context.
LEMMA StartedEdits ==
  ASSUME NEW s \in Sessions, NEW r \in RunIds, NEW e \in RunIds \cup {None}
  PROVE  LET t == Started(s, r, e) d == t.ctx[r] IN
           /\ t \in Sessions
           /\ \A q \in RunIds \ {r} :
                /\ t.ctx[q].task = s.ctx[q].task /\ t.ctx[q].bound = s.ctx[q].bound
                /\ t.ctx[q].exec = s.ctx[q].exec
                /\ t.ctx[q].grant = s.ctx[q].grant /\ t.ctx[q].work = s.ctx[q].work
           /\ t.goal \in {s.goal, r} /\ t.foreground = r
           /\ d.task = "running" /\ d.bound /\ d.exec = "runnable"
           /\ d.grant = NoGrant /\ d.work = NoWork
<1> DEFINE new == [NoContext EXCEPT !.task = "running", !.bound = TRUE, !.exec = "runnable"]
           goal == IF Live(s) = {} THEN r ELSE s.goal
           t == [s EXCEPT !.ctx[r] = new, !.foreground = r, !.goal = goal]
           owner == CompatContext(t, e)
<1>1. /\ new \in Contexts /\ new.task = "running" /\ new.bound /\ new.exec = "runnable"
      /\ new.grant = NoGrant /\ new.work = NoWork
  BY NullContexts DEF NoContext, Contexts, Tasks, Execs
<1>2. Started(s, r, e) = IF owner \in Live(t) THEN [t EXCEPT !.ctx[owner].progress = r] ELSE t
  BY DEF Started
<1>3. goal \in {s.goal, r}
  OBVIOUS
<1> HIDE DEF new, goal, owner
<1>4. /\ t \in Sessions /\ t.goal = goal /\ t.foreground = r /\ t.ctx[r] = new
      /\ \A q \in RunIds \ {r} : t.ctx[q] = s.ctx[q]
  BY <1>1, <1>3 DEF Sessions
<1> HIDE DEF t
<1>5. CASE owner \notin Live(t)
  BY <1>1, <1>2, <1>3, <1>4, <1>5
<1>6. CASE owner \in Live(t)
  <2>1. owner \in RunIds
    BY <1>6 DEF Live
  <2> DEFINE u == [t EXCEPT !.ctx[owner].progress = r]
  <2>2. /\ OneContext(t, u, owner) /\ u.ctx[owner].task = t.ctx[owner].task
        /\ u.ctx[owner].bound = t.ctx[owner].bound /\ u.ctx[owner].exec = t.ctx[owner].exec
        /\ u.ctx[owner].grant = t.ctx[owner].grant /\ u.ctx[owner].work = t.ctx[owner].work
    BY <1>4, <2>1, ProgressAssigned
  <2>3. u = Started(s, r, e)
    BY <1>2, <1>6
  <2> HIDE DEF u
  <2>4. ASSUME NEW q \in RunIds
        PROVE  /\ u.ctx[q].task = t.ctx[q].task /\ u.ctx[q].bound = t.ctx[q].bound
               /\ u.ctx[q].exec = t.ctx[q].exec
               /\ u.ctx[q].grant = t.ctx[q].grant /\ u.ctx[q].work = t.ctx[q].work
    BY <2>2 DEF OneContext
  <2>5. u \in Sessions /\ u.goal = t.goal /\ u.foreground = t.foreground
    BY <2>2 DEF OneContext
  <2>6. QED
    BY <1>1, <1>3, <1>4, <2>3, <2>4, <2>5
<1>7. QED
  BY <1>5, <1>6

\* _start_job_occurrence, with the attention claim of an activation.
LEMMA StartPreserves ==
  ASSUME IInv, LedgerTypeOK, StartsARow, StartsPending, StartOccurrence, NEW r \in RunIds,
     r = loop.run
  PROVE  Preserved
<1> DEFINE e == IF loop.by = "console" THEN consoleExact ELSE None
           s == Started(session, r, e)
           claims == loop.by = "activation" /\ EpisodeAvailable
           c == ctx[r]
           d == ctx'[r]
<1>1. /\ r \in RunIds /\ status[r] = "pending" /\ loop' = Idle /\ phase = "running"
      /\ TransitionRun(r, "running")
      /\ session' = (IF claims THEN [s EXCEPT !.ctx[r].work = NewWork("created", "initial")] ELSE s)
      /\ episodes' = (IF claims THEN episodes \cup {r} ELSE episodes)
      /\ UNCHANGED <<phase, console, consoleExact>>
  BY DEF StartOccurrence, StartsARow, StartsPending, IInv, VolatileTypeOK
<1>2. session \in Sessions /\ e \in RunIds \cup {None} /\ SoundAt(r)
  BY <1>1 DEF IInv, VolatileTypeOK
<1> HIDE DEF e
<1>3. /\ s \in Sessions
      /\ \A q \in RunIds \ {r} :
           /\ s.ctx[q].task = ctx[q].task /\ s.ctx[q].bound = ctx[q].bound
           /\ s.ctx[q].exec = ctx[q].exec
           /\ s.ctx[q].grant = ctx[q].grant /\ s.ctx[q].work = ctx[q].work
      /\ s.goal \in {session.goal, r} /\ s.foreground = r
      /\ s.ctx[r].task = "running" /\ s.ctx[r].bound /\ s.ctx[r].exec = "runnable"
      /\ s.ctx[r].grant = NoGrant /\ s.ctx[r].work = NoWork
  BY <1>1, <1>2, StartedEdits DEF ctx
<1> HIDE DEF s
<1>4. /\ session' \in Sessions
      /\ \A q \in RunIds \ {r} :
           /\ ctx'[q].task = ctx[q].task /\ ctx'[q].bound = ctx[q].bound
           /\ ctx'[q].exec = ctx[q].exec
           /\ ctx'[q].grant = ctx[q].grant /\ ctx'[q].work = ctx[q].work
      /\ session'.goal \in {session.goal, r} /\ session'.foreground = r
      /\ d.task = "running" /\ d.bound /\ d.exec = "runnable" /\ d.grant = NoGrant
      /\ d.work.phase \in {"none", "created"} /\ (d.work.phase = "created" => claims)
  <2>1. CASE claims
    <3> DEFINE w == NewWork("created", "initial")
    <3>1. w \in Works /\ w.phase = "created"
      BY NewWorkFields DEF Phases
    <3>2. session' = [s EXCEPT !.ctx[r].work = w]
      BY <1>1, <2>1
    <3> HIDE DEF w
    <3>3. /\ OneContext(s, session', r) /\ session'.ctx[r].work = w
          /\ session'.ctx[r].task = s.ctx[r].task /\ session'.ctx[r].bound = s.ctx[r].bound
          /\ session'.ctx[r].exec = s.ctx[r].exec /\ session'.ctx[r].grant = s.ctx[r].grant
      <4>1. s \in Sessions /\ w \in Works
        BY <1>3, <3>1
      <4> DEFINE u == [s EXCEPT !.ctx[r].work = w]
      <4>2. /\ OneContext(s, u, r) /\ u.ctx[r].work = w
            /\ u.ctx[r].task = s.ctx[r].task /\ u.ctx[r].bound = s.ctx[r].bound
            /\ u.ctx[r].exec = s.ctx[r].exec /\ u.ctx[r].grant = s.ctx[r].grant
        BY <4>1, WorkAssigned
      <4>3. QED
        BY <4>2, <3>2
    <3>4. QED
      BY <1>3, <2>1, <3>1, <3>3 DEF OneContext, ctx
  <2>2. CASE ~claims
    <3>1. session' = s /\ NoWork.phase = "none"
      BY <1>1, <2>2 DEF NoWork
    <3>2. QED
      BY <1>3, <3>1 DEF ctx
  <2>3. QED
    BY <2>1, <2>2
<1>5. VolatileTypeOK'
  <2>1. IsFiniteSet(episodes') /\ Cardinality(episodes') <= MaxWork
    BY <1>1, ClaimTypes DEF IInv, VolatileTypeOK
  <2>2. loop'.routine \notin {"starting", "interrupting"}
    BY <1>1 DEF Idle
  <2>3. QED
    BY <1>1, <1>4, <2>1, <2>2 DEF IInv, VolatileTypeOK
<1>6. status' = [status EXCEPT ![r] = "running"]
  BY <1>1 DEF TransitionRun
<1>7. c.exec = "none" /\ c.task = "none" /\ c.grant.steps \in Nat
  BY <1>1, <1>2, ContextsTyped DEF SoundAt, ContextMatches, ContextSound, ctx
<1>8. SoundAt(r)'
  <2>1. ContextSound(d) /\ ViewsMatch(r)'
    BY <1>4 DEF ContextSound, ViewsMatch, EndedTask
  <2>2. status'[r] = "running"
    BY <1>1, <1>6 DEF LedgerTypeOK
  <2>3. ContextMatches(r)'
    BY <1>1, <1>4, <2>2 DEF ContextMatches, Phase
  <2>4. HeldForFinish(r)'
    BY <1>1, <1>2, <1>7 DEF HeldForFinish, SoundAt
  <2>5. QED
    BY <2>1, <2>3, <2>4 DEF SoundAt
<1>9. StepSound(r)
  BY <1>1, <1>4, <1>7, NoContextFields DEF StepSound
<1>10. ASSUME NEW q \in RunIds, q # r PROVE SoundAt(q)' /\ StepSound(q)
  <2>1. Undisturbed(ctx[q], ctx'[q]) /\ ctx'[q].grant.state = ctx[q].grant.state
    BY <1>4, <1>10 DEF Undisturbed
  <2>2. session'.goal = q => session.goal = q
    BY <1>4, <1>10
  <2>3. session'.foreground # q /\ status'[q] = status[q]
    BY <1>1, <1>4, <1>6, <1>10 DEF LedgerTypeOK
  <2>4. QED
    BY <1>1, <1>4, <2>1, <2>2, <2>3, UntouchedStaysSound
<1>11. QED
  BY <1>5, <1>8, <1>9, <1>10 DEF Preserved, IInv

-----------------------------------------------------------------------------
(***************************************************************************)
(* Explicit work, offers, pause and resume.                                *)
(***************************************************************************)

\* Explicit work begins on r, of a session t in which r can work.
LEMMA ManualPreserves ==
  ASSUME IInv, NEW r \in RunIds, NEW t \in Sessions, phase = "running", console = ConsoleIdle,
         Edited(session, t, r), t.goal = session.goal, CanWork(t, r),
         ctx[r].exec # "none",
         t.ctx[r].grant.steps <= ctx[r].grant.steps,
         ctx[r].exec = "parked" => enabled[job[r]] /\ status[r] = "running",
         t.ctx[r].exec \in {ctx[r].exec, "runnable"}, t.ctx[r].exec # "parked",
         t.ctx[r].bound = ctx[r].bound,
         t.ctx[r].work.phase = ctx[r].work.phase,
         \/ /\ session' = WithManualWork(t, r) /\ EpisodeAvailable /\ episodes' = episodes \cup {r}
            /\ console' = [ConsoleIdle EXCEPT !.doing = "working", !.run = r]
         \/ session' = t /\ UNCHANGED <<episodes, console>>,
         UNCHANGED <<status, phase, loop>>, consoleExact' \in RunIds \cup {None}
  PROVE  Preserved
<1> DEFINE c == ctx[r]
           d == ctx'[r]
<1>1. SoundAt(r) /\ session \in Sessions
  BY DEF IInv, VolatileTypeOK
<1>2. t.ctx[r].bound /\ t.ctx[r].task = "running" /\ t.ctx[r].exec # "none"
  BY DEF CanWork, Live
<1>3. c.exec # "terminal" /\ t.ctx[r].exec \notin {"none", "terminal", "parked"}
  BY <1>1, <1>2 DEF SoundAt, ContextSound, EndedTask
<1>4. /\ Edited(session, session', r) /\ session'.goal = session.goal
      /\ d.task = "running" /\ d.bound /\ d.exec = t.ctx[r].exec /\ d.grant = t.ctx[r].grant
      /\ \/ d.work.phase = "running" /\ r \in episodes'
         \/ d.work.phase = c.work.phase /\ episodes' = episodes
      /\ console'.doing # "finishing" /\ episodes \subseteq episodes'
      /\ IsFiniteSet(episodes') /\ Cardinality(episodes') <= MaxWork
  <2>1. CASE session' = t /\ UNCHANGED <<episodes, console>>
    BY <2>1, <1>1, <1>2 DEF ctx, IInv, VolatileTypeOK, ConsoleIdle
  <2>2. CASE /\ session' = WithManualWork(t, r) /\ EpisodeAvailable /\ episodes' = episodes \cup {r}
             /\ console' = [ConsoleIdle EXCEPT !.doing = "working", !.run = r]
    <3> DEFINE w == NewWork("running", "manual")
    <3>1. w \in Works /\ w.phase = "running"
      BY NewWorkFields DEF Phases
    <3>2. session' = [t EXCEPT !.ctx[r].work = w]
      BY <2>2 DEF WithManualWork
    <3> HIDE DEF w
    <3>3. /\ OneContext(t, session', r) /\ session'.ctx[r].work = w
          /\ session'.ctx[r].task = t.ctx[r].task /\ session'.ctx[r].bound = t.ctx[r].bound
          /\ session'.ctx[r].exec = t.ctx[r].exec /\ session'.ctx[r].grant = t.ctx[r].grant
      BY <3>1, <3>2, WorkAssigned
    <3>4. Edited(session, session', r)
      BY <3>3 DEF Edited, OneContext
    <3>5. IsFiniteSet(episodes') /\ Cardinality(episodes') <= MaxWork
      BY <2>2, ClaimTypes
    <3>6. console'.doing # "finishing"
      BY <2>2 DEF ConsoleIdle
    <3>7. QED
      BY <1>2, <2>2, <3>1, <3>3, <3>4, <3>5, <3>6 DEF OneContext, ctx
  <2>3. QED
    BY <2>1, <2>2
<1>5. VolatileTypeOK'
  BY <1>4 DEF IInv, VolatileTypeOK, Edited
<1>6. ContextSound(d) /\ ViewsMatch(r)'
  BY <1>3, <1>4 DEF ContextSound, ViewsMatch, EndedTask
<1>7. ContextMatches(r)'
  <2>1. status[r] \notin {"absent", "pending"} /\ phase' = "running" /\ status' = status
    BY <1>1 DEF SoundAt, ContextMatches
  <2>2. d.exec \notin {"none", "terminal"} /\ (d.bound => status[r] = "running")
    BY <1>1, <1>2, <1>3, <1>4 DEF SoundAt, ContextMatches
  <2>3. d.work.phase \in {"created", "running"} => r \in episodes'
    BY <1>1, <1>4 DEF SoundAt, ContextMatches, Phase
  <2>4. QED
    BY <2>1, <2>2, <2>3 DEF ContextMatches, Phase
<1>8. HeldForFinish(r)'
  BY <1>4 DEF HeldForFinish
<1>9. StepSound(r)
  <2>1. c.grant.steps \in Nat /\ d.grant.steps \in Nat
    BY <1>1, <1>4, ContextsTyped DEF ctx, Edited
  <2>2. console.doing # "finishing"
    BY DEF ConsoleIdle
  <2>3. QED
    BY <1>4, <2>1, <2>2 DEF StepSound
<1>10. QED
  BY <1>4, <1>5, <1>6, <1>7, <1>8, <1>9, EditOfOne DEF SoundAt

\* work_job_run_once
LEMMA WorkRunPreserves ==
  ASSUME IInv, NEW r \in RunIds, WorkRun(r)
  PROVE  Preserved
<1>1. session \in Sessions /\ SoundAt(r) /\ consoleExact \in RunIds \cup {None}
  BY DEF IInv, VolatileTypeOK
<1>2. Edited(session, session, r) /\ session.ctx[r] = ctx[r]
  BY <1>1 DEF Edited, ctx
<1>3. ctx[r].task = "running" /\ ctx[r].exec # "none"
  BY DEF WorkRun, CanWork, Live, ctx
<1>4. ctx[r].exec # "parked"
  BY <1>1, <1>3 DEF SoundAt, ContextSound
<1>5. ctx[r].grant.steps \in Nat
  BY <1>1, ContextsTyped DEF ctx
<1>6. /\ phase = "running" /\ console = ConsoleIdle /\ CanWork(session, r)
      /\ session' = WithManualWork(session, r) /\ EpisodeAvailable /\ episodes' = episodes \cup {r}
      /\ console' = [ConsoleIdle EXCEPT !.doing = "working", !.run = r]
      /\ UNCHANGED <<status, phase, loop, consoleExact>>
  BY DEF WorkRun, Running, durable, ledgerVars
<1>7. PICK t \in Sessions : t = session
  BY <1>1
<1>8. /\ Edited(session, t, r) /\ t.goal = session.goal /\ CanWork(t, r)
      /\ t.ctx[r].grant.steps <= ctx[r].grant.steps
      /\ t.ctx[r].exec \in {ctx[r].exec, "runnable"} /\ t.ctx[r].exec # "parked"
      /\ t.ctx[r].bound = ctx[r].bound /\ t.ctx[r].work.phase = ctx[r].work.phase
      /\ session' = WithManualWork(t, r)
  BY <1>2, <1>4, <1>5, <1>6, <1>7
<1>9. QED
  BY <1>1, <1>3, <1>4, <1>6, <1>8, ManualPreserves

\* A grant given up because its authority is gone.
LEMMA GrantDroppedPreserves ==
  ASSUME IInv, NEW r \in RunIds, session' = GrantDropped(session, r),
         UNCHANGED <<status, phase, loop, episodes, console, consoleExact>>
  PROVE  Preserved
<1>1. session \in Sessions /\ SoundAt(r)
  BY DEF IInv, VolatileTypeOK
<1>2. /\ Edited(session, session', r) /\ session'.goal = session.goal
      /\ session'.foreground = session.foreground
      /\ ctx'[r].task = ctx[r].task /\ ctx'[r].bound = ctx[r].bound /\ ctx'[r].exec = ctx[r].exec
      /\ ctx'[r].work = ctx[r].work /\ ctx'[r].grant = NoGrant
  BY <1>1, GrantDroppedEdits DEF ctx
<1>3. NoGrant.state = "none" /\ NoGrant.steps <= ctx[r].grant.steps
  BY <1>1, ContextsTyped, NoContextFields DEF ctx
<1>4. ContextSound(ctx'[r]) /\ ViewsMatch(r)'
  BY <1>1, <1>2 DEF SoundAt, ContextSound, ViewsMatch
<1>5. HeldForFinish(r)'
  BY <1>1, <1>2, <1>3 DEF SoundAt, HeldForFinish, Phase
<1>6. QED
  BY <1>2, <1>3, <1>4, <1>5, SessionEdit DEF Phase

\* work_current_job_once, of the foreground or of a parked occurrence it restores.
LEMMA WorkCurrentPreserves ==
  ASSUME IInv, WorkCurrent
  PROVE  Preserved
<1> DEFINE e == consoleExact
           p == ParkedRun(session, e)
           restores == ExecutionContext(session, e) = None /\ p # None
           s == IF restores THEN Restored(session, p, None) ELSE session
           x == ExecutionContext(s, e)
           run == IF x # None THEN x ELSE CompatContext(s, e)
           t == IF CompatContext(s, e) = run THEN GrantDropped(s, run) ELSE s
<1>1. session \in Sessions /\ e \in RunIds \cup {None}
  BY DEF IInv, VolatileTypeOK
<1>2. /\ p \in RunIds \cup {None}
      /\ p # None => ctx[p].bound
  BY <1>1, ParkedRunTyped DEF ctx
<1>3. /\ phase = "running" /\ console = ConsoleIdle /\ UNCHANGED <<status, phase, loop>>
      /\ console.doing # "finishing"
  BY DEF WorkCurrent, Running, durable, ledgerVars, ConsoleIdle
<1>4. CASE /\ restores /\ ~Authorized(p)
           /\ session' = GrantDropped(session, p)
           /\ UNCHANGED <<episodes, console, consoleExact>>
  <2>1. p \in RunIds
    BY <1>2, <1>4
  <2>2. QED
    BY <1>3, <1>4, <2>1, GrantDroppedPreserves
<1>5. CASE /\ restores => Authorized(p)
           /\ CanWork(s, run)
           /\ IF EpisodeAvailable /\ ctx[run].work.phase = "none"
              THEN /\ session' = WithManualWork(t, run)
                   /\ episodes' = episodes \cup {run}
                   /\ console' = [ConsoleIdle EXCEPT !.doing = "working", !.run = run]
                   /\ UNCHANGED consoleExact
              ELSE /\ session' = t
                   /\ consoleExact' = IF EpisodeAvailable THEN e ELSE run
                   /\ UNCHANGED <<episodes, console>>
  <2>1. PICK r \in RunIds : r = run
    BY <1>5 DEF CanWork, Live
  <2>2. SoundAt(r)
    BY DEF IInv
  <2>3. restores => r = p
    <3>1. restores => e = None /\ p \in RunIds
      BY <1>2 DEF ExecutionContext
    <3>2. restores => s.foreground = p
      BY <1>1, <3>1, RestoredEdits
    <3> HIDE DEF s, p, restores
    <3>3. QED
      BY <2>1, <3>1, <3>2, NoneAssumption DEF ExecutionContext
  <2>4. /\ Edited(session, s, r) /\ s.goal = session.goal
        /\ s.ctx[r].grant = ctx[r].grant /\ s.ctx[r].bound = ctx[r].bound
        /\ s.ctx[r].work.phase = ctx[r].work.phase
        /\ \/ ~restores /\ s = session
           \/ restores /\ s.ctx[r].exec = "runnable" /\ s.ctx[r].task = "running"
    <3>1. CASE restores
      <4>1. s = Restored(session, r, None)
        BY <2>3, <3>1
      <4> HIDE DEF s, restores
      <4>2. QED
        BY <3>1, <4>1, <1>1, RestoredEdits DEF ctx
    <3>2. CASE ~restores
      <4>1. s = session
        BY <3>2
      <4> HIDE DEF s, restores
      <4>2. QED
        BY <3>2, <4>1, <1>1 DEF ctx, Edited
    <3>3. QED
      BY <3>1, <3>2
  <2>5. CanWork(s, r) /\ (restores => Authorized(r))
    BY <1>5, <2>1, <2>3
  <2>6. t \in {s, GrantDropped(s, r)}
    BY <2>1
  <2>7. \/ /\ session' = WithManualWork(t, r) /\ EpisodeAvailable /\ episodes' = episodes \cup {r}
           /\ console' = [ConsoleIdle EXCEPT !.doing = "working", !.run = r]
        \/ session' = t /\ UNCHANGED <<episodes, console>>
    BY <1>5, <2>1
  <2>8. consoleExact' \in RunIds \cup {None}
    BY <1>1, <1>5, <2>1
  <2>9. PICK u : u = t
    OBVIOUS
  <2> HIDE DEF t, s, run, restores, p, e
  <2>10. s \in Sessions /\ ctx[r].grant.steps \in Nat /\ NoGrant.steps = 0
    BY <1>1, <2>4, ContextsTyped, NoContextFields DEF Edited, ctx
  <2>11. /\ Edited(s, t, r) /\ t.goal = s.goal
         /\ t.ctx[r].task = s.ctx[r].task /\ t.ctx[r].bound = s.ctx[r].bound
         /\ t.ctx[r].exec = s.ctx[r].exec /\ t.ctx[r].work = s.ctx[r].work
         /\ t.ctx[r].grant \in {s.ctx[r].grant, NoGrant}
    <3>1. Edited(s, s, r)
      BY <2>10 DEF Edited
    <3>2. CASE t = s
      BY <3>1, <3>2
    <3>3. CASE t = GrantDropped(s, r)
      BY <3>3, <2>10, GrantDroppedEdits
    <3>4. QED
      BY <2>6, <3>2, <3>3
  <2>12. /\ Edited(session, t, r) /\ t \in Sessions /\ t.goal = session.goal
         /\ t.ctx[r].grant.steps <= ctx[r].grant.steps
    BY <2>4, <2>10, <2>11 DEF Edited
  <2>13. CanWork(t, r)
    BY <2>5, <2>11 DEF CanWork, Live
  <2>14. ctx[r].exec # "none"
    BY <2>2, <2>4, <2>5 DEF SoundAt, ContextSound, CanWork
  <2>15. /\ ctx[r].exec = "parked" => enabled[job[r]] /\ status[r] = "running"
         /\ t.ctx[r].exec # "parked"
    <3>1. ~restores => s.ctx[r].task = ctx[r].task /\ s.ctx[r].task = "running"
      BY <2>4, <2>5 DEF CanWork, ctx
    <3>2. ~restores => ctx[r].exec # "parked"
      BY <3>1, <2>2 DEF SoundAt, ContextSound
    <3>3. QED
      BY <2>4, <2>5, <2>11, <3>2 DEF Authorized, ctx
  <2>16. t.ctx[r].exec \in {ctx[r].exec, "runnable"}
    BY <2>4, <2>11 DEF ctx
  <2>17. t.ctx[r].bound = ctx[r].bound /\ t.ctx[r].work.phase = ctx[r].work.phase
    BY <2>4, <2>11
  <2>18. QED
    BY <1>3, <2>7, <2>8, <2>12, <2>13, <2>14, <2>15, <2>16, <2>17, ManualPreserves
<1>6. QED
  BY <1>4, <1>5 DEF WorkCurrent

\* A nonempty set of occurrences has a least one, which Min picks.
LEMMA MinIsElement ==
  ASSUME NEW S, S \subseteq RunIds, S # {}
  PROVE  Min(S) \in S
<1>1. S \subseteq Nat
  BY RunIdsAssumption
<1>2. IsWellFoundedOn(OpToRel(<, Nat), Nat)
  BY NatLessThanWellFounded
<1>3. PICK x \in S : \A y \in S : ~(<<y, x>> \in OpToRel(<, Nat))
  BY <1>1, <1>2, WFMin
<1>4. ASSUME NEW y \in S PROVE x <= y
  <2>1. x \in Nat /\ y \in Nat /\ ~(y < x)
    BY <1>1, <1>3 DEF OpToRel
  <2>2. QED
    BY <2>1
<1>5. QED
  BY <1>4 DEF Min

\* What _offer_exact_job_continuation has tested when it accepts or restores.
LEMMA VerdictFacts ==
  ASSUME IInv, NEW r \in RunIds
  PROVE  LET v == Verdict(r) c == ctx[r] IN
           /\ v \in {"accepted", "restored", "cleared", "exhausted", "deferred"}
           /\ v \in {"accepted", "restored"} => c.bound /\ (c.exec = "parked" => Authorized(r))
           /\ v = "accepted" => EpisodeAvailable /\ ~Exhausted(r)
<1>1. session \in Sessions /\ SoundAt(r)
  BY DEF IInv, VolatileTypeOK
<1>2. ctx[r].exec = "parked" => ParkedRun(session, r) = r
  BY <1>1, ParkedRunTyped DEF SoundAt, ContextSound, ctx
<1>3. QED
  BY <1>2, NoneAssumption DEF Verdict

\* A parked occurrence is restored for its offer, any other is offered as it is.
LEMMA RunnableEdits ==
  ASSUME IInv, NEW r \in RunIds
  PROVE  LET t == Runnable(r) c == ctx[r] d == t.ctx[r] IN
           /\ Edited(session, t, r) /\ t.goal = session.goal /\ t.foreground = session.foreground
           /\ d.bound = c.bound /\ d.grant = c.grant
           /\ d.work.phase = c.work.phase /\ d.work.cancelled = c.work.cancelled
           /\ \/ d.task = "running" /\ d.exec = "runnable" /\ ~d.work.fresh
              \/ c.exec # "parked" /\ d.task = c.task /\ d.exec = c.exec /\ d.work = c.work
<1>1. session \in Sessions
  BY DEF IInv, VolatileTypeOK
<1>2. CASE ctx[r].exec = "parked"
  <2>1. Runnable(r) = Restored(session, r, r)
    BY <1>2 DEF Runnable
  <2>2. r # None
    BY NoneAssumption
  <2>3. QED
    BY <1>1, <2>1, <2>2, RestoredEdits DEF ctx
<1>3. CASE ctx[r].exec # "parked"
  BY <1>1, <1>3 DEF Runnable, ctx, Edited
<1>4. QED
  BY <1>2, <1>3

\* The accepted offer: one step charged, and work prepared.
LEMMA AcceptedEdits ==
  ASSUME IInv, NEW r \in RunIds, ~Exhausted(r)
  PROVE  LET u == Runnable(r) t == Accepted(r) c == ctx[r] d == t.ctx[r] IN
           /\ Edited(session, t, r) /\ t.goal = session.goal /\ t.foreground = session.foreground
           /\ d.bound = c.bound /\ d.task = u.ctx[r].task /\ d.exec = u.ctx[r].exec
           /\ d.grant.steps <= c.grant.steps
           /\ d.work.phase = "created"
<1> DEFINE u == Runnable(r)
           g == [u.ctx[r].grant EXCEPT !.steps = @ - 1, !.due = FALSE]
           w == NewWork("created", "auto")
           t1 == [u EXCEPT !.ctx[r].grant = g]
           t == [t1 EXCEPT !.ctx[r].work = w]
<1>1. /\ Edited(session, u, r) /\ u.goal = session.goal /\ u.foreground = session.foreground
      /\ u.ctx[r].bound = ctx[r].bound /\ u.ctx[r].grant = ctx[r].grant
  BY RunnableEdits
<1>2. u \in Sessions
  BY <1>1 DEF Edited
<1>3. u.ctx[r].grant \in Grants /\ u.ctx[r].grant.steps # 0
  BY <1>1, <1>2, ContextsTyped DEF Exhausted, Contexts
<1>4. Accepted(r) = t
  <2>1. u.ctx \in [RunIds -> Contexts] /\ u.ctx[r] \in Contexts
    BY <1>2 DEF Sessions
  <2> DEFINE a1 == [u EXCEPT !.ctx[r].grant.steps = @ - 1]
             a2 == [a1 EXCEPT !.ctx[r].grant.due = FALSE]
             a3 == [a2 EXCEPT !.ctx[r].work = w]
  <2>2. Accepted(r) = a3
    BY DEF Accepted
  <2>3. a2 = t1
    BY <1>2 DEF Sessions, Contexts
  <2>4. QED
    BY <2>2, <2>3
<1>5. g \in Grants /\ g.steps <= ctx[r].grant.steps
  <2>1. PICK h \in Grants : h = u.ctx[r].grant
    BY <1>3
  <2>2. h.steps \in Nat /\ h.steps # 0
    BY <1>3, <2>1 DEF Grants
  <2>3. h.steps - 1 \in Nat /\ h.steps - 1 <= h.steps
    BY <2>2
  <2>4. g = [h EXCEPT !.steps = h.steps - 1, !.due = FALSE]
    BY <2>1
  <2>5. g \in Grants /\ g.steps = h.steps - 1
    BY <2>3, <2>4 DEF Grants
  <2>6. QED
    BY <1>1, <2>1, <2>3, <2>5
<1>6. w \in Works /\ w.phase = "created"
  BY NewWorkFields DEF Phases
<1> HIDE DEF u, g, w
<1>7. /\ OneContext(u, t1, r) /\ t1.ctx[r].grant = g /\ t1.ctx[r].task = u.ctx[r].task
      /\ t1.ctx[r].bound = u.ctx[r].bound /\ t1.ctx[r].exec = u.ctx[r].exec
  BY <1>2, <1>5, GrantAssigned
<1> HIDE DEF t1
<1>8. t1 \in Sessions
  BY <1>7 DEF OneContext
<1>9. /\ OneContext(t1, t, r) /\ t.ctx[r].work = w /\ t.ctx[r].grant = t1.ctx[r].grant
      /\ t.ctx[r].task = t1.ctx[r].task /\ t.ctx[r].bound = t1.ctx[r].bound
      /\ t.ctx[r].exec = t1.ctx[r].exec
  BY <1>6, <1>8, WorkAssigned
<1> HIDE DEF t
<1>10. Edited(session, t, r) /\ t.goal = session.goal /\ t.foreground = session.foreground
  BY <1>1, <1>7, <1>9 DEF Edited, OneContext
<1>11. QED
  BY <1>1, <1>4, <1>5, <1>6, <1>7, <1>9, <1>10 DEF u

\* The next of the contexts is offered, restored, given up, held or passed by.
LEMMA OfferPreserves ==
  ASSUME IInv, OfferNext
  PROVE  Preserved
<1>1. /\ loop.routine = "offering" /\ Offerable(loop.run) # {}
      /\ UNCHANGED <<status, phase, console, consoleExact>>
      /\ loop'.routine = "offering"
  BY DEF OfferNext, durable, ledgerVars
<1>2. Offerable(loop.run) \subseteq RunIds
  BY DEF Offerable, Live
<1>3. Min(Offerable(loop.run)) \in Offerable(loop.run)
  BY <1>1, <1>2, MinIsElement
<1>4. PICK r \in RunIds : r = Min(Offerable(loop.run)) /\ r \in Offerable(loop.run)
  BY <1>2, <1>3
<1> DEFINE v == Verdict(r)
           c == ctx[r]
           d == ctx'[r]
<1>5. /\ v = "accepted" => session' = Accepted(r) /\ episodes' = episodes \cup {r}
      /\ v = "restored" => session' = Runnable(r) /\ episodes' = episodes
      /\ v = "cleared" => session' = GrantDropped(session, r) /\ episodes' = episodes
      /\ v = "exhausted" => session' = [session EXCEPT !.ctx[r].grant.state = "awaiting"]
         /\ episodes' = episodes
      /\ v = "deferred" => session' = session /\ episodes' = episodes
  <2>1. /\ session' = CASE v = "accepted"  -> Accepted(r)
                        [] v = "restored"  -> Runnable(r)
                        [] v = "cleared"   -> GrantDropped(session, r)
                        [] v = "exhausted" -> [session EXCEPT !.ctx[r].grant.state = "awaiting"]
                        [] v = "deferred"  -> session
        /\ episodes' = IF v = "accepted" THEN episodes \cup {r} ELSE episodes
    BY <1>4 DEF OfferNext
  <2> DEFINE held == [session EXCEPT !.ctx[r].grant.state = "awaiting"]
             accepted == Accepted(r)
             runnable == Runnable(r)
             dropped == GrantDropped(session, r)
  <2> HIDE DEF v, held, accepted, runnable, dropped
  <2>2. /\ v = "accepted" => session' = accepted
        /\ v = "restored" => session' = runnable
        /\ v = "cleared" => session' = dropped
        /\ v = "exhausted" => session' = held
        /\ v = "deferred" => session' = session
    BY <2>1 DEF held, accepted, runnable, dropped
  <2>3. /\ v = "accepted" => episodes' = episodes \cup {r}
        /\ v # "accepted" => episodes' = episodes
    BY <2>1
  <2>4. QED
    BY <2>2, <2>3 DEF held, accepted, runnable, dropped
<1>6. /\ v \in {"accepted", "restored", "cleared", "exhausted", "deferred"}
      /\ v \in {"accepted", "restored"} => c.bound /\ (c.exec = "parked" => Authorized(r))
      /\ v = "accepted" => EpisodeAvailable /\ ~Exhausted(r)
  BY VerdictFacts
<1>7. session \in Sessions /\ SoundAt(r)
  BY DEF IInv, VolatileTypeOK
<1>8. c.exec # "none" /\ c.work.phase = "none" /\ c.grant.state # "none"
  BY <1>4 DEF Offerable, Live, ctx
<1>9. ~(console.doing = "finishing" /\ console.run = r)
  BY <1>7, <1>8 DEF SoundAt, HeldForFinish
<1> HIDE DEF v
<1>10. CASE v = "deferred"
  <2>1. VolatileTypeOK'
    BY <1>1, <1>5, <1>10 DEF IInv, VolatileTypeOK
  <2>2. UNCHANGED session
    BY <1>5, <1>10
  <2>3. episodes \subseteq episodes'
    BY <1>5, <1>10
  <2>4. QED
    BY <1>1, <2>1, <2>2, <2>3, QuietSession
<1>11. CASE v \in {"cleared", "exhausted"}
  <2>1. /\ Edited(session, session', r) /\ session'.goal = session.goal
        /\ session'.foreground = session.foreground
        /\ d.task = c.task /\ d.bound = c.bound /\ d.exec = c.exec /\ d.work = c.work
        /\ d.grant.steps <= c.grant.steps
    <3>1. CASE v = "cleared"
      <4>1. NoGrant.steps <= c.grant.steps
        BY <1>7, ContextsTyped, NoContextFields DEF ctx
      <4>2. QED
        BY <1>5, <1>7, <3>1, <4>1, GrantDroppedEdits DEF ctx
    <3>2. CASE v = "exhausted"
      <4>1. session' = [session EXCEPT !.ctx[r].grant.state = "awaiting"]
        BY <1>5, <3>2
      <4>2. c.grant.steps \in Nat
        BY <1>7, ContextsTyped DEF ctx
      <4>3. QED
        BY <1>7, <4>1, <4>2, GrantAwaitsEdits DEF ctx, OneContext, Edited
    <3>3. QED
      BY <1>11, <3>1, <3>2
  <2>2. UNCHANGED episodes
    BY <1>5, <1>11
  <2>3. VolatileTypeOK'
    BY <1>1, <2>1, <2>2 DEF IInv, VolatileTypeOK, Edited
  <2>4. SoundAt(r)'
    <3>1. ContextSound(d) /\ ViewsMatch(r)'
      BY <1>7, <2>1 DEF SoundAt, ContextSound, ViewsMatch
    <3>2. ContextMatches(r)' /\ HeldForFinish(r)'
      BY <1>1, <1>7, <1>9, <2>1, <2>2 DEF SoundAt, ContextMatches, HeldForFinish, Phase
    <3>3. QED
      BY <3>1, <3>2 DEF SoundAt
  <2>5. StepSound(r)
    <3>1. c.grant.steps \in Nat /\ d.grant.steps \in Nat
      BY <1>7, <2>1, ContextsTyped DEF Edited, ctx
    <3>2. QED
      BY <1>1, <2>1, <3>1 DEF StepSound
  <2>6. QED
    BY <1>1, <2>1, <2>2, <2>3, <2>4, <2>5, EditOfOne
<1>12. CASE v \in {"accepted", "restored"}
  <2> DEFINE u == Runnable(r).ctx[r]
  <2>1. /\ u.bound = c.bound
        /\ u.work.phase = c.work.phase
        /\ \/ u.task = "running" /\ u.exec = "runnable" /\ ~u.work.fresh
           \/ c.exec # "parked" /\ u.task = c.task /\ u.exec = c.exec /\ u.work = c.work
    BY RunnableEdits
  <2>2. /\ Edited(session, session', r) /\ session'.goal = session.goal
        /\ session'.foreground = session.foreground
        /\ d.bound = c.bound /\ d.task = u.task /\ d.exec = u.exec
        /\ d.grant.steps <= c.grant.steps
        /\ \/ d.work.phase = "created" /\ episodes' = episodes \cup {r} /\ EpisodeAvailable
           \/ d.work = u.work /\ episodes' = episodes
    <3>1. CASE v = "accepted"
      <4>1. session' = Accepted(r) /\ ~Exhausted(r)
        BY <1>5, <1>6, <3>1
      <4>2. QED
        BY <1>5, <1>6, <3>1, <4>1, AcceptedEdits DEF ctx
    <3>2. CASE v = "restored"
      <4>1. session' = Runnable(r) /\ episodes' = episodes
        BY <1>5, <3>2
      <4>2. c.grant.steps \in Nat
        BY <1>7, ContextsTyped DEF ctx
      <4>3. QED
        BY <4>1, <4>2, RunnableEdits DEF ctx
    <3>3. QED
      BY <1>12, <3>1, <3>2
  <2> HIDE DEF u
  <2>3. IsFiniteSet(episodes') /\ Cardinality(episodes') <= MaxWork /\ episodes \subseteq episodes'
    BY <2>2, ClaimTypes DEF IInv, VolatileTypeOK
  <2>4. VolatileTypeOK'
    BY <1>1, <2>2, <2>3 DEF IInv, VolatileTypeOK, Edited
  <2>5. c.bound /\ c.task \in {"running", "paused"} /\ c.exec # "terminal"
    BY <1>6, <1>7, <1>12 DEF SoundAt, ContextSound, EndedTask
  <2>6. SoundAt(r)'
    <3>1. ContextSound(d)
      BY <1>7, <1>8, <2>1, <2>2, <2>5 DEF SoundAt, ContextSound, EndedTask
    <3>2. ViewsMatch(r)'
      BY <1>7, <2>1, <2>2, <2>5 DEF SoundAt, ViewsMatch
    <3>3. ContextMatches(r)'
      BY <1>1, <1>7, <1>8, <2>1, <2>2, <2>5 DEF SoundAt, ContextMatches, Phase
    <3>4. HeldForFinish(r)'
      BY <1>1, <1>9 DEF HeldForFinish
    <3>5. QED
      BY <3>1, <3>2, <3>3, <3>4 DEF SoundAt
  <2>7. StepSound(r)
    <3>1. c.grant.steps \in Nat /\ d.grant.steps \in Nat
      BY <1>7, <2>2, ContextsTyped DEF Edited, ctx
    <3>2. c.exec = "parked" => enabled[job[r]] /\ status[r] = "running"
      BY <1>6, <1>12 DEF Authorized
    <3>3. QED
      BY <1>1, <2>2, <3>1, <3>2 DEF StepSound
  <2>8. QED
    BY <1>1, <2>2, <2>3, <2>4, <2>6, <2>7, EditOfOne
<1>13. QED
  BY <1>6, <1>10, <1>11, <1>12

\* The round of offers begins, gives an offer up, or is over.
LEMMA OfferingQuietly ==
  ASSUME IInv, BeginOffers \/ OfferFails \/ EndOffers
  PROVE  Preserved
<1>1. UNCHANGED <<session, phase, episodes, status, console, consoleExact>>
  BY DEF BeginOffers, OfferFails, EndOffers, durable, ledgerVars
<1>2. loop'.routine \notin {"starting", "interrupting"}
  <2>1. CASE OfferFails
    <3>1. loop'.routine = "offering"
      BY <2>1 DEF OfferFails
    <3>2. QED
      BY <3>1
  <2>2. CASE BeginOffers \/ EndOffers
    BY <2>2 DEF BeginOffers, EndOffers, Idle
  <2>3. QED
    BY <2>1, <2>2
<1>3. VolatileTypeOK'
  BY <1>1, <1>2 DEF IInv, VolatileTypeOK
<1>4. QED
  BY <1>1, <1>3, QuietSession

\* The clock and an event only mark what a grant waits for as due.
LEMMA DuePreserves ==
  ASSUME IInv, EventOccurs \/ \E r \in RunIds : DelayElapses(r)
  PROVE  Preserved
<1>1. /\ UNCHANGED <<status, phase, episodes, console, consoleExact>>
      /\ loop'.routine \notin {"starting", "interrupting"}
  BY DEF EventOccurs, DelayElapses, durable, ledgerVars, LoopIdle, Idle
<1>2. session \in Sessions
  BY DEF IInv, VolatileTypeOK
<1> DEFINE after(S, q) == IF q \in S THEN [session.ctx[q] EXCEPT !.grant.due = TRUE]
                          ELSE session.ctx[q]
<1>3. PICK S \in SUBSET RunIds : session' = [session EXCEPT !.ctx = [q \in RunIds |-> after(S, q)]]
  <2>1. CASE EventOccurs
    BY <2>1, <1>2 DEF EventOccurs, Live, Sessions
  <2>2. ASSUME NEW r \in RunIds, DelayElapses(r)
        PROVE  \E S \in SUBSET RunIds :
                 session' = [session EXCEPT !.ctx = [q \in RunIds |-> after(S, q)]]
    <3>1. session' = [session EXCEPT !.ctx = [q \in RunIds |-> after({r}, q)]]
      BY <1>2, <2>2 DEF DelayElapses, Sessions
    <3>2. QED
      BY <3>1
  <2>3. QED
    BY <2>1, <2>2
<1>4. /\ session' \in Sessions /\ session'.goal = session.goal
      /\ session'.foreground = session.foreground
      /\ \A q \in RunIds : /\ Undisturbed(ctx[q], ctx'[q])
                            /\ ctx'[q].grant.state = ctx[q].grant.state
  <2>1. ASSUME NEW q \in RunIds
        PROVE  /\ after(S, q) \in Contexts /\ Undisturbed(session.ctx[q], after(S, q))
               /\ after(S, q).grant.state = session.ctx[q].grant.state
    <3>1. PICK c \in Contexts : c = session.ctx[q]
      BY <1>2, ContextsTyped
    <3> DEFINE g == [c.grant EXCEPT !.due = TRUE]
               d == [c EXCEPT !.grant = g]
    <3>2. g \in Grants /\ g.steps = c.grant.steps /\ g.state = c.grant.state
      BY DEF Contexts, Grants
    <3>3. [c EXCEPT !.grant.due = TRUE] = d
      BY DEF Contexts
    <3> HIDE DEF g
    <3>4. /\ d \in Contexts /\ Undisturbed(c, d) /\ d.grant.state = c.grant.state
      BY <3>2 DEF Contexts, Undisturbed
    <3> HIDE DEF d
    <3>5. Undisturbed(c, c)
      BY DEF Undisturbed
    <3>6. QED
      BY <3>1, <3>3, <3>4, <3>5
  <2>2. session' = [session EXCEPT !.ctx = [r \in RunIds |-> after(S, r)]]
    BY <1>3
  <2> HIDE DEF after
  <2>3. QED
    BY <1>2, <2>1, <2>2 DEF Sessions, ctx
<1>5. VolatileTypeOK'
  BY <1>1, <1>4 DEF IInv, VolatileTypeOK
<1>6. QED
  BY <1>1, <1>4, <1>5, AllUndisturbed

\* pause_task of the foreground, or of a parked occurrence: a grant is withheld.
LEMMA PausePreserves ==
  ASSUME IInv, Pause
  PROVE  Preserved
<1> DEFINE f == session.foreground
           g == CompatContext(session, None)
<1>1. /\ UNCHANGED <<status, phase, loop, episodes, console, consoleExact>>
      /\ phase = "running" /\ console.doing # "finishing"
  BY DEF Pause, durable, ledgerVars, Running, ConsoleIdle
<1>2. session \in Sessions /\ f \in RunIds \cup {None} /\ g \in RunIds \cup {None}
  BY CompatContextTyped DEF IInv, VolatileTypeOK, Sessions
<1>3. CASE /\ f # None /\ ctx[f].bound /\ ctx[f].task = "running"
           /\ session' = Without([session EXCEPT !.ctx[f].task = "paused",
                                     !.ctx[f].exec = "runnable",
                                     !.ctx[f].work.fresh = FALSE], "goal", f)
  <2>1. PICK r \in RunIds : r = f
    BY <1>2, <1>3
  <2> DEFINE u1 == [session EXCEPT !.ctx[r].task = "paused"]
             u2 == [u1 EXCEPT !.ctx[r].exec = "runnable"]
             u == [u2 EXCEPT !.ctx[r].work.fresh = FALSE]
             c == ctx[r]
             d == ctx'[r]
  <2>2. session' = Without(u, "goal", r)
    BY <1>3, <2>1
  <2>3. "paused" \in Tasks /\ "runnable" \in Execs
    BY DEF Tasks, Execs
  <2>4. /\ OneContext(session, u1, r) /\ u1.ctx[r].task = "paused" /\ u1.ctx[r].bound = c.bound
        /\ u1.ctx[r].grant = c.grant /\ u1.ctx[r].work = c.work
    BY <1>2, <2>3, TaskAssigned DEF ctx
  <2>5. /\ OneContext(u1, u2, r) /\ u2.ctx[r].task = "paused" /\ u2.ctx[r].bound = c.bound
        /\ u2.ctx[r].exec = "runnable"
        /\ u2.ctx[r].grant = c.grant /\ u2.ctx[r].work = c.work
    <3> HIDE DEF u1
    <3>1. QED
      BY <2>3, <2>4, ExecAssigned DEF OneContext
  <2>6. /\ OneContext(u2, u, r) /\ u.ctx[r].task = "paused" /\ u.ctx[r].bound = c.bound
        /\ u.ctx[r].exec = "runnable" /\ u.ctx[r].grant = c.grant /\ ~u.ctx[r].work.fresh
        /\ u.ctx[r].work.phase = c.work.phase /\ u.ctx[r].work.cancelled = c.work.cancelled
    <3> HIDE DEF u1, u2
    <3>1. QED
      BY <2>5, FreshCleared DEF OneContext
  <2>7. OneContext(session, u, r)
    BY <2>4, <2>5, <2>6 DEF OneContext
  <2> HIDE DEF u
  <2>8. /\ Edited(session, session', r) /\ session'.goal # r
        /\ session'.foreground = session.foreground
        /\ d.task = "paused" /\ d.bound = c.bound
        /\ d.exec = "runnable" /\ d.grant = c.grant /\ ~d.work.fresh
        /\ d.work.phase = c.work.phase /\ d.work.cancelled = c.work.cancelled
    BY <2>2, <2>6, <2>7, NoneAssumption DEF Without, OneContext, Edited, Sessions, ctx
  <2>9. SoundAt(r) /\ c.bound /\ c.grant.steps \in Nat
    BY <1>2, <1>3, <2>1, ContextsTyped DEF IInv, ctx
  <2>10. c.exec \notin {"none", "terminal"}
    BY <2>9 DEF SoundAt, ContextSound, EndedTask
  <2>11. ContextSound(d) /\ ViewsMatch(r)'
    BY <2>8 DEF ContextSound, ViewsMatch, EndedTask
  <2>12. HeldForFinish(r)'
    BY <1>1 DEF HeldForFinish
  <2>13. Phase(r)' = Phase(r) /\ d.grant.steps <= c.grant.steps
    BY <2>8, <2>9 DEF Phase
  <2>14. QED
    BY <1>1, <2>8, <2>10, <2>11, <2>12, <2>13, SessionEdit
<1>4. CASE /\ f # None => ~ctx[f].bound
           /\ ParkedRun(session, None) # None
           /\ ctx[g].grant.state = "armed"
           /\ session' = [session EXCEPT !.ctx[g].grant.state = "awaiting"]
  <2>1. g # None
    BY <1>2, <1>4, ParkedRunTyped DEF CompatContext
  <2>2. PICK r \in RunIds : r = g
    BY <1>2, <2>1
  <2> DEFINE c == ctx[r]
             d == ctx'[r]
  <2>3. session' = [session EXCEPT !.ctx[r].grant.state = "awaiting"]
    BY <1>4, <2>2
  <2>4. /\ OneContext(session, session', r)
        /\ d.task = c.task /\ d.bound = c.bound /\ d.exec = c.exec /\ d.work = c.work
        /\ d.grant.steps = c.grant.steps
    BY <1>2, <2>3, GrantAwaitsEdits DEF ctx
  <2>5. SoundAt(r) /\ Edited(session, session', r) /\ c.grant.steps \in Nat
    BY <1>2, <2>4, ContextsTyped DEF IInv, OneContext, Edited, ctx
  <2>6. ContextSound(d) /\ ViewsMatch(r)'
    BY <2>4, <2>5 DEF SoundAt, ContextSound, ViewsMatch, OneContext
  <2>7. HeldForFinish(r)'
    BY <1>1 DEF HeldForFinish
  <2>8. Phase(r)' = Phase(r) /\ d.grant.steps <= c.grant.steps
    BY <2>4, <2>5 DEF Phase
  <2>9. QED
    BY <1>1, <2>4, <2>5, <2>6, <2>7, <2>8, SessionEdit
<1>5. QED
  BY <1>3, <1>4 DEF Pause

HasTask(r) == ctx[r].bound

\* The two halves of resume_task.
ForegroundResumed(s, r) ==
  [s EXCEPT !.ctx[r].task = "running", !.goal = r,
            !.ctx[r].exec = "runnable", !.ctx[r].work.fresh = FALSE]

GrantRearmed(s, g) ==
  IF s.ctx[g].grant.state = "none" THEN s ELSE [s EXCEPT !.ctx[g].grant.state = "armed"]

\* A withheld grant is armed again.
LEMMA GrantRearmedEdits ==
  ASSUME NEW s \in Sessions, NEW r \in RunIds
  PROVE  LET t == GrantRearmed(s, r) c == s.ctx[r] d == t.ctx[r] IN
           /\ OneContext(s, t, r)
           /\ d.task = c.task /\ d.bound = c.bound /\ d.exec = c.exec /\ d.work = c.work
           /\ d.grant.steps = c.grant.steps
<1> DEFINE g == [s.ctx[r].grant EXCEPT !.state = "armed"]
<1>1. s.ctx[r].grant \in Grants
  BY DEF Sessions, Contexts
<1>2. g \in Grants /\ g.steps = s.ctx[r].grant.steps
  BY <1>1 DEF Grants
<1>3. [s EXCEPT !.ctx[r].grant.state = "armed"] = [s EXCEPT !.ctx[r].grant = g]
  BY DEF Sessions, Contexts
<1> DEFINE t == [s EXCEPT !.ctx[r].grant = g]
<1>4. GrantRearmed(s, r) \in {s, t}
  BY <1>3 DEF GrantRearmed
<1> HIDE DEF g
<1>5. /\ OneContext(s, t, r) /\ t.ctx[r].task = s.ctx[r].task /\ t.ctx[r].bound = s.ctx[r].bound
      /\ t.ctx[r].exec = s.ctx[r].exec /\ t.ctx[r].work = s.ctx[r].work /\ t.ctx[r].grant = g
  BY <1>2, GrantAssigned
<1> HIDE DEF t
<1>6. OneContext(s, s, r)
  BY DEF OneContext
<1>7. QED
  BY <1>2, <1>4, <1>5, <1>6

\* resume_task of the foreground: it was never parked.
LEMMA ResumeForegroundPreserves ==
  ASSUME IInv, NEW r \in RunIds, r = session.foreground, HasTask(r),
         session' = ForegroundResumed(session, r),
         console.doing # "finishing",
         UNCHANGED <<status, phase, loop, episodes, console, consoleExact>>
  PROVE  Preserved
<1> DEFINE u1 == [session EXCEPT !.ctx[r].task = "running"]
           w == [u1 EXCEPT !.goal = r]
           u2 == [w EXCEPT !.ctx[r].exec = "runnable"]
           u == [u2 EXCEPT !.ctx[r].work.fresh = FALSE]
           c == ctx[r]
           d == ctx'[r]
<1>1. session \in Sessions
  BY DEF IInv, VolatileTypeOK
<1>2. session' = u
  BY DEF ForegroundResumed
<1>3. "running" \in Tasks /\ "runnable" \in Execs
  BY DEF Tasks, Execs
<1>4. /\ OneContext(session, u1, r) /\ u1.ctx[r].task = "running" /\ u1.ctx[r].bound = c.bound
      /\ u1.ctx[r].grant = c.grant /\ u1.ctx[r].work = c.work
  BY <1>1, <1>3, TaskAssigned DEF ctx
<1> HIDE DEF u1
<1>5. w \in Sessions /\ w.ctx = u1.ctx /\ w.goal = r /\ w.foreground = u1.foreground
  BY <1>4 DEF OneContext, Sessions
<1> HIDE DEF w
<1>6. /\ OneContext(w, u2, r) /\ u2.ctx[r].task = "running" /\ u2.ctx[r].bound = c.bound
      /\ u2.ctx[r].exec = "runnable"
      /\ u2.ctx[r].grant = c.grant /\ u2.ctx[r].work = c.work
  BY <1>3, <1>4, <1>5, ExecAssigned
<1> HIDE DEF u2
<1>7. /\ OneContext(u2, u, r) /\ u.ctx[r].task = "running" /\ u.ctx[r].bound = c.bound
      /\ u.ctx[r].exec = "runnable" /\ u.ctx[r].grant = c.grant
      /\ u.ctx[r].work.phase = c.work.phase /\ u.ctx[r].work.cancelled = c.work.cancelled
  BY <1>6, FreshCleared DEF OneContext
<1> HIDE DEF u
<1>8. /\ Edited(session, session', r) /\ session'.foreground = session.foreground
      /\ d.task = "running" /\ d.bound = c.bound
      /\ d.exec = "runnable" /\ d.grant = c.grant
      /\ d.work.phase = c.work.phase /\ d.work.cancelled = c.work.cancelled
  BY <1>2, <1>4, <1>5, <1>6, <1>7 DEF OneContext, Edited, ctx
<1>9. SoundAt(r) /\ c.bound /\ c.grant.steps \in Nat
  BY <1>1, ContextsTyped DEF IInv, ctx, HasTask
<1>10. c.exec \notin {"none", "terminal"}
  BY <1>9 DEF SoundAt, ContextSound, EndedTask
<1>11. c.exec # "parked"
  BY <1>9 DEF SoundAt, ViewsMatch
<1>12. ContextSound(d) /\ ViewsMatch(r)'
  BY <1>8, <1>9 DEF ContextSound, ViewsMatch, EndedTask
<1>13. HeldForFinish(r)'
  BY DEF HeldForFinish
<1>14. Phase(r)' = Phase(r) /\ d.grant.steps <= c.grant.steps
  BY <1>8, <1>9 DEF Phase
<1>15. QED
  BY <1>8, <1>10, <1>11, <1>12, <1>13, <1>14, SessionEdit

\* resume_task of a parked occurrence, and the grant of whichever the view names then.
LEMMA ResumeParkedPreserves ==
  ASSUME IInv, NEW r \in RunIds, Authorized(r),
         ctx[r].exec = "parked",
         LET s == Restored(session, r, None) g == CompatContext(s, None) IN
           session' = GrantRearmed(s, g),
         console.doing # "finishing", phase = "running",
         UNCHANGED <<status, phase, loop, episodes, console, consoleExact>>
  PROVE  Preserved
<1> DEFINE s == Restored(session, r, None)
           g == CompatContext(s, None)
           c == ctx[r]
           d == ctx'[r]
<1>1. session \in Sessions /\ SoundAt(r) /\ session' = GrantRearmed(s, g)
  BY DEF IInv, VolatileTypeOK
<1>2. /\ Edited(session, s, r) /\ s.goal = session.goal /\ s.foreground = r
      /\ s.ctx[r].task = "running" /\ s.ctx[r].exec = "runnable" /\ ~s.ctx[r].work.fresh
      /\ s.ctx[r].bound = c.bound /\ s.ctx[r].grant = c.grant
      /\ s.ctx[r].work.phase = c.work.phase /\ s.ctx[r].work.cancelled = c.work.cancelled
  BY <1>1, RestoredEdits DEF ctx
<1>3. s \in Sessions
  BY <1>2 DEF Edited
<1>4. g \in RunIds
  <2>1. ParkedContext(s, None) \in RunIds \cup {None}
    BY <1>3, ParkedRunTyped
  <2> HIDE DEF s
  <2>2. QED
    BY <1>2, <2>1, NoneAssumption DEF CompatContext
<1> HIDE DEF s
<1>5. /\ session' \in Sessions /\ session'.goal = s.goal /\ session'.foreground = s.foreground
      /\ \A q \in RunIds : /\ Undisturbed(s.ctx[q], session'.ctx[q])
                           /\ session'.ctx[q].work = s.ctx[q].work
  <2>1. PICK h \in RunIds : h = g
    BY <1>4
  <2>2. session' = GrantRearmed(s, h)
    BY <1>1, <2>1
  <2> HIDE DEF g
  <2>3. /\ OneContext(s, session', h)
        /\ session'.ctx[h].task = s.ctx[h].task /\ session'.ctx[h].bound = s.ctx[h].bound
        /\ session'.ctx[h].exec = s.ctx[h].exec /\ session'.ctx[h].work = s.ctx[h].work
        /\ session'.ctx[h].grant.steps = s.ctx[h].grant.steps
    BY <1>3, <2>2, GrantRearmedEdits
  <2>4. QED
    BY <2>3 DEF OneContext, Undisturbed
<1>6. VolatileTypeOK'
  BY <1>5 DEF IInv, VolatileTypeOK
<1>7. /\ d.task = "running" /\ d.exec = "runnable" /\ d.bound = c.bound
      /\ d.grant.steps = c.grant.steps /\ d.work.phase = c.work.phase
  BY <1>2, <1>5 DEF Undisturbed, ctx
<1>8. SoundAt(r)'
  <2>1. ContextSound(d)
    BY <1>1, <1>7 DEF ContextSound, EndedTask
  <2>2. ViewsMatch(r)'
    BY <1>1, <1>7 DEF ViewsMatch, SoundAt, ContextSound
  <2>3. ContextMatches(r)'
    BY <1>1, <1>7 DEF SoundAt, ContextMatches, Phase
  <2>4. QED
    BY <2>1, <2>2, <2>3 DEF SoundAt, HeldForFinish
<1>9. StepSound(r)
  <2>1. c.grant.steps \in Nat
    BY <1>1, ContextsTyped DEF ctx
  <2>2. QED
    BY <1>7, <2>1 DEF StepSound, Authorized
<1>10. ASSUME NEW q \in RunIds, q # r PROVE SoundAt(q)' /\ StepSound(q)
  <2>1. Undisturbed(ctx[q], ctx'[q])
    BY <1>2, <1>5, <1>10 DEF Edited, ctx
  <2>2. session'.foreground # q /\ session'.goal = session.goal
    BY <1>2, <1>5, <1>10
  <2>3. QED
    BY <1>5, <2>1, <2>2, UntouchedStaysSound
<1>11. QED
  BY <1>6, <1>8, <1>9, <1>10 DEF Preserved, IInv

\* resume_task, whichever it finds.
LEMMA ResumePreserves ==
  ASSUME IInv, Resume
  PROVE  Preserved
<1> DEFINE f == session.foreground
           p == ParkedRun(session, None)
           s == Restored(session, p, None)
           g == CompatContext(s, None)
<1>1. /\ UNCHANGED <<status, phase, loop, episodes, console, consoleExact>>
      /\ phase = "running" /\ console.doing # "finishing"
  BY DEF Resume, durable, ledgerVars, Running, ConsoleIdle
<1>2. session \in Sessions /\ f \in RunIds \cup {None}
  BY DEF IInv, VolatileTypeOK, Sessions
<1>3. p \in RunIds \cup {None} /\ (p # None => ctx[p].bound)
  BY <1>2, ParkedRunTyped DEF ctx
<1>4. CASE /\ f # None /\ ctx[f].bound /\ ctx[f].task = "paused"
           /\ session' = [session EXCEPT !.ctx[f].task = "running", !.goal = f,
                            !.ctx[f].exec = "runnable", !.ctx[f].work.fresh = FALSE]
  <2>1. PICK r \in RunIds : r = f
    BY <1>2, <1>4
  <2>2. QED
    BY <1>1, <1>4, <2>1, ResumeForegroundPreserves DEF ForegroundResumed, HasTask
<1>5. CASE /\ f # None => ~ctx[f].bound
           /\ p # None /\ ctx[p].exec = "parked"
           /\ session' = IF ~Authorized(p) THEN GrantDropped(session, p)
                         ELSE IF s.ctx[g].grant.state = "none" THEN s
                         ELSE [s EXCEPT !.ctx[g].grant.state = "armed"]
  <2>1. PICK r \in RunIds : r = p
    BY <1>3, <1>5
  <2>2. CASE ~Authorized(p)
    <3>1. session' = GrantDropped(session, r)
      BY <1>5, <2>1, <2>2
    <3>2. QED
      BY <1>1, <3>1, GrantDroppedPreserves
  <2>3. CASE Authorized(p)
    <3>1. Authorized(r) /\ ctx[r].exec = "parked"
      BY <1>3, <1>5, <2>1, <2>3
    <3>2. LET t == Restored(session, r, None) h == CompatContext(t, None) IN
            session' = GrantRearmed(t, h)
      BY <1>5, <2>1, <2>3 DEF GrantRearmed
    <3> HIDE DEF s, p, g, f
    <3>3. QED
      BY <1>1, <3>1, <3>2, ResumeParkedPreserves
  <2>4. QED
    BY <2>2, <2>3
<1>6. QED
  BY <1>4, <1>5 DEF Resume

-----------------------------------------------------------------------------
(***************************************************************************)
(* The lifecycle, and the step.                                            *)
(***************************************************************************)

\* stop() leaves "running", then cancels whatever work there is: nothing else moves.
LEMMA StopBeginsPreserves ==
  ASSUME IInv, BeginStop \/ BeginInterrupting \/ CancelAllWork
  PROVE  Preserved
<1>1. session \in Sessions
  BY DEF IInv, VolatileTypeOK
<1>2. CASE BeginStop
  <2>1. UNCHANGED <<session, status, episodes, console, consoleExact, loop>> /\ phase' = "stopping"
    BY <1>2 DEF BeginStop, volatile, durable, ledgerVars
  <2>2. loop.routine = "idle"
    BY <1>2 DEF BeginStop, Running, LoopIdle, Idle
  <2>3. VolatileTypeOK'
    BY <2>1, <2>2 DEF IInv, VolatileTypeOK
  <2>4. \A q \in RunIds : Undisturbed(ctx[q], ctx'[q]) /\ ctx'[q].grant.state = ctx[q].grant.state
    BY <2>1 DEF Undisturbed, ctx
  <2>5. QED
    BY <1>1, <2>1, <2>3, <2>4, AllUndisturbed
<1>3. CASE BeginInterrupting
  <2>1. UNCHANGED <<session, phase, status, episodes, console, consoleExact>> /\ phase = "joined"
    BY <1>3 DEF BeginInterrupting, durable, ledgerVars
  <2>2. loop'.routine = "interrupting"
    BY <1>3 DEF BeginInterrupting
  <2>3. VolatileTypeOK'
    BY <2>1, <2>2 DEF IInv, VolatileTypeOK
  <2>4. QED
    BY <2>1, <2>3, QuietSession
<1>4. CASE CancelAllWork
  <2>1. /\ UNCHANGED <<status, episodes, console, consoleExact, loop>> /\ phase' = "joining"
        /\ loop.routine = "idle"
    BY <1>4 DEF CancelAllWork, durable, ledgerVars, LoopIdle, Idle
  <2>2. /\ session' \in Sessions /\ session'.goal = session.goal
        /\ session'.foreground = session.foreground
        /\ \A q \in RunIds : /\ Undisturbed(ctx[q], ctx'[q])
                              /\ ctx'[q].grant.state = ctx[q].grant.state
    <3> DEFINE after(q) == IF session.ctx[q].work.phase \in {"created", "running"}
                           THEN [session.ctx[q] EXCEPT !.work.cancelled = TRUE] ELSE session.ctx[q]
    <3>1. ASSUME NEW q \in RunIds
          PROVE  /\ after(q) \in Contexts /\ Undisturbed(session.ctx[q], after(q))
                 /\ after(q).grant.state = session.ctx[q].grant.state
      <4>1. PICK c \in Contexts : c = session.ctx[q]
        BY <1>1, ContextsTyped
      <4> DEFINE w == [c.work EXCEPT !.cancelled = TRUE]
                 d == [c EXCEPT !.work = w]
      <4>2. w \in Works /\ w.phase = c.work.phase /\ w.fresh = c.work.fresh /\ w.cancelled
        BY DEF Contexts, Works
      <4>3. [c EXCEPT !.work.cancelled = TRUE] = d
        BY DEF Contexts
      <4> HIDE DEF w
      <4>4. d \in Contexts /\ Undisturbed(c, d) /\ d.grant.state = c.grant.state
        BY <4>2 DEF Contexts, Undisturbed
      <4> HIDE DEF d
      <4>5. Undisturbed(c, c)
        BY DEF Undisturbed
      <4>6. QED
        BY <4>1, <4>3, <4>4, <4>5
    <3>2. session' = [session EXCEPT !.ctx = [r \in RunIds |-> after(r)]]
      BY <1>1, <1>4 DEF CancelAllWork, Sessions
    <3> HIDE DEF after
    <3>3. QED
      BY <1>1, <3>1, <3>2 DEF Sessions, ctx
  <2>3. VolatileTypeOK'
    BY <2>1, <2>2 DEF IInv, VolatileTypeOK
  <2>4. QED
    BY <2>1, <2>2, <2>3, AllUndisturbed
<1>5. QED
  BY <1>2, <1>3, <1>4

\* What the join leaves of a session.
LEMMA AllWorkClearedEdits ==
  ASSUME NEW s \in Sessions
  PROVE  LET t == AllWorkCleared(s) IN
           /\ t \in Sessions /\ t.goal = s.goal /\ t.foreground \in {s.foreground, None}
           /\ \A q \in RunIds :
                \/ t.ctx[q] = NoContext /\ s.ctx[q].exec = "terminal"
                \/ /\ t.ctx[q].task = s.ctx[q].task /\ t.ctx[q].bound = s.ctx[q].bound
                   /\ t.ctx[q].exec = s.ctx[q].exec /\ t.ctx[q].grant = s.ctx[q].grant
                   /\ t.ctx[q].work.phase = "none"
                   /\ t.ctx[q].work \in {s.ctx[q].work, NoWork}
<1> DEFINE after(q) == IF q \in Occupied(s) THEN WorkCleared(s, q).ctx[q] ELSE s.ctx[q]
           cleared == [q \in RunIds |-> after(q)]
           left == {q \in Occupied(s) : cleared[q].exec = "none"}
           t == AllWorkCleared(s)
<1>1. ASSUME NEW q \in RunIds
      PROVE  /\ after(q) \in Contexts
             /\ \/ after(q) = NoContext /\ s.ctx[q].exec = "terminal"
                \/ /\ after(q).task = s.ctx[q].task /\ after(q).bound = s.ctx[q].bound
                   /\ after(q).exec = s.ctx[q].exec /\ after(q).grant = s.ctx[q].grant
                   /\ after(q).work.phase = "none"
                   /\ after(q).work \in {s.ctx[q].work, NoWork}
  <2>1. CASE q \in Occupied(s)
    <3>1. NoWork.phase = "none"
      BY DEF NoWork
    <3>2. WorkCleared(s, q) \in Sessions
      BY WorkClearedEdits DEF Edited
    <3>3. QED
      BY <2>1, <3>1, <3>2, WorkClearedEdits, ContextsTyped
  <2>2. CASE q \notin Occupied(s)
    BY <2>2, ContextsTyped DEF Occupied
  <2>3. QED
    BY <2>1, <2>2
<1>2. t = [s EXCEPT !.ctx = cleared, !.foreground = IF @ \in left THEN None ELSE @,
                    !.parked = IF @ \in left THEN None ELSE @]
  BY DEF AllWorkCleared
<1> HIDE DEF after, left, t
<1>3. cleared \in [RunIds -> Contexts]
  BY <1>1
<1>4. t \in Sessions /\ t.ctx = cleared /\ t.goal = s.goal /\ t.foreground \in {s.foreground, None}
  BY <1>2, <1>3 DEF Sessions
<1>5. QED
  BY <1>1, <1>4 DEF t

\* What ended as "gone" is forgotten, and the grant of the context the view names.
LEMMA JoinPreserves ==
  ASSUME IInv, JoinAllWork
  PROVE  Preserved
<1> DEFINE s == AllWorkCleared(session)
           g == CompatContext(s, None)
<1>1. session \in Sessions
  BY DEF IInv, VolatileTypeOK
<1>2. /\ UNCHANGED <<status, episodes, console, consoleExact, loop>> /\ phase' = "joined"
      /\ loop.routine = "idle" /\ phase = "joining"
      /\ session' = IF g = None THEN s ELSE [GrantDropped(s, g) EXCEPT !.ctx[g].progress = None]
  BY DEF JoinAllWork, durable, ledgerVars, LoopIdle, Idle
<1>3. /\ s \in Sessions /\ s.goal = session.goal /\ s.foreground \in {session.foreground, None}
      /\ \A q \in RunIds :
           \/ s.ctx[q] = NoContext /\ ctx[q].exec = "terminal"
           \/ /\ s.ctx[q].task = ctx[q].task /\ s.ctx[q].bound = ctx[q].bound
              /\ s.ctx[q].exec = ctx[q].exec /\ s.ctx[q].grant = ctx[q].grant
              /\ s.ctx[q].work.phase = "none" /\ s.ctx[q].work \in {ctx[q].work, NoWork}
  BY <1>1, AllWorkClearedEdits DEF ctx
<1> HIDE DEF s
<1>4. /\ session' \in Sessions /\ session'.goal = s.goal /\ session'.foreground = s.foreground
      /\ \A q \in RunIds :
           /\ session'.ctx[q].task = s.ctx[q].task /\ session'.ctx[q].bound = s.ctx[q].bound
           /\ session'.ctx[q].exec = s.ctx[q].exec /\ session'.ctx[q].work = s.ctx[q].work
           /\ session'.ctx[q].grant \in {s.ctx[q].grant, NoGrant}
  <2>1. CASE g = None
    BY <1>2, <1>3, <2>1
  <2>2. CASE g # None
    <3>1. g \in RunIds
      BY <1>3, <2>2, CompatContextTyped
    <3>2. PICK h \in RunIds : h = g
      BY <3>1
    <3> DEFINE t == GrantDropped(s, h)
    <3>3. session' = [t EXCEPT !.ctx[h].progress = None]
      BY <1>2, <2>2, <3>2
    <3> HIDE DEF g
    <3>4. /\ Edited(s, t, h) /\ t.goal = s.goal /\ t.foreground = s.foreground
          /\ t.ctx[h].task = s.ctx[h].task /\ t.ctx[h].bound = s.ctx[h].bound
          /\ t.ctx[h].exec = s.ctx[h].exec /\ t.ctx[h].work = s.ctx[h].work
          /\ t.ctx[h].grant = NoGrant
      BY <1>3, GrantDroppedEdits
    <3>5. None \in RunIds \cup {None} /\ t \in Sessions
      BY <3>4 DEF Edited
    <3> DEFINE u == [t EXCEPT !.ctx[h].progress = None]
    <3> HIDE DEF t
    <3>6. /\ OneContext(t, u, h)
          /\ u.ctx[h].task = t.ctx[h].task /\ u.ctx[h].bound = t.ctx[h].bound
          /\ u.ctx[h].exec = t.ctx[h].exec /\ u.ctx[h].work = t.ctx[h].work
          /\ u.ctx[h].grant = t.ctx[h].grant
      BY <3>5, ProgressAssigned
    <3>7. session' = u
      BY <3>3
    <3> HIDE DEF u
    <3>8. QED
      BY <3>4, <3>6, <3>7 DEF Edited, OneContext
  <2>3. QED
    BY <2>1, <2>2
<1>5. VolatileTypeOK'
  BY <1>2, <1>4 DEF IInv, VolatileTypeOK
<1>6. ASSUME NEW q \in RunIds PROVE SoundAt(q)' /\ StepSound(q)
  <2> DEFINE c == ctx[q]
             d == ctx'[q]
  <2>1. SoundAt(q) /\ c.grant.steps \in Nat
    BY <1>1, ContextsTyped DEF IInv, ctx
  <2>2. /\ d.work.phase = "none" /\ d.exec \in {c.exec, "none"}
        /\ d.grant.steps <= c.grant.steps
        /\ d.grant.state \in {c.grant.state, "none"}
        /\ \/ d.exec = "none" /\ d.task = "none" /\ ~d.bound /\ c.exec = "terminal" /\ ~d.work.fresh
           \/ d.task = c.task /\ d.bound = c.bound /\ d.exec = c.exec
              /\ (d.work.fresh => c.work.fresh)
    <3>1. /\ d.task = s.ctx[q].task /\ d.bound = s.ctx[q].bound
          /\ d.exec = s.ctx[q].exec /\ d.work = s.ctx[q].work
          /\ d.grant \in {s.ctx[q].grant, NoGrant}
      BY <1>4 DEF ctx
    <3>2. ~NoWork.fresh /\ ~NoContext.work.fresh
      BY DEF NoWork, NoContext
    <3>3. CASE s.ctx[q] = NoContext /\ c.exec = "terminal"
      BY <2>1, <3>1, <3>2, <3>3, NoContextFields
    <3>4. CASE /\ s.ctx[q].task = c.task /\ s.ctx[q].bound = c.bound
               /\ s.ctx[q].exec = c.exec /\ s.ctx[q].grant = c.grant
               /\ s.ctx[q].work.phase = "none" /\ s.ctx[q].work \in {c.work, NoWork}
      BY <2>1, <3>1, <3>2, <3>4, NoContextFields
    <3>5. QED
      BY <1>3, <3>3, <3>4
  <2> HIDE DEF c, d
  <2>3. ContextSound(d)
    BY <2>1, <2>2 DEF SoundAt, ContextSound, EndedTask, c
  <2>4. ViewsMatch(q)'
    <3>1. session'.goal = q => session.goal = q
      BY <1>3, <1>4
    <3>2. session'.foreground = q => session.foreground = q
      BY <1>3, <1>4, NoneAssumption
    <3>3. c.exec = "terminal" => c.task # "running"
      BY <2>1 DEF SoundAt, ContextSound, EndedTask, c
    <3>4. QED
      BY <2>1, <2>2, <3>1, <3>2, <3>3 DEF SoundAt, ViewsMatch, c, d
  <2>5. ContextMatches(q)'
    BY <1>2, <2>1, <2>2 DEF SoundAt, ContextMatches, Phase, c, d
  <2>6. HeldForFinish(q)'
    BY <1>2, <2>1, <2>2 DEF SoundAt, HeldForFinish, Phase, c, d
  <2>7. StepSound(q)
    <3>1. d.grant.steps \in Nat
      BY <1>4, ContextsTyped DEF d, ctx
    <3>2. QED
      BY <1>2, <2>1, <2>2, <3>1 DEF StepSound, c, d
  <2>8. QED
    BY <2>3, <2>4, <2>5, <2>6, <2>7 DEF SoundAt, d
<1>7. QED
  BY <1>5, <1>6 DEF Preserved, IInv

\* stop() interrupts what is still live, after the contexts stopped mattering.
LEMMA InterruptPreserves ==
  ASSUME IInv, LedgerTypeOK, InterruptNext
  PROVE  Preserved
<1>1. /\ UNCHANGED <<session, phase, episodes, console, consoleExact>>
      /\ phase = "joined" /\ loop'.routine = "interrupting"
  BY DEF InterruptNext, IInv, VolatileTypeOK
<1>2. \A q \in RunIds : status'[q] = status[q] \/ (status[q] \in LiveStatuses
      /\ status'[q] = "interrupted")
  <2>1. PICK r \in ToInterrupt : TransitionRun(r, "interrupted") \/ UNCHANGED durable
    BY DEF InterruptNext
  <2>2. r \in RunIds /\ status[r] \in Statuses
    BY <2>1 DEF ToInterrupt, Live, LedgerTypeOK
  <2>3. TransitionRun(r, "interrupted") => status[r] \in LiveStatuses
    BY <2>2 DEF TransitionRun, RunTransitions, Statuses, LiveStatuses, TerminalStatuses
  <2>4. QED
    BY <2>1, <2>2, <2>3 DEF TransitionRun, durable, ledgerVars, LedgerTypeOK
<1>3. VolatileTypeOK'
  BY <1>1 DEF IInv, VolatileTypeOK
<1>4. ASSUME NEW q \in RunIds PROVE SoundAt(q)' /\ StepSound(q)
  <2>1. SoundAt(q) /\ ctx'[q] = ctx[q] /\ ctx[q].grant.steps \in Nat
    BY <1>1, ContextsTyped DEF IInv, VolatileTypeOK, ctx
  <2>2. ContextMatches(q)'
    BY <1>1, <1>2, <2>1 DEF SoundAt, ContextMatches, Phase
  <2>3. ContextSound(ctx[q])' /\ ViewsMatch(q)' /\ HeldForFinish(q)'
    BY <1>1, <2>1 DEF SoundAt, ContextSound, ViewsMatch, HeldForFinish, Phase
  <2>4. StepSound(q)
    BY <1>1, <1>2, <2>1 DEF StepSound
  <2>5. QED
    BY <2>2, <2>3, <2>4 DEF SoundAt
<1>5. QED
  BY <1>3, <1>4 DEF Preserved, IInv

\* The session a process starts with.
LEMMA EmptySessionSound ==
  /\ EmptySession \in Sessions
  /\ EmptySession.goal = None /\ EmptySession.foreground = None
  /\ \A q \in RunIds : EmptySession.ctx[q] = NoContext
BY NullContexts DEF EmptySession, Sessions

\* A process that is gone has no contexts.
ProcessGone ==
  /\ session = EmptySession /\ episodes = {} /\ console = ConsoleIdle /\ consoleExact = None
  /\ loop = Idle /\ phase = "down"

\* A process that is gone satisfies the invariant.
LEMMA NothingLeft == ProcessGone => IInv
<1> SUFFICES ASSUME ProcessGone PROVE IInv
  OBVIOUS
<1> USE DEF ProcessGone
<1>1. VolatileTypeOK
  <2>1. IsFiniteSet({}) /\ Cardinality({}) = 0
    BY FS_EmptySet
  <2>2. QED
    BY <2>1, EmptySessionSound, MaxWorkAssumption DEF VolatileTypeOK, ConsoleIdle, Idle
<1>2. ASSUME NEW q \in RunIds PROVE SoundAt(q)
  <2>1. ctx[q] = NoContext /\ session.goal # q /\ session.foreground # q
    BY EmptySessionSound, NoneAssumption DEF ctx
  <2>2. QED
    BY <2>1, NoContextFields DEF SoundAt, ContextSound, ViewsMatch, ContextMatches, HeldForFinish,
       Phase, ConsoleIdle, EndedTask
<1>3. QED
  BY <1>1, <1>2 DEF IInv

\* The same after a step.
LEMMA NothingLeftBehind == ProcessGone' => IInv'
BY NothingLeft, PTL

\* A crash, and the end of stop(), only forget.
LEMMA DownPreserves ==
  ASSUME IInv, Crash \/ FinishStop
  PROVE  Preserved
<1>1. VolatileLost /\ phase' = "down" /\ UNCHANGED status
  BY DEF Crash, FinishStop, durable, ledgerVars
<1>2. IInv'
  BY <1>1, NothingLeftBehind DEF VolatileLost, ProcessGone
<1>3. ASSUME NEW q \in RunIds PROVE StepSound(q)
  <2>1. ctx'[q] = NoContext
    BY <1>1, EmptySessionSound DEF VolatileLost, ctx
  <2>2. ctx[q].grant.steps \in Nat
    BY ContextsTyped DEF IInv, VolatileTypeOK, ctx
  <2>3. QED
    BY <1>1, <2>1, <2>2, NoContextFields DEF StepSound
<1>4. QED
  BY <1>2, <1>3 DEF Preserved

\* start() finds no contexts, and interrupts every live row.
LEMMA RestartPreserves ==
  ASSUME IInv, Restart
  PROVE  Preserved
<1>1. /\ phase = "down" /\ phase' = "running"
      /\ UNCHANGED <<session, loop, episodes, console, consoleExact>>
      /\ \A q \in RunIds : status'[q] # "running" /\ status'[q] \in {status[q], "interrupted"}
  BY DEF Restart, InterruptNonterminalRuns, volatile, LiveStatuses
<1>2. VolatileTypeOK'
  BY <1>1 DEF IInv, VolatileTypeOK
<1>3. ASSUME NEW q \in RunIds PROVE SoundAt(q)' /\ StepSound(q)
  <2>1. SoundAt(q) /\ ctx'[q] = ctx[q] /\ ctx[q].grant.steps \in Nat
    BY <1>1, ContextsTyped DEF IInv, VolatileTypeOK, ctx
  <2>2. ctx[q].exec = "none" /\ ~ctx[q].bound /\ ctx[q].task = "none"
    BY <1>1, <2>1 DEF SoundAt, ContextMatches, ContextSound
  <2>3. ContextMatches(q)'
    BY <1>1, <2>1, <2>2 DEF SoundAt, ContextMatches, Phase
  <2>4. ContextSound(ctx[q])' /\ ViewsMatch(q)' /\ HeldForFinish(q)'
    BY <1>1, <2>1 DEF SoundAt, ContextSound, ViewsMatch, HeldForFinish, Phase
  <2>5. StepSound(q)
    BY <1>1, <2>1, <2>2 DEF StepSound, EndedTask
  <2>6. QED
    BY <2>3, <2>4, <2>5 DEF SoundAt
<1>4. QED
  BY <1>2, <1>3 DEF Preserved, IInv

\* _start_job_occurrence begins with the row that create_run has just made.
LEMMA PendingStep ==
  ASSUME LedgerTypeOK, VolatileTypeOK, StartsPending, [Next]_vars
  PROVE  StartsPending'
<1>1. ASSUME UNCHANGED <<loop, status>> \/ loop'.routine # "starting" PROVE StartsPending'
  BY <1>1 DEF StartsPending
<1>2. CASE Control
  <2>1. ASSUME NEW j \in Jobs, NEW r \in RunIds, StartJobRun(j, r) \/ ActivateJob(j, r)
        PROVE  StartsPending'
    <3>1. loop'.run = r /\ status' = [status EXCEPT ![r] = "pending"]
      BY <2>1 DEF StartJobRun, ActivateJob, BeginOccurrence, CreateRun
    <3>2. QED
      BY <3>1 DEF LedgerTypeOK, StartsPending
  <2>2. ASSUME NEW j \in Jobs, NEW b \in BOOLEAN, ConfigureJob(j, b) PROVE StartsPending'
    BY <1>1, <2>2 DEF ConfigureJob, SetJobEnabled, volatile
  <2>3. ASSUME NEW r \in RunIds, NEW v \in OperatorVerdicts, FinishRun(r, v) PROVE StartsPending'
    <3>1. loop.routine # "starting" /\ UNCHANGED loop
      BY <2>3 DEF FinishRun, Running, LoopIdle, Idle
    <3>2. QED
      BY <1>1, <3>1
  <2>5. CASE SetGoal \/ ClearGoal \/ WorkCurrent \/ Pause \/ Resume
    BY <1>1, <2>5 DEF SetGoal, ClearGoal, WorkCurrent, Pause, Resume, durable, ledgerVars
  <2>6. ASSUME NEW r \in RunIds, WorkRun(r) PROVE StartsPending'
    BY <1>1, <2>6 DEF WorkRun, durable, ledgerVars
  <2>7. ASSUME NEW r \in RunIds, NEW v \in OperatorVerdicts, FinishWorkingRun(r, v)
        PROVE StartsPending'
    BY <1>1, <2>7 DEF FinishWorkingRun, durable, ledgerVars
  <2>8. QED
    BY <1>2, <2>1, <2>2, <2>3, <2>5, <2>6, <2>7 DEF Control
<1>3. CASE Attention
  BY <1>1, <1>3 DEF Attention, OperatorBegins, OperatorEnds, InitiativeBegins, InitiativeEnds,
     durable, ledgerVars
<1>4. CASE Starting
  BY <1>1, <1>4 DEF Starting, StartOccurrence, StartFails, Idle
<1>5. CASE Offering
  <2>1. UNCHANGED status /\ (UNCHANGED loop \/ loop'.routine # "starting")
    <3>1. CASE OfferNext
      <4>1. loop'.routine = "offering" /\ UNCHANGED status
        BY <3>1 DEF OfferNext, durable, ledgerVars
      <4>2. QED
        BY <4>1
    <3>2. CASE OfferFails
      <4>1. loop'.routine = "offering" /\ UNCHANGED status
        BY <3>2 DEF OfferFails, durable, ledgerVars
      <4>2. QED
        BY <4>1
    <3>3. CASE BeginOffers \/ EndOffers \/ EventOccurs \/ \E r \in RunIds : DelayElapses(r)
      BY <3>3 DEF BeginOffers, EndOffers, EventOccurs, DelayElapses, durable, ledgerVars, Idle
    <3>4. QED
      BY <1>5, <3>1, <3>2, <3>3 DEF Offering
  <2>2. QED
    BY <1>1, <2>1
<1>6. CASE FinisherResumes \/ \E r \in RunIds : WorkStep(r)
  <2>1. LoopIdle /\ UNCHANGED loop
    <3>1. ASSUME NEW r \in RunIds, WorkStep(r) PROVE LoopIdle /\ UNCHANGED loop
      BY <3>1 DEF WorkStep, BeginWork, DropCreatedWork, Propose, WorkEndsRun,
         WorkContinues, WorkFails, WorkCancelled, LeaveWork, EndsRun
    <3>2. QED
      BY <1>6, <3>1 DEF FinisherResumes
  <2>2. loop.routine # "starting"
    BY <2>1 DEF LoopIdle, Idle
  <2>3. QED
    BY <1>1, <2>1, <2>2
<1>7. CASE Restart
  <2>1. loop.routine # "starting" /\ UNCHANGED loop
    BY <1>7 DEF Restart, VolatileTypeOK, volatile
  <2>2. QED
    BY <1>1, <2>1
<1>8. CASE Crash \/ FinishStop
  BY <1>1, <1>8 DEF Crash, FinishStop, VolatileLost, Idle
<1>9. CASE BeginStop \/ CancelAllWork \/ JoinAllWork \/ BeginInterrupting
  BY <1>1, <1>9 DEF BeginStop, CancelAllWork, JoinAllWork, BeginInterrupting, durable, ledgerVars,
     volatile
<1>10. CASE InterruptNext
  <2>1. loop'.routine = "interrupting"
    BY <1>10 DEF InterruptNext
  <2>2. QED
    BY <1>1, <2>1
<1>11. CASE UNCHANGED vars
  BY <1>1, <1>11 DEF vars, volatile, ledgerVars
<1>12. QED
  BY <1>2, <1>3, <1>4, <1>5, <1>6, <1>7, <1>8, <1>9, <1>10, <1>11 DEF Next, Stopping

\* Every step keeps the invariant and does to each occurrence only what it may.
LEMMA NextPreserves ==
  ASSUME IInv, LedgerTypeOK, StartsARow, StartsPending, [Next]_vars
  PROVE  Preserved
<1>1. CASE Control
  <2>1. ASSUME NEW r \in RunIds, NEW v \in OperatorVerdicts, FinishRun(r, v) \/ FinishWorkingRun(r, v)
        PROVE  Preserved
    BY <2>1, FinishRunPreserves, FinishWorkingPreserves
  <2>2. ASSUME NEW j \in Jobs, NEW r \in RunIds, StartJobRun(j, r) \/ ActivateJob(j, r)
        PROVE  Preserved
    BY <2>2, CreationPreserves
  <2>3. QED
    BY <1>1, <2>1, <2>2, ConfigurePreserves, GoalPreserves, WorkRunPreserves, WorkCurrentPreserves,
       PausePreserves, ResumePreserves DEF Control
<1>2. CASE Starting
  <2>1. CASE StartOccurrence
    <3>1. PICK r \in RunIds : r = loop.run
      BY <2>1 DEF StartOccurrence, StartsARow
    <3>2. QED
      BY <2>1, <3>1, StartPreserves
  <2>2. QED
    BY <1>2, <2>1, StartFailsPreserves DEF Starting
<1>3. CASE Offering
  BY <1>3, OfferPreserves, OfferingQuietly, DuePreserves DEF Offering
<1>4. ASSUME NEW r \in RunIds, WorkStep(r) PROVE Preserved
  BY <1>4, BeginWorkPreserves, DropPreserves, ProposePreserves, EndsPreserves, ContinuesPreserves,
     FailsPreserves, CancelledPreserves DEF WorkStep
<1>5. CASE Stopping
  BY <1>5, StopBeginsPreserves, JoinPreserves, InterruptPreserves, DownPreserves DEF Stopping
<1>6. CASE UNCHANGED vars
  <2>1. UNCHANGED <<session, phase, episodes, status, console, consoleExact, loop>>
    BY <1>6 DEF vars, volatile, ledgerVars
  <2>2. VolatileTypeOK'
    BY <2>1 DEF IInv, VolatileTypeOK
  <2>3. QED
    BY <2>1, <2>2, QuietSession
<1>7. QED
  BY <1>1, <1>2, <1>3, <1>4, <1>5, <1>6, AttentionPreserves, FinisherPreserves,
     RestartPreserves, DownPreserves DEF Next

\* The inductive invariant of Spec.
Inductive == IInv /\ LedgerTypeOK /\ StartsARow /\ StartsPending

\* In every reachable state of RobotApplication's Job state (contexts, views, ledger rows,
\* attention episodes and the waiting console) these agree.
THEOREM ContextsAlwaysSound == Spec => []Inductive
<1>1. Init => Inductive
  <2>1. Init => IInv
    BY NothingLeft DEF Init, ProcessGone
  <2>2. Init => LedgerTypeOK /\ StartsARow
    BY JobsAssumption DEF Init, LedgerInit, LedgerTypeOK, Statuses, StartsARow, Idle
  <2>3. Init => StartsPending
    BY DEF Init, StartsPending, Idle
  <2>4. QED
    BY <2>1, <2>2, <2>3 DEF Inductive
<1>2. Inductive /\ [Next]_vars => Inductive'
  <2>1. ASSUME Inductive, [Next]_vars PROVE Inductive'
    <3>1. LedgerTypeOK' /\ StartsARow'
      BY <2>1, NextImplements, LedgerTypeStep DEF Implemented, Inductive
    <3>2. IInv'
      BY <2>1, NextPreserves DEF Preserved, Inductive
    <3>3. StartsPending'
      BY <2>1, PendingStep DEF IInv, Inductive
    <3>4. QED
      BY <3>1, <3>2, <3>3 DEF Inductive
  <2>2. QED
    BY <2>1
<1>3. QED
  BY <1>1, <1>2, PTL DEF Spec

\* For any catalog and any number of slots: a row that the ledger calls running has a context that
\* can still end it, a bound Task has such a row, and _active_goal names only a running Task.
THEOREM LiveRunsAlwaysOwned == Spec => []LiveRunsOwned
<1>1. Inductive => LiveRunsOwned
  BY DEF Inductive, IInv, SoundAt, ContextMatches, ViewsMatch, LiveRunsOwned, Running
<1>2. QED
  BY <1>1, ContextsAlwaysSound, PTL

\* Work that may still run holds its attention episode, and there are never more of those than
\* jobs_max_concurrent_work (_try_start_job_work_episode).
THEOREM WorkAlwaysHoldsAttention == Spec => []WorkHoldsAttention
<1>1. Inductive => WorkHoldsAttention
  BY DEF Inductive, IInv, SoundAt, ContextMatches, VolatileTypeOK, WorkHoldsAttention
<1>2. QED
  BY <1>1, ContextsAlwaysSound, PTL

\* A parked occurrence is paused, bound and without work, and neither the foreground nor the goal
\* leads to it (_park_job_context and everything that may happen before it is restored).
THEOREM ParkedAlwaysAtRest == Spec => []ParkedAtRest
<1>1. ASSUME Inductive PROVE ParkedAtRest
  <2>1. ASSUME NEW r \in ParkedRuns(session)
        PROVE  /\ ctx[r].task = "paused" /\ ctx[r].bound /\ Phase(r) = "none"
               /\ r \notin {session.foreground, session.goal}
    <3>1. r \in RunIds /\ ctx[r].exec = "parked" /\ SoundAt(r)
      BY <1>1 DEF ParkedRuns, Inductive, IInv, ctx
    <3>2. ctx[r].task = "paused" /\ ctx[r].bound /\ Phase(r) = "none"
      BY <3>1 DEF SoundAt, ContextSound, Phase
    <3>3. r # session.foreground /\ r # session.goal
      BY <3>1, <3>2 DEF SoundAt, ViewsMatch
    <3>4. QED
      BY <3>2, <3>3
  <2>2. QED
    BY <2>1 DEF ParkedAtRest
<1>2. QED
  BY <1>1, ContextsAlwaysSound, PTL

\* The operator's verdict is not overtaken by what the work had staged, and a Task that ended before
\* its result could be written is recorded as that or as interrupted (_finish_job_run_context).
THEOREM EndingsAlwaysKept == Spec => EndingsKept
<1>1. ASSUME Inductive, [Next]_vars PROVE VerdictNotOvertaken /\ EndingsAgree
  <2>1. \A r \in RunIds : StepSound(r)
    BY <1>1, NextPreserves DEF Inductive, Preserved
  <2>2. VerdictNotOvertaken
    <3>1. console.doing = "finishing" => console.run \in RunIds
      BY <1>1 DEF Inductive, IInv, VolatileTypeOK
    <3>2. QED
      BY <2>1, <3>1 DEF StepSound, VerdictNotOvertaken
  <2>3. EndingsAgree
    BY <2>1 DEF StepSound, EndingsAgree
  <2>4. QED
    BY <2>2, <2>3
<1>2. Inductive /\ [Next]_vars => [VerdictNotOvertaken /\ EndingsAgree]_vars
  BY <1>1
<1>3. QED
  BY <1>2, ContextsAlwaysSound, PTL DEF Spec, EndingsKept

\* Automatic work never widens its own budget, and a parked occurrence is restored only while its
\* Job is enabled and its Run is running (_arm_job_continuation, _restore_parked_job_run).
THEOREM AutomaticWorkAlwaysAuthorized == Spec => AutomaticWorkAuthorized
<1>1. ASSUME Inductive, [Next]_vars PROVE BudgetNotSelfGranted /\ RestoredWithAuthority
  <2>1. \A r \in RunIds : StepSound(r)
    BY <1>1, NextPreserves DEF Inductive, Preserved
  <2>2. QED
    BY <2>1 DEF StepSound, BudgetNotSelfGranted, RestoredWithAuthority
<1>2. Inductive /\ [Next]_vars => [BudgetNotSelfGranted /\ RestoredWithAuthority]_vars
  BY <1>1
<1>3. QED
  BY <1>2, ContextsAlwaysSound, PTL DEF Spec, AutomaticWorkAuthorized
=============================================================================
