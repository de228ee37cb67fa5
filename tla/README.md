# Verification of embodied-runtime

TLA+ models of the concurrent core of `embodied_runtime/` (a Python asyncio
runtime for an embodied agent), the TLC configurations that check them on small
instances, and TLAPS proofs of the properties that matter most for every
instance. Paths below are relative to `src/embodied_runtime/` unless they begin
with `docs/`.

1. [The system](#1-the-system): its parts, their state and how they interact
2. [The modules](#2-the-modules) and how they correspond to the code
3. [The runs](#3-the-runs): what is checked, the bounds, the fairness
4. [The proofs](#4-the-proofs)
5. [Where code and documentation disagree](#5-where-code-and-documentation-disagree)
6. [What is not modelled](#6-what-is-not-modelled)
7. [Plan](#7-plan)

## 1. The system

One process, one asyncio loop. `RobotApplication` (`app.py`) owns everything:
it creates the stores, the services and the controllers, carries the active goal,
and implements every operation a console, a model's tool call or a service asks for.
Code between two `await`s that really suspend is atomic; all the difficulty is in
what may have changed at a suspension, and in what a crash leaves in SQLite.

### Components

| component | state | operations | what makes it correct |
|---|---|---|---|
| Attention episode coordinator (`attention.py`) | operator lane, autonomous lane (general or Job episodes), waiting operators, a condition | `start_operator`, `try_start`, `try_start_job`, `close`, `_notify_idle` | lanes exclude each other, capacity is kept, operators first, no lost wakeup, a late close ends nothing |
| Job ledger (`jobs/sqlite_store.py`, `jobs/model.py`) | catalog row with its enabled flag; `job_runs` rows | create, enable, `create_run`, `transition_run`, reconcile at start | one live Run per Job; a recorded result is final |
| Job execution (`app.py`, `jobs/execution.py`, `jobs/continuation.py`, `jobs/progress.py`) | `JobExecutionContext`s, their "foreground" and "parked" views, one goal, ContextVar, work tasks, console | start, activate, offer, work, park, restore, finish, stop, pause, restart, shutdown | ledger and contexts agree; work holds attention; a verdict is not overtaken; budgets are not self-granted |
| Schedules and triggers (`jobs/scheduling.py`, `jobs/state_tending.py`, `app.py` 1764–2041, 2165–2252) | schedules and their markers, subscriptions, pending activations | configure, sample, handle an event, poll, admit | nothing owed is forgotten, nothing over begins, nothing begins without its slot, no hourly instant is used twice |
| Job procedures and focus (`jobs/procedure.py`, `jobs/focus.py`, `sqlite_store.py`) | the Job's definition, focus, active and pending procedure; a Run's evidence and Findings | edit, nominate, review, capture, tell, publish, end | a Run is told only what was reviewed for this definition; what it teaches comes with its outcome; readers see final things |
| Job workspace (`jobs/workspace.py`, `jobs/images.py`) | a directory tree, temporaries, what a power loss may leave of it | write (create, replace, append, upsert), read, list, keep, deliver | results are true, nothing unseen is overwritten, durable is durable, an answer is one version |
| Temporal follow-up and goal attention (`temporal.py`, `attention.py`) | one follow-up slot and its timer, due handoff, the initiative episode | schedule, cancel, claim, observe, release, episode stages | due once, for its own goal, never stranded |
| Operator interaction (`app.py`, `interaction.py`) | a turn with at most three decisions | request, tools, deliver, finish | no stale decision acts; attention is always left |
| Event bus (`events/`) | bounded subscription queues, delivery workers, publishers that wait | publish, subscribe, close, stop | each event once and in order to an open subscription, none after close, nobody waits for a closed queue |
| Resource arbiter and Tasks (`resources.py`, `tasks.py`) | leases by owner, task status | acquire, release, finish | leases end with their owner |
| SMS service (`sms.py`, `conversation_media.py`, `conversation_history/continuity.py`) | inbox, dedupe memory, one worker, ingestion rows, delivery evidence, staged images | webhook, ingest, claim, reply, deliver, reap, stop | a message reaches cognition once; evidence is true; a submitted image can be fetched |
| Voice service (`voice.py`, `earcons.py`) | wake listener, session, capture threads, leases of microphone and speaker | wake, start, listen, speak, cue, stop | a thread listens only under its lease; the listener comes back; `stop()` ends and leaves silence |
| Process (`cli.py`, `startup.py`, `config.py`, `app.py` `start`, `stop`) | what has been composed and started | compose, start, undo, serve, stop, signal | all that came up goes down, users before what they use, and it ends |
| Platform and power monitors (`platform/monitor.py`, `power.py`) | condition per source with hysteresis | sample, baseline | an event for each change |
| Memory and working memory | admitted memories | admit, retrieve | one admission per turn |
| Conversation history and media | messages, bounded media | append, retain | retention bound |
| Camera, perception, body, reflexes, hardware | device state | device calls | — |
| Cognition providers | none | one request | — |
| Observability and run history | counters | record | — |
| Console and terminal | none | text commands | — |
| Benchmarks | none | — | — |

### Interactions

- **Attention is the shared resource.** Operator turns, general initiative and Job
  work each claim an episode and close it in a `finally`. Whoever leaves attention
  last must call `release_temporal_due`, because a due follow-up that met a busy
  coordinator sits in the only slot until somebody offers it again.
- **The goal is shared too.** `_active_goal` belongs to nobody, to the standalone
  operator or to one Job context. Losing it cancels the follow-up.
- **Jobs live twice**: as a row that survives and as a context that does not.
  `start`, `finish` and `transition_run` touch both, in an order that a failing write,
  a cancellation or a crash can cut anywhere.
- **Events** of the temporal controller and the monitors go through the bus, so they
  arrive after the state they announce may have changed.
- **Authority travels in a ContextVar**: every view (`_parked_job_run`,
  `_current_task_binding`, …) first looks at the occurrence of the running asyncio task
  and may fall back to "the only one".
- **Threads and other processes.** Recognisers, provider calls and downloads run in
  threads that a cancelled coroutine leaves behind; files in a workspace are edited by
  anybody; Twilio repeats itself.

### Hard behaviours

`PROJECT.json` lists the hazards, each at its line and with the properties that would
catch it. They fall into these groups: claims of attention that race an operator; lost
wakeups; two admissions of one Job; a crash between a row and its Task; a refused
write after the Task has ended; a report staged before an `await` and committed after
a verdict; a parked occurrence resumed with stale authority; a task cancelled before
its first step; a due follow-up that nobody offers again; a decision for a goal that was
replaced; an event for a subscription that is being closed; an activation put off past
its condition; a clock set back; a webhook repeated across a crash; a submission whose
thread is abandoned; a capture that does not hear its stop; a write cut short by a
failure, a kill or a power loss; a file replaced between two chunks of its read; a
procedure reviewed for another definition; a start or a stop that fails half way.

## 2. The modules

```
AttentionEpisodes ── AttentionEpisodes_proofs        lanes of attention
JobLedger                                            durable rows
   └ JobContexts                                     volatile contexts, views
        └ JobExecution ── JobExecution_proofs        everything that acts on Jobs;
                                                     implements JobLedger
JobOccupancy                                         which Jobs may run and which do:
                                                     JobLedger and JobAdmission implement it
JobAdmission ─────── JobAdmission_proofs             triggers, conditions, schedules
JobKnowledge ─────── JobKnowledge_proofs             focus, procedures, Findings
JobWorkspace                                         writes and what survives
   └ WorkspaceReading ── JobWorkspace_proofs         reads, implements JobWorkspace
GoalAttention ────── GoalAttention_proofs            goal, follow-up, initiative, turns
EventBus ─────────── EventBus_proofs                 implements EventDelivery
SmsService, VoiceService ──┐                         transports
Lifecycle ─────────────────┴ Services_proofs         compose, start, serve, stop
MC*                                                  instances for TLC
```

VoiceService and Lifecycle call their specifications `VoiceSpec` and `ProcessSpec`,
because Services_proofs reasons about them and SmsService in one module.

`PROJECT.json`'s `map` names, for every definition, the lines it translates.

**An action is the code between two suspensions of the asyncio loop.** Where a
routine makes two durable steps without suspending, a crash can still fall between
them; such routines are split, and the variable `loop` is not idle while one is in
progress, so that nothing else in the process interleaves with it.

### AttentionEpisodes

`AttentionEpisodeCoordinator` in full. Variables are its fields (`operatorEpisode`,
`generalEpisode`, `jobEpisodes`, `nextId`, `waiting`), the condition's woken waiters and
created notification tasks (`woken`, `notifications`), and what each caller holds
(`handle`, `inEpisode`). A caller keeps its stale handle after it closed it, so that a
late or repeated `close` is a step of the model. `CancelWait` is the cancellation of a
waiting task at any point; what it does to the condition follows `asyncio.Condition`.
`Resume` may find the lane taken by a request that never waited: nothing keeps the order
of arrival. `EpisodeOwned` is about `close`: of any handle, late or repeated, it ends no
episode but its own and leaves none behind.

### JobLedger

The store's transactions on the catalog's enabled flag and on `job_runs`:
`SetJobEnabled`, `CreateRun` (with the check for a live occurrence in the same
transaction), `TransitionRun` (with its table of legal transitions) and
`InterruptNonterminalRuns`, the reconciliation at start. It is both a component and the
**abstract specification** of Job execution: `LedgerSpec` says what the next process
may rely on whatever this one does.

JobOccupancy is what is left of it for somebody who asks only which Jobs may run
(`admitted`) and which do (`occupied`). JobAdmission sees the store that way, in `enabled`
and `live`; no run checks it, both refinements are proved.

### JobContexts and JobExecution

`session` is the record of what the synchronous routines of `app.py` assign: the
contexts, the foreground and parked ids, the goal's owner. Handlers that call several of
them are compositions of operators on this record. A context's `grant` is its
continuation authority, `work` the asyncio task recorded in `active_work_task`; its
`fresh` flag stands for the identity comparison of bindings, and its phase "gone" for a
task that is done although the context still records it. The ContextVar is the
parameter `e` of every view.

| actions | code |
|---|---|
| `StartJobRun`, `ActivateJob`, `StartOccurrence`, `StartFails` | `start_job_run`, `_activate_triggered_job`, `_start_job_occurrence` with its rollback |
| `BeginOffers`, `OfferNext`, `OfferFails`, `EndOffers`, `DelayElapses`, `EventOccurs` | a round of `_offer_job_continuation`, its exact offers (`_offer_exact_job_continuation`), readiness by clock and event |
| `WorkRun`, `WorkCurrent`, `BeginWork`, `Propose`, `WorkEndsRun`, `WorkContinues`, `WorkFails`, `WorkCancelled`, `DropCreatedWork` | work asked for by Run, by console, or automatic; its end in each `except` and `finally` |
| `FinishRun`, `FinishWorkingRun`, `FinisherResumes` | `finish_job_run` and `finish_job_run_by_id`, at rest, and cancelling work first |
| `Pause`, `Resume`, `SetGoal`, `ClearGoal` | Task API and goal tools as far as Jobs notice them |
| `Crash`, `Restart` | loss of `session`; reconciliation of live rows |
| `BeginStop` … `FinishStop` | the stages of `stop()` that concern Jobs |

Every durable write may be refused (a locked or failing database): the model has the
error path beside the success path. `CancelledStep` is the step a cancelled task
gets; a task cancelled before its first step gets `DropCreatedWork`, in which none of its
`finally` clauses run.

### GoalAttention

`GoalAttentionController`, `TemporalFollowupController` and the initiative episode
(`_run_initiative_episode` and its tools), with what takes goal or attention away:
operator turns, Job work, the console, a Task. Goals are numbered objects compared by
identity. The claim of a due follow-up and the acceptance of its episode are one step
(`ClaimAndDeliver`), because nothing suspends between them; a provider request is a
suspension, so what an episode or turn decides on (`episode.goal`, `turn.grounded`) is
what was shown to the model *before* it. Job work appears only as the attention it
holds. One Task at a time holds the goal; several are the subject of JobExecution.

### JobAdmission

Why an occurrence begins by itself. `Sample` and `PowerReadFails` are the monitors,
`HandleRaised`, `HandleCleared` and `SignalReady` the event handlers, `BeginPoll` to
`EndPoll` one round of `_offer_job_activations` and `_offer_scheduled_job`, `Disable` to
`RemoveSchedule` the console, `Leave` and `Start` a crash or stop and the next process.
`Outcome` is the chain of tests of `_activate_triggered_job`; `pending` is
`_pending_job_triggers`; handlers and polls never suspend, so `loop` is not idle
while one is under way, and only a kill comes between its steps. The history variable `owed` is a
subscription whose condition has become active and which has not been served. Time is a
number that anybody may set; `Hour` and `Day` are its units. What an occurrence does
once it has begun is JobExecution's; here it is a row, a context and a work slot.

The next sample of a condition comes when both its event queues are empty: monitors
sample seconds apart. A condition that no trigger of the catalog names is not sampled.
If `list_triggers` fails in a handler, the event is lost with what is owed to it.

### JobKnowledge

One Job and its Runs. `EditDefinition`, `SetCarryForward`, `SetProcedureEnabled`,
`ShowProcedure`, `ReviewProcedure`, `SeedProcedure` and `AdministerFocus` are the
console; `StartOccurrence` captures focus and procedure. `Composed` is what instructions
composed at this moment say of them, revalidated as `_validate_job_focus_policy` and
`_validate_job_procedure_policy` do; `told` is what the last request really carried, and
`under` what the Job was when it was sent. An episode goes through stages: requests of the
work compose anew each time (`Compose`), and so does the first request of the outcome
evaluation (`BeginEvaluation`), which stands for itself: the answer to the call that
reports the outcome (`Answer`) repeats its instructions as they were, unless the occurrence
has a procedure snapshot (`app.py:3630-3632`). The provider allows one call an evaluation.
`Propose` checks what the model reports with its outcome, `EndEpisode` and
`FinishJobRun` commit it in `transition_run`'s transaction, which may roll back. The
history variables record what the operator was shown, what was activated and under
which definition, and which versions a Run was given. A kill and the restart after it
are one action.

### JobWorkspace and WorkspaceReading

`disk` is what the process sees of one Job's workspace, `after` the set of states a power
loss may leave for each entry, `op` the write under way. `OpenJob`, `SyncJob`, `Walk`,
`SyncDir`, `Read`, `Fill`, `Revalidate`, `Publish`, `Sync` are the system calls of
`_write`, in their order, each of which may fail (`Fail`); `Edit` is somebody else
replacing, rewriting in place, or removing the file between any two; `Kill` and
`PowerLoss` come anywhere. A version of a file is the write that stored it and the edit
that has changed it since, so a mixture of two versions, or a size without its text, can be
told from either.

WorkspaceReading EXTENDS it: an episode (an operator's or a Job's) opens, reads in
two chunks, checks the file again, keeps images and reports, has them interpreted
while other episodes write, and delivers them. Store calls never await, so they interleave
only with edits. It implements JobWorkspace: `ReadingSpec => Spec`.

### EventBus and EventDelivery

`EventDelivery` is the promise: an open subscription is owed each published event,
accepts it at most once into a bounded buffer, handles one at a time and in the order of
acceptance; an event is withdrawn only if the subscription closed or the publisher was
cancelled. `EventBus` has the machinery: enqueue tasks with the stages of
`asyncio.Queue.put` (`putters`, woken, overtaken), workers, `close()` by an owner or by
`stop()`, cancellation of a publisher and of a closing task. The worker is joined by the one
who closed the subscription (`joiner`); a second `close()` or `stop()` returns at once and is
no step. `ClosedMeansJoined` is about the first: it is back, cancelled or not, only when the
worker has ended, and a `stop()` that has returned leaves running only cancelled handlers
that their owner still joins.

### SmsService

The webhook with its bounded inbox and dedupe memory, the worker message by message
(attachments downloaded one by one, ingestion row or its refusal, claim, cognition, reply), what the
runtime submits (replies, notices, images) in threads that outlive their coroutine, and the
evidence recorded of them; `StopEnds` and `Crash` lose what is in memory. Any access to the
store may fail. `load` chooses at the beginning which messages and submissions meet.

### VoiceService

The wake listener (`wake`), the session (`session`), the thread behind either capture
(`capture`, with the moment at which it checks for a stop and the moment at which it records kept apart),
`start()`, earcons, `stop()` with its two-second join. `missed` marks a vendor stop
that came between the check and the recording.

### Lifecycle

`Program` lists the steps of `_run_application` (the last is the application's constructor,
which may raise with every store open), `start()`, its undoing, and `stop()` in
their order (one on the way up that fails starts the unwinding, `LeftBehind` is what the
unwinding forgets); any may fail (`MaxFailures` of those that take down), and the signal arrives at any
`await`. `Activities` are what comes and goes while the application runs: an operator's
turn, Job work, follow-ups, earcons.

### Abstractions worth knowing

- The model's choice of tools, the operator, the provider, the clock and other
  processes on the same database are nondeterministic.
- Continuations and goal closure are taken as enabled; with an option off, the
  corresponding actions do not occur.
- The execution of a tool and the check before it are one step where no suspension
  separates them. `release_temporal_due` inside `_finish_job_work_episode` does not
  suspend.
- A provider adapter that swallows `CancelledError` is not modelled.
- Which occurrence a schedule or a trigger activates is a free choice of JobExecution;
  JobAdmission has the reasons.

## 3. The runs

| run | instance | distinct states | shows |
|---|---|---|---|
| AttentionEpisodes | 2 operators, 3 autonomous tasks, 2 Job episodes, 5 episodes | 54,729 | no admission breaks the lanes or overtakes an operator, no late close ends another's episode, no wakeup is lost |
| JobOneSlot | 2 Jobs, 2 Runs, one slot; goals, initiative, triggers, Task API; verdicts stopped and completed; proposals ready and completed | 926,175 | ledger and session agree after every refused write, cancellation, crash, shutdown; execution implements `LedgerSpec`; a verdict is not overtaken |
| JobTwoSlots | two slots; triggers, catalog; proposal event | 1,091,669 | occurrences beside each other: work holds attention, parked ones are at rest, automatic work is authorised afresh |
| JobLiveness | one slot, triggers, `FairSpec`, no symmetry | 50,648 | whoever stops a working occurrence gets an answer; `stop()` ends |
| GoalAttention | 2 operators, 2 workers, 2 purposes, 2 goals, 2 follow-ups, 1 release | 3.35 M | the follow-up is delivered once and for its goal, and offered again; no stale decision acts |
| EventBus | 2 subscriptions, 2 publishers of 2 and 1 events, queues of one, `FairSpec` | 304,996 | the bus implements `EventDelivery`; whoever closed a subscription returns when its worker has ended; nobody keeps waiting for its queue |
| JobAdmission | 2 Jobs; power and thermal, or power and readiness, or schedules of both cadences; 7 ticks, days of two hours | 2.45 M | what is owed stays pending, what is over never begins, nothing begins without its slot, an hourly instant is used once |
| SmsService | a text, a message with 2 attachments, 2 images, a notice; inbox of one, one staged image; 4 webhooks | 794 k | a message reaches cognition once, evidence is true, images can be fetched, an accepted message is taken |
| VoiceService | two turns a session | 5,195 | threads listen only under their lease; the listener comes back; `stop()` ends in silence |
| JobWorkspace | 2 artifacts, one nested; text of 2 bytes at most, 1 a request; 2 writes, an edit, a power loss, a read | 1,581,279 | the store's three promises, and that an answer is one version |
| JobKnowledge | 2 definitions, 2 Runs, 2 procedure versions | 2.43 M | what a Run is told fits the Job when it is sent (one stale focus excepted), knowledge comes with its outcome, what was shown stays |
| Lifecycle | console and headless, 2 failing stops | 570 k | everything comes down in an order nothing suffers from, and the process ends |

Two properties carry two or three parts under one name, because the parts are
one question: `EndingsKept` (verdicts are not overtaken, endings of row and Task agree),
`AutomaticWorkAuthorized` (budgets, fresh authority).

**Why these bounds are enough.** A hazard here needs at most two of a kind: an
occurrence and its sibling, an operator and the next one, a goal and the one that
replaced it, a write and the edit under it. A second Run id lets a Job run again after
its first Run ended, or lets two Jobs run at once. `MaxSteps = 1` has a grant, its last
step and none left. `MaxWork` 1 and 2 are the two regimes of the coordinator (exclusion of
general initiative, and beside each other). `Parties`, `OperatorVerdicts` and
`ModelProposals` divide the environment between runs: each property runs with the parties
that can disturb it; JobTwoSlots was also checked once with ready beside event among
the proposals and without triggers (2,769,517 states). The third autonomous task of AttentionEpisodes
meets two full Job slots. `MaxEpisodes` and `MaxGoals` bound counters that only name
things. `MaxReleases = 1`: the loop runs a release task before a later episode can have
ended. Queues of one event make every second publish wait. The three catalogs of
JobAdmission and the three loads of SmsService take turns instead of multiplying: triggers
and schedules meet only in `Blocked` and `live`, both of which have other causes in each
catalog. Four webhooks are a message, its repetition, the other message and its
repetition; `DedupeSize` is at least the number of messages, so no entry of it is ever
evicted. Job symmetry (and that of operators and workers in
GoalAttention, of definitions in JobKnowledge) is sound because no property tells them
apart; Run ids are ordered, and liveness is run without symmetry.

**Deadlock** is checked in AttentionEpisodes, JobAdmission, SmsService and JobKnowledge. Elsewhere the cfg says
`CHECK_DEADLOCK FALSE`: the process may be stopped for good, or every row, goal or
follow-up, write or event of the instance may be used up.

**Fairness.** AttentionEpisodes assumes none and promises no end of an operator's wait: a
request that arrives between a close and the woken waiter's turn takes the lane
(`attention.py:167-175`), so arrivals without end could keep one waiting, and an
episode can be left open (section 5, 18). What is true, and checked, is that a free lane
never finds every waiter asleep (`WaitsForOperator`). JobExecution: weak fairness
for routines in progress and for the stages of `stop()`; strong fairness for
`FinisherResumes` and `CancelledStep`, because asyncio's ready queue is first in, first
out, so rounds of offers that come again and again (disabling the step while they run)
do not keep a ready task from its turn. Nothing is owed by the operator, the model, the
clock, or a provider whose call was not cancelled.

EventBus: an enqueue task whose queue is closed, a cancelled worker and whoever joins
it proceed; a handler owes nothing, so nothing is owed of what waits behind one.
SmsService: the worker's steps (downloads time out, provider calls and cognition
return). VoiceService: the loop and the threads run, playback, cognition and the
timeouts end; strong fairness for `WakeTurn`, because `Event.set` schedules the
listener before a command read later, and for `StopJoins`, which has a deadline of its
own. Lifecycle: every step but a provider's `prepare()` and the console's session.
The remaining runs check safety only.

GoalAttention states no liveness: observations and operators may take attention again and
again, and nothing in the code prevents it. `DueOfferedAgain` is the safety form: no
step leaves a due follow-up with attention idle and nothing under way to deliver it.
It excepts two ways that really do not offer it: a wait cancelled after its lane was
freed for it (`attention.py:175`; while the runtime runs, request tasks are cancelled
only at exit) and automatic Job work discarded because its occurrence changed
before its first step (`app.py:3146`). After the second, the due follow-up waits for the next
episode of any kind to end.

## 4. The proofs

Every safety property that a run checks, invariant, action property or refinement, is
also a theorem, checked by `tlapm` for every value of the constants that satisfies the
named assumptions: of AttentionEpisodes and JobExecution `CallersAssumption`
(operators and autonomous tasks are different tasks), `CapacityAssumption`,
`BoundAssumption`, `RunIdsAssumption` (row ids are positive), `JobsAssumption`,
`MaxWorkAssumption`, `MaxStepsAssumption`, `NoneAssumption` (sentinels are not ids), and
`PartiesAssumption`, `VerdictsAssumption`, `ProposalsAssumption` (the environment of
JobExecution is a part of the real one); of the others `JobsAssumption` (Job ids are
numbers, which the poll's order uses), `ClockAssumption`, `CatalogsAssumption` (a trigger
is on a known condition or on readiness; a schedule's minute lies within its day, as
`JobSchedule.__post_init__` requires), `FilesAssumption`, `LimitsAssumption`,
`ReadsAssumption`, `KnowledgeAssumption`, `PurposesAssumption`, `BoundsAssumption`,
`SubscriptionsAssumption`, `MaxEventsAssumption`, `NoEventAssumption`,
`SizesAssumption` (the dedupe cache is larger than the inbox, as `sms.py` has them),
`KindsAssumption` (messages, images and notices are different things),
`TurnsAssumption`, `LifecycleAssumption`. They hold of any configuration the code
accepts.

**AttentionEpisodes_proofs** — `TypeCorrect`, `LanesSafe`, `EpisodesOwned`,
`NoLostWakeup`, `OperatorsFirst`. The lanes and ownership are not inductive alone: a
caller outside an episode still keeps an old handle, and closing it must not match a live
one. `IInv` therefore adds that every id in use lies below `nextId`, that no two
callers, inside an episode or not, ever hold the same handle, and that a waiting
caller is not inside an episode. The
wakeup property is inductive over the type invariant by a separate step (`WakeupStep`).

**JobExecution_proofs** has three layers.

- The store: `LedgerTypeCorrect`, `OneLiveRun`, `ResultsImmutable`. The key lemma is that
  no legal transition leads back from a result, nor from running to accepted
  (`TransitionsStayDown`).
- The refinement: `ExecutionImplementsLedger`. The ledger's variables are execution's own,
  so the refinement mapping is the identity and every step must be a ledger step or
  leave the ledger alone. Its one strengthening is `StartsARow`: while the loop is inside
  "starting", the row it will transition exists, as created. From it follow
  `OneLiveRunDuringExecution` and `ResultsImmutableDuringExecution` without a second
  argument about execution. `OperatorsBeforeJobs` shows `OperatorFirst`. The rows in turn
  implement JobOccupancy (`LedgerImplementsOccupancy`), which needs `OneLiveRun`: only
  because a Job has one live row does the end of that row free it.
- The session: `ContextsAlwaysSound`, and from it `LiveRunsAlwaysOwned`,
  `WorkAlwaysHoldsAttention`, `ParkedAlwaysAtRest`, `EndingsAlwaysKept` and
  `AutomaticWorkAlwaysAuthorized`. `LiveRunsOwned` says that a running row has a context
  that can end it, and it is not inductive: a step ends a row by what it finds in the
  context, in the two views of the registry, in the work task and in the console that
  waits, and each of these may contradict the others. `SoundAt` says for one
  occurrence how they fit: which phases of work, Task, row and attention episode go
  together (`ContextMatches`), that foreground and parked view lead to contexts that are
  what the view takes them for (`ViewsMatch`), and that work whose finisher waits has
  been told to stop and stays so (`HeldForFinish`); `StartsPending` adds that the row inside
  "starting" is still pending. Because it speaks of one occurrence at a time, a step is
  shown to keep it for the occurrence it acts on, and once for all others
  (`StepSound`); the action properties fall out of the same case analysis.

**JobAdmission_proofs** — `PendingKept`, `DeferredCurrent`, `SlotsForward`: all three properties
of its run, for any Jobs, conditions, catalogs and clock. `PendingExact` speaks of
states between handlers; the strengthening follows an activation through one: it
is put off, its event is still queued, or it is among those a handler has left. It
also needs that an owed activation's condition is active *where admission looks*
(`powerView` for power), or the poll would discard it as resolved, and that no
cleared event of it is on the way. `ForemostIsLeft` shows that the poll's order has
a first element, by the well-foundedness of the numbers; `WithinDay` is the
arithmetic of a daily slot. `SlotsForward` says what the code's two markers give: an
hourly instant used is later than all before; a daily one is for today and not for the
date used last, which is less than "never twice" (section 5, 8). `AdmissionImplementsOccupancy` shows that admission, which has
the store only as the set of Jobs that are live, changes that set as JobOccupancy allows, and
`ExecutionImplementsOccupancy` that execution does: the two modules agree on the
interface through which they act on each other.

**JobWorkspace_proofs** — `ResultsTrue`, `NothingClobbered`, `DurableSurvives`, for any
files, limits and number of writes, edits and losses. The strengthening relates the
write under way to the tree (`Looked`: what it has read is there unless an edit came
since; `Standing`: directories it has opened exist), the tree to what a power loss may
leave (`Accounted`), and keeps identities new (`Fresh`). `DurableSurvives` needs it once
more with the directories each entry depends on. Of reading it has
`ReadingImplementsStore`: reading implements the store;
`StorePromisesWhileRead` carries the three theorems over; `AnswersWhole` is the
property of the read itself. It rests on `Moved`: an edit in place gives the open file a
version it never had before (`EditsPast` says every version there is has an edit
number that was used), so a file that looks at its end as it did at the beginning
was the same all the time.

**JobKnowledge_proofs** — `KnowledgeNeedsOutcome`, `GuidanceIsReviewed`, `ShownIsFinal`.
`GuidanceIsReviewed` speaks of what was last sent, not of what would be composed now:
`ToldFits` keeps what was told beside the Job as it was then, and the answer that repeats it
is the only step for which the two may differ in a focus's definition. The rest of the
strengthening: the Run of a live context is running and is the latest, an accepted
proposal carries what its checks established (`Checked`), a captured procedure or focus
was fit when captured (`Activated`, `Carried`), and evidence names what was given
(`Supplied`).

**GoalAttention_proofs** — `FollowupAlwaysHasItsGoal`, `AlwaysDeliveredOnce`,
`DecisionsAlwaysKeepTheirGoal`, `DueAlwaysOfferedAgain`. All four rest on `FollowupBound`:
while the lifecycle runs, a follow-up in the slot belongs to the active goal, there is one,
and the follow-up has not lapsed. That there *is* a goal is the strengthening: a goal may only be set when
there is none, and only then no follow-up of an earlier one can be left in the slot.

**EventBus_proofs** — `Inductive`, `ClosedAlwaysJoined`, `ImplementsDelivery`. The
refinement mapping reads off the stages of the enqueue tasks whom an event is still owed
to (`Owed`) and from whom it was withdrawn (`AbandonedOf`). Each step of the bus is then
an acceptance, a handling, a withdrawal or nothing. It needs that whoever is among
the putters waits for room, once (`QueueSound`), or waking one would bring back an
event that was accepted; that an absent subscription is owed nothing and a new event is
nobody's yet (`OwedSound`); and that a worker that runs belongs to an attached subscription, or is cancelled and
joined by whoever closed it (`WorkerSound`). `ClosedAlwaysJoined` is stated of that
closer only; a second `close()` returns before the worker has ended (section 5, 20).

**Services_proofs** has the theorems of three components.

- SmsService: `SmsInductive` and from it `EvidenceAlwaysTrue`, `ImagesAlwaysFetchable`,
  `ClaimsAlwaysOnce`, `AlwaysAnsweredOnce`. A submission whose call is under way is recorded as unconfirmed
  (`Unconfirmed`), so a lost answer or an abandoned thread has nothing to take back; an
  image that Twilio may have is staged (`Staged`); a claimed message is past "partial" for
  good (`ClaimSound`). `AnsweredOnce` holds of a process that has seen no more
  messages than its dedupe cache holds (`WithinWindow`). The hypothesis is real:
  a repetition of an evicted text begins a second turn; a message with attachments
  is then still claimed once ever, which `ClaimsAlwaysOnce` says without the hypothesis.
  Within the window whoever is queued, in intake or answered is in the cache, and in
  one of the three only (`IntakeSound`).
- VoiceService: `VoiceInductive`, `MicrophoneAlwaysOwned`, `StopAlwaysQuiet`. Threads, lease and lock come
  and go with the places where the listener and the session are in the code: the
  listener has them exactly while it captures, `start()` exactly while there is a session
  (`Lent`), a session has exactly one `start()` (`Started`), a thread lies inside the
  capture of its owner or was left by the end of the process (`Owned`), and cancellation
  comes with that end only (`Ending`).
- Lifecycle: `ProcessInductive`, `AlwaysUnwound`, `DependenciesAlwaysOutlive`, for any number of failures. Two
  facts about the lists of steps carry it: each way down names all that may live when it
  is entered (`WaysDownAreComplete`), and none names a component before one that uses it
  (`WaysDownAreInOrder`). The invariant says that what lives on the way down is ahead,
  broken or forgotten (`Accounted`), that only what has been passed is gone
  (`TakenInTurn`), and that, as long as start() would undo its own steps, only what
  composition and those steps name has begun (`Named`).

**Model-checked only**: liveness, which with ENABLED is out of this prover's reach
(`FinisherAnswered`, `StopEnds`, `ClosingReleases`, `AcceptedTaken`,
`WakeResumes`, `VoiceStopEnds`, `ShutdownEnds`). No module here uses a recursive operator.

## 5. Where code and documentation disagree

Found while modelling, by running the model or by reading. The models do what the code
does; where a property would say what the text says, it names the exemption.

Jobs:

1. `docs/jobs.md:279` binds readiness to the exact context. While a sibling is parked, the
   parked view of a ready occurrence falls back to that sibling, the binding comparison
   fails and the ready grant is cleared; it is never offered again (`Verdict`, `ParkedRun`).
2. `docs/jobs.md:291` calls progress context-local. Starting an occurrence while a sibling
   is parked replaces the sibling's progress record by the newcomer's.
3. `docs/jobs.md:831` says terminalization removes the context. An activated occurrence
   stopped before the first step of its work leaves its context, its slot and its attention
   episode behind.
4. `docs/jobs.md:827` says a context is never rebound. A refused explicit work request
   leaves the console's ContextVar set; after that occurrence ended, a first occurrence
   can no longer be started from this console.
5. `docs/jobs.md:422` has one parked slot; the code parks any number.
6. A `job stop` without a Run during work, followed by `job stop RUN<n>`, overwrites
   "terminal" by "stopping" and leaves that context stuck; pausing an initial occurrence
   through the Task API before the first step of its work leaks its slot.
7. A failed `refresh_power_state` sets the condition to unknown, so a pending power
   activation is discarded as resolved although the monitor still says attention
   (`PowerReadFails` ends what is owed).
8. A daily marker is compared for equality: a clock set back to an earlier date replays
   that day (documented). `ScheduledForward` claims only a new date for daily schedules.
9. A `transition_run` that fails after `finish_task` leaves the Run running, and the
   retry carries neither focus nor candidate nor feedback: accepted knowledge is lost.
   Description edits wait for the Run's end, schedule and trigger edits do not.
   `docs/job-focus.md:120` has an out-of-band change withhold a focus captured before it.
   An occurrence without a procedure snapshot composes its evaluation's instructions
   once (`lambda: instructions`, `app.py:3630-3632`), and the continuation after the
   call repeats them (`cognition/openai_responses.py:278`): a trigger or schedule edit during
   that request leaves the stale focus in the next one. `GuidanceReviewed` names this request,
   and does not hold without the exemption; the proposal itself is checked anew.

Workspace:

10. A failing `mkdir` or `fsync` in `_open_job` raises a bare `OSError`, which the write
    tools do not catch (status "raised"); other refusals are merged as "refused".
11. A process killed between `mkdir` and `fsync` leaves a directory whose entry no later
    "durable" write syncs (`left` in `Survives`).
12. An edit between the last look and the rename is lost (`late` in `Unclobbered`), and
    temporaries of killed writes are never removed. After a power loss an older, larger
    artifact may return, so the quota may be exceeded.
13. A listed entry's time of modification is of a `stat` before the file is opened, so
    possibly of an older version; a file that vanishes while listed is reported as a missing directory.

Transports and process:

14. A cancellation that arrives while a timed-out capture's `stop_listening` is
    awaited leaves the capture unjoined while its lease is released
    (`docs/voice-conversation.md:105` says otherwise; `quit` in `MicrophoneOwned`).
15. A vendor stop missed between check and recording is not retried by `start()` or
    `_listen`, only by `stop()` (`Deaf`). `start()` does not look at `_stopping`: a wake word heard
    as `stop()` begins opens a whole session that `stop()` waits for. One failing listen
    ends the wake listener for good; an earcon that holds the speaker makes a reply fail.
16. A start that undoes itself after its events have started closes neither the conversation history
    (`docs/conversation-history.md:180`) nor the media store, nor a probed camera it has
    not come to; the `stop()` that follows sees STOPPED and returns (`LeftBehind`).
17. An earcon queued by ending Job work after `stop()` has gathered them is not joined
    (`docs/console.md:119`). A signal during start's own cleanup, in console mode, is
    swallowed by the step it meets, which may leave that component up.
18. An operator episode would not be closed if its preparation before the `try`
    (`app.py` 4627–4653) or its bookkeeping after it (4887–4932) raised; `_wait` in
    `temporal.py` can return without freeing the slot, which no path reaches because every
    loss of a goal cancels the follow-up (`FollowupHasItsGoal`).
19. `try_start` waits for operators that wait, but `start_operator` does not for those that
    came before it: a fresh request overtakes a woken one (`Resume`).
20. A second `close()` of a subscription returns at once (`events/bus.py:36-37`), and `stop()`
    passes over a subscription that its owner is closing (`events/bus.py:162-164`): neither
    return means that the worker has ended (`ClosedMeansJoined`).

## 6. What is not modelled

- **Pure input, output and text**: device drivers, provider adapters, observability, run
  history, configuration parsing, installation checks, benchmarks, the console's parsing
  and presentation keep no state that another part decides on concurrently.
- **Memory and conversation history**: one insert each, ranking and text; ingestion rows
  and delivery evidence, which have a protocol, are in SmsService.
- **JobAdmission**: time zones, daylight saving, state-tending summaries; the clock moves
  between polls only, so the store's second look at it within one (`sqlite_store.py:498`)
  never differs from the first.
- **JobExecution**: a `job stop` without a Run that ends an occurrence while another console
  command waits for it; another process on the same database that ends a Run (whoever
  is parked is re-checked against the enabled flag and the row, of which only the flag changes here).
- **JobKnowledge**: text formats and limits, several Jobs (they share nothing here).
- **JobWorkspace**: path syntax, links met while walking, listing pages after the first
  (a numeric offset, so entries may be skipped or repeated after a change), image
  decoding. The quota's arithmetic is there, no property is about it, nor about the
  directories that two artifacts share. The time stamp of a
  file is assumed to show every edit in place. An episode may reuse an earlier answer; that is not modelled.
- **EventBus**: a handler that closes its own subscription (none does); a cancelled `stop()`.
- **SmsService**: signature and form validation, ngrok's policy, the retention window of
  ingestions.
- **VoiceService**: recognition and synthesis; leases by Task, which have no caller; a
  `stop()` that is itself cancelled.
- **Lifecycle**: exit codes and the run record. An exception `main` does not list leaves
  the run record "started".

## 7. Plan

1. **Composition.** JobOccupancy is what JobAdmission and JobExecution share of the store. What
   they share of memory, the contexts and work slots (`Begins`, `WorkBegins`, `RunEnds`), is
   not stated yet; it has to allow for the contexts that outlive their row (section 5, 3).
2. **Delivery to the operator**: `interaction.py` and the delivery paths of `app.py`
   between GoalAttention's turn and the transports.
3. **Memory admission and retention** as bounded algorithms against reference definitions.
4. **Proofs**: the rest of item 1 as a refinement; what the proofs already know and no
   property says yet, such as that the workspace's quota is kept without a power loss, and
   the bound on turns of a message that outlives the dedupe window.
