---------------------------- MODULE JobAdmission ----------------------------
(***************************************************************************)
(* Which occurrence of which Job begins by itself: triggers that follow    *)
(* monitored conditions, activations that had to be put off, schedules     *)
(* and their slots, and the catalog being edited meanwhile.                *)
(*                                                                         *)
(* Time is counted in ticks of an abstract wall clock that anybody may set *)
(* to any value, with Hour ticks to the hour and Day to the day.  What an  *)
(* occurrence does once it has begun is the subject of JobExecution; here  *)
(* it is a row in the store (live), a context in memory and perhaps a      *)
(* work slot.                                                              *)
(***************************************************************************)
EXTENDS Integers, FiniteSets

CONSTANTS
  Jobs,        \* Job identities, numbers
  Conditions,  \* monitored conditions, "power" among them or not
  Catalogs,    \* bound: [triggers, schedules] the operator may configure
  MaxTime,     \* bound: the last tick of the clock
  Hour, Day,   \* ticks to the hour and to the day
  MaxWork      \* jobs_max_concurrent_work

ASSUME JobsAssumption == Jobs \subseteq Nat
ASSUME MaxWorkAssumption == MaxWork \in Nat \ {0}
ASSUME ClockAssumption == MaxTime \in Nat /\ Hour \in Nat \ {0} /\ Day \in Nat \ {0}
ASSUME CatalogsAssumption ==
  \A given \in Catalogs :
    /\ given.triggers \subseteq Jobs \X (Conditions \cup {"ready"})
    /\ given.schedules \in [Jobs -> SUBSET [cadence : {"hourly", "daily"}, at : 0 .. Day - 1]]

VARIABLES
  phase,      \* "down", "running"
  catalog,    \* the member of Catalogs, fixed
  enabled,    \* jobs.enabled
  triggers,   \* job_triggers, <<job, type>>
  schedule,   \* job_schedules, without its marker
  lastDate,   \* job_schedules.last_started_local_date
  lastSlot,   \* job_hourly_activation.last_started_slot
  live,       \* Jobs with a pending or running row in job_runs
  now,        \* the wall clock
  pending,    \* _pending_job_triggers
  context,    \* Jobs with a JobExecutionContext
  work,       \* those of them that occupy a work slot
  busy,       \* operator, standalone goal or general initiative
  cond,       \* the monitors' hysteresis state
  powerView,  \* RuntimeState.power.condition
  raised,     \* conditions whose raised event is not handled yet
  cleared,    \* conditions whose cleared event is not handled yet
  ready,      \* _runtime_ready_observed
  loop,       \* the handler or poll the loop is inside of
  owed        \* history: subscribed Jobs not yet served of an active condition

store == <<catalog, enabled, triggers, schedule, lastDate, lastSlot, live>>
monitors == <<cond, powerView, raised, cleared, ready>>
vars == <<phase, store, now, pending, context, work, busy, monitors, loop, owed>>

Never == -1
NoSchedule == [cadence |-> "none", at |-> 0]
Idle == [routine |-> "idle", type |-> "ready", left |-> {}]
Running == phase = "running" /\ loop = Idle

Init ==
  /\ phase = "down"
  /\ catalog \in Catalogs
  /\ enabled = Jobs /\ triggers = catalog.triggers
  /\ schedule = [j \in Jobs |-> NoSchedule]
  /\ lastDate = [j \in Jobs |-> Never] /\ lastSlot = [j \in Jobs |-> Never]
  /\ live = {} /\ now = 0
  /\ pending = {} /\ context = {} /\ work = {} /\ busy = FALSE
  /\ cond = [c \in Conditions |-> "unknown"] /\ powerView = "unknown"
  /\ raised = {} /\ cleared = {} /\ ready = FALSE
  /\ loop = Idle /\ owed = {}

-----------------------------------------------------------------------------
\* Configuration by the console.
OwedToOthers(j) == {k \in owed : k[1] # j}

DisableKeepingPending(j) ==
  /\ Running /\ j \in enabled
  /\ enabled' = enabled \ {j}
  /\ owed' = OwedToOthers(j)
  /\ UNCHANGED <<phase, catalog, triggers, schedule, lastDate, lastSlot, live, now, pending,
                 context, work, busy, monitors, loop>>

\* Disabling a Job revokes what was put off for it.
Disable(j) ==
  /\ Running /\ j \in enabled
  /\ enabled' = enabled \ {j}
  /\ pending' = {k \in pending : k[1] # j}
  /\ owed' = OwedToOthers(j)
  /\ UNCHANGED <<phase, catalog, triggers, schedule, lastDate, lastSlot, live, now,
                 context, work, busy, monitors, loop>>

Enable(j) ==
  /\ Running /\ j \notin enabled
  /\ enabled' = enabled \cup {j}
  /\ UNCHANGED <<phase, catalog, triggers, schedule, lastDate, lastSlot, live, now, pending,
                 context, work, busy, monitors, loop, owed>>

SetTrigger(k) ==
  /\ Running /\ k \in catalog.triggers \ triggers
  /\ triggers' = triggers \cup {k}
  /\ UNCHANGED <<phase, catalog, enabled, schedule, lastDate, lastSlot, live, now, pending,
                 context, work, busy, monitors, loop, owed>>

RemoveTrigger(k) ==
  /\ Running /\ k \in triggers
  /\ triggers' = triggers \ {k}
  /\ pending' = pending \ {k}
  /\ owed' = owed \ {k}
  /\ UNCHANGED <<phase, catalog, enabled, schedule, lastDate, lastSlot, live, now,
                 context, work, busy, monitors, loop>>

\* The upsert leaves both markers alone, ...
SetSchedule(j, s) ==
  /\ Running /\ s \in catalog.schedules[j] \ {schedule[j]}
  /\ schedule' = [schedule EXCEPT ![j] = s]
  /\ UNCHANGED <<phase, catalog, enabled, triggers, lastDate, lastSlot, live, now, pending,
                 context, work, busy, monitors, loop, owed>>

\* ... the row that is deleted takes the daily marker with it.
RemoveSchedule(j) ==
  /\ Running /\ schedule[j] # NoSchedule
  /\ schedule' = [schedule EXCEPT ![j] = NoSchedule]
  /\ lastDate' = [lastDate EXCEPT ![j] = Never]
  /\ UNCHANGED <<phase, catalog, enabled, triggers, lastSlot, live, now, pending,
                 context, work, busy, monitors, loop, owed>>

-----------------------------------------------------------------------------
\* The monitors.  A reading lies above, below or between the two thresholds of a
\* condition, whichever way round they are.
Readings == {"bad", "middle", "good"}

Classified(old, reading) ==
  IF reading = "bad" \/ (reading = "middle" /\ old = "active") THEN "active" ELSE "normal"

Subscribed(c) == {k \in triggers : k[2] = c /\ k[1] \in enabled}

\* Bound: a condition that no trigger of the catalog names stays unknown.
Watched == {k[2] : k \in catalog.triggers} \ {"ready"}

(***************************************************************************)
(* One sample: the new state first, then the event of a change.  The next  *)
(* sample comes seconds later, when the workers of both subscriptions have *)
(* run, so that a raised event is not overtaken by the cleared one.        *)
(***************************************************************************)
Sample(c, reading) ==
  LET new == Classified(cond[c], reading)
  IN  /\ Running /\ c \in Watched \ (raised \cup cleared)
      /\ cond' = [cond EXCEPT ![c] = new]
      /\ powerView' = IF c = "power" THEN new ELSE powerView
      /\ raised' = IF new = "active" /\ cond[c] # "active" THEN raised \cup {c} ELSE raised
      /\ cleared' = IF new = "normal" /\ cond[c] = "active" THEN cleared \cup {c} ELSE cleared
      /\ owed' = IF new = "active" /\ cond[c] # "active" THEN owed \cup Subscribed(c)
                 ELSE IF new = "normal" THEN {k \in owed : k[2] # c} ELSE owed
      /\ UNCHANGED <<phase, store, now, pending, context, work, busy, ready, loop>>

(***************************************************************************)
(* refresh_power_state reads the battery on demand and leaves the          *)
(* classification alone, unless the read fails: then the classification is *)
(* gone from RuntimeState until the monitor's next sample, and what is put *)
(* off on power counts as resolved (hence no longer owed).                 *)
(***************************************************************************)
PowerReadFails ==
  /\ Running /\ "power" \in Watched
  /\ powerView' = "unknown"
  /\ owed' = {k \in owed : k[2] # "power"}
  /\ UNCHANGED <<phase, store, now, pending, context, work, busy, cond, raised, cleared, ready, loop>>

\* Runtime authority, as the admission of what was put off reads it.
Active(c) == IF c = "power" THEN powerView = "active" ELSE cond[c] = "active"

-----------------------------------------------------------------------------
Blocked == busy \/ Cardinality(work) >= MaxWork

OfferTo(type) ==
  IF Subscribed(type) = {}
  THEN pending' = {k \in pending : k[2] # type} /\ UNCHANGED loop
  ELSE loop' = [routine |-> "raised", type |-> type, left |-> Subscribed(type)] /\ UNCHANGED pending

\* The event's handler reads the enabled subscribers once; if the store cannot be
\* read the event is lost.
HandleRaised(c) ==
  /\ Running /\ c \in raised
  /\ raised' = raised \ {c}
  /\ \/ OfferTo(c) /\ UNCHANGED owed
     \/ owed' = {k \in owed : k[2] # c} /\ UNCHANGED <<loop, pending>>
  /\ UNCHANGED <<phase, store, now, context, work, busy, cond, powerView, cleared, ready>>

\* _signal_runtime_ready, once in the life of a process.
SignalReady ==
  /\ Running /\ ~ready
  /\ ready' = TRUE
  /\ OfferTo("ready")
  /\ UNCHANGED <<phase, store, now, context, work, busy, cond, powerView, raised, cleared, owed>>

HandleCleared(c) ==
  /\ Running /\ c \in cleared
  /\ cleared' = cleared \ {c}
  /\ pending' = {k \in pending : k[2] # c}
  /\ UNCHANGED <<phase, store, now, context, work, busy, cond, powerView, raised, ready, loop, owed>>

BeginPoll ==
  /\ Running
  /\ loop' = [routine |-> "polling", type |-> "ready", left |-> pending]
  /\ UNCHANGED <<phase, store, now, pending, context, work, busy, monitors, owed>>

Before(k, l) == k[1] < l[1] \/ (k[1] = l[1] /\ k[2] = "power" /\ l[2] # "power")

Foremost == CHOOSE k \in loop.left : \A l \in loop.left \ {k} : ~Before(l, k)

\* _start_job_occurrence and the attention claim: the row is there and the Job
\* works; or it was started and its episode is not claimed, so that it waits without work;
\* or starting fails, and then the row is stopped, or stays.
Begins(j) ==
  \/ /\ live' = live \cup {j} /\ context' = context \cup {j} /\ work' = work \cup {j}
  \/ /\ live' = live \cup {j} /\ context' = context \cup {j} /\ UNCHANGED work
  \/ /\ live' \in {live, live \cup {j}}
     /\ UNCHANGED <<context, work>>

CalledForOnce(k, was) == TRUE

CalledFor(k, was) == was /\ k[2] \in Conditions => Active(k[2])

Outcome(k, was) ==
  IF k \notin triggers \/ k[1] \notin enabled THEN "revoked"
  ELSE IF k[1] \in live \cup context THEN "coalesced"
  ELSE IF Blocked THEN "pending"
  ELSE IF ~CalledFor(k, was) THEN "resolved"
  ELSE "begins"

\* _activate_triggered_job, for the next subscriber of an event or the next
\* activation that was put off; it stays put off when its episode is not claimed.
Activate ==
  LET k == Foremost
      was == k \in pending
      o == Outcome(k, was)
  IN  /\ loop.left # {}
      /\ owed' = IF o \in {"pending", "resolved"} THEN owed ELSE owed \ {k}
      /\ IF o = "begins" THEN Begins(k[1]) ELSE UNCHANGED <<live, context, work>>
      /\ \/ pending' = IF o = "pending" THEN pending \cup {k} ELSE pending \ {k}
         \/ o = "begins" /\ context' # context /\ UNCHANGED <<pending, work>>
      /\ loop' = IF loop.routine = "raised" /\ loop.left = {k} THEN Idle
                 ELSE [loop EXCEPT !.left = @ \ {k}]
      /\ UNCHANGED <<phase, catalog, enabled, triggers, schedule, lastDate, lastSlot, now,
                     busy, monitors>>

\* The store fails for one subscriber: its activation is given up.
ActivationFails ==
  LET k == Foremost
  IN  /\ loop.left # {}
      /\ pending' = pending \ {k}
      /\ owed' = owed \ {k}
      /\ loop' = IF loop.routine = "raised" /\ loop.left = {k} THEN Idle
                 ELSE [loop EXCEPT !.left = @ \ {k}]
      /\ UNCHANGED <<phase, store, now, context, work, busy, monitors>>

-----------------------------------------------------------------------------
\* Schedules.
Slots(s) ==
  IF s.cadence = "hourly" THEN {t \in 0 .. now : t % Hour = s.at}
  ELSE {t \in {(now \div Day) * Day + s.at} : t <= now}

UnusedByEquality(j, t) ==
  IF schedule[j].cadence = "hourly" THEN t # lastSlot[j] ELSE lastDate[j] # now \div Day

\* A daily slot is used up by its date, an hourly one by the latest instant ever used.
Unused(j, t) ==
  IF schedule[j].cadence = "hourly" THEN t > lastSlot[j] ELSE lastDate[j] # now \div Day

\* JobSchedule.due_slot: only the latest slot counts.
DueSlot(j) ==
  IF schedule[j] = NoSchedule THEN {}
  ELSE {t \in Slots(schedule[j]) : (\A u \in Slots(schedule[j]) : u <= t) /\ Unused(j, t)}

Due == {d \in (0 .. MaxTime) \X Jobs : d[1] \in DueSlot(d[2])}

Admissible == {d \in Due : d[2] \in enabled /\ d[2] \notin context \cup live}

Earlier(d, e) == d[1] < e[1] \/ (d[1] = e[1] /\ d[2] < e[2])

\* create_scheduled_run: the slot and the row are one transaction.
Consume(d) ==
  LET j == d[2] IN
  IF schedule[j].cadence = "hourly"
  THEN lastSlot' = [lastSlot EXCEPT ![j] = d[1]] /\ UNCHANGED lastDate
  ELSE lastDate' = [lastDate EXCEPT ![j] = d[1] \div Day] /\ UNCHANGED lastSlot

\* The end of a poll, _offer_scheduled_job: of the due slots whose Job may run, the
\* earliest one begins; it stays used up if starting fails.
OfferScheduled ==
  /\ loop.routine = "polling" /\ loop.left = {}
  /\ ~Blocked
  /\ \E d \in Admissible :
       /\ \A e \in Admissible \ {d} : Earlier(d, e)
       /\ Consume(d)
       /\ Begins(d[2])
  /\ loop' = Idle
  /\ UNCHANGED <<phase, catalog, enabled, triggers, schedule, now, pending, busy, monitors, owed>>

\* Nothing is due or nothing may begin; or the store fails, at any point of the poll,
\* and has rolled back.
EndPoll ==
  /\ loop.routine = "polling"
  /\ loop' = Idle
  /\ UNCHANGED <<phase, store, now, pending, context, work, busy, monitors, owed>>

-----------------------------------------------------------------------------
\* What JobExecution does with occurrences, as admission sees it.
StartJobRun(j) ==
  /\ Running /\ j \in enabled /\ j \notin live \cup context
  /\ live' = live \cup {j} /\ context' = context \cup {j}
  /\ UNCHANGED <<phase, catalog, enabled, triggers, schedule, lastDate, lastSlot, now, pending,
                 work, busy, monitors, loop, owed>>

WorkBegins(j) ==
  /\ Running /\ j \in context \ work /\ ~Blocked
  /\ work' = work \cup {j}
  /\ UNCHANGED <<phase, store, now, pending, context, busy, monitors, loop, owed>>

WorkEnds(j) ==
  /\ Running /\ j \in work
  /\ work' = work \ {j}
  /\ UNCHANGED <<phase, store, now, pending, context, busy, monitors, loop, owed>>

RunEnds(j) ==
  /\ Running /\ j \in context
  /\ live' = live \ {j} /\ context' = context \ {j} /\ work' = work \ {j}
  /\ UNCHANGED <<phase, catalog, enabled, triggers, schedule, lastDate, lastSlot, now, pending,
                 busy, monitors, loop, owed>>

AttentionChanges ==
  /\ Running
  /\ busy' = ~busy
  /\ UNCHANGED <<phase, store, now, pending, context, work, monitors, loop, owed>>

-----------------------------------------------------------------------------
\* The process.  Startup interrupts what was left live before anything is offered,
\* and each condition that the first operational sample, if it can be read, finds
\* active is raised.
Start ==
  /\ phase = "down"
  /\ phase' = "running"
  /\ live' = {}
  /\ \E active \in SUBSET Watched : \E normal \in SUBSET (Watched \ active) :
       /\ cond' = [c \in Conditions |-> IF c \in active THEN "active"
                                       ELSE IF c \in normal THEN "normal" ELSE "unknown"]
       /\ powerView' = IF "power" \in Conditions THEN cond'["power"] ELSE powerView
       /\ raised' = active
       /\ owed' = UNION {Subscribed(c) : c \in raised'}
  /\ UNCHANGED <<catalog, enabled, triggers, schedule, lastDate, lastSlot, now, pending,
                 context, work, busy, cleared, ready, loop>>

\* A crash, or a stop that interrupts all rows it can.
Leave ==
  /\ phase = "running"
  /\ phase' = "down"
  /\ live' \in {{}, live}
  /\ pending' = {} /\ context' = {} /\ work' = {} /\ busy' = FALSE
  /\ cond' = [c \in Conditions |-> "unknown"] /\ powerView' = "unknown"
  /\ raised' = {} /\ cleared' = {} /\ ready' = FALSE /\ loop' = Idle /\ owed' = {}
  /\ UNCHANGED <<catalog, enabled, triggers, schedule, lastDate, lastSlot, now>>

\* Time passes, or somebody sets the clock, forward or back.
ClockMoves ==
  /\ loop = Idle
  /\ catalog.schedules # [j \in Jobs |-> {}]
  /\ now' \in (0 .. MaxTime) \ {now}
  /\ UNCHANGED <<phase, store, pending, context, work, busy, monitors, loop, owed>>

-----------------------------------------------------------------------------
Configure ==
  \/ \E j \in Jobs : Disable(j) \/ Enable(j) \/ RemoveSchedule(j)
  \/ \E k \in catalog.triggers : SetTrigger(k) \/ RemoveTrigger(k)
  \/ \E j \in Jobs : \E s \in catalog.schedules[j] : SetSchedule(j, s)

Monitor ==
  \/ \E c \in Conditions, reading \in Readings : Sample(c, reading)
  \/ PowerReadFails

Admission ==
  \/ \E c \in Conditions : HandleRaised(c) \/ HandleCleared(c)
  \/ SignalReady \/ BeginPoll \/ Activate \/ ActivationFails \/ OfferScheduled \/ EndPoll

Execution ==
  \/ \E j \in Jobs : StartJobRun(j) \/ WorkBegins(j) \/ WorkEnds(j) \/ RunEnds(j)
  \/ AttentionChanges

Next == Configure \/ Monitor \/ Admission \/ Execution \/ Start \/ Leave \/ ClockMoves

Spec == Init /\ [][Next]_vars

-----------------------------------------------------------------------------
\* What is put off is one bit per enabled subscription: removing a trigger or
\* disabling a Job revokes it at once, so nothing begins from it when the Job is
\* enabled again (docs/jobs.md, "Pending state is discarded").
PendingIsSubscribed == \A k \in pending : k \in triggers /\ k[1] \in enabled

\* No activation is lost: while a condition lasts, a subscriber that has not had its
\* occurrence is put off or its event is still to be handled, however often other
\* conditions come and go, polls are blocked and Jobs are reconfigured.
OwedIsPending == Running => \A k \in owed : k \in pending \/ k[2] \in raised

\* Nothing is put off that is not wanted, and nothing wanted is forgotten.
PendingExact == PendingIsSubscribed /\ OwedIsPending

\* What was put off begins only while its condition lasts, also when the poll comes
\* between the change of the condition and the event that reports it.
DeferredStartsCurrent ==
  [][\A j \in Jobs : \A c \in Conditions :
       loop.routine = "polling" /\ loop.left # {} /\ Foremost = <<j, c>> /\ j \in live' \ live
         => Active(c)]_vars

\* Wherever the clock is set, and whatever becomes of the schedule, an hourly instant
\* is used once: it is later than those used before it, and one that has come.  A daily
\* slot is used for the date of today, which differs from the one used last; when the
\* clock is set back, or the schedule is removed and set again, a date may come again.
\* No scheduled occurrence begins without the slot of its schedule's cadence.
ScheduledForward ==
  [][\A j \in Jobs :
       /\ lastSlot'[j] # lastSlot[j] => lastSlot'[j] > lastSlot[j] /\ lastSlot'[j] <= now
       /\ lastDate'[j] # lastDate[j] => lastDate'[j] = now \div Day \/ schedule'[j] = NoSchedule
       /\ loop.routine = "polling" /\ loop.left = {} /\ j \in live' \ live
            => IF schedule[j].cadence = "hourly" THEN lastSlot'[j] # lastSlot[j]
               ELSE lastDate'[j] # lastDate[j]]_vars
=============================================================================
