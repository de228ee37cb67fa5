------------------------- MODULE AttentionEpisodes -------------------------
(***************************************************************************)
(* The AttentionEpisodeCoordinator of embodied_runtime/attention.py: who   *)
(* may hold an attention episode, in which lane, and who has to wait.      *)
(*                                                                         *)
(* The runtime is one asyncio loop, so an action is the code between two   *)
(* suspension points.  Operator requests are admitted one at a time and    *)
(* wait on a Condition; autonomous work never waits, it is refused.  The   *)
(* Condition's lock is never held across a suspension, so taking it is     *)
(* part of the step that uses it.                                          *)
(***************************************************************************)
EXTENDS Naturals, FiniteSets

CONSTANTS
  Operators,       \* the tasks that run explicit operator requests
  Autonomous,      \* the tasks that run initiative or Job work
  MaxJobEpisodes,  \* max_concurrent_job_episodes
  MaxEpisodes      \* bound: episode identities handed out in one behaviour

ASSUME CallersAssumption == Operators \cap Autonomous = {}
ASSUME CapacityAssumption == MaxJobEpisodes \in Nat \ {0}
ASSUME BoundAssumption == MaxEpisodes \in Nat

Callers == Operators \cup Autonomous
None == 0          \* no episode: identities start at 1

VARIABLES
  operatorEpisode,   \* _current["operator"]
  generalEpisode,    \* _current["autonomous"]
  jobEpisodes,       \* the keys of _job_episodes
  nextId,            \* _next_id
  waiting,           \* operator tasks suspended in wait_for: _operator_waiters
  woken,             \* waiting tasks whose future notify_all has resolved
  notifications,     \* _notify_idle tasks created by close and not yet run
  handle,            \* the AttentionEpisode object each caller holds
  inEpisode          \* callers between their start and their own close

vars == <<operatorEpisode, generalEpisode, jobEpisodes, nextId, waiting, woken,
          notifications, handle, inEpisode>>
lanes == <<operatorEpisode, generalEpisode, jobEpisodes>>
conditionVars == <<waiting, woken, notifications>>

Live == ({operatorEpisode, generalEpisode} \cup jobEpisodes) \ {None}

TypeOK ==
  /\ operatorEpisode \in Nat
  /\ generalEpisode \in Nat
  /\ jobEpisodes \in SUBSET (Nat \ {None})
  /\ IsFiniteSet(jobEpisodes)
  /\ nextId \in Nat \ {0}
  /\ waiting \subseteq Operators
  /\ woken \subseteq waiting
  /\ notifications \in Nat
  /\ handle \in [Callers -> Nat]
  /\ inEpisode \subseteq Callers

Init ==
  /\ operatorEpisode = None
  /\ generalEpisode = None
  /\ jobEpisodes = {}
  /\ nextId = 1
  /\ waiting = {}
  /\ woken = {}
  /\ notifications = 0
  /\ handle = [c \in Callers |-> None]
  /\ inEpisode = {}

(***************************************************************************)
(* _start: a fresh identity for caller c.  The lane that records it is the *)
(* caller's business.                                                      *)
(***************************************************************************)
StartEpisode(c) ==
  /\ handle' = [handle EXCEPT ![c] = nextId]
  /\ inEpisode' = inEpisode \cup {c}
  /\ nextId' = nextId + 1

\* Bound: an arrival leaves enough identities for the requests that wait, so that the
\* bound never keeps a woken request from the lane.
WithinBound == nextId + Cardinality(waiting) <= MaxEpisodes

Idle(c) == c \notin inEpisode /\ c \notin waiting

(***************************************************************************)
(* start_operator: admitted in the same step when the lane is free,        *)
(* suspended in wait_for otherwise.                                        *)
(***************************************************************************)
StartOperator(o) ==
  /\ Idle(o)
  /\ WithinBound
  /\ IF operatorEpisode = None
     THEN /\ StartEpisode(o)
          /\ operatorEpisode' = nextId
          /\ UNCHANGED <<generalEpisode, jobEpisodes, conditionVars>>
     ELSE /\ waiting' = waiting \cup {o}
          /\ UNCHANGED <<lanes, nextId, handle, inEpisode, woken, notifications>>

\* A woken request tests the predicate of wait_for again.  Another request, also
\* one that did not wait, may have taken the lane since the notification: nothing keeps the
\* order of arrival, and no request is promised an end of its wait.
Resume(o) ==
  /\ o \in woken
  /\ woken' = woken \ {o}
  /\ IF operatorEpisode = None
     THEN /\ StartEpisode(o)
          /\ operatorEpisode' = nextId
          /\ waiting' = waiting \ {o}
          /\ UNCHANGED <<generalEpisode, jobEpisodes, notifications>>
     ELSE UNCHANGED <<lanes, nextId, handle, inEpisode, waiting, notifications>>

\* The finally of start_operator when the waiting task is cancelled.
CancelWait(o) ==
  /\ o \in waiting
  /\ waiting' = waiting \ {o}
  /\ woken' = woken \ {o}
  /\ UNCHANGED <<lanes, nextId, notifications, handle, inEpisode>>

TryStartIgnoringWaiters(c) ==
  /\ Idle(c)
  /\ WithinBound
  /\ generalEpisode = None /\ jobEpisodes = {}
  /\ operatorEpisode = None
  /\ StartEpisode(c)
  /\ generalEpisode' = nextId
  /\ UNCHANGED <<operatorEpisode, jobEpisodes, conditionVars>>

\* try_start: general autonomy needs every lane idle and nobody waiting.
TryStart(c) ==
  /\ Idle(c)
  /\ WithinBound
  /\ generalEpisode = None /\ jobEpisodes = {}
  /\ operatorEpisode = None
  /\ waiting = {}
  /\ StartEpisode(c)
  /\ generalEpisode' = nextId
  /\ UNCHANGED <<operatorEpisode, jobEpisodes, conditionVars>>

TryStartJobBesideGeneral(c) ==
  /\ Idle(c)
  /\ WithinBound
  /\ operatorEpisode = None
  /\ waiting = {}
  /\ Cardinality(jobEpisodes) < MaxJobEpisodes
  /\ StartEpisode(c)
  /\ jobEpisodes' = jobEpisodes \cup {nextId}
  /\ UNCHANGED <<operatorEpisode, generalEpisode, conditionVars>>

\* try_start_job: Job episodes run beside each other, never beside general autonomy.
TryStartJob(c) ==
  /\ Idle(c)
  /\ WithinBound
  /\ generalEpisode = None
  /\ operatorEpisode = None
  /\ waiting = {}
  /\ Cardinality(jobEpisodes) < MaxJobEpisodes
  /\ StartEpisode(c)
  /\ jobEpisodes' = jobEpisodes \cup {nextId}
  /\ UNCHANGED <<operatorEpisode, generalEpisode, conditionVars>>

(***************************************************************************)
(* close: releases the lane only if it still holds this very episode; a    *)
(* stale handle changes nothing.  Every release schedules one _notify_idle.*)
(***************************************************************************)
CloseWhateverIsThere(c) ==
  /\ handle[c] # None
  /\ inEpisode' = inEpisode \ {c}
  /\ operatorEpisode' = IF c \in Operators THEN None ELSE operatorEpisode
  /\ generalEpisode' = IF generalEpisode = handle[c] THEN None ELSE generalEpisode
  /\ jobEpisodes' = jobEpisodes \ {handle[c]}
  /\ notifications' = IF handle[c] \in Live THEN notifications + 1 ELSE notifications
  /\ UNCHANGED <<nextId, waiting, woken, handle>>

CloseWithoutNotice(c) ==
  /\ handle[c] # None
  /\ inEpisode' = inEpisode \ {c}
  /\ operatorEpisode' = IF operatorEpisode = handle[c] THEN None ELSE operatorEpisode
  /\ generalEpisode' = IF generalEpisode = handle[c] THEN None ELSE generalEpisode
  /\ jobEpisodes' = jobEpisodes \ {handle[c]}
  /\ UNCHANGED <<nextId, conditionVars, handle>>

Close(c) ==
  /\ handle[c] # None
  /\ inEpisode' = inEpisode \ {c}
  /\ operatorEpisode' = IF operatorEpisode = handle[c] THEN None ELSE operatorEpisode
  /\ generalEpisode' = IF generalEpisode = handle[c] THEN None ELSE generalEpisode
  /\ jobEpisodes' = jobEpisodes \ {handle[c]}
  /\ notifications' = IF handle[c] \in Live THEN notifications + 1 ELSE notifications
  /\ UNCHANGED <<nextId, waiting, woken, handle>>

\* _notify_idle: notify_all resolves the future of every request waiting now.
NotifyIdle ==
  /\ notifications > 0
  /\ notifications' = notifications - 1
  /\ woken' = waiting
  /\ UNCHANGED <<lanes, nextId, waiting, handle, inEpisode>>

Next ==
  \/ \E o \in Operators : StartOperator(o)
  \/ \E o \in Operators : Resume(o)
  \/ \E o \in Operators : CancelWait(o)
  \/ \E c \in Autonomous : TryStart(c)
  \/ \E c \in Autonomous : TryStartJob(c)
  \/ \E c \in Callers : Close(c)
  \/ NotifyIdle

Spec == Init /\ [][Next]_vars

-----------------------------------------------------------------------------
\* General autonomy never overlaps Job episodes, and Job episodes stay within
\* the configured capacity (try_start, try_start_job and close together).
LaneExclusion ==
  /\ generalEpisode # None => jobEpisodes = {}
  /\ Cardinality(jobEpisodes) <= MaxJobEpisodes

\* Live episodes and the callers inside them correspond one to one: whoever closes late
\* or twice, while others were admitted in between, ends no episode but its own and leaves
\* none behind (close against start_operator, try_start and try_start_job).
EpisodeOwned ==
  /\ \A e \in Live : \E c \in inEpisode : handle[c] = e
  /\ \A c \in inEpisode : handle[c] \in Live
  /\ \A c, d \in inEpisode : handle[c] = handle[d] => c = d

\* No wake-up is lost: a waiting request is behind another operator request,
\* or a notification is under way, or it has been woken and will test the
\* predicate itself (start_operator, close and _notify_idle together).
WaitsForOperator ==
  \A o \in waiting : operatorEpisode # None \/ notifications > 0 \/ o \in woken

\* From the moment a request has to wait until it is admitted, and while an
\* operator episode runs, the autonomous episodes only drain.
OperatorPriority ==
  [][waiting # {} \/ operatorEpisode # None
       => /\ generalEpisode' \in {generalEpisode, None}
          /\ jobEpisodes' \subseteq jobEpisodes]_vars
=============================================================================
