---------------------- MODULE AttentionEpisodes_proofs ----------------------
(***************************************************************************)
(* The coordinator's safety for every set of callers and every capacity.   *)
(* The strengthening that makes it inductive is IdsBelowNext: identities   *)
(* come from one counter and are never reused, so a stale handle can never *)
(* equal an episode that somebody else started later.                      *)
(***************************************************************************)
EXTENDS AttentionEpisodes, FiniteSetTheorems, TLAPS

IdsBelowNext ==
  /\ \A e \in Live : e < nextId
  /\ \A c \in Callers : handle[c] < nextId

WaitingOutside == waiting \cap inEpisode = {}

HandlesDistinct ==
  \A c, d \in Callers : handle[c] = handle[d] /\ handle[c] # None => c = d

IInv ==
  /\ TypeOK /\ IdsBelowNext /\ HandlesDistinct
  /\ WaitingOutside /\ LaneExclusion /\ EpisodeOwned

\* Initially nobody holds or waits for an episode.
LEMMA InitInv == Init => IInv /\ WaitsForOperator
BY CapacityAssumption, FS_EmptySet
   DEF Init, IInv, TypeOK, IdsBelowNext, HandlesDistinct, LaneExclusion,
       EpisodeOwned, WaitingOutside, WaitsForOperator, Live, None, Callers

\* The type invariant is inductive by itself (every operation of the coordinator).
LEMMA TypeStep == TypeOK /\ [Next]_vars => TypeOK'
<1> SUFFICES ASSUME TypeOK, [Next]_vars PROVE TypeOK'
  OBVIOUS
<1> USE DEF TypeOK, Callers, None, lanes, conditionVars
<1>1. ASSUME NEW o \in Operators, StartOperator(o) PROVE TypeOK'
  <2>1. CASE operatorEpisode = None
    <3>1. /\ StartEpisode(o) /\ operatorEpisode' = nextId
          /\ UNCHANGED <<generalEpisode, jobEpisodes, waiting, woken, notifications>>
      BY <1>1, <2>1 DEF StartOperator
    <3>2. QED
      BY <3>1 DEF StartEpisode
  <2>2. CASE operatorEpisode # None
    BY <1>1, <2>2 DEF StartOperator
  <2>3. QED
    BY <2>1, <2>2
<1>2. ASSUME NEW o \in Operators, Resume(o) PROVE TypeOK'
  <2>1. CASE operatorEpisode = None
    <3>1. /\ StartEpisode(o) /\ operatorEpisode' = nextId
          /\ waiting' = waiting \ {o} /\ woken' = woken \ {o}
          /\ UNCHANGED <<generalEpisode, jobEpisodes, notifications>>
      BY <1>2, <2>1 DEF Resume
    <3>2. QED
      BY <3>1 DEF StartEpisode
  <2>2. CASE operatorEpisode # None
    BY <1>2, <2>2 DEF Resume
  <2>3. QED
    BY <2>1, <2>2
<1>3. ASSUME NEW o \in Operators, CancelWait(o) PROVE TypeOK'
  BY <1>3 DEF CancelWait
<1>4. ASSUME NEW c \in Autonomous, TryStart(c) PROVE TypeOK'
  BY <1>4 DEF TryStart, StartEpisode
<1>5. ASSUME NEW c \in Autonomous, TryStartJob(c) PROVE TypeOK'
  <2>1. IsFiniteSet(jobEpisodes')
    BY <1>5, FS_AddElement DEF TryStartJob
  <2>2. QED
    BY <1>5, <2>1 DEF TryStartJob, StartEpisode
<1>6. ASSUME NEW c \in Callers, Close(c) PROVE TypeOK'
  <2>1. IsFiniteSet(jobEpisodes')
    BY <1>6, FS_RemoveElement DEF Close
  <2>2. notifications' \in Nat /\ operatorEpisode' \in Nat /\ generalEpisode' \in Nat
    BY <1>6 DEF Close
  <2>3. QED
    BY <1>6, <2>1, <2>2 DEF Close
<1>7. CASE NotifyIdle
  BY <1>7 DEF NotifyIdle
<1>8. CASE UNCHANGED vars
  BY <1>8 DEF vars
<1>9. QED
  BY <1>1, <1>2, <1>3, <1>4, <1>5, <1>6, <1>7, <1>8 DEF Next

\* A start puts one fresh identity in one lane and in the hands of its caller.
LEMMA StartKeepsOwnership ==
  ASSUME IInv, NEW c \in Callers, c \notin inEpisode, StartEpisode(c),
         Live' = Live \cup {nextId} 
  PROVE  IdsBelowNext' /\ HandlesDistinct' /\ EpisodeOwned'
<1> USE DEF IInv, TypeOK, StartEpisode, None
<1>1. IdsBelowNext'
  <2>0. \A e \in Live : e \in Nat /\ e < nextId
    BY DEF IdsBelowNext, Live
  <2>1. \A e \in Live' : e < nextId'
    BY <2>0
  <2>2. \A d \in Callers : handle'[d] < nextId'
    BY DEF IdsBelowNext
  <2>3. QED
    BY <2>1, <2>2 DEF IdsBelowNext
<1>2. HandlesDistinct'
  BY DEF HandlesDistinct, IdsBelowNext
<1>3. \A d \in inEpisode : handle'[d] = handle[d] /\ d # c /\ d \in Callers
  BY DEF Callers
<1>4. handle'[c] = nextId /\ nextId \notin Live
  BY DEF IdsBelowNext
<1>5. EpisodeOwned'
  <2>1. \A e \in Live' : \E d \in inEpisode' : handle'[d] = e
    <3>1. \A e \in Live : \E d \in inEpisode' : handle'[d] = e
      BY <1>3 DEF EpisodeOwned
    <3>2. QED
      BY <3>1, <1>4
  <2>2. \A d \in inEpisode' : handle'[d] \in Live'
    BY <1>3, <1>4 DEF EpisodeOwned
  <2>3. \A d, b \in inEpisode' : handle'[d] = handle'[b] => d = b
    BY <1>3, <1>4 DEF EpisodeOwned
  <2>4. QED
    BY <2>1, <2>2, <2>3 DEF EpisodeOwned
<1>6. QED
  BY <1>1, <1>2, <1>5

\* A close removes exactly the closing caller's own identity from the lanes.
LEMMA CloseKeepsOwnership ==
  ASSUME IInv, NEW c \in Callers, Close(c)
  PROVE  IdsBelowNext' /\ HandlesDistinct' /\ EpisodeOwned'
<1> USE DEF IInv, TypeOK, Close
<1>1. Live' = Live \ {handle[c]}
  BY DEF Live, None
<1>2. IdsBelowNext' /\ HandlesDistinct'
  BY <1>1 DEF IdsBelowNext, HandlesDistinct
<1>3. \A d \in inEpisode' : d \in inEpisode /\ d \in Callers /\ d # c
  OBVIOUS
<1>4. \A d \in inEpisode' : handle[d] # handle[c]
  BY <1>3 DEF HandlesDistinct, None
<1>5. EpisodeOwned'
  <2>1. \A e \in Live' : \E d \in inEpisode' : handle'[d] = e
    BY <1>1, <1>3 DEF EpisodeOwned
  <2>2. \A d \in inEpisode' : handle'[d] \in Live'
    BY <1>1, <1>3, <1>4 DEF EpisodeOwned
  <2>3. \A d, b \in inEpisode' : handle'[d] = handle'[b] => d = b
    BY <1>3 DEF EpisodeOwned
  <2>4. QED
    BY <2>1, <2>2, <2>3 DEF EpisodeOwned
<1>6. QED
  BY <1>2, <1>5

\* The full inductive step.
LEMMA InvStep == IInv /\ [Next]_vars => IInv'
<1> SUFFICES ASSUME IInv, [Next]_vars PROVE IInv'
  OBVIOUS
<1>t. TypeOK'
  BY TypeStep DEF IInv
<1>w. WaitingOutside'
  BY DEF IInv, WaitingOutside, TypeOK, Next, vars, lanes, conditionVars, StartOperator,
         Resume, CancelWait, TryStart, TryStartJob, Close, NotifyIdle, StartEpisode, Idle
<1>k. IdsBelowNext' /\ HandlesDistinct' /\ LaneExclusion' /\ EpisodeOwned'
  <2> DEFINE Kept == /\ IdsBelowNext' /\ HandlesDistinct'
                     /\ LaneExclusion' /\ EpisodeOwned'
  <2>0. ASSUME UNCHANGED <<lanes, nextId, handle, inEpisode>> PROVE Kept
    BY <2>0 DEF lanes, IInv, IdsBelowNext, HandlesDistinct, LaneExclusion,
                EpisodeOwned, Live
  <2>1. ASSUME NEW o \in Operators, operatorEpisode = None, o \notin inEpisode,
               StartEpisode(o), operatorEpisode' = nextId,
               UNCHANGED <<generalEpisode, jobEpisodes>>
        PROVE  Kept
    <3>1. Live' = Live \cup {nextId}
      BY <2>1 DEF Live, IInv, TypeOK, None
    <3>2. QED
      BY <2>1, <3>1, StartKeepsOwnership DEF IInv, LaneExclusion, Callers
  <2>2. ASSUME NEW o \in Operators, StartOperator(o) PROVE Kept
    <3>1. CASE operatorEpisode = None
      BY <2>2, <2>1, <3>1 DEF StartOperator, Idle
    <3>2. CASE operatorEpisode # None
      BY <2>2, <2>0, <3>2 DEF StartOperator
    <3>3. QED
      BY <3>1, <3>2
  <2>3. ASSUME NEW o \in Operators, Resume(o) PROVE Kept
    <3>0. o \notin inEpisode
      BY <2>3 DEF Resume, IInv, TypeOK, WaitingOutside
    <3>1. CASE operatorEpisode = None
      BY <2>3, <2>1, <3>0, <3>1 DEF Resume
    <3>2. CASE operatorEpisode # None
      BY <2>3, <2>0, <3>2 DEF Resume
    <3>3. QED
      BY <3>1, <3>2
  <2>4. ASSUME NEW o \in Operators, CancelWait(o) PROVE Kept
    BY <2>4, <2>0 DEF CancelWait
  <2>5. ASSUME NEW c \in Autonomous, TryStart(c) PROVE Kept
    <3>1. Live' = Live \cup {nextId}
      BY <2>5 DEF TryStart, Live, IInv, TypeOK, None
    <3>2. LaneExclusion'
      BY <2>5 DEF TryStart, IInv, LaneExclusion
    <3>3. QED
      BY <2>5, <3>1, <3>2, StartKeepsOwnership DEF TryStart, Idle, Callers
  <2>6. ASSUME NEW c \in Autonomous, TryStartJob(c) PROVE Kept
    <3>1. Live' = Live \cup {nextId}
      BY <2>6 DEF TryStartJob, Live, IInv, TypeOK, None
    <3>a. IsFiniteSet(jobEpisodes) /\ Cardinality(jobEpisodes) \in Nat
      BY FS_CardinalityType DEF IInv, TypeOK
    <3>b. jobEpisodes' = jobEpisodes \cup {nextId} /\ Cardinality(jobEpisodes) < MaxJobEpisodes
      BY <2>6 DEF TryStartJob
    <3>2. \/ Cardinality(jobEpisodes') = Cardinality(jobEpisodes) + 1
          \/ Cardinality(jobEpisodes') = Cardinality(jobEpisodes)
      BY <3>a, <3>b, FS_AddElement
    <3>3. Cardinality(jobEpisodes') <= MaxJobEpisodes
      BY <3>a, <3>b, <3>2, CapacityAssumption
    <3>4. LaneExclusion'
      BY <2>6, <3>3 DEF TryStartJob, LaneExclusion
    <3>5. QED
      BY <2>6, <3>1, <3>4, StartKeepsOwnership DEF TryStartJob, Idle, Callers
  <2>7. ASSUME NEW c \in Callers, Close(c) PROVE Kept
    <3>1. Cardinality(jobEpisodes') <= Cardinality(jobEpisodes)
      BY <2>7, FS_Subset DEF Close, IInv, TypeOK
    <3>2. Cardinality(jobEpisodes') <= MaxJobEpisodes
      BY <2>7, <3>1, CapacityAssumption, FS_CardinalityType, FS_RemoveElement
         DEF Close, IInv, TypeOK, LaneExclusion
    <3>3. LaneExclusion'
      BY <2>7, <3>2 DEF Close, IInv, LaneExclusion
    <3>4. QED
      BY <2>7, <3>3, CloseKeepsOwnership
  <2>8. CASE NotifyIdle
    BY <2>8, <2>0 DEF NotifyIdle
  <2>9. CASE UNCHANGED vars
    BY <2>9, <2>0 DEF vars, lanes
  <2>10. QED
    BY <2>2, <2>3, <2>4, <2>5, <2>6, <2>7, <2>8, <2>9 DEF Next
<1>q. QED
  BY <1>t, <1>w, <1>k DEF IInv

\* A step that leaves a request waiting leaves it a reason to make progress.
LEMMA WakeupStep == TypeOK /\ WaitsForOperator /\ [Next]_vars => WaitsForOperator'
<1> SUFFICES ASSUME TypeOK, WaitsForOperator, [Next]_vars PROVE WaitsForOperator'
  OBVIOUS
<1> USE DEF WaitsForOperator, None, lanes, conditionVars
<1>1. ASSUME NEW o \in Operators, StartOperator(o) PROVE WaitsForOperator'
  BY <1>1 DEF StartOperator, StartEpisode, TypeOK
<1>2. ASSUME NEW o \in Operators, Resume(o) PROVE WaitsForOperator'
  BY <1>2 DEF Resume, StartEpisode, TypeOK
<1>3. ASSUME NEW o \in Operators, CancelWait(o) PROVE WaitsForOperator'
  BY <1>3 DEF CancelWait
<1>4. ASSUME NEW c \in Autonomous, TryStart(c) PROVE WaitsForOperator'
  BY <1>4 DEF TryStart
<1>5. ASSUME NEW c \in Autonomous, TryStartJob(c) PROVE WaitsForOperator'
  BY <1>5 DEF TryStartJob
<1>6. ASSUME NEW c \in Callers, Close(c) PROVE WaitsForOperator'
  \* Releasing the operator lane is what schedules a notification.
  <2>1. CASE operatorEpisode # None /\ operatorEpisode = handle[c]
    BY <1>6, <2>1 DEF Close, Live, TypeOK
  <2>2. CASE operatorEpisode = None \/ operatorEpisode # handle[c]
    BY <1>6, <2>2 DEF Close, TypeOK
  <2>3. QED
    BY <2>1, <2>2
<1>7. CASE NotifyIdle
  BY <1>7 DEF NotifyIdle
<1>8. CASE UNCHANGED vars
  BY <1>8 DEF vars
<1>9. QED
  BY <1>1, <1>2, <1>3, <1>4, <1>5, <1>6, <1>7, <1>8 DEF Next

\* The whole inductive invariant holds throughout.
THEOREM Invariance == Spec => [](IInv /\ WaitsForOperator)
<1>1. Init => IInv /\ WaitsForOperator
  BY InitInv
<1>2. IInv /\ WaitsForOperator /\ [Next]_vars => (IInv /\ WaitsForOperator)'
  BY InvStep, WakeupStep DEF IInv
<1>3. QED
  BY <1>1, <1>2, PTL DEF Spec

\* Lanes, identities, waiters and handles keep their types (every operation).
THEOREM TypeCorrect == Spec => []TypeOK
BY Invariance, PTL DEF IInv

\* General autonomy never overlaps Job episodes and Job episodes never exceed the
\* capacity, for every capacity and any number of callers (try_start, try_start_job).
THEOREM LanesSafe == Spec => []LaneExclusion
BY Invariance, PTL DEF IInv

\* Live episodes and the callers inside one correspond one to one, so a late close
\* with a stale handle releases nobody else's episode (close).
THEOREM EpisodesOwned == Spec => []EpisodeOwned
BY Invariance, PTL DEF IInv

\* No operator request sleeps with the lane free and no wake-up on its way
\* (start_operator, close, _notify_idle).
THEOREM NoLostWakeup == Spec => []WaitsForOperator
BY Invariance, PTL

\* While an operator request waits or runs, no autonomous episode begins
\* (try_start, try_start_job).
THEOREM OperatorsFirst == Spec => OperatorPriority
<1>1. TypeOK /\ [Next]_vars
        => (waiting # {} \/ operatorEpisode # None
              => /\ generalEpisode' \in {generalEpisode, None}
                 /\ jobEpisodes' \subseteq jobEpisodes)
  BY DEF Next, vars, lanes, conditionVars, TypeOK, None, StartOperator, Resume,
         CancelWait, TryStart, TryStartJob, Close, NotifyIdle, StartEpisode
<1>2. QED
  BY <1>1, TypeCorrect, PTL DEF Spec, OperatorPriority
=============================================================================
