------------------------- MODULE JobAdmission_proofs -------------------------
(***************************************************************************)
(* What begins by itself, for any Jobs, conditions, catalogs and clock.    *)
(* The strengthening: what is owed is subscribed, its condition is active  *)
(* where admission looks, its cleared event is not on the way, and inside  *)
(* a handler it may still be among the subscribers the handler has left.   *)
(***************************************************************************)
EXTENDS JobAdmission, WellFoundedInduction, TLAPS

Keys == Jobs \X (Conditions \cup {"ready"})

TypeInv ==
  /\ phase \in {"down", "running"}
  /\ catalog \in Catalogs
  /\ triggers \subseteq catalog.triggers
  /\ cond \in [Conditions -> {"unknown", "normal", "active"}]

\* A handler's routine runs in a process; a poll serves what was put off.
LoopOK ==
  /\ phase = "down" => loop = Idle /\ cleared = {}
  /\ loop.routine = "polling" => loop.left \subseteq pending

OwedSubscribed ==
  \A k \in owed : /\ k \in triggers /\ k[1] \in enabled
                  /\ k[2] \in Conditions /\ k[2] # "ready"

OwedActive == \A k \in owed : Active(k[2]) /\ k[2] \notin cleared

OwedServed ==
  \A k \in owed : \/ k \in pending \/ k[2] \in raised
                  \/ loop.routine = "raised" /\ k \in loop.left

IInv == TypeInv /\ LoopOK /\ PendingIsSubscribed /\ OwedSubscribed /\ OwedActive /\ OwedServed

-----------------------------------------------------------------------------
\* What an assumption on the catalogs says of a reachable one.
LEMMA Catalogue ==
  ASSUME TypeInv
  PROVE  /\ triggers \subseteq Keys
         /\ Watched \subseteq Conditions /\ "ready" \notin Watched
<1>1. catalog.triggers \subseteq Keys
  BY CatalogsAssumption DEF TypeInv, Keys
<1> QED
  BY <1>1 DEF TypeInv, Keys, Watched

\* The initial state satisfies the strengthening.
LEMMA InitIInv == Init => IInv
  BY DEF Init, IInv, TypeInv, LoopOK, Idle, PendingIsSubscribed, OwedSubscribed, OwedActive, OwedServed

\* Enabling, disabling and replacing of Jobs, schedules and triggers.
LEMMA ConfigureKeeps == IInv /\ Configure => IInv'
<1> SUFFICES ASSUME IInv, Configure PROVE IInv'
  OBVIOUS
<1> USE DEF IInv, TypeInv, LoopOK, PendingIsSubscribed, OwedSubscribed, OwedActive, OwedServed, Active,
            Running, Idle
<1>1. ASSUME NEW j \in Jobs, Disable(j) PROVE IInv'
  BY <1>1 DEF Disable, OwedToOthers, monitors
<1>2. ASSUME NEW j \in Jobs, Enable(j) PROVE IInv'
  BY <1>2 DEF Enable, monitors
<1>3. ASSUME NEW j \in Jobs, RemoveSchedule(j) PROVE IInv'
  BY <1>3 DEF RemoveSchedule, monitors
<1>4. ASSUME NEW k \in catalog.triggers, SetTrigger(k) PROVE IInv'
  BY <1>4 DEF SetTrigger, monitors
<1>5. ASSUME NEW k \in catalog.triggers, RemoveTrigger(k) PROVE IInv'
  BY <1>5 DEF RemoveTrigger, monitors
<1>6. ASSUME NEW j \in Jobs, NEW s \in catalog.schedules[j], SetSchedule(j, s) PROVE IInv'
  BY <1>6 DEF SetSchedule, monitors
<1> QED
  BY <1>1, <1>2, <1>3, <1>4, <1>5, <1>6 DEF Configure

\* The monitor's samples, which raise and clear conditions.
LEMMA MonitorKeeps == IInv /\ Monitor => IInv'
<1> SUFFICES ASSUME IInv, Monitor PROVE IInv'
  OBVIOUS
<1> USE DEF IInv, TypeInv, LoopOK, PendingIsSubscribed, OwedSubscribed, OwedActive, OwedServed, Active,
            Running, Idle
<1>1. ASSUME NEW c \in Conditions, NEW reading \in Readings, Sample(c, reading) PROVE IInv'
  <2> DEFINE new == Classified(cond[c], reading)
  <2>1. new \in {"normal", "active"}
    BY DEF Classified
  <2>2. c \notin raised \cup cleared /\ c # "ready" /\ phase = "running"
    BY <1>1, Catalogue DEF Sample
  <2>3. /\ cond' = [cond EXCEPT ![c] = new]
        /\ powerView' = IF c = "power" THEN new ELSE powerView
        /\ raised' = IF new = "active" /\ cond[c] # "active" THEN raised \cup {c} ELSE raised
        /\ cleared' = IF new = "normal" /\ cond[c] = "active" THEN cleared \cup {c} ELSE cleared
        /\ owed' = IF new = "active" /\ cond[c] # "active" THEN owed \cup Subscribed(c)
                   ELSE IF new = "normal" THEN {k \in owed : k[2] # c} ELSE owed
        /\ UNCHANGED <<phase, catalog, triggers, enabled, pending, loop>>
    BY <1>1 DEF Sample, store
  <2> HIDE DEF new
  <2>4. CASE new = "normal"
    BY <2>2, <2>3, <2>4
  <2>5. CASE new = "active" /\ cond[c] = "active"
    BY <2>2, <2>3, <2>5
  <2>6. CASE new = "active" /\ cond[c] # "active"
    BY <2>2, <2>3, <2>6 DEF Subscribed
  <2> QED
    BY <2>1, <2>4, <2>5, <2>6
<1>2. ASSUME PowerReadFails PROVE IInv'
  BY <1>2 DEF PowerReadFails, store
<1> QED
  BY <1>1, <1>2 DEF Monitor

\* What OfferTo leaves of the pending activations and of what is owed.
LEMMA Offering ==
  ASSUME IInv, NEW c, OfferTo(c), loop = Idle
  PROVE  /\ pending' \subseteq pending
         /\ loop'.routine # "polling"
         /\ \A k \in pending \ pending' : k \notin owed
         /\ \A k \in owed : k[2] = c => loop'.routine = "raised" /\ k \in loop'.left
<1>1. CASE Subscribed(c) = {}
  BY <1>1 DEF OfferTo, Subscribed, IInv, OwedSubscribed, Idle
<1>2. CASE Subscribed(c) # {}
  BY <1>2 DEF OfferTo, Subscribed, IInv, OwedSubscribed, Idle
<1> QED
  BY <1>1, <1>2

\* The handling of a raised or cleared condition, and the first readiness.
LEMMA EventsKeep ==
  ASSUME IInv, NEW c, HandleRaised(c) \/ HandleCleared(c) \/ SignalReady
  PROVE  IInv'
<1> USE DEF IInv, TypeInv, LoopOK, PendingIsSubscribed, OwedSubscribed, OwedActive, OwedServed, Active,
            Running
<1>1. CASE HandleRaised(c)
  <2>1. CASE OfferTo(c) /\ UNCHANGED owed
    <3>1. loop = Idle
      BY <1>1 DEF HandleRaised
    <3> QED
      BY <1>1, <2>1, <3>1, Offering DEF HandleRaised, store, Idle
  <2>2. CASE owed' = {k \in owed : k[2] # c} /\ UNCHANGED <<loop, pending>>
    BY <1>1, <2>2 DEF HandleRaised, store, Idle
  <2> QED
    BY <1>1, <2>1, <2>2 DEF HandleRaised
<1>2. CASE HandleCleared(c)
  BY <1>2 DEF HandleCleared, store, Idle
<1>3. CASE SignalReady
  <2>1. loop = Idle /\ OfferTo("ready")
    BY <1>3 DEF SignalReady
  <2> QED
    BY <1>3, <2>1, Offering DEF SignalReady, store, Idle
<1> QED
  BY <1>1, <1>2, <1>3

\* The poll's steps around an activation.
LEMMA OfferKeeps == IInv /\ (BeginPoll \/ OfferScheduled \/ EndPoll) => IInv'
<1> SUFFICES ASSUME IInv, BeginPoll \/ OfferScheduled \/ EndPoll PROVE IInv'
  OBVIOUS
<1> USE DEF IInv, TypeInv, LoopOK, PendingIsSubscribed, OwedSubscribed, OwedActive, OwedServed, Active, Idle
<1>1. CASE BeginPoll
  BY <1>1 DEF BeginPoll, Running, store, monitors
<1>2. CASE OfferScheduled
  BY <1>2 DEF OfferScheduled, monitors
<1>3. CASE EndPoll
  BY <1>3 DEF EndPoll, store, monitors
<1> QED
  BY <1>1, <1>2, <1>3

\* The activation itself, and its failure.
LEMMA ActivateKeeps == IInv /\ (Activate \/ ActivationFails) => IInv'
<1> SUFFICES ASSUME IInv, Activate \/ ActivationFails PROVE IInv'
  OBVIOUS
<1> DEFINE k == Foremost
           was == k \in pending
           o == Outcome(k, was)
<1>1. /\ loop.left # {}
      /\ loop' = IF loop.routine = "raised" /\ loop.left = {k} THEN Idle
                 ELSE [loop EXCEPT !.left = loop.left \ {k}]
      /\ UNCHANGED <<phase, catalog, enabled, triggers, monitors>>
  BY DEF Activate, ActivationFails, store
<1>2. \/ pending' \in {pending, pending \ {k}} /\ owed' = owed \ {k}
      \/ pending' = pending \cup {k} /\ owed' = owed /\ k \in triggers /\ k[1] \in enabled
      \/ pending' = pending \ {k} /\ owed' = owed /\ ~CalledFor(k, was)
  <2>1. CASE ActivationFails
    BY <2>1 DEF ActivationFails
  <2>2. CASE Activate
    <3>1. /\ \/ pending' = IF o = "pending" THEN pending \cup {k} ELSE pending \ {k}
             \/ o = "begins" /\ pending' = pending
          /\ owed' = IF o \in {"pending", "resolved"} THEN owed ELSE owed \ {k}
      BY <2>2 DEF Activate
    <3>2. /\ o = "pending" => k \in triggers /\ k[1] \in enabled
          /\ o = "resolved" => ~CalledFor(k, was)
      BY DEF Outcome
    <3> QED
      BY <3>1, <3>2
  <2> QED
    BY <2>1, <2>2
<1>3. ~CalledFor(k, was) => k \notin owed
  BY DEF CalledFor, IInv, OwedActive
<1> HIDE DEF k
<1>4. TypeInv' /\ OwedSubscribed' /\ OwedActive' /\ PendingIsSubscribed'
  BY <1>1, <1>2 DEF IInv, TypeInv, OwedSubscribed, OwedActive, PendingIsSubscribed, Active, monitors
<1>5. loop # Idle /\ phase' # "down"
  BY <1>1 DEF IInv, TypeInv, LoopOK, Idle
<1>6. LoopOK'
  <2>1. CASE loop' = Idle
    BY <2>1, <1>5 DEF LoopOK, Idle
  <2>2. CASE loop' = [loop EXCEPT !.left = loop.left \ {k}]
    <3>1. loop'.left \subseteq loop.left \ {k} /\ loop'.routine = loop.routine
      BY <2>2 DEF IInv, TypeInv
    <3> QED
      BY <3>1, <1>2, <1>5 DEF IInv, LoopOK
  <2> QED
    BY <2>1, <2>2, <1>1
<1>7. OwedServed'
  <2> SUFFICES ASSUME NEW l \in owed', l \notin pending', l[2] \notin raised
               PROVE  loop'.routine = "raised" /\ l \in loop'.left
    BY <1>1 DEF OwedServed, monitors
  <2>1. l \in owed /\ l # k /\ l \notin pending
    BY <1>2, <1>3
  <2>2. loop.routine = "raised" /\ l \in loop.left
    BY <2>1 DEF IInv, OwedServed
  <2> QED
    BY <1>1, <2>1, <2>2 DEF IInv, TypeInv
<1> QED
  BY <1>4, <1>6, <1>7 DEF IInv

\* The occurrences that an activation starts.
LEMMA ExecutionKeeps == IInv /\ Execution => IInv'
<1> SUFFICES ASSUME IInv, Execution PROVE IInv'
  OBVIOUS
<1>1. UNCHANGED <<phase, catalog, enabled, triggers, pending, monitors, loop, owed>>
  BY DEF Execution, StartJobRun, WorkBegins, WorkEnds, RunEnds, AttentionChanges, store
<1> QED
  BY <1>1 DEF IInv, TypeInv, LoopOK, PendingIsSubscribed, OwedSubscribed, OwedActive, OwedServed, Active,
              monitors

\* Start and end of the process, and the clock.
LEMMA ProcessKeeps == IInv /\ (Start \/ Leave \/ ClockMoves) => IInv'
<1> SUFFICES ASSUME IInv, Start \/ Leave \/ ClockMoves PROVE IInv'
  OBVIOUS
<1> USE DEF IInv, TypeInv, LoopOK, PendingIsSubscribed, OwedSubscribed, OwedActive, OwedServed, Active
<1>1. CASE Start
  <2>1. PICK active \in SUBSET Watched, normal \in SUBSET Watched :
          /\ cond' = [c \in Conditions |-> IF c \in active THEN "active"
                                          ELSE IF c \in normal THEN "normal" ELSE "unknown"]
          /\ powerView' = IF "power" \in Conditions THEN cond'["power"] ELSE powerView
          /\ raised' = active
          /\ owed' = UNION {Subscribed(c) : c \in raised'}
    BY <1>1 DEF Start
  <2>2. UNCHANGED <<catalog, enabled, triggers, pending, cleared, loop>> /\ phase' = "running" /\ cleared = {}
    BY <1>1 DEF Start
  <2>3. \A c \in active : c \in Conditions /\ c # "ready"
    BY Catalogue
  <2>4. \A k \in owed' : k \in triggers /\ k[1] \in enabled /\ k[2] \in active
    BY <2>1 DEF Subscribed
  <2>5. OwedActive'
    BY <2>1, <2>2, <2>3, <2>4
  <2> QED
    BY <2>1, <2>2, <2>3, <2>4, <2>5
<1>2. CASE Leave
  BY <1>2 DEF Leave, Idle
<1>3. CASE ClockMoves
  BY <1>3 DEF ClockMoves, store, monitors
<1> QED
  BY <1>1, <1>2, <1>3

\* Every step of admission.
LEMMA NextIInv == IInv /\ [Next]_vars => IInv'
<1> SUFFICES ASSUME IInv, [Next]_vars PROVE IInv'
  OBVIOUS
<1>1. CASE Configure
  BY <1>1, ConfigureKeeps
<1>2. CASE Monitor
  BY <1>2, MonitorKeeps
<1>3. CASE Admission
  <2>1. ASSUME NEW c, HandleRaised(c) \/ HandleCleared(c) \/ SignalReady PROVE IInv'
    BY <2>1, EventsKeep
  <2> QED
    BY <1>3, <2>1, OfferKeeps, ActivateKeeps DEF Admission
<1>4. CASE Execution
  BY <1>4, ExecutionKeeps
<1>5. CASE Start \/ Leave \/ ClockMoves
  BY <1>5, ProcessKeeps
<1>6. CASE UNCHANGED vars
  BY <1>6 DEF vars, store, monitors, IInv, TypeInv, LoopOK, PendingIsSubscribed, OwedSubscribed, OwedActive,
              OwedServed, Active
<1> QED
  BY <1>1, <1>2, <1>3, <1>4, <1>5, <1>6 DEF Next

\* The inductive invariant of admission.
LEMMA Invariance == Spec => []IInv
  BY InitIInv, NextIInv, PTL DEF Spec

\* Nothing is put off that is not wanted, and nothing wanted is forgotten, however
\* many Jobs, triggers and conditions there are.
THEOREM PendingKept == Spec => []PendingExact
<1>1. IInv => PendingExact
  BY DEF IInv, PendingExact, OwedIsPending, OwedServed, Running, Idle
<1> QED
  BY <1>1, Invariance, PTL

-----------------------------------------------------------------------------
\* Among the activations that are left, one comes first in the order of the poll.
LEMMA ForemostIsLeft ==
  ASSUME TypeInv, loop.left # {}, loop.left \subseteq triggers
  PROVE  Foremost \in loop.left
<1> DEFINE Rank(k) == 2 * k[1] + IF k[2] = "power" THEN 0 ELSE 1
           Ranks == {Rank(k) : k \in loop.left}
<1>1. \A k \in loop.left : k[1] \in Nat /\ Rank(k) \in Nat
  <2> SUFFICES ASSUME NEW k \in loop.left PROVE k[1] \in Nat /\ Rank(k) \in Nat
    OBVIOUS
  <2>1. k \in Jobs \X (Conditions \cup {"ready"})
    BY Catalogue DEF Keys
  <2>2. k[1] \in Nat
    BY <2>1, JobsAssumption
  <2> QED
    BY <2>2
<1>2. IsWellFoundedOn(OpToRel(<, Nat), Nat)
  BY NatLessThanWellFounded
<1>3. PICK n \in Ranks : \A m \in Ranks : ~(<<m, n>> \in OpToRel(<, Nat))
  <2>1. Ranks \subseteq Nat /\ Ranks # {}
    BY <1>1
  <2> QED
    BY <1>2, <2>1, WFMin
<1>4. \A m \in Ranks : ~(m < n)
  BY <1>1, <1>3 DEF OpToRel
<1>5. PICK k \in loop.left : n = Rank(k)
  OBVIOUS
<1>6. \A l \in loop.left : ~(Rank(l) < Rank(k))
  BY <1>4, <1>5
<1>7. \A l \in loop.left \ {k} : ~Before(l, k)
  BY <1>1, <1>6 DEF Before
<1> QED
  BY <1>7 DEF Foremost

\* The actions that may bring a row into the store, by where the loop stands.
LEMMA PollStep ==
  ASSUME Next, loop.routine = "polling", NEW j, j \in live' \ live
  PROVE  \/ loop.left # {} /\ Activate
         \/ loop.left = {} /\ OfferScheduled
<1>1. ~Running /\ loop # Idle
  BY DEF Running, Idle
<1>2. ~Configure
  BY <1>1 DEF Configure, Disable, Enable, RemoveSchedule, SetTrigger, RemoveTrigger, SetSchedule
<1>3. ~Monitor
  BY <1>1 DEF Monitor, Sample, PowerReadFails
<1>4. ~Execution
  BY <1>1 DEF Execution, StartJobRun, WorkBegins, WorkEnds, RunEnds, AttentionChanges
<1>5. ~Start /\ ~Leave /\ ~ClockMoves
  BY <1>1 DEF Start, Leave, ClockMoves
<1>6. Activate \/ OfferScheduled
  BY <1>1, <1>2, <1>3, <1>4, <1>5
     DEF Next, Admission, HandleRaised, HandleCleared, SignalReady, BeginPoll, ActivationFails, EndPoll, store
<1> QED
  BY <1>6 DEF Activate, OfferScheduled

\* What was put off begins only while its condition lasts, for any conditions and
\* any order of samples, events and polls.
THEOREM DeferredCurrent == Spec => DeferredStartsCurrent
<1> DEFINE A == \A j \in Jobs : \A c \in Conditions :
                  loop.routine = "polling" /\ loop.left # {} /\ Foremost = <<j, c>> /\ j \in live' \ live
                    => Active(c)
<1>1. IInv /\ [Next]_vars => [A]_vars
  <2> SUFFICES ASSUME IInv, Next, NEW j \in Jobs, NEW c \in Conditions,
                      loop.routine = "polling", loop.left # {}, Foremost = <<j, c>>, j \in live' \ live
               PROVE  Active(c)
    OBVIOUS
  <2>1. Activate
    BY PollStep
  <2>2. Foremost \in pending
    BY ForemostIsLeft DEF IInv, LoopOK, PendingIsSubscribed
  <2> DEFINE o == Outcome(Foremost, Foremost \in pending)
  <2>3. o = "begins"
    BY <2>1 DEF Activate
  <2>4. CalledFor(Foremost, Foremost \in pending)
    BY <2>3 DEF Outcome
  <2> QED
    BY <2>2, <2>4 DEF CalledFor
<1> QED
  BY <1>1, Invariance, PTL DEF Spec, DeferredStartsCurrent

-----------------------------------------------------------------------------
\* The schedules and their markers are what the store can hold.
ScheduleInv ==
  /\ catalog \in Catalogs
  /\ now \in Nat
  /\ \A j \in Jobs : schedule[j] \in catalog.schedules[j] \cup {NoSchedule}
  /\ lastSlot \in [Jobs -> Int]
  /\ DOMAIN lastDate = Jobs /\ DOMAIN schedule = Jobs

\* A day's instant lies within the day.
LEMMA WithinDay ==
  ASSUME NEW q \in Nat, NEW d \in Nat \ {0}, NEW a \in 0 .. d - 1
  PROVE  (q * d + a) \div d = q
OBVIOUS

\* The initial state satisfies it, and so does every step.
LEMMA ScheduleInvariance == Spec => []ScheduleInv
<1>1. Init => ScheduleInv
  BY DEF Init, ScheduleInv, Never
<1>2. ScheduleInv /\ [Next]_vars => ScheduleInv'
  <2> SUFFICES ASSUME ScheduleInv, [Next]_vars PROVE ScheduleInv'
    OBVIOUS
  <2> USE DEF ScheduleInv
  <2>1. CASE UNCHANGED <<catalog, schedule, lastDate, lastSlot>> /\ now' \in Nat
    BY <2>1
  <2>2. ASSUME NEW j \in Jobs, RemoveSchedule(j) PROVE ScheduleInv'
    BY <2>2 DEF RemoveSchedule
  <2>3. ASSUME NEW j \in Jobs, NEW s \in catalog.schedules[j], SetSchedule(j, s) PROVE ScheduleInv'
    BY <2>3 DEF SetSchedule
  <2>4. CASE OfferScheduled
    <3>1. PICK d \in Admissible : Consume(d)
      BY <2>4 DEF OfferScheduled
    <3>2. d[1] \in Int /\ d[2] \in Jobs
      BY <3>1, ClockAssumption DEF Admissible, Due
    <3>3. lastSlot' \in [Jobs -> Int] /\ DOMAIN lastDate' = Jobs
      BY <3>1, <3>2 DEF Consume
    <3> QED
      BY <2>4, <3>3 DEF OfferScheduled
  <2>5. CASE ClockMoves
    BY <2>5, ClockAssumption DEF ClockMoves, store
  <2>6. CASE UNCHANGED vars
    BY <2>6, <2>1 DEF vars, store
  <2>7. CASE Configure
    BY <2>7, <2>1, <2>2, <2>3 DEF Configure, Disable, Enable, SetTrigger, RemoveTrigger
  <2>8. CASE Monitor
    BY <2>8, <2>1 DEF Monitor, Sample, PowerReadFails, store
  <2>9. CASE Admission /\ ~OfferScheduled
    BY <2>9, <2>1 DEF Admission, HandleRaised, HandleCleared, SignalReady, BeginPoll, Activate,
                      ActivationFails, EndPoll, store
  <2>10. CASE Execution
    BY <2>10, <2>1 DEF Execution, StartJobRun, WorkBegins, WorkEnds, RunEnds, AttentionChanges, store
  <2>11. CASE Start \/ Leave
    BY <2>11, <2>1 DEF Start, Leave
  <2> QED
    BY <2>4, <2>5, <2>6, <2>7, <2>8, <2>9, <2>10, <2>11 DEF Next
<1> QED
  BY <1>1, <1>2, PTL DEF Spec

\* A slot that begins is one that has come: an hourly one is later than those used before,
\* a daily one is of today, which is not the date used last.
LEMMA ConsumedIsNew ==
  ASSUME ScheduleInv, NEW d \in Due, Consume(d)
  PROVE  /\ d[2] \in Jobs
         /\ \/ /\ schedule[d[2]].cadence = "hourly" /\ lastDate' = lastDate
               /\ lastSlot' = [lastSlot EXCEPT ![d[2]] = d[1]]
               /\ d[1] \in Int /\ d[1] > lastSlot[d[2]] /\ d[1] <= now
            \/ /\ schedule[d[2]].cadence # "hourly" /\ lastSlot' = lastSlot
               /\ lastDate' = [lastDate EXCEPT ![d[2]] = now \div Day]
               /\ lastDate[d[2]] # now \div Day
<1> DEFINE j == d[2]
           t == d[1]
<1>1. j \in Jobs /\ t \in DueSlot(j) /\ t \in Int
  BY ClockAssumption DEF Due
<1>2. schedule[j] # NoSchedule /\ t \in Slots(schedule[j]) /\ Unused(j, t)
  BY <1>1 DEF DueSlot
<1>3. schedule[j].at \in 0 .. Day - 1
  <2>1. catalog.schedules \in [Jobs -> SUBSET [cadence : {"hourly", "daily"}, at : 0 .. Day - 1]]
    BY CatalogsAssumption DEF ScheduleInv
  <2>2. schedule[j] \in catalog.schedules[j]
    BY <1>1, <1>2 DEF ScheduleInv
  <2>3. schedule[j] \in [cadence : {"hourly", "daily"}, at : 0 .. Day - 1]
    BY <1>1, <2>1, <2>2
  <2> QED
    BY <2>3
<1> HIDE DEF j, t
<1>4. CASE schedule[j].cadence = "hourly"
  <2>1. t \in 0 .. now /\ t > lastSlot[j]
    BY <1>2, <1>4 DEF Slots, Unused
  <2>2. lastSlot' = [lastSlot EXCEPT ![j] = t] /\ lastDate' = lastDate
    BY <1>4 DEF Consume, j, t
  <2> QED
    BY <1>1, <1>4, <2>1, <2>2 DEF ScheduleInv, j, t
<1>5. CASE schedule[j].cadence # "hourly"
  <2>1. t = (now \div Day) * Day + schedule[j].at /\ lastDate[j] # now \div Day
    BY <1>2, <1>5 DEF Slots, Unused
  <2>2. now \div Day \in Nat
    BY ClockAssumption DEF ScheduleInv
  <2>3. t \div Day = now \div Day
    BY <1>3, <2>1, <2>2, WithinDay, ClockAssumption
  <2>4. lastDate' = [lastDate EXCEPT ![j] = t \div Day] /\ lastSlot' = lastSlot
    BY <1>5 DEF Consume, j, t
  <2> QED
    BY <1>1, <1>5, <2>1, <2>3, <2>4 DEF ScheduleInv, j, t
<1> QED
  BY <1>4, <1>5

\* Wherever the clock is set, an hourly instant is later than those used before, a daily
\* slot is used for today's date and not for the one used last, and no scheduled occurrence
\* begins without the slot of its cadence (sqlite_store.py, create_scheduled_run).
THEOREM SlotsForward == Spec => ScheduledForward
<1> DEFINE A == \A j \in Jobs :
                  /\ lastSlot'[j] # lastSlot[j] => lastSlot'[j] > lastSlot[j] /\ lastSlot'[j] <= now
                  /\ lastDate'[j] # lastDate[j] =>
                       lastDate'[j] = now \div Day \/ schedule'[j] = NoSchedule
                  /\ loop.routine = "polling" /\ loop.left = {} /\ j \in live' \ live
                       => IF schedule[j].cadence = "hourly" THEN lastSlot'[j] # lastSlot[j]
                          ELSE lastDate'[j] # lastDate[j]
<1>1. ScheduleInv /\ [Next]_vars => [A]_vars
  <2> DEFINE Hourly(j) == lastSlot'[j] # lastSlot[j] => lastSlot'[j] > lastSlot[j] /\ lastSlot'[j] <= now
             Daily(j) == lastDate'[j] # lastDate[j] =>
                           lastDate'[j] = now \div Day \/ schedule'[j] = NoSchedule
             Used(j) == loop.routine = "polling" /\ loop.left = {} /\ j \in live' \ live
                          => IF schedule[j].cadence = "hourly" THEN lastSlot'[j] # lastSlot[j]
                             ELSE lastDate'[j] # lastDate[j]
  <2> SUFFICES ASSUME ScheduleInv, Next, NEW j \in Jobs PROVE Hourly(j) /\ Daily(j) /\ Used(j)
    OBVIOUS
  <2>1. CASE OfferScheduled
    <3>1. PICK d \in Admissible : Consume(d) /\ Begins(d[2])
      BY <2>1 DEF OfferScheduled
    <3>2. d \in Due /\ live' \subseteq live \cup {d[2]}
      BY <3>1 DEF Admissible, Begins
    <3>3. d[2] \in Jobs /\ lastSlot \in [Jobs -> Int] /\ DOMAIN lastDate = Jobs
      BY <3>1, <3>2, ConsumedIsNew DEF ScheduleInv
    <3>4. CASE /\ schedule[d[2]].cadence = "hourly" /\ lastDate' = lastDate
               /\ lastSlot' = [lastSlot EXCEPT ![d[2]] = d[1]]
               /\ d[1] \in Int /\ d[1] > lastSlot[d[2]] /\ d[1] <= now
      BY <3>2, <3>3, <3>4
    <3>5. CASE /\ schedule[d[2]].cadence # "hourly" /\ lastSlot' = lastSlot
               /\ lastDate' = [lastDate EXCEPT ![d[2]] = now \div Day]
               /\ lastDate[d[2]] # now \div Day
      <4>1. \A i \in Jobs : lastDate'[i] = IF i = d[2] THEN now \div Day ELSE lastDate[i]
        BY <3>3, <3>5
      <4>. QED BY <3>2, <3>3, <3>5, <4>1
    <3> QED
      BY <3>1, <3>2, <3>4, <3>5, ConsumedIsNew
  <2>2. CASE ~OfferScheduled
    <3>1. lastSlot' = lastSlot /\ Daily(j)
      <4>0. ASSUME NEW i \in Jobs, RemoveSchedule(i) PROVE lastSlot' = lastSlot /\ Daily(j)
        <5>1. /\ schedule' = [schedule EXCEPT ![i] = NoSchedule] /\ lastSlot' = lastSlot
              /\ lastDate' = [lastDate EXCEPT ![i] = Never]
          BY <4>0 DEF RemoveSchedule
        <5>. QED BY <4>0, <5>1 DEF ScheduleInv
      <4>1. CASE Configure
        BY <4>0, <4>1 DEF Configure, Disable, Enable, SetTrigger, RemoveTrigger, SetSchedule
      <4>2. CASE Monitor
        BY <4>2 DEF Monitor, Sample, PowerReadFails, store
      <4>3. CASE Admission
        BY <4>3, <2>2 DEF Admission, HandleRaised, HandleCleared, SignalReady, BeginPoll, Activate,
                          ActivationFails, EndPoll, store
      <4>4. CASE Execution
        BY <4>4 DEF Execution, StartJobRun, WorkBegins, WorkEnds, RunEnds, AttentionChanges, store
      <4>5. CASE Start \/ Leave \/ ClockMoves
        BY <4>5 DEF Start, Leave, ClockMoves, store
      <4> QED
        BY <4>1, <4>2, <4>3, <4>4, <4>5 DEF Next
    <3>2. loop.routine = "polling" /\ loop.left = {} => ~(j \in live' \ live)
      BY <2>2, PollStep
    <3> QED
      BY <3>1, <3>2
  <2> QED
    BY <2>1, <2>2
<1> QED
  BY <1>1, ScheduleInvariance, PTL DEF Spec, ScheduledForward

-----------------------------------------------------------------------------
\* Admission's own view of the store, the Jobs that are live, is a view of what the store
\* promises: whatever polls, handlers, the console and execution do, a Job that begins is
\* enabled and free.
Occupancy == INSTANCE JobOccupancy WITH admitted <- enabled, occupied <- live

\* A start, from a poll or an event, that may have failed and stopped its row again.
LEMMA BeginsOccupies ==
  ASSUME NEW j \in Jobs, j \in enabled, j \notin live, Begins(j), UNCHANGED enabled
  PROVE  Occupancy!OccupancyNext \/ UNCHANGED <<enabled, live>>
BY DEF Begins, Occupancy!OccupancyNext, Occupancy!Occupy

\* Every step of admission is one of the store, or leaves it alone.
LEMMA OccupancyStep ==
  enabled \subseteq Jobs /\ [Next]_vars
    => [Occupancy!OccupancyNext]_<<enabled, live>> /\ (enabled \subseteq Jobs)'
<1>. SUFFICES ASSUME enabled \subseteq Jobs, [Next]_vars
              PROVE  [Occupancy!OccupancyNext]_<<enabled, live>> /\ (enabled \subseteq Jobs)'
  OBVIOUS
<1>1. CASE Configure
  <2>1. ASSUME NEW j \in Jobs, Disable(j) \/ Enable(j)
        PROVE  Occupancy!OccupancyNext /\ (enabled \subseteq Jobs)'
    BY <2>1 DEF Disable, Enable, Occupancy!OccupancyNext, Occupancy!Admit, Occupancy!Exclude
  <2>2. ASSUME NEW k, SetTrigger(k) \/ RemoveTrigger(k) PROVE UNCHANGED <<enabled, live>>
    BY <2>2 DEF SetTrigger, RemoveTrigger
  <2>3. ASSUME NEW j \in Jobs, RemoveSchedule(j) \/ \E s \in catalog.schedules[j] : SetSchedule(j, s)
        PROVE  UNCHANGED <<enabled, live>>
    BY <2>3 DEF RemoveSchedule, SetSchedule
  <2>. QED BY <1>1, <2>1, <2>2, <2>3 DEF Configure
<1>2. CASE Activate
  <2>1. CASE Outcome(Foremost, Foremost \in pending) = "begins"
    <3>1. Begins(Foremost[1]) /\ UNCHANGED enabled
      BY <1>2, <2>1 DEF Activate
    <3>2. Foremost[1] \in enabled /\ Foremost[1] \notin live
      BY <2>1 DEF Outcome
    <3>. QED BY <3>1, <3>2, BeginsOccupies
  <2>2. CASE Outcome(Foremost, Foremost \in pending) # "begins"
    BY <1>2, <2>2 DEF Activate
  <2>. QED BY <2>1, <2>2
<1>3. CASE OfferScheduled
  <2>1. PICK d \in Admissible : Begins(d[2])
    BY <1>3 DEF OfferScheduled
  <2>2. d[2] \in enabled /\ d[2] \notin live /\ UNCHANGED enabled
    BY <1>3 DEF OfferScheduled, Admissible
  <2>. QED BY <2>1, <2>2, BeginsOccupies
<1>4. CASE Execution
  <2>1. ASSUME NEW j \in Jobs, StartJobRun(j) PROVE Occupancy!OccupancyNext /\ UNCHANGED enabled
    BY <2>1 DEF StartJobRun, Occupancy!OccupancyNext, Occupancy!Occupy
  <2>2. ASSUME NEW j \in Jobs, RunEnds(j) PROVE Occupancy!OccupancyNext /\ UNCHANGED enabled
    BY <2>2 DEF RunEnds, Occupancy!OccupancyNext, Occupancy!Vacate
  <2>3. ASSUME NEW j \in Jobs, WorkBegins(j) \/ WorkEnds(j) PROVE UNCHANGED <<enabled, live>>
    BY <2>3 DEF WorkBegins, WorkEnds, store
  <2>4. ASSUME AttentionChanges PROVE UNCHANGED <<enabled, live>>
    BY <2>4 DEF AttentionChanges, store
  <2>. QED BY <1>4, <2>1, <2>2, <2>3, <2>4 DEF Execution
<1>5. CASE Start \/ Leave
  BY <1>5 DEF Start, Leave, Occupancy!OccupancyNext, Occupancy!VacateAll
<1>6. CASE Monitor
  BY <1>6 DEF Monitor, Sample, PowerReadFails, store
<1>7. CASE \/ \E c \in Conditions : HandleRaised(c) \/ HandleCleared(c)
           \/ SignalReady \/ BeginPoll \/ ActivationFails \/ EndPoll \/ ClockMoves
           \/ UNCHANGED vars
  BY <1>7 DEF HandleRaised, HandleCleared, SignalReady, BeginPoll, ActivationFails, EndPoll, ClockMoves,
              OfferTo, store, vars
<1>. QED BY <1>1, <1>2, <1>3, <1>4, <1>5, <1>6, <1>7 DEF Next, Admission

\* Admission, with everything that begins by itself, implements what the store promises.
THEOREM AdmissionImplementsOccupancy == Spec => Occupancy!OccupancySpec
<1>1. Init => Occupancy!OccupancyInit /\ enabled \subseteq Jobs
  BY DEF Init, Occupancy!OccupancyInit
<1>2. enabled \subseteq Jobs /\ [Next]_vars
        => [Occupancy!OccupancyNext]_Occupancy!occupancyVars /\ (enabled \subseteq Jobs)'
  BY OccupancyStep DEF Occupancy!occupancyVars
<1>. QED BY <1>1, <1>2, PTL DEF Spec, Occupancy!OccupancySpec
=============================================================================
