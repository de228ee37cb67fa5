--------------------------- MODULE EventBus_proofs ---------------------------
(***************************************************************************)
(* Theorems about EventBus for any number of subscriptions, publishers and *)
(* events and any capacity: a closed subscription is quiet, or cancelled   *)
(* and joined by whoever closed it, when stop() has returned so is every   *)
(* subscription, and the bus, with its queues, putters and cancellations,  *)
(* implements what EventDelivery promises.                                 *)
(*                                                                         *)
(* The argument.  The refinement reads off the stages of the enqueue tasks *)
(* what a subscription is still owed.  It needs to know that waking the    *)
(* first putter never brings back the task of an event that was accepted   *)
(* or withdrawn, which is so since whoever is a putter waits for room and  *)
(* is there once (QueueSound); that a subscription not yet there is        *)
(* owed nothing and a new event is nobody's yet (OwedSound); and that a    *)
(* worker that runs has a subscription that is attached, and between two   *)
(* handlers no event in hand (WorkerSound).  That nothing is left attached *)
(* when stop() is through takes that what it has not come to is all that   *)
(* is attached, for nobody subscribes to a bus that stops.                 *)
(***************************************************************************)
EXTENDS EventBus, SequenceTheorems, TLAPS

-----------------------------------------------------------------------------
\* An event is a publisher with a number of its own.
LEMMA EventParts ==
  \A e : e \in Events <=> /\ e = <<e[1], e[2]>> /\ e[1] \in Publishers
                          /\ e[2] \in 1 .. MaxEvents[e[1]]
<1>1. ASSUME NEW e \in Events
      PROVE  e = <<e[1], e[2]>> /\ e[1] \in Publishers /\ e[2] \in 1 .. MaxEvents[e[1]]
  <2>1. PICK p \in Publishers : e \in {p} \X (1 .. MaxEvents[p])
    BY DEF Events
  <2>. QED BY <2>1
<1>2. ASSUME NEW e, e = <<e[1], e[2]>>, e[1] \in Publishers, e[2] \in 1 .. MaxEvents[e[1]]
      PROVE  e \in Events
  <2>1. e \in {e[1]} \X (1 .. MaxEvents[e[1]])
    BY <1>2
  <2>. QED BY <1>2, <2>1 DEF Events
<1>. QED BY <1>1, <1>2

-----------------------------------------------------------------------------
\* Queues of putters: no event waits twice.
Distinct(q) == \A i, j \in DOMAIN q : q[i] = q[j] => i = j

\* deque.popleft: the first one leaves, and it is nowhere else in the queue.
LEMMA TailOfDistinct ==
  ASSUME NEW S, NEW q \in Seq(S), q # <<>>, Distinct(q)
  PROVE  /\ Tail(q) \in Seq(S) /\ Distinct(Tail(q)) /\ Head(q) \in ToSet(q)
         /\ ToSet(Tail(q)) \subseteq ToSet(q) \ {Head(q)}
<1>1. /\ Tail(q) \in Seq(S) /\ DOMAIN Tail(q) = 1 .. Len(q) - 1
      /\ \A i \in 1 .. Len(q) - 1 : Tail(q)[i] = q[i + 1]
  BY HeadTailProperties
<1>2. Len(q) \in Nat /\ Len(q) >= 1 /\ DOMAIN q = 1 .. Len(q) /\ Head(q) = q[1]
  OBVIOUS
<1>3. Distinct(Tail(q))
  <2>. SUFFICES ASSUME NEW i \in 1 .. Len(q) - 1, NEW j \in 1 .. Len(q) - 1,
                       Tail(q)[i] = Tail(q)[j]
                PROVE  i = j
    BY <1>1 DEF Distinct
  <2>1. q[i + 1] = q[j + 1] /\ i + 1 \in DOMAIN q /\ j + 1 \in DOMAIN q
    BY <1>1, <1>2
  <2>2. i + 1 = j + 1
    BY <2>1 DEF Distinct
  <2>. QED BY <2>2
<1>4. ASSUME NEW x \in ToSet(Tail(q)) PROVE x \in ToSet(q) \ {Head(q)}
  <2>1. PICK i \in 1 .. Len(q) - 1 : x = Tail(q)[i]
    BY <1>1 DEF ToSet
  <2>2. x = q[i + 1] /\ i + 1 \in DOMAIN q /\ 1 \in DOMAIN q /\ i + 1 # 1
    BY <1>1, <1>2, <2>1
  <2>. QED BY <1>2, <2>2 DEF Distinct, ToSet
<1>5. Head(q) \in ToSet(q)
  BY <1>2 DEF ToSet
<1>. QED BY <1>1, <1>3, <1>4, <1>5

\* deque.append of an event that does not wait yet.
LEMMA AppendToDistinct ==
  ASSUME NEW S, NEW q \in Seq(S), NEW e \in S, Distinct(q), e \notin ToSet(q)
  PROVE  /\ Append(q, e) \in Seq(S) /\ Distinct(Append(q, e))
         /\ ToSet(Append(q, e)) \subseteq ToSet(q) \cup {e}
<1>1. /\ Append(q, e) \in Seq(S) /\ DOMAIN Append(q, e) = 1 .. Len(q) + 1
      /\ Len(q) \in Nat /\ DOMAIN q = 1 .. Len(q)
      /\ \A i \in 1 .. Len(q) : Append(q, e)[i] = q[i]
      /\ Append(q, e)[Len(q) + 1] = e
  BY AppendProperties
<1>2. \A i \in 1 .. Len(q) : Append(q, e)[i] # e /\ Append(q, e)[i] \in ToSet(q)
  BY <1>1 DEF ToSet
<1>3. Distinct(Append(q, e))
  <2>. SUFFICES ASSUME NEW i \in 1 .. Len(q) + 1, NEW j \in 1 .. Len(q) + 1,
                       Append(q, e)[i] = Append(q, e)[j]
                PROVE  i = j
    BY <1>1 DEF Distinct
  <2>1. CASE i = Len(q) + 1 \/ j = Len(q) + 1
    BY <1>1, <1>2, <2>1
  <2>2. CASE i \in 1 .. Len(q) /\ j \in 1 .. Len(q)
    BY <1>1, <2>2 DEF Distinct
  <2>. QED BY <1>1, <2>1, <2>2
<1>4. ASSUME NEW x \in ToSet(Append(q, e)) PROVE x \in ToSet(q) \cup {e}
  <2>1. PICK i \in 1 .. Len(q) + 1 : x = Append(q, e)[i]
    BY <1>1 DEF ToSet
  <2>. QED BY <1>1, <1>2, <2>1
<1>. QED BY <1>1, <1>3, <1>4

\* deque.remove: it leaves the others, once each.
LEMMA WithoutOfDistinct ==
  ASSUME NEW S, NEW q \in Seq(S), NEW e, Distinct(q)
  PROVE  /\ RemoveFirst(q, e) \in Seq(S) /\ Distinct(RemoveFirst(q, e))
         /\ ToSet(RemoveFirst(q, e)) \subseteq ToSet(q) \ {e}
<1>1. CASE e \notin ToSet(q)
  <2>1. ~\E i \in 1 .. Len(q) : q[i] = e
    BY <1>1 DEF ToSet
  <2>. QED BY <1>1, <2>1 DEF RemoveFirst
<1>2. CASE e \in ToSet(q)
  <2>0. PICK n \in DOMAIN q : q[n] = e
    BY <1>2 DEF ToSet
  <2>. DEFINE a == SubSeq(q, 1, n - 1)
              b == SubSeq(q, n + 1, Len(q))
              at(i) == IF i < n THEN i ELSE i + 1
  <2>1. n \in DOMAIN q /\ q[n] = e
    BY <2>0
  <2>2. n \in 1 .. Len(q) /\ Len(q) \in Nat /\ DOMAIN q = 1 .. Len(q)
    BY <2>1
  <2>3. RemoveFirst(q, e) = a \o b
    <3>1. {i \in 1 .. Len(q) : q[i] = e} = {n}
      BY <2>1, <2>2 DEF Distinct
    <3>2. Min({n}) = n
      BY <2>2 DEF Min
    <3>3. SelectInSeq(q, LAMBDA v : v = e) = n
      BY <3>1, <3>2 DEF SelectInSeq
    <3>. QED BY <2>1, <2>2, <3>3 DEF RemoveFirst, RemoveAt
  <2>4. \A i \in 1 .. Len(q) : q[i] \in S
    BY <2>2
  <2>5. a \in Seq(S) /\ Len(a) = n - 1 /\ \A i \in 1 .. n - 1 : a[i] = q[i]
    <3>1. n - 1 \in Int /\ \A i \in 1 .. n - 1 : q[i] \in S
      BY <2>2, <2>4
    <3>2. /\ a \in Seq(S) /\ Len(a) = IF 1 <= n - 1 THEN (n - 1) - 1 + 1 ELSE 0
          /\ \A i \in 1 .. (n - 1) - 1 + 1 : a[i] = q[1 + i - 1]
      BY <3>1, SubSeqProperties
    <3>. QED BY <2>2, <3>2
  <2>6. /\ b \in Seq(S) /\ Len(b) = Len(q) - n
        /\ \A i \in 1 .. Len(q) - n : b[i] = q[n + i]
    <3>1. n + 1 \in Int /\ Len(q) \in Int /\ \A i \in n + 1 .. Len(q) : q[i] \in S
      BY <2>2, <2>4
    <3>2. /\ b \in Seq(S)
          /\ Len(b) = IF n + 1 <= Len(q) THEN Len(q) - (n + 1) + 1 ELSE 0
          /\ \A i \in 1 .. Len(q) - (n + 1) + 1 : b[i] = q[(n + 1) + i - 1]
      BY <3>1, SubSeqProperties
    <3>3. Len(b) = Len(q) - n
      <4>1. CASE n + 1 <= Len(q)
        <5>1. Len(b) = Len(q) - (n + 1) + 1
          BY <3>2, <4>1
        <5>. HIDE DEF b
        <5>. QED BY <2>2, <5>1
      <4>2. CASE n = Len(q)
        <5>1. ~(n + 1 <= Len(q))
          BY <2>2, <4>2
        <5>2. Len(b) = 0
          BY <3>2, <5>1
        <5>. HIDE DEF b
        <5>. QED BY <2>2, <4>2, <5>2
      <4>3. \A k \in Nat : \A m \in 1 .. k : m + 1 <= k \/ m = k
        OBVIOUS
      <4>4. n + 1 <= Len(q) \/ n = Len(q)
        BY <2>2, <4>3
      <4>. QED BY <4>1, <4>2, <4>4
    <3>4. ASSUME NEW i \in 1 .. Len(q) - n PROVE b[i] = q[n + i]
      <4>1. i \in 1 .. Len(q) - (n + 1) + 1 /\ (n + 1) + i - 1 = n + i
        BY <2>2
      <4>. QED BY <3>2, <4>1
    <3>. QED BY <3>2, <3>3, <3>4
  <2>. HIDE DEF a, b
  <2>7. /\ a \o b \in Seq(S) /\ Len(a \o b) = Len(q) - 1
        /\ \A i \in 1 .. Len(q) - 1 : (a \o b)[i] = q[at(i)]
    <3>1. /\ a \o b \in Seq(S) /\ Len(a \o b) = Len(a) + Len(b)
          /\ \A i \in 1 .. Len(a) + Len(b) :
               (a \o b)[i] = IF i <= Len(a) THEN a[i] ELSE b[i - Len(a)]
      BY <2>5, <2>6, ConcatProperties
    <3>2. ASSUME NEW i \in 1 .. Len(q) - 1 PROVE (a \o b)[i] = q[at(i)]
      <4>1. CASE i < n
        BY <2>2, <2>5, <2>6, <3>1, <4>1
      <4>2. CASE ~(i < n)
        <5>1. (a \o b)[i] = b[i - (n - 1)] /\ i - (n - 1) \in 1 .. Len(q) - n
          BY <2>2, <2>5, <2>6, <3>1, <4>2
        <5>2. n + (i - (n - 1)) = i + 1
          BY <2>2
        <5>. QED BY <2>6, <4>2, <5>1, <5>2
      <4>. QED BY <4>1, <4>2
    <3>. QED BY <2>2, <2>5, <2>6, <3>1, <3>2
  <2>8. \A i \in 1 .. Len(q) - 1 : at(i) \in DOMAIN q /\ at(i) # n
    BY <2>2
  <2>9. DOMAIN (a \o b) = 1 .. Len(q) - 1
    BY <2>7
  <2>10. Distinct(a \o b)
    <3>. SUFFICES ASSUME NEW i \in 1 .. Len(q) - 1, NEW j \in 1 .. Len(q) - 1,
                         (a \o b)[i] = (a \o b)[j]
                  PROVE  i = j
      BY <2>9 DEF Distinct
    <3>1. at(i) = at(j)
      BY <2>7, <2>8 DEF Distinct
    <3>. QED BY <2>2, <3>1
  <2>11. ASSUME NEW x \in ToSet(a \o b) PROVE x \in ToSet(q) \ {e}
    <3>1. PICK i \in 1 .. Len(q) - 1 : x = (a \o b)[i]
      BY <2>9 DEF ToSet
    <3>2. x = q[at(i)] /\ at(i) \in DOMAIN q /\ at(i) # n
      BY <2>7, <2>8, <3>1
    <3>. QED BY <2>1, <3>2 DEF Distinct, ToSet
  <2>. QED BY <2>3, <2>7, <2>10, <2>11
<1>. QED BY <1>1, <1>2

-----------------------------------------------------------------------------
BusStates == {"new", "running", "stopping"}
SubscriptionStates == {"absent", "attached", "closed"}
WorkerStates == {"none", "idle", "handling", "cancelled", "ended"}
Joiners == {"none", "owner", "stop"}
PublishingStates == {"idle", "waiting", "cancelled"}

\* The state of the bus, of its subscriptions with their workers and of the publishers ...
TaskType ==
  /\ bus \in BusStates /\ remaining \subseteq Subscriptions
  /\ state \in [Subscriptions -> SubscriptionStates]
  /\ worker \in [Subscriptions -> WorkerStates]
  /\ current \in [Subscriptions -> Events \cup {NoEvent}]
  /\ joiner \in [Subscriptions -> Joiners]
  /\ sent \in [Publishers -> Nat]
  /\ publishing \in [Publishers -> PublishingStates]

\* ... and of the queues and the enqueue tasks.
QueueType ==
  /\ queue \in [Subscriptions -> Seq(Events)]
  /\ putters \in [Subscriptions -> Seq(Events)]
  /\ stage \in [Events -> [Subscriptions -> Stages]]

TypeOK == TaskType /\ QueueType

\* The worker of a subscription: there is none before it is attached, it runs only while
\* that is attached, only on a bus that was started, has an event in hand only in a handler,
\* and once cancelled it is joined; what is attached when the bus stops is still to be closed.
WorkerSoundAt(s) ==
  /\ state[s] = "absent" => worker[s] = "none"
  /\ worker[s] \in {"idle", "handling"} => state[s] = "attached" /\ bus # "new"
  /\ worker[s] \notin {"handling", "cancelled"} => current[s] = NoEvent
  /\ worker[s] = "cancelled" => Closed(s) /\ joiner[s] # "none"
  /\ bus = "stopping" /\ state[s] = "attached" => s \in remaining
  /\ bus = "new" => worker[s] = "none"

WorkerSound == \A s \in Subscriptions : WorkerSoundAt(s)

\* Who waits for room is a putter whose future is not resolved, once.
QueueSoundAt(s) ==
  Distinct(putters[s]) /\ \A e \in ToSet(putters[s]) : stage[e][s] = "waiting"

QueueSound == \A s \in Subscriptions : QueueSoundAt(s)

\* An enqueue task is for an event that was published, for a subscription that was there.
OwedSound ==
  \A e \in Events, s \in Subscriptions :
    stage[e][s] # "none" => state[s] # "absent" /\ e[2] <= sent[e[1]]

IInv == TypeOK /\ WorkerSound /\ QueueSound /\ OwedSound

-----------------------------------------------------------------------------
\* A putter of a queue is an event of the bus, and so is the first of those queued.
LEMMA SetOfSeq ==
  ASSUME NEW S, NEW q \in Seq(S)
  PROVE  ToSet(q) \subseteq S /\ (q # <<>> => Head(q) \in S /\ Tail(q) \in Seq(S))
BY HeadTailProperties DEF ToSet

\* What a step does to the putters and the stages of one subscription: the first of the
\* putters is woken (Take) ...
Woken(s) ==
  /\ putters[s] # <<>>
  /\ putters' = [putters EXCEPT ![s] = Tail(@)]
  /\ stage' = [stage EXCEPT ![Head(putters[s])][s] = "woken"]

\* ... and it keeps who waits and their types.
LEMMA WokenKeeps ==
  ASSUME QueueType, QueueSound, NEW s \in Subscriptions, Woken(s)
  PROVE  /\ QueueSound'
         /\ putters' \in [Subscriptions -> Seq(Events)]
         /\ stage' \in [Events -> [Subscriptions -> Stages]]
         /\ \A e \in Events, t \in Subscriptions : stage'[e][t] = "none" <=> stage[e][t] = "none"
<1>. DEFINE h == Head(putters[s])
<1>1. putters[s] \in Seq(Events) /\ putters[s] # <<>> /\ Distinct(putters[s])
  BY DEF QueueType, QueueSound, QueueSoundAt, Woken
<1>2. /\ Tail(putters[s]) \in Seq(Events) /\ Distinct(Tail(putters[s]))
      /\ ToSet(Tail(putters[s])) \subseteq ToSet(putters[s]) \ {h}
      /\ h \in ToSet(putters[s])
  BY <1>1, TailOfDistinct
<1>3. h \in Events /\ stage[h][s] = "waiting"
  BY <1>1, <1>2, SetOfSeq DEF QueueSound, QueueSoundAt
<1>. HIDE DEF h
<1>4. /\ \A e \in Events, t \in Subscriptions :
           stage'[e][t] = IF e = h /\ t = s THEN "woken" ELSE stage[e][t]
      /\ stage' \in [Events -> [Subscriptions -> Stages]]
  BY <1>3 DEF Woken, h, QueueType, Stages
<1>5. /\ \A t \in Subscriptions :
           putters'[t] = IF t = s THEN Tail(putters[s]) ELSE putters[t]
      /\ putters' \in [Subscriptions -> Seq(Events)]
  BY <1>2 DEF Woken, QueueType
<1>6. ASSUME NEW t \in Subscriptions PROVE QueueSoundAt(t)'
  <2>1. CASE t = s
    <3>1. putters'[t] = Tail(putters[s])
      BY <1>5, <2>1
    <3>2. \A e \in ToSet(putters'[t]) : e \in Events /\ e # h /\ stage[e][s] = "waiting"
      BY <1>1, <1>2, <3>1, SetOfSeq DEF QueueSound, QueueSoundAt
    <3>. QED BY <1>2, <1>4, <2>1, <3>1, <3>2 DEF QueueSoundAt
  <2>2. CASE t # s
    <3>1. putters'[t] = putters[t] /\ ToSet(putters[t]) \subseteq Events
      BY <1>5, <2>2, SetOfSeq DEF QueueType
    <3>. QED BY <1>4, <2>2, <3>1 DEF QueueSound, QueueSoundAt
  <2>. QED BY <2>1, <2>2
<1>7. \A e \in Events, t \in Subscriptions : stage'[e][t] = "none" <=> stage[e][t] = "none"
  BY <1>3, <1>4
<1>. QED BY <1>4, <1>5, <1>6, <1>7 DEF QueueSound

\* A put that is taken back, whatever it had come to: its stage is gone, nobody else's
\* comes or goes, and who waits still does so once.
LEMMA TakenBackKeeps ==
  ASSUME QueueType, QueueSound, NEW e \in Events, NEW s \in Subscriptions,
         stage[e][s] # "none", TakenBack(e, s)
  PROVE  /\ QueueSound'
         /\ putters' \in [Subscriptions -> Seq(Events)]
         /\ stage' \in [Events -> [Subscriptions -> Stages]]
         /\ \A f \in Events, t \in Subscriptions :
              stage'[f][t] = "none" <=> stage[f][t] = "none" \/ (f = e /\ t = s)
<1>. DEFINE wakes == stage[e][s] = "woken" /\ ~Full(s) /\ putters[s] # <<>>
            h == Head(putters[s])
<1>1. putters[s] \in Seq(Events) /\ Distinct(putters[s])
  BY DEF QueueType, QueueSound, QueueSoundAt
<1>2. CASE wakes
  <2>1. /\ Tail(putters[s]) \in Seq(Events) /\ Distinct(Tail(putters[s]))
        /\ ToSet(Tail(putters[s])) \subseteq ToSet(putters[s]) \ {h}
        /\ h \in ToSet(putters[s])
    BY <1>1, <1>2, TailOfDistinct
  <2>2. h \in Events /\ stage[h][s] = "waiting"
    BY <1>1, <2>1, SetOfSeq DEF QueueSound, QueueSoundAt
  <2>3. h # e
    BY <1>2, <2>2
  <2>4. /\ putters' = [putters EXCEPT ![s] = Tail(@)]
        /\ stage' = [stage EXCEPT ![h][s] = "woken", ![e][s] = "none"]
    BY <1>2 DEF TakenBack
  <2>. HIDE DEF h
  <2>5. /\ \A f \in Events, t \in Subscriptions :
             stage'[f][t] = IF f = e /\ t = s THEN "none"
                            ELSE IF f = h /\ t = s THEN "woken" ELSE stage[f][t]
        /\ stage' \in [Events -> [Subscriptions -> Stages]]
    BY <2>2, <2>3, <2>4 DEF QueueType, Stages
  <2>6. /\ \A t \in Subscriptions :
             putters'[t] = IF t = s THEN Tail(putters[s]) ELSE putters[t]
        /\ putters' \in [Subscriptions -> Seq(Events)]
    BY <2>1, <2>4 DEF QueueType
  <2>7. ASSUME NEW t \in Subscriptions PROVE QueueSoundAt(t)'
    <3>1. CASE t = s
      <4>1. putters'[t] = Tail(putters[s])
        BY <2>6, <3>1
      <4>2. \A f \in ToSet(putters'[t]) :
              f \in Events /\ f # h /\ f # e /\ stage[f][s] = "waiting"
        BY <1>1, <1>2, <2>1, <4>1, SetOfSeq DEF QueueSound, QueueSoundAt
      <4>. QED BY <2>1, <2>5, <3>1, <4>1, <4>2 DEF QueueSoundAt
    <3>2. CASE t # s
      <4>1. putters'[t] = putters[t] /\ ToSet(putters[t]) \subseteq Events
        BY <2>6, <3>2, SetOfSeq DEF QueueType
      <4>. QED BY <2>5, <3>2, <4>1 DEF QueueSound, QueueSoundAt
    <3>. QED BY <3>1, <3>2
  <2>8. \A f \in Events, t \in Subscriptions :
          stage'[f][t] = "none" <=> stage[f][t] = "none" \/ (f = e /\ t = s)
    BY <2>2, <2>5
  <2>. QED BY <2>5, <2>6, <2>7, <2>8 DEF QueueSound
<1>3. CASE ~wakes
  <2>1. /\ RemoveFirst(putters[s], e) \in Seq(Events) /\ Distinct(RemoveFirst(putters[s], e))
        /\ ToSet(RemoveFirst(putters[s], e)) \subseteq ToSet(putters[s]) \ {e}
    BY <1>1, WithoutOfDistinct
  <2>2. /\ putters' = [putters EXCEPT ![s] = RemoveFirst(@, e)]
        /\ stage' = [stage EXCEPT ![e][s] = "none"]
    BY <1>3 DEF TakenBack
  <2>3. /\ \A f \in Events, t \in Subscriptions :
             stage'[f][t] = IF f = e /\ t = s THEN "none" ELSE stage[f][t]
        /\ stage' \in [Events -> [Subscriptions -> Stages]]
    BY <2>2 DEF QueueType, Stages
  <2>4. /\ \A t \in Subscriptions :
             putters'[t] = IF t = s THEN RemoveFirst(putters[s], e) ELSE putters[t]
        /\ putters' \in [Subscriptions -> Seq(Events)]
    BY <2>1, <2>2 DEF QueueType
  <2>5. ASSUME NEW t \in Subscriptions PROVE QueueSoundAt(t)'
    <3>1. CASE t = s
      <4>1. putters'[t] = RemoveFirst(putters[s], e)
        BY <2>4, <3>1
      <4>2. \A f \in ToSet(putters'[t]) : f \in Events /\ f # e /\ stage[f][s] = "waiting"
        BY <1>1, <2>1, <4>1, SetOfSeq DEF QueueSound, QueueSoundAt
      <4>. QED BY <2>1, <2>3, <3>1, <4>1, <4>2 DEF QueueSoundAt
    <3>2. CASE t # s
      <4>1. putters'[t] = putters[t] /\ ToSet(putters[t]) \subseteq Events
        BY <2>4, <3>2, SetOfSeq DEF QueueType
      <4>. QED BY <2>3, <3>2, <4>1 DEF QueueSound, QueueSoundAt
    <3>. QED BY <3>1, <3>2
  <2>6. \A f \in Events, t \in Subscriptions :
          stage'[f][t] = "none" <=> stage[f][t] = "none" \/ (f = e /\ t = s)
    BY <2>3
  <2>. QED BY <2>3, <2>4, <2>5, <2>6 DEF QueueSound
<1>. QED BY <1>2, <1>3

\* A put that finds room, and one that waits for it: nobody else's stage changes, and who
\* waits is a putter once.
LEMMA PutKeeps ==
  ASSUME QueueType, QueueSound, NEW e \in Events, NEW s \in Subscriptions, Put(e, s)
  PROVE  /\ QueueType' /\ QueueSound'
         /\ \A f \in Events, t \in Subscriptions :
              stage'[f][t] = "none" <=> stage[f][t] = "none" \/ (~Full(s) /\ f = e /\ t = s)
<1>1. putters[s] \in Seq(Events) /\ Distinct(putters[s]) /\ queue[s] \in Seq(Events)
  BY DEF QueueType, QueueSound, QueueSoundAt
<1>2. stage[e][s] \in {"created", "woken"} /\ e \notin ToSet(putters[s])
  BY DEF Put, QueueSound, QueueSoundAt
<1>3. CASE Full(s)
  <2>1. /\ stage' = [stage EXCEPT ![e][s] = "waiting"]
        /\ putters' = [putters EXCEPT ![s] = Append(@, e)]
        /\ queue' = queue
    BY <1>3 DEF Put
  <2>2. /\ Append(putters[s], e) \in Seq(Events) /\ Distinct(Append(putters[s], e))
        /\ ToSet(Append(putters[s], e)) \subseteq ToSet(putters[s]) \cup {e}
    BY <1>1, <1>2, AppendToDistinct
  <2>3. /\ \A f \in Events, t \in Subscriptions :
             stage'[f][t] = IF f = e /\ t = s THEN "waiting" ELSE stage[f][t]
        /\ stage' \in [Events -> [Subscriptions -> Stages]]
    BY <2>1 DEF QueueType, Stages
  <2>4. /\ \A t \in Subscriptions :
             putters'[t] = IF t = s THEN Append(putters[s], e) ELSE putters[t]
        /\ putters' \in [Subscriptions -> Seq(Events)]
    BY <2>1, <2>2 DEF QueueType
  <2>5. ASSUME NEW t \in Subscriptions PROVE QueueSoundAt(t)'
    <3>1. CASE t = s
      <4>1. putters'[t] = Append(putters[s], e)
        BY <2>4, <3>1
      <4>2. \A f \in ToSet(putters'[t]) :
              f \in Events /\ (f = e \/ stage[f][s] = "waiting")
        BY <1>1, <2>2, <4>1, SetOfSeq DEF QueueSound, QueueSoundAt
      <4>. QED BY <2>2, <2>3, <3>1, <4>1, <4>2 DEF QueueSoundAt
    <3>2. CASE t # s
      <4>1. putters'[t] = putters[t] /\ ToSet(putters[t]) \subseteq Events
        BY <2>4, <3>2, SetOfSeq DEF QueueType
      <4>. QED BY <2>3, <3>2, <4>1 DEF QueueSound, QueueSoundAt
    <3>. QED BY <3>1, <3>2
  <2>6. \A f \in Events, t \in Subscriptions : stage'[f][t] = "none" <=> stage[f][t] = "none"
    BY <1>2, <2>3
  <2>. QED BY <1>3, <2>1, <2>3, <2>4, <2>5, <2>6 DEF QueueSound, QueueType
<1>4. CASE ~Full(s)
  <2>1. /\ stage' = [stage EXCEPT ![e][s] = "none"]
        /\ queue' = [queue EXCEPT ![s] = Append(@, e)]
        /\ putters' = putters
    BY <1>4 DEF Put
  <2>2. /\ \A f \in Events, t \in Subscriptions :
             stage'[f][t] = IF f = e /\ t = s THEN "none" ELSE stage[f][t]
        /\ stage' \in [Events -> [Subscriptions -> Stages]]
    BY <2>1 DEF QueueType, Stages
  <2>3. queue' \in [Subscriptions -> Seq(Events)]
    BY <1>1, <2>1 DEF QueueType
  <2>4. ASSUME NEW t \in Subscriptions PROVE QueueSoundAt(t)'
    <3>1. ToSet(putters[t]) \subseteq Events /\ \A f \in ToSet(putters[t]) : f = e => t # s
      BY <1>2, SetOfSeq DEF QueueType
    <3>. QED BY <2>1, <2>2, <3>1 DEF QueueSound, QueueSoundAt
  <2>. QED BY <1>4, <2>1, <2>2, <2>3, <2>4 DEF QueueSound, QueueType
<1>. QED BY <1>3, <1>4

\* A new event is owed to those who are attached, and to nobody before.
LEMMA PublishKeeps ==
  ASSUME IInv, NEW p \in Publishers, Publish(p)
  PROVE  /\ <<p, sent[p] + 1>> \in Events
         /\ QueueType' /\ QueueSound'
         /\ \A f \in Events, t \in Subscriptions :
              /\ f = <<p, sent[p] + 1>> => stage[f][t] = "none"
              /\ stage'[f][t] # "none" <=> \/ stage[f][t] # "none"
                                           \/ f = <<p, sent[p] + 1>> /\ state[t] = "attached"
<1>. DEFINE e == <<p, sent[p] + 1>>
<1>1. e \in Events /\ e[1] = p /\ e[2] = sent[p] + 1
  <2>1. sent[p] + 1 \in 1 .. MaxEvents[p]
    <3>1. sent[p] \in Nat /\ MaxEvents[p] \in Nat
      BY MaxEventsAssumption DEF IInv, TypeOK, TaskType
    <3>2. sent[p] < MaxEvents[p]
      BY DEF Publish
    <3>. QED BY <3>1, <3>2
  <2>. QED BY <2>1, EventParts
<1>2. \A t \in Subscriptions : stage[e][t] = "none"
  <2>1. sent[p] \in Nat /\ sent[e[1]] = sent[p] /\ ~(e[2] <= sent[p])
    BY <1>1 DEF IInv, TypeOK, TaskType
  <2>. QED BY <1>1, <2>1 DEF IInv, OwedSound
<1>3. /\ \A f \in Events, t \in Subscriptions :
           stage'[f][t] = IF f = e THEN IF state[t] = "attached" THEN "created" ELSE "none"
                          ELSE stage[f][t]
      /\ stage' \in [Events -> [Subscriptions -> Stages]]
  <2>. DEFINE made == [t \in Subscriptions |-> IF state[t] = "attached" THEN "created" ELSE "none"]
  <2>1. stage' = [stage EXCEPT ![e] = made] /\ stage \in [Events -> [Subscriptions -> Stages]]
    BY DEF Publish, IInv, TypeOK, QueueType
  <2>2. made \in [Subscriptions -> Stages]
    BY DEF Stages
  <2>. HIDE DEF e
  <2>. QED BY <1>1, <2>1, <2>2
<1>. HIDE DEF e
<1>4. putters' = putters /\ queue' = queue /\ QueueType
  BY DEF Publish, channels, IInv, TypeOK
<1>5. ASSUME NEW t \in Subscriptions PROVE QueueSoundAt(t)'
  <2>1. QueueSoundAt(t) /\ ToSet(putters[t]) \subseteq Events
    BY <1>4, SetOfSeq DEF IInv, QueueSound, QueueType
  <2>2. \A f \in ToSet(putters[t]) : f # e
    BY <1>2, <2>1 DEF QueueSoundAt
  <2>. QED BY <1>3, <1>4, <2>1, <2>2 DEF QueueSoundAt
<1>6. QueueType' /\ QueueSound'
  BY <1>3, <1>4, <1>5 DEF QueueType, QueueSound
<1>7. \A f \in Events, t \in Subscriptions :
        /\ f = e => stage[f][t] = "none"
        /\ stage'[f][t] # "none" <=> stage[f][t] # "none" \/ (f = e /\ state[t] = "attached")
  BY <1>2, <1>3
<1>. QED BY <1>1, <1>6, <1>7 DEF e

\* Closing drops what is queued and who waits in the queue; the enqueue tasks stay.
LEMMA CloseKeeps ==
  ASSUME QueueType, QueueSound, NEW s \in Subscriptions, NEW by, Close(s, by)
  PROVE  QueueType' /\ QueueSound' /\ stage' = stage
<1>1. stage' = stage
  BY DEF Close, publishers
<1>2. <<>> \in Seq(Events) /\ Distinct(<<>>) /\ ToSet(<<>>) = {}
  BY DEF Distinct, ToSet
<1>3. QueueType'
  BY <1>1, <1>2 DEF Close, QueueType
<1>4. \A t \in Subscriptions : putters'[t] = IF t = s THEN <<>> ELSE putters[t]
  BY DEF Close, QueueType
<1>5. QueueSound'
  BY <1>1, <1>2, <1>4 DEF QueueSound, QueueSoundAt
<1>. QED BY <1>1, <1>3, <1>5

\* The worker takes the first event of the queue and wakes whoever waits first.
LEMMA TakeKeeps ==
  ASSUME QueueType, QueueSound, NEW s \in Subscriptions, Take(s)
  PROVE  /\ QueueType' /\ QueueSound'
         /\ \A f \in Events, t \in Subscriptions : stage'[f][t] = "none" <=> stage[f][t] = "none"
<1>1. queue' \in [Subscriptions -> Seq(Events)]
  BY SetOfSeq DEF Take, QueueType
<1>2. CASE putters[s] = <<>>
  BY <1>1, <1>2 DEF Take, Wakes, QueueType, QueueSound, QueueSoundAt
<1>3. CASE putters[s] # <<>>
  <2>1. Woken(s)
    BY <1>3 DEF Take, Wakes, Woken
  <2>. QED BY <1>1, <2>1, WokenKeeps DEF QueueType
<1>. QED BY <1>2, <1>3

-----------------------------------------------------------------------------
\* Every step keeps the queues and stages of their types and every waiting put a putter,
\* once.
LEMMA QueueStep == IInv /\ [Next]_vars => QueueType' /\ QueueSound'
<1>. SUFFICES ASSUME IInv, [Next]_vars PROVE QueueType' /\ QueueSound'
  OBVIOUS
<1>0. QueueType /\ QueueSound
  BY DEF IInv, TypeOK
<1>1. ASSUME UNCHANGED <<queue, putters, stage>> PROVE QueueType' /\ QueueSound'
  BY <1>0, <1>1 DEF QueueType, QueueSound, QueueSoundAt
<1>. USE DEF channels, publishers
<1>2. CASE Start \/ BeginStop \/ UNCHANGED vars
  BY <1>1, <1>2 DEF Start, BeginStop, vars
<1>3. ASSUME NEW s \in Subscriptions,
             Subscribe(s) \/ CloseCancelled(s) \/ WorkerEnds(s) \/ HandlerEnds(s)
      PROVE  QueueType' /\ QueueSound'
  BY <1>1, <1>3 DEF Subscribe, CloseCancelled, WorkerEnds, HandlerEnds, vars
<1>4. ASSUME NEW s \in Subscriptions, OwnerCloses(s) \/ StopCloses(s)
      PROVE  QueueType' /\ QueueSound'
  <2>1. CASE Close(s, "owner")
    BY <1>0, <2>1, CloseKeeps
  <2>2. CASE Close(s, "stop")
    BY <1>0, <2>2, CloseKeeps
  <2>. QED BY <1>1, <1>4, <2>1, <2>2 DEF OwnerCloses, StopCloses
<1>5. ASSUME NEW s \in Subscriptions, Take(s) PROVE QueueType' /\ QueueSound'
  BY <1>0, <1>5, TakeKeeps
<1>6. ASSUME NEW p \in Publishers, Publish(p) PROVE QueueType' /\ QueueSound'
  BY <1>6, PublishKeeps
<1>7. ASSUME NEW p \in Publishers, PublishReturns(p) \/ PublishCancelled(p)
      PROVE  QueueType' /\ QueueSound'
  BY <1>1, <1>7 DEF PublishReturns, PublishCancelled
<1>8. ASSUME NEW e \in Events, NEW s \in Subscriptions, Put(e, s)
      PROVE  QueueType' /\ QueueSound'
  BY <1>0, <1>8, PutKeeps
<1>9. ASSUME NEW e \in Events, NEW s \in Subscriptions, Refused(e, s) \/ EnqueueCancelled(e, s)
      PROVE  QueueType' /\ QueueSound'
  <2>1. stage[e][s] # "none" /\ TakenBack(e, s) /\ queue' = queue
    BY <1>9 DEF Refused, EnqueueCancelled
  <2>. QED BY <1>0, <2>1, TakenBackKeeps DEF QueueType
<1>. QED
  BY <1>2, <1>3, <1>4, <1>5, <1>6, <1>7, <1>8, <1>9 DEF Next, EnqueueStep

\* Every step keeps the types of the tasks.
LEMMA TaskStep == IInv /\ [Next]_vars => TaskType'
<1>. SUFFICES ASSUME IInv, [Next]_vars PROVE TaskType'
  OBVIOUS
<1>. USE DEF TaskType, channels, publishers
<1>0. TaskType /\ QueueType
  BY DEF IInv, TypeOK
<1>1. CASE Start
  BY <1>0, <1>1 DEF Start, BusStates, WorkerStates
<1>2. CASE BeginStop
  BY <1>0, <1>2 DEF BeginStop, BusStates
<1>3. ASSUME NEW s \in Subscriptions, Subscribe(s) PROVE TaskType'
  BY <1>0, <1>3 DEF Subscribe, SubscriptionStates, WorkerStates
<1>4. ASSUME NEW s \in Subscriptions, NEW by \in {"owner", "stop"}, Close(s, by),
             bus' = bus, remaining' \subseteq remaining
      PROVE  TaskType'
  BY <1>0, <1>4 DEF Close, SubscriptionStates, WorkerStates, Joiners
<1>5. ASSUME NEW s \in Subscriptions, OwnerCloses(s) PROVE TaskType'
  BY <1>4, <1>5 DEF OwnerCloses
<1>6. ASSUME NEW s \in Subscriptions, StopCloses(s) PROVE TaskType'
  <2>1. remaining' \subseteq remaining /\ bus' = bus
    BY <1>6 DEF StopCloses
  <2>2. CASE Close(s, "stop")
    BY <1>4, <2>1, <2>2
  <2>3. CASE UNCHANGED <<channels, publishers>>
    BY <1>0, <2>1, <2>3
  <2>. QED BY <1>6, <2>2, <2>3 DEF StopCloses
<1>7. ASSUME NEW s \in Subscriptions, WorkerEnds(s) \/ HandlerEnds(s) \/ CloseCancelled(s)
      PROVE  TaskType'
  BY <1>0, <1>7 DEF WorkerEnds, HandlerEnds, CloseCancelled, WorkerStates, Joiners, vars
<1>8. ASSUME NEW s \in Subscriptions, Take(s) PROVE TaskType'
  <2>1. Head(queue[s]) \in Events
    BY <1>0, <1>8, SetOfSeq DEF Take, QueueType
  <2>. QED BY <1>0, <1>8, <2>1 DEF Take, WorkerStates
<1>9. ASSUME NEW p \in Publishers, Publish(p) PROVE TaskType'
  BY <1>0, <1>9 DEF Publish, PublishingStates
<1>10. ASSUME NEW p \in Publishers, PublishReturns(p) \/ PublishCancelled(p) PROVE TaskType'
  BY <1>0, <1>10 DEF PublishReturns, PublishCancelled, PublishingStates
<1>11. ASSUME NEW e \in Events, NEW s \in Subscriptions, Put(e, s) \/ EnqueueCancelled(e, s)
       PROVE  TaskType'
  BY <1>0, <1>11 DEF Put, EnqueueCancelled
<1>12. ASSUME NEW e \in Events, NEW s \in Subscriptions, Refused(e, s) PROVE TaskType'
  BY <1>0, <1>12 DEF Refused, PublishingStates
<1>13. CASE UNCHANGED vars
  BY <1>0, <1>13 DEF vars
<1>. QED
  BY <1>1, <1>2, <1>3, <1>5, <1>6, <1>7, <1>8, <1>9, <1>10, <1>11, <1>12, <1>13
     DEF Next, EnqueueStep

\* Every step keeps a running worker with an attached subscription, one event in hand at a
\* time, a cancelled one joined, and what stop() has not come to as all that is attached.
LEMMA WorkerStep == IInv /\ [Next]_vars => WorkerSound'
<1>. SUFFICES ASSUME IInv, [Next]_vars PROVE WorkerSound'
  OBVIOUS
<1>. USE DEF TaskType, channels, publishers, WorkerSound, WorkerSoundAt, Closed
<1>0. TaskType /\ WorkerSound
  BY DEF IInv, TypeOK
<1>1. CASE Start
  BY <1>0, <1>1 DEF Start
<1>2. CASE BeginStop
  BY <1>0, <1>2 DEF BeginStop
<1>3. ASSUME NEW s \in Subscriptions, Subscribe(s) PROVE WorkerSound'
  BY <1>0, <1>3 DEF Subscribe
<1>4. ASSUME NEW s \in Subscriptions, NEW by \in {"owner", "stop"}, Close(s, by),
             bus' = bus, remaining \ {s} \subseteq remaining'
      PROVE  WorkerSound'
  BY <1>0, <1>4 DEF Close
<1>5. ASSUME NEW s \in Subscriptions, OwnerCloses(s) PROVE WorkerSound'
  BY <1>4, <1>5 DEF OwnerCloses
<1>6. ASSUME NEW s \in Subscriptions, StopCloses(s) PROVE WorkerSound'
  <2>1. bus' = bus /\ remaining' = remaining \ {s}
    BY <1>6 DEF StopCloses
  <2>2. CASE Close(s, "stop")
    BY <1>4, <2>1, <2>2
  <2>3. CASE state[s] = "closed" /\ UNCHANGED <<channels, publishers>>
    BY <1>0, <2>1, <2>3
  <2>. QED BY <1>6, <2>2, <2>3 DEF StopCloses
<1>7. ASSUME NEW s \in Subscriptions, WorkerEnds(s) \/ HandlerEnds(s) \/ CloseCancelled(s)
      PROVE  WorkerSound'
  BY <1>0, <1>7 DEF WorkerEnds, HandlerEnds, CloseCancelled, vars
<1>8. ASSUME NEW s \in Subscriptions, Take(s) PROVE WorkerSound'
  BY <1>0, <1>8 DEF Take
<1>9. ASSUME UNCHANGED <<bus, remaining, state, worker, current, joiner>> PROVE WorkerSound'
  BY <1>0, <1>9
<1>10. ASSUME NEW p \in Publishers, Publish(p) \/ PublishReturns(p) \/ PublishCancelled(p)
       PROVE  WorkerSound'
  BY <1>9, <1>10 DEF Publish, PublishReturns, PublishCancelled
<1>11. ASSUME NEW e \in Events, NEW s \in Subscriptions,
              Put(e, s) \/ Refused(e, s) \/ EnqueueCancelled(e, s)
       PROVE  WorkerSound'
  BY <1>9, <1>11 DEF Put, Refused, EnqueueCancelled
<1>12. CASE UNCHANGED vars
  BY <1>9, <1>12 DEF vars
<1>. QED
  BY <1>1, <1>2, <1>3, <1>5, <1>6, <1>7, <1>8, <1>10, <1>11, <1>12 DEF Next, EnqueueStep

\* Every step leaves enqueue tasks only for what was published, to who was there.
LEMMA OwedStep == IInv /\ [Next]_vars => OwedSound'
<1>. SUFFICES ASSUME IInv, [Next]_vars PROVE OwedSound'
  OBVIOUS
<1>. USE DEF TaskType, channels, publishers
<1>0. TaskType /\ QueueType /\ QueueSound /\ OwedSound
  BY DEF IInv, TypeOK
<1>00. \A e \in Events : e[1] \in Publishers /\ e[2] \in Nat /\ sent[e[1]] \in Nat
  <2>1. \A e \in Events : e[1] \in Publishers /\ e[2] \in 1 .. MaxEvents[e[1]]
    BY EventParts
  <2>. QED BY <1>0, <2>1, MaxEventsAssumption
<1>1. ASSUME \A e \in Events, s \in Subscriptions :
               /\ stage'[e][s] # "none" => stage[e][s] # "none"
               /\ state[s] # "absent" => state'[s] # "absent",
             sent' = sent
      PROVE  OwedSound'
  BY <1>0, <1>1 DEF OwedSound
<1>2. CASE Start \/ BeginStop \/ UNCHANGED vars
  BY <1>1, <1>2 DEF Start, BeginStop, vars
<1>3. ASSUME NEW s \in Subscriptions,
             Subscribe(s) \/ WorkerEnds(s) \/ HandlerEnds(s) \/ CloseCancelled(s)
      PROVE  OwedSound'
  BY <1>0, <1>1, <1>3 DEF Subscribe, WorkerEnds, HandlerEnds, CloseCancelled, vars
<1>4. ASSUME NEW s \in Subscriptions, NEW by, Close(s, by) PROVE OwedSound'
  BY <1>0, <1>1, <1>4 DEF Close
<1>5. ASSUME NEW s \in Subscriptions, OwnerCloses(s) \/ StopCloses(s) PROVE OwedSound'
  <2>1. CASE Close(s, "owner")
    BY <1>4, <2>1
  <2>2. CASE Close(s, "stop")
    BY <1>4, <2>2
  <2>. QED BY <1>1, <1>5, <2>1, <2>2 DEF OwnerCloses, StopCloses
<1>6. ASSUME NEW s \in Subscriptions, Take(s) PROVE OwedSound'
  <2>1. \A f \in Events, t \in Subscriptions : stage'[f][t] = "none" <=> stage[f][t] = "none"
    BY <1>0, <1>6, TakeKeeps
  <2>. QED BY <1>1, <1>6, <2>1 DEF Take
<1>7. ASSUME NEW p \in Publishers, Publish(p) PROVE OwedSound'
  <2>1. \A f \in Events, t \in Subscriptions :
          stage'[f][t] # "none" =>
            stage[f][t] # "none" \/ (f = <<p, sent[p] + 1>> /\ state[t] = "attached")
    BY <1>7, PublishKeeps
  <2>2. state' = state /\ \A q \in Publishers :
          sent'[q] = IF q = p THEN sent[p] + 1 ELSE sent[q]
    BY <1>0, <1>7 DEF Publish
  <2>. SUFFICES ASSUME NEW f \in Events, NEW t \in Subscriptions, stage'[f][t] # "none"
                PROVE  state'[t] # "absent" /\ f[2] <= sent'[f[1]]
    BY DEF OwedSound
  <2>3. CASE stage[f][t] # "none"
    <3>1. state[t] # "absent" /\ f[2] <= sent[f[1]]
      BY <1>0, <2>3 DEF OwedSound
    <3>. QED BY <1>00, <2>2, <3>1
  <2>4. CASE f = <<p, sent[p] + 1>> /\ state[t] = "attached"
    BY <1>00, <2>2, <2>4
  <2>. QED BY <2>1, <2>3, <2>4
<1>8. ASSUME NEW p \in Publishers, PublishReturns(p) \/ PublishCancelled(p) PROVE OwedSound'
  BY <1>1, <1>8 DEF PublishReturns, PublishCancelled
<1>9. ASSUME NEW e \in Events, NEW s \in Subscriptions, Put(e, s) PROVE OwedSound'
  <2>1. \A f \in Events, t \in Subscriptions : stage'[f][t] # "none" => stage[f][t] # "none"
    <3>1. stage[e][s] # "none"
      BY <1>9 DEF Put
    <3>. QED BY <1>0, <1>9, <3>1, PutKeeps
  <2>. QED BY <1>1, <1>9, <2>1 DEF Put
<1>10. ASSUME NEW e \in Events, NEW s \in Subscriptions, Refused(e, s) \/ EnqueueCancelled(e, s)
       PROVE  OwedSound'
  <2>1. stage[e][s] # "none" /\ TakenBack(e, s) /\ state' = state /\ sent' = sent
    BY <1>10 DEF Refused, EnqueueCancelled
  <2>2. \A f \in Events, t \in Subscriptions : stage'[f][t] # "none" => stage[f][t] # "none"
    BY <1>0, <2>1, TakenBackKeeps
  <2>. QED BY <1>1, <2>1, <2>2
<1>. QED
  BY <1>2, <1>3, <1>5, <1>6, <1>7, <1>8, <1>9, <1>10 DEF Next, EnqueueStep

\* The bus that has just been made satisfies the invariant.
LEMMA Initially == Init => IInv
<1>. SUFFICES ASSUME Init PROVE IInv
  OBVIOUS
<1>1. TaskType
  BY DEF Init, TaskType, BusStates, SubscriptionStates, WorkerStates, Joiners, PublishingStates
<1>2. QueueType
  <2>1. <<>> \in Seq(Events)
    OBVIOUS
  <2>. QED BY <2>1 DEF Init, QueueType, Stages
<1>3. WorkerSound
  BY DEF Init, WorkerSound, WorkerSoundAt, Closed
<1>4. QueueSound
  <2>1. Distinct(<<>>) /\ ToSet(<<>>) = {}
    BY DEF Distinct, ToSet
  <2>. QED BY <2>1 DEF Init, QueueSound, QueueSoundAt
<1>5. OwedSound
  BY DEF Init, OwedSound
<1>. QED BY <1>1, <1>2, <1>3, <1>4, <1>5 DEF IInv, TypeOK

\* The inductive invariant holds in every reachable state.
THEOREM Inductive == Spec => []IInv
<1>1. IInv /\ [Next]_vars => IInv'
  BY QueueStep, TaskStep, WorkerStep, OwedStep DEF IInv, TypeOK
<1>. QED BY Initially, <1>1, PTL DEF Spec

\* Whoever closed a subscription, owner or stop(), cancelled while it waits or not, is back
\* only when the worker has ended, and when stop() has returned the only handlers that may
\* still be running are cancelled ones whose subscription its owner is closing (bus.py,
\* Subscription.close, _deliver and EventBus.stop).
THEOREM ClosedAlwaysJoined == Spec => []ClosedMeansJoined
<1>1. IInv => ClosedMeansJoined
  <2>. SUFFICES ASSUME IInv PROVE ClosedMeansJoined
    OBVIOUS
  <2>. USE DEF IInv, TypeOK, TaskType, WorkerStates, SubscriptionStates, Joiners,
               WorkerSound, WorkerSoundAt
  <2>1. ASSUME NEW s \in Subscriptions
        PROVE  \/ worker[s] \in {"none", "ended"}
               \/ worker[s] = "cancelled" /\ joiner[s] # "none"
               \/ state[s] = "attached"
    OBVIOUS
  <2>2. ASSUME Stopped, NEW s \in Subscriptions
        PROVE  state[s] # "attached" /\ joiner[s] # "stop"
    BY <2>2 DEF Stopped
  <2>. QED BY <2>1, <2>2 DEF ClosedMeansJoined, Closed
<1>. QED BY Inductive, <1>1, PTL

-----------------------------------------------------------------------------
\* The bus implements EventDelivery.  What is substituted for its variables: who takes
\* events, and the published events each is still owed, by a publisher that waits for its
\* enqueue tasks and by one that was cancelled.
Open == {s \in Subscriptions : state[s] = "attached"}
OwedTo(s) == {e \in Events : stage[e][s] # "none" /\ ~Abandoned(e)}
AbandonedTo(s) == {e \in Events : stage[e][s] # "none" /\ Abandoned(e)}
Owed == [s \in Subscriptions |-> OwedTo(s)]
AbandonedOf == [s \in Subscriptions |-> AbandonedTo(s)]

\* A step that neither makes nor ends an enqueue task, and abandons none, leaves what is owed.
LEMMA OwedKept ==
  ASSUME \A e \in Events, s \in Subscriptions : stage'[e][s] = "none" <=> stage[e][s] = "none",
         \A e \in Events, s \in Subscriptions :
           stage[e][s] # "none" => (Abandoned(e)' <=> Abandoned(e))
  PROVE  Owed' = Owed /\ AbandonedOf' = AbandonedOf
<1>1. ASSUME NEW s \in Subscriptions
      PROVE  OwedTo(s)' = OwedTo(s) /\ AbandonedTo(s)' = AbandonedTo(s)
  BY DEF OwedTo, AbandonedTo
<1>. QED BY <1>1 DEF Owed, AbandonedOf

\* A step that ends one enqueue task takes its event off what is owed, and nothing else.
LEMMA OwedLess ==
  ASSUME NEW e \in Events, NEW s \in Subscriptions,
         \A f \in Events, t \in Subscriptions :
           stage'[f][t] = "none" <=> stage[f][t] = "none" \/ (f = e /\ t = s),
         \A f \in Events : Abandoned(f)' <=> Abandoned(f)
  PROVE  /\ Owed' = [Owed EXCEPT ![s] = @ \ {e}]
         /\ AbandonedOf' = [AbandonedOf EXCEPT ![s] = @ \ {e}]
<1>1. ASSUME NEW t \in Subscriptions
      PROVE  /\ OwedTo(t)' = IF t = s THEN OwedTo(t) \ {e} ELSE OwedTo(t)
             /\ AbandonedTo(t)' = IF t = s THEN AbandonedTo(t) \ {e} ELSE AbandonedTo(t)
  BY DEF OwedTo, AbandonedTo
<1>. HIDE DEF OwedTo, AbandonedTo
<1>. QED BY <1>1 DEF Owed, AbandonedOf

\* Publishing, before any of its enqueue tasks has run, is the abstract Publish.
LEMMA PublishImplements ==
  ASSUME IInv, NEW p \in Publishers, Publish(p)
  PROVE  Delivery!Publish(p)
<1>. DEFINE n == <<p, sent[p] + 1>>
<1>1. /\ n \in Events
      /\ \A f \in Events, t \in Subscriptions :
           /\ f = n => stage[f][t] = "none"
           /\ stage'[f][t] # "none" <=> stage[f][t] # "none" \/ (f = n /\ state[t] = "attached")
  BY PublishKeeps
<1>2. /\ sent' = [sent EXCEPT ![p] = @ + 1] /\ state' = state /\ queue' = queue
      /\ current' = current
      /\ \A q \in Publishers : /\ sent'[q] = IF q = p THEN sent[p] + 1 ELSE sent[q]
                               /\ publishing'[q] = IF q = p THEN "waiting" ELSE publishing[q]
      /\ publishing[p] = "idle"
  BY DEF Publish, channels, IInv, TypeOK, TaskType
<1>3. \A f \in Events : Abandoned(f)' <=> Abandoned(f)
  <2>. TAKE f \in Events
  <2>1. f[1] \in Publishers
    BY EventParts
  <2>. QED BY <1>2, <2>1 DEF Abandoned, Current
<1>4. ~Abandoned(n)
  BY <1>2 DEF Abandoned
<1>. HIDE DEF n
<1>5. ASSUME NEW t \in Subscriptions
      PROVE  /\ OwedTo(t)' = IF t \in Open THEN OwedTo(t) \cup {n} ELSE OwedTo(t)
             /\ AbandonedTo(t)' = AbandonedTo(t)
  BY <1>1, <1>3, <1>4 DEF OwedTo, AbandonedTo, Open
<1>6. /\ Owed' = [t \in Subscriptions |-> IF t \in Open THEN Owed[t] \cup {n} ELSE Owed[t]]
      /\ AbandonedOf' = AbandonedOf /\ Open' = Open
  <2>. HIDE DEF OwedTo, AbandonedTo
  <2>. QED BY <1>2, <1>5 DEF Owed, AbandonedOf, Open
<1>. QED
  BY <1>2, <1>6 DEF Delivery!Publish, Owed, AbandonedOf, OwedTo, AbandonedTo, Open, n

\* The cancellation of a publisher abandons what it still owes.
LEMMA CancelImplements ==
  ASSUME IInv, NEW p \in Publishers, PublishCancelled(p)
  PROVE  Delivery!Abandon(p)
<1>. DEFINE n == <<p, sent[p]>>
<1>1. /\ state' = state /\ queue' = queue /\ current' = current /\ stage' = stage /\ sent' = sent
      /\ \A q \in Publishers : publishing'[q] = IF q = p THEN "cancelled" ELSE publishing[q]
      /\ publishing[p] = "waiting"
  BY DEF PublishCancelled, channels, IInv, TypeOK, TaskType
<1>2. \A f \in Events : /\ Abandoned(f)' <=> Abandoned(f) \/ f = n
                        /\ f = n => ~Abandoned(f)
  <2>. TAKE f \in Events
  <2>1. f[1] \in Publishers /\ f = <<f[1], f[2]>>
    BY EventParts
  <2>2. f = n <=> f[1] = p /\ f[2] = sent[p]
    BY <2>1
  <2>. QED BY <1>1, <2>1, <2>2 DEF Abandoned, Current
<1>. HIDE DEF n
<1>3. ASSUME NEW t \in Subscriptions
      PROVE  /\ OwedTo(t)' = {e \in OwedTo(t) : e # n}
             /\ AbandonedTo(t)' = AbandonedTo(t) \cup {e \in OwedTo(t) : e = n}
  BY <1>1, <1>2 DEF OwedTo, AbandonedTo
<1>4. /\ Owed' = [t \in Subscriptions |-> {e \in Owed[t] : e # n}]
      /\ AbandonedOf' = [t \in Subscriptions |->
                           AbandonedOf[t] \cup {e \in Owed[t] : e = n}]
      /\ Open' = Open
  <2>. HIDE DEF OwedTo, AbandonedTo
  <2>. QED BY <1>1, <1>3 DEF Owed, AbandonedOf, Open
<1>. QED
  BY <1>1, <1>4 DEF Delivery!Abandon, Owed, AbandonedOf, OwedTo, AbandonedTo, Open, n

\* A put is accepted when it finds room, and nothing happened when it waits (again).
LEMMA PutImplements ==
  ASSUME IInv, NEW e \in Events, NEW s \in Subscriptions, Put(e, s)
  PROVE  (e \in Owed[s] \cup AbandonedOf[s] /\ Delivery!Accept(s, e)) \/ UNCHANGED Delivery!vars
<1>1. /\ state' = state /\ current' = current /\ sent' = sent /\ publishing' = publishing
      /\ stage[e][s] # "none" /\ state[s] # "closed"
  BY DEF Put, Closed
<1>2. state[s] = "attached"
  BY <1>1 DEF IInv, OwedSound, TypeOK, TaskType, SubscriptionStates
<1>3. \A f \in Events : Abandoned(f)' <=> Abandoned(f)
  BY <1>1 DEF Abandoned, Current
<1>4. \A f \in Events, t \in Subscriptions :
        stage'[f][t] = "none" <=> stage[f][t] = "none" \/ (~Full(s) /\ f = e /\ t = s)
  BY PutKeeps DEF IInv, TypeOK
<1>5. Open' = Open
  BY <1>1 DEF Open
<1>6. CASE Full(s)
  <2>1. Owed' = Owed /\ AbandonedOf' = AbandonedOf
    BY <1>3, <1>4, <1>6, OwedKept
  <2>2. queue' = queue
    BY <1>6 DEF Put
  <2>. QED
    BY <1>1, <1>5, <2>1, <2>2
       DEF Delivery!vars, Owed, AbandonedOf, OwedTo, AbandonedTo, Open
<1>7. CASE ~Full(s)
  <2>1. /\ Owed' = [Owed EXCEPT ![s] = @ \ {e}]
        /\ AbandonedOf' = [AbandonedOf EXCEPT ![s] = @ \ {e}]
    <3>1. \A f \in Events, t \in Subscriptions :
            stage'[f][t] = "none" <=> stage[f][t] = "none" \/ (f = e /\ t = s)
      BY <1>4, <1>7
    <3>. QED BY <1>3, <3>1, OwedLess
  <2>2. queue' = [queue EXCEPT ![s] = Append(@, e)] /\ Len(queue[s]) < Capacity
    BY <1>7, CapacityAssumption DEF Put, Full, IInv, TypeOK, QueueType
  <2>3. e \in Owed[s] \cup AbandonedOf[s] /\ s \in Open
    BY <1>1, <1>2 DEF Owed, AbandonedOf, OwedTo, AbandonedTo, Open
  <2>4. Delivery!Accept(s, e)
    BY <1>1, <1>5, <2>1, <2>2, <2>3
       DEF Delivery!Accept, Owed, AbandonedOf, OwedTo, AbandonedTo, Open
  <2>. QED BY <2>3, <2>4
<1>. QED BY <1>6, <1>7

\* A put that is refused by a closed subscription, or cancelled, withdraws its event.
LEMMA TakenBackImplements ==
  ASSUME IInv, NEW e \in Events, NEW s \in Subscriptions, Refused(e, s) \/ EnqueueCancelled(e, s)
  PROVE  e \in Owed[s] \cup AbandonedOf[s] /\ Delivery!Withdraw(s, e)
<1>1. /\ state' = state /\ current' = current /\ sent' = sent /\ queue' = queue
      /\ stage[e][s] # "none" /\ TakenBack(e, s) /\ (Closed(s) \/ Abandoned(e))
  BY DEF Refused, EnqueueCancelled
<1>2. \A f \in Events : Abandoned(f)' <=> Abandoned(f)
  <2>. TAKE f \in Events
  <2>1. \A g \in Events : g[1] \in Publishers
    BY EventParts
  <2>2. \/ publishing' = publishing
        \/ publishing' = [publishing EXCEPT ![e[1]] = "idle"] /\ publishing[e[1]] = "waiting"
    BY DEF Refused, EnqueueCancelled
  <2>3. publishing'[f[1]] = "cancelled" <=> publishing[f[1]] = "cancelled"
    BY <2>1, <2>2 DEF IInv, TypeOK, TaskType
  <2>. QED BY <1>1, <2>3 DEF Abandoned, Current
<1>3. \A f \in Events, t \in Subscriptions :
        stage'[f][t] = "none" <=> stage[f][t] = "none" \/ (f = e /\ t = s)
  BY <1>1, TakenBackKeeps DEF IInv, TypeOK
<1>4. /\ Owed' = [Owed EXCEPT ![s] = @ \ {e}]
      /\ AbandonedOf' = [AbandonedOf EXCEPT ![s] = @ \ {e}]
  BY <1>2, <1>3, OwedLess
<1>5. /\ e \in AbandonedOf[s] \/ (e \in Owed[s] /\ s \notin Open)
      /\ Open' = Open
  BY <1>1 DEF Owed, AbandonedOf, OwedTo, AbandonedTo, Open, Closed
<1>6. Delivery!Withdraw(s, e)
  BY <1>1, <1>4, <1>5 DEF Delivery!Withdraw, Owed, AbandonedOf, OwedTo, AbandonedTo, Open
<1>. QED BY <1>5, <1>6

\* The worker that takes an event handles it: its subscription is attached and no other
\* event is in hand.
LEMMA TakeImplements ==
  ASSUME IInv, NEW s \in Subscriptions, Take(s)
  PROVE  Delivery!Handle(s)
<1>1. /\ state' = state /\ sent' = sent /\ publishing' = publishing
      /\ queue[s] # <<>> /\ queue' = [queue EXCEPT ![s] = Tail(@)]
      /\ current' = [current EXCEPT ![s] = Head(queue[s])] /\ worker[s] = "idle"
  BY DEF Take
<1>2. state[s] = "attached" /\ current[s] = NoEvent
  BY <1>1 DEF IInv, WorkerSound, WorkerSoundAt
<1>3. \A f \in Events, t \in Subscriptions : stage'[f][t] = "none" <=> stage[f][t] = "none"
  BY TakeKeeps DEF IInv, TypeOK
<1>4. Owed' = Owed /\ AbandonedOf' = AbandonedOf /\ Open' = Open
  BY <1>1, <1>3, OwedKept DEF Abandoned, Current, Open
<1>. QED
  BY <1>1, <1>2, <1>4 DEF Delivery!Handle, Owed, AbandonedOf, OwedTo, AbandonedTo, Open

\* Whoever closes a subscription, with its worker wherever it is, closes it.
LEMMA CloseImplements ==
  ASSUME IInv, NEW s \in Subscriptions, NEW by, Close(s, by)
  PROVE  Delivery!Close(s)
<1>1. /\ state[s] = "attached" /\ state' = [state EXCEPT ![s] = "closed"]
      /\ queue' = [queue EXCEPT ![s] = <<>>] /\ UNCHANGED <<current, publishers>>
  BY DEF Close
<1>2. Owed' = Owed /\ AbandonedOf' = AbandonedOf
  BY <1>1, OwedKept DEF publishers, Abandoned, Current
<1>3. s \in Open /\ Open' = Open \ {s}
  BY <1>1 DEF Open, IInv, TypeOK, TaskType
<1>. QED
  BY <1>1, <1>2, <1>3
     DEF Delivery!Close, Owed, AbandonedOf, OwedTo, AbandonedTo, Open, publishers

\* A step that leaves these alone is none of EventDelivery's.
LEMMA Unseen ==
  ASSUME UNCHANGED <<state, queue, current, sent>>, Owed' = Owed, AbandonedOf' = AbandonedOf
  PROVE  UNCHANGED Delivery!vars
<1>1. Open' = Open
  BY DEF Open
<1>. QED
  BY <1>1 DEF Delivery!vars, Owed, AbandonedOf, OwedTo, AbandonedTo, Open

\* The bus never loses an event that an attached subscription is owed, delivers none twice or
\* out of the order of acceptance, never exceeds its buffers and calls no handler after
\* close(), however puts wait, are woken, overtaken, cancelled and closed (bus.py, publish,
\* _enqueue, _deliver and close; asyncio.Queue.put).
THEOREM ImplementsDelivery == Spec => DeliverySpec
<1>1. Init => Delivery!Init
  <2>. SUFFICES ASSUME Init PROVE Delivery!Init
    OBVIOUS
  <2>1. Open = {} /\ \A s \in Subscriptions : OwedTo(s) = {} /\ AbandonedTo(s) = {}
    BY DEF Init, Open, OwedTo, AbandonedTo
  <2>2. /\ [s \in Subscriptions |-> OwedTo(s)] = [s \in Subscriptions |-> {}]
        /\ [s \in Subscriptions |-> AbandonedTo(s)] = [s \in Subscriptions |-> {}]
    <3>. HIDE DEF OwedTo, AbandonedTo
    <3>. QED BY <2>1
  <2>. QED BY <2>1, <2>2 DEF Init, Delivery!Init, OwedTo, AbandonedTo, Open
<1>2. IInv /\ [Next]_vars => [Delivery!Next]_(Delivery!vars)
  <2>. SUFFICES ASSUME IInv, [Next]_vars PROVE Delivery!Next \/ UNCHANGED Delivery!vars
    OBVIOUS
  <2>. USE DEF channels, publishers
  <2>1. ASSUME UNCHANGED <<state, queue, current, publishers>>
        PROVE  UNCHANGED Delivery!vars
    BY <2>1, OwedKept, Unseen DEF Abandoned, Current
  <2>2. CASE Start \/ BeginStop \/ UNCHANGED vars
    BY <2>1, <2>2 DEF Start, BeginStop, vars
  <2>3. ASSUME NEW s \in Subscriptions, Subscribe(s) PROVE Delivery!Next
    <3>1. /\ Owed' = Owed /\ AbandonedOf' = AbandonedOf
          /\ UNCHANGED <<queue, current, sent>>
      BY <2>3, OwedKept DEF Subscribe, Abandoned, Current
    <3>2. s \notin Open /\ Open' = Open \cup {s}
      BY <2>3 DEF Subscribe, Open, IInv, TypeOK, TaskType
    <3>3. Delivery!Subscribe(s)
      BY <3>1, <3>2 DEF Delivery!Subscribe, Owed, AbandonedOf, OwedTo, AbandonedTo, Open
    <3>. QED BY <3>3 DEF Delivery!Next
  <2>4. ASSUME NEW s \in Subscriptions, NEW by, Close(s, by) PROVE Delivery!Next
    BY <2>4, CloseImplements DEF Delivery!Next
  <2>5. ASSUME NEW s \in Subscriptions, OwnerCloses(s)
        PROVE  Delivery!Next \/ UNCHANGED Delivery!vars
    BY <2>4, <2>5 DEF OwnerCloses
  <2>6. ASSUME NEW s \in Subscriptions, StopCloses(s)
        PROVE  Delivery!Next \/ UNCHANGED Delivery!vars
    <3>1. CASE Close(s, "stop")
      BY <2>4, <3>1
    <3>2. CASE UNCHANGED <<channels, publishers>>
      BY <2>1, <3>2
    <3>. QED BY <2>6, <3>1, <3>2 DEF StopCloses
  <2>7. ASSUME NEW s \in Subscriptions, WorkerEnds(s) \/ HandlerEnds(s) PROVE Delivery!Next
    <3>1. /\ Owed' = Owed /\ AbandonedOf' = AbandonedOf
          /\ UNCHANGED <<state, queue, sent>> /\ current' = [current EXCEPT ![s] = NoEvent]
      BY <2>7, OwedKept DEF WorkerEnds, HandlerEnds, Abandoned, Current
    <3>2. Open' = Open
      BY <3>1 DEF Open
    <3>3. Delivery!HandlerEnds(s)
      BY <3>1, <3>2 DEF Delivery!HandlerEnds, Owed, AbandonedOf, OwedTo, AbandonedTo, Open
    <3>. QED BY <3>3 DEF Delivery!Next
  <2>8. ASSUME NEW s \in Subscriptions, CloseCancelled(s) PROVE UNCHANGED Delivery!vars
    BY <2>1, <2>8 DEF CloseCancelled, vars
  <2>9. ASSUME NEW s \in Subscriptions, Take(s) PROVE Delivery!Next
    BY <2>9, TakeImplements DEF Delivery!Next
  <2>10. ASSUME NEW p \in Publishers, Publish(p) PROVE Delivery!Next
    BY <2>10, PublishImplements DEF Delivery!Next
  <2>11. ASSUME NEW p \in Publishers, PublishCancelled(p) PROVE Delivery!Next
    BY <2>11, CancelImplements DEF Delivery!Next
  <2>12. ASSUME NEW p \in Publishers, PublishReturns(p) PROVE UNCHANGED Delivery!vars
    <3>1. /\ UNCHANGED <<state, queue, current, stage, sent>>
          /\ \A s \in Subscriptions : stage[<<p, sent[p]>>][s] = "none"
          /\ \A q \in Publishers : q # p => publishing'[q] = publishing[q]
      BY <2>12 DEF PublishReturns, IInv, TypeOK, TaskType
    <3>2. ASSUME NEW e \in Events, NEW s \in Subscriptions, stage[e][s] # "none"
          PROVE  Abandoned(e)' <=> Abandoned(e)
      <4>1. e = <<e[1], e[2]>> /\ e[1] \in Publishers
        BY EventParts
      <4>2. CASE e[1] = p
        <5>1. e[2] # sent[p]
          BY <3>1, <3>2, <4>1, <4>2
        <5>. QED BY <3>1, <4>2, <5>1 DEF Abandoned, Current
      <4>3. CASE e[1] # p
        BY <3>1, <4>1, <4>3 DEF Abandoned, Current
      <4>. QED BY <4>2, <4>3
    <3>3. Owed' = Owed /\ AbandonedOf' = AbandonedOf
      BY <3>1, <3>2, OwedKept
    <3>. QED BY <3>1, <3>3, Unseen
  <2>13. ASSUME NEW e \in Events, NEW s \in Subscriptions, Put(e, s)
         PROVE  Delivery!Next \/ UNCHANGED Delivery!vars
    <3>1. CASE e \in Owed[s] \cup AbandonedOf[s] /\ Delivery!Accept(s, e)
      BY <3>1 DEF Delivery!Next, Owed, AbandonedOf, OwedTo, AbandonedTo
    <3>. QED BY <2>13, <3>1, PutImplements
  <2>14. ASSUME NEW e \in Events, NEW s \in Subscriptions,
                Refused(e, s) \/ EnqueueCancelled(e, s)
         PROVE  Delivery!Next
    <3>1. e \in Owed[s] \cup AbandonedOf[s] /\ Delivery!Withdraw(s, e)
      BY <2>14, TakenBackImplements
    <3>. QED BY <3>1 DEF Delivery!Next, Owed, AbandonedOf, OwedTo, AbandonedTo
  <2>. QED
    BY <2>2, <2>3, <2>5, <2>6, <2>7, <2>8, <2>9, <2>10, <2>11, <2>12, <2>13, <2>14
       DEF Next, EnqueueStep
<1>. QED BY Inductive, <1>1, <1>2, PTL DEF Spec, DeliverySpec, Delivery!Spec
=============================================================================
