------------------------------ MODULE EventBus ------------------------------
(***************************************************************************)
(* The in-process event bus: bounded queues, one delivery worker for each  *)
(* subscription, publishers that wait for room, and closing while all of   *)
(* them are under way.  A publish makes one enqueue task per subscription; *)
(* its stages are the suspensions of asyncio.Queue.put.  That _enqueue is  *)
(* resumed once more after its put is not a step: it can only turn the     *)
(* result of publish into an error, of a queue that was closed meanwhile.  *)
(* The code behind a handler is not part of the bus: it ends some time, or *)
(* never, and when its worker is cancelled it ends.                        *)
(***************************************************************************)
EXTENDS Naturals, Sequences, SequencesExt

CONSTANTS
  Subscriptions,  \* the Subscription objects, numbered as they subscribe
  Publishers,     \* tasks that publish, one event at a time
  Capacity,       \* queue_size
  MaxEvents,      \* bound: the events a publisher has to publish
  NoEvent

ASSUME SubscriptionsAssumption == Subscriptions \subseteq Nat
ASSUME CapacityAssumption == Capacity \in Nat \ {0}
ASSUME MaxEventsAssumption == MaxEvents \in [Publishers -> Nat]

Events == UNION {{p} \X (1 .. MaxEvents[p]) : p \in Publishers}

ASSUME NoEventAssumption == NoEvent \notin Events

VARIABLES
  bus,         \* "new", "running", "stopping"
  remaining,   \* the subscriptions stop() has not closed yet
  state,       \* of a subscription: "absent", "attached", "closed"
  worker,      \* its task: "none", "idle", "handling", "cancelled", "ended"
  current,     \* the event its handler is called with
  queue,       \* its asyncio.Queue
  putters,     \* the events whose put waits for room in it
  joiner,      \* who waits for its worker in close()
  stage,       \* of the enqueue task of an event for a subscription
  sent,        \* the events a publisher has published
  publishing   \* "idle", "waiting" for its enqueue tasks, "cancelled" and waiting

channels == <<state, worker, current, queue, putters, joiner>>
publishers == <<stage, sent, publishing>>
vars == <<bus, remaining, channels, publishers>>

Stages == {"none", "created", "waiting", "woken"}

Init ==
  /\ bus = "new" /\ remaining = {}
  /\ state = [s \in Subscriptions |-> "absent"]
  /\ worker = [s \in Subscriptions |-> "none"]
  /\ current = [s \in Subscriptions |-> NoEvent]
  /\ queue = [s \in Subscriptions |-> <<>>]
  /\ putters = [s \in Subscriptions |-> <<>>]
  /\ joiner = [s \in Subscriptions |-> "none"]
  /\ stage = [e \in Events |-> [s \in Subscriptions |-> "none"]]
  /\ sent = [p \in Publishers |-> 0]
  /\ publishing = [p \in Publishers |-> "idle"]

Full(s) == Len(queue[s]) >= Capacity
Closed(s) == state[s] = "closed"

\* asyncio.Queue._wakeup_next: the first putter's future is resolved, its task
\* has not run yet.
Wakes(s) ==
  IF putters[s] = <<>> THEN UNCHANGED <<putters, stage>>
  ELSE /\ putters' = [putters EXCEPT ![s] = Tail(@)]
       /\ stage' = [stage EXCEPT ![Head(putters[s])][s] = "woken"]

-----------------------------------------------------------------------------
\* Lifecycle of the bus and its subscriptions.
Subscribe(s) ==
  /\ bus \in {"new", "running"}
  /\ state[s] = "absent" /\ \A t \in Subscriptions : t < s => state[t] # "absent"
  /\ state' = [state EXCEPT ![s] = "attached"]
  /\ worker' = [worker EXCEPT ![s] = IF bus = "running" THEN "idle" ELSE "none"]
  /\ UNCHANGED <<bus, remaining, current, queue, putters, joiner, publishers>>

Start ==
  /\ bus = "new"
  /\ bus' = "running"
  /\ worker' = [s \in Subscriptions |-> IF state[s] = "attached" THEN "idle" ELSE worker[s]]
  /\ UNCHANGED <<remaining, state, current, queue, putters, joiner, publishers>>

\* Subscription.close up to its await: the worker is cancelled wherever it is.
\* From here on nothing reads the queue, so what it holds is not kept.  Another close()
\* of the same subscription returns at once and changes nothing, as a second stop() does.
Close(s, by) ==
  /\ state[s] = "attached"
  /\ state' = [state EXCEPT ![s] = "closed"]
  /\ worker' = [worker EXCEPT ![s] = IF @ = "none" THEN @ ELSE "cancelled"]
  /\ joiner' = [joiner EXCEPT ![s] = IF worker[s] = "none" THEN @ ELSE by]
  /\ queue' = [queue EXCEPT ![s] = <<>>]
  /\ putters' = [putters EXCEPT ![s] = <<>>]
  /\ UNCHANGED <<current, publishers>>

OwnerCloses(s) == Close(s, "owner") /\ UNCHANGED <<bus, remaining>>

\* A cancelled worker ends, and whoever joined it is resumed.
WorkerEnds(s) ==
  /\ worker[s] = "cancelled"
  /\ worker' = [worker EXCEPT ![s] = "ended"]
  /\ current' = [current EXCEPT ![s] = NoEvent]
  /\ joiner' = [joiner EXCEPT ![s] = "none"]
  /\ UNCHANGED <<bus, remaining, state, queue, putters, publishers>>

CloseCancelledReturns(s) ==
  /\ joiner[s] = "owner"
  /\ joiner' = [joiner EXCEPT ![s] = "none"]
  /\ UNCHANGED <<bus, remaining, state, worker, current, queue, putters, publishers>>

\* The task inside of close() is cancelled: it completes the join all the same.
CloseCancelled(s) ==
  /\ joiner[s] = "owner"
  /\ UNCHANGED vars

BeginStop ==
  /\ bus \in {"new", "running"}
  /\ bus' = "stopping"
  /\ remaining' = {s \in Subscriptions : state[s] = "attached"}
  /\ UNCHANGED <<channels, publishers>>

\* stop() closes one subscription after the other, in their order; one that its owner closed
\* meanwhile is passed over, joined or not.
StopCloses(s) ==
  /\ bus = "stopping" /\ s \in remaining /\ \A t \in remaining : s <= t
  /\ \A t \in Subscriptions : joiner[t] # "stop"
  /\ remaining' = remaining \ {s}
  /\ \/ Close(s, "stop")
     \/ state[s] = "closed" /\ UNCHANGED <<channels, publishers>>
  /\ UNCHANGED bus

Stopped ==
  /\ bus = "stopping" /\ remaining = {}
  /\ \A t \in Subscriptions : joiner[t] # "stop"

-----------------------------------------------------------------------------
\* Publishing.
Publish(p) ==
  /\ bus = "running"
  /\ publishing[p] = "idle" /\ sent[p] < MaxEvents[p]
  /\ sent' = [sent EXCEPT ![p] = @ + 1]
  /\ publishing' = [publishing EXCEPT ![p] = "waiting"]
  /\ stage' = [stage EXCEPT ![<<p, sent[p] + 1>>] =
                 [s \in Subscriptions |-> IF state[s] = "attached" THEN "created" ELSE "none"]]
  /\ UNCHANGED <<bus, remaining, channels>>

Current(e) == e[2] = sent[e[1]]
Abandoned(e) == Current(e) /\ publishing[e[1]] = "cancelled"

\* asyncio.Queue.put from its start, or from where its putter was woken: another
\* put may have taken the room it was woken for, then it waits behind all others.
Put(e, s) ==
  /\ stage[e][s] \in {"created", "woken"} /\ ~Closed(s)
  /\ IF Full(s)
     THEN /\ stage' = [stage EXCEPT ![e][s] = "waiting"]
          /\ putters' = [putters EXCEPT ![s] = Append(@, e)]
          /\ UNCHANGED queue
     ELSE /\ stage' = [stage EXCEPT ![e][s] = "none"]
          /\ queue' = [queue EXCEPT ![s] = Append(@, e)]
          /\ UNCHANGED putters
  /\ UNCHANGED <<bus, remaining, state, worker, current, joiner, sent, publishing>>

\* The put is taken back: its putter leaves the queue, and if it had been woken
\* for room that is still there it wakes the next one.
TakenBack(e, s) ==
  IF stage[e][s] = "woken" /\ ~Full(s) /\ putters[s] # <<>>
  THEN /\ putters' = [putters EXCEPT ![s] = Tail(@)]
       /\ stage' = [stage EXCEPT ![Head(putters[s])][s] = "woken", ![e][s] = "none"]
  ELSE /\ putters' = [putters EXCEPT ![s] = RemoveFirst(@, e)]
       /\ stage' = [stage EXCEPT ![e][s] = "none"]

RefusedBeforePut(e, s) ==
  /\ Closed(s) /\ stage[e][s] = "created"
  /\ TakenBack(e, s)
  /\ publishing' = IF Current(e) /\ publishing[e[1]] = "waiting"
                   THEN [publishing EXCEPT ![e[1]] = "idle"] ELSE publishing
  /\ UNCHANGED <<bus, remaining, state, worker, current, queue, joiner, sent>>

RefusedForAll(e, s) ==
  /\ Closed(s) /\ stage[e][s] # "none"
  /\ stage' = [stage EXCEPT ![e] = [t \in Subscriptions |-> "none"]]
  /\ putters' = [t \in Subscriptions |-> RemoveFirst(putters[t], e)]
  /\ publishing' = IF Current(e) /\ publishing[e[1]] = "waiting"
                   THEN [publishing EXCEPT ![e[1]] = "idle"] ELSE publishing
  /\ UNCHANGED <<bus, remaining, state, worker, current, queue, joiner, sent>>

\* The subscription was closed: the task raises, and so does publish, at once;
\* the enqueue tasks of the other subscriptions go on without a publisher.
Refused(e, s) ==
  /\ Closed(s) /\ stage[e][s] # "none"
  /\ TakenBack(e, s)
  /\ publishing' = IF Current(e) /\ publishing[e[1]] = "waiting"
                   THEN [publishing EXCEPT ![e[1]] = "idle"] ELSE publishing
  /\ UNCHANGED <<bus, remaining, state, worker, current, queue, joiner, sent>>

PublishReturns(p) ==
  /\ publishing[p] # "idle"
  /\ \A s \in Subscriptions : stage[<<p, sent[p]>>][s] = "none"
  /\ publishing' = [publishing EXCEPT ![p] = "idle"]
  /\ UNCHANGED <<bus, remaining, channels, stage, sent>>

\* The publisher is cancelled, and gather cancels the enqueue tasks it made; one
\* whose put was faster has delivered all the same.
PublishCancelled(p) ==
  /\ publishing[p] = "waiting"
  /\ publishing' = [publishing EXCEPT ![p] = "cancelled"]
  /\ UNCHANGED <<bus, remaining, channels, stage, sent>>

EnqueueCancelled(e, s) ==
  /\ Abandoned(e) /\ stage[e][s] # "none"
  /\ TakenBack(e, s)
  /\ UNCHANGED <<bus, remaining, state, worker, current, queue, joiner, sent, publishing>>

-----------------------------------------------------------------------------
\* Delivery.
Take(s) ==
  /\ worker[s] = "idle" /\ queue[s] # <<>>
  /\ worker' = [worker EXCEPT ![s] = "handling"]
  /\ current' = [current EXCEPT ![s] = Head(queue[s])]
  /\ queue' = [queue EXCEPT ![s] = Tail(@)]
  /\ Wakes(s)
  /\ UNCHANGED <<bus, remaining, state, joiner, sent, publishing>>

\* The handler returned or raised; either way the worker goes on.
HandlerEnds(s) ==
  /\ worker[s] = "handling"
  /\ worker' = [worker EXCEPT ![s] = "idle"]
  /\ current' = [current EXCEPT ![s] = NoEvent]
  /\ UNCHANGED <<bus, remaining, state, queue, putters, joiner, publishers>>

-----------------------------------------------------------------------------
EnqueueStep(e, s) == Put(e, s) \/ Refused(e, s)

Next ==
  \/ Start \/ BeginStop
  \/ \E s \in Subscriptions :
       \/ Subscribe(s) \/ OwnerCloses(s) \/ CloseCancelled(s) \/ StopCloses(s)
       \/ WorkerEnds(s) \/ Take(s) \/ HandlerEnds(s)
  \/ \E p \in Publishers : Publish(p) \/ PublishReturns(p) \/ PublishCancelled(p)
  \/ \E e \in Events, s \in Subscriptions : EnqueueStep(e, s) \/ EnqueueCancelled(e, s)

\* The loop runs the tasks that can run: enqueue tasks that are let go, cancelled
\* workers, whoever joins them, and stop().  No handler owes an end, and so
\* nothing is owed of what waits behind one.
Fairness ==
  /\ WF_vars(\E e \in Events, s \in Subscriptions : Refused(e, s))
  /\ WF_vars(\E s \in Subscriptions : WorkerEnds(s) \/ StopCloses(s))

Spec == Init /\ [][Next]_vars
FairSpec == Spec /\ Fairness

-----------------------------------------------------------------------------
Delivery == INSTANCE EventDelivery WITH
  open <- {s \in Subscriptions : state[s] = "attached"},
  owed <- [s \in Subscriptions |->
             {e \in Events : stage[e][s] # "none" /\ ~Abandoned(e)}],
  abandoned <- [s \in Subscriptions |->
             {e \in Events : stage[e][s] # "none" /\ Abandoned(e)}],
  buffer <- queue

\* Waiting for room, being woken, overtaken, cancelled and closed at any moment
\* never costs an attached subscription an event, delivers one twice or out of
\* the order of acceptance, exceeds the buffer or calls a handler after close().
DeliverySpec == Delivery!Spec

\* Whoever closed a subscription, the owner or stop(), and cancelled while it waits or not,
\* is back from close() only when its worker has ended: no handler runs in a closed
\* subscription that nobody joins.  When stop() has returned, all that can still be running
\* are cancelled handlers whose subscription its owner is closing and joins.  Nothing is
\* promised to a second close() of the same subscription, nor to the stop() that passes it
\* over: they return at once, with the worker still ending (bus.py:36-37 and 162-164).
ClosedMeansJoined ==
  /\ \A s \in Subscriptions : Closed(s) =>
       \/ worker[s] \in {"none", "ended"}
       \/ worker[s] = "cancelled" /\ joiner[s] # "none"
  /\ Stopped => \A s \in Subscriptions :
       \/ worker[s] \in {"none", "ended"}
       \/ worker[s] = "cancelled" /\ joiner[s] = "owner"

\* Whoever waits for room in a queue that is closed is let go, whatever handlers do, and a
\* stop that has begun ends (publish against close and stop): again and again nothing of
\* the kind is outstanding.  What is closed stays closed, so this says it of each of them.
ClosingReleases ==
  []<>(/\ \A s \in Subscriptions : Closed(s) => \A e \in Events : stage[e][s] = "none"
       /\ bus = "stopping" => Stopped)
=============================================================================
