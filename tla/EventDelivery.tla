--------------------------- MODULE EventDelivery ---------------------------
(***************************************************************************)
(* What the event bus promises each subscription, whatever its tasks and   *)
(* futures do: a subscription that is attached is owed every event that is *)
(* published, has each of them accepted into a bounded buffer at most once *)
(* and handled one at a time in the order of acceptance, and nothing is    *)
(* handled any more once it was closed.  An event may be withdrawn only if *)
(* the subscription was closed or the publisher itself was cancelled.      *)
(***************************************************************************)
EXTENDS Naturals, Sequences

CONSTANTS
  Subscriptions,  \* handlers with a delivery queue of their own
  Publishers,     \* tasks that publish
  Capacity,       \* queue_size
  NoEvent

VARIABLES
  open,       \* the subscriptions that take events
  sent,       \* how many events a publisher has published
  owed,       \* published to a subscription, accepted by it neither yet nor never
  abandoned,  \* the same, of a publisher that was cancelled
  buffer,     \* accepted and not handled yet
  current     \* what the handler is called with

vars == <<open, sent, owed, abandoned, buffer, current>>

Init ==
  /\ open = {}
  /\ sent = [p \in Publishers |-> 0]
  /\ owed = [s \in Subscriptions |-> {}]
  /\ abandoned = [s \in Subscriptions |-> {}]
  /\ buffer = [s \in Subscriptions |-> <<>>]
  /\ current = [s \in Subscriptions |-> NoEvent]

Subscribe(s) ==
  /\ s \notin open
  /\ open' = open \cup {s}
  /\ UNCHANGED <<sent, owed, abandoned, buffer, current>>

Publish(p) ==
  /\ sent' = [sent EXCEPT ![p] = @ + 1]
  /\ owed' = [s \in Subscriptions |->
                IF s \in open THEN owed[s] \cup {<<p, sent[p] + 1>>} ELSE owed[s]]
  /\ UNCHANGED <<open, abandoned, buffer, current>>

\* The publisher is cancelled: whether what it still owes arrives is open.
Abandon(p) ==
  /\ owed' = [s \in Subscriptions |-> {e \in owed[s] : e # <<p, sent[p]>>}]
  /\ abandoned' = [s \in Subscriptions |->
                     abandoned[s] \cup {e \in owed[s] : e = <<p, sent[p]>>}]
  /\ UNCHANGED <<open, sent, buffer, current>>

Accept(s, e) ==
  /\ s \in open /\ e \in owed[s] \cup abandoned[s]
  /\ Len(buffer[s]) < Capacity
  /\ buffer' = [buffer EXCEPT ![s] = Append(@, e)]
  /\ owed' = [owed EXCEPT ![s] = @ \ {e}]
  /\ abandoned' = [abandoned EXCEPT ![s] = @ \ {e}]
  /\ UNCHANGED <<open, sent, current>>

Withdraw(s, e) ==
  /\ e \in abandoned[s] \/ (e \in owed[s] /\ s \notin open)
  /\ owed' = [owed EXCEPT ![s] = @ \ {e}]
  /\ abandoned' = [abandoned EXCEPT ![s] = @ \ {e}]
  /\ UNCHANGED <<open, sent, buffer, current>>

Handle(s) ==
  /\ s \in open /\ current[s] = NoEvent /\ buffer[s] # <<>>
  /\ current' = [current EXCEPT ![s] = Head(buffer[s])]
  /\ buffer' = [buffer EXCEPT ![s] = Tail(@)]
  /\ UNCHANGED <<open, sent, owed, abandoned>>

HandlerEnds(s) ==
  /\ current' = [current EXCEPT ![s] = NoEvent]
  /\ UNCHANGED <<open, sent, owed, abandoned, buffer>>

\* What is buffered is lost with the subscription.
Close(s) ==
  /\ s \in open
  /\ open' = open \ {s}
  /\ buffer' = [buffer EXCEPT ![s] = <<>>]
  /\ UNCHANGED <<sent, owed, abandoned, current>>

Next ==
  \/ \E p \in Publishers : Publish(p) \/ Abandon(p)
  \/ \E s \in Subscriptions : Subscribe(s) \/ Handle(s) \/ HandlerEnds(s) \/ Close(s)
  \/ \E s \in Subscriptions : \E e \in owed[s] \cup abandoned[s] : Accept(s, e) \/ Withdraw(s, e)

Spec == Init /\ [][Next]_vars
=============================================================================
