----------------------------- MODULE MCEventBus -----------------------------
\* Two subscriptions and two publishers, of two events and of one, on queues of one: a put
\* waits, is woken, is overtaken, and loses its subscription.
EXTENDS EventBus, TLC

CONSTANTS p1, p2

MCSubscriptions == 1 .. 2
MCPublishers == {p1, p2}
MCMaxEvents == (p1 :> 2) @@ (p2 :> 1)
=============================================================================
