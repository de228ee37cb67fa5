CONSTANTS
  p1 = p1
  p2 = p2
  NoEvent = NoEvent
  Subscriptions <- MCSubscriptions
  Publishers <- MCPublishers
  Capacity = 1
  MaxEvents <- MCMaxEvents
SPECIFICATION FairSpec
CHECK_DEADLOCK FALSE
INVARIANT ClosedMeansJoined
PROPERTIES
  DeliverySpec
  ClosingReleases
