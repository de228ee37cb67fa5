CONSTANTS
  Jobs = {1, 2}
  Conditions = {"power", "thermal"}
  MaxTime = 6
  Hour = 2
  Day = 4
  MaxWork = 1
  Catalogs <- MCCatalogs
SPECIFICATION Spec
INVARIANT PendingExact
PROPERTIES DeferredStartsCurrent ScheduledForward
