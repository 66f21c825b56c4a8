SPECIFICATION OutboxLiveSpec

CONSTANTS
  Rows = {r1, r2}
  Processes = {p1}
  MaxAttempts = 3
  BatchSize = 2
  MaxCrashes = 2

CHECK_DEADLOCK FALSE

PROPERTIES
  
  PendingIsSettledOrAbandoned
