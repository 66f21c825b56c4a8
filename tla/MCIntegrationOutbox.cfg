SPECIFICATION OutboxSpec

CONSTANTS
  Rows = {r1, r2, r3}
  Processes = {p1, p2}
  MaxAttempts = 2
  BatchSize = 2
  MaxCrashes = 1

SYMMETRY Interchangeable

CHECK_DEADLOCK FALSE

INVARIANTS
  OutboxTypeOK
  ClaimIsExclusive
  DeliveredIsReceived

PROPERTIES
  SettledIsFinal
