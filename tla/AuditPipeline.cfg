CONSTANTS
  None = None
  Producers = {p1, p2}
  MaxPushes = 2
  RingCapacity = 1
  Signed = TRUE
  Durability = "Media"
  Window = TRUE
  Rotates = FALSE
  MaxSecond = 1
SPECIFICATION FairSpec
INVARIANTS
  TrailsInv
  CleanStopIsDurable
PROPERTIES
  ImplementsAuditLog
  EveryPushReturns
  StopCompletes
CHECK_DEADLOCK FALSE
