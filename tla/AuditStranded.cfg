CONSTANTS
  None = None
  Producers = {p1, p2}
  MaxPushes = 2
  RingCapacity = 2
  Signed = TRUE
  Durability = "Media"
  Window = TRUE
  Rotates = FALSE
  MaxSecond = 1
SPECIFICATION Spec
INVARIANTS
  AcceptedAreDrained
CHECK_DEADLOCK FALSE
