CONSTANTS
  None = None
  MaxLsn = 3
  MaxRepeats = 2
  MaxSecond = 2
  Durability = "Media"
  Window = TRUE
  Rotates = TRUE
SPECIFICATION Spec
INVARIANTS
  SinkInv
  NothingVanishes
  ClosedIsDurable
