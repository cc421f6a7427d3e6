CONSTANTS
  None = None
  MaxLsn = 4
  MaxRepeats = 1
  MaxSecond = 1
  Durability = "OsCache"
  Window = TRUE
  Rotates = FALSE
SPECIFICATION Spec
INVARIANTS
  GapsAreMissing
