CONSTANTS
  Kinds = {"worm"}
  MaxTrail = 3
  MaxRuns = 2
  MaxDamage = 3
SPECIFICATION VerifySpec
INVARIANT UndamagedTrailPasses
CHECK_DEADLOCK FALSE
