SPECIFICATION Spec
CONSTANTS
  NumObjects = 2
  Logos = {1, 2}
  Size <- TwoSizes
  Limits = {2, 3}
  Workers = {w1}
  None = none
  MaxFaults = 1
INVARIANTS
  UsageIsSound
  ReadyIsStored
CHECK_DEADLOCK FALSE
