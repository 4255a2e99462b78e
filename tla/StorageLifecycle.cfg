SPECIFICATION FairSpec
CONSTANTS
  NumObjects = 1
  Logos = {}
  Size <- TwoSizes
  Limits = {1}
  Workers = {w1, w2}
  None = none
  MaxFaults = 2
PROPERTIES
  StorageSettles
CHECK_DEADLOCK FALSE
