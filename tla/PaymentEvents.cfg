SPECIFICATION FairSpec
CONSTANTS
  Events = {e1}
  Runs = {r1, r2}
  None = none
  MaxAttempts = 2
  MaxFaults = 3
INVARIANTS
  TypeOK
  LedgerIsSound
PROPERTIES
  ConcludedIsFinal
  EventsConclude
CHECK_DEADLOCK FALSE
