SPECIFICATION FairSpec
CONSTANTS
  d1 = d1
  r1 = r1
  r2 = r2
  Dispatches = {d1}
  CampaignDispatches = {d1}
  Runs = {r1, r2}
  NoDispatch = NoDispatch
  MaxAttempts = 2
  MaxFaults = 3
CHECK_DEADLOCK FALSE
INVARIANTS
  TypeOK
  RowsAgree
  NoStrandedRow
  SentWasAccepted
  DuplicatesHaveACause
  AttemptsHaveACause
PROPERTIES
  SentIsFinal
  Settles
