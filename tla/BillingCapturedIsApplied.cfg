SPECIFICATION FairSpec
CONSTANTS
  NumOrders = 1
  NumPayments = 2
  FreeRequests = {}
  PeriodLength = 1
  GraceLength = 1
  OrderTtl = 1
  MaxTime = 1
  MaxFaults = 0
PROPERTY CapturedIsAlwaysApplied
CHECK_DEADLOCK FALSE
