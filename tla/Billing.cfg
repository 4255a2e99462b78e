SPECIFICATION FairSpec
CONSTANTS
  NumOrders = 1
  NumPayments = 2
  FreeRequests = {f1}
  PeriodLength = 1
  GraceLength = 1
  OrderTtl = 1
  MaxTime = 2
  MaxFaults = 1
INVARIANTS
  InvoicesAreSound
  PaidTimeIsKept
PROPERTIES
  CapturedIsApplied
  LapsesEnd
CHECK_DEADLOCK FALSE
