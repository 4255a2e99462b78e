SPECIFICATION Spec
CONSTANTS
  c1 = c1
  c2 = c2
  e1 = e1
  e2 = e2
  q1 = q1
  q2 = q2
  NoContact = NoContact
  Contacts = {c1}
  Executors = {e1, e2}
  Requests = {q1}
  TagAudience = FALSE
  BatchSize = 1
  Reported = {"delivered"}
  MaxMessages = 2
  MaxRequests = 1
  MaxFaults = 1
SYMMETRY Interchangeable
CHECK_DEADLOCK FALSE
INVARIANTS
  StampsAreOrdered
  MessagesHaveACause
  SentIsResolved
  CountersAreRight
