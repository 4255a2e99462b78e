SPECIFICATION Spec
CONSTANTS
  c1 = c1
  c2 = c2
  e1 = e1
  e2 = e2
  q1 = q1
  q2 = q2
  NoContact = NoContact
  Contacts = {c1}
  Executors = {e1}
  Requests = {q1, q2}
  TagAudience = TRUE
  BatchSize = 1
  Reported = {}
  MaxMessages = 2
  MaxRequests = 3
  MaxFaults = 0
SYMMETRY Interchangeable
CHECK_DEADLOCK FALSE
INVARIANTS
  TypeOK
PROPERTIES
  EndsAreFinal
