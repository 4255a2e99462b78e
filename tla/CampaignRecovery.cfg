SPECIFICATION FairSpec
CONSTANTS
  c1 = c1
  c2 = c2
  e1 = e1
  e2 = e2
  q1 = q1
  q2 = q2
  NoContact = NoContact
  Contacts = {c1}
  Executors = {e1}
  Requests = {q1}
  TagAudience = FALSE
  BatchSize = 1
  Reported = {}
  MaxMessages = 1
  MaxRequests = 2
  MaxFaults = 1
CHECK_DEADLOCK FALSE
PROPERTIES
  LaunchesProceed
  NoRecipientStuck
