SPECIFICATION Spec
CONSTANTS
  NumSessions = 1
  NumMessages = 3
  Taps = {2}
  ExpiryModes = {"RESTART", "RESUME"}
  None = none
  MaxRequests = 1
  MaxFaults = 1
INVARIANTS
  TypeOK
  NoStrandedText
  HumanKeepsTheConversation
PROPERTIES
  EndedStaysEnded
CHECK_DEADLOCK FALSE
