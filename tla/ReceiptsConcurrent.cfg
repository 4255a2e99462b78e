SPECIFICATION Spec
CONSTANTS
  w1 = w1
  w2 = w2
  h1 = h1
  h2 = h2
  Wamids = {w1, w2}
  Hooks = {h1, h2}
  NoWamid = NoWamid
  Reported = {"sent", "delivered", "failed"}
  TicksPerSecond = 2
  StartTime = 3
  MaxTime = 4
SYMMETRY Interchangeable
CHECK_DEADLOCK FALSE
INVARIANTS
  TypeOK
  BufferIsSound
  TruthIsShown
PROPERTIES
  ImplementsTimeline
