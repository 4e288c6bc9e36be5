CONSTANTS
  s1 = s1
  s2 = s2
  d1 = d1
  Peer = {p1, p2}
  SessionId = {s1, s2}
  DeviceId = {}
  None = None
  Requests <- TwoSessions
  Slow = {p1, p2}
  PeerTimeout = 1
  ReRegister = TRUE
  LateFrames = TRUE
  BadValues = TRUE
SPECIFICATION Spec
SYMMETRY BothSymmetry
VIEW GaugeView
INVARIANTS WriterMatchesTable HealthAgrees
 
