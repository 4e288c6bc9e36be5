CONSTANTS
  s1 = s1
  s2 = s2
  d1 = d1
  Peer = {p1, p2, p3}
  SessionId = {s1}
  DeviceId = {}
  None = None
  Requests <- Joins
  Slow = {}
  PeerTimeout = 0
  ReRegister = TRUE
  LateFrames = FALSE
  BadValues = FALSE
SPECIFICATION Spec
SYMMETRY Symmetry
VIEW View
PROPERTY PairingNotStolen
