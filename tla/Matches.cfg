CONSTANTS
  s1 = s1
  s2 = s2
  d1 = d1
  Peer = {p1, p2, p3}
  SessionId = {s1}
  DeviceId = {d1}
  None = None
  Requests <- Lookups
  Slow = {}
  PeerTimeout = 0
  ReRegister = FALSE
  LateFrames = FALSE
  BadValues = TRUE
SPECIFICATION Spec
SYMMETRY Symmetry
VIEW View
INVARIANTS PairingSymmetric PairHosted
PROPERTY ImplementsMatching
