CONSTANTS
  s1 = s1
  s2 = s2
  d1 = d1
  Peer = {p1, p2}
  SessionId = {s1}
  DeviceId = {d1}
  None = None
  Requests <- OneSession
  Slow = {p1, p2}
  PeerTimeout = 0
  ReRegister = FALSE
  LateFrames = FALSE
  BadValues = TRUE
SPECIFICATION Spec
SYMMETRY Symmetry
VIEW ListView
INVARIANTS TypeOK SessionHosted DeviceConnected GoneUnlisted
PROPERTIES GaugesNotBehind EntriesKept
