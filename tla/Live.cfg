CONSTANTS
  s1 = s1
  s2 = s2
  d1 = d1
  Peer = {p1, p2}
  SessionId = {s1}
  DeviceId = {}
  None = None
  Requests <- Joins
  Slow = {p2}
  PeerTimeout = 0
  ReRegister = FALSE
  LateFrames = FALSE
  BadValues = TRUE
SPECIFICATION FairSpec
VIEW ReadView
PROPERTIES SilentDropped HeldUpOnlyBySlow HandlersEnd
