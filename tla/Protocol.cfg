CONSTANTS
  Base = 2
  m1 = m1
  m2 = m2
  bye = bye
  Message = {m1, m2, bye}
  Disconnect = bye
  Malformed = Malformed
  Pack <- PackOf
  Unpack <- UnpackOf
  Frame <- Frames
  MaxSize = 2
  MaxFrames = 3
SPECIFICATION FairSpec
INVARIANTS ProtocolTypeOK WithinFrame InOrder
PROPERTIES ImplementsChannel DeliversArrived
