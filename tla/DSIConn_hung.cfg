SPECIFICATION FairSpec
CONSTANTS
  Requests = {o, r1}
  Opener = o
  o = o
  r1 = r1
  k1 = k1
  Closers = {k1}
  Tickler = Tickler
  None = None
  IDSpace = 5
  MaxIDs = 4
  SendBuf = 1
  RecvBuf = 1
PROPERTY RequestBounded
CHECK_DEADLOCK FALSE
