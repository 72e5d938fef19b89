SPECIFICATION FairSpec
CONSTANTS
  Requests = {o, r1}
  Opener = o
  o = o
  r1 = r1
  k1 = k1
  k2 = k2
  Closers = {k1, k2}
  Tickler = Tickler
  None = None
  IDSpace = 4
  MaxIDs = 3
  SendBuf = 1
  RecvBuf = 1
PROPERTY RequestReturns
PROPERTY CloseReturns
PROPERTY GoroutinesEnd
PROPERTY AnsweredReturns
PROPERTY WriteErrorNoticed
CHECK_DEADLOCK FALSE
