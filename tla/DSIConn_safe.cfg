SPECIFICATION Spec
CONSTANTS
  Requests = {o, r1, r2}
  Opener = o
  o = o
  r1 = r1
  r2 = r2
  Closers = {}
  Tickler = Tickler
  None = None
  IDSpace = 4
  MaxIDs = 7
  SendBuf = 1
  RecvBuf = 2
SYMMETRY Symmetry
INVARIANT PendingExact
INVARIANT RoutedRight
INVARIANT ReaderNeverBlocks
PROPERTY ImplementsRequestReply
CHECK_DEADLOCK FALSE
