SPECIFICATION FairSpec
CONSTANTS
  a = a
  b = b
  Ops = {a, b}
  Idempotent = {a}
  None = None
  MaxConns = 5
  MaxFaults = 3
INVARIANT OnlyNewestLives
INVARIANT RetryOnNewerLink
INVARIANT ResultIsHonest
PROPERTY ReconnectClosesOnlyDead
PROPERTY DoReturns
PROPERTY Recovers
CHECK_DEADLOCK FALSE
