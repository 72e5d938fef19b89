SPECIFICATION ListSpec
CONSTANTS
  a = a
  b = b
  c = c
  d = d
  Names = {a, b, c, d}
  Batch = 2
  MaxChanges = 3
  MaxDrops = 2
INVARIANT ExactWhenQuiet
INVARIANT OffByChanges
PROPERTY ListEnds
CHECK_DEADLOCK FALSE
