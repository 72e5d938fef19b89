SPECIFICATION Spec
CONSTANTS
  Bitmaps <- MCBitmaps
  MaxLen <- MCMaxLen
  MaxItems = 2
  StringLens = {0, 1, 2, 255}
  Epoch = 9
  Span = 16
  Times <- MCTimes
INVARIANT InBounds
INVARIANT FieldsInPlace
INVARIANT ErrorsAreReported
INVARIANT DateReadsBack
CHECK_DEADLOCK FALSE
