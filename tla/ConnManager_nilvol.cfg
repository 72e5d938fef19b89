SPECIFICATION Spec
CONSTANTS
  a = a
  b = b
  Ops = {a, b}
  Idempotent = {a}
  None = None
  MaxConns = 4
  MaxFaults = 3
INVARIANT FnGetsVolume
CHECK_DEADLOCK FALSE
