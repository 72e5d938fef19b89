SPECIFICATION Spec
CONSTANTS
  f = f
  g = g
  p = p
  q = q
  None = None
  Files = {f, g}
  Paths = {p, q}
  Faults = {"refuse", "timeout", "move"}
  MaxGens = 3
  MaxCalls = 1
  MaxCreated = 2
  MaxFaults = 2
SYMMETRY Symmetry
INVARIANT ForksAgree
INVARIANT NoticedDropIsSurvived
CHECK_DEADLOCK FALSE
