CONSTANTS
  x = x
  c = c
  i1 = i1
  i2 = i2
  Threads = {x}
  Convs = {c}
  Inputs = {i1, i2}
  TurnRetries = 1
  MaxBindOps = 1
  MaxLosses = 2
  MaxAppTurns = 1
SPECIFICATION TurnsSpec
SYMMETRY Alike
INVARIANTS
  AttemptsSound
  SelectionsCurrent
PROPERTIES
  UncertainLeaseKept
CHECK_DEADLOCK FALSE
