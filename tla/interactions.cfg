CONSTANTS
  f1 = f1
  f2 = f2
  r1 = r1
  Frontends = {f1, f2}
  Owners = {f1}
  Requests = {r1}
  MaxTurns = 2
  MaxBrokers = 2
  MaxFaults = 1
  ModeUsers = {f2}
  MaxModes = 1
SPECIFICATION Spec
INVARIANTS
  AnswersSound
  YoloLeavesNoneWaiting
CHECK_DEADLOCK FALSE
