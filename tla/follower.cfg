SPECIFICATION Spec
CONSTANTS
  Threads = {a, b}
  NoThread = NoThread
  Archivable = {}
  MaxTurns = 1
  MaxCommands = 2
  Faults = {"host", "bind", "revoke"}
  MaxFaults = 1
  MaxCrashes = 1
INVARIANTS
  SendsAreCurrent
  RestartTrustsNothing
  ShownOnce
SYMMETRY Alike
CHECK_DEADLOCK FALSE
