SPECIFICATION FairSpec
CONSTANTS
  Threads = {a}
  NoThread = NoThread
  Archivable = {a}
  MaxTurns = 1
  MaxCommands = 1
  Faults = {"write", "bind", "revoke"}
  MaxFaults = 2
  MaxCrashes = 1
PROPERTIES
  PendingReported
CHECK_DEADLOCK FALSE
