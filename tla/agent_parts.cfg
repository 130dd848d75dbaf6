CONSTANTS
  Accounts = {aa, ab}
  Turns = {t1}
  MaxHosts = 4
  MaxLogins = 1
  MaxOps = 3
  MaxUpsets = 2
  Pids = {1, 2}
  Commands <- TheCommands
  MaxStarts = 3
  MaxStops = 1
  Formals = {fx, fy}
  Pipes = {p1}
  MaxSharedHosts = 3
  MaxBridges = 3
  HeardCap = 1
  ParkedCap = 1
  RefreshTicks = 2
  MaxDeskMoves = 2
  MaxDeskEpochs = 2
  HostCallers = {1, 2}
  Conversations = {"c1", "c2"}
  Saved = {"s1"}
  Unused = {"s2"}
  HostPlans <- ThePlans
  MaxAdapters = 2
  MaxHostMishaps = 2
SPECIFICATION Spec
INVARIANTS
  HostSound
  OnlyProvenSignalled
  ClientsOnFormalHost
  ConnectorTrue
  EmptyAfterAsking
  PromptsSound
PROPERTIES
  NoTurnCut
CHECK_DEADLOCK FALSE
