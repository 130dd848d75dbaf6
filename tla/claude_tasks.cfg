SPECIFICATION FairSpec
CONSTANTS
  Msgs = {m1, m2, g1}
  Guests = {g1}
  Watches = {}
  Settings = {s1}
  NoMsg = NoMsg
  NoTask = NoTask
  Agent = "claude"
  Platform = "feishu"
  Faults = {}
  MaxCommands = 3
PROPERTIES
  EveryInputSettles
CHECK_DEADLOCK FALSE
