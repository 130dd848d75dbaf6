SPECIFICATION FairSpec
CONSTANTS
  Msgs = {m1, m2}
  Guests = {}
  Watches = {x1}
  Settings = {}
  NoMsg = NoMsg
  NoTask = NoTask
  Agent = "codex"
  Platform = "wechat"
  Faults = {}
  MaxCommands = 1
INVARIANTS
  NobodyForgotten
PROPERTIES
  EveryInputSettles
CHECK_DEADLOCK FALSE
