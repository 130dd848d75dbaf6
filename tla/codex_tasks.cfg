SPECIFICATION Spec
CONSTANTS
  Msgs = {m1, m2}
  Guests = {}
  Watches = {x1}
  Settings = {}
  NoMsg = NoMsg
  NoTask = NoTask
  Agent = "codex"
  Platform = "feishu"
  Faults = {"observer", "reservation", "reopen", "lateStop"}
  MaxCommands = 2
SYMMETRY Windows
INVARIANTS
  InputOnce
  StoppedOnlyIfAsked
  OverIsOver
PROPERTIES
  TerminalStands
CHECK_DEADLOCK FALSE
