\* One task with two cards and a restart: whatever is queued settles.
SPECIFICATION FairSpec
CONSTANTS
  TaskIds = {t1}
  NoticeIds = {}
  TurnIds = {}
  ReplayIds = {}
  GuardedIds = {}
  NoEntry = NoEntry
  Rich = TRUE
  MaxCards = 2
  MaxEntries = 1
  MaxAttempts = 2
  MaxWriteFails = 0
  MaxRestarts = 1
  MaxRedrives = 0
PROPERTIES
  EverythingSettles
CHECK_DEADLOCK FALSE
