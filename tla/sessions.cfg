\* One task with two cards, or a notice and a replay that compete for one slot:
\* a failed write, failed sends, a restart and a redrive.
SPECIFICATION Spec
CONSTRAINT Apart
CONSTANTS
  TaskIds = {t1}
  NoticeIds = {n1}
  TurnIds = {}
  ReplayIds = {r1}
  GuardedIds = {r1}
  NoEntry = NoEntry
  Rich = TRUE
  MaxCards = 2
  MaxEntries = 1
  MaxAttempts = 2
  MaxWriteFails = 1
  MaxRestarts = 1
  MaxRedrives = 1
INVARIANTS
  LiveReservationUndisturbed
  FileSound
  RecoverySound
PROPERTIES
  Contract
  CardsKept
  CardBeforeResult
CHECK_DEADLOCK FALSE
