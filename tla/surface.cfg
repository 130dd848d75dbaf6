CONSTANTS
  Labels = {la, lb}
  MaxSecrets = 4
  MaxTx = 4
  MaxMishaps = 2
  Fixed = {"cli", "home"}
  Loose = {"switch"}
  EnvKeys <- TheKeys
  MaxEnvOps = 4
  MaxEnvMishaps = 2
  Providers = {"openai", "other"}
  Children = {"c1", "c2"}
  MaxOrdinal = 4
  MaxSwitches = 1
  MaxBackups = 2
  MaxMigMishaps = 2
  CardKeys = {k}
  MaxCardOps = 2
  MaxCardMishaps = 1
  Plans <- TheDeliveries
  MaxIngressMishaps = 1
  WxMessages = 3
  WxCommands = {3}
  WxQueueCap = 1
  MaxWxMishaps = 2
  Operators = {"a", "b"}
  ServicePids = {1, 2, 3}
  Updater = "a"
  MaxSvcMishaps = 1
  CcWindows = {"w1", "w2"}
  CcSessions = {"s1", "s2", "s3"}
  CcMade = {"s1", "s3"}
  CcHome <- TheHomes
  CcPlans <- TheJobs
  MaxCcMishaps = 2
  AccessUsers = {"u"}
  UnionUsers = {"u"}
  EnvAgent = "env"
  FileAgents = {"x"}
  MaxAccessOps = 2
  MaxAccessMessages = 1
  MaxAccessMishaps = 1
SPECIFICATION Spec
INVARIANTS
  StoreSound
  NoOrphanedOverride
  MigrationSound
  CardsSound
  OnceInTurn
  CursorNeverSkips
  CommandsUndone
  SessionsSound
  RevokedStaysOut
PROPERTIES
  UpdatesKeepTheRest
CHECK_DEADLOCK FALSE
