CONSTANTS
  aa = aa
  ab = ab
  t1 = t1
  Accounts = {aa, ab}
  Turns = {t1}
  MaxHosts = 4
  MaxLogins = 1
  MaxOps = 3
  MaxUpsets = 2
SPECIFICATION CodexHostSpec
INVARIANT ShutUntilRepaired
CHECK_DEADLOCK FALSE
