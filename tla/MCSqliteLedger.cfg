CONSTANTS
  Scopes = {s1}
  NoLimit = NoLimit
  SecondTicks = 2
  DayTicks = 2
  MonthTicks = 4
  Ttl = 3
  I64Max = 63
  Ceilings = {1, 2}
  Actuals = {1, 3}
  Budgets <- MCBudgets
  MaxNow = 4
  MaxRows = 3
SPECIFICATION LedgerSpec
INVARIANT LedgerTypeOK
PROPERTIES SettledForever CapHoldsUpToOvershoot ImplementsContract ExpiredLeaseReleased
CHECK_DEADLOCK FALSE
