CONSTANTS
  r1 = r1
  r2 = r2
  s1 = s1
  k1 = k1
  Scopes = {s1}
  NoLimit = NoLimit
  SecondTicks = 2
  DayTicks = 8
  MonthTicks = 8
  Ttl = 3
  I64Max = 63
  Ceilings = {2}
  Actuals = {}
  Budgets <- MCBudgets
  MaxNow = 3
  MaxRows = 2
  Requests = {r1, r2}
  ScopeOf <- MCScopeOf
  CeilingOf <- MCCeilingOf
  KeyOf <- MCKeyOf
  NoKey = NoKey
  Bounded = {r1}
  Deadline = 1
  Headroom = 1
  Tokens = {3}
  MaxCrashes = 1
SPECIFICATION Spec
INVARIANTS  NoLeaseLeaks StoppedIsQuiet OneEventPerWindow 
CHECK_DEADLOCK FALSE
