CONSTANTS
  s1 = s1
  s2 = s2
  e1 = e1
  e2 = e2
  e3 = e3
  NoLimit = NoLimit
  SecondTicks = 1
  DayTicks = 4
  MonthTicks = 8
  Ttl = 1
  I64Max = 3
  Ceilings = {1}
  Actuals = {}
  MaxRows = 2
  RetainedLimit = 2
  Weights = {1}
  CacheReadWeight = 1
  ClaimLimit = 1
  ClaimSeconds = 1
  MaxTokens = 0
  Scopes = {s1}
  ScopeOrder <- MCOneScope
  Executions = {e1}
  Usages <- MCFinal
  Budgets = {}
  MaxNow = 0
  Capacity = 2
  U64Max = 6
  PageSize = 1
  Slices = 3
  MaxFaults = 2
  MaxCrashes = 0
SPECIFICATION TrackedFairSpec
PROPERTY CapturedUsageSettles
CHECK_DEADLOCK FALSE
