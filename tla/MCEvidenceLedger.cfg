CONSTANTS
  Scopes = {s1}
  NoLimit = NoLimit
  SecondTicks = 1
  DayTicks = 4
  MonthTicks = 8
  Ttl = 1
  I64Max = 3
  Ceilings = {1}
  Actuals = {1}
  Budgets <- MCBudgets
  MaxNow = 2
  MaxRows = 2
  Executions = {e1, e2}
  RetainedLimit = 2
  Usages <- MCUsages
  Weights = {1, 2}
  ClaimLimit = 1
  ClaimSeconds = 1
  MaxTokens = 3
SPECIFICATION Spec
INVARIANTS TypeOK EvidenceConsistent PermitOnce OneLiveClaim IInv
PROPERTIES LiabilityRetained ChargeImmutable 
CHECK_DEADLOCK FALSE
