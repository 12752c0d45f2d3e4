CONSTANTS
  Scopes = {s1}
  NoLimit = NoLimit
  U64Max = 63
  Ceilings = {1}
  Actuals = {0, 1, 2}
  Limits = {2}
  Ttls = {1}
  MaxNow = 2
  MaxLeases = 3
SPECIFICATION CappedSpec
INVARIANT OneCallOvershoot
CHECK_DEADLOCK FALSE
