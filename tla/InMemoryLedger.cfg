CONSTANTS
  Scopes = {s1, s2}
  NoLimit = NoLimit
  U64Max = 63
  Ceilings = {1, 2}
  Actuals = {0, 1, 3}
  Limits = {NoLimit, 2, 3}
  Ttls = {1}
  MaxNow = 2
  MaxLeases = 3
SPECIFICATION Spec
INVARIANTS TypeOK ReservedIsHeld
PROPERTY ImplementsContract
CHECK_DEADLOCK FALSE
