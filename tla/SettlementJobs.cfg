CONSTANTS
  Capacity = 2
  U64Max = 4
SPECIFICATION JobsSpec
INVARIANTS JobsTypeOK WorkersOwnSlots GuardsCounted
PROPERTY EvidenceRetained
CHECK_DEADLOCK FALSE
