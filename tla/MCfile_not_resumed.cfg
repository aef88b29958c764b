SPECIFICATION Spec
CONSTANTS
  FullBlocks = 3
  Remainder = 5
  GarbageAcks = {0}
  DiskBlocks = 5
  MaxKills = 1
  Faults <- NoFault
  Stale = Stale
  Invalid = Invalid
INVARIANTS
  ContinuesAtEnd
CHECK_DEADLOCK FALSE
