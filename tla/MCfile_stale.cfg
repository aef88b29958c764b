SPECIFICATION Spec
CONSTANTS
  FullBlocks = 3
  Remainder = 5
  GarbageAcks = {0}
  DiskBlocks = 5
  MaxKills = 0
  Faults <- AnyFault
  Stale = Stale
  Invalid = Invalid
INVARIANTS
  DeliveredDespiteLoss
CHECK_DEADLOCK FALSE
