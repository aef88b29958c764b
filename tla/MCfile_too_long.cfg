SPECIFICATION FairSpec
CONSTANTS
  FullBlocks = 128
  Remainder = 5
  GarbageAcks = {0}
  DiskBlocks = 140
  MaxKills = 0
  Faults <- NoFault
  Stale = Stale
  Invalid = Invalid
PROPERTIES
  EndsUnlessLost
CHECK_DEADLOCK FALSE
