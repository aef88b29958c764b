SPECIFICATION FairSpec
CONSTANTS
  FullBlocks = 3
  Remainder = 5
  GarbageAcks = {0}
  DiskBlocks = 5
  MaxKills = 2
  Faults <- AnyFault
  Stale = Stale
  Invalid = Invalid
INVARIANTS
  TypeOK
  PrefixUnlessLost
  DoneMeansDelivered
PROPERTIES
  BlockNotOverwritten
  EndsUnlessLost
CHECK_DEADLOCK FALSE
