SPECIFICATION FairSpec
CONSTANTS
  FullBlocks = 3
  Remainder = 5
  Programs = {"simple", "resumeable", "advance"}
  MaxKills = 2
  Faults <- AnyFault
  Invalid = Invalid
INVARIANTS
  TypeOK
  BlocksInOrder
  NeverGoesBack
  FinishedFile
PROPERTIES
  BothEndUnlessLost
CHECK_DEADLOCK FALSE
