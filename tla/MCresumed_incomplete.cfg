SPECIFICATION Spec
CONSTANTS
  FullBlocks = 3
  Remainder = 5
  Programs = {"resumeable"}
  MaxKills = 2
  Faults <- NoFault
  Invalid = Invalid
INVARIANTS
  ResumedFileWhole
CHECK_DEADLOCK FALSE
