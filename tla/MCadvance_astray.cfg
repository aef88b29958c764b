SPECIFICATION Spec
CONSTANTS
  FullBlocks = 3
  Remainder = 5
  Programs = {"advance"}
  MaxKills = 2
  Faults <- NoFault
  Invalid = Invalid
INVARIANTS
  AdvanceSynchronises
CHECK_DEADLOCK FALSE
