SPECIFICATION FairSpec
CONSTANTS
  Calls <- Transfers
  None = None
INVARIANTS
  TypeOK
  AnswersRight
  NoOverrun
PROPERTIES
  TransactionWhole
  PortReleased
