SPECIFICATION Spec
CONSTANTS
  Calls <- AddressWrites
  None = None
PROPERTIES
  TransactionWhole
