SPECIFICATION FairSpec
CONSTANTS
  RxFrames <- Silent
  FifoCap = 1
  DSN_SPACE = 2
  None = None
  Bufs = {b1, b2}
  MAX_SEND_TRIES = 2
  MAX_RESTART_TRIES = 1
  TOSH_DATA_LENGTH = 28
  TimersLeft <- AtRest
  Writers = {w1}
  Readers = {}
  Counts = {4, 30}
  Unicast = {TRUE, FALSE}
  Signals = {}
  OpenFlags = {}
  AckModes = {TRUE, FALSE}
  Slow = {}
INVARIANTS
  TxBufferLive
  TxPointerSet
  SendDoneClaimed
  IdleMeansSilent
PROPERTIES
  FifoUntouchedWhileSending
  ImplementsService
