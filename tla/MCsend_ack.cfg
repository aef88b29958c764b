SPECIFICATION Spec
CONSTANTS
  RxFrames <- AckFrames
  FifoCap = 1
  DSN_SPACE = 2
  None = None
  Bufs = {b1}
  MAX_SEND_TRIES = 0
  MAX_RESTART_TRIES = 0
  TOSH_DATA_LENGTH = 28
  TimersLeft <- AtRest
  Writers = {w1}
  Readers = {}
  Counts = {4}
  Unicast = {TRUE}
  Signals = {}
  OpenFlags = {}
  AckModes = {TRUE}
  Slow = {}
INVARIANTS
  TypeOK
  TransmitLoopRuns
  SendDoneClaimed
