SPECIFICATION Spec
CONSTANTS
  RxFrames <- DataFrames
  FifoCap = 1
  DSN_SPACE = 2
  None = None
  Bufs = {b1}
  MAX_SEND_TRIES = 1
  MAX_RESTART_TRIES = 1
  TOSH_DATA_LENGTH = 28
  TimersLeft <- AtRest
  Writers = {w1}
  Readers = {}
  Counts = {4}
  Unicast = {TRUE}
  Signals = {}
  OpenFlags = {}
  AckModes = {TRUE}
  Slow = {}
INVARIANTS
  BackoffRunsOut
