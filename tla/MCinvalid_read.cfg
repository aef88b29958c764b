SPECIFICATION Spec
CONSTANTS
  RxFrames <- BadFrames
  FifoCap = 1
  DSN_SPACE = 2
  None = None
  Bufs = {b1}
  MAX_SEND_TRIES = 1
  MAX_RESTART_TRIES = 1
  TOSH_DATA_LENGTH = 28
  TimersLeft <- AtRest
  Writers = {}
  Readers = {r1}
  Counts = {4}
  Unicast = {FALSE}
  Signals = {}
  OpenFlags = {}
  AckModes = {}
  Slow = {}
PROPERTIES
  NoInvalidRead
