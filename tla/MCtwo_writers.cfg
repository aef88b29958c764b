SPECIFICATION Spec
CONSTANTS
  RxFrames <- Silent
  FifoCap = 1
  DSN_SPACE = 2
  None = None
  Bufs = {b1, b2}
  MAX_SEND_TRIES = 1
  MAX_RESTART_TRIES = 1
  TOSH_DATA_LENGTH = 28
  TimersLeft <- AtRest
  Writers = {w1, w2}
  Readers = {}
  Counts = {4}
  Unicast = {FALSE}
  Signals = {}
  OpenFlags = {}
  AckModes = {}
  Slow = {}
INVARIANTS
  WriterNotStranded
