SPECIFICATION FairSpec
CONSTANTS
  RxFrames <- BadFrames
  FifoCap = 1
  DSN_SPACE = 1
  None = None
  Bufs = {b1}
  MAX_SEND_TRIES = 0
  MAX_RESTART_TRIES = 0
  TOSH_DATA_LENGTH = 28
  TimersLeft <- AtRest
  Writers = {w1}
  Readers = {}
  Counts = {4}
  Unicast = {FALSE}
  Signals = {w1}
  OpenFlags = {}
  AckModes = {}
  Slow = {}
INVARIANTS
  TransmitLoopRuns
  WriterNotStranded
  CountersInRange
  BackoffRunsOut
PROPERTIES
  WriteReturnsEventually
