SPECIFICATION Spec
CONSTANTS
  DefaultAddr = 99
  HostIsLsb = TRUE
  Freqs <- NoArgument
  Channels <- NoArgument
  Powers <- NoArgument
  Addrs <- NoArgument
  Sizes <- NoArgument
  TASK_SIZE <- StargateTop
  CutShort = FALSE
  Faults = {}
INVARIANTS
  FrameNoticed
CHECK_DEADLOCK FALSE
