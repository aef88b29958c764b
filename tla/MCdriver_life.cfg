SPECIFICATION Spec
CONSTANTS
  DefaultAddr = 99
  HostIsLsb = TRUE
  Freqs <- SomeFreqs
  Channels <- SomeChannels
  Powers <- SomePowers
  Addrs <- SomeAddrs
  Sizes <- SomeSizes
  TASK_SIZE <- StargateTop
  CutShort = FALSE
  Faults = {"memory", "chrdev", "ssp", "oscillator", "FIFOP", "SFD", "OST", "cdev"}
INVARIANTS
  TypeOK
  HandlersFindDriver
  TimerFindsPacket
  NothingHeldUnloaded
  ChipConfigured
PROPERTIES
  ImplementsSettings
CHECK_DEADLOCK FALSE
