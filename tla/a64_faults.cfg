SPECIFICATION Spec
CONSTANTS
  Arch = "aarch64"
  Vm <- OneVm
  Vcpu <- OneVcpu
  Base = 2
  Size = 5
  PageSize = 2
  UsizePages = 16
  Levels = 2
  Fanout = 2
  Frame <- FiveFrames
  HostRegion <- HostPages
  AllocChoices <- LowestFirst
  HalMayFail = TRUE
  OverflowChecks = FALSE
  GuestAddr <- AlignedAddrs
  CallSize <- AlignedSizes
  HostAddr <- OneHostAddr
  FlagChoices <- WithWriteOnly
  GuestAccess <- Accesses
INVARIANTS FramesExclusive NoFreeFrameInUse AreasWellFormed BackedAsPromised PanicsOnlyOnAbsentPages
PROPERTIES HandledMeansAccessible
CHECK_DEADLOCK FALSE
