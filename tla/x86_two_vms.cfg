SPECIFICATION Spec
CONSTANTS
  Arch = "x86_64"
  Vm <- TwoVms
  Vcpu <- OneVcpu
  Base = 2
  Size = 2
  PageSize = 2
  UsizePages = 16
  Levels = 2
  Fanout = 2
  Frame <- SixFrames
  HostRegion <- HostPages
  AllocChoices <- LowestFirst
  HalMayFail = FALSE
  OverflowChecks = FALSE
  GuestAddr <- AlignedAddrs
  CallSize <- AlignedSizes
  HostAddr = {}
  FlagChoices <- OnlyRW
  GuestAccess <- OneWrite
INVARIANTS FramesExclusive
