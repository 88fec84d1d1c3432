SPECIFICATION FairSpec
CONSTANTS
  Arch = "x86_64"
  Vm <- OneVm
  Vcpu = {}
  Base = 2
  Size = 7
  PageSize = 2
  UsizePages = 16
  Levels = 2
  Fanout = 4
  Frame <- FiveFrames
  HostRegion <- HostPages
  AllocChoices <- LowestFirst
  HalMayFail = TRUE
  OverflowChecks = FALSE
  GuestAddr <- Addrs
  CallSize <- Sizes
  HostAddr <- HostAddrs
  FlagChoices <- OnlyRW
  GuestAccess <- Accesses
INVARIANTS TypeOK AreasWellFormed BackedAsPromised BufferMatchesTranslate
PROPERTIES MapReturns
