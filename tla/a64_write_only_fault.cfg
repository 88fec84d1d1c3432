SPECIFICATION Spec
CONSTANTS
  Arch = "aarch64"
  Vm <- OneVm
  Vcpu <- OneVcpu
  Base = 2
  Size = 5
  PageSize = 2
  UsizePages = 16
  Levels = 3
  Fanout = 2
  Frame <- FiveFrames
  HostRegion <- HostPages
  AllocChoices <- LowestFirst
  HalMayFail = TRUE
  OverflowChecks = FALSE
  GuestAddr <- AlignedAddrs
  CallSize <- AlignedSizes
  HostAddr = {}
  FlagChoices <- OnlyW
  GuestAccess <- Accesses
PROPERTIES TrueMeansHandled
