SPECIFICATION Spec
CONSTANTS
  Arch = "x86_64"
  Vm <- OneVm
  Vcpu <- TwoVcpus
  Base = 2
  Size = 5
  PageSize = 2
  UsizePages = 16
  Levels = 3
  Fanout = 2
  Frame <- SevenFrames
  HostRegion <- HostPages
  AllocChoices <- LowestFirst
  HalMayFail = FALSE
  OverflowChecks = FALSE
  GuestAddr <- AlignedAddrs
  CallSize <- AlignedSizes
  HostAddr <- OneHostAddr
  FlagChoices <- ReadOrWrite
  GuestAccess <- Accesses
INVARIANTS NoFrameLost
