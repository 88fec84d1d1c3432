SPECIFICATION Spec
CONSTANTS
  Arch = "x86_64"
  Vm <- OneVm
  Vcpu <- OneVcpu
  Base = 2
  Size = 7
  PageSize = 2
  UsizePages = 16
  Levels = 2
  Fanout = 2
  Frame <- SevenFrames
  HostRegion <- HostPages
  AllocChoices <- LowestFirst
  HalMayFail = FALSE
  OverflowChecks = FALSE
  GuestAddr <- ThreePages
  CallSize <- ThreeSizes
  HostAddr <- OneHostAddr
  FlagChoices <- OnlyRW
  GuestAccess <- OneWrite
INVARIANTS NoFrameLost ReachableOnlyThroughAreas
PROPERTIES UnmapExact
