SPECIFICATION PteSpec
CONSTANTS
  Archs <- OnlyA64
  Paddr <- HostAddrs
INVARIANTS FlagsReadBack
