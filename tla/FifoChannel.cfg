CONSTANTS
  Data = {d1, d2}
  X = X
  DEPTH = 3
  AddrRange = 4
  MaxGap = 4
  MaxChain = 2
  MaxWrites = 6
  MaxResets = 1
SPECIFICATION FairChannelSpec
INVARIANTS NothingLost NoUnknownInside
PROPERTIES ClientsConform ImplementsQueue AllArrive
