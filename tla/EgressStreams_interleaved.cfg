CONSTANTS
  A = A
  B = B
  H1 = H1
  H2 = H2
  H3 = H3
  OtherHash = OtherHash
  NoValue = NoValue
  Streams = {A, B}
  ChunkHashes = {H1, H2, H3}
  Content <- MCContent
  MaxOpen = 2
  MaxOthers = 1
  MaxFaults = 2

SPECIFICATION StreamsSpec
INVARIANTS
  LeavesDecide
  WalkIsItsDefinition
