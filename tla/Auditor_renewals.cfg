CONSTANTS
  Authority = Authority
  OtherAuthority = OtherAuthority
  Blank = Blank
  NoValue = NoValue
  Versions = {V1, V2}
  MaxTime = 3
  Precisions <- MCComparable
  OtherDigest = OtherDigest
  MaxSize = 6
  MaxRewrites = 1
  DualSigned = {2, 5}

SPECIFICATION MCSpec
INVARIANTS
  KeysOutliveRotation
  ResolvedHasStanding
  GenuineProofsVerify
  AnchorHolds
PROPERTIES
  HistoryOnlyGrows
