CONSTANTS
  Authority = Authority
  OtherAuthority = OtherAuthority
  Blank = Blank
  NoValue = NoValue
  Versions = {V1, V2}
  MaxTime = 3
  Precisions <- MCMixed

SPECIFICATION Spec
INVARIANTS
  KeysOutliveRotation
