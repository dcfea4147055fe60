CONSTANTS
  C1 = C1
  C2 = C2
  C3 = C3
  C4 = C4
  Org1 = Org1
  Org2 = Org2
  NoValue = NoValue
  CapsuleIds = {C1, C2, C3, C4}
  OrgIds = {Org1, Org2}
  MaxDepths = {0, 1, 3, 6}

SPECIFICATION Spec
INVARIANTS
  TypeOK
  AcceptedChainIsWhole
  RefusedOnlyForCause
  AsksOncePerCapsule
PROPERTIES
  WalkEnds
