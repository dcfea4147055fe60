CONSTANTS
  C1 = C1
  C2 = C2
  T1 = T1
  T2 = T2
  R1 = R1
  R2 = R2
  B1 = B1
  B2 = B2
  B3 = B3
  G1 = G1
  G2 = G2
  G3 = G3
  L1 = L1
  L2 = L2
  L3 = L3
  H1 = H1
  H2 = H2
  H3 = H3
  KNow = KNow
  KOld = KOld
  KGone = KGone
  KForeign = KForeign
  Plain = Plain
  Other = Other
  Wrong = Wrong
  NoValue = NoValue
  NoText = NoText
  BadRoot = BadRoot
  IndexModulus = 4
  ParseI64 <- MCParseI64
  DefaultAuthority <- MCDefaultAuthority
  OtherFields = Plain
  ForeignKeys = {KForeign}
  Profiles <- MCShortProfiles
  Policies <- MCAllPolicies
  Edits <- MCShortEdits
  MaxEdits = 1

SPECIFICATION Spec
PROPERTIES
  ImplementsVerifierOutcome
