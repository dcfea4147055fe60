CONSTANTS
  C1 = C1
  C2 = C2
  Capsules = {C1, C2}
  DefaultAuthority = DefaultAuthority
  OtherAuthority = OtherAuthority
  Unparseable = Unparseable
  ForeignKey = ForeignKey
  NoValue = NoValue
  E1 = E1
  E2 = E2
  Events = {E1, E2}
  AuthorityWritten <- MCAuthorityWritten
  Activity <- MCActivity
  IndexModulus = 4
  Versions <- MCVersions
  Lapses = {1}
  Edits <- MCEdits
  Seals = {"untouched", "rehashed", "unsigned", "foreign"}
  Disclosures <- MCTrails
  MaxIssued <- MCIssued
  MaxSupplied = 2
  MaxChanges = 1

SPECIFICATION Spec
INVARIANTS
  ExitZeroIsEarned
  LinkPinsThePast
  GenuineChainAccepted
  DisclosedTrailIsIssued
