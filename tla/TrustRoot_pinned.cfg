CONSTANTS
  NoValue = NoValue
  Id1 = Id1
  Id2 = Id2
  Identities = {Id1, Id2}
  Publisher = Id1
  Authority = Authority
  Versions <- MCVersions
  Future <- MCSchemas
  Pins <- MCPins
  MaxTime = 2
  MaxChanges = 2

SPECIFICATION Spec
INVARIANTS
  TrustedManifestIsSigned
  StaleManifestBearsItsDate
  NeverDowngraded
  SignedManifestTrusted
