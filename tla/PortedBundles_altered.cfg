CONSTANTS
  C1 = C1
  C2 = C2
  T1 = T1
  I1 = I1
  I2 = I2
  I3 = I3
  I4 = I4
  In = In
  Out = Out
  Tag = Tag
  KNow = KNow
  KOld = KOld
  KForeign = KForeign
  Plain = Plain
  NoText = NoText
  BadRoot = BadRoot
  NoValue = NoValue
  IndexModulus = 4
  ParseI64 <- MCParseI64
  OtherFields = Plain
  Profiles <- MCProfiles
  Records <- MCRecords
  ForeignKeys = {KForeign}
  OtherBodies <- MCOtherBodies
  MaxChanges = 2

SPECIFICATION Spec
INVARIANTS
  ReceiptIsOfItsProof
  AcceptedAnchorIsIssued
  LanguagesAgree
  GenuineBundleVerifies
