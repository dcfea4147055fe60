CONSTANTS
  Pub1 = Pub1
  Pub2 = Pub2
  Publishers = {Pub1, Pub2}
  Pinned = Pub1
  NoValue = NoValue
  PublicKeys <- MCPublicKeys
  KeyIds <- MCKeyIds
  DateForms <- MCDateForms
  MaxTime = 2
  MaxProofs = 2
  MaxPublished = 2
  MaxChanges = 1

SPECIFICATION Spec
INVARIANTS
  VerifiesAsPublished
  ResolvedKeyWasInForce
  ProofFindsItsKey
