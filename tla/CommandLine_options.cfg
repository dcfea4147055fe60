CONSTANTS
  NoValue = NoValue
  Parent <- MCTwoDirectories
  Commands = {"verify", "batch", "none"}
  Targets = {0, 1}
  Manifests = {"none", "unusable", "unverified", "verified"}
  Records = {"none", "unreadable", "readable"}
  MaxChanges = 1

SPECIFICATION ProgramSpec
INVARIANTS
  NothingSteadyIsMissed
  ZeroIsEarned
PROPERTIES
  RunEnds
