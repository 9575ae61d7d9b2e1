CONSTANTS
  Validators <- MCValidators
  ConsRank <- MCConsRank
  OperRank <- MCOperRank
  PageLimit = 2
SPECIFICATION FairSpec
INVARIANTS
  TypeOK
  UniqueSeries
  TombstonedAreJailed
  SteadyCovered
  ConnectionBalance
PROPERTIES
  Termination
