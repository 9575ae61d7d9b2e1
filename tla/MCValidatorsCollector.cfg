CONSTANTS
  Validators <- MCValidators
  ConsRank <- MCConsRank
  OperRank <- MCOperRank
  PageLimit = 1
  BlockWindow = 1
  SampleSize = 2
  MaxGap = 1
  MaxHeight = 3
  SlashWindow = 2
  Unreliable = {}
  Restless <- MCRestless
SPECIFICATION MCFairSpec
INVARIANTS
  TypeOK
  OneConnection
  AverageCertifiesCounts
  RowsTruthful
PROPERTIES
  AverageAlwaysAsked
  ImplementsCalls
  KeepsContract
