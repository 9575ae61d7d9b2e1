CONSTANTS
  Timeout = 5
  MinPing = 2
  MaxHeight = 3
SPECIFICATION FairSpec
INVARIANTS
  TypeOK
  SamplesTruthful
PROPERTIES
  OneSampleEach
  KeepsContract
