CONSTANTS
  k1 = k1
  k2 = k2
  none = none
  Keys <- MCKeys
  NoKey = none
  List <- MCList
  Sole = k1
  Labels <- MCLabels
  NoLabel = ""
  Redact <- MCRedact
  Named <- MCNamed
  VeniceUsageMetrics = TRUE
  HTTPTimeout = 2
  Timeout = 5
SPECIFICATION FairSpec
INVARIANTS
  TypeOK
  StatusTruthful
  UniqueSeries
  FullTimeout
PROPERTIES
  EveryRequestReported
  KeepsContract
