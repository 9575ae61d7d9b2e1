CONSTANTS
  Validators <- MCOne
  ConsRank <- MCOneRank
  OperRank <- MCOneRank
  PageLimit = 1
  BlockWindow = 1
  SampleSize = 2
  MaxGap = 1
  MaxHeight = 3
  SlashWindow = 2
  Unreliable <- MCOne
  Restless <- MCOne
SPECIFICATION Spec
INVARIANTS
  MissedWithinWindow
