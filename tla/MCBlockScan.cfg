CONSTANTS
  Validators <- MCValidators
  BlockWindow = 2
  SampleSize = 3
  MaxGap = 2
  MaxHeight = 5
SPECIFICATION Spec
INVARIANTS
  TypeOK
  CountsExact
  AverageInRange
