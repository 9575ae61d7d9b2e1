CONSTANTS
  Validators <- MCValidators
  BlockWindow = 2
  SampleSize = 2
  MaxGap = 2
  MaxHeight = 4
SPECIFICATION Spec
INVARIANTS
  WithinWindow
