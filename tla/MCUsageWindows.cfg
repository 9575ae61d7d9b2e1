CONSTANTS
  search = search
  mail = mail
  None = None
  Tools <- MCTools
  Day = 2
  Month = 2
  BreakdownLimit = 1
  MaxTime = 6
SPECIFICATION Spec
INVARIANTS
  PeriodCovered
  RowsAddUp
