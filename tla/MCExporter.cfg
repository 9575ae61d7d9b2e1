CONSTANTS
  validators = validators
  base = base
  bnb = bnb
  r1 = r1
  r2 = r2
  r3 = r3
  Collectors <- MCCollectors
  Enabled <- MCEnabled
  Ambiguous <- MCAmbiguous
  Requests <- MCRequests
  Timeout = 3
  TTL = 4
  Interval = 2
SPECIFICATION FairSpec
INVARIANTS
  TypeOK
  AnsweredInTime
  InFlightBounded
  WholeAnswers
PROPERTIES
  EventuallyComplete
  RequestAnswered
\* ListenAndServe may fail, and the process exits
CHECK_DEADLOCK FALSE
