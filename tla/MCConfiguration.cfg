CONSTANTS
  timeout = timeout
  addr = addr
  v1 = v1
  v2 = v2
  word = word
  Unset = Unset
  Keys <- MCKeys
  Values <- MCValues
  WellFormed <- MCWellFormed
  Default <- MCDefault
SPECIFICATION LoadSpec
INVARIANT Precedence
