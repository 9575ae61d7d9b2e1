CONSTANTS
  a = a
  b = b
  NoAccount = NoAccount
  Accounts <- MCAccounts
  Balances = {1, 2}
  List <- MCList
  Timeout = 3
SPECIFICATION FairSpec
INVARIANTS
  TypeOK
  SuccessIsReal
  ErrorMeansFailure
PROPERTIES
  EveryEntryReported
  KeepsContract
