SPECIFICATION Spec
CONSTANTS
  urlA = urlA
  urlB = urlB
  token = token
  Url = {urlA, urlB}
  Account = {token}
  ZeroAddress = ZeroAddress
  None = None
  Chain <- MCChain
  Requested <- MCRequested
  RollTargets <- MCRollTargets
  MaxForks = 3
  MaxApplied = 1
  CreationMayFail = TRUE
INVARIANTS
  TypeOK
  RecordsNameForks
  RollsToOriginal
  FirstReplayOnItsState
PROPERTIES
  ForksAreIsolated
  CommitsAsAnswered
  ImplementsForkViews
