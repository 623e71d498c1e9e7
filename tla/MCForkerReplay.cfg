SPECIFICATION Spec
CONSTANTS
  urlA = urlA
  urlB = urlB
  token = token
  Url = {urlA, urlB}
  Account = {token}
  ZeroAddress = ZeroAddress
  None = None
  Chain <- MCChain
  Requested <- MCRequested
  RollTargets <- MCRollTargets
  MaxForks = 2
  MaxApplied = 2
  CreationMayFail = FALSE
INVARIANT ReplaysOnItsState
