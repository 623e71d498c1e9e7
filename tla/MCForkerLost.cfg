SPECIFICATION Spec
CONSTANTS
  urlA = urlA
  urlB = urlB
  token = token
  Url = {urlA, urlB}
  Account = {token}
  ZeroAddress = ZeroAddress
  None = None
  Chain <- MCChain
  Requested <- MCPinned
  RollTargets <- MCRollTargets
  MaxForks = 3
  MaxApplied = 2
  CreationMayFail = TRUE
INVARIANT SelectsAsked
