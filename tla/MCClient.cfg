SPECIFICATION Spec
CONSTANTS
  mainnet = mainnet
  anvil = anvil
  Supported = {mainnet}
  Local = {anvil}
  MaxBlocks = 7
  MaxHeld = 1
  None = None
  Older = Older
  Torn = Torn
  Invocations <- MCInvocations
INVARIANTS
  AnswersFromOneBlock
  ErrorsTellTheCause
  ClientsAgree
  FixtureServes
CONSTRAINT OneNetwork
