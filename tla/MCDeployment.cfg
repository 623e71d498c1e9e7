SPECIFICATION RepeatedSpec
CONSTANTS
  mainnet = mainnet
  anvil = anvil
  Supported = {mainnet}
  Local = {anvil}
  MaxBlocks = 7
  MaxHeld = 1
INVARIANT NoneNamedInVain
PROPERTY EventuallyWhole
