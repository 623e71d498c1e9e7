SPECIFICATION TracedSpec
CONSTANTS
  Value <- MCValue
  ZeroWords <- MCZeroWords
  NibbleMax = 3
  Apply <- MCApply
  Expressions <- MCExpressions
  Requests <- MCRequests
  ExternAnswers <- MCExternAnswers
  MaxOutputs = 9
  MaxDepth = 6
  TracerAddress = TracerAddress
  WordBytes = 2
  UsizeMod = 8
  Interpreter = Interpreter
  StoreContract = StoreContract
  ExternContract = ExternContract
  Encoded <- MCEncoded
INVARIANT SearchFindsThePath
