SPECIFICATION Spec
CONSTANTS
  Value <- MCValue
  ZeroWords <- MCZeroWords
  NibbleMax = 3
  Apply <- MCApply
  Expressions <- MCExpressions
  Requests <- MCRequests
  ExternAnswers <- MCExternAnswers
  MaxOutputs = 2
  MaxDepth = 4
INVARIANTS
  CheckedBehindCursor
  EvalTypeOK
  HeightAsChecked
  StackInBounds
  OnlyComputedWords
  LengthWordsIntact
  SourceIndexIsRunning
  TracesAreFaithful
PROPERTIES
  ImplementsValidation
  ImmutableBelowHighwater
  CallersUntouched
  ImplementsStackMachine
