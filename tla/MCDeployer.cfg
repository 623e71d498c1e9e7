SPECIFICATION DeployerSpec
CONSTANTS
  Value <- MCParserValue
  ZeroWords <- MCZeroWords
  NibbleMax = 3
  Apply <- MCApply
  SlotOps = 2
  ByteMax = 7
  TopLevelMax = 5
  LineItemsMax = 2
  ParensMax = 2
  SourcesMax = 2
  NameBloom <- MCNameBloom
  ValueBloom <- MCValueBloom
  Words <- MCWordTable
  Address <- MCAddress
  SubWords <- MCSubWords
  SubLiterals <- MCSubLiterals
  Texts <- MCTexts
INVARIANTS
  ParserTypeOK
  EmitsMeaning
  NamesAreHeights
  CountsAgree
  LHSIsTheStack
  TakesTheWellFormed
PROPERTIES
  BuiltStays
