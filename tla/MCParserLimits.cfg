SPECIFICATION DeployerSpec
CONSTANTS
  Value <- MCParserValue
  ZeroWords <- MCZeroWords
  NibbleMax = 3
  Apply <- MCApply
  SlotOps = 7
  ByteMax = 255
  TopLevelMax = 62
  LineItemsMax = 14
  ParensMax = 19
  SourcesMax = 15
  NameBloom <- MCNameBloom
  ValueBloom <- MCValueBloom
  Words <- MCWordTable
  Address <- MCAddress
  SubWords <- MCSubWords
  SubLiterals <- MCSubLiterals
  Texts <- LongTexts
INVARIANTS
  CountersSuffice
