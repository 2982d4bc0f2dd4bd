CONSTANTS
  c1 = c1
  c2 = c2
  c3 = c3
  c4 = c4
  other = other
  n1 = n1
  n2 = n2
  n3 = n3
  Chunks <- FourChunks
  InMemory <- FourChunks
  Strangers <- OneStranger
  Null = Null
  CheckedOut = CheckedOut
  Root = Root
  NoPoint = NoPoint
  NoValue = NoValue
  LayoutAsked <- Layouts
  ArenaAsked <- TwoBlocks
  GrowingAsked <- TwoGranules
  LibcNodes <- ThreeNodes
  SearchAsked <- ShortWords
  SetAsked <- TwoTables
  SetsAsked <- ThreeSets
  FixedAsked <- FourSlots
  ArrayAsked <- FourCells
  BuilderAsked <- FourBytes
SPECIFICATION SpecAny
CHECK_DEADLOCK FALSE
INVARIANTS
  TypesOK
  ListsSound
  BlocksSound
  ContainersSound
  ParserSound
  FirstFound
  ConversionsExact
PROPERTIES
  KeepsPromise
  ContainersKeepPromise
  CallsEnd
