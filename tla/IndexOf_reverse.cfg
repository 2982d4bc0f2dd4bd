CONSTANTS
  c1 = c1
  c2 = c2
  c3 = c3
  c4 = c4
  other = other
  n1 = n1
  n2 = n2
  n3 = n3
  Chunks <- FourChunks
  InMemory <- FourChunks
  Strangers <- OneStranger
  Null = Null
  CheckedOut = CheckedOut
  Root = Root
  NoPoint = NoPoint
  NoValue = NoValue
  LayoutAsked <- Layouts
  ArenaAsked <- TwoBlocks
  GrowingAsked <- TwoGranules
  LibcNodes <- ThreeNodes
  SearchAsked <- ShortWords
  SetAsked <- TwoTables
  SetsAsked <- ThreeSets
  FixedAsked <- FourSlots
  ArrayAsked <- FourCells
  BuilderAsked <- FourBytes
SPECIFICATION SpecSearch
CHECK_DEADLOCK FALSE
INVARIANT LastFound
