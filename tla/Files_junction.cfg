CONSTANTS
  Dirs = {1, 2, 3, 4, 5, 6, 7, 8}
  Root = 1
  Names = {"a", "long"}
  Width <- NameWidths
  MaxDepth = 3
  MaxPath = 7
  Trees <- WalkedTrees
  Losses <- WalkLosses
  Arrivals <- WalkArrivals
  MaxFaults = 1
  MaxWalks = 1
  None = None
  DeleteAsked <- FourDirectories
  EntryAsked <- TwoPaths
  TransferAsked <- TwoReads
  Targets <- CopyTargets
  TargetWidth = 2
  CopyMaxPath = 9
  Parts = {"delete"}
SPECIFICATION SpecAny
CHECK_DEADLOCK FALSE
INVARIANT LinksNotFollowed
