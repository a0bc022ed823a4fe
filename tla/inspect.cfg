SPECIFICATION FairInspection
CONSTANTS
  p1 = p1
  p2 = p2
  Pids = {p1, p2}
  Names = {"s"}
  NumberOf <- NoNumbers
  MaxMatches = 1
  MaxScans = 1
  Nothing = Nothing
  Message = Message
  OtherViews = {Data, RegionList}
  Data = Data
  RegionList = RegionList
  Addresses = {0, 1, 2, 3, 4, 5, 6}
  Values = {2, 3, 6, 7}
  Lines <- AllLines
  Holes = {5}
  InitialMaps <- SomeMaps
  InitialMemories <- SomeMemories
  MaxChanges = 1
  Watchers = {"search", "view", "refresh"}
  Word = 8
  Masked <- Masks
  Configs <- SomeConfigs
  AddressMod = 16
  Size <- Sizes
  Requests <- SomeRequests
  Zero = 0
  Missing = Missing
  Unparsable = Unparsable
  Computed = Computed
  Rooted = {"/bin/a", "/lib/b"}
  Selections <- SomeSelections
  MaxSearches = 1
INVARIANTS
  LinksHeld
  FrozenSearchExact
  CellsHonest
  BssFollowsFile
PROPERTIES
  SearchEnds
CHECK_DEADLOCK FALSE
