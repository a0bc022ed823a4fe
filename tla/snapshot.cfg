SPECIFICATION FairSpec
CONSTANTS
  Regions <- SomeRegions
  Unreadable = {3}
  Buffer = 2
  FileBuffer = 1
  Names = {0, 1}
  Requests <- SomeRequests
  Shapes <- SomeShapes
  MaxStores = 1
  MaxLoads = 2
  NoFile = NoFile
  Truncated = Truncated
  Zero = Zero
  Live = Live
  NoByte = NoByte
INVARIANTS
  ReadDelivers
  SnapshotFaithful
PROPERTIES
  FinishedKept
  CommandsEnd
CHECK_DEADLOCK FALSE
