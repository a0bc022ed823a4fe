SPECIFICATION FairSpec
CONSTANTS
  Threads = {t1, t2}
  Regions <- SomeRegions
  Types <- TwoTypes
  Values = {0, 1}
  Wanted <- Wants
  Prot <- Writable
  ExcludeFile = TRUE
  Android = TRUE
  Chunk = 1
  MaxChanges = 1
  Nobody = Nobody
INVARIANTS
  FrozenScanExact
  NoDuplicates
  MatchesWanted
PROPERTIES
  OnlyAppends
  ScanTerminates
CHECK_DEADLOCK FALSE
