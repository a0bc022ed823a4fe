SPECIFICATION ReaderFairSpec
CONSTANTS
  Page = 4
  Capacity = 8
  Jobs <- AllJobs
  Nothing = Nothing
  NoByte = NoByte
INVARIANTS
  AccessesInCache
  LoopMeetsEnd
  OwnBytes
  AddressNearValue
PROPERTIES
  LinearScanSpec
  ScanEnds
CHECK_DEADLOCK FALSE
