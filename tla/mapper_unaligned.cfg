SPECIFICATION ReaderSpec
CONSTANTS
  Page = 4
  Capacity = 4
  Jobs <- UnalignedJobs
  Nothing = Nothing
  NoByte = NoByte
INVARIANTS
  UnalignedValueIntact
CHECK_DEADLOCK FALSE
