SPECIFICATION Spec
CONSTANTS
  Types <- TwoTypes
  Integer <- OnlyI32
  Addresses = {"a", "b", "c"}
  Values = {0, 1, 2}
  Zero = 0
  Idle = Idle
  Tests <- AllTests
  Accepts <- Accepted
  InitialLists <- Lists
  IOVMax = 2
  MaxChanges = 1
  MaxCommands = 2
INVARIANTS
  TypeOK
  JudgedByHeldValues
  RefreshHonest
PROPERTIES
  OnlyNarrows
CHECK_DEADLOCK FALSE
