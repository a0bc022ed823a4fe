SPECIFICATION Spec
CONSTANTS
  Types <- TwoTypes
  Integer <- OnlyI32
  Addresses = {"a", "b", "c"}
  Values = {0, 1, 2}
  Zero = 0
  Idle = Idle
  Tests <- OnlyGreater
  Accepts <- AcceptedGreater
  InitialLists <- TwoMatches
  IOVMax = 2
  MaxChanges = 0
  MaxCommands = 1
INVARIANTS
  IncreasedKept
CHECK_DEADLOCK FALSE
