SPECIFICATION Spec
CONSTANTS
  WordBits = 3
  Undef = Undef
  Junk = Junk
  Sources <- AllSources
  Callers <- AllCallers
  Inputs <- SomeInputs
  NumberTypes <- AllTypes
INVARIANTS
  ResultIsMeaning
  FoldingKeepsValue
  OperandsReady
  TrapsOnlyOnUndefined
  FastAgrees
CHECK_DEADLOCK FALSE
