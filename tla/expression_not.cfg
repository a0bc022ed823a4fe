SPECIFICATION Spec
CONSTANTS
  WordBits = 3
  Undef = Undef
  Junk = Junk
  Sources <- Negations
  Callers <- AllCallers
  Inputs <- SomeInputs
  NumberTypes <- AllTypes
INVARIANTS
  ResultIsMeaning
CHECK_DEADLOCK FALSE
