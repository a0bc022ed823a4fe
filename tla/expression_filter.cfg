SPECIFICATION Spec
CONSTANTS
  WordBits = 3
  Undef = Undef
  Junk = Junk
  Sources <- ComplexFilters
  Callers <- AllCallers
  Inputs <- SomeInputs
  NumberTypes <- AllTypes
INVARIANTS
  ComplexFilterCompiles
CHECK_DEADLOCK FALSE
