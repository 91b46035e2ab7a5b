CONSTANTS
  EnvNHAT = 0
  Inputs <- BoundaryInputs
  LongBits = 8
  Int32Bits = 8
  DoMpfr = FALSE
  IdentLetters = {"a"}
  IdentDigits = {"1"}
SPECIFICATION Spec
INVARIANTS
  Log2FloorCorrect
  PathInBounds
  IsIntegerCorrect
  NumbrExact
  IntHashMatchesC
  ArgvStoreAdmits
  NumStringExact
  MpgCmpOrders
