CONSTANTS
  Names <- MCNames
  ParamsOf <- MCParamsOf
  MaxVars = 3
SPECIFICATION Spec
CHECK_DEADLOCK FALSE
INVARIANTS
  TypeOK
  ListsFit
  ParamChainsExact
  IdentifiersExact
