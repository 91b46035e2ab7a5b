CONSTANTS
  s1 = s1
  IntKeys <- MCIntKeys
  OtherKeys <- MCOtherKeys
  Sizes <- MCSizes
  ChainMax <- MCChainMax

SPECIFICATION Spec

INVARIANTS
  TypeOK
  BucketShape
  KeysHashed
  IntNeverEmpty
  LoadBound
  IntListExact

PROPERTIES
  Refinement
