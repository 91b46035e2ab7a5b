CONSTANTS
  EnvNHAT = 2
  str = str
  UintKeys <- MCUintKeys
  OtherKeys <- MCOtherKeys
SPECIFICATION Spec
INVARIANT TypeOK
INVARIANT CintNeverEmpty
INVARIANT HatAccounting
INVARIANT SlotsInBounds
PROPERTY Refinement
INVARIANT ListExact
