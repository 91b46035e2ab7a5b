CONSTANTS
  EnvNHAT = 2
  str = str
  UintKeys <- MCUintKeys
  OtherKeys <- MCOtherKeys

SPECIFICATION Spec

INVARIANT WasteBound
