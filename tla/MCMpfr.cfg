CONSTANTS
  nr = nr
  fnr = fnr
  Counters <- MCCounters
  LongBits = 3
  Assigned <- MCAssigned
  MaxCount = 7
  PRECISION_MIN = 3
  MPFR_PREC_MAX = 2147483647
  Ints <- MCInts
  Exponents <- MCExponents
  MPFR_PREC_MIN = 2
  EMIN_DEFAULT <- MCEminDefault
  EMAX_DEFAULT = 1073741823
  DEFAULT_PREC = 53
  DEFAULT_RMODE = "N"
  NumericStrs <- MCNumericStrs
  PrecInputs <- MCPrecInputs
  RoundInputs <- MCRoundInputs
SYMMETRY Perms
SPECIFICATION MCSpec
INVARIANTS
  ReadIsCount
  ArithExact
  IeeeConsistent
