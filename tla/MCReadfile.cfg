CONSTANTS
  IntBits = 4
  SizeBits = 6
  Lens <- MCLens
  MaxGen = 1
  MaxOpens = 2
  MaxRecords = 2
SPECIFICATION FairSpec
INVARIANTS
  RecordIsPrefix
  OneRecordPerOpen
PROPERTIES
  ReachesEOF
