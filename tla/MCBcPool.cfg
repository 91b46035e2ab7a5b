CONSTANTS
  MaxAlloc = 2
  Chunk = 3
  MaxBlocks = 2

SPECIFICATION Spec

INVARIANTS
  NoOverlap
  FreeListExact
  WalkExact
