CONSTANTS
  main = main
  e1 = e1
  e2 = e2
  f = f
  null = null
  x = x
  Ctx <- MCCtx
  Main = main
  Lines <- MCLines
  Srcs <- MCSrcs
  SymNames <- None
  NoCtx = null
  InstallFns = {FALSE}
  MaxAlloc = 1
  Chunk = 2
  MaxBlocks = 1

SYMMETRY Perms

SPECIFICATION Spec

INVARIANT
  NoSrcfileLeak
