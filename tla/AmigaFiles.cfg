CONSTANTS
  Names = {0, 1, 2}
  Buckets = 2
  Blocks = {b1, b2, b3}
  NoBlock = NoBlock
  Objects = {o1, o2}
  InitProt = {{}}
  DeleteOpen = FALSE
  Quiet = TRUE
SPECIFICATION Spec
INVARIANTS TypeOK WritersExclusive OpenFilesKept EntriesReachable
PROPERTY ImplementsDirectory
CHECK_DEADLOCK FALSE
SYMMETRY Symmetry
