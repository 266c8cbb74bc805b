\* Two blocks of eight words, allocations of two words and of what amounts to a
\* whole block, freed in any order a careful caller may.  With both blocks in use
\* the caller may have nothing left that it may do.
SPECIFICATION Spec
CONSTANTS
  BlockSize = 8
  MaxBlocks = 2
  Requests = {2, 6}
  Careful = TRUE
  Null = Null
INVARIANTS TypeOK Tiled
CHECK_DEADLOCK FALSE
