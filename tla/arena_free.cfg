\* One block of eight words, cut into allocations that are freed in any order.
\* A caller that has used it up may have nothing left to do.
SPECIFICATION Spec
CONSTANTS
  BlockSize = 8
  MaxBlocks = 1
  Requests = {1}
  Careful = FALSE
  Null = Null
PROPERTIES FreeLinksNodeOnce
CHECK_DEADLOCK FALSE
