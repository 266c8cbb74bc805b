\* Two blocks of eight words: does the list end after the second one came to be?
\* A caller that has used up both may have nothing left to do.
SPECIFICATION Spec
CONSTANTS
  BlockSize = 8
  MaxBlocks = 2
  Requests = {3, 7}
  Careful = FALSE
  Null = Null
PROPERTIES AllocKeepsListFinite
CHECK_DEADLOCK FALSE
