\* Files of more than one buffer that are not whole buffers, read from the start.
SPECIFICATION Spec
CONSTANTS
  Subjects = {"file"}
  Addresses = {1, 2, 3}
  BumpTotal = 7
  GrowBlock = 6
  GrowMaxObjects = 3
  FreeBlock = 2
  FreeMaxBlocks = 2
  DenseFirst = 2
  DenseMaxBlocks = 3
  BufferSize = 2
  FileSizes = {3, 5}
  FileMax = 5
  AnyRead = TRUE
  Names = {"a", "b"}
  PathMax = 5
  Base = 2
  ZerosAtOnce = 2
  SerialSize = 12
  SerialItems = 2
  ByteBits = 3
  BitLengths = {3, 5, 7}
  BitMax = 5
  Main = m
  Started = {t, u}
  MaxPrints = 2
INVARIANT ReadsInFull
CHECK_DEADLOCK FALSE
