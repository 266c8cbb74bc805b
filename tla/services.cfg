\* Three addresses, blocks of six words, of two elements and of two and more, a buffer of
\* two bytes before files of up to five, bytes of two values and bytes of three bits: each
\* block and buffer is filled, left and started again.  Three threads.  A pool or a file
\* may be full, and a process ends.
SPECIFICATION Spec
CONSTANTS
  Subjects = {"heap", "bump", "growing", "freelist", "dense", "file", "path", "serial", "bits", "panic"}
  Addresses = {1, 2, 3}
  BumpTotal = 7
  GrowBlock = 6
  GrowMaxObjects = 3
  FreeBlock = 2
  FreeMaxBlocks = 2
  DenseFirst = 2
  DenseMaxBlocks = 3
  BufferSize = 2
  FileSizes = {1, 2, 4}
  FileMax = 5
  AnyRead = FALSE
  Names = {"a", "b"}
  PathMax = 5
  Base = 2
  ZerosAtOnce = 2
  SerialSize = 12
  SerialItems = 2
  ByteBits = 3
  BitLengths = {3, 5, 7}
  BitMax = 5
  Main = m
  Started = {t, u}
  MaxPrints = 2
INVARIANTS ServicesTypeOK CounterExact PoolsDisjoint PoolsDestruct ThreadsSound FileAgrees PathsNormal RoundTrip BitsAgree
PROPERTY PanicReported
CHECK_DEADLOCK FALSE
