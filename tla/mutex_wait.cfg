\* Two threads: does the third way to wait, wait?
SPECIFICATION Spec
CONSTANTS
  t1 = t1
  t2 = t2
  t3 = t3
  Threads <- MCThreads2
  ThreadId <- MCThreadId2
  PointerLows = {64}
  MaxSpin = 1
  MaxYield = 1
  MaxDepth = 1
PROPERTIES WaitsForChange
