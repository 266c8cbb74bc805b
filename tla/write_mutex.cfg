\* Two threads that read, one that writes and one that does both, each of them one
\* section at a time.
SPECIFICATION FairSpec
CONSTANTS
  t1 = t1
  t2 = t2
  t3 = t3
  t4 = t4
  r1 = r1
  r2 = r2
  r3 = r3
  w1 = w1
  w2 = w2
  NoThread = NoThread
  Threads <- MCThreads
  Reads <- MCReads
  Writes <- MCWrites
  ThreadOf <- MCThreadOf
  NestedReads = FALSE
INVARIANTS TypeOK ReadersCounted
PROPERTIES ImplementsRWLock WriterGetsIn SomebodyGetsIn
