\* Three threads, one acquisition at a time.  The mutex lies either where the
\* low half of its address is the id of t2, so that a thread that waits while t2
\* holds the mutex parks (for ever), or where no id is, and no wait parks.
SPECIFICATION FairSpec
CONSTANTS
  t1 = t1
  t2 = t2
  t3 = t3
  Threads <- MCThreads3
  ThreadId <- MCThreadId3
  PointerLows = {2, 64}
  MaxSpin = 1
  MaxYield = 1
  MaxDepth = 1
INVARIANTS TypeOK MutualExclusion ReleaseFindsOwnId
PROPERTIES ImplementsLock NoLostWait
