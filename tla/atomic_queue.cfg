\* Three threads that push and pop; two slots at first, up to five elements: the
\* buffer wraps around and grows twice, from every rotation.
SPECIFICATION Spec
CONSTANTS
  t1 = t1
  t2 = t2
  t3 = t3
  NoThread = NoThread
  NoValue = NoValue
  Threads <- MCThreads
  Values = {a, b}
  InitialCapacity = 2
  MaxSize = 5
SYMMETRY Symmetry
INVARIANTS TypeOK LiveSlots
PROPERTIES ImplementsFifo
