\* Tables of 4 to 8 slots (8 and up in the code) and up to five keys, a ring of 2 to 4
\* slots, blocks of two elements, arrays of up to four: each is filled, wrapped and
\* extended.  A sort ends, and a full list of blocks takes no more.
SPECIFICATION Spec
CONSTANTS
  Subjects = {"set", "table", "interner", "queue", "buckets", "array", "sort"}
  Keys = {1, 2, 3, 4}
  Hash <- MCHash
  EMPTY = EMPTY
  TOMBSTONE = TOMBSTONE
  FirstCapacity = 4
  MaxCapacity = 8
  RemovesAbsent = FALSE
  Values = {"new", "other"}
  NewValue = "new"
  NoValue = "none"
  EmptyText = 0
  Items = {1, 2}
  NoItem = 0
  DequeFirstCapacity = 2
  DequeMaxCapacity = 4
  BucketSize = 2
  MaxElements = 5
  Elems = {1, 2}
  DefaultElem = 0
  ArrFirstCapacity = 2
  ArrMaxCapacity = 4
  Inputs <- MCInputs
INVARIANTS ContainersTypeOK SetAgrees TabAgrees TabItrComplete InternedOnce DequeAgrees ArrayAgrees Sorted
PROPERTY BucketsAllSeen
CHECK_DEADLOCK FALSE
