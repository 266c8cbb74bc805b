\* A caller that removes keys that are not in the set, and five keys for four slots.
SPECIFICATION Spec
CONSTANTS
  Subjects = {"set"}
  Keys = {1, 2, 3, 4, 5}
  Hash <- MCHash
  EMPTY = EMPTY
  TOMBSTONE = TOMBSTONE
  FirstCapacity = 4
  MaxCapacity = 8
  RemovesAbsent = TRUE
  Values = {"new"}
  NewValue = "new"
  NoValue = "none"
  EmptyText = 0
  Items = {1}
  NoItem = 0
  DequeFirstCapacity = 2
  DequeMaxCapacity = 2
  BucketSize = 2
  MaxElements = 1
  Elems = {1}
  DefaultElem = 0
  ArrFirstCapacity = 1
  ArrMaxCapacity = 1
  Inputs <- MCInputs
INVARIANT SetInsertFindsPlace
CHECK_DEADLOCK FALSE
