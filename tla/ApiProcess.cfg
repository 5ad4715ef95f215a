\* Three requests, one slot, a bucket of two.
SPECIFICATION FairSpec
CONSTANTS
  Requests = {r1, r2, r3}
  Capacity = 1
  BucketCapacity = 2
  Rate = 1
  MaxTime = 3
  Backlog = 2
CHECK_DEADLOCK FALSE
INVARIANTS Inv StopsInOrder
PROPERTY EveryStopEnds
