\* Scans that overlap and that end anywhere.
SPECIFICATION ExpiryFairSpec
CONSTANTS
  Orders = {"o1", "o2"}
  Workers = {"w1", "w2"}
  Qty <- SomeQty
  Stocks = {2, 3}
  BatchSize = 2
CHECK_DEADLOCK FALSE
INVARIANTS ExpiryInv RemovedOnlyWhenSettled
PROPERTY EveryDueSettled
