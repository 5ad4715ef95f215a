\* Everything may fail, and the buckets are spread again while orders are under way.
SPECIFICATION BucketSpec
CONSTANTS
  Orders = {"o1", "o2", "o3"}
  Args <- Demand
  Hash <- Hashes
  Spreads = {"s1", "s2"}
  Widths <- NewWidths
  FirstCount = 2
  Stock = 3
  MaxElsewhere = 1
CHECK_DEADLOCK FALSE
INVARIANTS BucketInv OffersAreBacked RefusedOnlyWhenShort
