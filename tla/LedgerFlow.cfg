\* Any failure anywhere: what is repaired, and what the rest costs at most.
SPECIFICATION FairSpec
CONSTANTS
  Calls = {"c1", "c2", "c3"}
  Requests = {"r1", "r2"}
  Workers = {"w1", "w2"}
  RequestOf <- RetriedRequest
  Qty <- TwoQty
  Ledgered = {"c1", "c2"}
  InitialStock = 3
  MaxMishaps = 1
CHECK_DEADLOCK FALSE
INVARIANTS Inv OffersOnlyUnpromised QuietIdentity
PROPERTY LeaksAreReclaimed
