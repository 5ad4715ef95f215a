\* The write routes over one stock: what clients are told, and what becomes of it.
SPECIFICATION FairSpec
CONSTANTS
  Calls = {"c1", "c2", "c3"}
  Requests = {"r1", "r2", "r3"}
  Products = {"shoe", "hat"}
  OrderIDs = {1, 2}
  MaxQty = 2
  InitialStock <- MCInitialStock
  Workload <- MCWorkload
  NoOrder = NoOrder
  Posts <- MCPosts
  Polled = {"r1"}
  Capacity = 2
INVARIANTS Inv AcceptedIsBacked
PROPERTY PollingSettles
CHECK_DEADLOCK FALSE
