\* The transaction implements the atomic store, knows its replays, and every call returns.
SPECIFICATION FairSpec
CONSTANTS
  Calls = {c1, c2, c3}
  Requests = {"r1", "r2", "r3"}
  Products = {"shoe", "shirt", "hat"}
  OrderIDs = {1, 2}
  MaxQty = 2
  InitialStock <- MCInitialStock
  Workload <- MCWorkload
  NoOrder = NoOrder
INVARIANTS StockMatchesOrders IndInv
PROPERTIES StoreSpec ReplayNeverRefused EveryCallReturns
