\* Each approach alone, and the two that share the row lock; every mishap.
SPECIFICATION Spec
CONSTANTS
  Calls = {"c1", "c2", "c3", "c4"}
  Requests = {"r1", "r2", "r3"}
  RequestOf <- OneDuplicate
  Qty <- SomeQty
  Workload <- Alone
  InitialStock = 3
  MaxCASRetries = 2
  NoCall = NoCall
INVARIANTS Inv GateCoversStock GateGivesBack
PROPERTY ImplementsStore
