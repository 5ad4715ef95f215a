\* Crashes, rebalances, lost commits, failing dead letters and broken fetches.
SPECIFICATION FairSpec
CONSTANTS
  Members = {m1, m2}
  MaxRecords = 2
  MaxAttempts = 2
  MaxMoves = 2
  Poison = {0}
  NoMember = NoMember
CHECK_DEADLOCK FALSE
INVARIANTS NoSilentLoss LagCoversBacklog IndInv
PROPERTY EveryRecordHandled
