\* Two processes, a clock that steps back, restarts.  A process that was asked
\* for its last id is idle and its clock is at the bound: that is a stop.
SPECIFICATION IdFairSpec
CONSTANTS
  MaxNodeID = 1
  MaxSeq = 1
  Epoch = 0
  Processes = {p1, p2}
  MaxClock = 2
  MaxBack = 1
  MaxRestarts = 1
  MaxIds = 4
CHECK_DEADLOCK FALSE
INVARIANTS UniqueIds IdInv
PROPERTY EveryWaitEnds
