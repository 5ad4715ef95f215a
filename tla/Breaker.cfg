\* Late results of every kind, two probes.
SPECIFICATION BreakerFairSpec
CONSTANTS
  Calls = {c1, c2, c3, c4}
  FailureThreshold = 2
  HalfOpenProbes = 2
  MaxPanics = 2
INVARIANT BreakerInv
PROPERTY Recovers
