\* Two readers of one process, a warming, updates, and orders behind their back.
SPECIFICATION CacheFairSpec
CONSTANTS
  Readers = {"r1", "r2"}
  Warmers = {"w1"}
  Writers = {"u1"}
  Instance <- Pair
  MaxVersion = 3
INVARIANTS CacheInv StaleIsAccountedFor
PROPERTY EventuallyFresh
