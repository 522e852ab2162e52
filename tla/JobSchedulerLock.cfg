\* One serial job, three timed threads, three minutes: one thread outlives its
\* lease, one takes the lock after it, one comes later still; a node may lose Redis
\* and find it again.
CONSTANTS
  n1 = n1
  n2 = n2
  Node <- TwoNodes
  Job <- OneJob
  Key <- OneJob
  Caller <- ThreeThreads
  MaxThreads = 3
  MaxMinutes = 3
  Ttl = 2
  Concurrent = {}
  LinkFaults = TRUE
  Restarts = FALSE
  AdminActs = FALSE
SPECIFICATION Spec
INVARIANTS TypeOK HolderOwnsLock OverlapExplained SerialSkips
SYMMETRY NodeSymmetry
