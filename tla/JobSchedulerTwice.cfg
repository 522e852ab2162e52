\* Two nodes in good health: Redis always reachable, no restarts.
CONSTANTS
  n1 = n1
  n2 = n2
  Node <- TwoNodes
  Job <- OneJob
  Key <- OneJob
  Caller <- TwoThreads
  MaxThreads = 2
  MaxMinutes = 2
  Ttl = 2
  Concurrent = {}
  LinkFaults = FALSE
  Restarts = FALSE
  AdminActs = TRUE
SPECIFICATION Spec
INVARIANT OneNodePerFiring
