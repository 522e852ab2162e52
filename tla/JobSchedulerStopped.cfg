\* One node, one job, the administrator.
CONSTANTS
  n1 = n1
  n2 = n2
  Node <- OneNode
  Job <- OneJob
  Key <- OneJob
  Caller <- TwoThreads
  MaxThreads = 2
  MaxMinutes = 2
  Ttl = 2
  Concurrent = {}
  LinkFaults = FALSE
  Restarts = FALSE
  AdminActs = TRUE
SPECIFICATION Spec
INVARIANT StoppedNotScheduled
