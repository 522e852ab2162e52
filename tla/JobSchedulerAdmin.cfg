\* Requests of the administrator and manual runs between the steps of the
\* threads; Redis is always reachable.
CONSTANTS
  n1 = n1
  n2 = n2
  Node <- OneNode
  Job <- OneJob
  Key <- OneJob
  Caller <- TwoThreads
  MaxThreads = 2
  MaxMinutes = 3
  Ttl = 2
  Concurrent <- OneJob
  LinkFaults = FALSE
  Restarts = TRUE
  AdminActs = TRUE
SPECIFICATION FairSpec
INVARIANT FlagOwned
PROPERTY FlagCleared
