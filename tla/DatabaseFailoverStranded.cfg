\* A server that refuses nothing: only outages keep writes in the queue.
CONSTANTS
  MaxWrites = 1
  MAX_PENDING = 2
  MAX_REPLAY_RETRIES = 3
  PoolLoads = {FALSE}
  SqlErrors = FALSE
  LiteErrors = FALSE
SPECIFICATION FairSpec
PROPERTY SyncsAfterRecovery
