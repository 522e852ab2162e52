\* Three writes against a queue of two, so that it overflows and that a replay
\* has several writes to keep in order; the second failed replay dead-letters.
CONSTANTS
  MaxWrites = 3
  MAX_PENDING = 2
  MAX_REPLAY_RETRIES = 2
  PoolLoads = {TRUE, FALSE}
  SqlErrors = TRUE
  LiteErrors = FALSE
SPECIFICATION Spec
INVARIANTS TypeOK NoSilentLoss NoDoubleReplay ReplayInOrder QueueWithinLimit
PROPERTY LedgerSpec
