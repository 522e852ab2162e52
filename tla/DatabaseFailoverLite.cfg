\* SQLite may fail too; fewer writes, for the liveness check.
CONSTANTS
  MaxWrites = 2
  MAX_PENDING = 1
  MAX_REPLAY_RETRIES = 2
  PoolLoads = {TRUE, FALSE}
  SqlErrors = TRUE
  LiteErrors = TRUE
SPECIFICATION FairSpec
INVARIANT FallbackReadsAcked
PROPERTY PgServesAgain
