\* A server that refuses nothing: every failed replay is an outage.
CONSTANTS
  MaxWrites = 1
  MAX_PENDING = 2
  MAX_REPLAY_RETRIES = 3
  PoolLoads = {FALSE}
  SqlErrors = FALSE
  LiteErrors = FALSE
SPECIFICATION Spec
INVARIANT DeadLettersKept
