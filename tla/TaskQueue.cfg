\* Two processes, one task of at most two attempts, two events: a fault (of enqueue, of
\* the worker or of the janitor), an expiry or a request of the operator, and then the
\* end of a process.
CONSTANTS
  Process = {p1, p2}
  Task = {t1}
  Home <- OneHome
  MaxRetries = 2
  MaxEvents = 2
  MaxRuns = 2
SPECIFICATION FairSpec
INVARIANTS TypeOK NothingVanishes RunsAlone
PROPERTIES LifeSpec Settles
CHECK_DEADLOCK FALSE
