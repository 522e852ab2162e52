# A verification project for RuoYi-Cpp

RuoYi-Cpp (v1.3.3) is the back end of an administration platform: C++20 on Drogon,
PostgreSQL with a SQLite fall-back, Redis for sessions, caches and locks, and a Vue
front end.  This directory holds TLA+ models of the parts of it whose correctness
depends on failure, concurrency and ordering, the TLC configurations that check them,
and theorems proved with TLAPS.  Paths below are relative to the repository.

## 1. Inventory

### The parts that keep state, and what makes each hard

| part | where | state | operations | what is hard |
|---|---|---|---|---|
| database service | `src/services/DatabaseService.h` | link to PostgreSQL (pool, connection), SQLite mirror, `useSqlite_`, `pendingSync_`, retry timer | `exec`, `execParams`, `query`, `queryParams`, `connect`, `reconnect`, `ensureConnection` | outage in the middle of a statement, failover, dual writing, replay that fails in part, crash with a queue in memory, an unlocked reconnect |
| distributed lock | `src/common/DistLock.h` | Redis key with lease and token; a local lock per process | `tryLock`, `unlock` (`renew`, `lock`, the guard have no caller) | lost replies, leases outlived, Redis coming and going between lock and unlock |
| job scheduler | `src/monitor/JobScheduler.h`, `src/monitor/controllers/SysJobCtrl.h` | job table with `running` and `lastFireMin`, `sys_job`, detached threads | scheduler loop, `scheduleJob`, `unscheduleJob`, `runOnce`, the administrator's handlers | one firing on several nodes, overlapping runs, a flag that stays set, tables that drift from `sys_job` |
| task queue | `src/taskqueue` | ready, delayed, processing and dead lists in Redis or in memory | enqueue, claim, ack, fail, janitor, requeue | crash between two Redis commands, two janitors, late answers |
| sessions | `src/common/TokenCache.h`, `ClusterSession.h`, `src/system/services/TokenService.h`, table `sys_token` | one session in up to three places | login, refresh, logout, expiry, resynchronisation with Redis | asynchronous update racing a logout; Redis returning with old entries |
| caches | `src/common/CacheSync.h`, `src/cache` | per-process copies, invalidation messages | get, put, invalidate | an invalidation published while a subscriber is reconnecting |
| password retries | `src/system/services/SysPasswordService.h` | error count per user | validate, clear | read, check, increment and write in separate steps |
| SSO tickets | `src/sso` | one-use tickets in Redis or in memory | put, consume | two stores of which one is read; non-atomic GET and DEL |
| approval workflow | `src/flow` | definitions, instances, tasks in the database | start, approve, reject, cancel | every handler reads, decides and writes in separate statements |
| audit queue, slow-log queue | `src/audit/AuditQueue.h`, `src/log/SlowLogQueue.h` | bounded queue, one batch in flight | push, flush, answer | capacity, a failed batch, a flush racing a push |
| own PostgreSQL driver | `src/third_party/drogon_pg_driver`, `src/services/DatabaseServicePg.h` | pool, circuit breaker, queue (build option, off by default) | checkout, return, expand, health check | breaker thresholds, concurrent expansion |
| rate limiting, WAF, risk | `src/common/RateLimiter.h`, `src/waf`, `src/risk` | counters and bans per address | count, ban, expire | window boundaries, concurrent counting |
| process supervision | `src/services/WorkerOrchestrator.*`, `src/launcher`, `watchdog` | child processes, restart counts | start, watch, restart | crash loops, two supervisors |

Everything a request does reaches the **database service**; the **scheduler** starts
threads that take the **distributed lock** and then call handlers, which use the
database; sessions, SSO and the task queue share one small pool of Redis connections
(`RedisConn`) that turns itself off for two seconds after a failed connect.  One
PostgreSQL, one Redis and any number of hosts: `main/main/RuntimeSetup.cc:33` starts
the scheduler on the primary instance of each host.

Screens, menus, dictionaries, reports, AI, IoT, SMS, backup and the like are CRUD over
the database service, calls of outside programs, or pure computation.  `PROJECT.json`
lists them one by one with the reason each is left out.

### What makes the modelled parts correct

* A write the caller was told succeeded is in PostgreSQL, or queued, or counted as given up.
* A queued write is applied at most once on the service's own account, in issue order.
* Reads after a failover see what was acknowledged before it.
* The service comes back to PostgreSQL once it is reachable.
* Whoever was granted a lock owns it until it lets go or its lease runs out.
* Two timed runs of one job overlap only for a reason that can be named.
* A job is not blocked for ever by a run that has ended, and a stopped job is not run.
* An approval instance passes no node without an approval there, and never waits for
  nobody; where requests do not overlap it goes its nodes in order and ends once.
* A background task disappears only in ways that can be named, and one that nothing
  disturbs is run by one worker at a time and ends as done or dead.
* A session that was logged out does not come back, one that was not goes on being
  served, and a change of permissions stays changed.

`PROJECT.json` "hazards" gives the code line at which each could go wrong, those of the
parts not modelled yet included.

## 2. Modules

| module | kind | stands for |
|---|---|---|
| `WriteLedger` | abstract specification | the fate of a write: none, queued, synced, dropped, dead or lost |
| `DatabaseFailover` | component | `DatabaseService.h`, its start-up and the operations page's reconnect |
| `DatabaseFailoverProofs` | theorems | about `DatabaseFailover` |
| `DistLock` | component without a `Next` | `DistLock.h` and the reachability of Redis: operators its users build actions from |
| `JobScheduler` | composition | extends `DistLock`: scheduler loop, detached threads, `SysJobCtrl`, restarts |
| `MCJobScheduler` | instances | constants and symmetry for TLC |
| `JobSchedulerProofs` | theorems | about `JobScheduler` and the lock in it |
| `SchedulerClock` | component | the arithmetic of the scheduler loop's sleep |
| `Approval` | abstract specification | an instance's way through its nodes, and its outcome |
| `FlowEngine` | component | `FlowEngine.h`, and the handlers of `FlowCtrl.h` that write |
| `MCFlowEngine` | instances | a node for two, then a node for one of them, with two keys or one |
| `FlowEngineProofs` | theorems | about `FlowEngine`: types, nodes, decisions |
| `FlowWaitingProofs` | theorems | about `FlowEngine`: nobody is left waiting |
| `FlowOverlapProofs` | theorems | about `FlowEngine`: instances whose requests do not overlap, and `Approval` |
| `TaskLife` | abstract specification | the life of a background task and its attempts |
| `TaskQueue` | component | `TaskQueue.cc` with Redis |
| `MCTaskQueue` | instances | the process a task is submitted to |
| `TaskQueueProofs` | theorems | about `TaskQueue` |
| `TokenCache` | component without a `Next` | `TokenCache.h` and `RedisConn::available`: the effect of each call |
| `Sessions` | composition | extends `TokenCache`: `TokenService.h` and the handlers that write to a session |
| `MCSessions` | instances | symmetry for TLC |
| `SessionsProofs` | theorems | about `Sessions`: types, and that a logout lasts |
| `SessionsCopiesProofs` | theorems | about `Sessions`: what the copies of a session hold |

### DatabaseFailover

`exec`, `execParams`, `query` and `queryParams` hold `mutex_` for their whole length, so
one call at a time is in progress: `call` says which, `pc` how far it is.

| action | code |
|---|---|
| `Call` | entry and `ensurePgOrFallbackLocked` |
| `ExecPg` | the PostgreSQL branch: the statement, the mirrored statement, or `switchToSqliteLocked` |
| `TryRecover` | `tryRecoverPgLocked` up to the replay |
| `ReplayOne`, `ReplayEnd` | the loop of `replaySyncLocked`, and its swap |
| `ExecLite` | `pendingSyncIfRoom` and the statement on SQLite |
| `OpsCheck`, `OpsReconnect` | `ensureConnection`, which `OpsCtrl` calls without the mutex, in its two steps |
| `Restart` | end of the process and `StartupAdvice` |
| `PgDown`, `PgUp`, `RetryTimer` | the server and the clock |

PostgreSQL may go away before, during or after any statement; a statement cut off may
have taken effect (`cutAfter`).  `conn` is `"stale"` when libpq has not noticed yet.
`PoolLoads` says whether `libpq-lite` loads, each time it is tried.  A write is its issue
number; its SQL, its translation for SQLite and its parameters are left out, and so is
`ON CONFLICT`, which the source relies on for writes that reach PostgreSQL in another
order than they were issued.  Explicit transactions (`begin`, `commit`) are ordinary
calls to this class and are not grouped here.  A call of `exec` with neither DML nor a
query behaves like `SELECT`.  The two copies of the fall-back code in
`DatabaseService.h` (`exec` and `execParams`) are one action.

The unlocked call of `ensureConnection` is undefined behaviour where it meets a locked
call.  The model gives it what sequentially consistent loads and stores could do at the
granularity of its two steps; torn pointers are outside it.  The INSERT of a dead letter
fails over a link that is already lost, or is refused; that it is itself the statement during
which the server goes away is left out, as `DeadLettersKept` is violated without it.

### DistLock and JobScheduler

`DistLock` gives `TryLock(n, k, i, got)` and `Unlock(n, k, i)` as relations on the Redis
key, the local lock table and what node `n` sees of Redis (`reach`).  Losing a reply
(`command` returns null) leaves it open whether the command was carried out, and the
code then takes the local lock.  Which store unlock goes to depends on Redis at that
moment and not on where the lock was taken.  A reply of an unexpected type counts as
"held by somebody else", as in the code.  Loss of the keys by Redis itself is not
modelled.  An owner is a thread: a SET whose reply was lost and the local lock taken in its
place have one owner in the model and two uuids in the code (`DistLock.h:53`, `:132`).

`JobScheduler` numbers the detached threads in the order they start; `threads[i].pc`
runs through `lock`, `dispatch`, `run`, `unlock`, `clear`, `done`.  A handler runs with
`mu_` held (`dispatch` keeps its `lock_guard` while it calls the handler), so `Fire`,
`ScheduleJob`, `UnscheduleJob`, `Clear` and other handlers of that node wait: `MuFree`.
Whether a cron expression matches is left open: any job may be due in any minute and
more than once in it, which is what makes `lastFireMin` matter.  Time is counted in
minutes; a lease of 120 s is `Ttl = 2`, taken and lost anywhere in its first and last
minute.  Nodes' clocks are assumed to be in step.  `Request` is the update of `sys_job`,
`ScheduleJob` and `UnscheduleJob` the second half of the same handler; `stop` stands for
`changeStatus` and `remove`.  `add` and `reloadFromDb` do not reach the scheduler (the
second has no caller).

### SchedulerClock

One action per iteration of `schedulerLoop`: read the clock in whole seconds, work,
compute the sleep from a difference of whole seconds, sleep.

### FlowEngine

All state is in three tables, and no handler opens a transaction: `req[r]` is the request
of thread `r`, `pc` the next of its statements, and what it has read so far is in its
record.  `ok` says whether the statement succeeds; the code looks at the result of a
SELECT and never at that of an UPDATE or INSERT.

| actions | code |
|---|---|
| `Start`, `InsertInstance`, `SelectMaxId`, `CreateNodeTask` | `FlowEngine::start`, `createNodeTasks` |
| `Cancel`, `EndInstance`, `SkipAll` | `FlowEngine::cancel` |
| `SelectTask`, `SelectInstance` | the checks of `doTask` |
| `MarkApproved`, `AppendVars`, `SelectDefinition`, `CountPending`, `SkipNode`, `Advance`, `EndInstance` | `doTask` of an approval, `CreateNodeTask` for the next node |
| `MarkRejected`, `EndInstance`, `SkipAll` | `doTask` of a rejection |
| `LoseDefinition` | `defDel`, and `defEdit` of a body without `nodes`, which saves `[]` |
| `BreakOff` | the process ends under a request |

The rows hold the key of a node, and everything that reads one takes the first node with that
key (`FlowEngine.h:210-214`), counts and skips by it (`:217-226`).  `validateNodes` asks that a
node has a key, not that no other has it, so keys may repeat: `keys[k]` is the number of the
first node with node `k`'s key, any keying is a possible definition (`Keyings`), and the rows
of node `k` are at `keys[k]`.  An instance that advances to a node with an earlier one's key is
back at the earlier node, with tasks for the later one's assignees; when they have agreed, it
goes on behind the earlier node again.  It never gets beyond the repeated key, hence can be
rejected or cancelled but not approved.  `returned` are the instances this has happened to:
they are not what `Approval` promises and `RowsAgree` describes, and both except them;
`NoNodeSkipped`, `NotStranded`, `DecisionsKept` and `VariablesKept` hold of them too.

The variables of an instance are the set of approvals that added some.  There is one
definition.  That a caller may only decide his own task and cancel his own instance is in the choice of the request.  Notifications,
comments and times are left out, and so are edits that exchange the nodes of a definition
under running instances.

Where requests overlap on one instance the code promises little as well, and `crowded` (they
overlapped) and `spoiled` (a request broke off there, lost a statement, or lost the
definition) say where.  `NoNodeSkipped` and `DecisionsKept` hold everywhere;
`NotStranded` even where requests overlap; `RowsAgree` and the refinement of `Approval`
outside and before an instance goes back.  What the code does inside: two approvals that
overlap at one node may give the next node two sets of tasks, a start may take another's instance for its own
(`SELECT MAX(id)`), and an approval may go on after a cancellation.

### TaskQueue

Every action is one Redis command with an outcome: done, not done, or done with the reply
lost.  `processing` and `dead` count occurrences, since a task may be in a Redis list twice.

| actions | code |
|---|---|
| `Store`, `Push` | `enqueue`: HSET, LPUSH, or the producer's memory |
| `Claim`, `Load`, `Orphan`, `Mark`, `HandlerReturns` | `tryClaimNext`, `workerLoop` |
| `Update`, `Schedule`, `DeadLetter`, `Release` | `ackSuccess`, `ackFailure`, `scheduleRetry`, `moveToDeadLetter` |
| `ListDue`, `TakeDue`, `PutBack` | `janitorLoop` |
| `AskRequeue`, `Undead`, `Renew`, `Requeue`, `ClearDead` | `requeueDeadLetter`, `clearDeadLetter` |
| `Crash`, `Expire` | the end of a process; the time to live of `task:<id>` |

`memory` is what `memPending_` and `memTaskData_` hold, the RAM of the process a task was
submitted to (`Home`): a producer puts a task there when Redis did not take it, and workers
that use Redis never look there.  `Crash` ends a process between any two commands of any of
its threads: the worker, the janitor, a request of the operator it serves (between the LREM
from the dead letters and the LPUSH, too), and `enqueue`.  What it had in `memory` is gone, and
a call of `enqueue` it cuts never returns (`"cut"`: the task was not accepted).

`met` are the tasks that met a fault or commands that crossed, `mislaid` those taken out of
one list and not put into the next, or lost with the memory of their process.
`NothingVanishes` excepts `mislaid` only.  So it does not say that nothing is ever lost, but
that these are the only ways: the janitor or the operator is cut or loses its link between two
lists; a ZADD, a dead letter's LPUSH or the requeueing LPUSH fails; the data expires; the dead
letters are cleared; a process ends with the only copy in its memory.  A worker that ends
anywhere loses nothing.  `RunsAlone`, the refinement of `TaskLife`, and `Settles` are about tasks
outside `met`.

A task whose worker ended stays in `processing`, and counts as being there.
`TaskQueue.h:21` and `TaskQueue.cc:11-13` say that the janitor returns it; `reapStuckTasks`
(`:849`) reads a field that no command writes, takes every task for one that has not started,
and changes nothing.  It therefore has no action, and no property says such a task is run
again: it is not.  In the shipped wiring the queue is off (`RuntimeSetup.cc:312`
hands `init` the inner object, `TaskQueue.cc:288` looks for the outer one).

### TokenCache and Sessions

`TokenCache` gives the calls of the cache as relations on `mem` (one map per node), `redis`,
and what a node knows of its link: `available()` notices a link that has come back and sets
`needSync_`, the next `get` writes the node's memory to Redis.  Setting, updating and
removing touch memory first and Redis in a second step.  A session is the version of the
permissions it carries, or `Cleared` when the SELECTs that should have read them failed: the
code then writes a session without permissions (`SysRoleCtrl.h:245-253`).

| actions | code |
|---|---|
| `Login`, `Kick`, `SetMem`, `SetRedis`, `Insert` | `createToken`, `refreshToken` of `TokenService` |
| `Request`, `Look` | `getLoginUser` in logout, forced logout, the filter's refresh, the token exchange, the location callback, `updatePwd`, and where a session is only read |
| `DelMem`, `DelRedis`, `DelRow` | `delLoginUser` |
| `Change("edit")`, `Statement`, `SelectKeys`, `Look`, `Query`, `UpdMem`, `UpdRedis` | `SysRoleCtrl::edit`: the keys first, then for each session the permissions |
| `Change("grant")`, `Statement`, `Query`, `SelectKeys`, `Look`, `UpdMem`, `UpdRedis` | `SysRoleCtrl::selectAll`, `SysUserCtrl::insertAuthRole`: the permissions first, then the keys and the sessions |
| `UpdMem`, `UpdRedis`, `UpdRow` | the location callback's write; the first two also `updatePwd`'s |
| `Restart`, `Restore` | the end of a node, and `startRuntimeServices` |
| `LinkStep`, `RedisRestart` | Redis |

These are all that write a session; OAuth2 logs in through `createToken` as well.  The
UPDATE, DELETE and INSERTs a change begins with are separate statements whose results nobody looks at: `Statement` is one
of them, taken any number of times, none included.

What a removal or a change promises depends on what it met: `closed` are the sessions whose
removal reached memory, Redis and table with nobody else at work on the session and no copy
in another node's memory; `fresh` is the version a change of permissions brought a session
to under the same conditions, with no grant under way that has read permissions and not yet
written them (`Granting`); `missed` are sessions whose command was lost over a link that
looked alive.  Outside these the code makes no promise, and the copies do differ: a
session removed while Redis is away comes back with it, a node serves from memory what
another has removed, a grant whose reads are older than an edit that begins and ends before it
writes puts the older permissions back although the two never met on the session, a change
whose SELECT failed leaves a session without permissions, and a restart brings back the
permissions of the login, since changes of permissions are not written to `sys_token`.
`PermissionsFresh` is therefore about stale copies the caches might serve, and not about two
changes racing each other.

## 3. Runs

| run | question | size |
|---|---|---|
| `DB_Sync` | is every write accounted for, replayed in order and once; is the ledger implemented | 3 writes, a queue of 2, 2 retries, pool or not, statements refused |
| `DB_Lite` | do reads after failover see acknowledged writes; does the service return to PostgreSQL | 2 writes, a queue of 1, SQLite failing as well |
| `Job_Lock` | who owns the lock, when do runs overlap, has a serial job one firing at a time on a node | 2 nodes, 1 serial job, 3 threads, 3 minutes, Redis lost and found |
| `Job_Admin` | has a set `running` a firing that will clear it, and is it cleared, however the thread ends | 1 node, 1 concurrent job (its behaviours include a serial one's), 2 threads, administrator, restarts |
| `Flow` | what holds of approvals however they interleave; is `Approval` implemented where they do not | 2 requests at a time, 2 nodes (both of two, one of one), 5 rows, 2 instances, or one and a mishap, or one and a repeated key |
| `Task_Queue` | does a task disappear, run twice, take another course than `TaskLife`, or never settle | 2 processes, 1 task of 2 attempts; a fault (of `enqueue`, too), an expiry or a request of the operator, then the end of a process |
| `Sessions` | do logouts, logins and changes of permissions last in all the copies | 2 nodes, 2 requests at a time of 3, 3 of: second session, mishap, change of permissions |
| `DB_Stranded` | violated: "恢复后自动同步" (`DatabaseService.h:19`) | 1 write, a server that refuses nothing |
| `DB_Dead` | violated: the 3rd failure goes to `sys_sync_dead` (`:798`) | the same |
| `Job_Twice` | violated: one node only per firing (`JobScheduler.h:704`) | 2 healthy nodes |
| `Job_Stopped` | violated: only jobs of status '0' are scheduled (`:590`, `SysJobCtrl.h:219`) | 1 node |
| `Job_Clock` | violated: every second is looked at (`JobScheduler.h:629`) | 60 seconds of an idle loop |

**Why the bounds are enough.**  Three writes against a queue of two: the queue overflows,
a replay has two writes of which either may fail, a third is issued between two replays,
and with two retries a write is dead-lettered.  Values `MAX_PENDING = 10000` and
`MAX_REPLAY_RETRIES = 3` of the code only lengthen these behaviours, and the theorems
hold for all of them.  Three threads over three minutes with a lease of two: one
outlives its lease, a second is granted the lock, the first unlocks late, and a third
tries.  A fourth minute would only repeat it.  The job table is per job and per node, so
one job shows what two would, except for waiting on `mu_`, which `MuFree` covers by node.

`Flow`: two requests cover every pair of statements that can meet; five rows are an
instance with three tasks and a doubled one, an instance that has come back to its first node
by a repeated key, or two instances.  Instances, mishaps and
repeated keys share one budget of two (`EventsLeft`): two instances without a mishap, one with,
or one whose second node has the first one's key, with neither.  `Task_Queue`: two
processes are two workers and two janitors, as many as can race for one task; two attempts
reach retry and dead letter.  The last of the two events is left to the end of a process
(`MayHappen`): any single fault, a failed `enqueue` included, and then the end of a process
anywhere are explored together, and two ends of processes as well.
A request of the operator that meets a fault of its own, or comes after the end of a process,
is not in the run, only its being cut; the theorems have no such bound.  Tasks meet in the lists only by their order, which no
property is about.  `Sessions`: two nodes are one that acts and one that keeps a copy; a login
with an older session present removes it; a third session would only repeat that.  Mishaps,
changes of permissions and further sessions share one budget of three, and three requests may
be begun: a login, an edit and a grant that overlaps it, or a login, a change or logout, and
one that comes late.  The theorems hold for any number of all of these.

**Fairness.**  `DatabaseFailover`: a call that has begun is a running thread
(`WF(Progress)`), time passes (`WF(RetryTimer)`), and statements keep coming
(`WF(Call(SELECT))`: the scheduler, log writers and health page never cease).  Nothing is
assumed of PostgreSQL, of new writes or of the operations page.  `JobScheduler`: weak
fairness for each thread, which includes that handlers return.  `mu_` gives no order, but
with a bounded number of threads each wait for it ends.  Nothing is assumed of the
scheduler loop, the clock, Redis or the administrator.

`TaskQueue`: weak fairness for each worker, each
janitor once it has listed retries, a producer that has begun and the operator's request:
running threads of a live process, whose handlers return; a process that ends takes its threads'
steps away (`Crash`), and the tasks they had in hand are in `met`.  Strong fairness for a
retry's being listed, since a janitor sleeps and looks again for ever, and its time comes.  Nothing is assumed of
faults, and a process that ends is started again.  `FlowEngine` and `Sessions` state no
fairness: their requests come from users, and all their properties are safety properties.

**Deadlock** is checked in every run but `Job_Clock`, whose horizon stops it, and `Flow`,
`Task_Queue` and `Sessions`, where nothing need happen once all requests and tasks are done
(and the bounds on them are used up).

### What the violated properties show

* `SyncsAfterRecovery`: a write that fails its replay once, or is queued by the very call
  that has just recovered (`tryRecoverPgLocked` replays, then the call queues itself), or
  is pending when the operations page reconnects, stays in `pendingSync_` while
  PostgreSQL serves again: replay runs only on the next recovery from SQLite mode.  A
  restart then loses it.
* `DeadLettersKept`: the dead letter is itself an INSERT into PostgreSQL with its result
  ignored, sent when three replays have just failed; if the server is gone the row is
  not written and the write exists nowhere any more but in a counter.
* `OneNodePerFiring`: the lock is released as soon as the handler returns.  A short job
  on one node is over before the other node's thread asks for the lock, and runs again.
* `StoppedNotScheduled`: `edit` calls `scheduleJob` without looking at the status.
* `EverySecondExamined`: the sleep is 1050 ms after an idle iteration whatever part of the
  second has gone, so about one second in twenty is never looked at, and a job whose cron
  names that second misses its minute.

## 4. Theorems

`DatabaseFailoverProofs`, for every number of writes, capacity and retry limit:

* `TypeCorrect`, `NothingLostSilently`, `QueueBounded`, `ReplayOrdered`,
  `NeverReplayedTwice`, and `LedgerImplemented`: the service implements `WriteLedger`.
* The argument.  `NoSilentLoss` is inductive with the types.  Order, single replay and the
  refinement need to know that a write is in one place at a time, which none of them
  says: `EachWriteOnce` says that the call's own write is the newest and nowhere else,
  that the queue and the given-up sets are disjoint, that `remain` is empty outside a
  replay.  `IInv` joins them; `Inductive` has a lemma per action (`OnceCall`, `OnceExecPg`,
  `OnceReplayOne`, ...), the actions that leave the queue alone being grouped in `Quiet`.
  For the refinement, each action moves one write (`OneMoves`), none (`NoneMoves`), or
  is the ledger's `Crash`.
* `FallbackComplete`: SQLite has every acknowledged write as long as it has been open and
  has refused none.  It holds because of when the service acknowledges: `Mirrored`, the
  same without the condition that SQLite is in use, is preserved by every step, the two
  ways an execution can end included (`MirrorExecPg`, `MirrorExecLite`).

`JobSchedulerProofs`, for every set of nodes and jobs, lease, and number of threads and
minutes, with or without faults, restarts and administration:

* `SchedulerTyped`, `HolderIsOwner`, `OverlapsExplained`, `FlagsOwned` and `SerialFirings`.
* The argument.  `HolderOwnsLock` is preserved because a grant needs the key empty, a
  release takes away the caller's own lease only, and what runs out is recorded in
  `lapsed` (`TryLockSound`, `UnlockSound`, `ExpireSound`).  A step then leaves every thread
  with its lease carried over, apart from the lock, or just granted it (`LocksKept`).
  `OverlapExplained` follows with `OneLease` and `TimedLocked`.
* The argument for the running flag.  For a job on a node every step does one of five things
  (`StepOutcome`): leave flag and firings alone, add a firing and set the flag, end one and
  clear it, lose all of them and clear it (a restart), or clear it by removing the entry.
  `FlagOwned` follows from that.  A thread that finds its entry removed leaves the flag
  alone, which is right because an entry that is not there has none (`FlagListed`).
  `SerialSkips` needs the converse, that an open firing of a serial job has its flag set
  (`SerialFlagged`); removing the entry breaks it, so it is stated for a table the
  administrator leaves alone: after a stop and an enable, or once the late clear of an old
  firing has reached a new entry, a serial job does have two firings open at a time.

`FlowEngineProofs`, `FlowWaitingProofs` and `FlowOverlapProofs`, for every definition whose
nodes have assignees, whether or not their keys repeat, every set of requests, and any number
of rows and mishaps:

* `FlowTyped`, `NodesNotSkipped`, `DecisionsStay`, `NobodyStranded`, `VariablesStay`,
  `RowsInAgreement`, and `PromiseKept`: the engine implements `Approval`.
* The argument.  `Shape` is the types, that rows and requests refer to rows that exist
  (`IdsOK`), and what a request knows at each of its statements (`AllPlaced`).  A lemma
  per statement says which rows it may touch.  For `NoNodeSkipped`: a request beyond its
  approval has passed its node, one that makes tasks the nodes before (`Entitled`), and so
  has every instance and every task (`Backed`); what was said is never taken back.
  `NotStranded` needs that a running instance that is not `spoiled` has a pending task or
  a request on its way to end it, advance it or give it one (`Attended`, `Watched`), the
  last of several overlapping approvals included.  For `VariablesKept`, where requests do
  not overlap on an instance (`Apart`), the variables a request has read are still the
  instance's (`UpToDate`).
* The argument for the rows.  `RowsAgree` speaks of instances nobody works on; `Orderly`
  says of every calm instance, one whose requests have neither overlapped nor broken off and
  that no repeated key has sent back, that it is `OnTrack` between any two statements: its rows fit (`InstFits`), but for what
  its one request is still to do (`Making`, `Clearing`, `Rejecting`), and that request
  relies on facts that still hold (`AtWork`): the task it decides on is pending, the node
  it read is current, and the count that lets it leave the node is true of what was said
  (`Enough`).  A step leaves alone the rows of every instance but its request's
  (`SameInst`), and a calm instance has one request (`Alone`, from `Overlaps`), so what a
  request has read stays true until it uses it.  `TasksMade` counts the tasks of a node,
  made one at a time, against its list of assignees (`Short`).
* The argument for the refinement.  Each step of the request of a calm instance is one of
  `Agree`, `Advance`, `Approve` and `Stop`, or a stutter (`CourseOf`, `CourseStep`); the
  guards of those actions are `Enough` and `InTime`.  A step that ends the calm is
  `Loosen`, and a new instance takes an id that nothing refers to yet (`StartPromise`).
  `Bounded` keeps the ids in the set the mapping is over.

`TaskQueueProofs`, for every finite set of processes, every set of tasks, whichever process
each is submitted to, and every bound:

* `TaskTyped`, `NothingIsLost`, `TasksRunAlone`, and `LifeImplemented`: the task queue
  implements `TaskLife`.
* The argument.  `NothingVanishes` is not inductive: a task may be in `processing` only, and
  several workers, each about to take one entry out, may have it at a time.  `Safe` counts:
  each worker that has a task has its own entry in `processing` (`Covered`), and unless the
  task is in another place too, there are more entries than workers that will just take
  one out (`Secure`).  A worker becomes one of those only after the task has been listed
  elsewhere, has been mislaid or is finished.
* The argument for a task that nothing met.  `OnItsWay` is inductive for each such task: it
  is in one place at most and there once, be it a list or the hands of a worker, a janitor
  or the operator (`InOnePlace`), and what is stored of it fits that place and what its
  worker remembers (`RowKnown`, `WorkKnown`).  Every step concerns one task only, and takes
  it one hop along (`Concerns`, `Goes`: `Claimed`, `WentOn`, `PutDown`, ...), or leaves all
  that met nothing as they are.  Each hop keeps `OnItsWay`, and is in `TaskLife` a step of
  that task's life or a stutter, because `runs` counts the attempts the stored row counts.

`SessionsProofs` and `SessionsCopiesProofs`, for every set of nodes and of requests, any number of sessions, either
policy on several sessions of a user, and every bound:

* `SessionsTyped` and `SessionsLogoutLasts`; `SessionsStayServed`, `SessionsPermissionsFresh`
  and `SessionsSynchronised`.
* The argument for a logout.  `Typed` adds to the types that ids are given out in order, so that a new
  one has left no trace (`Numbered`), and what a request knows at each of its steps
  (`Knows`).  `LogoutLasts` is not inductive: a logout might end while another request
  holds a copy it is about to write.  `Orderly` says that a session removed by a request
  nothing met has no copy and nobody at work on it but to look it up or remove it (`Gone`);
  that such a request is the only one on its session, and how far it has got with the
  copies (`Lonely`); and that the session a request is going to create is unknown to all
  others (`New`).  A step of a request changes copies of its own session only (`Touches`),
  learns only of sessions that have a copy, an owner or a client (`Knew`), and goes on in
  the order of the code (`Advances`); `RequestOrderly` preserves `Orderly` from these
  three, and a lemma per group of actions establishes them.
* The argument for the copies.  `Writes` says what a step of a request writes to memory and
  to Redis, and where it got the value from; again a lemma per group of actions.  Three
  invariants rest on it, none of them inductive in the form the run checks.  `Stored`: the
  node a kept session was created on has it in memory, or has just been restarted and has
  still to restore it.  `UpToDate`: no copy, no value a request is about to write
  (`Carrying`), and none a grant has read and will write (`Granting`), is older than the last
  change that reached the session, and a request that
  nothing met has updated memory before it updates Redis.  `Synchronised`: a session that is
  kept, or is being logged in and nothing met that (`Counted`), and that a node has in
  memory, is in Redis too, unless the node knows that Redis has missed something
  (`Noticed`), is just writing it there (`Syncing`), or the loss is one `missed` records.

Assumptions: only those on constants (`DatabaseAssumption`, `DistLockAssumption`,
`JobSchedulerAssumption`, `FlowEngineAssumption`, `TaskQueueAssumption`, `NoneIsNoTask`,
`SessionsAssumption`), which TLC evaluates in the runs.  `FairSpec` implies `Spec`, so the theorems hold of it too.

Model-checked only: the liveness properties `PgServesAgain`, `FlagCleared` and `Settles`.
Liveness under fairness and `ENABLED` are out of the prover's reach.  Every other property
of the passing runs is a theorem.  Induction over data is out of reach too; the proofs
avoid it by speaking of the ids in a queue as a set and of its order by indices, and by
counting the tasks of a node with `Cardinality` as they are made.

## 5. Not modelled

Of the modelled parts: grouping of database statements into transactions, and the SQL of
the statements; `renew` and `lock` of `DistLock`, which have no caller; the in-memory back
end of the task queue; expiry of sessions and their copy on the GPU; several versions of
an approval definition.

Of the rest, the parts that keep state:

* **Password retries, SSO tickets, audit and slow-log queue.**  A few steps each over one
  counter, one key or one queue.  What can go wrong is listed under "hazards" with its line;
  there is little more to their behaviour.
* **Cache synchronisation, web sockets, notifications.**  Best-effort messages; nothing in
  the code promises that one arrives.
* **Own PostgreSQL driver** (`RUOYI_USE_PG_DRIVER`).  Off by default; the default build's
  `DatabaseService` is the one modelled.
* **Rate limiting, WAF, risk.**  Counters and scores under one mutex, hence sequential, or
  matching of patterns.
* **Process supervision, backup, certificates, IoT, SMS, AI.**  Outside programs and
  services, whose behaviour is not in this repository.
* **Administration, screens, reports, code generator, analytics.**  Single statements over the
  database service, or pure computation.

Left out altogether: third-party and generated code, front end, formatting, SQL text,
cryptography, pure I/O.
