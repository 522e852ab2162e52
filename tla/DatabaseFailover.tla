-------------------------- MODULE DatabaseFailover --------------------------
(***************************************************************************)
(* The database service (services/DatabaseService.h, the default libpq     *)
(* build): every statement of the application goes through one object that *)
(* prefers PostgreSQL, mirrors each write into SQLite, falls over to       *)
(* SQLite when PostgreSQL is lost, queues the writes made meanwhile, and   *)
(* replays the queue when PostgreSQL answers again.                        *)
(*                                                                         *)
(* exec, execParams, query and queryParams hold mutex_ throughout, so one  *)
(* call is in progress at a time; the server may fail between any two of   *)
(* its statements, the process may end anywhere, and the operations page   *)
(* calls ensureConnection without the mutex.                               *)
(***************************************************************************)
EXTENDS Integers, Sequences

CONSTANTS
  MaxWrites,           \* bound: how many writes the application issues
  MAX_PENDING,         \* capacity of pendingSync_
  MAX_REPLAY_RETRIES,  \* failed replays before a write is dead-lettered
  PoolLoads,           \* can libpq-lite be loaded, per attempt (a set of Booleans)
  SqlErrors,           \* may PostgreSQL refuse a statement while it is up?
  LiteErrors           \* may SQLite fail a statement?

ASSUME DatabaseAssumption ==
  /\ MaxWrites \in Nat
  /\ MAX_PENDING \in Nat
  /\ MAX_REPLAY_RETRIES \in Nat \ {0}
  /\ PoolLoads \in (SUBSET BOOLEAN) \ {{}}
  /\ SqlErrors \in BOOLEAN
  /\ LiteErrors \in BOOLEAN

Write  == 1 .. MaxWrites   \* writes (DML), numbered in the order they are issued
SELECT == 0                \* a call that writes nothing

VARIABLES
  pgUp,        \* environment: the PostgreSQL server accepts connections
  pool,        \* pgPool_ # nullptr
  conn,        \* conn_: "none" (null or bad), "open", or "stale" (not yet noticed)
  lite,        \* lite_ # nullptr
  useSqlite,   \* useSqlite_
  retryDue,    \* now >= pgRetryAt_
  pending,     \* pendingSync_ : sequence of [w, retries]
  remain,      \* the local vector of replaySyncLocked
  pc,          \* where the call that holds mutex_ stands
  call,        \* that call: SELECT or a write
  ops,         \* the operations page: "idle" or about to "reconnect"
  issued,      \* number of writes issued so far
  pg, sqlite,  \* writes each database has applied
  acked,       \* writes whose caller was told "true"
  dropped,     \* writes counted in syncDropped_
  dead,        \* writes counted in syncDead_
  deadTable,   \* writes recorded in table sys_sync_dead
  lost,        \* history: writes in memory only when the process ended
  ambiguous,   \* history: writes PostgreSQL applied but reported as failed
  intact       \* history: SQLite has been open and has refused no write so far

server  == <<pgUp, pool, conn>>
queue   == <<pending, remain, dropped, dead, deadTable, lost>>
mirror  == <<lite, sqlite, intact>>
vars == <<server, useSqlite, retryDue, pc, call, ops, issued, queue, mirror,
          pg, acked, ambiguous>>

Ids(s) == {s[i].w : i \in DOMAIN s}
Queued == Ids(remain) \cup Ids(pending)

-----------------------------------------------------------------------------
(* One statement sent to PostgreSQL (execPgLocked and its siblings).  A cut  *)
(* is the server going away during the statement, before or after it took   *)
(* effect; libpq then reports a bad connection, the pool only an error.     *)

Outcomes ==
  IF pgUp /\ (pool \/ conn = "open")
  THEN {"ok", "cut", "cutAfter"} \cup (IF SqlErrors THEN {"refused"} ELSE {})
  ELSE {"unreachable"}

Applies(o) == o \in {"ok", "cutAfter"}

PgStatement(o, w) ==
  /\ pgUp' = (pgUp /\ o \notin {"cut", "cutAfter"})
  /\ conn' = IF o \in {"ok", "refused"} THEN conn
             ELSE IF ~pool THEN "none"
             ELSE IF conn = "open" THEN "stale" ELSE conn
  /\ pg' = IF w # SELECT /\ Applies(o) THEN pg \cup {w} ELSE pg
  /\ ambiguous' = IF w # SELECT /\ o = "cutAfter" THEN ambiguous \cup {w} ELSE ambiguous
  /\ UNCHANGED pool

(* One statement run on SQLite (execSqliteLocked): a fatal error closes it. *)
LiteOutcomes == {"ok"} \cup (IF LiteErrors THEN {"error", "fatal"} ELSE {})

SqliteStatement(r, w) ==
  /\ lite' = (lite /\ r # "fatal")
  /\ sqlite' = IF w # SELECT /\ lite /\ r = "ok" THEN sqlite \cup {w} ELSE sqlite
  /\ intact' = (intact /\ (w # SELECT => lite /\ r = "ok"))

Return(ok) ==
  /\ pc' = "idle"
  /\ call' = SELECT
  /\ acked' = IF ok /\ call # SELECT THEN acked \cup {call} ELSE acked

-----------------------------------------------------------------------------
(* ensurePgOrFallbackLocked, the first thing every call does: probe the    *)
(* pool, else look at conn_, else reconnect once per throttle window, else  *)
(* use SQLite.                                                              *)

KeepLink == UNCHANGED <<pool, conn, useSqlite, retryDue>>

Reconnect ==     \* the pool, if there was one, is gone; conn_ is not usable
  /\ pool' = FALSE
  /\ retryDue' = FALSE
  /\ IF retryDue /\ pgUp
     THEN conn' = "open" /\ UNCHANGED useSqlite
     ELSE conn' = "none" /\ useSqlite' = lite

EnsurePgOrFallback ==
  \/ (useSqlite \/ pool) /\ KeepLink                \* on SQLite, or the probe succeeds
  \/ /\ ~useSqlite
     /\ pool => ~pgUp                              \* the probe fails
     /\ IF conn # "none"
        THEN pool' = FALSE /\ UNCHANGED <<conn, useSqlite, retryDue>>
        ELSE Reconnect

(* A caller enters exec/execParams with a write or query/queryParams.       *)
Call(c) ==
  /\ pc = "idle"
  /\ c = SELECT \/ (c \in Write /\ c = issued + 1)
  /\ call' = c
  /\ issued' = IF c = SELECT THEN issued ELSE c
  /\ EnsurePgOrFallback
  /\ pc' = IF useSqlite' THEN "recover" ELSE "pg"
  /\ UNCHANGED <<pgUp, ops, queue, mirror, pg, acked, ambiguous>>

(* if (ok && isDml(sql) && lite_) execSqliteLocked(...): the result of the  *)
(* mirrored statement is ignored.                                           *)
DualWriteMissing == UNCHANGED mirror

DualWrite ==
  IF call # SELECT /\ lite
  THEN \E r \in LiteOutcomes : SqliteStatement(r, call)
  ELSE intact' = (intact /\ call = SELECT) /\ UNCHANGED <<lite, sqlite>>

(* The PostgreSQL branch.  A success is mirrored into SQLite; a failure     *)
(* with conn_ null or bad is taken for an outage, any other is returned.    *)
ExecPg ==
  /\ pc = "pg"
  /\ \E o \in Outcomes :
       /\ PgStatement(o, call)
       /\ \/ /\ o = "ok"
             /\ DualWrite
             /\ Return(TRUE)
             /\ UNCHANGED <<useSqlite, retryDue>>
          \/ /\ o # "ok" /\ conn' # "none"
             /\ Return(FALSE)
             /\ UNCHANGED <<useSqlite, retryDue, mirror>>
          \/ /\ o # "ok" /\ conn' = "none"
             /\ useSqlite' = TRUE
             /\ retryDue' = FALSE                        \* switchToSqliteLocked
             /\ pc' = "lite"
             /\ UNCHANGED <<call, acked, mirror>>
  /\ UNCHANGED <<ops, issued, queue>>

UseSqliteForever(up) == TRUE

UseSqliteAfter(up) == ~up     \* useSqlite_ after an attempt to connect

(* tryRecoverPgLocked: at most one attempt per throttle window; the pool    *)
(* first if libpq-lite is not loaded yet, else one libpq connection.        *)
TryRecover ==
  /\ pc = "recover"
  /\ IF ~useSqlite \/ ~retryDue
     THEN pc' = "lite" /\ KeepLink
     ELSE /\ retryDue' = FALSE
          /\ \/ /\ ~pool /\ TRUE \in PoolLoads /\ pgUp
                /\ pool' = TRUE
                /\ UNCHANGED conn
             \/ /\ pool \/ FALSE \in PoolLoads \/ ~pgUp
                /\ conn' = IF pgUp THEN "open" ELSE "none"
                /\ UNCHANGED pool
          /\ useSqlite' = UseSqliteAfter(pgUp)
          /\ pc' = IF pgUp THEN "replay" ELSE "lite"
  /\ UNCHANGED <<pgUp, call, ops, issued, queue, mirror, pg, acked, ambiguous>>

(* What replaySyncLocked does with a write once PostgreSQL has answered: a   *)
(* failed one is kept for the next recovery, or dead-lettered, which itself *)
(* is an INSERT into PostgreSQL whose result is ignored.                    *)
ExhaustedLate(tries) == tries > MAX_REPLAY_RETRIES
Exhausted(tries) == tries >= MAX_REPLAY_RETRIES

DeadLetterOutcomes ==
  IF pgUp' /\ (pool \/ conn' = "open")
  THEN {TRUE} \cup (IF SqlErrors THEN {FALSE} ELSE {})
  ELSE {FALSE}

KeepFirst(item) == remain' = <<[w |-> item.w, retries |-> item.retries + 1]>> \o remain

Keep(item) == remain' = Append(remain, [w |-> item.w, retries |-> item.retries + 1])

DeadLetter(item) ==
  /\ dead' = dead \cup {item.w}
  /\ \E saved \in DeadLetterOutcomes :
       deadTable' = IF saved THEN deadTable \cup {item.w} ELSE deadTable

SettleKeepingAll(o, item) ==
  \/ /\ ~Exhausted(item.retries + 1)
     /\ Keep(item) /\ UNCHANGED <<dead, deadTable>>
  \/ /\ Exhausted(item.retries + 1)
     /\ DeadLetter(item) /\ UNCHANGED remain

SettleKeepingDead(o, item) ==
  \/ o = "ok" /\ UNCHANGED <<remain, dead, deadTable>>
  \/ /\ o # "ok" /\ Keep([item EXCEPT !.retries = 0])
     /\ IF Exhausted(item.retries + 1) THEN DeadLetter(item) ELSE UNCHANGED <<dead, deadTable>>

Settle(o, item) ==
  \/ o = "ok" /\ UNCHANGED <<remain, dead, deadTable>>
  \/ /\ o # "ok" /\ ~Exhausted(item.retries + 1)
     /\ Keep(item) /\ UNCHANGED <<dead, deadTable>>
  \/ /\ o # "ok" /\ Exhausted(item.retries + 1)
     /\ DeadLetter(item) /\ UNCHANGED remain

(* One iteration of replaySyncLocked.                                       *)
ReplayOne ==
  /\ pc = "replay" /\ pending # <<>>
  /\ \E o \in Outcomes : PgStatement(o, Head(pending).w) /\ Settle(o, Head(pending))
  /\ pending' = Tail(pending)
  /\ UNCHANGED <<dropped, lost, useSqlite, retryDue, pc, call, ops, issued, mirror, acked>>

SwapNothing == pending' = <<>>

SwapRemain == pending' = remain      \* pendingSync_.swap(remain)

ReplayEnd ==
  /\ pc = "replay" /\ pending = <<>>
  /\ SwapRemain
  /\ remain' = <<>>
  /\ pc' = "lite"
  /\ UNCHANGED <<server, useSqlite, retryDue, call, ops, issued, dropped, dead, deadTable,
                 lost, mirror, pg, acked, ambiguous>>

(* pendingSyncIfRoom *)
PendingSyncOneOver(w) ==
  IF Len(pending) <= MAX_PENDING
  THEN pending' = Append(pending, [w |-> w, retries |-> 0]) /\ UNCHANGED dropped
  ELSE dropped' = dropped \cup {w} /\ UNCHANGED pending

PendingSyncIfRoom(w) ==
  IF Len(pending) < MAX_PENDING
  THEN pending' = Append(pending, [w |-> w, retries |-> 0]) /\ UNCHANGED dropped
  ELSE dropped' = dropped \cup {w} /\ UNCHANGED pending

(* The end of the SQLite branch: queue the write for PostgreSQL, run the    *)
(* statement on SQLite, return what SQLite said.                            *)
ExecLite ==
  /\ pc = "lite"
  /\ IF call # SELECT THEN PendingSyncIfRoom(call) ELSE UNCHANGED <<pending, dropped>>
  /\ \E r \in LiteOutcomes :
       /\ SqliteStatement(r, call)
       /\ Return(lite /\ r = "ok")
  /\ UNCHANGED <<server, useSqlite, retryDue, ops, issued, remain, dead, deadTable, lost,
                 pg, ambiguous>>

-----------------------------------------------------------------------------
(* OpsCtrl asks ensureConnection, which takes no lock: isConnected is read, *)
(* then reconnect replaces the link and connect clears useSqlite_, whatever *)
(* the call holding mutex_ has done in between.  connect replays nothing.   *)

OpsCheck ==
  /\ ops = "idle"
  /\ ~useSqlite /\ ~pool /\ conn = "none"
  /\ ops' = "reconnect"
  /\ UNCHANGED <<server, useSqlite, retryDue, pc, call, issued, queue, mirror, pg, acked,
                 ambiguous>>

OpsReconnect ==
  /\ ops = "reconnect"
  /\ ops' = "idle"
  /\ \/ pool /\ UNCHANGED <<pool, conn, useSqlite>>               \* the probe succeeds
     \/ /\ ~pool /\ pgUp
        /\ useSqlite' = FALSE
        /\ \/ TRUE \in PoolLoads /\ pool' = TRUE /\ conn' = "none"
           \/ FALSE \in PoolLoads /\ pool' = FALSE /\ conn' = "open"
     \/ /\ ~pgUp
        /\ pool' = FALSE /\ conn' = "none"
        /\ UNCHANGED useSqlite
  /\ UNCHANGED <<pgUp, retryDue, pc, call, issued, queue, mirror, pg, acked, ambiguous>>

-----------------------------------------------------------------------------
(* Start-up (StartupAdvice): connect to PostgreSQL, always open SQLite,     *)
(* fall back to it at once when PostgreSQL did not answer.                  *)
Startup(up, opened) ==
  /\ pgUp' = up
  /\ \/ up /\ TRUE \in PoolLoads /\ pool' = TRUE /\ conn' = "none"
     \/ up /\ FALSE \in PoolLoads /\ pool' = FALSE /\ conn' = "open"
     \/ ~up /\ pool' = FALSE /\ conn' = "none"
  /\ lite' = opened
  /\ useSqlite' = (~up /\ opened)
  /\ retryDue' = ~(~up /\ opened)                  \* activateSqliteFallback: now + 60 s

(* The process ends at any point and is started again: everything that is   *)
(* not in a database is gone.                                               *)
Restart ==
  /\ \E opened \in BOOLEAN :
       /\ LiteErrors \/ opened
       /\ Startup(pgUp, opened)
       /\ intact' = (intact /\ opened)
  /\ pc' = "idle" /\ call' = SELECT /\ ops' = "idle"
  /\ lost' = lost \cup Queued
  /\ pending' = <<>> /\ remain' = <<>>
  /\ UNCHANGED <<issued, pg, sqlite, acked, dropped, dead, deadTable, ambiguous>>

PgDown ==
  /\ pgUp
  /\ pgUp' = FALSE
  /\ conn' = IF conn = "open" THEN "stale" ELSE conn
  /\ UNCHANGED <<pool, useSqlite, retryDue, pc, call, ops, issued, queue, mirror, pg, acked,
                 ambiguous>>

PgUp ==
  /\ ~pgUp
  /\ pgUp' = TRUE
  /\ UNCHANGED <<pool, conn, useSqlite, retryDue, pc, call, ops, issued, queue, mirror, pg,
                 acked, ambiguous>>

RetryTimer ==
  /\ ~retryDue
  /\ retryDue' = TRUE
  /\ UNCHANGED <<server, useSqlite, pc, call, ops, issued, queue, mirror, pg, acked,
                 ambiguous>>

Init ==
  /\ \E up \in BOOLEAN, opened \in BOOLEAN :
       /\ LiteErrors \/ opened
       /\ pgUp = up
       /\ \/ up /\ TRUE \in PoolLoads /\ pool = TRUE /\ conn = "none"
          \/ up /\ FALSE \in PoolLoads /\ pool = FALSE /\ conn = "open"
          \/ ~up /\ pool = FALSE /\ conn = "none"
       /\ lite = opened /\ intact = opened
       /\ useSqlite = (~up /\ opened)
       /\ retryDue = ~(~up /\ opened)
  /\ pc = "idle" /\ call = SELECT /\ ops = "idle" /\ issued = 0
  /\ pending = <<>> /\ remain = <<>>
  /\ pg = {} /\ sqlite = {} /\ acked = {} /\ ambiguous = {}
  /\ dropped = {} /\ dead = {} /\ deadTable = {} /\ lost = {}

Progress == ExecPg \/ TryRecover \/ ReplayOne \/ ReplayEnd \/ ExecLite

Next ==
  \/ \E c \in {SELECT} \cup Write : Call(c)
  \/ Progress
  \/ OpsCheck \/ OpsReconnect
  \/ Restart \/ PgDown \/ PgUp \/ RetryTimer

Spec == Init /\ [][Next]_vars

(* A call that has begun runs to its end; time passes; the scheduler, the   *)
(* health page and the log writers keep issuing queries.  Nothing is        *)
(* assumed of the server, the operations page or new writes.                *)
Fairness == WF_vars(Progress) /\ WF_vars(RetryTimer) /\ WF_vars(Call(SELECT))

FairSpec == Spec /\ Fairness

-----------------------------------------------------------------------------
Item == [w : Write, retries : 0 .. MAX_REPLAY_RETRIES - 1]

(* Every variable has its type; in particular a queued write has failed     *)
(* fewer than MAX_REPLAY_RETRIES times, and only a write that was issued    *)
(* is anywhere.                                                             *)
TypeOK ==
  /\ pgUp \in BOOLEAN /\ pool \in BOOLEAN /\ conn \in {"none", "open", "stale"}
  /\ lite \in BOOLEAN /\ useSqlite \in BOOLEAN /\ retryDue \in BOOLEAN
  /\ intact \in BOOLEAN /\ ops \in {"idle", "reconnect"}
  /\ pending \in Seq(Item) /\ remain \in Seq(Item)
  /\ pc \in {"idle", "pg", "recover", "replay", "lite"}
  /\ call \in {SELECT} \cup Write /\ issued \in {0} \cup Write
  /\ pg \subseteq Write /\ sqlite \subseteq Write
  /\ acked \subseteq Write /\ ambiguous \subseteq Write
  /\ dropped \subseteq Write /\ dead \subseteq Write
  /\ deadTable \subseteq Write /\ lost \subseteq Write

(* A write the caller was told succeeded, or that SQLite holds, is never    *)
(* forgotten silently: PostgreSQL has it, or it waits in pendingSync_, or   *)
(* it was counted in syncDropped_ or syncDead_, or it was queued when the   *)
(* process ended.                                                           *)
NoSilentLoss ==
  acked \cup sqlite \subseteq pg \cup Queued \cup dropped \cup dead \cup lost

(* A write waiting for replay has not been applied by PostgreSQL already,   *)
(* except when the server took it and died before answering: a replay       *)
(* never applies a write twice on its own account.                          *)
NoDoubleReplay == Queued \cap pg \subseteq ambiguous

Increasing(s) == \A i, j \in DOMAIN s : i < j => s[i].w < s[j].w

(* Replays are attempted in the order in which the writes were issued: what *)
(* a pass keeps, what it has still to do, and what callers add later stay   *)
(* in one increasing order, whatever failed in between.                     *)
ReplayInOrder ==
  /\ Increasing(remain)
  /\ Increasing(pending)
  /\ \A v \in Ids(remain), w \in Ids(pending) : v < w

(* pendingSync_ never holds more than MAX_PENDING writes, counting the ones *)
(* a replay in progress has set aside.                                      *)
QueueWithinLimit == Len(pending) + Len(remain) <= MAX_PENDING

(* As long as SQLite has been open and has refused no write, a read served  *)
(* by SQLite after a failover sees every acknowledged write: dual writing   *)
(* has kept the fallback complete.                                          *)
FallbackReadsAcked == useSqlite /\ intact => acked \subseteq sqlite

(* What makes the invariants above inductive: every write is handled once.  *)
(* The write of the call in progress is the newest one and is not yet in    *)
(* any of the places a queued write can end up in, the queue holds no write *)
(* that was given up, and PostgreSQL holds the write of the call in         *)
(* progress only if it took it without saying so.                           *)
GivenUp == dropped \cup dead \cup lost

EachWriteOnce ==
  /\ pc = "idle" => call = SELECT
  /\ call # SELECT => call = issued
  /\ pc # "replay" => remain = <<>>
  /\ \A w \in pg \cup acked \cup Queued \cup GivenUp : w <= issued
  /\ \A w \in Queued \cup GivenUp : w # call
  /\ Queued \cap GivenUp = {}
  /\ call \in pg => call \in ambiguous

IInv == TypeOK /\ NoSilentLoss /\ ReplayInOrder /\ NoDoubleReplay /\ EachWriteOnce

(* The service implements the ledger of WriteLedger.                        *)
StatusOf(w) ==
  IF w \in pg THEN "synced"
  ELSE IF w \in dead THEN "dead"
  ELSE IF w \in dropped THEN "dropped"
  ELSE IF w \in lost THEN "lost"
  ELSE IF w \in Queued THEN "queued" ELSE "none"

WriteStatus == [w \in Write |-> StatusOf(w)]

Ledger == INSTANCE WriteLedger WITH status <- WriteStatus
LedgerSpec == Ledger!Spec

(* Once PostgreSQL stays reachable the service keeps coming back to it.     *)
PgServesAgain == <>[]pgUp => []<>~useSqlite

(* The header's promise: after recovery the writes made offline are         *)
(* synchronised.  With a server that stays up (and, in the run, refuses     *)
(* nothing) the queue is empty again and again.                             *)
SyncsAfterRecovery == <>[]pgUp => []<>(Queued = {})

(* The replay comment's promise: a write given up after MAX_REPLAY_RETRIES  *)
(* is in table sys_sync_dead for an operator to deal with.                  *)
DeadLettersKept == dead \subseteq deadTable
=============================================================================
