---------------------------- MODULE JobScheduler ----------------------------
(***************************************************************************)
(* The cron scheduler (monitor/JobScheduler.h) on several nodes.  Each     *)
(* node's scheduler thread looks at its own job table once a second and    *)
(* starts a detached thread for every job that is due; the thread takes    *)
(* the distributed lock "job:<id>", runs the handler, releases the lock    *)
(* and clears the job's running flag.  The administrator's requests change *)
(* one node's table while threads are on their way.                        *)
(*                                                                         *)
(* mu_ guards the table and is also held by dispatch while a handler runs, *)
(* so on one node nothing that needs mu_ happens during a handler.  Which  *)
(* seconds a cron expression matches is left open: a job may be due in any *)
(* minute, and more than once in it.                                       *)
(***************************************************************************)
EXTENDS DistLock, Sequences

CONSTANTS
  Job,         \* job ids
  Concurrent,  \* the jobs configured to run concurrently
  MaxMinutes,  \* bound on the time
  MaxThreads,  \* bound on the threads started
  Restarts,    \* may a node end and start again?
  AdminActs    \* may the administrator change the jobs?

ASSUME JobSchedulerAssumption ==
  /\ MaxMinutes \in Nat \ {0} /\ MaxThreads \in Nat
  /\ Concurrent \subseteq Job
  /\ Caller = 1 .. MaxThreads /\ Key = Job
  /\ Restarts \in BOOLEAN /\ AdminActs \in BOOLEAN

VARIABLES
  jobs,        \* jobs[n]: the ids in jobs_ on node n
  running,     \* running[n][j]: JobEntry::running
  lastFire,    \* lastFire[n][j]: JobEntry::lastFireMin
  threads,     \* the threads started so far, in order
  enabled,     \* sys_job: the ids with status '0'
  request      \* request[n]: the administrator's request between its two steps

tableVars == <<jobs, running, lastFire>>
adminVars == <<enabled, request>>
vars == <<minute, lockVars, tableVars, threads, adminVars>>

NoRequest == [job |-> 0, act |-> "none"]

Started == 1 .. Len(threads)
Executing(n) == {i \in Started : threads[i].node = n /\ threads[i].pc = "run"}
MuFree(n) == Executing(n) = {}

\* where thread i, at from, goes next
Move(i, from, to) ==
  /\ threads[i].pc = from
  /\ threads' = [threads EXCEPT ![i].pc = to]

Spawn(n, j, kind, pc) ==
  /\ Len(threads) < MaxThreads
  /\ threads' = Append(threads,
       [node |-> n, job |-> j, kind |-> kind, fired |-> minute,
        pc |-> pc, lock |-> "none", ran |-> FALSE])

-----------------------------------------------------------------------------
\* the fingerprint of the minute that a firing is remembered by
CurMinAhead(m) == m + 1
CurMin(m) == m

\* a serial job whose last firing is not over
RunsHandler(n, j) == j \notin Concurrent /\ \E i \in Executing(n) : threads[i].job = j
StillRuns(n, j) == j \notin Concurrent /\ running[n][j]

(* schedulerLoop: a due job that has not been fired this minute is fired,   *)
(* unless it is serial and its last run has not finished.                   *)
Fire(n, j) ==
  /\ MuFree(n) /\ j \in jobs[n]
  /\ lastFire[n][j] # CurMin(minute)
  /\ ~StillRuns(n, j)
  /\ lastFire' = [lastFire EXCEPT ![n][j] = CurMin(minute)]
  /\ running' = [running EXCEPT ![n][j] = TRUE]
  /\ Spawn(n, j, "timed", "lock")
  /\ UNCHANGED <<minute, lockVars, jobs, adminVars>>

(* The detached thread: a failed tryLock goes straight to clearing the flag. *)
RunAnyway(got) == "dispatch"
SkipStaysRunning(got) == IF got = "none" THEN "done" ELSE "dispatch"
AfterTryLock(got) == IF got = "none" THEN "clear" ELSE "dispatch"

Lock(i) ==
  /\ threads[i].pc = "lock"
  /\ \E got \in {"redis", "local", "none"} :
       /\ TryLock(threads[i].node, threads[i].job, i, got)
       /\ threads' = [threads EXCEPT ![i].pc = AfterTryLock(got), ![i].lock = got]
  /\ UNCHANGED <<minute, tableVars, adminVars>>

(* dispatch takes mu_ and keeps it until the handler has returned or thrown. *)
Dispatch(i) ==
  /\ MuFree(threads[i].node)
  /\ threads[i].pc = "dispatch"
  /\ threads' = [threads EXCEPT ![i].pc = "run", ![i].ran = TRUE]
  /\ UNCHANGED <<minute, lockVars, tableVars, adminVars>>

AfterRun(kind) == IF kind = "timed" THEN "unlock" ELSE "done"

HandlerReturns(i) ==
  /\ Move(i, "run", AfterRun(threads[i].kind))
  /\ UNCHANGED <<minute, lockVars, tableVars, adminVars>>

Release(i) ==
  /\ Move(i, "unlock", "clear")
  /\ Unlock(threads[i].node, threads[i].job, i)
  /\ UNCHANGED <<minute, tableVars, adminVars>>

(* if (jobs_.count(jid)) jobs_[jid].running = false, whichever entry that is *)
Clear(i) ==
  LET n == threads[i].node
      j == threads[i].job IN
  /\ MuFree(n)
  /\ Move(i, "clear", "done")
  /\ running' = IF j \in jobs[n] THEN [running EXCEPT ![n][j] = FALSE] ELSE running
  /\ UNCHANGED <<minute, lockVars, jobs, lastFire, adminVars>>

ThreadStep(i) ==
  i \in Started /\ (Lock(i) \/ Dispatch(i) \/ HandlerReturns(i) \/ Release(i) \/ Clear(i))

-----------------------------------------------------------------------------
(* The administrator (SysJobCtrl).  A request updates sys_job and then calls *)
(* the scheduler of the node it reached; changeStatus enables or stops a    *)
(* job, remove deletes it, edit schedules it whatever its status.           *)
UpdatesFirst(act, j) ==
  CASE act = "enable" -> enabled \cup {j}
    [] act = "stop"   -> enabled \ {j}
    [] act = "edit"   -> enabled

Request(n, j, act) ==
  /\ AdminActs
  /\ request[n] = NoRequest
  /\ request' = [request EXCEPT ![n] = [job |-> j, act |-> act]]
  /\ enabled' = UpdatesFirst(act, j)
  /\ UNCHANGED <<minute, lockVars, tableVars, threads>>

(* scheduleJob keeps an entry it finds and makes a fresh one otherwise.      *)
ScheduleJob(n) ==
  /\ MuFree(n)
  /\ request[n] # NoRequest /\ request[n].act \in {"enable", "edit"}
  /\ jobs' = [jobs EXCEPT ![n] = @ \cup {request[n].job}]
  /\ request' = [request EXCEPT ![n] = NoRequest]
  /\ UNCHANGED <<minute, lockVars, enabled, running, lastFire, threads>>

UnscheduleJob(n) ==                               \* the entry is destroyed
  LET j == request[n].job IN
  /\ MuFree(n)
  /\ request[n] # NoRequest /\ request[n].act = "stop"
  /\ jobs' = [jobs EXCEPT ![n] = @ \ {j}]
  /\ running' = [running EXCEPT ![n][j] = FALSE]
  /\ lastFire' = [lastFire EXCEPT ![n][j] = 0]
  /\ request' = [request EXCEPT ![n] = NoRequest]
  /\ UNCHANGED <<minute, lockVars, enabled, threads>>

(* runOnce takes no lock and leaves the table alone.                        *)
RunOnce(n, j) ==
  /\ AdminActs
  /\ Spawn(n, j, "manual", "dispatch")
  /\ UNCHANGED <<minute, lockVars, tableVars, adminVars>>

(* The process ends and init reads the table again (loadFromDb leaves it     *)
(* empty when the query fails): threads, requests, flags and local locks go. *)
Restart(n) ==
  /\ Restarts
  /\ threads' = [i \in Started |->
       IF threads[i].node = n THEN [threads[i] EXCEPT !.pc = "done"] ELSE threads[i]]
  /\ jobs' \in {[jobs EXCEPT ![n] = js] : js \in {enabled, {}}}
  /\ running' = [running EXCEPT ![n] = [j \in Job |-> FALSE]]
  /\ lastFire' = [lastFire EXCEPT ![n] = [j \in Job |-> 0]]
  /\ request' = [request EXCEPT ![n] = NoRequest]
  /\ ForgetLocal(n)
  /\ UNCHANGED <<minute, enabled>>

Rest == UNCHANGED <<tableVars, threads, adminVars>>
PassMinute == minute < MaxMinutes /\ Tick /\ Rest
LeaseEnds == Expire /\ Rest
LinkStep == \E n \in Node : LinkChange(n) /\ Rest

Init ==
  /\ minute = 1
  /\ LockInit
  /\ enabled \in SUBSET Job
  /\ jobs = [n \in Node |-> enabled]
  /\ running = [n \in Node |-> [j \in Job |-> FALSE]]
  /\ lastFire = [n \in Node |-> [j \in Job |-> 0]]
  /\ threads = <<>>
  /\ request = [n \in Node |-> NoRequest]

Next ==
  \/ \E n \in Node, j \in Job : Fire(n, j) \/ RunOnce(n, j)
  \/ \E n \in Node, j \in Job, act \in {"enable", "stop", "edit"} : Request(n, j, act)
  \/ \E n \in Node : ScheduleJob(n) \/ UnscheduleJob(n) \/ Restart(n)
  \/ \E i \in Started : ThreadStep(i)
  \/ PassMinute \/ LeaseEnds \/ LinkStep

Spec == Init /\ [][Next]_vars

(* A handler returns and a thread that may run runs on; nothing is assumed  *)
(* of the scheduler, the clock, the links or the administrator.             *)
Fairness == \A i \in 1 .. MaxThreads : WF_vars(ThreadStep(i))

FairSpec == Spec /\ Fairness

-----------------------------------------------------------------------------
Thread ==
  [node : Node, job : Job, kind : {"timed", "manual"}, fired : 1 .. MaxMinutes,
   pc : {"lock", "dispatch", "run", "unlock", "clear", "done"},
   lock : {"redis", "local", "none"}, ran : BOOLEAN]

(* Every variable has its type, and an entry's last firing is in the past.  *)
TypeOK ==
  /\ LockTypeOK /\ minute \in 1 .. MaxMinutes
  /\ jobs \in [Node -> SUBSET Job] /\ enabled \subseteq Job
  /\ running \in [Node -> [Job -> BOOLEAN]]
  /\ lastFire \in [Node -> [Job -> 0 .. minute]]
  /\ threads \in Seq(Thread) /\ Len(threads) <= MaxThreads
  /\ request \in [Node -> {NoRequest} \cup [job : Job, act : {"enable", "stop", "edit"}]]

(* Thread i is between a successful tryLock and its unlock, and its lease   *)
(* has not run out.                                                         *)
Holds(i, lock) ==
  /\ threads[i].lock = lock /\ i \notin lapsed
  /\ threads[i].pc \in {"dispatch", "run", "unlock"}

(* While a thread holds the lock it is the lock's owner, so no second        *)
(* thread holds it: neither a late unlock of a thread whose lease has run   *)
(* out, nor a lost reply, nor a fall-back and return, takes the lock away.   *)
HolderOwnsLock ==
  \A i \in Started :
    LET n == threads[i].node
        j == threads[i].job IN
    /\ Holds(i, "redis") => i \in By(redis[j])
    /\ Holds(i, "local") => i \in By(local[n][j])

(* Two timed handlers of one job run at the same time only if a lease ran   *)
(* out under one of them, or one of their nodes had lost Redis.             *)
OverlapExplained ==
  \A n, m \in Node : \A i \in Executing(n), k \in Executing(m) :
    /\ threads[i].job = threads[k].job /\ i # k
    /\ threads[i].kind = "timed" /\ threads[k].kind = "timed"
    => {i, k} \cap lapsed # {} \/ "local" \in {threads[i].lock, threads[k].lock}

(* The firings of job j on node n that are not over.                        *)
Open(n, j) ==
  {i \in Started : threads[i].node = n /\ threads[i].job = j
                  /\ threads[i].kind = "timed" /\ threads[i].pc # "done"}

(* A running flag is set only while a firing is open, whose thread clears   *)
(* it: neither the entry's removal and return, nor a restart, nor another   *)
(* thread leaves a flag behind that nobody would clear, which would stop a  *)
(* serial job on this node for good.                                        *)
FlagOwned == \A n \in Node, j \in Job : running[n][j] => Open(n, j) # {}

(* schedulerLoop's comment on the serial mode: a firing is passed over      *)
(* until the last one is over, its wait for the lock and the mutex and its  *)
(* clean-up included.  It holds of the scheduler by itself: stopping and    *)
(* enabling a job makes a new entry, which knows nothing of old firings.    *)
SerialSkips ==
  ~AdminActs => \A n \in Node, j \in Job \ Concurrent : \A i, k \in Open(n, j) : i = k

(* What makes the two invariants about the lock inductive: a Redis key is   *)
(* held by one lease at a time, and a timed thread runs its handler only    *)
(* with the lock.                                                           *)
OneLease == \A j \in Key : \A l, m \in redis[j] : l = m

TimedLocked ==
  \A i \in Started :
    threads[i].kind = "timed" /\ threads[i].pc \in {"dispatch", "run", "unlock"}
      => threads[i].lock # "none"

IInv == TypeOK /\ HolderOwnsLock /\ OneLease /\ TimedLocked

(* A node goes on firing a serial job: its running flag does not stay set,  *)
(* whichever way its thread ends.                                           *)
FlagCleared == \A n \in Node, j \in Job : running[n][j] ~> ~running[n][j]

(* The comment in schedulerLoop: with several nodes a job is executed by     *)
(* one of them only, the lease covering the minute it was fired in.         *)
OneNodePerFiring ==
  \A i, k \in Started :
    /\ threads[i].kind = "timed" /\ threads[k].kind = "timed"
    /\ threads[i].job = threads[k].job /\ threads[i].fired = threads[k].fired
    /\ threads[i].ran /\ threads[k].ran
    => threads[i].node = threads[k].node

(* SysJobCtrl's comment: a stopped job is taken out of the scheduler.  With *)
(* no request on its way, a node's table holds enabled jobs only.           *)
StoppedNotScheduled ==
  (\A n \in Node : request[n] = NoRequest) => \A n \in Node : jobs[n] \subseteq enabled
=============================================================================
