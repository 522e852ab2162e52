------------------------- MODULE JobSchedulerProofs -------------------------
(***************************************************************************)
(* Machine-checked theorems about JobScheduler and the distributed lock it *)
(* uses, for every set of nodes and of jobs, every lease, and every number *)
(* of threads and of minutes.                                              *)
(***************************************************************************)
EXTENDS JobScheduler, SequenceTheorems, TLAPS

-----------------------------------------------------------------------------
(* The threads: what starting one and moving one does to the list.          *)

LEMMA ThreadsTyped ==
  ASSUME TypeOK
  PROVE  /\ Len(threads) \in Nat /\ Started = DOMAIN threads
         /\ \A i \in Started : threads[i] \in Thread
BY LenProperties, ElementOfSeq DEF TypeOK, Started

LEMMA ThreadReplaced ==
  ASSUME TypeOK, NEW i \in Started, NEW t \in Thread, threads' = [threads EXCEPT ![i] = t]
  PROVE  /\ threads' \in Seq(Thread) /\ Len(threads') = Len(threads) /\ Started' = Started
         /\ \A k \in Started : threads'[k] = IF k = i THEN t ELSE threads[k]
BY ExceptSeq DEF TypeOK, Started

LEMMA ThreadMoved ==
  ASSUME TypeOK, NEW i \in Started, NEW from, NEW to \in {"run", "unlock", "clear", "done"},
         Move(i, from, to)
  PROVE  /\ threads' \in Seq(Thread) /\ Len(threads') = Len(threads) /\ Started' = Started
         /\ \A k \in Started :
              threads'[k] = IF k = i THEN [threads[i] EXCEPT !.pc = to] ELSE threads[k]
<1>. DEFINE t == [threads[i] EXCEPT !.pc = to]
<1>1. threads[i] \in Thread
  BY ThreadsTyped
<1>2. t \in Thread
  BY <1>1 DEF Thread
<1>3. threads' = [threads EXCEPT ![i] = t]
  BY DEF Move
<1>. QED BY <1>2, <1>3, ThreadReplaced

LEMMA ThreadSpawned ==
  ASSUME TypeOK, NEW n \in Node, NEW j \in Job, NEW kind \in {"timed", "manual"},
         NEW pc \in {"lock", "dispatch"}, Spawn(n, j, kind, pc)
  PROVE  /\ threads' \in Seq(Thread) /\ Len(threads') <= MaxThreads
         /\ \A k \in Started' :
              \/ k \in Started /\ threads'[k] = threads[k]
              \/ threads'[k].kind = kind /\ threads'[k].pc = pc /\ threads'[k].lock = "none"
<1>. DEFINE t == [node |-> n, job |-> j, kind |-> kind, fired |-> minute,
                  pc |-> pc, lock |-> "none", ran |-> FALSE]
<1>1. t \in Thread
  BY DEF TypeOK, Thread
<1>2. threads \in Seq(Thread) /\ threads' = Append(threads, t) /\ Len(threads) < MaxThreads
  BY DEF TypeOK, Spawn
<1>3. threads' \in Seq(Thread) /\ Len(threads') = Len(threads) + 1
  BY <1>1, <1>2
<1>4. \A k \in Started' : (k \in Started /\ threads'[k] = threads[k]) \/ threads'[k] = t
  BY <1>2, <1>3 DEF Started
<1>5. Len(threads') <= MaxThreads
  BY <1>2, <1>3, ThreadsTyped, JobSchedulerAssumption
<1>6. t.kind = kind /\ t.pc = pc /\ t.lock = "none"
  OBVIOUS
<1>. HIDE DEF t
<1>. QED
  BY <1>3, <1>4, <1>5, <1>6

-----------------------------------------------------------------------------
(* Type correctness, one lemma per part of the state.                       *)

LEMMA TypeInit == Init => TypeOK
<1>. SUFFICES ASSUME Init PROVE TypeOK
  OBVIOUS
<1>1. LockTypeOK
  BY DEF Init, LockInit, LockTypeOK
<1>2. threads \in Seq(Thread) /\ Len(threads) <= MaxThreads
  BY JobSchedulerAssumption DEF Init
<1>3. /\ minute \in 1 .. MaxMinutes
      /\ lastFire \in [Node -> [Job -> 0 .. minute]]
  BY JobSchedulerAssumption DEF Init
<1>. QED BY <1>1, <1>2, <1>3 DEF Init, TypeOK

LEMMA NestedUpdate ==
  ASSUME NEW A, NEW B, NEW C, NEW f \in [A -> [B -> C]], NEW a \in A, NEW b \in B, NEW c \in C
  PROVE  [f EXCEPT ![a][b] = c] \in [A -> [B -> C]]
<1>. DEFINE row == [f[a] EXCEPT ![b] = c]
            Rows == [B -> C]
<1>1. f[a] \in Rows /\ row \in Rows
  OBVIOUS
<1>. HIDE DEF row, Rows
<1>2. [f EXCEPT ![a] = row] \in [A -> Rows]
  BY <1>1 DEF Rows
<1>. QED BY <1>2 DEF row, Rows

LEMMA LocalUpdated ==
  ASSUME LockTypeOK, NEW n \in Node, NEW k \in Key, NEW leases \in SUBSET Lease
  PROVE  [local EXCEPT ![n][k] = leases] \in [Node -> [Key -> SUBSET Lease]]
BY NestedUpdate DEF LockTypeOK

LEMMA LocalLeases ==
  ASSUME LockTypeOK, NEW n \in Node, NEW k \in Key
  PROVE  local[n][k] \in SUBSET Lease
<1>1. local[n] \in [Key -> SUBSET Lease]
  BY DEF LockTypeOK
<1>. QED BY <1>1

\* What a lock operation leaves of the lock's state is well typed.
LEMMA TypeTryLock ==
  ASSUME TypeOK, NEW n \in Node, NEW k \in Key, NEW i \in Caller, NEW got,
         TryLock(n, k, i, got), UNCHANGED minute
  PROVE  LockTypeOK'
<1>. DEFINE taken == [redis EXCEPT ![k] = {Mine(i)}]
<1>1. Mine(i) \in Lease
  BY DEF TypeOK, LockTypeOK, Mine, Lease
<1>2. redis' \in [Key -> SUBSET Lease]
  <2>1. redis' = redis \/ redis' = taken
    BY DEF TryLock
  <2>2. taken \in [Key -> SUBSET Lease]
    BY <1>1 DEF TypeOK, LockTypeOK
  <2>3. QED BY <2>1, <2>2 DEF TypeOK, LockTypeOK
<1>3. local' \in [Node -> [Key -> SUBSET Lease]]
  <2>. DEFINE mine == {Mine(i)}
  <2>1. UNCHANGED local \/ local' = [local EXCEPT ![n][k] = mine]
    BY DEF TryLock, LocalLock
  <2>2. mine \in SUBSET Lease
    BY <1>1
  <2>3. [local EXCEPT ![n][k] = mine] \in [Node -> [Key -> SUBSET Lease]]
    BY <2>2, LocalUpdated DEF TypeOK
  <2>. HIDE DEF mine
  <2>4. QED BY <2>1, <2>3 DEF TypeOK, LockTypeOK
<1>4. reach' \in [Node -> BOOLEAN] /\ lapsed' \subseteq Caller
  BY DEF TypeOK, LockTypeOK, TryLock
<1>. QED BY <1>2, <1>3, <1>4 DEF TypeOK, LockTypeOK

LEMMA TypeUnlock ==
  ASSUME TypeOK, NEW n \in Node, NEW k \in Key, NEW i \in Caller,
         Unlock(n, k, i), UNCHANGED minute
  PROVE  LockTypeOK'
<1>1. redis' \in [Key -> SUBSET Lease]
  <2>. DEFINE rest == {l \in redis[k] : l.by # i}
  <2>1. UNCHANGED redis \/ redis' = [redis EXCEPT ![k] = rest]
    BY DEF Unlock, CompareAndDelete
  <2>2. rest \in SUBSET Lease
    BY DEF TypeOK, LockTypeOK
  <2>. HIDE DEF rest
  <2>3. QED BY <2>1, <2>2 DEF TypeOK, LockTypeOK
<1>2. local' \in [Node -> [Key -> SUBSET Lease]]
  <2>. DEFINE rest == {l \in local[n][k] : l.by # i}
  <2>1. UNCHANGED local \/ local' = [local EXCEPT ![n][k] = rest]
    BY DEF Unlock
  <2>2. rest \in SUBSET Lease
    BY LocalLeases DEF TypeOK
  <2>3. [local EXCEPT ![n][k] = rest] \in [Node -> [Key -> SUBSET Lease]]
    BY <2>2, LocalUpdated DEF TypeOK
  <2>. HIDE DEF rest
  <2>4. QED BY <2>1, <2>3 DEF TypeOK, LockTypeOK
<1>3. reach' \in [Node -> BOOLEAN] /\ lapsed' \subseteq Caller
  BY DEF TypeOK, LockTypeOK, Unlock
<1>. QED BY <1>1, <1>2, <1>3 DEF TypeOK, LockTypeOK

LEMMA TypeExpire == ASSUME TypeOK, Expire PROVE LockTypeOK' /\ minute' = minute
<1>1. ASSUME NEW leases \in SUBSET Lease PROVE By(leases) \subseteq Caller
  BY <1>1 DEF By, Lease
<1>2. CASE \E k \in Key :
             /\ redis' = [redis EXCEPT ![k] = {}]
             /\ lapsed' = lapsed \cup By(redis[k])
             /\ UNCHANGED <<minute, reach, local>>
  <2>1. PICK k \in Key : /\ redis' = [redis EXCEPT ![k] = {}]
                         /\ lapsed' = lapsed \cup By(redis[k])
    BY <1>2
  <2>2. By(redis[k]) \subseteq Caller
    BY <1>1 DEF TypeOK, LockTypeOK
  <2>3. QED BY <1>2, <2>1, <2>2 DEF TypeOK, LockTypeOK
<1>3. CASE \E n \in Node, k \in Key :
             /\ local' = [local EXCEPT ![n][k] = {}]
             /\ lapsed' = lapsed \cup By(local[n][k])
             /\ UNCHANGED <<minute, reach, redis>>
  <2>1. PICK n \in Node, k \in Key : /\ local' = [local EXCEPT ![n][k] = {}]
                                     /\ lapsed' = lapsed \cup By(local[n][k])
    BY <1>3
  <2>2. By(local[n][k]) \subseteq Caller
    BY <1>1, LocalLeases DEF TypeOK
  <2>3. {} \in SUBSET Lease
    OBVIOUS
  <2>4. QED BY <1>3, <2>1, <2>2, <2>3, LocalUpdated DEF TypeOK, LockTypeOK
<1>. QED BY <1>2, <1>3 DEF Expire

LEMMA TypeFire ==
  ASSUME TypeOK, NEW n \in Node, NEW j \in Job, Fire(n, j)
  PROVE  TypeOK'
<1>1. threads' \in Seq(Thread) /\ Len(threads') <= MaxThreads
  BY ThreadSpawned DEF Fire
<1>2. running' \in [Node -> [Job -> BOOLEAN]]
  BY NestedUpdate DEF TypeOK, Fire
<1>3. lastFire' \in [Node -> [Job -> 0 .. minute]]
  <2>1. minute \in 0 .. minute
    BY DEF TypeOK, LockTypeOK
  <2>2. QED BY <2>1, NestedUpdate DEF TypeOK, Fire, CurMin
<1>. QED
  BY <1>1, <1>2, <1>3 DEF TypeOK, LockTypeOK, Fire, lockVars, adminVars

LEMMA TypeThread ==
  ASSUME TypeOK, NEW i \in Started, ThreadStep(i)
  PROVE  TypeOK'
<1>1. threads[i] \in Thread /\ i \in Caller
  BY ThreadsTyped, JobSchedulerAssumption DEF TypeOK, Started
<1>2. threads[i].node \in Node /\ threads[i].job \in Job /\ Key = Job
  BY <1>1, JobSchedulerAssumption DEF Thread
<1>3. CASE Lock(i)
  <2>1. PICK got \in {"redis", "local", "none"} :
          /\ TryLock(threads[i].node, threads[i].job, i, got)
          /\ threads' = [threads EXCEPT ![i].pc = AfterTryLock(got), ![i].lock = got]
    BY <1>3 DEF Lock
  <2>. DEFINE t == [threads[i] EXCEPT !.pc = AfterTryLock(got), !.lock = got]
  <2>2. t \in Thread
    BY <1>1 DEF Thread, AfterTryLock
  <2>3. threads' = [threads EXCEPT ![i] = t]
    BY <2>1
  <2>4. threads' \in Seq(Thread) /\ Len(threads') = Len(threads)
    BY <2>2, <2>3, ThreadReplaced
  <2>5. LockTypeOK'
    BY <1>1, <1>2, <1>3, <2>1, TypeTryLock DEF Lock
  <2>6. QED BY <1>3, <2>4, <2>5 DEF TypeOK, Lock, tableVars, adminVars
<1>4. CASE Dispatch(i)
  <2>. DEFINE t == [threads[i] EXCEPT !.pc = "run", !.ran = TRUE]
  <2>1. t \in Thread
    BY <1>1 DEF Thread
  <2>2. threads' = [threads EXCEPT ![i] = t]
    BY <1>4 DEF Dispatch
  <2>3. threads' \in Seq(Thread) /\ Len(threads') = Len(threads)
    BY <2>1, <2>2, ThreadReplaced
  <2>4. QED
    BY <1>4, <2>3 DEF TypeOK, LockTypeOK, Dispatch, lockVars, tableVars, adminVars
<1>5. CASE HandlerReturns(i)
  <2>1. threads' \in Seq(Thread) /\ Len(threads') = Len(threads)
    BY <1>5, ThreadMoved DEF HandlerReturns, AfterRun
  <2>2. QED
    BY <1>5, <2>1 DEF TypeOK, LockTypeOK, HandlerReturns, lockVars, tableVars, adminVars
<1>6. CASE Release(i)
  <2>1. threads' \in Seq(Thread) /\ Len(threads') = Len(threads)
    BY <1>6, ThreadMoved DEF Release
  <2>2. LockTypeOK'
    BY <1>1, <1>2, <1>6, TypeUnlock DEF Release
  <2>3. QED BY <1>6, <2>1, <2>2 DEF TypeOK, Release, tableVars, adminVars
<1>7. CASE Clear(i)
  <2>1. threads' \in Seq(Thread) /\ Len(threads') = Len(threads)
    BY <1>7, ThreadMoved DEF Clear
  <2>2. running' \in [Node -> [Job -> BOOLEAN]]
    BY <1>2, <1>7, NestedUpdate DEF TypeOK, Clear
  <2>3. QED BY <1>7, <2>1, <2>2 DEF TypeOK, LockTypeOK, Clear, lockVars, adminVars
<1>. QED BY <1>3, <1>4, <1>5, <1>6, <1>7 DEF ThreadStep

LEMMA TypeAdmin ==
  ASSUME TypeOK, NEW n \in Node,
         \/ \E j \in Job, act \in {"enable", "stop", "edit"} : Request(n, j, act)
         \/ \E j \in Job : RunOnce(n, j)
         \/ ScheduleJob(n) \/ UnscheduleJob(n)
  PROVE  TypeOK'
<1>1. ASSUME NEW j \in Job, NEW act \in {"enable", "stop", "edit"}, Request(n, j, act)
      PROVE  TypeOK'
  <2>1. enabled' \subseteq Job
    BY <1>1 DEF TypeOK, Request, UpdatesFirst
  <2>2. QED BY <1>1, <2>1 DEF TypeOK, LockTypeOK, Request, lockVars, tableVars
<1>2. ASSUME NEW j \in Job, RunOnce(n, j) PROVE TypeOK'
  <2>1. threads' \in Seq(Thread) /\ Len(threads') <= MaxThreads
    BY <1>2, ThreadSpawned DEF RunOnce
  <2>2. QED BY <1>2, <2>1 DEF TypeOK, LockTypeOK, RunOnce, lockVars, tableVars, adminVars
<1>3. request[n] # NoRequest => request[n].job \in Job
  BY DEF TypeOK
<1>4. CASE ScheduleJob(n)
  BY <1>3, <1>4 DEF TypeOK, LockTypeOK, ScheduleJob, lockVars
<1>5. CASE UnscheduleJob(n)
  <2>1. request[n].job \in Job
    BY <1>3, <1>5 DEF UnscheduleJob
  <2>2. running' \in [Node -> [Job -> BOOLEAN]]
    BY <1>5, <2>1, NestedUpdate DEF TypeOK, UnscheduleJob
  <2>3. lastFire' \in [Node -> [Job -> 0 .. minute]]
    <3>1. 0 \in 0 .. minute
      BY DEF TypeOK, LockTypeOK
    <3>2. QED BY <1>5, <2>1, <3>1, NestedUpdate DEF TypeOK, UnscheduleJob
  <2>4. jobs' \in [Node -> SUBSET Job]
    BY <1>5 DEF TypeOK, UnscheduleJob
  <2>5. QED BY <1>5, <2>2, <2>3, <2>4 DEF TypeOK, LockTypeOK, UnscheduleJob, lockVars
<1>. QED BY <1>1, <1>2, <1>4, <1>5

\* The threads after a restart of n: the same, n's being done.
LEMMA ThreadsRestarted ==
  ASSUME TypeOK, NEW n \in Node, Restart(n)
  PROVE  /\ threads' \in Seq(Thread) /\ Len(threads') = Len(threads) /\ Started' = Started
         /\ \A k \in Started :
              threads'[k] = IF threads[k].node = n THEN [threads[k] EXCEPT !.pc = "done"]
                            ELSE threads[k]
<1>1. Len(threads) \in Nat /\ \A i \in Started : threads[i] \in Thread
  BY ThreadsTyped
<1>2. threads' \in [1 .. Len(threads) -> Thread]
  BY <1>1 DEF Restart, Started, Thread
<1>3. threads' \in Seq(Thread)
  BY <1>1, <1>2, SeqDef
<1>4. Len(threads') = Len(threads)
  BY <1>1, <1>2, <1>3, LenProperties
<1>. QED BY <1>3, <1>4 DEF Restart, Started

LEMMA TypeEnvironment ==
  ASSUME TypeOK,
         \/ \E n \in Node : Restart(n)
         \/ PassMinute \/ LeaseEnds \/ LinkStep \/ UNCHANGED vars
  PROVE  TypeOK'
<1>1. ASSUME NEW n \in Node, Restart(n) PROVE TypeOK'
  <2>1. threads' \in Seq(Thread) /\ Len(threads') <= MaxThreads
    BY <1>1, ThreadsRestarted DEF TypeOK
  <2>2. jobs' \in [Node -> SUBSET Job]
    <3>1. PICK js \in {enabled, {}} : jobs' = [jobs EXCEPT ![n] = js]
      BY <1>1 DEF Restart
    <3>2. js \subseteq Job
      BY DEF TypeOK
    <3>3. QED BY <3>1, <3>2 DEF TypeOK
  <2>3. LockTypeOK'
    BY <1>1 DEF TypeOK, LockTypeOK, Restart, ForgetLocal
  <2>4. running' \in [Node -> [Job -> BOOLEAN]] /\ lastFire' \in [Node -> [Job -> 0 .. minute]]
    BY <1>1 DEF TypeOK, LockTypeOK, Restart
  <2>5. QED BY <1>1, <2>1, <2>2, <2>3, <2>4 DEF TypeOK, Restart
<1>2. CASE PassMinute
  <2>1. minute' \in 1 .. MaxMinutes /\ minute \in Nat /\ minute' = minute + 1
    BY <1>2, JobSchedulerAssumption DEF TypeOK, LockTypeOK, PassMinute, Tick
  <2>2. 0 .. minute \subseteq 0 .. minute'
    BY <2>1
  <2>3. lastFire' \in [Node -> [Job -> 0 .. minute']]
    BY <1>2, <2>2 DEF TypeOK, PassMinute, Rest, tableVars
  <2>4. LockTypeOK'
    BY <1>2, <2>1 DEF TypeOK, LockTypeOK, PassMinute, Tick, lockVars
  <2>5. QED
    BY <1>2, <2>1, <2>3, <2>4 DEF TypeOK, PassMinute, Rest, tableVars, adminVars
<1>3. CASE LeaseEnds
  BY <1>3, TypeExpire DEF TypeOK, LeaseEnds, Rest, tableVars, adminVars
<1>4. CASE LinkStep
  BY <1>4 DEF TypeOK, LockTypeOK, LinkStep, LinkChange, Rest, tableVars, adminVars
<1>5. CASE UNCHANGED vars
  BY <1>5 DEF TypeOK, LockTypeOK, vars, lockVars, tableVars, adminVars
<1>. QED BY <1>1, <1>2, <1>3, <1>4, <1>5

LEMMA TypeStep == TypeOK /\ [Next]_vars => TypeOK'
BY TypeFire, TypeAdmin, TypeThread, TypeEnvironment DEF Next

(* The type invariant of the scheduler holds in every run; in particular an *)
(* entry never remembers a firing that lies in the future.                  *)
THEOREM SchedulerTyped == Spec => []TypeOK
BY TypeInit, TypeStep, PTL DEF Spec

-----------------------------------------------------------------------------
(* The lock.  A step leaves each thread in one of three positions: its      *)
(* lease, if it has one, is carried over; it has no part in the lock; or it *)
(* has just acquired the lock.                                              *)

InLock == {"dispatch", "run", "unlock"}

Carried(i) ==
  LET n == threads[i].node
      j == threads[i].job IN
  /\ i \in Started
  /\ threads'[i].node = n /\ threads'[i].job = j
  /\ threads'[i].kind = threads[i].kind /\ threads'[i].lock = threads[i].lock
  /\ threads'[i].pc \in InLock => threads[i].pc \in InLock
  /\ threads'[i].pc \in InLock /\ i \notin lapsed' =>
       /\ i \notin lapsed
       /\ i \in By(redis[j]) => i \in By(redis'[j])
       /\ i \in By(local[n][j]) => i \in By(local'[n][j])

Apart(i) ==
  \/ threads'[i].pc \notin InLock
  \/ threads'[i].kind = "manual" /\ threads'[i].lock = "none"

Acquired(i) ==
  LET n == threads'[i].node
      j == threads'[i].job IN
  \/ threads'[i].lock = "redis" /\ i \in By(redis'[j])
  \/ threads'[i].lock = "local" /\ i \in By(local'[n][j])

LEMMA LocksKept ==
  ASSUME IInv, \A i \in Started' : Carried(i) \/ Apart(i) \/ Acquired(i)
  PROVE  HolderOwnsLock' /\ TimedLocked'
<1>1. ASSUME NEW i \in Started', Carried(i)
      PROVE  /\ Holds(i, "redis")' => i \in By(redis'[threads'[i].job])
             /\ Holds(i, "local")' => i \in By(local'[threads'[i].node][threads'[i].job])
             /\ threads'[i].kind = "timed" /\ threads'[i].pc \in InLock
                  => threads'[i].lock # "none"
  BY <1>1 DEF Carried, Holds, IInv, HolderOwnsLock, TimedLocked, InLock
<1>2. ASSUME NEW i \in Started', Apart(i)
      PROVE  /\ ~Holds(i, "redis")' /\ ~Holds(i, "local")'
             /\ ~(threads'[i].kind = "timed" /\ threads'[i].pc \in InLock)
  BY <1>2 DEF Apart, Holds, InLock
<1>3. ASSUME NEW i \in Started', Acquired(i)
      PROVE  /\ Holds(i, "redis")' => i \in By(redis'[threads'[i].job])
             /\ Holds(i, "local")' => i \in By(local'[threads'[i].node][threads'[i].job])
             /\ threads'[i].lock # "none"
  BY <1>3 DEF Acquired, Holds
<1>. QED BY <1>1, <1>2, <1>3 DEF HolderOwnsLock, TimedLocked, InLock

LEMMA LockInitially == Init => HolderOwnsLock /\ OneLease /\ TimedLocked
BY DEF Init, LockInit, HolderOwnsLock, OneLease, TimedLocked, Started

\* A lock of another caller survives tryLock, and what tryLock grants is held.
LEMMA TryLockSound ==
  ASSUME LockTypeOK, NEW n \in Node, NEW k \in Key, NEW i \in Caller,
         NEW got, TryLock(n, k, i, got)
  PROVE  /\ \A j \in Key : By(redis[j]) \subseteq By(redis'[j])
         /\ \A m \in Node, j \in Key : By(local[m][j]) \subseteq By(local'[m][j])
         /\ got = "redis" => i \in By(redis'[k])
         /\ got = "local" => i \in By(local'[n][k])
         /\ OneLease => OneLease'
<1>. DEFINE mine == {Mine(i)}
<1>1. By({}) = {} /\ i \in By(mine)
  BY DEF By, Mine
<1>2. \/ UNCHANGED redis /\ got # "redis"
      \/ redis[k] = {} /\ redis' = [redis EXCEPT ![k] = mine]
  BY DEF TryLock, LocalLock
<1>3. \/ UNCHANGED local /\ got # "local"
      \/ local[n][k] = {} /\ local' = [local EXCEPT ![n][k] = mine]
  BY DEF TryLock, LocalLock
<1>4. \A l, m \in mine : l = m
  OBVIOUS
<1>. HIDE DEF mine
<1>5. /\ \A j \in Key : By(redis[j]) \subseteq By(redis'[j])
      /\ got = "redis" => i \in By(redis'[k])
  BY <1>1, <1>2 DEF LockTypeOK
<1>6. ASSUME NEW m \in Node, NEW j \in Key
      PROVE  /\ By(local[m][j]) \subseteq By(local'[m][j])
             /\ got = "local" => i \in By(local'[n][k])
  <2>1. local[n] \in [Key -> SUBSET Lease] /\ local \in [Node -> [Key -> SUBSET Lease]]
    BY DEF LockTypeOK
  <2>2. QED BY <1>1, <1>3, <2>1
<1>7. OneLease => OneLease'
  BY <1>2, <1>4, JobSchedulerAssumption DEF LockTypeOK, OneLease
<1>. QED BY <1>5, <1>6, <1>7

\* A lock of another caller survives unlock.
LEMMA UnlockSound ==
  ASSUME LockTypeOK, NEW n \in Node, NEW k \in Key, NEW i \in Caller,
         Unlock(n, k, i)
  PROVE  /\ \A j \in Key : By(redis[j]) \ {i} \subseteq By(redis'[j])
         /\ \A m \in Node, j \in Key : By(local[m][j]) \ {i} \subseteq By(local'[m][j])
         /\ OneLease => OneLease'
<1>. DEFINE kept(leases) == {l \in leases : l.by # i}
<1>1. ASSUME NEW leases PROVE By(leases) \ {i} \subseteq By(kept(leases))
  BY DEF By
<1>2. UNCHANGED redis \/ redis' = [redis EXCEPT ![k] = kept(redis[k])]
  BY DEF Unlock, CompareAndDelete
<1>3. UNCHANGED local \/ local' = [local EXCEPT ![n][k] = kept(local[n][k])]
  BY DEF Unlock
<1>4. kept(redis[k]) \subseteq redis[k]
  OBVIOUS
<1>. HIDE DEF kept
<1>5. \A j \in Key : By(redis[j]) \ {i} \subseteq By(redis'[j])
  BY <1>1, <1>2 DEF LockTypeOK
<1>6. ASSUME NEW m \in Node, NEW j \in Key
      PROVE  By(local[m][j]) \ {i} \subseteq By(local'[m][j])
  <2>1. local[n] \in [Key -> SUBSET Lease] /\ local \in [Node -> [Key -> SUBSET Lease]]
    BY DEF LockTypeOK
  <2>2. QED BY <1>1, <1>3, <2>1
<1>7. OneLease => OneLease'
  BY <1>2, <1>4, JobSchedulerAssumption DEF LockTypeOK, OneLease
<1>. QED BY <1>5, <1>6, <1>7

\* What runs out is recorded in lapsed.
LEMMA ExpireSound ==
  ASSUME LockTypeOK, Expire
  PROVE  /\ lapsed \subseteq lapsed'
         /\ \A j \in Key : By(redis[j]) \subseteq By(redis'[j]) \cup lapsed'
         /\ \A m \in Node, j \in Key : By(local[m][j]) \subseteq By(local'[m][j]) \cup lapsed'
         /\ OneLease => OneLease'
<1>1. CASE \E k \in Key : /\ redis' = [redis EXCEPT ![k] = {}]
                         /\ lapsed' = lapsed \cup By(redis[k])
                         /\ UNCHANGED <<minute, reach, local>>
  BY <1>1, JobSchedulerAssumption DEF LockTypeOK, OneLease
<1>2. CASE \E n \in Node, k \in Key : /\ local' = [local EXCEPT ![n][k] = {}]
                                      /\ lapsed' = lapsed \cup By(local[n][k])
                                      /\ UNCHANGED <<minute, reach, redis>>
  <2>1. PICK n \in Node, k \in Key : /\ local' = [local EXCEPT ![n][k] = {}]
                                     /\ lapsed' = lapsed \cup By(local[n][k])
    BY <1>2
  <2>2. local[n] \in [Key -> SUBSET Lease] /\ local \in [Node -> [Key -> SUBSET Lease]]
    BY DEF LockTypeOK
  <2>3. \A m \in Node, j \in Key : By(local[m][j]) \subseteq By(local'[m][j]) \cup lapsed'
    BY <2>1, <2>2
  <2>4. QED BY <1>2, <2>1, <2>3 DEF OneLease
<1>. QED BY <1>1, <1>2 DEF Expire

LEMMA LockThread ==
  ASSUME IInv, NEW i \in Started, ThreadStep(i)
  PROVE  HolderOwnsLock' /\ OneLease' /\ TimedLocked'
<1>1. TypeOK /\ LockTypeOK /\ OneLease
  BY DEF IInv, TypeOK
<1>2. \A k \in Started : threads[k] \in Thread
  BY <1>1, ThreadsTyped
<1>3. i \in Caller /\ Key = Job
  BY <1>1, ThreadsTyped, JobSchedulerAssumption DEF TypeOK, Started
<1>4. CASE Lock(i)
  <2>1. PICK got \in {"redis", "local", "none"} :
          /\ TryLock(threads[i].node, threads[i].job, i, got)
          /\ threads' = [threads EXCEPT ![i].pc = AfterTryLock(got), ![i].lock = got]
    BY <1>4 DEF Lock
  <2>. DEFINE t == [threads[i] EXCEPT !.pc = AfterTryLock(got), !.lock = got]
  <2>2. t \in Thread
    BY <1>2 DEF Thread, AfterTryLock
  <2>3. threads' = [threads EXCEPT ![i] = t]
    BY <2>1
  <2>4. Started' = Started /\ \A k \in Started : threads'[k] = IF k = i THEN t ELSE threads[k]
    BY <1>1, <2>2, <2>3, ThreadReplaced
  <2>5. threads[i].node \in Node /\ threads[i].job \in Key
    BY <1>2, <1>3 DEF Thread
  <2>6. /\ \A j \in Key : By(redis[j]) \subseteq By(redis'[j])
        /\ \A m \in Node, j \in Key : By(local[m][j]) \subseteq By(local'[m][j])
        /\ got = "redis" => i \in By(redis'[threads[i].job])
        /\ got = "local" => i \in By(local'[threads[i].node][threads[i].job])
        /\ OneLease'
    BY <1>1, <1>3, <2>1, <2>5, TryLockSound
  <2>7. lapsed' = lapsed
    BY <2>1 DEF TryLock
  <2>8. ASSUME NEW k \in Started, k # i PROVE Carried(k)
    BY <1>2, <1>3, <2>4, <2>6, <2>7, <2>8 DEF Carried, Thread
  <2>9. Apart(i) \/ Acquired(i)
    <3>1. threads'[i] = t
      BY <2>4
    <3>2. t.lock = got /\ t.pc = AfterTryLock(got)
          /\ t.node = threads[i].node /\ t.job = threads[i].job
      BY <1>2 DEF Thread
    <3>3. QED BY <2>6, <3>1, <3>2 DEF Apart, Acquired, AfterTryLock, InLock
  <2>10. QED BY <2>4, <2>6, <2>8, <2>9, LocksKept
<1>5. CASE Release(i)
  <2>1. Started' = Started /\ \A k \in Started :
          threads'[k] = IF k = i THEN [threads[i] EXCEPT !.pc = "clear"] ELSE threads[k]
    BY <1>1, <1>5, ThreadMoved DEF Release
  <2>2. threads[i].node \in Node /\ threads[i].job \in Key
    BY <1>2, <1>3 DEF Thread
  <2>3. /\ \A j \in Key : By(redis[j]) \ {i} \subseteq By(redis'[j])
        /\ \A m \in Node, j \in Key : By(local[m][j]) \ {i} \subseteq By(local'[m][j])
        /\ OneLease'
    BY <1>1, <1>3, <1>5, <2>2, UnlockSound DEF Release
  <2>4. lapsed' = lapsed
    BY <1>5 DEF Release, Unlock
  <2>5. ASSUME NEW k \in Started, k # i PROVE Carried(k)
    BY <1>2, <1>3, <2>1, <2>3, <2>4, <2>5 DEF Carried, Thread
  <2>6. Apart(i)
    BY <1>2, <2>1 DEF Apart, InLock, Thread
  <2>7. QED BY <2>1, <2>3, <2>5, <2>6, LocksKept
<1>6. ASSUME UNCHANGED <<redis, local, lapsed>>,
             Dispatch(i) \/ HandlerReturns(i) \/ Clear(i)
      PROVE  HolderOwnsLock' /\ OneLease' /\ TimedLocked'
  <2>1. OneLease'
    BY <1>1, <1>6 DEF OneLease
  <2>2. CASE Dispatch(i)
    <3>. DEFINE t == [threads[i] EXCEPT !.pc = "run", !.ran = TRUE]
    <3>1. t \in Thread
      BY <1>2 DEF Thread
    <3>2. threads' = [threads EXCEPT ![i] = t]
      BY <2>2 DEF Dispatch
    <3>3. Started' = Started /\ \A k \in Started : threads'[k] = IF k = i THEN t ELSE threads[k]
      BY <1>1, <3>1, <3>2, ThreadReplaced
    <3>4. /\ t.node = threads[i].node /\ t.job = threads[i].job
          /\ t.kind = threads[i].kind /\ t.lock = threads[i].lock
          /\ threads[i].pc \in InLock
      BY <1>2, <2>2 DEF Thread, Dispatch, InLock
    <3>. HIDE DEF t
    <3>5. \A k \in Started : Carried(k)
      BY <1>6, <3>3, <3>4 DEF Carried
    <3>6. QED BY <2>1, <3>3, <3>5, LocksKept
  <2>3. ASSUME NEW to \in {"unlock", "done"}, NEW from \in {"run", "clear"}, Move(i, from, to),
               from = "clear" => to = "done"
        PROVE  HolderOwnsLock' /\ TimedLocked'
    <3>. DEFINE t == [threads[i] EXCEPT !.pc = to]
    <3>1. Started' = Started /\ \A k \in Started : threads'[k] = IF k = i THEN t ELSE threads[k]
      <4>1. t \in Thread
        BY <1>2 DEF Thread
      <4>2. threads' = [threads EXCEPT ![i] = t]
        BY <2>3 DEF Move
      <4>3. QED BY <1>1, <4>1, <4>2, ThreadReplaced
    <3>2. /\ t.node = threads[i].node /\ t.job = threads[i].job
          /\ t.kind = threads[i].kind /\ t.lock = threads[i].lock
          /\ t.pc \in InLock => threads[i].pc \in InLock
      BY <1>2, <2>3 DEF Thread, Move, InLock
    <3>. HIDE DEF t
    <3>3. \A k \in Started : Carried(k)
      BY <1>6, <3>1, <3>2 DEF Carried
    <3>4. QED BY <3>1, <3>3, LocksKept
  <2>4. QED BY <1>6, <2>1, <2>2, <2>3 DEF HandlerReturns, Clear, AfterRun
<1>. QED
  BY <1>4, <1>5, <1>6 DEF ThreadStep, Dispatch, HandlerReturns, Clear, lockVars

LEMMA LockStep == ASSUME IInv, Next PROVE HolderOwnsLock' /\ OneLease' /\ TimedLocked'
<1>1. TypeOK /\ LockTypeOK /\ OneLease
  BY DEF IInv, TypeOK
<1>2. \A k \in Started : threads[k].node \in Node /\ threads[k].job \in Key
  BY <1>1, ThreadsTyped, JobSchedulerAssumption DEF Thread
<1>3. ASSUME NEW n \in Node, NEW j \in Job, Fire(n, j) \/ RunOnce(n, j)
      PROVE  HolderOwnsLock' /\ OneLease' /\ TimedLocked'
  <2>1. UNCHANGED <<redis, local, lapsed>>
    BY <1>3 DEF Fire, RunOnce, lockVars
  <2>2. PICK kind \in {"timed", "manual"}, pc \in {"lock", "dispatch"} :
          Spawn(n, j, kind, pc) /\ (kind = "manual" \/ pc = "lock")
    BY <1>3 DEF Fire, RunOnce
  <2>3. \A k \in Started' :
          \/ k \in Started /\ threads'[k] = threads[k]
          \/ threads'[k].kind = kind /\ threads'[k].pc = pc /\ threads'[k].lock = "none"
    BY <1>1, <2>2, ThreadSpawned
  <2>4. \A k \in Started' : Carried(k) \/ Apart(k)
    BY <2>1, <2>2, <2>3 DEF Carried, Apart, InLock
  <2>5. OneLease'
    BY <1>1, <2>1 DEF OneLease
  <2>6. QED BY <2>4, <2>5, LocksKept
<1>4. ASSUME UNCHANGED <<threads, redis, local, lapsed>>
      PROVE  HolderOwnsLock' /\ OneLease' /\ TimedLocked'
  BY <1>4 DEF IInv, HolderOwnsLock, OneLease, TimedLocked, Holds, Started
<1>5. ASSUME NEW n \in Node, Restart(n)
      PROVE  HolderOwnsLock' /\ OneLease' /\ TimedLocked'
  <2>1. /\ UNCHANGED <<redis, lapsed>>
        /\ local' = [local EXCEPT ![n] = [k \in Key |-> {}]]
    BY <1>5 DEF Restart, ForgetLocal
  <2>2. Started' = Started /\ \A k \in Started :
          threads'[k] = IF threads[k].node = n THEN [threads[k] EXCEPT !.pc = "done"]
                        ELSE threads[k]
    BY <1>1, <1>5, ThreadsRestarted
  <2>3. ASSUME NEW k \in Started PROVE Carried(k) \/ Apart(k)
    <3>1. CASE threads[k].node = n
      <4>1. threads[k] \in Thread
        BY <1>1, ThreadsTyped
      <4>2. threads'[k].pc = "done"
        BY <2>2, <3>1, <4>1 DEF Thread
      <4>3. QED BY <4>2 DEF Apart, InLock
    <3>2. CASE threads[k].node # n
      <4>1. local'[threads[k].node] = local[threads[k].node]
        BY <1>1, <1>2, <2>1, <3>2 DEF LockTypeOK
      <4>2. QED BY <2>1, <2>2, <3>2, <4>1 DEF Carried
    <3>3. QED BY <3>1, <3>2
  <2>4. OneLease'
    BY <1>1, <2>1 DEF OneLease
  <2>5. QED BY <2>2, <2>3, <2>4, LocksKept
<1>6. CASE LeaseEnds
  <2>1. UNCHANGED threads /\ Expire
    BY <1>6 DEF LeaseEnds, Rest
  <2>2. /\ lapsed \subseteq lapsed' /\ OneLease'
        /\ \A j \in Key : By(redis[j]) \subseteq By(redis'[j]) \cup lapsed'
        /\ \A m \in Node, j \in Key : By(local[m][j]) \subseteq By(local'[m][j]) \cup lapsed'
    BY <1>1, <2>1, ExpireSound
  <2>3. Started' = Started
    BY <2>1 DEF Started
  <2>4. \A k \in Started : Carried(k)
    BY <1>2, <2>1, <2>2 DEF Carried
  <2>5. QED BY <2>2, <2>3, <2>4, LocksKept
<1>7. ASSUME NEW n \in Node,
             \/ \E j \in Job, act \in {"enable", "stop", "edit"} : Request(n, j, act)
             \/ ScheduleJob(n) \/ UnscheduleJob(n)
      PROVE  UNCHANGED <<threads, redis, local, lapsed>>
  BY <1>7 DEF Request, ScheduleJob, UnscheduleJob, lockVars
<1>8. PassMinute \/ LinkStep => UNCHANGED <<threads, redis, local, lapsed>>
  BY DEF PassMinute, Tick, LinkStep, LinkChange, Rest, lockVars
<1>. QED BY <1>3, <1>4, <1>5, <1>6, <1>7, <1>8, LockThread DEF Next

LEMMA LockInductive == IInv /\ [Next]_vars => IInv'
<1>. SUFFICES ASSUME IInv, [Next]_vars PROVE IInv'
  OBVIOUS
<1>1. TypeOK'
  BY TypeStep DEF IInv
<1>2. CASE Next
  BY <1>1, <1>2, LockStep DEF IInv
<1>3. CASE UNCHANGED vars
  <2>1. UNCHANGED <<threads, redis, local, lapsed>>
    BY <1>3 DEF vars, lockVars
  <2>2. QED BY <1>1, <2>1 DEF IInv, HolderOwnsLock, OneLease, TimedLocked, Holds, Started
<1>. QED BY <1>2, <1>3

(* The inductive invariant: ownership of the lock, the uniqueness of a      *)
(* Redis lease, and that a timed handler runs with the lock only.           *)
THEOREM LockInvariance == Spec => []IInv
<1>1. Init => IInv
  BY TypeInit, LockInitially DEF IInv
<1>. QED BY <1>1, LockInductive, PTL DEF Spec

(* Until its lease runs out a thread that was granted the lock is its owner, *)
(* whatever is lost, restarted or unlocked late.                            *)
THEOREM HolderIsOwner == Spec => []HolderOwnsLock
BY LockInvariance, PTL DEF IInv

LEMMA OverlapFromOwnership == IInv => OverlapExplained
<1>. SUFFICES ASSUME IInv, NEW n \in Node, NEW m \in Node,
                     NEW i \in Executing(n), NEW k \in Executing(m),
                     threads[i].job = threads[k].job, i # k,
                     threads[i].kind = "timed", threads[k].kind = "timed",
                     i \notin lapsed, k \notin lapsed,
                     threads[i].lock # "local", threads[k].lock # "local"
              PROVE  FALSE
  BY DEF OverlapExplained
<1>1. i \in Started /\ k \in Started /\ threads[i].pc = "run" /\ threads[k].pc = "run"
  BY DEF Executing
<1>2. threads[i] \in Thread /\ threads[k] \in Thread
  BY <1>1, ThreadsTyped DEF IInv
<1>3. threads[i].lock = "redis" /\ threads[k].lock = "redis"
  BY <1>1, <1>2 DEF IInv, TimedLocked, Thread
<1>4. i \in By(redis[threads[i].job]) /\ k \in By(redis[threads[i].job])
  BY <1>1, <1>3 DEF IInv, HolderOwnsLock, Holds
<1>5. threads[i].job \in Job
  BY <1>2 DEF Thread
<1>6. PICK l \in redis[threads[i].job], h \in redis[threads[i].job] : l.by = i /\ h.by = k
  BY <1>4 DEF By
<1>7. redis[threads[i].job] \in SUBSET Lease /\ l = h
  BY <1>5, JobSchedulerAssumption DEF IInv, OneLease, TypeOK, LockTypeOK
<1>. QED BY <1>6, <1>7

(* Two timed runs of a job overlap only when a lease has run out under one  *)
(* of them or one of them holds a node's own lock instead of Redis's.       *)
THEOREM OverlapsExplained == Spec => []OverlapExplained
BY LockInvariance, OverlapFromOwnership, PTL

-----------------------------------------------------------------------------
(* The firings of a job on a node, and its running flag.                    *)

FlagListed == \A n \in Node, j \in Job : running[n][j] => j \in jobs[n]

\* a manual run takes no lock and clears no flag
ManualApart ==
  \A i \in Started : threads[i].kind = "manual" => threads[i].pc \in {"dispatch", "run", "done"}

\* what a step makes of the firings of j on n and of the flag
Same(n, j) == Open(n, j)' = Open(n, j) /\ running'[n][j] = running[n][j]

Fired(n, j) ==
  /\ \E i : Open(n, j)' = Open(n, j) \cup {i}
  /\ running'[n][j]
  /\ j \in Concurrent \/ ~running[n][j]

Ended(n, j) ==
  /\ \E i \in Open(n, j) : Open(n, j)' = Open(n, j) \ {i}
  /\ ~running'[n][j]

Lost(n, j) == Open(n, j)' = {} /\ ~running'[n][j]

Removed(n, j) == Open(n, j)' = Open(n, j) /\ ~running'[n][j] /\ request[n] # NoRequest

Outcome(n, j) == Same(n, j) \/ Fired(n, j) \/ Ended(n, j) \/ Lost(n, j) \/ Removed(n, j)

LEMMA NestedRead ==
  ASSUME NEW A, NEW B, NEW C, NEW f \in [A -> [B -> C]], NEW a \in A, NEW b \in B, NEW c \in C,
         NEW x \in A, NEW y \in B
  PROVE  [f EXCEPT ![a][b] = c][x][y] = IF x = a /\ y = b THEN c ELSE f[x][y]
<1>. DEFINE row == [f[a] EXCEPT ![b] = c]
<1>1. f[a] \in [B -> C] /\ f[x] \in [B -> C]
  OBVIOUS
<1>2. row[y] = IF y = b THEN c ELSE f[a][y]
  BY <1>1
<1>. HIDE DEF row
<1>3. [f EXCEPT ![a] = row][x] = IF x = a THEN row ELSE f[x]
  OBVIOUS
<1>. QED BY <1>2, <1>3 DEF row

\* an open firing stays one unless its thread is done
LEMMA OpenKept ==
  ASSUME Started' = Started, NEW n, NEW j,
         \A k \in Started :
           /\ threads'[k].node = threads[k].node /\ threads'[k].job = threads[k].job
           /\ threads'[k].kind = threads[k].kind
           /\ threads[k].kind = "timed" => (threads'[k].pc = "done" <=> threads[k].pc = "done")
  PROVE  Open(n, j)' = Open(n, j)
BY DEF Open

LEMMA FireOutcome ==
  ASSUME TypeOK, NEW m \in Node, NEW h \in Job, Fire(m, h), NEW n \in Node, NEW j \in Job
  PROVE  Same(n, j) \/ Fired(n, j)
<1>. DEFINE i == Len(threads) + 1
            t == [node |-> m, job |-> h, kind |-> "timed", fired |-> minute,
                  pc |-> "lock", lock |-> "none", ran |-> FALSE]
<1>1. threads \in Seq(Thread) /\ Len(threads) \in Nat
  BY ThreadsTyped DEF TypeOK
<1>2. t \in Thread
  BY DEF TypeOK, Thread
<1>3. threads' = Append(threads, t)
  BY DEF Fire, Spawn
<1>4. /\ Started' = Started \cup {i}
      /\ \A k \in Started : threads'[k] = threads[k]
      /\ threads'[i] = t
  <2>1. /\ Len(threads') = Len(threads) + 1 /\ threads'[Len(threads) + 1] = t
        /\ \A k \in 1 .. Len(threads) : threads'[k] = threads[k]
    BY <1>1, <1>2, <1>3, AppendProperties
  <2>. QED BY <1>1, <2>1 DEF Started
<1>5. t.node = m /\ t.job = h /\ t.kind = "timed" /\ t.pc = "lock"
  OBVIOUS
<1>. HIDE DEF i, t
<1>6. Open(n, j)' = IF n = m /\ j = h THEN Open(n, j) \cup {i} ELSE Open(n, j)
  BY <1>4, <1>5 DEF Open
<1>7. running'[n][j] = IF n = m /\ j = h THEN TRUE ELSE running[n][j]
  BY NestedRead DEF TypeOK, Fire
<1>. QED BY <1>6, <1>7 DEF Same, Fired, Fire, StillRuns

LEMMA RunOnceOutcome ==
  ASSUME TypeOK, NEW m \in Node, NEW h \in Job, RunOnce(m, h), NEW n \in Node, NEW j \in Job
  PROVE  Same(n, j)
<1>1. \A k \in Started' :
        \/ k \in Started /\ threads'[k] = threads[k]
        \/ threads'[k].kind = "manual"
  BY ThreadSpawned DEF RunOnce
<1>2. \A k \in Started : k \in Started' /\ threads'[k] = threads[k]
  <2>1. threads \in Seq(Thread) /\ Len(threads) \in Nat
    BY ThreadsTyped DEF TypeOK
  <2>. DEFINE t == [node |-> m, job |-> h, kind |-> "manual", fired |-> minute,
                    pc |-> "dispatch", lock |-> "none", ran |-> FALSE]
  <2>2. t \in Thread
    BY DEF TypeOK, Thread
  <2>3. threads' = Append(threads, t)
    BY DEF RunOnce, Spawn
  <2>. HIDE DEF t
  <2>4. /\ Len(threads') = Len(threads) + 1
        /\ \A k \in 1 .. Len(threads) : threads'[k] = threads[k]
    BY <2>1, <2>2, <2>3, AppendProperties
  <2>. QED BY <2>1, <2>4 DEF Started
<1>3. Open(n, j)' = Open(n, j)
  BY <1>1, <1>2 DEF Open
<1>. QED BY <1>3 DEF Same, RunOnce, tableVars

\* what a step of a thread makes of the thread
LEMMA ThreadGoesOn ==
  ASSUME TypeOK, NEW i \in Started, ThreadStep(i)
  PROVE  /\ Started' = Started /\ \A k \in Started \ {i} : threads'[k] = threads[k]
         /\ threads'[i].node = threads[i].node /\ threads'[i].job = threads[i].job
         /\ threads'[i].kind = threads[i].kind
         /\ threads[i].pc # "done"
         /\ threads'[i].pc = "done" <=> Clear(i) \/ (HandlerReturns(i) /\ threads[i].kind # "timed")
         /\ threads[i].kind = "manual" /\ threads[i].pc \in {"dispatch", "run"}
              => threads'[i].pc \in {"run", "done"}
<1>1. threads[i] \in Thread
  BY ThreadsTyped
<1>2. CASE Lock(i)
  <2>1. PICK got \in {"redis", "local", "none"} :
          threads' = [threads EXCEPT ![i].pc = AfterTryLock(got), ![i].lock = got]
    BY <1>2 DEF Lock
  <2>. DEFINE t == [threads[i] EXCEPT !.pc = AfterTryLock(got), !.lock = got]
  <2>2. t \in Thread /\ t.pc \in {"clear", "dispatch"}
        /\ t.node = threads[i].node /\ t.job = threads[i].job /\ t.kind = threads[i].kind
    BY <1>1 DEF Thread, AfterTryLock
  <2>3. threads' = [threads EXCEPT ![i] = t]
    BY <2>1
  <2>. HIDE DEF t
  <2>4. Started' = Started /\ \A k \in Started : threads'[k] = IF k = i THEN t ELSE threads[k]
    BY <2>2, <2>3, ThreadReplaced
  <2>. QED BY <1>2, <2>2, <2>4 DEF Lock, Clear, HandlerReturns, Move
<1>3. CASE Dispatch(i)
  <2>. DEFINE t == [threads[i] EXCEPT !.pc = "run", !.ran = TRUE]
  <2>1. t \in Thread /\ t.pc = "run"
        /\ t.node = threads[i].node /\ t.job = threads[i].job /\ t.kind = threads[i].kind
    BY <1>1 DEF Thread
  <2>2. threads' = [threads EXCEPT ![i] = t]
    BY <1>3 DEF Dispatch
  <2>. HIDE DEF t
  <2>3. Started' = Started /\ \A k \in Started : threads'[k] = IF k = i THEN t ELSE threads[k]
    BY <2>1, <2>2, ThreadReplaced
  <2>. QED BY <1>3, <2>1, <2>3 DEF Dispatch, Clear, HandlerReturns, Move
<1>4. ASSUME NEW from, NEW to \in {"run", "unlock", "clear", "done"}, Move(i, from, to)
      PROVE  /\ Started' = Started /\ \A k \in Started \ {i} : threads'[k] = threads[k]
             /\ threads'[i].node = threads[i].node /\ threads'[i].job = threads[i].job
             /\ threads'[i].kind = threads[i].kind /\ threads'[i].pc = to
  <2>. DEFINE t == [threads[i] EXCEPT !.pc = to]
  <2>1. t \in Thread /\ t.pc = to
        /\ t.node = threads[i].node /\ t.job = threads[i].job /\ t.kind = threads[i].kind
    BY <1>1 DEF Thread
  <2>2. threads' = [threads EXCEPT ![i] = t]
    BY <1>4 DEF Move
  <2>. HIDE DEF t
  <2>3. Started' = Started /\ \A k \in Started : threads'[k] = IF k = i THEN t ELSE threads[k]
    BY <2>1, <2>2, ThreadReplaced
  <2>. QED BY <2>1, <2>3
<1>5. CASE HandlerReturns(i)
  <2>1. Move(i, "run", AfterRun(threads[i].kind)) /\ threads[i].pc = "run"
    BY <1>5 DEF HandlerReturns, Move
  <2>2. AfterRun(threads[i].kind) \in {"run", "unlock", "clear", "done"}
    BY DEF AfterRun
  <2>. QED BY <1>4, <1>5, <2>1, <2>2 DEF Clear, Move, AfterRun
<1>6. CASE Release(i)
  <2>1. Move(i, "unlock", "clear") /\ threads[i].pc = "unlock"
    BY <1>6 DEF Release, Move
  <2>. QED BY <1>4, <2>1 DEF Clear, HandlerReturns, Move
<1>7. CASE Clear(i)
  <2>1. Move(i, "clear", "done") /\ threads[i].pc = "clear"
    BY <1>7 DEF Clear, Move
  <2>. QED BY <1>4, <1>7, <2>1
<1>. QED BY <1>2, <1>3, <1>5, <1>6, <1>7 DEF ThreadStep

LEMMA ThreadOutcome ==
  ASSUME TypeOK, FlagListed, ManualApart, NEW i \in Started, ThreadStep(i), NEW n \in Node, NEW j \in Job
  PROVE  Same(n, j) \/ Ended(n, j)
<1>1. /\ Started' = Started /\ \A k \in Started \ {i} : threads'[k] = threads[k]
      /\ threads'[i].node = threads[i].node /\ threads'[i].job = threads[i].job
      /\ threads'[i].kind = threads[i].kind
      /\ threads[i].pc # "done"
      /\ threads'[i].pc = "done" <=> Clear(i) \/ (HandlerReturns(i) /\ threads[i].kind # "timed")
  BY ThreadGoesOn
<1>2. threads[i].node \in Node /\ threads[i].job \in Job
  BY ThreadsTyped DEF Thread
<1>3. CASE ~Clear(i)
  <2>1. Open(n, j)' = Open(n, j)
    BY <1>1, <1>3 DEF Open
  <2>2. running' = running
    BY <1>3 DEF ThreadStep, Lock, Dispatch, HandlerReturns, Release, tableVars
  <2>. QED BY <2>1, <2>2 DEF Same
<1>4. CASE Clear(i) /\ ~(n = threads[i].node /\ j = threads[i].job)
  <2>1. Open(n, j)' = Open(n, j)
    BY <1>1, <1>4 DEF Open
  <2>2. running'[n][j] = running[n][j]
    BY <1>2, <1>4, NestedRead DEF Clear, TypeOK
  <2>. QED BY <2>1, <2>2 DEF Same
<1>5. CASE Clear(i) /\ n = threads[i].node /\ j = threads[i].job
  <2>1. ~running'[n][j]
    <3>1. CASE j \in jobs[n]
      BY <1>2, <1>5, <3>1, NestedRead DEF Clear, TypeOK
    <3>2. CASE j \notin jobs[n]
      BY <1>5, <3>2 DEF Clear, FlagListed
    <3>. QED BY <3>1, <3>2
  <2>2. CASE threads[i].kind = "timed"
    <3>1. i \in Open(n, j) /\ Open(n, j)' = Open(n, j) \ {i}
      BY <1>1, <1>5, <2>2 DEF Open
    <3>. QED BY <2>1, <3>1 DEF Ended
  <2>3. CASE threads[i].kind # "timed"
    <3>1. threads[i].kind = "manual" /\ threads[i].pc = "clear"
      BY <1>5, <2>3, ThreadsTyped DEF Clear, Move, Thread
    <3>. QED BY <3>1 DEF ManualApart
  <2>. QED BY <2>2, <2>3
<1>. QED BY <1>3, <1>4, <1>5

LEMMA RestartOutcome ==
  ASSUME TypeOK, NEW m \in Node, Restart(m), NEW n \in Node, NEW j \in Job
  PROVE  Same(n, j) \/ Lost(n, j)
<1>1. /\ Started' = Started
      /\ \A k \in Started : threads[k] \in Thread /\
            threads'[k] = IF threads[k].node = m THEN [threads[k] EXCEPT !.pc = "done"]
                          ELSE threads[k]
  BY ThreadsRestarted, ThreadsTyped
<1>2. \A k \in Started :
        /\ threads'[k].node = threads[k].node
        /\ threads[k].node = m => threads'[k].pc = "done"
        /\ threads[k].node # m => threads'[k] = threads[k]
  BY <1>1 DEF Thread
<1>3. CASE n = m
  <2>1. Open(n, j)' = {}
    BY <1>1, <1>2, <1>3 DEF Open
  <2>2. ~running'[n][j]
    BY <1>3 DEF Restart, TypeOK
  <2>. QED BY <2>1, <2>2 DEF Lost
<1>4. CASE n # m
  <2>1. Open(n, j)' = Open(n, j)
    BY <1>1, <1>2, <1>4 DEF Open
  <2>2. running'[n][j] = running[n][j]
    BY <1>4 DEF Restart, TypeOK
  <2>. QED BY <2>1, <2>2 DEF Same
<1>. QED BY <1>3, <1>4

LEMMA AdminOutcome ==
  ASSUME TypeOK, NEW m \in Node,
         \/ \E h \in Job, act \in {"enable", "stop", "edit"} : Request(m, h, act)
         \/ ScheduleJob(m) \/ UnscheduleJob(m),
         NEW n \in Node, NEW j \in Job
  PROVE  Same(n, j) \/ Removed(n, j)
<1>1. UNCHANGED threads
  BY DEF Request, ScheduleJob, UnscheduleJob
<1>2. Open(n, j)' = Open(n, j)
  BY <1>1 DEF Open, Started
<1>3. CASE UNCHANGED running
  BY <1>2, <1>3 DEF Same
<1>4. CASE UnscheduleJob(m)
  <2>1. request[m] # NoRequest /\ request[m].job \in Job
    BY <1>4 DEF UnscheduleJob, TypeOK
  <2>2. running'[n][j] = IF n = m /\ j = request[m].job THEN FALSE ELSE running[n][j]
    BY <1>4, <2>1, NestedRead DEF UnscheduleJob, TypeOK
  <2>. QED BY <1>2, <2>1, <2>2 DEF Same, Removed
<1>. QED BY <1>3, <1>4 DEF Request, ScheduleJob, tableVars

\* Every step leaves the firings of a job on a node and its flag alone, adds
\* a firing and sets the flag, or ends firings and clears it.
LEMMA StepOutcome ==
  ASSUME TypeOK, FlagListed, ManualApart, [Next]_vars, NEW n \in Node, NEW j \in Job
  PROVE  Outcome(n, j)
<1>1. ASSUME UNCHANGED <<threads, running>> PROVE Same(n, j)
  BY <1>1 DEF Same, Open, Started
<1>2. UNCHANGED vars \/ PassMinute \/ LeaseEnds \/ LinkStep => UNCHANGED <<threads, running>>
  BY DEF vars, PassMinute, LeaseEnds, LinkStep, Rest, tableVars
<1>. QED
  BY <1>1, <1>2, FireOutcome, RunOnceOutcome, ThreadOutcome, RestartOutcome, AdminOutcome
  DEF Next, Outcome

-----------------------------------------------------------------------------
(* The inductive invariant, and its parts.                                  *)

LEMMA ListedStep == ASSUME TypeOK, FlagListed, [Next]_vars PROVE FlagListed'
<1>. SUFFICES ASSUME NEW n \in Node, NEW j \in Job, running'[n][j] PROVE j \in jobs'[n]
  BY DEF FlagListed
<1>1. ASSUME NEW m \in Node, NEW h \in Job, Fire(m, h) PROVE j \in jobs'[n]
  <2>1. running'[n][j] = IF n = m /\ j = h THEN TRUE ELSE running[n][j]
    BY <1>1, NestedRead DEF TypeOK, Fire
  <2>. QED BY <1>1, <2>1 DEF Fire, FlagListed
<1>2. ASSUME NEW i \in Started, ThreadStep(i) PROVE j \in jobs'[n]
  <2>1. UNCHANGED jobs
    BY <1>2 DEF ThreadStep, Lock, Dispatch, HandlerReturns, Release, Clear, tableVars
  <2>2. PICK m \in Node, h \in Job : m = threads[i].node /\ h = threads[i].job
    BY ThreadsTyped DEF Thread
  <2>3. UNCHANGED running \/ running' = [running EXCEPT ![m][h] = FALSE]
    BY <1>2, <2>2 DEF ThreadStep, Lock, Dispatch, HandlerReturns, Release, Clear, tableVars
  <2>4. running[n][j]
    <3>1. CASE running' = [running EXCEPT ![m][h] = FALSE]
      <4>1. running'[n][j] = IF n = m /\ j = h THEN FALSE ELSE running[n][j]
        BY <3>1, NestedRead DEF TypeOK
      <4>. QED BY <4>1
    <3>. QED BY <2>3, <3>1
  <2>. QED BY <2>1, <2>4 DEF FlagListed
<1>3. ASSUME NEW m \in Node, ScheduleJob(m) PROVE j \in jobs'[n]
  BY <1>3 DEF ScheduleJob, FlagListed, TypeOK
<1>4. ASSUME NEW m \in Node, UnscheduleJob(m) PROVE j \in jobs'[n]
  <2>1. request[m].job \in Job
    BY <1>4 DEF UnscheduleJob, TypeOK
  <2>2. running'[n][j] = IF n = m /\ j = request[m].job THEN FALSE ELSE running[n][j]
    BY <1>4, <2>1, NestedRead DEF UnscheduleJob, TypeOK
  <2>. QED BY <1>4, <2>2 DEF UnscheduleJob, FlagListed, TypeOK
<1>5. ASSUME NEW m \in Node, Restart(m) PROVE j \in jobs'[n]
  <2>1. PICK js : jobs' = [jobs EXCEPT ![m] = js]
    BY <1>5 DEF Restart
  <2>2. n # m /\ running[n][j]
    BY <1>5 DEF Restart, TypeOK
  <2>. QED BY <2>1, <2>2 DEF FlagListed, TypeOK
<1>6. CASE UNCHANGED <<jobs, running>>
  BY <1>6 DEF FlagListed
<1>7. /\ \A m \in Node, h \in Job : RunOnce(m, h) => UNCHANGED <<jobs, running>>
      /\ \A m \in Node, h \in Job, act \in {"enable", "stop", "edit"} :
           Request(m, h, act) => UNCHANGED <<jobs, running>>
  BY DEF RunOnce, Request, tableVars
<1>8. UNCHANGED vars \/ PassMinute \/ LeaseEnds \/ LinkStep => UNCHANGED <<jobs, running>>
  BY DEF vars, PassMinute, LeaseEnds, LinkStep, Rest, tableVars
<1>. QED BY <1>1, <1>2, <1>3, <1>4, <1>5, <1>6, <1>7, <1>8 DEF Next

LEMMA ManualStep == ASSUME TypeOK, ManualApart, [Next]_vars PROVE ManualApart'
<1>1. ASSUME NEW m \in Node, NEW h \in Job, Fire(m, h) \/ RunOnce(m, h) PROVE ManualApart'
  <2>1. PICK kind \in {"timed", "manual"}, pc \in {"lock", "dispatch"} :
          Spawn(m, h, kind, pc) /\ (kind = "manual" => pc = "dispatch")
    BY <1>1 DEF Fire, RunOnce
  <2>2. \A k \in Started' :
          \/ k \in Started /\ threads'[k] = threads[k]
          \/ threads'[k].kind = kind /\ threads'[k].pc = pc
    BY <2>1, ThreadSpawned
  <2>. QED BY <2>1, <2>2 DEF ManualApart
<1>2. ASSUME NEW i \in Started, ThreadStep(i) PROVE ManualApart'
  <2>1. /\ Started' = Started /\ \A k \in Started \ {i} : threads'[k] = threads[k]
        /\ threads'[i].kind = threads[i].kind /\ threads[i].pc # "done"
        /\ threads[i].kind = "manual" /\ threads[i].pc \in {"dispatch", "run"}
             => threads'[i].pc \in {"run", "done"}
    BY <1>2, ThreadGoesOn
  <2>. QED BY <2>1 DEF ManualApart
<1>3. ASSUME NEW m \in Node, Restart(m) PROVE ManualApart'
  <2>1. /\ Started' = Started
        /\ \A k \in Started : threads[k] \in Thread /\
              threads'[k] = IF threads[k].node = m THEN [threads[k] EXCEPT !.pc = "done"]
                            ELSE threads[k]
    BY <1>3, ThreadsRestarted, ThreadsTyped
  <2>2. \A k \in Started : threads'[k].kind = threads[k].kind
                           /\ (threads'[k].pc = "done" \/ threads'[k].pc = threads[k].pc)
    BY <2>1 DEF Thread
  <2>. QED BY <2>1, <2>2 DEF ManualApart
<1>4. CASE UNCHANGED threads
  BY <1>4 DEF ManualApart, Started
<1>5. /\ \A m \in Node : ScheduleJob(m) \/ UnscheduleJob(m) => UNCHANGED threads
      /\ \A m \in Node, h \in Job, act \in {"enable", "stop", "edit"} :
           Request(m, h, act) => UNCHANGED threads
  BY DEF ScheduleJob, UnscheduleJob, Request
<1>6. UNCHANGED vars \/ PassMinute \/ LeaseEnds \/ LinkStep => UNCHANGED threads
  BY DEF vars, PassMinute, LeaseEnds, LinkStep, Rest
<1>. QED BY <1>1, <1>2, <1>3, <1>4, <1>5, <1>6 DEF Next

\* a serial job whose flag is clear has no firing on its way
SerialFlagged ==
  \A n \in Node, j \in Job \ Concurrent : Open(n, j) # {} => running[n][j]
NobodyAsks == \A n \in Node : request[n] = NoRequest
ByItself == ~AdminActs => SerialFlagged /\ NobodyAsks

FlagInv == TypeOK /\ FlagListed /\ ManualApart /\ FlagOwned /\ SerialSkips /\ ByItself

LEMMA AsksStep == ASSUME TypeOK, ~AdminActs, NobodyAsks, [Next]_vars PROVE NobodyAsks'
<1>1. ASSUME NEW m \in Node, Restart(m) PROVE NobodyAsks'
  BY <1>1 DEF Restart, NobodyAsks, TypeOK
<1>2. CASE UNCHANGED request
  BY <1>2 DEF NobodyAsks
<1>3. /\ \A m \in Node : ~ScheduleJob(m) /\ ~UnscheduleJob(m)
      /\ \A m \in Node, h \in Job, act \in {"enable", "stop", "edit"} : ~Request(m, h, act)
  BY DEF Request, ScheduleJob, UnscheduleJob, NobodyAsks
<1>4. \A m \in Node, h \in Job : Fire(m, h) \/ RunOnce(m, h) => UNCHANGED request
  BY DEF Fire, RunOnce, adminVars
<1>5. \A i \in Started : ThreadStep(i) => UNCHANGED request
  BY DEF ThreadStep, Lock, Dispatch, HandlerReturns, Release, Clear, adminVars
<1>6. UNCHANGED vars \/ PassMinute \/ LeaseEnds \/ LinkStep => UNCHANGED request
  BY DEF vars, PassMinute, LeaseEnds, LinkStep, Rest, adminVars
<1>. QED BY <1>1, <1>2, <1>3, <1>4, <1>5, <1>6 DEF Next

LEMMA FlagStep == ASSUME FlagInv, [Next]_vars PROVE FlagInv'
<1>1. TypeOK' /\ FlagListed' /\ ManualApart'
  BY TypeStep, ListedStep, ManualStep DEF FlagInv
<1>2. \A n \in Node, j \in Job : Outcome(n, j)
  BY StepOutcome DEF FlagInv
<1>3. FlagOwned'
  <2>1. ASSUME NEW n \in Node, NEW j \in Job, running'[n][j] PROVE Open(n, j)' # {}
    <3>1. running[n][j] => Open(n, j) # {}
      BY DEF FlagInv, FlagOwned
    <3>2. Same(n, j) \/ Fired(n, j)
      BY <1>2, <2>1 DEF Outcome, Ended, Lost, Removed
    <3>. QED BY <2>1, <3>1, <3>2 DEF Same, Fired
  <2>. QED BY <2>1 DEF FlagOwned
<1>4. ASSUME ~AdminActs PROVE NobodyAsks'
  BY <1>4, AsksStep DEF FlagInv, ByItself
<1>5. ASSUME ~AdminActs, NEW n \in Node, NEW j \in Job \ Concurrent
      PROVE  /\ Open(n, j)' # {} => running'[n][j]
             /\ \A i, k \in Open(n, j)' : i = k
  <2>1. /\ Open(n, j) # {} => running[n][j]
        /\ \A i, k \in Open(n, j) : i = k
        /\ request[n] = NoRequest
    BY <1>5 DEF FlagInv, ByItself, SerialFlagged, NobodyAsks, SerialSkips
  <2>2. Same(n, j) \/ Fired(n, j) \/ Ended(n, j) \/ Lost(n, j)
    BY <1>2, <2>1 DEF Outcome, Removed
  <2>3. CASE Fired(n, j)
    BY <1>5, <2>1, <2>3 DEF Fired
  <2>. QED BY <2>1, <2>2, <2>3 DEF Same, Ended, Lost
<1>6. SerialSkips' /\ ByItself'
  BY <1>4, <1>5 DEF SerialSkips, ByItself, SerialFlagged
<1>. QED BY <1>1, <1>3, <1>6 DEF FlagInv

LEMMA FlagInit == Init => FlagInv
<1>. SUFFICES ASSUME Init PROVE FlagInv
  OBVIOUS
<1>1. Started = {}
  BY DEF Init, Started
<1>2. \A n \in Node, j \in Job : Open(n, j) = {} /\ ~running[n][j]
  BY <1>1 DEF Open, Init
<1>3. NobodyAsks
  BY DEF Init, NobodyAsks
<1>. QED
  BY <1>1, <1>2, <1>3, TypeInit
  DEF FlagInv, FlagListed, ManualApart, FlagOwned, SerialSkips, ByItself, SerialFlagged

(* A running flag is set only while a firing is on its way that will clear  *)
(* it, whatever the administrator removes and restores, and whatever is     *)
(* lost or restarted: no serial job is passed over for a run that is gone.  *)
THEOREM FlagsOwned == Spec => []FlagOwned
BY FlagInit, FlagStep, PTL DEF Spec, FlagInv

(* Left alone by the administrator, a node has one firing of a serial job   *)
(* on its way at a time, from the start of its thread to the clearing of    *)
(* the flag: the flag is set for as long as a firing is open.               *)
THEOREM SerialFirings == Spec => []SerialSkips
BY FlagInit, FlagStep, PTL DEF Spec, FlagInv
=============================================================================
