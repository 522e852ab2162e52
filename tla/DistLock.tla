------------------------------ MODULE DistLock ------------------------------
(***************************************************************************)
(* The distributed lock (common/DistLock.h).  A lock is a Redis key set    *)
(* with SET NX EX and deleted by a script that compares the owner's token; *)
(* a node that cannot reach Redis, or loses the reply, uses a lock kept in *)
(* its own memory instead.  Which of the two is used is decided afresh by  *)
(* every call, from what the node sees of Redis at that moment.            *)
(*                                                                         *)
(* Every caller locks at most once, so a caller stands for its own token.  *)
(* A lease lasts Ttl minutes, counted from somewhere within the minute it  *)
(* was taken in, so it ends somewhere within the minute Ttl later.         *)
(***************************************************************************)
EXTENDS Integers

CONSTANTS
  Node,        \* processes that share the Redis server
  Key,         \* lock names
  Caller,      \* those who lock, each with a token of its own
  Ttl,         \* ttlSec, in minutes
  LinkFaults   \* can a node lose its link to Redis, or the reply to a command?

ASSUME DistLockAssumption == Ttl \in Nat \ {0} /\ LinkFaults \in BOOLEAN

VARIABLES
  minute,      \* the time
  reach,       \* reach[n]: RedisConn::available() on node n
  redis,       \* redis[k]: the leases on the Redis key of k (none or one)
  local,       \* local[n][k]: the leases on k in node n's localMap() (none or one)
  lapsed       \* history: callers whose lease ran out while it was theirs

lockVars == <<reach, redis, local, lapsed>>

Lease == [by : Caller, at : Nat]
Mine(i) == [by |-> i, at |-> minute]
By(leases) == {l.by : l \in leases}

LockInit ==
  /\ reach \in [Node -> IF LinkFaults THEN BOOLEAN ELSE {TRUE}]
  /\ redis = [k \in Key |-> {}]
  /\ local = [n \in Node |-> [k \in Key |-> {}]]
  /\ lapsed = {}

\* localLock; got is "local" or "none", the lock the caller comes away with
LocalLock(n, k, i, got) ==
  IF local[n][k] = {}
  THEN got = "local" /\ local' = [local EXCEPT ![n][k] = {Mine(i)}]
  ELSE got = "none" /\ UNCHANGED local

TryLock(n, k, i, got) ==
  /\ \/ /\ reach[n] /\ redis[k] = {}             \* SET NX succeeds
        /\ got = "redis"
        /\ redis' = [redis EXCEPT ![k] = {Mine(i)}]
        /\ UNCHANGED <<reach, local>>
     \/ /\ reach[n] /\ redis[k] # {}             \* held by somebody else
        /\ got = "none"
        /\ UNCHANGED <<reach, redis, local>>
     \/ /\ reach[n] /\ LinkFaults                \* no reply: markBad, local lock
        /\ reach' = [reach EXCEPT ![n] = FALSE]
        /\ redis' \in {redis} \cup
             (IF redis[k] = {} THEN {[redis EXCEPT ![k] = {Mine(i)}]} ELSE {})
        /\ LocalLock(n, k, i, got)
     \/ /\ ~reach[n]
        /\ LocalLock(n, k, i, got)
        /\ UNCHANGED <<reach, redis>>
  /\ UNCHANGED lapsed

\* the script deletes the key only when it holds the caller's token
DeleteAnyones(k, i) == [redis EXCEPT ![k] = {}]
CompareAndDelete(k, i) == [redis EXCEPT ![k] = {l \in @ : l.by # i}]

Unlock(n, k, i) ==
  /\ \/ /\ reach[n]
        /\ redis' = CompareAndDelete(k, i)
        /\ UNCHANGED <<reach, local>>
     \/ /\ reach[n] /\ LinkFaults                \* no reply: done or not, never retried
        /\ reach' = [reach EXCEPT ![n] = FALSE]
        /\ redis' \in {redis, CompareAndDelete(k, i)}
        /\ UNCHANGED local
     \/ /\ ~reach[n]                             \* localUnlock
        /\ local' = [local EXCEPT ![n][k] = {l \in @ : l.by # i}]
        /\ UNCHANGED <<reach, redis>>
  /\ UNCHANGED lapsed

-----------------------------------------------------------------------------
Due(leases) == {l \in leases : minute >= l.at + Ttl}

\* EX on the Redis key, expireAt of the local one
Expire ==
  \/ \E k \in Key :
       /\ Due(redis[k]) # {}
       /\ redis' = [redis EXCEPT ![k] = {}]
       /\ lapsed' = lapsed \cup By(redis[k])
       /\ UNCHANGED <<minute, reach, local>>
  \/ \E n \in Node, k \in Key :
       /\ Due(local[n][k]) # {}
       /\ local' = [local EXCEPT ![n][k] = {}]
       /\ lapsed' = lapsed \cup By(local[n][k])
       /\ UNCHANGED <<minute, reach, redis>>

\* A lease that is due has run out when its minute ends.
NoneDue ==
  /\ \A k \in Key : Due(redis[k]) = {}
  /\ \A n \in Node, k \in Key : Due(local[n][k]) = {}

Tick == NoneDue /\ minute' = minute + 1 /\ UNCHANGED lockVars

LinkChange(n) ==
  /\ LinkFaults
  /\ reach' = [reach EXCEPT ![n] = ~@]
  /\ UNCHANGED <<minute, redis, local, lapsed>>

\* The process ends: its local locks are gone, its Redis locks wait for EX.
ForgetLocal(n) ==
  /\ local' = [local EXCEPT ![n] = [k \in Key |-> {}]]
  /\ UNCHANGED <<reach, redis, lapsed>>

LockTypeOK ==
  /\ minute \in Nat
  /\ reach \in [Node -> BOOLEAN]
  /\ redis \in [Key -> SUBSET Lease]
  /\ local \in [Node -> [Key -> SUBSET Lease]]
  /\ lapsed \subseteq Caller
=============================================================================
