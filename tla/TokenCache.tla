----------------------------- MODULE TokenCache -----------------------------
(***************************************************************************)
(* The session cache of common/TokenCache.h: every node keeps sessions in  *)
(* memory (store_) and, whenever Redis answers, in Redis, which the nodes  *)
(* share.  RedisConn::available() tells a node whether Redis answers and   *)
(* remembers when it has come back; the next get then writes the node's    *)
(* memory to Redis.  The operators below are the effects of one call each; *)
(* Sessions makes actions of them.                                         *)
(*                                                                         *)
(* A cached session is the version of the permissions it carries; None     *)
(* stands for no entry.  Nothing expires in the time the model covers, and *)
(* the GPU cache (VramCache) is absent.                                    *)
(***************************************************************************)
EXTENDS Integers

CONSTANTS
  Node,       \* processes of the application
  Session     \* session ids

VARIABLES
  link,       \* environment: link[n], Redis answers node n
  lastAvail,  \* lastAvail_: "unknown", "up" or "down"
  needSync,   \* needSync_
  mem,        \* mem[n][s]: store_ of node n
  redis       \* redis[s]: the shared copy

None == -1
Empty == [s \in Session |-> None]

cacheVars == <<link, lastAvail, needSync, mem, redis>>

-----------------------------------------------------------------------------
(* RedisConn::available(): a change from unavailable to available, but not  *)
(* the first look, asks for a synchronisation.                              *)
CameBack(n) == link[n] /\ lastAvail[n] = "down"

Remember(n) == lastAvail' = [lastAvail EXCEPT ![n] = IF link[n] THEN "up" ELSE "down"]

NeedsSyncNow(n) == CameBack(n)
NeedsSync(n) == needSync[n] \/ CameBack(n)

Available(n) == Remember(n) /\ needSync' = [needSync EXCEPT ![n] = NeedsSync(n)]

(* The Redis half of a call: available(), then one command.  With ok FALSE  *)
(* the command is lost although the link looked alive.                      *)
Command(n, ok, after) ==
  /\ ok \/ link[n]
  /\ Available(n)
  /\ redis' = IF link[n] /\ ok THEN after ELSE redis

SetEx(n, s, v, ok) == Command(n, ok, [redis EXCEPT ![s] = v])
DelNothing(n, s, ok) == Command(n, ok, redis)
Del(n, s, ok) == Command(n, ok, [redis EXCEPT ![s] = None])

(* The memory halves of set, update (which changes an entry and never makes *)
(* one) and remove.                                                         *)
SetStore(n, s, v) == mem' = [mem EXCEPT ![n][s] = v]
UpdateNothing(n, s, v) == UNCHANGED mem
UpdateStore(n, s, v) ==
  mem' = IF mem[n][s] = None THEN mem ELSE [mem EXCEPT ![n][s] = v]
EraseStore(n, s) == mem' = [mem EXCEPT ![n][s] = None]

(* syncToRedis: what Redis holds once node n has written its memory to it.  *)
Synced(n) == [s \in Session |-> IF mem[n][s] # None THEN mem[n][s] ELSE redis[s]]

RedisSeenBy(n) == IF NeedsSync(n) THEN Synced(n) ELSE redis

(* get: synchronise if that is due, ask Redis, and fall through to memory   *)
(* when Redis has no entry or does not answer.                              *)
Served(n, s) ==
  IF link[n] /\ RedisSeenBy(n)[s] # None THEN RedisSeenBy(n)[s] ELSE mem[n][s]

Found(n, s, ok) == IF ok THEN Served(n, s) ELSE mem[n][s]

Get(n, ok) ==
  /\ ok \/ link[n]
  /\ Remember(n)
  /\ needSync' = [needSync EXCEPT ![n] = ~link[n] /\ @]
  /\ redis' = IF link[n] /\ ok THEN RedisSeenBy(n) ELSE redis
  /\ UNCHANGED <<link, mem>>

(* getAll: the keys in Redis, looked up before a synchronisation that the   *)
(* get of a key may bring, or, without Redis, the keys in memory.           *)
AllKeys(n, ok) ==
  IF ~link[n] THEN {s \in Session : mem[n][s] # None}
  ELSE IF ok THEN {s \in Session : redis[s] # None} ELSE {}

GetAll(n, ok) ==
  IF link[n] /\ AllKeys(n, ok) # {} THEN Get(n, ok)
  ELSE (ok \/ link[n]) /\ Available(n) /\ UNCHANGED <<link, mem, redis>>

-----------------------------------------------------------------------------
LinkChange(n) == link' = [link EXCEPT ![n] = ~@] /\ UNCHANGED <<lastAvail, needSync, mem, redis>>

\* the Redis server restarts without its data
RedisEmptied == redis' = Empty /\ UNCHANGED <<link, lastAvail, needSync, mem>>

\* the process of node n is gone, with everything it kept in memory
ForgetNode(n) ==
  /\ mem' = [mem EXCEPT ![n] = Empty]
  /\ lastAvail' = [lastAvail EXCEPT ![n] = "unknown"]
  /\ needSync' = [needSync EXCEPT ![n] = FALSE]
  /\ UNCHANGED <<link, redis>>

CacheInit ==
  /\ link = [n \in Node |-> TRUE]
  /\ lastAvail = [n \in Node |-> "unknown"]
  /\ needSync = [n \in Node |-> FALSE]
  /\ mem = [n \in Node |-> Empty]
  /\ redis = Empty
=============================================================================
