------------------------ MODULE SessionsCopiesProofs ------------------------
(***************************************************************************)
(* More theorems about Sessions: what the copies of a session hold.        *)
(***************************************************************************)
EXTENDS SessionsProofs

-----------------------------------------------------------------------------
(* What a step of a request writes, and where it has got that from.         *)

\* steps at which the request is about to write its value to a cache
Carrying == {"setMem", "setRedis", "updMem", "updRedis"}

Writes(r) ==
  LET v == req[r].val
      q == req'[r]
      s == q.sess IN
  /\ \A n \in Node, u \in Session : mem'[n][u] # mem[n][u] =>
       /\ Owns(r, u) /\ n = req[r].node
       /\ \/ At(r, "delMem") /\ mem'[n][u] = None
          \/ /\ req[r].pc \in Carrying /\ mem'[n][u] = v
             /\ mem[n][u] = None => At(r, "setMem")
  /\ \A u \in Session : redis'[u] # redis[u] =>
       \/ At(r, "delRedis") /\ Owns(r, u) /\ redis'[u] = None
       \/ req[r].pc \in Carrying /\ Owns(r, u) /\ redis'[u] = v
       \/ \E n \in Node : redis'[u] = mem[n][u]
  /\ \A u \in Session : fresh'[u] # fresh[u] =>
       /\ At(r, "updRedis") /\ Owns(r, u) /\ req[r].alone /\ q.pc \in {"idle", "get"}
       /\ fresh'[u] = v /\ redis'[u] = v /\ \A x \in Thread \ {r} : ~Granting(x)
  /\ \A u \in kept' :
       /\ At(r, "delMem") => ~Owns(r, u)
       /\ u \notin kept => At(r, "insert") /\ u = req[r].make /\ req[r].alone /\ home'[u] = req[r].node
  /\ q.pc \in Carrying =>
       \/ s = q.make \/ q.val \in {perm, Cleared} \/ (Granting(r) /\ q.val = v)
       \/ (Owns(r, s) /\ req[r].pc \in Carrying /\ q.val = v)
       \/ (s \in Session => q.val = redis[s] \/ \E n \in Node : q.val = mem[n][s])
  /\ q.pc = "delRedis" => At(r, "delMem")
  /\ At(r, "setMem") => q.pc = "setRedis" /\ Owns(r, s) /\ q.node = req[r].node
  /\ q.pc = "updRedis" =>
       /\ At(r, "updMem") /\ Owns(r, s) /\ q.val = v /\ q.node = req[r].node
       /\ q.node \in Node /\ s \in Session => mem'[q.node][s] \in {None, v}

\* a grant has read the permissions at its begin, and keeps what it has read
LEMMA GrantingMoves ==
  ASSUME Typed, NEW r \in Thread, Moves(r), Granting(r)'
  PROVE  req'[r].val \in {perm, Cleared} \/ (Granting(r) /\ req'[r].val = req[r].val)
<1>. DEFINE q == req[r]
<1>1. q \in Req /\ Knows(q) /\ RequestsTyped
  BY DEF Typed, RequestsTyped
<1>2. req'[r].kind = "grant" /\ req'[r].pc # "query" /\ Idle.kind # "grant"
  BY DEF Granting, At, Idle
<1>3. ~Becomes(r, Idle)
  BY <1>2 DEF Becomes, Like
<1>4. ASSUME q.pc # "query", req'[r].kind = q.kind, req'[r].val = q.val
      PROVE  Granting(r) /\ req'[r].val = q.val
  BY <1>2, <1>4 DEF Granting, At
<1>5. ASSUME NEW n \in Node, \/ Login(r, n) \/ \E kind \in Changes : Change(r, n, kind)
                             \/ \E kind \in Kinds, s \in used : Request(r, n, kind, s)
      PROVE  FALSE
  <2>1. CASE Login(r, n)
    BY <1>2, <2>1, LoginMoves DEF Becomes, Like, Idle
  <2>2. ASSUME NEW kind \in Changes, Change(r, n, kind) PROVE FALSE
    BY <1>2, <2>2, ChangeMoves DEF Becomes, Like, Idle, FirstRead
  <2>3. ASSUME NEW kind \in Kinds, NEW s \in used, Request(r, n, kind, s) PROVE FALSE
    BY <1>2, <2>3, RequestMoves DEF Becomes, Like, Idle, Kinds
  <2>. QED BY <1>5, <2>1, <2>2, <2>3
<1>6. CASE SetMem(r) \/ DelMem(r) \/ UpdMem(r)
  <2>1. PICK pc \in Pc : Becomes(r, [q EXCEPT !.pc = pc]) /\ q.pc # "query"
    BY <1>1, <1>6, PcMoves DEF SetMem, DelMem, UpdMem, At, Pc, Writing, Removing, Changing
  <2>2. req'[r].kind = q.kind /\ req'[r].val = q.val
    BY <1>1, <2>1 DEF Becomes, Like, Req
  <2>. QED BY <1>4, <2>1, <2>2
<1>7. ASSUME NEW ok \in BOOLEAN, Look(r, ok) PROVE Granting(r) /\ req'[r].val = q.val
  <2>1. q.pc = "get"
    BY <1>7 DEF Look, At
  <2>2. ASSUME NEW s \in q.todo, Becomes(r, [q EXCEPT !.pc = "get", !.sess = s, !.todo = @ \ {s}])
        PROVE  req'[r].kind = q.kind /\ req'[r].val = q.val
    BY <1>1, <2>2 DEF Becomes, Like, Req
  <2>3. ASSUME NEW pc \in {"delMem", "query"}, NEW kind \in {"none", "edit"},
               Becomes(r, [q EXCEPT !.pc = pc, !.kind = kind])
        PROVE  FALSE
    BY <1>1, <1>2, <2>3 DEF Becomes, Like, Req
  <2>. DEFINE v == Found(q.node, q.sess, ok)
  <2>. HIDE DEF v
  <2>4. ASSUME NEW pc \in {"setMem", "updMem"}, NEW kind \in {"none", "location", "password"},
               Becomes(r, [q EXCEPT !.pc = pc, !.kind = kind, !.val = v])
        PROVE  FALSE
    BY <1>1, <1>2, <2>4 DEF Becomes, Like, Req
  <2>5. ASSUME Becomes(r, [q EXCEPT !.pc = "updMem"])
        PROVE  req'[r].kind = q.kind /\ req'[r].val = q.val
    BY <1>1, <2>5 DEF Becomes, Like, Req
  <2>6. ASSUME Becomes(r, [q EXCEPT !.pc = FirstOfCreate, !.kind = "none", !.val = v,
                                    !.sess = NewId, !.make = NewId, !.drop = q.sess])
        PROVE  FALSE
    BY <1>1, <1>2, <2>6 DEF Becomes, Like, Req
  <2>. QED BY <1>3, <1>4, <1>7, <2>1, <2>2, <2>3, <2>4, <2>5, <2>6, LookMoves DEF v
<1>8. ASSUME NEW ok \in BOOLEAN, Query(r, ok) PROVE req'[r].val \in {perm, Cleared}
  <2>1. PICK v \in {perm, Cleared}, pc \in {"keys", "updMem"} : Becomes(r, [q EXCEPT !.pc = pc, !.val = v])
    BY <1>8, QueryMoves
  <2>. QED BY <1>1, <2>1 DEF Becomes, Like, Req
<1>9. ASSUME NEW ok \in BOOLEAN,
             \/ Kick(r, ok) \/ SetRedis(r, ok) \/ Insert(r, ok) \/ DelRedis(r, ok)
             \/ DelRow(r, ok) \/ SelectKeys(r, ok) \/ UpdRedis(r, ok) \/ UpdRow(r, ok)
      PROVE  Granting(r) /\ req'[r].val = q.val
  <2>1. q.pc # "query"
    BY <1>9 DEF Kick, SetRedis, Insert, DelRedis, DelRow, SelectKeys, UpdRedis, UpdRow, At
  <2>2. CASE Kick(r, ok)
    <3>. DEFINE ks == AllKeys(q.node, ok)
                x == [q EXCEPT !.todo = ks]
    <3>1. \/ Becomes(r, [x EXCEPT !.pc = "setMem", !.sess = x.make])
          \/ \E u \in x.todo : Becomes(r, [x EXCEPT !.pc = "delMem", !.sess = u, !.todo = @ \ {u}])
      BY <2>2, KickMoves
    <3>. HIDE DEF ks
    <3>2. req'[r].kind = q.kind /\ req'[r].val = q.val
      BY <1>1, <3>1 DEF Becomes, Like, Req
    <3>. QED BY <1>4, <2>1, <3>2
  <2>3. CASE SetRedis(r, ok)
    <3>1. Becomes(r, [q EXCEPT !.pc = "insert"])
      BY <1>1, <2>3, PcMoves DEF SetRedis, Pc, Writing
    <3>. QED BY <1>1, <1>4, <2>1, <3>1 DEF Becomes, Like, Req
  <2>4. CASE Insert(r, ok)
    BY <1>1, <1>3, <1>4, <2>1, <2>4, InsertMoves DEF Becomes, Like, Req
  <2>5. CASE DelRedis(r, ok)
    BY <1>1, <1>4, <2>1, <2>5, DelRedisMoves DEF Becomes, Like, Req
  <2>6. CASE DelRow(r, ok)
    BY <1>1, <1>3, <1>4, <2>1, <2>6, DelRowMoves DEF Becomes, Like, Req
  <2>7. CASE SelectKeys(r, ok)
    <3>. DEFINE ks == {s \in Session : table[s] # None}
                x(u) == [[q EXCEPT !.todo = ks] EXCEPT !.pc = "get", !.sess = u, !.todo = @ \ {u}]
    <3>1. PICK u \in ks : Becomes(r, x(u))
      BY <1>1, <1>3, <2>7, SelectKeysMoves DEF Req
    <3>. HIDE DEF ks
    <3>2. x(u).kind = q.kind /\ x(u).val = q.val
      BY <1>1 DEF Req
    <3>. HIDE DEF x
    <3>3. req'[r].kind = q.kind /\ req'[r].val = q.val
      BY <3>1, <3>2 DEF Becomes, Like
    <3>. QED BY <1>4, <2>1, <3>3
  <2>8. CASE UpdRedis(r, ok)
    BY <1>1, <1>3, <1>4, <2>1, <2>8, UpdRedisMoves DEF Becomes, Like, Req
  <2>9. CASE UpdRow(r, ok)
    BY <1>1, <1>3, <2>9, ReturnWent DEF UpdRow
  <2>. QED BY <1>9, <2>2, <2>3, <2>4, <2>5, <2>6, <2>7, <2>8, <2>9
<1>. QED BY <1>5, <1>6, <1>7, <1>8, <1>9 DEF Moves, Step

LEMMA BeginWrites ==
  ASSUME Typed, NEW r \in Thread, NEW n \in Node,
         \/ Login(r, n) \/ \E kind \in Changes : Change(r, n, kind)
         \/ \E kind \in Kinds, s \in used : Request(r, n, kind, s)
  PROVE  Writes(r)
<1>1. UNCHANGED <<mem, redis, kept, fresh>> /\ At(r, "idle")
  BY DEF Login, Change, Request, Enters, cacheVars, history
<1>2. req'[r].pc \in {"getAll", "setMem", "keys", "query", "get"}
      /\ (req'[r].pc = "setMem" => req'[r].sess = req'[r].make)
  <2>1. CASE Login(r, n)
    BY <2>1, LoginMoves DEF Becomes, Like, Idle, FirstOfCreate
  <2>2. ASSUME NEW kind \in Changes, Change(r, n, kind)
        PROVE  req'[r].pc \in {"keys", "query"}
    BY <2>2, ChangeMoves DEF Becomes, Like, Idle, FirstRead
  <2>3. ASSUME NEW kind \in Kinds, NEW s \in used, Request(r, n, kind, s)
        PROVE  req'[r].pc = "get"
    BY <2>3, RequestMoves DEF Becomes, Like, Idle
  <2>. QED BY <2>1, <2>2, <2>3
<1>. QED BY <1>1, <1>2 DEF Writes, Carrying, At

\* get and getAll bring to Redis at most what the node has in memory
LEMMA SyncedFrom ==
  ASSUME Typed, NEW n \in Node, NEW ok \in BOOLEAN, Get(n, ok) \/ GetAll(n, ok)
  PROVE  UNCHANGED mem /\ \A u \in Session : redis'[u] \in {redis[u], mem[n][u]}
<1>1. UNCHANGED mem /\ redis' \in {redis, RedisSeenBy(n)}
  BY GetTyped DEF Typed
<1>. QED BY <1>1 DEF RedisSeenBy, Synced

LEMMA LookWrites ==
  ASSUME Typed, NEW r \in Thread, NEW ok \in BOOLEAN, Look(r, ok)
  PROVE  Writes(r)
<1>. DEFINE q == req[r]
            v == Found(q.node, q.sess, ok)
<1>1. q \in Req /\ Knows(q) /\ q.pc = "get"
  BY DEF Typed, RequestsTyped, Look, At
<1>2. q.node \in Node /\ q.sess \in Session
  BY <1>1 DEF Typed, Knows, Numbered
<1>3. UNCHANGED <<mem, kept, fresh>> /\ \A u \in Session : redis'[u] \in {redis[u], mem[q.node][u]}
  BY <1>2, SyncedFrom DEF Look
<1>4. v \in {redis[q.sess], mem[q.node][q.sess]}
  BY <1>2 DEF Found, Served, RedisSeenBy, Synced
<1>. HIDE DEF v
<1>5. /\ req'[r].pc \notin {"updRedis", "delRedis"}
      /\ req'[r].pc \in Carrying =>
           \/ req'[r].sess = req'[r].make \/ (req'[r].sess = q.sess /\ req'[r].val = v)
           \/ Granting(r) /\ req'[r].val = q.val
  <2>1. CASE Becomes(r, Idle)
    BY <2>1 DEF Becomes, Like, Idle, Carrying
  <2>2. ASSUME NEW s \in q.todo, Becomes(r, [q EXCEPT !.pc = "get", !.sess = s, !.todo = @ \ {s}])
        PROVE  req'[r].pc = "get"
    BY <1>1, <2>2 DEF Becomes, Like, Req
  <2>3. ASSUME NEW pc \in {"delMem", "query"}, NEW kind \in {"none", "edit"},
               Becomes(r, [q EXCEPT !.pc = pc, !.kind = kind])
        PROVE  req'[r].pc = pc
    BY <1>1, <2>3 DEF Becomes, Like, Req
  <2>4. ASSUME NEW pc \in {"setMem", "updMem"}, NEW kind \in {"none", "location", "password"},
               Becomes(r, [q EXCEPT !.pc = pc, !.kind = kind, !.val = v])
        PROVE  req'[r].pc = pc /\ req'[r].sess = q.sess /\ req'[r].val = v
    BY <1>1, <2>4 DEF Becomes, Like, Req
  <2>5. CASE Becomes(r, [q EXCEPT !.pc = FirstOfCreate, !.kind = "none", !.val = v, !.sess = NewId,
                                  !.make = NewId, !.drop = q.sess])
    BY <1>1, <2>5 DEF Becomes, Like, Req, FirstOfCreate
  <2>6. CASE q.kind = "grant" /\ Becomes(r, [q EXCEPT !.pc = "updMem"])
    BY <1>1, <2>6 DEF Becomes, Like, Req, Granting, At
  <2>. QED BY <2>1, <2>2, <2>3, <2>4, <2>5, <2>6, LookMoves DEF v, Carrying
<1>. QED BY <1>1, <1>2, <1>3, <1>4, <1>5 DEF Writes, At

LEMMA KickWrites ==
  ASSUME Typed, NEW r \in Thread, NEW ok \in BOOLEAN, Kick(r, ok)
  PROVE  Writes(r)
<1>1. /\ req[r] \in Req /\ Knows(req[r]) /\ req[r].pc = "getAll"
  BY DEF Typed, RequestsTyped, Kick, At
<1>2. req[r].node \in Node
  BY <1>1 DEF Knows
<1>3. UNCHANGED <<mem, kept, fresh>> /\ \A u \in Session : redis'[u] \in {redis[u], mem[req[r].node][u]}
  BY <1>2, SyncedFrom DEF Kick
<1>4. req'[r].pc \in {"setMem", "delMem"} /\ (req'[r].pc = "setMem" => req'[r].sess = req'[r].make)
  BY <1>1, KickMoves DEF Becomes, Like, Req
<1>. QED BY <1>1, <1>2, <1>3, <1>4 DEF Writes, Carrying, At

LEMMA MemoryWrites ==
  ASSUME Typed, NEW r \in Thread, SetMem(r) \/ DelMem(r) \/ UpdMem(r)
  PROVE  Writes(r)
<1>1. req[r] \in Req /\ Knows(req[r]) /\ req[r].pc \in {"setMem", "delMem", "updMem"}
  BY DEF Typed, RequestsTyped, SetMem, DelMem, UpdMem, At
<1>2. PICK n, s, v : n = req[r].node /\ s = req[r].sess /\ v = req[r].val
  OBVIOUS
<1>3. n \in Node /\ s \in Session /\ Owns(r, s)
  BY <1>1, <1>2 DEF Typed, Knows, Numbered, Owns, At
<1>4. /\ UNCHANGED <<redis, home, fresh>> /\ kept' \subseteq kept /\ (At(r, "delMem") => s \notin kept')
      /\ \/ UNCHANGED mem /\ At(r, "updMem") /\ mem[n][s] = None
         \/ /\ mem' = [mem EXCEPT ![n][s] = IF At(r, "delMem") THEN None ELSE v]
            /\ At(r, "updMem") => mem[n][s] # None
  BY <1>1, <1>2 DEF SetMem, DelMem, UpdMem, history, SetStore, EraseStore, UpdateStore, At
<1>5. /\ \A x \in Node, u \in Session : x # n \/ u # s => mem'[x][u] = mem[x][u]
      /\ At(r, "updMem") /\ mem[n][s] = None => UNCHANGED mem
      /\ mem'[n][s] = (IF At(r, "delMem") THEN None ELSE v) \/ (At(r, "updMem") /\ UNCHANGED mem /\ mem[n][s] = None)
  BY <1>3, <1>4 DEF Typed, CopiesTyped
<1>6. /\ req'[r].sess = s /\ req'[r].node = n /\ req'[r].val = v
      /\ \/ At(r, "setMem") /\ req'[r].pc = "setRedis"
         \/ At(r, "delMem") /\ req'[r].pc = "delRedis"
         \/ At(r, "updMem") /\ req'[r].pc = "updRedis"
  <2>1. \/ Becomes(r, [req[r] EXCEPT !.pc = "setRedis"]) /\ At(r, "setMem")
        \/ Becomes(r, [req[r] EXCEPT !.pc = "delRedis"]) /\ At(r, "delMem")
        \/ Becomes(r, [req[r] EXCEPT !.pc = "updRedis"]) /\ At(r, "updMem")
    BY PcMoves DEF Typed, SetMem, DelMem, UpdMem, Pc, Writing, Removing, Changing
  <2>. QED BY <1>1, <1>2, <2>1 DEF Becomes, Like, Req
<1>7. \A x \in Node, u \in Session : mem'[x][u] # mem[x][u] =>
        /\ Owns(r, u) /\ x = n
        /\ \/ At(r, "delMem") /\ mem'[x][u] = None
           \/ /\ req[r].pc \in Carrying /\ mem'[x][u] = v
              /\ mem[x][u] = None => At(r, "setMem")
  BY <1>1, <1>3, <1>5 DEF Carrying, At
<1>8. \A u \in kept' : (At(r, "delMem") => ~Owns(r, u)) /\ u \in kept
  BY <1>2, <1>4 DEF Owns
<1>9. req'[r].pc \in Carrying => Owns(r, s) /\ req[r].pc \in Carrying
  BY <1>1, <1>3, <1>6 DEF Carrying, At
<1>10. req'[r].pc = "updRedis" => At(r, "updMem") /\ mem'[n][s] \in {None, v}
  BY <1>5, <1>6 DEF At
<1>11. /\ req'[r].pc = "delRedis" => At(r, "delMem")
       /\ At(r, "setMem") => req'[r].pc = "setRedis" /\ Owns(r, s)
  BY <1>3, <1>6 DEF At
<1>. QED BY <1>2, <1>3, <1>4, <1>6, <1>7, <1>8, <1>9, <1>10, <1>11 DEF Writes

LEMMA CommandsWrites ==
  ASSUME Typed, NEW r \in Thread, NEW ok \in BOOLEAN,
         SetRedis(r, ok) \/ DelRedis(r, ok) \/ UpdRedis(r, ok)
  PROVE  Writes(r)
<1>1. req[r] \in Req /\ Knows(req[r]) /\ req[r].pc \in {"setRedis", "delRedis", "updRedis"}
  BY DEF Typed, RequestsTyped, SetRedis, DelRedis, UpdRedis, At
<1>2. PICK n, s, v : n = req[r].node /\ s = req[r].sess /\ v = req[r].val
  OBVIOUS
<1>3. n \in Node /\ s \in Session /\ Owns(r, s) /\ redis \in [Session -> Version]
  BY <1>1, <1>2 DEF Typed, CopiesTyped, Knows, Numbered, Owns, At
<1>4. /\ UNCHANGED <<mem, kept>>
      /\ \/ fresh' = fresh
         \/ /\ fresh' = [fresh EXCEPT ![s] = v] /\ At(r, "updRedis") /\ req[r].alone
            /\ req[r].kind \in Changes /\ ok /\ link[n] /\ \A x \in Thread \ {r} : ~Granting(x)
  BY <1>2 DEF SetRedis, DelRedis, UpdRedis, history
<1>5. \A u \in Session : redis'[u] # redis[u] =>
        /\ u = s
        /\ \/ At(r, "delRedis") /\ redis'[u] = None
           \/ req[r].pc \in Carrying /\ redis'[u] = v
  <2>1. CASE At(r, "delRedis")
    <3>1. redis' \in {redis, [redis EXCEPT ![s] = None]}
      BY <1>2, <2>1 DEF SetRedis, DelRedis, UpdRedis, Del, Command, At
    <3>. QED BY <1>3, <2>1, <3>1
  <2>2. CASE ~At(r, "delRedis")
    <3>1. redis' \in {redis, [redis EXCEPT ![s] = v]}
      BY <1>2, <2>2 DEF SetRedis, DelRedis, UpdRedis, SetEx, Command, At
    <3>. QED BY <1>1, <1>3, <2>2, <3>1 DEF Carrying, At
  <2>. QED BY <2>1, <2>2
<1>6. /\ req'[r].pc \in {"insert", "delRow", "updRow", "idle", "get"}
      /\ fresh' # fresh => req'[r].pc \in {"idle", "get"}
  <2>1. CASE SetRedis(r, ok)
    <3>1. Becomes(r, [req[r] EXCEPT !.pc = "insert"]) /\ fresh' = fresh
      BY <2>1, PcMoves DEF SetRedis, Typed, Pc, Writing
    <3>. QED BY <1>1, <3>1 DEF Becomes, Like, Req
  <2>2. CASE DelRedis(r, ok)
    <3>1. Becomes(r, [req[r] EXCEPT !.pc = "delRow"]) /\ fresh' = fresh
      BY <2>2, DelRedisMoves DEF DelRedis, Typed, history
    <3>. QED BY <1>1, <3>1 DEF Becomes, Like, Req
  <2>3. CASE UpdRedis(r, ok) /\ req[r].kind \in Changes
    <3>1. CASE req[r].todo = {}
      <4>1. req'[r] = Idle
        BY <2>3, <3>1 DEF UpdRedis, NextKey, Return, Typed, RequestsTyped, Changes
      <4>. QED BY <4>1 DEF Idle
    <3>2. CASE req[r].todo # {}
      <4>1. \/ Becomes(r, Idle)
            \/ \E u \in req[r].todo : Becomes(r, [req[r] EXCEPT !.pc = "get", !.sess = u, !.todo = @ \ {u}])
        <5>1. 0 \notin req[r].todo /\ NextKey(r, req[r])
          BY <1>1, <2>3, Ids DEF Typed, Knows, UpdRedis, Changes
        <5>. QED BY <1>1, <5>1, NextKeyMoves DEF Typed
      <4>. QED BY <1>1, <4>1 DEF Becomes, Like, Req, Idle
    <3>. QED BY <3>1, <3>2
  <2>4. CASE UpdRedis(r, ok) /\ req[r].kind \notin Changes
    <3>1. fresh' = fresh
      BY <2>4 DEF UpdRedis
    <3>2. Becomes(r, [req[r] EXCEPT !.pc = "updRow"]) \/ Becomes(r, Idle)
      BY <1>1, <2>4, PcMoves, ReturnWent DEF UpdRedis, Typed, Pc, Changing
    <3>. QED BY <1>1, <3>1, <3>2 DEF Becomes, Like, Req, Idle
  <2>. QED BY <2>1, <2>2, <2>3, <2>4
<1>7. \A u \in Session : fresh'[u] # fresh[u] =>
        /\ At(r, "updRedis") /\ u = s /\ req[r].alone /\ req'[r].pc \in {"idle", "get"}
        /\ fresh'[u] = v /\ redis'[u] = v /\ \A x \in Thread \ {r} : ~Granting(x)
  <2>. SUFFICES ASSUME NEW u \in Session, fresh'[u] # fresh[u]
                PROVE  /\ At(r, "updRedis") /\ u = s /\ req[r].alone /\ req'[r].pc \in {"idle", "get"}
                       /\ fresh'[u] = v /\ redis'[u] = v /\ \A x \in Thread \ {r} : ~Granting(x)
    OBVIOUS
  <2>1. /\ u = s /\ fresh'[u] = v /\ At(r, "updRedis") /\ req[r].alone /\ ok /\ link[n]
        /\ \A x \in Thread \ {r} : ~Granting(x)
    BY <1>3, <1>4 DEF Typed, HistoryTyped
  <2>2. redis' = [redis EXCEPT ![s] = v]
    BY <1>2, <2>1 DEF SetRedis, DelRedis, UpdRedis, SetEx, Command, At
  <2>. QED BY <1>3, <1>6, <2>1, <2>2
<1>8. /\ ~At(r, "delMem") /\ ~At(r, "setMem") /\ req'[r].pc \notin Carrying
      /\ req'[r].pc \notin {"updRedis", "delRedis"}
  BY <1>1, <1>6 DEF At, Carrying
<1>. QED BY <1>2, <1>3, <1>4, <1>5, <1>7, <1>8 DEF Writes

LEMMA TableWrites ==
  ASSUME Typed, NEW r \in Thread, NEW ok \in BOOLEAN,
         Insert(r, ok) \/ DelRow(r, ok) \/ UpdRow(r, ok)
  PROVE  Writes(r)
<1>1. req[r] \in Req /\ Knows(req[r]) /\ req[r].pc \in {"insert", "delRow", "updRow"}
  BY DEF Typed, RequestsTyped, Insert, DelRow, UpdRow, At
<1>2. /\ UNCHANGED <<mem, redis, fresh>>
      /\ \/ kept' = kept
         \/ /\ At(r, "insert") /\ req[r].sess = req[r].make /\ req[r].alone
            /\ kept' = kept \cup {req[r].sess} /\ home' = [home EXCEPT ![req[r].sess] = req[r].node]
  BY DEF Insert, DelRow, UpdRow, cacheVars, history, At
<1>3. \A u \in kept' : u \notin kept =>
        At(r, "insert") /\ u = req[r].make /\ req[r].alone /\ home'[u] = req[r].node
  <2>1. req[r].sess \in Session
    BY <1>1 DEF Typed, Knows, Numbered
  <2>. QED BY <1>2, <2>1 DEF Typed, HistoryTyped
<1>4. req'[r].pc \in {"idle", "setMem", "delMem"} /\ (req'[r].pc = "setMem" => req'[r].sess = req'[r].make)
  <2>1. CASE Becomes(r, Idle)
    BY <2>1 DEF Becomes, Like, Idle
  <2>2. CASE Insert(r, ok) /\ ~Becomes(r, Idle)
    BY <1>1, <2>2, InsertMoves DEF Typed, Req, Becomes, Like
  <2>3. CASE DelRow(r, ok) /\ ~Becomes(r, Idle)
    BY <1>1, <2>3, DelRowMoves DEF Req, Becomes, Like
  <2>4. CASE UpdRow(r, ok) /\ ~Becomes(r, Idle)
    BY <2>4, ReturnWent DEF UpdRow, Typed
  <2>. QED BY <2>1, <2>2, <2>3, <2>4
<1>. QED BY <1>1, <1>2, <1>3, <1>4 DEF Writes, Carrying, At

LEMMA ReadingWrites ==
  ASSUME Typed, NEW r \in Thread, NEW ok \in BOOLEAN, Query(r, ok) \/ SelectKeys(r, ok)
  PROVE  Writes(r)
<1>1. req[r] \in Req /\ Knows(req[r]) /\ req[r].pc \in {"query", "keys"}
  BY DEF Typed, RequestsTyped, Query, SelectKeys, At
<1>2. UNCHANGED <<mem, redis, kept, fresh>>
  BY DEF Query, SelectKeys, cacheVars, history
<1>3. CASE Query(r, ok)
  <2>1. PICK pc \in {"keys", "updMem"}, v \in {perm, Cleared} :
          Becomes(r, [req[r] EXCEPT !.pc = pc, !.val = v])
    BY <1>3, QueryMoves
  <2>2. req'[r].pc \in {"keys", "updMem"} /\ req'[r].val \in {perm, Cleared}
    BY <1>1, <2>1 DEF Req, Becomes, Like
  <2>3. req[r].pc = "query"
    BY <1>3 DEF Query, At
  <2>. QED BY <1>2, <1>3, <2>2, <2>3 DEF Writes, At, Carrying
<1>4. CASE SelectKeys(r, ok)
  <2>1. req'[r].pc \in {"idle", "get"}
    <3>1. CASE Becomes(r, Idle)
      BY <3>1 DEF Becomes, Like, Idle
    <3>2. CASE ~Becomes(r, Idle)
      <4>. DEFINE ks == {s \in Session : table[s] # None}
      <4>1. PICK u \in ks : Becomes(r, [[req[r] EXCEPT !.todo = ks]
                                          EXCEPT !.pc = "get", !.sess = u, !.todo = @ \ {u}])
        BY <1>1, <1>4, <3>2, SelectKeysMoves DEF Req
      <4>. HIDE DEF ks
      <4>. QED BY <1>1, <4>1 DEF Req, Becomes, Like
    <3>. QED BY <3>1, <3>2
  <2>. QED BY <1>1, <1>2, <2>1 DEF Writes, Carrying, At
<1>. QED BY <1>3, <1>4

LEMMA MovesWrite ==
  ASSUME Typed, NEW r \in Thread, Moves(r)
  PROVE  Writes(r)
<1>1. ASSUME NEW ok \in BOOLEAN, Step(r, ok) PROVE Writes(r)
  BY <1>1, LookWrites, KickWrites, CommandsWrites, TableWrites, ReadingWrites DEF Step
<1>. QED BY <1>1, BeginWrites, MemoryWrites DEF Moves

-----------------------------------------------------------------------------
(* A session stays where it was created.                                    *)

\* the node that s was created on has s in memory, or is still to restore it
Stored(s) ==
  /\ home[s] \in Node
  /\ mem[home[s]][s] # None \/ rows[home[s]][s] # None

LEMMA RequestStored ==
  ASSUME Typed, Typed', Orderly, NEW r \in Thread, Acts(r), Writes(r), NEW s \in kept',
         s \in kept => Stored(s)
  PROVE  Stored(s)'
<1>1. s \in Session /\ s # 0 /\ Knows(req[r]) /\ New(r) /\ Lonely(r)
  BY Ids DEF Typed, HistoryTyped, RequestsTyped, Numbered, Orderly
<1>2. rows' = rows
  BY DEF Acts, Touches
<1>3. CASE s \in kept
  <2>1. home'[s] = home[s]
    <3>1. s # req[r].make
      BY <1>1, <1>3 DEF New
    <3>. QED BY <1>1, <3>1 DEF Acts, Touches
  <2>2. mem'[home[s]][s] # mem[home[s]][s] => mem'[home[s]][s] # None
    <3>. SUFFICES ASSUME mem'[home[s]][s] # mem[home[s]][s] PROVE mem'[home[s]][s] # None
      OBVIOUS
    <3>1. Owns(r, s) /\ ~(At(r, "delMem"))
      BY <1>1, <1>3 DEF Writes, Stored
    <3>2. req[r].pc \in {"setMem", "updMem"} /\ mem'[home[s]][s] = req[r].val
      BY <1>1, <1>3, <3>1 DEF Writes, Stored, Acts, Touches, At
    <3>. QED BY <1>1, <3>2 DEF Knows, Writing
  <2>. QED BY <1>2, <1>3, <2>1, <2>2 DEF Stored
<1>4. CASE s \notin kept
  <2>1. At(r, "insert") /\ s = req[r].make /\ req[r].alone /\ home'[s] = req[r].node
    BY <1>4 DEF Writes
  <2>2. req[r].node \in Node /\ req[r].sess = s
    BY <1>1, <2>1 DEF Knows, Writing, At
  <2>3. mem[req[r].node][s] # None
    BY <1>1, <2>1, <2>2 DEF Lonely, At
  <2>4. mem'[req[r].node][s] = mem[req[r].node][s]
    BY <1>1, <2>1, <2>2 DEF Acts, Touches, At
  <2>. QED BY <2>1, <2>2, <2>3, <2>4 DEF Stored
<1>. QED BY <1>3, <1>4

LEMMA RestartStored ==
  ASSUME Typed, NEW n \in Node, Restart(n), NEW s \in kept', s \in kept => Stored(s)
  PROVE  Stored(s)'
<1>1. PICK read \in {table, Empty} :
        /\ rows' = [rows EXCEPT ![n] = read]
        /\ kept' = {u \in kept : home[u] = n => u \in {x \in Session : read[x] # None}}
  BY DEF Restart
<1>2. home' = home /\ mem' = [mem EXCEPT ![n] = Empty] /\ s \in kept /\ Stored(s)
  BY <1>1 DEF Restart, ForgetNode
<1>3. CASE home[s] = n
  <2>1. rows'[n] = read /\ read[s] # None
    BY <1>1, <1>3 DEF Typed, CopiesTyped
  <2>. QED BY <1>2, <1>3, <2>1 DEF Stored
<1>4. CASE home[s] # n
  BY <1>1, <1>2, <1>4 DEF Typed, CopiesTyped, Stored
<1>. QED BY <1>3, <1>4

LEMMA RestoreStored ==
  ASSUME Typed, NEW n \in Node, NEW u \in Session, NEW ok \in BOOLEAN, Restore(n, u, ok),
         NEW s \in kept, Stored(s)
  PROVE  Stored(s)'
<1>1. /\ home' = home /\ rows[n][u] # None /\ s \in Session
      /\ mem' = [mem EXCEPT ![n][u] = rows[n][u]] /\ rows' = [rows EXCEPT ![n][u] = None]
  BY DEF Restore, RestoreOne, SetStore, Typed, HistoryTyped, Numbered
<1>2. home[s] \in Node
  BY DEF Stored
<1>3. CASE home[s] = n /\ s = u
  BY <1>1, <1>2, <1>3 DEF Typed, CopiesTyped, Stored
<1>4. CASE ~(home[s] = n /\ s = u)
  <2>1. mem'[home[s]][s] = mem[home[s]][s] /\ rows'[home[s]][s] = rows[home[s]][s]
    BY <1>1, <1>2, <1>4 DEF Typed, CopiesTyped
  <2>. QED BY <1>1, <2>1 DEF Stored
<1>. QED BY <1>3, <1>4

AllStored == \A s \in kept : Stored(s)

LEMMA StoredStep ==
  ASSUME Typed, Typed', Orderly, AllStored, [Next]_vars
  PROVE  AllStored'
<1>1. ASSUME NEW r \in Thread, Moves(r) PROVE AllStored'
  BY <1>1, MovesAct, MovesWrite, RequestStored DEF AllStored
<1>2. ASSUME NEW n \in Node, Restart(n) PROVE AllStored'
  BY <1>2, RestartStored DEF AllStored
<1>3. ASSUME NEW n \in Node, NEW u \in Session, NEW ok \in BOOLEAN, Restore(n, u, ok) PROVE AllStored'
  <2>1. kept' = kept
    BY <1>3 DEF Restore
  <2>. QED BY <1>3, <2>1, RestoreStored DEF AllStored
<1>4. ASSUME UNCHANGED <<mem, rows, kept, home>> PROVE AllStored'
  BY <1>4 DEF AllStored, Stored
<1>5. RedisRestart \/ (\E n \in Node : LinkStep(n)) \/ (\E r \in Thread : Statement(r))
      \/ UNCHANGED vars => UNCHANGED <<mem, rows, kept, home>>
  BY DEF Statement, RedisRestart, RedisEmptied, LinkStep, LinkChange, history, vars, cacheVars
<1>. QED BY <1>1, <1>2, <1>3, <1>4, <1>5 DEF Next, Moves

(* A session that was not logged out is served by the node it was created   *)
(* on, whether Redis answers, has lost its data, or the node has been       *)
(* restarted in between.                                                    *)
THEOREM SessionsStayServed == Spec => []StaysServed
<1>1. Init => Typed /\ Orderly /\ AllStored
  BY TypedInit, OrderlyInit DEF Init, AllStored
<1>2. Typed /\ Orderly /\ AllStored /\ [Next]_vars => (Typed /\ Orderly /\ AllStored)'
  BY SoundStep, StoredStep
<1>3. Typed /\ Orderly /\ AllStored => StaysServed
  <2>. SUFFICES ASSUME Typed, AllStored, NEW s \in kept, Running(home[s]) PROVE Served(home[s], s) # None
    BY DEF StaysServed
  <2>1. home[s] \in Node /\ s \in Session
    BY DEF AllStored, Stored, Typed, HistoryTyped, Numbered
  <2>2. rows[home[s]][s] = None
    BY <2>1 DEF Running, Empty
  <2>3. mem[home[s]][s] # None
    BY <2>2 DEF AllStored, Stored
  <2>. QED BY <2>1, <2>3 DEF Served
<1>. QED BY <1>1, <1>2, <1>3, PTL DEF Spec

-----------------------------------------------------------------------------
(* No copy is older than the last change that reached every copy.           *)

Recent(v, s) == v = None \/ v >= fresh[s]

UpToDate(s) ==
  /\ Recent(redis[s], s) /\ \A n \in Node : Recent(mem[n][s], s) /\ Recent(rows[n][s], s)
  /\ \A r \in Thread : Owns(r, s) /\ req[r].pc \in Carrying => Recent(req[r].val, s)
  /\ \A r \in Thread : At(r, "updRedis") /\ req[r].sess = s /\ req[r].alone =>
       mem[req[r].node][s] \in {None, req[r].val}
  /\ \A r \in Thread : Granting(r) => Recent(req[r].val, s)

LEMMA FreshKnown ==
  ASSUME Typed, NEW s \in Session
  PROVE  /\ fresh[s] \in Version /\ Version \subseteq Int /\ None \in Version
         /\ Recent(perm, s) /\ Recent(Cleared, s)
         /\ fresh[s] = None => \A v \in Version : Recent(v, s)
<1>1. fresh[s] \in {None} \cup 0 .. perm /\ perm \in 0 .. MaxEvents /\ MaxEvents \in Nat
  BY SessionsAssumption DEF Typed, CountsTyped, HistoryTyped
<1>. QED BY <1>1 DEF Version, None, Cleared, Recent

\* a step that leaves fresh[s] as it is
LEMMA RequestUpToDate ==
  ASSUME Typed, Typed', Orderly, NEW r \in Thread, Moves(r), Acts(r), Writes(r), New(r)',
         NEW s \in Session, UpToDate(s), fresh'[s] = fresh[s]
  PROVE  UpToDate(s)'
<1>1. \A v : Recent(v, s)' <=> Recent(v, s)
  BY DEF Recent
<1>2. /\ Recent(redis[s], s) /\ \A n \in Node : Recent(mem[n][s], s) /\ Recent(rows[n][s], s)
      /\ Owns(r, s) /\ req[r].pc \in Carrying => Recent(req[r].val, s)
      /\ Granting(r) => Recent(req[r].val, s)
      /\ Recent(None, s)
  BY DEF UpToDate, Recent
<1>3. Recent(redis'[s], s)
  BY <1>2 DEF Writes
<1>4. \A n \in Node : Recent(mem'[n][s], s) /\ Recent(rows'[n][s], s)
  BY <1>2 DEF Writes, Acts, Touches
<1>5. /\ \A x \in Thread \ {r} : Like(req'[x], req[x]) /\ (req'[x].alone => req[x].alone)
      /\ s # 0
  BY Ids, SessionsAssumption DEF Acts, Touches, Went
<1>6. ASSUME NEW x \in Thread, Owns(x, s)', req'[x].pc \in Carrying
      PROVE  Recent(req'[x].val, s)
  <2>1. CASE x # r
    BY <1>5, <1>6, <2>1 DEF UpToDate, Like, Owns, At
  <2>2. CASE x = r
    <3>. SUFFICES Recent(req'[r].val, s)
      BY <2>2
    <3>1. req'[r].sess = s /\ req'[r].pc \in Carrying /\ req'[r].val \in Version'
      BY <1>6, <2>2 DEF Owns, Typed, RequestsTyped, Knows
    <3>2. CASE s = req'[r].make
      <4>1. fresh'[s] = None
        BY <1>5, <3>2 DEF New
      <4>2. req'[r].val = None \/ req'[r].val \in Nat
        BY <3>1, SessionsAssumption DEF Typed, CountsTyped, Version, Cleared
      <4>. QED BY <4>1, <4>2 DEF Recent, None
    <3>3. CASE req'[r].val \in {perm, Cleared}
      BY <3>3, FreshKnown
    <3>6. CASE Granting(r) /\ req'[r].val = req[r].val
      BY <1>2, <3>6
    <3>4. CASE Owns(r, s) /\ req[r].pc \in Carrying /\ req'[r].val = req[r].val
      BY <1>2, <3>4
    <3>5. CASE req'[r].val = redis[s] \/ \E n \in Node : req'[r].val = mem[n][s]
      BY <1>2, <3>5
    <3>. QED BY <3>1, <3>2, <3>3, <3>4, <3>5, <3>6 DEF Writes
  <2>. QED BY <2>1, <2>2
<1>8. ASSUME NEW x \in Thread, Granting(x)' PROVE Recent(req'[x].val, s)
  <2>1. CASE x # r
    BY <1>5, <1>8, <2>1 DEF UpToDate, Like, Granting, At
  <2>2. CASE x = r
    BY <1>2, <1>8, <2>2, FreshKnown, GrantingMoves
  <2>. QED BY <2>1, <2>2
<1>7. ASSUME NEW x \in Thread, At(x, "updRedis")', req'[x].sess = s, req'[x].alone
      PROVE  mem'[req'[x].node][s] \in {None, req'[x].val}
  <2>1. CASE x # r
    <3>1. At(x, "updRedis") /\ req[x].sess = s /\ req[x].alone /\ Like(req'[x], req[x])
      BY <1>5, <1>7, <2>1 DEF Like, At
    <3>2. ~Owns(r, s)
      BY <2>1, <3>1 DEF Orderly, Lonely, At
    <3>3. req[x].node \in Node
      BY <3>1 DEF Typed, RequestsTyped, Knows, At
    <3>4. mem'[req[x].node][s] = mem[req[x].node][s]
      BY <3>2, <3>3 DEF Acts, Touches
    <3>. QED BY <3>1, <3>4 DEF UpToDate, Like
  <2>2. CASE x = r
    <3>1. req'[r].node \in Node
      BY <1>7, <2>2 DEF Typed, RequestsTyped, Knows, At
    <3>. QED BY <1>7, <2>2, <3>1 DEF Writes, At
  <2>. QED BY <2>1, <2>2
<1>. QED BY <1>1, <1>3, <1>4, <1>6, <1>7, <1>8 DEF UpToDate

\* a step that brings a change of the permissions to the last copy of s
LEMMA ChangeUpToDate ==
  ASSUME Typed, Typed', Orderly, NEW r \in Thread, Moves(r), Acts(r), Writes(r),
         NEW s \in Session, UpToDate(s), fresh'[s] # fresh[s]
  PROVE  UpToDate(s)'
<1>1. /\ At(r, "updRedis") /\ Owns(r, s) /\ req[r].alone /\ req'[r].pc \in {"idle", "get"}
      /\ fresh'[s] = req[r].val /\ redis'[s] = req[r].val
  BY DEF Writes
<1>2. PICK n, v : n = req[r].node /\ v = req[r].val
  OBVIOUS
<1>3. n \in Node /\ v \in Int /\ req[r].sess = s /\ fresh'[s] = v
  BY <1>1, <1>2 DEF Typed, RequestsTyped, Req, Knows, Owns, At
<1>4. /\ \A x \in Thread \ {r} : ~Owns(x, s)
      /\ \A m \in Node : rows[m][s] = None /\ (m # n => mem[m][s] = None)
      /\ mem[n][s] \in {None, v}
  BY <1>1, <1>2, <1>3 DEF Orderly, Lonely, Owns, At, UpToDate
<1>5. \A m \in Node : rows'[m][s] = None /\ mem'[m][s] \in {None, v}
  BY <1>1, <1>4 DEF Acts, Touches, At
<1>6. /\ Recent(redis[s], s)' /\ \A m \in Node : Recent(mem[m][s], s)' /\ Recent(rows[m][s], s)'
  BY <1>1, <1>3, <1>5 DEF Recent
<1>7. ASSUME NEW x \in Thread, Owns(x, s)' PROVE req'[x].pc \notin Carrying
  <2>1. CASE x # r
    BY <1>4, <1>7, <2>1 DEF Acts, Touches, Went, Like, Owns, At
  <2>2. CASE x = r
    BY <1>1, <2>2 DEF Carrying
  <2>. QED BY <2>1, <2>2
<1>8. ASSUME NEW x \in Thread, At(x, "updRedis")', req'[x].sess = s PROVE FALSE
  BY <1>7, <1>8 DEF Owns, At, Carrying
<1>9. ASSUME NEW x \in Thread, Granting(x)' PROVE Recent(req[x].val, s)'
  <2>1. x = r
    BY <1>1, <1>9 DEF Writes, Acts, Touches, Went, Like, Granting, At
  <2>2. req'[r].val \in {perm, Cleared} \/ req'[r].val = v
    BY <1>2, <1>9, <2>1, GrantingMoves
  <2>3. v \in {None, Cleared} \cup 0 .. perm /\ fresh'[s] \in {None} \cup 0 .. perm'
    BY <1>1, <1>2 DEF Typed, RequestsTyped, Knows, Version, HistoryTyped
  <2>. QED BY <1>3, <2>1, <2>2, <2>3, SessionsAssumption DEF Recent, Typed, CountsTyped, Cleared, None
<1>. QED BY <1>6, <1>7, <1>8, <1>9 DEF UpToDate

LEMMA RestartUpToDate ==
  ASSUME Typed, NEW n \in Node, Restart(n), NEW s \in Session, UpToDate(s)
  PROVE  UpToDate(s)'
<1>1. PICK read \in {table, Empty} :
       LET found == {u \in Session : read[u] # None} IN
       /\ rows' = [rows EXCEPT ![n] = read]
       /\ req' = [r \in Thread |->
            IF req[r].node = n THEN Idle
            ELSE IF req[r].sess \in found THEN [req[r] EXCEPT !.alone = FALSE] ELSE req[r]]
       /\ fresh' = [u \in Session |-> IF u \in found /\ read[u] < fresh[u] THEN None ELSE fresh[u]]
  BY DEF Restart
<1>2. /\ redis' = redis /\ mem' = [mem EXCEPT ![n] = Empty]
      /\ \A m \in Node : mem'[m][s] = IF m = n THEN None ELSE mem[m][s]
      /\ \A m \in Node : rows'[m][s] = IF m = n THEN read[s] ELSE rows[m][s]
      /\ read[s] \in Version
  BY <1>1 DEF Restart, ForgetNode, Typed, CopiesTyped, Empty, Version
<1>3. fresh[s] \in Version /\ Version \subseteq Int /\ \A v \in Version : v >= None
  BY FreshKnown, SessionsAssumption DEF Version, None, Cleared, Typed, CountsTyped
<1>4. /\ fresh'[s] = fresh[s] \/ fresh'[s] = None
      /\ read[s] # None => read[s] >= fresh'[s]
  BY <1>1, <1>2, <1>3
<1>5. ASSUME NEW v \in Version, Recent(v, s) PROVE Recent(v, s)'
  BY <1>3, <1>4, <1>5 DEF Recent
<1>6. /\ Recent(redis[s], s)' /\ \A m \in Node : Recent(mem[m][s], s)' /\ Recent(rows[m][s], s)'
  <2>1. Recent(redis[s], s)'
    <3>1. redis[s] \in Version /\ Recent(redis[s], s) /\ redis'[s] = redis[s]
      BY <1>2 DEF Typed, CopiesTyped, UpToDate
    <3>. QED BY <1>3, <1>4, <3>1 DEF Recent
  <2>2. ASSUME NEW m \in Node PROVE Recent(mem[m][s], s)' /\ Recent(rows[m][s], s)'
    <3>1. /\ mem[m][s] \in Version /\ Recent(mem[m][s], s) /\ rows[m][s] \in Version
          /\ Recent(rows[m][s], s)
      BY DEF Typed, CopiesTyped, UpToDate
    <3>. QED BY <1>2, <1>3, <1>4, <3>1 DEF Recent
  <2>. QED BY <2>1, <2>2
<1>7. ASSUME NEW x \in Thread, req'[x].pc # "idle"
      PROVE  Like(req'[x], req[x]) /\ req[x].node # n /\ (req'[x].alone => req[x].alone)
  <2>1. req[x] \in Req
    BY DEF Typed, RequestsTyped
  <2>. QED BY <1>1, <1>7, <2>1, IdleKnows DEF Like, Req
<1>8. ASSUME NEW x \in Thread, Owns(x, s)', req'[x].pc \in Carrying
      PROVE  Recent(req[x].val, s)'
  <2>1. req[x].val \in Version /\ Recent(req[x].val, s) /\ req'[x].val = req[x].val
    BY <1>7, <1>8 DEF Typed, RequestsTyped, Knows, UpToDate, Owns, At, Like
  <2>. QED BY <1>3, <1>4, <2>1 DEF Recent
<1>9. ASSUME NEW x \in Thread, At(x, "updRedis")', req'[x].sess = s, req'[x].alone
      PROVE  mem'[req'[x].node][s] \in {None, req'[x].val}
  <2>1. /\ At(x, "updRedis") /\ req[x].sess = s /\ req[x].alone /\ Like(req'[x], req[x])
        /\ req[x].node # n
    BY <1>7, <1>9 DEF At, Like
  <2>2. req[x].node \in Node
    BY <2>1 DEF Typed, RequestsTyped, Knows, At
  <2>. QED BY <1>2, <2>1, <2>2 DEF UpToDate, Like
<1>10. ASSUME NEW x \in Thread, Granting(x)' PROVE Recent(req[x].val, s)'
  <2>1. req'[x] # Idle
    BY <1>10 DEF Granting, Idle
  <2>2. Like(req'[x], req[x])
    <3>1. req[x] \in Req
      BY DEF Typed, RequestsTyped
    <3>. QED BY <1>1, <2>1, <3>1 DEF Like, Req
  <2>3. Granting(x) /\ req'[x].val = req[x].val
    BY <1>10, <2>2 DEF Granting, At, Like
  <2>4. req[x].val \in Version /\ Recent(req[x].val, s)
    BY <2>3 DEF UpToDate, Typed, RequestsTyped, Knows
  <2>. QED BY <1>3, <1>4, <2>3, <2>4 DEF Recent
<1>. QED BY <1>6, <1>8, <1>9, <1>10 DEF UpToDate

LEMMA RestoreUpToDate ==
  ASSUME Typed, Orderly, NEW n \in Node, NEW u \in Session, NEW ok \in BOOLEAN, Restore(n, u, ok),
         NEW s \in Session, UpToDate(s)
  PROVE  UpToDate(s)'
<1>1. /\ UNCHANGED <<req, fresh>> /\ rows[n][u] # None
      /\ mem' = [mem EXCEPT ![n][u] = rows[n][u]] /\ rows' = [rows EXCEPT ![n][u] = None]
      /\ redis' \in {redis, [redis EXCEPT ![u] = rows[n][u]]}
  BY DEF Restore, RestoreOne, SetStore, SetEx, Command
<1>2. /\ redis'[s] \in {redis[s], rows[n][s]}
      /\ \A m \in Node : mem'[m][s] \in {mem[m][s], rows[m][s]} /\ rows'[m][s] \in {None, rows[m][s]}
      /\ s # u => \A m \in Node : mem'[m][s] = mem[m][s]
  BY <1>1 DEF Typed, CopiesTyped
<1>3. Recent(redis'[s], s)
  BY <1>2 DEF UpToDate
<1>4. ASSUME NEW m \in Node PROVE Recent(mem'[m][s], s) /\ Recent(rows'[m][s], s)
  BY <1>2 DEF UpToDate, Recent
<1>5. ASSUME NEW x \in Thread, At(x, "updRedis"), req[x].sess = s, req[x].alone
      PROVE  mem'[req[x].node][s] \in {None, req[x].val}
  <2>1. s # u
    BY <1>1, <1>5 DEF Orderly, Lonely, At
  <2>2. req[x].node \in Node
    BY <1>5 DEF Typed, RequestsTyped, Knows, At
  <2>. QED BY <1>2, <1>5, <2>1, <2>2 DEF UpToDate
<1>6. \A v : Recent(v, s)' <=> Recent(v, s)
  BY <1>1 DEF Recent
<1>7. ASSUME NEW x \in Thread, Granting(x)' PROVE Recent(req'[x].val, s)
  BY <1>1, <1>7 DEF UpToDate, Granting, At
<1>. QED BY <1>1, <1>3, <1>4, <1>5, <1>6, <1>7 DEF UpToDate, Owns, At

AllUpToDate == \A s \in Session : UpToDate(s)

LEMMA UpToDateStep ==
  ASSUME Typed, Typed', Orderly, AllUpToDate, [Next]_vars
  PROVE  AllUpToDate'
<1>1. ASSUME NEW r \in Thread, Moves(r), NEW s \in Session PROVE UpToDate(s)'
  <2>1. Acts(r) /\ Writes(r)
    BY <1>1, MovesAct, MovesWrite
  <2>2. New(r)'
    BY <2>1, SelfNew DEF Acts
  <2>. QED BY <1>1, <2>1, <2>2, RequestUpToDate, ChangeUpToDate DEF AllUpToDate
<1>2. ASSUME NEW n \in Node, Restart(n) PROVE AllUpToDate'
  BY <1>2, RestartUpToDate DEF AllUpToDate
<1>3. ASSUME NEW n \in Node, NEW u \in Session, NEW ok \in BOOLEAN, Restore(n, u, ok) PROVE AllUpToDate'
  BY <1>3, RestoreUpToDate DEF AllUpToDate
<1>4. ASSUME UNCHANGED <<mem, rows, req, fresh>>, \A s \in Session : redis'[s] \in {redis[s], None}
      PROVE  AllUpToDate'
  BY <1>4 DEF AllUpToDate, UpToDate, Recent, Owns, Granting, At
<1>5. RedisRestart \/ (\E n \in Node : LinkStep(n)) \/ (\E r \in Thread : Statement(r))
      \/ UNCHANGED vars =>
        UNCHANGED <<mem, rows, req, fresh>> /\ \A s \in Session : redis'[s] \in {redis[s], None}
  BY DEF Statement, RedisRestart, RedisEmptied, LinkStep, LinkChange, history, vars, cacheVars, Empty
<1>6. CASE \E r \in Thread : Moves(r)
  BY <1>1, <1>6 DEF AllUpToDate
<1>. QED BY <1>2, <1>3, <1>4, <1>5, <1>6 DEF Next, Moves

(* Once a change of the permissions has reached a session, no node serves   *)
(* the session with older ones, with the exceptions PermissionsFresh        *)
(* states.  What makes it inductive: nobody is about to write a copy with   *)
(* older ones, and a grant at work holds none.                              *)
THEOREM SessionsPermissionsFresh == Spec => []PermissionsFresh
<1>1. Init => Typed /\ Orderly /\ AllUpToDate
  BY TypedInit, OrderlyInit, IdleKnows
  DEF Init, CacheInit, Empty, AllUpToDate, UpToDate, Recent, Owns, Granting, At, None, Idle
<1>2. Typed /\ Orderly /\ AllUpToDate /\ [Next]_vars => (Typed /\ Orderly /\ AllUpToDate)'
  BY SoundStep, UpToDateStep
<1>3. Typed /\ AllUpToDate => PermissionsFresh
  <2>. SUFFICES ASSUME Typed, AllUpToDate, NEW n \in Node, NEW s \in Session, Served(n, s) # None
                PROVE  Served(n, s) >= fresh[s]
    BY DEF PermissionsFresh
  <2>1. Served(n, s) \in {redis[s], mem[n][s]}
    BY DEF Served, RedisSeenBy, Synced
  <2>. QED BY <2>1 DEF AllUpToDate, UpToDate, Recent
<1>. QED BY <1>1, <1>2, <1>3, PTL DEF Spec

-----------------------------------------------------------------------------
(* What a node has in memory is in Redis, or will be.                       *)

\* the session is in Redis, or node n knows that Redis misses something
Noticed(n, s) == redis[s] # None \/ lastAvail[n] = "down" \/ needSync[n]

\* s has been logged in, or is being logged in without another request in between
Counted(s) == s \in kept \/ \E r \in Thread : Owns(r, s) /\ req[r].make = s /\ req[r].alone

Syncing(n, s) == \E r \in Thread : Owns(r, s) /\ At(r, "setRedis") /\ req[r].node = n

Synchronised(s) ==
  /\ s \in kept => \A r \in Thread : Owns(r, s) => ~At(r, "delRedis")
  /\ \A n \in Node : mem[n][s] # None /\ s \notin missed /\ Counted(s) => Noticed(n, s) \/ Syncing(n, s)

\* r deletes the copy of s in Redis
Deletes(r, s) == At(r, "delRedis") /\ Owns(r, s)

(* What a step of a request does to what node n notices of session s.       *)
Notices(r) ==
  \A n \in Node, s \in Session :
    /\ ~Deletes(r, s) /\ s \notin missed' /\ mem[n][s] # None /\ Noticed(n, s) => Noticed(n, s)'
    /\ At(r, "setRedis") /\ Owns(r, s) /\ n = req[r].node /\ s \notin missed' => Noticed(n, s)'
    /\ s \notin missed' => s \notin missed

LEMMA CommandNotices ==
  ASSUME Typed, NEW m \in Node, NEW ok \in BOOLEAN, NEW after, Command(m, ok, after),
         NEW n \in Node, NEW s \in Session, after[s] # None \/ after[s] = redis[s]
  PROVE  /\ Noticed(n, s) => Noticed(n, s)'
         /\ n = m /\ ok /\ after[s] # None => Noticed(n, s)'
<1>1. /\ lastAvail' = [lastAvail EXCEPT ![m] = IF link[m] THEN "up" ELSE "down"]
      /\ needSync' = [needSync EXCEPT ![m] = needSync[m] \/ (link[m] /\ lastAvail[m] = "down")]
      /\ redis' = IF link[m] /\ ok THEN after ELSE redis
  BY DEF Command, Available, Remember, NeedsSync, CameBack
<1>2. /\ lastAvail'[n] = IF n = m THEN (IF link[m] THEN "up" ELSE "down") ELSE lastAvail[n]
      /\ needSync'[n] = IF n = m THEN (needSync[m] \/ (link[m] /\ lastAvail[m] = "down")) ELSE needSync[n]
  BY <1>1 DEF Typed, CopiesTyped
<1>3. redis[s] # None => redis'[s] # None
  BY <1>1
<1>. QED BY <1>1, <1>2, <1>3 DEF Noticed

LEMMA GetNotices ==
  ASSUME Typed, NEW m \in Node, NEW ok \in BOOLEAN, Get(m, ok) \/ GetAll(m, ok),
         Misses({s \in Session : mem[m][s] # None}, ok),
         NEW n \in Node, NEW s \in Session, s \notin missed', mem[n][s] # None, Noticed(n, s)
  PROVE  Noticed(n, s)'
<1>1. redis[s] # None => redis'[s] # None
  <2>1. redis' \in {redis, RedisSeenBy(m)}
    BY GetTyped DEF Typed
  <2>. QED BY <2>1 DEF RedisSeenBy, Synced
<1>2. CASE Get(m, ok)
  <2>1. /\ lastAvail' = [lastAvail EXCEPT ![m] = IF link[m] THEN "up" ELSE "down"]
        /\ needSync' = [needSync EXCEPT ![m] = ~link[m] /\ needSync[m]]
        /\ redis' = IF link[m] /\ ok THEN RedisSeenBy(m) ELSE redis
    BY <1>2 DEF Get, Remember
  <2>2. CASE n # m
    BY <1>1, <2>1, <2>2 DEF Typed, CopiesTyped, Noticed
  <2>3. CASE n = m /\ ~link[m]
    BY <2>1, <2>3 DEF Typed, CopiesTyped, Noticed
  <2>4. CASE n = m /\ link[m]
    <3>1. ok
      BY <2>4 DEF Misses
    <3>2. redis' = IF needSync[m] \/ lastAvail[m] = "down" THEN Synced(m) ELSE redis
      BY <2>1, <2>4, <3>1 DEF RedisSeenBy, NeedsSync, CameBack
    <3>. QED BY <1>1, <2>4, <3>2 DEF Noticed, Synced
  <2>. QED BY <2>2, <2>3, <2>4
<1>3. CASE ~Get(m, ok)
  <2>1. Available(m) /\ redis' = redis
    BY <1>3 DEF GetAll
  <2>2. Command(m, TRUE, redis)
    BY <2>1 DEF Command
  <2>. QED BY <2>2, CommandNotices
<1>. QED BY <1>2, <1>3

LEMMA MovesNotice ==
  ASSUME Typed, NEW r \in Thread, Moves(r)
  PROVE  Notices(r)
<1>1. ASSUME UNCHANGED <<redis, lastAvail, needSync, missed>>, ~At(r, "setRedis") PROVE Notices(r)
  BY <1>1 DEF Notices, Noticed
<1>2. ASSUME NEW ok \in BOOLEAN, Look(r, ok) \/ Kick(r, ok) PROVE Notices(r)
  <2>1. req[r].node \in Node /\ ~At(r, "setRedis")
    BY <1>2 DEF Look, Kick, At, Typed, RequestsTyped, Knows
  <2>2. Misses({s \in Session : mem[req[r].node][s] # None}, ok)
        /\ (Get(req[r].node, ok) \/ GetAll(req[r].node, ok)) /\ missed \subseteq missed'
    BY <1>2 DEF Look, Kick, Misses
  <2>. QED BY <2>1, <2>2, GetNotices DEF Notices
<1>3. ASSUME NEW ok \in BOOLEAN, SetRedis(r, ok) \/ UpdRedis(r, ok) PROVE Notices(r)
  <2>1. PICK m, u, v : m = req[r].node /\ u = req[r].sess /\ v = req[r].val
    OBVIOUS
  <2>2. m \in Node /\ u \in Session /\ v # None
    BY <1>3, <2>1 DEF SetRedis, UpdRedis, At, Typed, RequestsTyped, Knows, Numbered, Writing
  <2>3. PICK after : after = [redis EXCEPT ![u] = v] /\ Command(m, ok, after) /\ Misses({u}, ok)
    BY <1>3, <2>1 DEF SetRedis, UpdRedis, SetEx
  <2>4. \A s \in Session : after[s] = IF s = u THEN v ELSE redis[s]
    BY <2>3 DEF Typed, CopiesTyped
  <2>5. ASSUME NEW n \in Node, NEW s \in Session, s \notin missed'
        PROVE  /\ Noticed(n, s) => Noticed(n, s)'
               /\ n = m /\ s = u => Noticed(n, s)'
               /\ s \notin missed
    <3>1. s = u => ok
      BY <2>3, <2>5 DEF Misses
    <3>2. s \notin missed
      BY <2>3, <2>5 DEF Misses
    <3>3. /\ Noticed(n, s) => Noticed(n, s)'
          /\ n = m /\ ok /\ after[s] # None => Noticed(n, s)'
      <4>1. after[s] # None \/ after[s] = redis[s]
        BY <2>2, <2>4
      <4>2. Command(m, ok, after) /\ m \in Node
        BY <2>2, <2>3
      <4>. QED BY <4>1, <4>2, CommandNotices
    <3>. QED BY <2>2, <2>4, <3>1, <3>2, <3>3
  <2>. QED BY <2>1, <2>5 DEF Notices, Owns
<1>4. ASSUME NEW ok \in BOOLEAN, DelRedis(r, ok) PROVE Notices(r)
  <2>1. PICK m, u : m = req[r].node /\ u = req[r].sess
    OBVIOUS
  <2>2. m \in Node /\ u \in Session /\ Deletes(r, u) /\ ~At(r, "setRedis") /\ missed' = missed
    BY <1>4, <2>1 DEF DelRedis, At, Typed, RequestsTyped, Knows, Numbered, Deletes, Owns, history
  <2>3. Command(m, ok, [redis EXCEPT ![u] = None])
    BY <1>4, <2>1 DEF DelRedis, Del
  <2>4. \A s \in Session : s # u => [redis EXCEPT ![u] = None][s] = redis[s]
    BY DEF Typed, CopiesTyped
  <2>5. ASSUME NEW n \in Node, NEW s \in Session, ~Deletes(r, s), Noticed(n, s) PROVE Noticed(n, s)'
    BY <2>2, <2>3, <2>4, <2>5, CommandNotices
  <2>. QED BY <2>2, <2>5 DEF Notices
<1>5. ASSUME NEW ok \in BOOLEAN, Step(r, ok) PROVE Notices(r)
  <2>1. CASE \/ Insert(r, ok) \/ DelRow(r, ok) \/ SelectKeys(r, ok) \/ Query(r, ok)
             \/ UpdRow(r, ok)
    BY <1>1, <2>1 DEF Insert, DelRow, SelectKeys, Query, UpdRow, cacheVars, history, At
  <2>. QED BY <1>2, <1>3, <1>4, <1>5, <2>1 DEF Step
<1>6. CASE \/ \E n \in Node : Login(r, n) \/ \E kind \in Changes : Change(r, n, kind)
           \/ \E n \in Node, kind \in Kinds, s \in used : Request(r, n, kind, s)
  BY <1>1, <1>6 DEF Login, Change, Request, Enters, cacheVars, history, At
<1>7. CASE SetMem(r) \/ DelMem(r) \/ UpdMem(r)
  BY <1>1, <1>7 DEF SetMem, DelMem, UpdMem, cacheVars, history, At
<1>. QED BY <1>5, <1>6, <1>7 DEF Moves

LEMMA RequestSynchronised ==
  ASSUME Typed, Typed', Orderly, NEW r \in Thread, Acts(r), Writes(r), Notices(r), New(r)',
         NEW s \in Session, Synchronised(s)
  PROVE  Synchronised(s)'
<1>1. /\ s # 0 /\ Knows(req[r]) /\ New(r)
      /\ \A x \in Thread \ {r} : /\ Like(req'[x], req[x]) /\ (req'[x].alone => req[x].alone)
                                 /\ Lonely(x)
  BY Ids, SessionsAssumption DEF Typed, RequestsTyped, Orderly, Acts, Touches, Went
<1>2. s \in kept' /\ s \notin kept => /\ At(r, "insert") /\ s = req[r].make /\ req[r].alone
                                      /\ Owns(r, s) /\ Lonely(r)
  BY <1>1 DEF Writes, Knows, Writing, Owns, At, Orderly
<1>3. ASSUME s \in kept', NEW x \in Thread, Owns(x, s)' PROVE ~At(x, "delRedis")'
  <2>1. CASE x # r
    <3>1. Owns(x, s) /\ req'[x].pc = req[x].pc
      BY <1>1, <1>3, <2>1 DEF Like, Owns, At
    <3>2. s \in kept
      BY <1>2, <1>3, <2>1, <3>1 DEF Lonely, Owns, At
    <3>. QED BY <3>1, <3>2 DEF Synchronised, At
  <2>2. CASE x = r
    <3>. SUFFICES ASSUME req'[r].pc = "delRedis" PROVE FALSE
      BY <2>2 DEF At
    <3>1. At(r, "delMem") /\ Owns(r, s)
      BY <1>3, <2>2 DEF Writes, Acts, Advances, Owns, At
    <3>. QED BY <1>3, <3>1 DEF Writes
  <2>. QED BY <2>1, <2>2
<1>4. ASSUME NEW n \in Node, mem'[n][s] # None, s \notin missed', Counted(s)'
      PROVE  Noticed(n, s)' \/ Syncing(n, s)'
  <2>1. CASE mem[n][s] = None
    <3>1. At(r, "setMem") /\ Owns(r, s) /\ n = req[r].node
      BY <1>4, <2>1 DEF Writes
    <3>2. At(r, "setRedis")' /\ Owns(r, s)' /\ req'[r].node = n
      BY <3>1 DEF Writes, Owns, At
    <3>. QED BY <3>2 DEF Syncing
  <2>2. CASE mem[n][s] # None
    <3>1. Counted(s)
      <4>1. CASE s \in kept'
        BY <1>2, <4>1 DEF Counted
      <4>2. ASSUME NEW x \in Thread, Owns(x, s)', req'[x].make = s, req'[x].alone PROVE Counted(s)
        <5>1. CASE x # r
          BY <1>1, <4>2, <5>1 DEF Counted, Like, Owns, At
        <5>2. CASE x = r
          <6>1. ~Making(r)'
            BY <1>1, <1>4, <4>2, <5>2 DEF New, Blank
          <6>2. req'[r].pc \in {"setRedis", "insert"} /\ req'[r].sess = s
            BY <1>1, <4>2, <5>2, <6>1 DEF Making, Owns, At
          <6>3. Owns(r, s) /\ req[r].make = s
            BY <1>1, <4>2, <5>2, <6>2 DEF Acts, Advances
          <6>4. req[r].alone
            BY <1>1, <4>2, <5>2, <6>2, <6>3 DEF Acts, Touches, Went, TurnsTo, GoesOnWith
          <6>. QED BY <6>3, <6>4 DEF Counted
        <5>. QED BY <5>1, <5>2
      <4>. QED BY <1>4, <4>1, <4>2 DEF Counted
    <3>2. s \notin missed
      BY <1>4 DEF Notices
    <3>3. Noticed(n, s) \/ Syncing(n, s)
      BY <2>2, <3>1, <3>2 DEF Synchronised
    <3>4. ~Deletes(r, s)
      <4>1. s \in kept => ~Deletes(r, s)
        BY DEF Synchronised, Deletes
      <4>2. ASSUME NEW x \in Thread, Owns(x, s), req[x].make = s, req[x].alone PROVE ~Deletes(r, s)
        <5>1. CASE x # r
          BY <1>1, <4>2, <5>1 DEF Lonely, Deletes, Owns, At
        <5>2. CASE x = r
          BY <1>1, <4>2, <5>2 DEF New, Making, Deletes, Owns, At, Removing
        <5>. QED BY <5>1, <5>2
      <4>. QED BY <3>1, <4>1, <4>2 DEF Counted
    <3>5. CASE Noticed(n, s)
      BY <1>4, <2>2, <3>4, <3>5 DEF Notices
    <3>6. ASSUME NEW x \in Thread, Owns(x, s), At(x, "setRedis"), req[x].node = n
          PROVE  Noticed(n, s)' \/ Syncing(n, s)'
      <4>1. CASE x = r
        BY <1>4, <3>6, <4>1 DEF Notices
      <4>2. CASE x # r
        BY <1>1, <3>6, <4>2 DEF Syncing, Like, Owns, At
      <4>. QED BY <4>1, <4>2
    <3>. QED BY <3>3, <3>5, <3>6 DEF Syncing
  <2>. QED BY <2>1, <2>2
<1>. QED BY <1>3, <1>4 DEF Synchronised

LEMMA RestartSynchronised ==
  ASSUME Typed, NEW m \in Node, Restart(m), NEW s \in Session, Synchronised(s)
  PROVE  Synchronised(s)'
<1>1. PICK found : /\ req' = [r \in Thread |->
                         IF req[r].node = m THEN Idle
                         ELSE IF req[r].sess \in found THEN [req[r] EXCEPT !.alone = FALSE] ELSE req[r]]
                   /\ kept' \subseteq kept
  BY DEF Restart
<1>2. /\ missed' = missed /\ redis' = redis
      /\ \A n \in Node : n # m => lastAvail'[n] = lastAvail[n] /\ needSync'[n] = needSync[n]
                                  /\ mem'[n][s] = mem[n][s]
      /\ mem'[m][s] = None
  BY DEF Restart, ForgetNode, Typed, CopiesTyped, Empty
<1>3. ASSUME NEW x \in Thread
      PROVE  /\ Owns(x, s)' => Owns(x, s) /\ Like(req'[x], req[x]) /\ (req'[x].alone => req[x].alone)
             /\ req[x].node # m => Like(req'[x], req[x])
  <2>1. req[x] \in Req /\ s # 0
    BY Ids, SessionsAssumption DEF Typed, RequestsTyped
  <2>2. CASE req'[x] = Idle /\ req[x].node = m
    BY <2>1, <2>2, IdleKnows DEF Owns, At
  <2>3. CASE req[x].node # m /\ req'[x] \in {req[x], [req[x] EXCEPT !.alone = FALSE]}
    <3>1. Like(req'[x], req[x]) /\ (req'[x].alone => req[x].alone)
      BY <2>1, <2>3 DEF Like, Req
    <3>. QED BY <2>3, <3>1 DEF Like, Owns, At
  <2>. QED BY <1>1, <2>2, <2>3
<1>4. Counted(s)' => Counted(s)
  BY <1>1, <1>3 DEF Counted, Like
<1>5. ASSUME NEW n \in Node, mem'[n][s] # None, s \notin missed', Counted(s)'
      PROVE  Noticed(n, s)' \/ Syncing(n, s)'
  <2>1. n # m /\ (Noticed(n, s) \/ Syncing(n, s))
    BY <1>2, <1>4, <1>5 DEF Synchronised
  <2>2. Noticed(n, s) => Noticed(n, s)'
    BY <1>2, <2>1 DEF Noticed
  <2>3. Syncing(n, s) => Syncing(n, s)'
    BY <1>3, <2>1 DEF Syncing, Like, Owns, At
  <2>. QED BY <2>1, <2>2, <2>3
<1>6. s \in kept' => \A x \in Thread : Owns(x, s)' => ~At(x, "delRedis")'
  BY <1>1, <1>3 DEF Synchronised, Like, At
<1>. QED BY <1>5, <1>6 DEF Synchronised

LEMMA RestoreSynchronised ==
  ASSUME Typed, NEW m \in Node, NEW u \in Session, NEW ok \in BOOLEAN, Restore(m, u, ok),
         NEW s \in Session, Synchronised(s)
  PROVE  Synchronised(s)'
<1>1. PICK after : /\ after = [redis EXCEPT ![u] = rows[m][u]] /\ Command(m, ok, after) /\ Misses({u}, ok)
                   /\ mem' = [mem EXCEPT ![m][u] = rows[m][u]] /\ rows[m][u] # None
                   /\ UNCHANGED <<req, kept>>
  BY DEF Restore, RestoreOne, SetStore, SetEx
<1>2. /\ after[s] # None \/ after[s] = redis[s]
      /\ s = u => after[s] # None
      /\ \A n \in Node : (n # m \/ s # u) => mem'[n][s] = mem[n][s]
  BY <1>1 DEF Typed, CopiesTyped
<1>3. missed \subseteq missed' /\ (s = u /\ s \notin missed' => ok)
  BY <1>1 DEF Misses
<1>4. Counted(s)' => Counted(s)
  BY <1>1 DEF Counted, Owns, At
<1>5. ASSUME NEW n \in Node, mem'[n][s] # None, s \notin missed', Counted(s)'
      PROVE  Noticed(n, s)' \/ Syncing(n, s)'
  <2>1. /\ Noticed(n, s) => Noticed(n, s)'
        /\ n = m /\ ok /\ after[s] # None => Noticed(n, s)'
    BY <1>1, <1>2, CommandNotices
  <2>2. CASE n = m /\ s = u
    BY <1>2, <1>3, <1>5, <2>1, <2>2
  <2>3. CASE n # m \/ s # u
    <3>1. Noticed(n, s) \/ Syncing(n, s)
      BY <1>2, <1>3, <1>4, <1>5, <2>3 DEF Synchronised
    <3>2. Syncing(n, s) => Syncing(n, s)'
      BY <1>1 DEF Syncing, Owns, At
    <3>. QED BY <2>1, <3>1, <3>2
  <2>. QED BY <2>2, <2>3
<1>6. s \in kept' => \A x \in Thread : Owns(x, s)' => ~At(x, "delRedis")'
  BY <1>1 DEF Synchronised, Owns, At
<1>. QED BY <1>5, <1>6 DEF Synchronised

AllSynchronised == \A s \in Session : Synchronised(s)

LEMMA SynchronisedStep ==
  ASSUME Typed, Typed', Orderly, AllSynchronised, [Next]_vars
  PROVE  AllSynchronised'
<1>1. ASSUME NEW r \in Thread, Moves(r), NEW s \in Session PROVE Synchronised(s)'
  <2>1. Acts(r) /\ Writes(r) /\ Notices(r)
    BY <1>1, MovesAct, MovesWrite, MovesNotice
  <2>2. New(r)'
    BY <2>1, SelfNew DEF Acts
  <2>. QED BY <2>1, <2>2, RequestSynchronised DEF AllSynchronised
<1>2. ASSUME NEW n \in Node, Restart(n) PROVE AllSynchronised'
  BY <1>2, RestartSynchronised DEF AllSynchronised
<1>3. ASSUME NEW n \in Node, NEW u \in Session, NEW ok \in BOOLEAN, Restore(n, u, ok)
      PROVE  AllSynchronised'
  BY <1>3, RestoreSynchronised DEF AllSynchronised
<1>4. ASSUME UNCHANGED <<mem, req, kept, lastAvail, needSync>>, missed \subseteq missed',
             \A s \in Session \ missed' : redis'[s] = redis[s]
      PROVE  AllSynchronised'
  BY <1>4 DEF AllSynchronised, Synchronised, Noticed, Syncing, Counted, Owns, At
<1>5. RedisRestart \/ (\E n \in Node : LinkStep(n)) \/ (\E r \in Thread : Statement(r))
      \/ UNCHANGED vars =>
        /\ UNCHANGED <<mem, req, kept, lastAvail, needSync>> /\ missed \subseteq missed'
        /\ \A s \in Session \ missed' : redis'[s] = redis[s]
  BY DEF Statement, RedisRestart, RedisEmptied, LinkStep, LinkChange, history, vars, cacheVars, Empty
<1>6. CASE \E r \in Thread : Moves(r)
  BY <1>1, <1>6 DEF AllSynchronised
<1>. QED BY <1>2, <1>3, <1>4, <1>5, <1>6 DEF Next, Moves

(* A node that takes Redis to be up and has no synchronisation ahead has    *)
(* nothing in memory that the other nodes cannot see in Redis, unless a     *)
(* command was lost or Redis lost its data behind the node's back.          *)
THEOREM SessionsSynchronised == Spec => []NothingUnsynced
<1>1. Init => Typed /\ Orderly /\ AllSynchronised
  BY TypedInit, OrderlyInit DEF Init, CacheInit, Empty, AllSynchronised, Synchronised
<1>2. Typed /\ Orderly /\ AllSynchronised /\ [Next]_vars => (Typed /\ Orderly /\ AllSynchronised)'
  BY SoundStep, SynchronisedStep
<1>3. Typed /\ AllSynchronised => NothingUnsynced
  <2>. SUFFICES ASSUME Typed, AllSynchronised, NEW n \in Node, NEW s \in kept \ missed,
                       lastAvail[n] = "up", ~needSync[n], Busy(s) = {}, mem[n][s] # None
                PROVE  redis[s] # None
    BY DEF NothingUnsynced
  <2>1. s \in Session /\ Counted(s)
    BY DEF Typed, HistoryTyped, Numbered, Counted
  <2>2. ~Syncing(n, s)
    BY DEF Syncing, Busy, Owns, At
  <2>. QED BY <2>1, <2>2 DEF AllSynchronised, Synchronised, Noticed
<1>. QED BY <1>1, <1>2, <1>3, PTL DEF Spec
=============================================================================
