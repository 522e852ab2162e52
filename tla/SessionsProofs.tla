--------------------------- MODULE SessionsProofs ---------------------------
(***************************************************************************)
(* Machine-checked theorems about Sessions, for every set of nodes and of  *)
(* requests, either policy on several sessions, and every bound.           *)
(***************************************************************************)
EXTENDS Sessions, FiniteSetTheorems, TLAPS

-----------------------------------------------------------------------------
(* The types, in full.                                                      *)

Writing == {"setMem", "setRedis", "insert"}
Removing == {"delMem", "delRedis", "delRow"}
Changing == {"query", "updMem", "updRedis", "updRow"}
Pc == {"idle", "getAll", "get", "keys"} \cup Writing \cup Removing \cup Changing

Req == [pc : Pc, kind : Kinds \cup Changes \cup {"none"}, node : Node \cup {NoNode}, sess : Nat,
        val : Int, todo : SUBSET Nat, make : Nat, drop : Nat, alone : BOOLEAN]

CopiesTyped ==
  /\ link \in [Node -> BOOLEAN] /\ needSync \in [Node -> BOOLEAN]
  /\ lastAvail \in [Node -> {"unknown", "up", "down"}]
  /\ mem \in [Node -> [Session -> Version]] /\ rows \in [Node -> [Session -> Version]]
  /\ redis \in [Session -> Version] /\ table \in [Session -> Version]

\* ids are given out one after the other, and only what has an id leaves a trace
Numbered ==
  /\ \E k \in Nat : used = 1 .. k
  /\ used \subseteq Session
  /\ \A s \in Session \ used :
       /\ redis[s] = None /\ table[s] = None /\ \A n \in Node : mem[n][s] = None /\ rows[n][s] = None
       /\ fresh[s] = None /\ home[s] = NoNode

CountsTyped == perm \in 0 .. MaxEvents /\ events \in 0 .. MaxEvents

HistoryTyped ==
  /\ awaited \subseteq Node \X used
  /\ kept \subseteq used /\ closed \subseteq used /\ missed \subseteq used
  /\ fresh \in [Session -> {None} \cup 0 .. perm] /\ home \in [Session -> Node \cup {NoNode}]

(* What a request knows at each of its steps.                               *)
Knows(q) ==
  /\ {q.sess, q.make, q.drop} \subseteq used \cup {0} /\ q.todo \subseteq used /\ q.val \in Version
  /\ q.pc # "idle" => q.node \in Node
  /\ q.pc \in {"idle", "keys"} \/ (q.pc = "query" /\ q.kind = "grant") => q.sess = 0 /\ ~q.alone
  /\ q.pc \notin {"idle", "keys"} /\ ~(q.pc = "query" /\ q.kind = "grant") => q.sess # 0
  /\ q.kind = "grant" /\ q.pc # "query" => q.val # None
  /\ q.make # 0 => q.pc \in {"getAll"} \cup Writing \cup Removing
  /\ q.pc = "getAll" => q.make = q.sess
  /\ q.pc \in Writing /\ q.make # 0 => q.sess = q.make
  /\ q.drop # 0 => q.make # 0
  /\ q.pc \in Writing \cup {"updMem", "updRedis", "updRow"} \/ q.make # 0 => q.val # None

RequestsTyped == req \in [Thread -> Req] /\ \A r \in Thread : Knows(req[r])

Typed == CopiesTyped /\ Numbered /\ CountsTyped /\ HistoryTyped /\ RequestsTyped

-----------------------------------------------------------------------------
(* How a step changes the requests.                                         *)

Owns(r, s) == ~At(r, "idle") /\ req[r].sess = s

\* q and x differ at most in alone
Like(x, q) ==
  /\ x.pc = q.pc /\ x.kind = q.kind /\ x.node = q.node /\ x.sess = q.sess
  /\ x.val = q.val /\ x.todo = q.todo /\ x.make = q.make /\ x.drop = q.drop

\* r turns to session s, or goes on with it, or works on none
TurnsTo(r, s) ==
  /\ s # 0 /\ ~Owns(r, s)
  /\ req'[r].alone => /\ \A x \in Thread \ {r} : ~Owns(x, s)
                      /\ \A m \in Node : rows[m][s] = None /\ (m # req'[r].node => mem[m][s] = None)
  /\ \A x \in Thread \ {r} : Owns(x, s) => ~req'[x].alone
GoesOnWith(r, s) == s # 0 /\ Owns(r, s) /\ (req'[r].alone => req[r].alone)

Went(r) ==
  /\ req' \in [Thread -> Req]
  /\ \A x \in Thread \ {r} : Like(req'[x], req[x]) /\ (req'[x].alone => req[x].alone)
  /\ \/ TurnsTo(r, req'[r].sess) \/ GoesOnWith(r, req'[r].sess)
     \/ req'[r].sess = 0 /\ ~req'[r].alone

Becomes(r, q) == Went(r) /\ Like(req'[r], q)

LEMMA TurnWent ==
  ASSUME RequestsTyped, NEW r \in Thread, NEW q \in Req, Turn(r, q), q.pc # "idle",
         q.sess = 0 => ~q.alone,
         q.sess # 0 /\ Owns(r, q.sess) => (q.alone => req[r].alone)
  PROVE  Becomes(r, q)
<1>. DEFINE turns == q.sess # 0 /\ (q.sess # req[r].sess \/ At(r, "idle"))
            met == IF turns THEN Busy(q.sess) \ {r} ELSE {}
            mine == IF turns THEN [q EXCEPT !.alone = met = {} /\ ~CopyElsewhere(q.node, q.sess)] ELSE q
            others(x) == IF x \in met THEN [req[x] EXCEPT !.alone = FALSE] ELSE req[x]
<1>1. req' = [x \in Thread |-> IF x = r THEN mine ELSE others(x)]
  BY DEF Turn
<1>2. req'[r] = mine /\ \A x \in Thread \ {r} : req'[x] = others(x)
  BY <1>1
<1>3. Like(mine, q) /\ mine \in Req
  BY DEF Like, Req, CopyElsewhere
<1>4. ASSUME NEW x \in Thread \ {r}
      PROVE  /\ Like(req'[x], req[x]) /\ others(x) \in Req
             /\ req'[x].alone => req[x].alone
             /\ x \in met => ~req'[x].alone
  <2>1. req[x] \in Req
    BY DEF RequestsTyped
  <2>2. CASE x \in met
    <3>1. req'[x] = [req[x] EXCEPT !.alone = FALSE] /\ others(x) = req'[x]
      BY <1>2, <2>2
    <3>2. Like(req'[x], req[x]) /\ req'[x].alone = FALSE /\ req'[x] \in Req
      BY <2>1, <3>1 DEF Like, Req
    <3>. QED BY <3>1, <3>2
  <2>3. CASE x \notin met
    <3>1. req'[x] = req[x] /\ others(x) = req'[x]
      BY <1>2, <2>3
    <3>. QED BY <2>1, <2>3, <3>1 DEF Like, Req
  <2>. QED BY <2>2, <2>3
<1>5. req' \in [Thread -> Req]
  <2>. HIDE DEF mine, others
  <2>. QED BY <1>1, <1>3, <1>4
<1>6. CASE ~turns
  <2>1. req'[r] = q
    BY <1>2, <1>6
  <2>2. q.sess = 0 \/ Owns(r, q.sess)
    BY <1>6 DEF Owns
  <2>3. GoesOnWith(r, req'[r].sess) \/ (req'[r].sess = 0 /\ ~req'[r].alone)
    BY <2>1, <2>2 DEF GoesOnWith
  <2>4. Like(req'[r], q)
    BY <2>1 DEF Like
  <2>. QED BY <1>4, <1>5, <2>3, <2>4 DEF Went, Becomes
<1>7. CASE turns
  <2>1. met = {x \in Thread \ {r} : Owns(x, q.sess)}
    BY <1>7 DEF Busy, Owns, At
  <2>2. req'[r].alone => met = {} /\ ~CopyElsewhere(q.node, q.sess)
    BY <1>2, <1>7 DEF Req
  <2>3. req'[r].sess = q.sess /\ req'[r].node = q.node
    BY <1>2, <1>3 DEF Like
  <2>. HIDE DEF mine, met
  <2>4. ~Owns(r, q.sess)
    BY <1>7 DEF Owns
  <2>5. TurnsTo(r, req'[r].sess)
    BY <1>4, <1>7, <2>1, <2>2, <2>3, <2>4 DEF TurnsTo, CopyElsewhere
  <2>. QED BY <1>2, <1>3, <1>4, <1>5, <2>5 DEF Went, Becomes
<1>. QED BY <1>6, <1>7

LEMMA IdleKnows ==
  Idle \in Req /\ Knows(Idle) /\ Idle.pc = "idle" /\ Idle.sess = 0 /\ Idle.alone = FALSE
  /\ Idle.make = 0 /\ Idle.drop = 0 /\ Idle.todo = {}
<1>1. Idle \in Req /\ None \in Version
  BY DEF Idle, Req, Pc, None, Version
<1>. QED BY <1>1 DEF Idle, Knows, Writing, Removing

LEMMA ReturnWent ==
  ASSUME RequestsTyped, NEW r \in Thread, Return(r)
  PROVE  Becomes(r, Idle)
<1>1. req'[r] = Idle /\ req' \in [Thread -> Req] /\ \A x \in Thread \ {r} : req'[x] = req[x]
  BY IdleKnows DEF Return, RequestsTyped
<1>. QED BY <1>1, IdleKnows DEF Went, Like, Becomes

-----------------------------------------------------------------------------
(* What each step makes of the request that takes it.                       *)

LEMMA Ids ==
  ASSUME Numbered
  PROVE  /\ 0 \notin used /\ used \subseteq Nat /\ Further(used) \in Nat
         /\ NewId \in Nat \ {0} /\ NewId \notin used
         /\ \E k \in Nat : used \cup {NewId} = 1 .. k
<1>1. PICK k \in Nat : used = 1 .. k
  BY DEF Numbered
<1>2. Cardinality(used) = k
  BY <1>1, FS_Interval
<1>3. Further(used) \in Nat
  <2>1. used # {} => k >= 1
    BY <1>1
  <2>. QED BY <1>2, <2>1 DEF Further
<1>4. NewId = k + 1 /\ used \cup {NewId} = 1 .. k + 1
  BY <1>1, <1>2 DEF NewId
<1>. QED BY <1>1, <1>3, <1>4

LEMMA LoginMoves ==
  ASSUME Typed, NEW r \in Thread, NEW n \in Node, Login(r, n)
  PROVE  Becomes(r, [Idle EXCEPT !.pc = FirstOfCreate, !.node = n, !.sess = NewId, !.val = perm,
                                 !.make = NewId])
<1>. DEFINE q == [Idle EXCEPT !.pc = FirstOfCreate, !.node = n, !.sess = NewId, !.val = perm,
                             !.make = NewId]
<1>1. perm \in Int /\ NewId \in Nat \ {0} /\ NewId \notin used /\ RequestsTyped /\ Numbered
  BY Ids DEF Typed, CountsTyped
<1>2. q \in Req /\ q.pc # "idle" /\ q.sess = NewId /\ q.alone = FALSE
  BY <1>1, IdleKnows DEF Req, Pc, Writing, FirstOfCreate
<1>3. Turn(r, q)
  BY DEF Login
<1>. HIDE DEF q
<1>4. Becomes(r, q)
  BY <1>1, <1>2, <1>3, TurnWent
<1>. QED BY <1>4 DEF q

LEMMA RequestMoves ==
  ASSUME Typed, NEW r \in Thread, NEW n \in Node, NEW kind \in Kinds, NEW s \in used,
         Request(r, n, kind, s)
  PROVE  Becomes(r, [Idle EXCEPT !.pc = "get", !.kind = kind, !.node = n, !.sess = s])
<1>. DEFINE q == [Idle EXCEPT !.pc = "get", !.kind = kind, !.node = n, !.sess = s]
<1>1. s \in Nat /\ RequestsTyped
  BY Ids DEF Typed
<1>2. q \in Req /\ q.pc # "idle" /\ q.alone = FALSE
  BY <1>1, IdleKnows DEF Req, Pc
<1>3. Turn(r, q)
  BY DEF Request
<1>. HIDE DEF q
<1>4. Becomes(r, q)
  BY <1>1, <1>2, <1>3, TurnWent
<1>. QED BY <1>4 DEF q

LEMMA ChangeMoves ==
  ASSUME Typed, NEW r \in Thread, NEW n \in Node, NEW kind \in Changes, Change(r, n, kind)
  PROVE  Becomes(r, [Idle EXCEPT !.pc = FirstRead(kind), !.kind = kind, !.node = n])
<1>. DEFINE q == [Idle EXCEPT !.pc = FirstRead(kind), !.kind = kind, !.node = n]
<1>1. q \in Req /\ q.pc # "idle" /\ q.alone = FALSE /\ q.sess = 0
  <2>1. Idle \in Req /\ Idle.alone = FALSE /\ Idle.sess = 0
    BY IdleKnows
  <2>2. FirstRead(kind) \in Pc \ {"idle"}
    BY DEF FirstRead, Pc, Changing
  <2>. QED BY <2>1, <2>2 DEF Req
<1>2. Turn(r, q)
  BY DEF Change
<1>. HIDE DEF q
<1>3. Becomes(r, q)
  BY <1>1, <1>2, TurnWent DEF Typed, Owns
<1>. QED BY <1>3 DEF q

\* on with the same session, or with one of todo
LEMMA GoToMoves ==
  ASSUME RequestsTyped, NEW r \in Thread, NEW q \in Req, Turn(r, q), q.pc # "idle",
         q.sess = req[r].sess, q.alone => req[r].alone
  PROVE  Becomes(r, q)
<1>1. q.sess = 0 => ~q.alone
  <2>1. req[r].sess = 0 => ~req[r].alone
    BY DEF RequestsTyped, Knows
  <2>. QED BY <2>1
<1>. QED BY <1>1, TurnWent

LEMMA NextKeyMoves ==
  ASSUME RequestsTyped, NEW r \in Thread, NEW q \in Req, NextKey(r, q), 0 \notin q.todo,
         q.alone => req[r].alone
  PROVE  \/ Becomes(r, Idle)
         \/ \E s \in q.todo : Becomes(r, [q EXCEPT !.pc = "get", !.sess = s, !.todo = @ \ {s}])
<1>1. CASE q.todo = {}
  BY <1>1, ReturnWent DEF NextKey
<1>2. CASE q.todo # {}
  <2>1. PICK s \in q.todo : Turn(r, [q EXCEPT !.pc = "get", !.sess = s, !.todo = @ \ {s}])
    BY <1>2 DEF NextKey
  <2>. DEFINE x == [q EXCEPT !.pc = "get", !.sess = s, !.todo = @ \ {s}]
  <2>2. x \in Req /\ x.pc # "idle" /\ x.sess # 0 /\ x.alone = q.alone
    BY DEF Req, Pc
  <2>3. Turn(r, x)
    BY <2>1
  <2>. HIDE DEF x
  <2>4. Becomes(r, x)
    BY <2>2, <2>3, TurnWent
  <2>. QED BY <2>4 DEF x
<1>. QED BY <1>1, <1>2

LEMMA NextKickMoves ==
  ASSUME RequestsTyped, NEW r \in Thread, NEW q \in Req, NextKick(r, q), 0 \notin q.todo,
         q.make # 0, q.alone => req[r].alone
  PROVE  \/ Becomes(r, [q EXCEPT !.pc = "setMem", !.sess = q.make])
         \/ \E s \in q.todo : Becomes(r, [q EXCEPT !.pc = "delMem", !.sess = s, !.todo = @ \ {s}])
<1>1. CASE q.todo = {}
  <2>. DEFINE x == [q EXCEPT !.pc = "setMem", !.sess = q.make]
  <2>1. x \in Req /\ x.pc # "idle" /\ x.sess # 0 /\ x.alone = q.alone
    BY DEF Req, Pc, Writing
  <2>2. Turn(r, x)
    BY <1>1 DEF NextKick
  <2>. HIDE DEF x
  <2>3. Becomes(r, x)
    BY <2>1, <2>2, TurnWent
  <2>. QED BY <2>3 DEF x
<1>2. CASE q.todo # {}
  <2>1. PICK s \in q.todo : Turn(r, [q EXCEPT !.pc = "delMem", !.sess = s, !.todo = @ \ {s}])
    BY <1>2 DEF NextKick
  <2>. DEFINE x == [q EXCEPT !.pc = "delMem", !.sess = s, !.todo = @ \ {s}]
  <2>2. x \in Req /\ x.pc # "idle" /\ x.sess # 0 /\ x.alone = q.alone
    BY DEF Req, Pc, Removing
  <2>3. Turn(r, x)
    BY <2>1
  <2>. HIDE DEF x
  <2>4. Becomes(r, x)
    BY <2>2, <2>3, TurnWent
  <2>. QED BY <2>4 DEF x
<1>. QED BY <1>1, <1>2

LEMMA PcMoves ==
  ASSUME RequestsTyped, NEW r \in Thread, NEW pc \in Pc \ {"idle"}, GoTo(r, pc)
  PROVE  Becomes(r, [req[r] EXCEPT !.pc = pc])
<1>. DEFINE q == [req[r] EXCEPT !.pc = pc]
<1>1. q \in Req /\ q.pc # "idle" /\ q.sess = req[r].sess /\ q.alone = req[r].alone
  BY DEF RequestsTyped, Req
<1>2. Turn(r, q)
  BY DEF GoTo
<1>. HIDE DEF q
<1>3. Becomes(r, q)
  BY <1>1, <1>2, GoToMoves
<1>. QED BY <1>3 DEF q

\* what a copy holds is a version, and only sessions with an id have copies
LEMMA Copies ==
  ASSUME CopiesTyped, Numbered, CountsTyped, NEW n \in Node, NEW s \in Session, NEW ok
  PROVE  /\ Found(n, s, ok) \in Version /\ Version \subseteq Int
         /\ AllKeys(n, ok) \subseteq used
         /\ RedisSeenBy(n) \in [Session -> Version]
         /\ \A u \in Session \ used : RedisSeenBy(n)[u] = None
<1>1. mem[n] \in [Session -> Version] /\ redis \in [Session -> Version]
  BY DEF CopiesTyped
<1>2. Synced(n) \in [Session -> Version] /\ \A u \in Session \ used : Synced(n)[u] = None
  BY <1>1 DEF Synced, Numbered
<1>3. RedisSeenBy(n) \in [Session -> Version] /\ \A u \in Session \ used : RedisSeenBy(n)[u] = None
  BY <1>1, <1>2 DEF RedisSeenBy, Numbered
<1>4. Found(n, s, ok) \in Version
  BY <1>1, <1>3 DEF Found, Served
<1>5. AllKeys(n, ok) \subseteq used
  BY DEF AllKeys, Numbered
<1>6. Version \subseteq Int
  BY SessionsAssumption DEF Version, None, Cleared, CountsTyped
<1>. QED BY <1>3, <1>4, <1>5, <1>6

LEMMA LookMoves ==
  ASSUME Typed, NEW r \in Thread, NEW ok \in BOOLEAN, Look(r, ok)
  PROVE  LET q == req[r]
             v == Found(q.node, q.sess, ok)
         IN \/ /\ UNCHANGED used
               /\ \/ Becomes(r, Idle)
                  \/ \E s \in q.todo : Becomes(r, [q EXCEPT !.pc = "get", !.sess = s, !.todo = @ \ {s}])
                  \/ \E pc \in {"delMem", "query"}, kind \in {"none", "edit"} :
                       (pc = "query" => v # None) /\ Becomes(r, [q EXCEPT !.pc = pc, !.kind = kind])
                  \/ v # None /\ \E pc \in {"setMem", "updMem"}, kind \in {"none", "location", "password"} :
                       Becomes(r, [q EXCEPT !.pc = pc, !.kind = kind, !.val = v])
                  \/ v # None /\ q.kind = "grant" /\ Becomes(r, [q EXCEPT !.pc = "updMem"])
            \/ /\ v # None /\ CanCreate /\ used' = used \cup {NewId}
               /\ Becomes(r, [q EXCEPT !.pc = FirstOfCreate, !.kind = "none", !.val = v,
                                       !.sess = NewId, !.make = NewId, !.drop = q.sess])
<1>. DEFINE q == req[r]
            v == Found(q.node, q.sess, ok)
<1>1. q \in Req /\ Knows(q) /\ q.pc = "get" /\ RequestsTyped /\ 0 \notin used
  BY Ids DEF Typed, RequestsTyped, Look, At
<1>2. q.sess \in used /\ q.node \in Node /\ q.todo \subseteq used
  BY <1>1 DEF Knows
<1>3. q.sess \in Session /\ v \in Version /\ v \in Int
  BY <1>2, Copies DEF Typed, Numbered
<1>. HIDE DEF v
<1>4. CASE UNCHANGED used /\ Return(r)
  BY <1>1, <1>4, ReturnWent
<1>5. CASE UNCHANGED used /\ NextKey(r, q)
  <2>1. 0 \notin q.todo
    BY <1>1, <1>2
  <2>. QED BY <1>1, <1>5, <2>1, NextKeyMoves
<1>6. CASE UNCHANGED used /\ \E pc \in {"delMem", "query"}, kind \in {"none", "edit"} :
                 (pc = "query" => v # None) /\ Turn(r, [q EXCEPT !.pc = pc, !.kind = kind])
  <2>1. PICK pc \in {"delMem", "query"}, kind \in {"none", "edit"} :
               (pc = "query" => v # None) /\ Turn(r, [q EXCEPT !.pc = pc, !.kind = kind])
    BY <1>6
  <2>. DEFINE x == [q EXCEPT !.pc = pc, !.kind = kind]
  <2>2. x \in Req /\ x.pc # "idle" /\ x.sess = req[r].sess /\ x.alone = req[r].alone
    BY <1>1 DEF Req, Pc, Removing, Changing, Changes
  <2>3. Turn(r, x)
    BY <2>1
  <2>. HIDE DEF x
  <2>4. Becomes(r, x)
    BY <1>1, <2>2, <2>3, GoToMoves
  <2>. QED BY <1>6, <2>1, <2>4 DEF x, v
<1>7. CASE UNCHANGED used /\ v # None
           /\ \E pc \in {"setMem", "updMem"}, kind \in {"none", "location", "password"} :
                               Turn(r, [q EXCEPT !.pc = pc, !.kind = kind, !.val = v])
  <2>1. PICK pc \in {"setMem", "updMem"}, kind \in {"none", "location", "password"} :
               Turn(r, [q EXCEPT !.pc = pc, !.kind = kind, !.val = v])
    BY <1>7
  <2>. DEFINE x == [q EXCEPT !.pc = pc, !.kind = kind, !.val = v]
  <2>2. x \in Req /\ x.pc # "idle" /\ x.sess = req[r].sess /\ x.alone = req[r].alone
    BY <1>1, <1>3 DEF Req, Pc, Writing, Changing, Kinds
  <2>3. Turn(r, x)
    BY <2>1
  <2>. HIDE DEF x
  <2>4. Becomes(r, x)
    BY <1>1, <2>2, <2>3, GoToMoves
  <2>. QED BY <1>7, <2>4 DEF x, v
<1>8. CASE /\ v # None /\ CanCreate /\ used' = used \cup {NewId}
           /\ Turn(r, [q EXCEPT !.pc = FirstOfCreate, !.kind = "none", !.val = v, !.sess = NewId,
                                !.make = NewId, !.drop = q.sess])
  <2>. DEFINE x == [q EXCEPT !.pc = FirstOfCreate, !.kind = "none", !.val = v, !.sess = NewId,
                             !.make = NewId, !.drop = q.sess]
  <2>1. NewId \in Nat \ {0} /\ NewId \notin used
    BY Ids DEF Typed
  <2>2. x \in Req /\ x.pc # "idle" /\ x.sess = NewId
    BY <1>1, <1>3, <2>1 DEF Req, Pc, Writing, FirstOfCreate
  <2>3. Turn(r, x) /\ ~Owns(r, NewId)
    BY <1>2, <1>8, <2>1 DEF Owns
  <2>. HIDE DEF x
  <2>4. Becomes(r, x)
    BY <1>1, <2>1, <2>2, <2>3, TurnWent
  <2>. QED BY <1>8, <2>4 DEF x, v
<1>9. CASE UNCHANGED used /\ v # None /\ q.kind = "grant" /\ GoTo(r, "updMem")
  <2>1. Becomes(r, [q EXCEPT !.pc = "updMem"])
    BY <1>1, <1>9, PcMoves DEF Pc, Changing
  <2>. QED BY <1>9, <2>1 DEF v
<1>. QED
  <2>1. CASE q.kind = "force" \/ (q.kind = "logout" /\ v # None)
    BY <1>6, <2>1 DEF Look, v, Changes
  <2>2. CASE q.kind \in Changes /\ v = None
    BY <1>5, <2>2 DEF Look, v, Changes
  <2>3. CASE q.kind = "edit" /\ v # None
    <3>1. q = [q EXCEPT !.kind = "edit"]
      BY <1>1, <2>3 DEF Req
    <3>2. [q EXCEPT !.pc = "query"] = [q EXCEPT !.pc = "query", !.kind = "edit"]
      BY <1>1, <2>3 DEF Req
    <3>. QED BY <1>6, <2>3, <3>2 DEF Look, v, GoTo, Changes
  <2>4. CASE q.kind = "refresh" /\ v # None
    BY <1>7, <2>4 DEF Look, v, Changes
  <2>5. CASE q.kind \in {"location", "password"} /\ v # None
    <3>1. [q EXCEPT !.pc = "updMem", !.val = v]
            = [q EXCEPT !.pc = "updMem", !.kind = q.kind, !.val = v]
      BY <1>1, <2>5 DEF Req
    <3>2. Turn(r, [q EXCEPT !.pc = "updMem", !.val = v]) /\ UNCHANGED used
      BY <2>5 DEF Look, v, Changes
    <3>. QED BY <1>7, <2>5, <3>1, <3>2
  <2>8. CASE q.kind = "grant" /\ v # None
    BY <1>9, <2>8 DEF Look, v, Changes
  <2>6. CASE q.kind = "rotate" /\ v # None
    BY <1>8, <2>6 DEF Look, v, Changes
  <2>7. CASE /\ q.kind \notin {"force", "edit", "grant"}
             /\ v = None \/ q.kind \notin {"logout", "refresh", "location", "password", "rotate"}
    BY <1>4, <2>7 DEF Look, v, Changes
  <2>. QED BY <2>1, <2>2, <2>3, <2>4, <2>5, <2>6, <2>7, <2>8 DEF Changes

LEMMA KickMoves ==
  ASSUME Typed, NEW r \in Thread, NEW ok \in BOOLEAN, Kick(r, ok)
  PROVE  LET q == [req[r] EXCEPT !.todo = AllKeys(req[r].node, ok)]
         IN \/ Becomes(r, [q EXCEPT !.pc = "setMem", !.sess = q.make])
            \/ \E s \in q.todo : Becomes(r, [q EXCEPT !.pc = "delMem", !.sess = s, !.todo = @ \ {s}])
<1>. DEFINE ks == AllKeys(req[r].node, ok)
            q == [req[r] EXCEPT !.todo = ks]
<1>1. req[r] \in Req /\ Knows(req[r]) /\ req[r].pc = "getAll" /\ RequestsTyped
  BY DEF Typed, RequestsTyped, Kick, At
<1>2. req[r].node \in Node /\ req[r].make # 0 /\ req[r].make \in Session
  BY <1>1, Ids DEF Knows, Typed, Numbered
<1>3. ks \subseteq used /\ ks \subseteq Nat /\ 0 \notin ks
  BY <1>2, Copies, Ids DEF Typed
<1>4. NextKick(r, q)
  BY DEF Kick
<1>. HIDE DEF ks
<1>5. q \in Req /\ q.todo = ks /\ q.make = req[r].make /\ q.alone = req[r].alone
  BY <1>1, <1>3 DEF Req
<1>. HIDE DEF q
<1>6. \/ Becomes(r, [q EXCEPT !.pc = "setMem", !.sess = q.make])
      \/ \E s \in q.todo : Becomes(r, [q EXCEPT !.pc = "delMem", !.sess = s, !.todo = @ \ {s}])
  BY <1>1, <1>2, <1>3, <1>4, <1>5, NextKickMoves
<1>. QED BY <1>6 DEF q, ks

LEMMA InsertMoves ==
  ASSUME RequestsTyped, NEW r \in Thread, NEW ok \in BOOLEAN, Insert(r, ok)
  PROVE  \/ Becomes(r, Idle)
         \/ /\ req[r].drop # 0
            /\ Becomes(r, [req[r] EXCEPT !.pc = "delMem", !.sess = req[r].drop, !.make = 0, !.drop = 0])
<1>1. CASE req[r].drop = 0
  BY <1>1, ReturnWent DEF Insert, AfterCreation
<1>2. CASE req[r].drop # 0
  <2>. DEFINE q == [req[r] EXCEPT !.pc = "delMem", !.sess = req[r].drop, !.make = 0, !.drop = 0]
  <2>1. q \in Req /\ q.pc # "idle" /\ q.sess # 0 /\ q.alone = req[r].alone
    BY <1>2 DEF RequestsTyped, Req, Pc, Removing
  <2>2. Turn(r, q)
    BY <1>2 DEF Insert, AfterCreation
  <2>. HIDE DEF q
  <2>3. Becomes(r, q)
    BY <2>1, <2>2, TurnWent
  <2>. QED BY <1>2, <2>3 DEF q
<1>. QED BY <1>1, <1>2

LEMMA DelRedisMoves ==
  ASSUME RequestsTyped, NEW r \in Thread, NEW ok \in BOOLEAN, DelRedis(r, ok)
  PROVE  /\ Becomes(r, [req[r] EXCEPT !.pc = "delRow"])
         /\ req'[r].alone => ok /\ link[req[r].node]
<1>. DEFINE w == ok /\ link[req[r].node]
            q == [Spoil(req[r], w) EXCEPT !.pc = "delRow"]
<1>1. req[r] \in Req /\ Knows(req[r]) /\ req[r].pc = "delRedis"
  BY DEF RequestsTyped, DelRedis, At
<1>2. /\ q \in Req /\ q.pc = "delRow" /\ q.sess = req[r].sess /\ q.alone = (req[r].alone /\ w)
      /\ Like(q, [req[r] EXCEPT !.pc = "delRow"])
  BY <1>1 DEF Spoil, Req, Pc, Removing, Like
<1>3. Turn(r, q)
  BY DEF DelRedis
<1>4. req'[r] = q
  <2>. HIDE DEF q
  <2>. QED BY <1>1, <1>2, <1>3 DEF Turn, At
<1>. HIDE DEF q
<1>5. Becomes(r, q)
  BY <1>2, <1>3, GoToMoves
<1>. QED BY <1>2, <1>4, <1>5 DEF Becomes, Like

LEMMA DelRowMoves ==
  ASSUME Typed, NEW r \in Thread, NEW ok \in BOOLEAN, DelRow(r, ok)
  PROVE  LET q == req[r]
         IN \/ Becomes(r, Idle)
            \/ /\ q.make # 0
               /\ \/ Becomes(r, [q EXCEPT !.pc = "setMem", !.sess = q.make])
                  \/ \E s \in q.todo : Becomes(r, [q EXCEPT !.pc = "delMem", !.sess = s, !.todo = @ \ {s}])
<1>1. req[r] \in Req /\ 0 \notin req[r].todo /\ RequestsTyped
  BY Ids DEF Typed, RequestsTyped, Knows
<1>2. CASE req[r].make = 0
  BY <1>1, <1>2, ReturnWent DEF DelRow, AfterRemoval
<1>3. CASE req[r].make # 0
  <2>1. NextKick(r, req[r])
    BY <1>3 DEF DelRow, AfterRemoval
  <2>. QED BY <1>1, <1>3, <2>1, NextKickMoves
<1>. QED BY <1>2, <1>3

LEMMA SelectKeysMoves ==
  ASSUME Typed, NEW r \in Thread, NEW ok \in BOOLEAN, SelectKeys(r, ok)
  PROVE  LET q == [req[r] EXCEPT !.todo = {s \in Session : table[s] # None}]
         IN \/ Becomes(r, Idle)
            \/ \E s \in q.todo : Becomes(r, [q EXCEPT !.pc = "get", !.sess = s, !.todo = @ \ {s}])
<1>. DEFINE ks == {s \in Session : table[s] # None}
            q == [req[r] EXCEPT !.todo = ks]
<1>1. RequestsTyped /\ req[r] \in Req
  BY DEF Typed, RequestsTyped
<1>2. CASE Return(r)
  BY <1>1, <1>2, ReturnWent
<1>3. CASE NextKey(r, q)
  <2>1. ks \subseteq Nat /\ 0 \notin ks
    BY SessionsAssumption
  <2>. HIDE DEF ks
  <2>2. q \in Req /\ q.todo = ks /\ q.alone = req[r].alone
    BY <1>1, <2>1 DEF Req
  <2>. HIDE DEF q
  <2>3. \/ Becomes(r, Idle)
        \/ \E s \in q.todo : Becomes(r, [q EXCEPT !.pc = "get", !.sess = s, !.todo = @ \ {s}])
    BY <1>1, <1>3, <2>1, <2>2, NextKeyMoves
  <2>. QED BY <2>3 DEF q, ks
<1>. QED BY <1>2, <1>3 DEF SelectKeys

LEMMA QueryMoves ==
  ASSUME Typed, NEW r \in Thread, NEW ok \in BOOLEAN, Query(r, ok)
  PROVE  \E v \in {perm, Cleared} :
           Becomes(r, [req[r] EXCEPT !.pc = IF req[r].kind = "grant" THEN "keys" ELSE "updMem",
                                     !.val = v])
<1>. DEFINE v == IF ok THEN perm ELSE Cleared
            pc == IF req[r].kind = "grant" THEN "keys" ELSE "updMem"
            q == [req[r] EXCEPT !.pc = pc, !.val = v]
<1>1. RequestsTyped /\ req[r] \in Req /\ v \in Int /\ v \in {perm, Cleared} /\ pc \in Pc \ {"idle"}
  BY SessionsAssumption DEF Typed, RequestsTyped, CountsTyped, Cleared, Pc, Changing
<1>2. Turn(r, q)
  BY DEF Query, ReadPermissions
<1>. HIDE DEF v, pc
<1>3. q \in Req /\ q.pc # "idle" /\ q.sess = req[r].sess /\ q.alone = req[r].alone
  BY <1>1 DEF Req
<1>. HIDE DEF q
<1>4. Becomes(r, q)
  BY <1>1, <1>2, <1>3, GoToMoves
<1>. QED BY <1>1, <1>4 DEF q, pc

LEMMA UpdRedisMoves ==
  ASSUME Typed, NEW r \in Thread, NEW ok \in BOOLEAN, UpdRedis(r, ok)
  PROVE  LET q == req[r]
         IN \/ Becomes(r, Idle)
            \/ \E s \in q.todo : Becomes(r, [q EXCEPT !.pc = "get", !.sess = s, !.todo = @ \ {s}])
            \/ Becomes(r, [q EXCEPT !.pc = "updRow"])
<1>1. req[r] \in Req /\ 0 \notin req[r].todo /\ RequestsTyped
  BY Ids DEF Typed, RequestsTyped, Knows
<1>2. CASE NextKey(r, req[r])
  BY <1>1, <1>2, NextKeyMoves
<1>3. CASE GoTo(r, "updRow")
  BY <1>1, <1>3, PcMoves DEF Pc, Changing
<1>. QED BY <1>1, <1>2, <1>3, ReturnWent DEF UpdRedis

-----------------------------------------------------------------------------
(* Every variable keeps its type, and every request knows what it needs.    *)

LEMMA RequestsKeepTypes ==
  ASSUME RequestsTyped, NEW r \in Thread, Went(r), used \subseteq used', Version \subseteq Version',
         Knows(req[r])'
  PROVE  RequestsTyped'
<1>1. req' \in [Thread -> Req]
  BY DEF Went
<1>2. ASSUME NEW x \in Thread \ {r} PROVE Knows(req[x])'
  <2>1. Knows(req[x]) /\ Like(req'[x], req[x]) /\ (req'[x].alone => req[x].alone)
    BY DEF RequestsTyped, Went
  <2>. QED BY <2>1 DEF Like, Knows
<1>. QED BY <1>1, <1>2 DEF RequestsTyped

LEMMA IdleKnowsStill ==
  ASSUME NEW r \in Thread, Becomes(r, Idle), UNCHANGED <<used, perm>>
  PROVE  Knows(req[r])'
<1>1. ~req'[r].alone
  <2>1. req'[r].sess = 0
    BY IdleKnows DEF Becomes, Like
  <2>. QED BY <2>1 DEF Becomes, Went, TurnsTo, GoesOnWith
<1>2. Version' = Version
  BY DEF Version
<1>. QED BY <1>1, <1>2, IdleKnows DEF Becomes, Like, Knows, Writing, Removing

LEMMA CommandTyped ==
  ASSUME CopiesTyped, NEW n \in Node, NEW ok \in BOOLEAN, NEW after \in [Session -> Version],
         Command(n, ok, after)
  PROVE  /\ redis' \in [Session -> Version] /\ needSync' \in [Node -> BOOLEAN]
         /\ lastAvail' \in [Node -> {"unknown", "up", "down"}]
         /\ redis' \in {redis, after}
BY DEF CopiesTyped, Command, Available, Remember, NeedsSync, CameBack

LEMMA GetTyped ==
  ASSUME CopiesTyped, Numbered, CountsTyped, NEW n \in Node, NEW ok \in BOOLEAN,
         Get(n, ok) \/ GetAll(n, ok)
  PROVE  /\ redis' \in [Session -> Version] /\ needSync' \in [Node -> BOOLEAN]
         /\ lastAvail' \in [Node -> {"unknown", "up", "down"}]
         /\ redis' \in {redis, RedisSeenBy(n)}
         /\ UNCHANGED <<link, mem>>
         /\ \A s \in Session \ used : redis'[s] = None
<1>1. RedisSeenBy(n) \in [Session -> Version] /\ \A u \in Session \ used : RedisSeenBy(n)[u] = None
  <2>1. CASE Session = {}
    BY <2>1 DEF RedisSeenBy, Synced, CopiesTyped
  <2>2. CASE Session # {}
    BY <2>2, Copies
  <2>. QED BY <2>1, <2>2
<1>2. CASE Get(n, ok)
  BY <1>1, <1>2 DEF CopiesTyped, Numbered, Get, Remember
<1>3. CASE GetAll(n, ok) /\ ~Get(n, ok)
  BY <1>1, <1>3 DEF CopiesTyped, Numbered, GetAll, Available, Remember, NeedsSync, CameBack
<1>. QED BY <1>2, <1>3

LEMMA BeginTyped ==
  ASSUME Typed, NEW r \in Thread, NEW n \in Node,
         \/ Login(r, n) \/ \E kind \in Changes : Change(r, n, kind)
         \/ \E kind \in Kinds, s \in used : Request(r, n, kind, s)
  PROVE  Typed'
<1>1. CopiesTyped /\ Numbered /\ CountsTyped /\ HistoryTyped /\ RequestsTyped
  BY DEF Typed
<1>2. perm \in Nat /\ events \in Nat /\ MaxEvents \in Nat
  BY <1>1, SessionsAssumption DEF CountsTyped
<1>3. ASSUME Login(r, n) PROVE Typed'
  <2>1. NewId \in Session /\ NewId \notin used /\ NewId # 0 /\ \E k \in Nat : used \cup {NewId} = 1 .. k
    BY <1>1, <1>3, Ids DEF Login, CanCreate
  <2>2. Numbered'
    BY <1>1, <1>3, <2>1 DEF Login, Numbered, cacheVars, history
  <2>3. perm' = perm /\ Version' = Version /\ perm # None /\ perm \in Version
    BY <1>2, <1>3 DEF Login, Version, None
  <2>4. Becomes(r, [Idle EXCEPT !.pc = FirstOfCreate, !.node = n, !.sess = NewId, !.val = perm,
                               !.make = NewId])
    BY <1>3, LoginMoves
  <2>5. used' = used \cup {NewId}
    BY <1>3 DEF Login
  <2>6. Knows(req[r])'
    BY <2>1, <2>3, <2>4, <2>5, IdleKnows DEF Becomes, Like, Knows, Req, FirstOfCreate, Writing, Removing
  <2>7. RequestsTyped'
    BY <1>1, <2>3, <2>4, <2>5, <2>6, RequestsKeepTypes DEF Becomes
  <2>8. HistoryTyped' /\ CopiesTyped' /\ CountsTyped'
    BY <1>1, <1>3, <2>3, <2>5 DEF Login, cacheVars, history, HistoryTyped, CopiesTyped, CountsTyped
  <2>. QED BY <2>2, <2>7, <2>8 DEF Typed
<1>4. ASSUME NEW kind \in Changes, Change(r, n, kind) PROVE Typed'
  <2>1. UNCHANGED <<used, perm>> /\ Version' = Version /\ None \in Version
    BY <1>4 DEF Change, Version
  <2>2. Becomes(r, [Idle EXCEPT !.pc = FirstRead(kind), !.kind = kind, !.node = n])
    BY <1>4, ChangeMoves
  <2>3. Knows(req[r])'
    <3>1. /\ req'[r].pc = FirstRead(kind) /\ req'[r].kind = kind /\ req'[r].node = n
          /\ req'[r].sess = 0 /\ req'[r].val = None /\ req'[r].todo = {} /\ req'[r].make = 0
          /\ req'[r].drop = 0
      BY <2>2 DEF Becomes, Like, Idle
    <3>2. ~req'[r].alone
      BY <2>2, <3>1 DEF Becomes, Went, TurnsTo, GoesOnWith
    <3>. QED BY <2>1, <3>1, <3>2 DEF Knows, FirstRead, Changes, Writing, Removing
  <2>4. RequestsTyped'
    BY <1>1, <2>1, <2>2, <2>3, RequestsKeepTypes DEF Becomes
  <2>5. HistoryTyped' /\ CopiesTyped' /\ CountsTyped' /\ Numbered'
    BY <1>1, <1>4, <2>1
    DEF Change, cacheVars, history, HistoryTyped, CopiesTyped, CountsTyped, Numbered
  <2>. QED BY <2>4, <2>5 DEF Typed
<1>5. ASSUME NEW kind \in Kinds, NEW s \in used, Request(r, n, kind, s) PROVE Typed'
  <2>1. UNCHANGED <<used, perm>> /\ Version' = Version /\ None \in Version /\ s # 0 /\ 0 \notin used
    BY <1>1, <1>5, Ids DEF Request, Version
  <2>2. Becomes(r, [Idle EXCEPT !.pc = "get", !.kind = kind, !.node = n, !.sess = s])
    BY <1>5, RequestMoves
  <2>3. Knows(req[r])'
    <3>1. req'[r].val = None
      BY <2>2, IdleKnows DEF Becomes, Like, Req, Idle
    <3>2. req'[r].kind # "grant"
      BY <2>2, IdleKnows DEF Becomes, Like, Req, Idle, Kinds
    <3>. QED BY <2>1, <2>2, <3>1, <3>2, IdleKnows
             DEF Becomes, Like, Knows, Req, Writing, Removing
  <2>4. RequestsTyped'
    BY <1>1, <2>1, <2>2, <2>3, RequestsKeepTypes DEF Becomes
  <2>5. HistoryTyped' /\ CopiesTyped' /\ CountsTyped' /\ Numbered'
    BY <1>1, <1>5, <2>1
    DEF Request, cacheVars, history, HistoryTyped, CopiesTyped, CountsTyped, Numbered
  <2>. QED BY <2>4, <2>5 DEF Typed
<1>. QED BY <1>3, <1>4, <1>5

\* the permissions change, and nothing else
LEMMA StatementTyped ==
  ASSUME Typed, NEW r \in Thread, Statement(r)
  PROVE  Typed'
<1>1. CopiesTyped /\ Numbered /\ CountsTyped /\ HistoryTyped /\ RequestsTyped
  BY DEF Typed
<1>2. perm \in Nat /\ events \in Nat /\ MaxEvents \in Nat
  BY <1>1, SessionsAssumption DEF CountsTyped
<1>3. perm' = perm + 1 /\ perm' \in 0 .. MaxEvents /\ used' = used
  <2>1. Further(used) \in Nat /\ events + (perm + 1) + Further(used) <= MaxEvents
    BY <1>1, Ids DEF Statement, Within
  <2>. QED BY <1>2, <2>1 DEF Statement
<1>4. Version \subseteq Version' /\ 0 .. perm \subseteq 0 .. perm'
  BY <1>2, <1>3 DEF Version
<1>5. RequestsTyped'
  BY <1>1, <1>3, <1>4 DEF Statement, RequestsTyped, Knows
<1>6. UNCHANGED <<cacheVars, table, used, awaited, rows, events, history>>
  BY DEF Statement
<1>7. HistoryTyped'
  <2>1. fresh' \in [Session -> {None} \cup 0 .. perm']
    BY <1>1, <1>4, <1>6 DEF history, HistoryTyped
  <2>. QED BY <1>1, <1>6, <2>1 DEF history, HistoryTyped
<1>8. CopiesTyped' /\ CountsTyped' /\ Numbered'
  <2>1. /\ mem' \in [Node -> [Session -> Version']] /\ rows' \in [Node -> [Session -> Version']]
        /\ redis' \in [Session -> Version'] /\ table' \in [Session -> Version']
    <3>1. mem' = mem /\ rows' = rows /\ redis' = redis /\ table' = table
      BY <1>6 DEF cacheVars
    <3>2. [Session -> Version] \subseteq [Session -> Version']
      BY <1>4
    <3>. QED BY <1>1, <3>1, <3>2 DEF CopiesTyped
  <2>2. CopiesTyped'
    BY <1>1, <1>6, <2>1 DEF cacheVars, CopiesTyped
  <2>3. CountsTyped' /\ Numbered'
    BY <1>1, <1>3, <1>6 DEF cacheVars, history, CountsTyped, Numbered
  <2>. QED BY <2>2, <2>3
<1>. QED BY <1>5, <1>7, <1>8 DEF Typed

LEMMA MishapTyped ==
  ASSUME Numbered, CountsTyped, NEW ok \in BOOLEAN,
         Mishap(ok) \/ (EventsLeft /\ events' = events + 1) \/ UNCHANGED events
  PROVE  events' \in 0 .. MaxEvents
<1>1. perm \in Nat /\ events \in Nat /\ MaxEvents \in Nat /\ Further(used) \in Nat
  BY Ids, SessionsAssumption DEF CountsTyped
<1>. QED BY <1>1 DEF Mishap, EventsLeft, Within, CountsTyped

LEMMA LookTyped ==
  ASSUME Typed, NEW r \in Thread, NEW ok \in BOOLEAN, Mishap(ok), Look(r, ok)
  PROVE  Typed'
<1>. DEFINE q == req[r]
            v == Found(q.node, q.sess, ok)
<1>1. CopiesTyped /\ Numbered /\ CountsTyped /\ HistoryTyped /\ RequestsTyped
  BY DEF Typed
<1>2. q \in Req /\ Knows(q) /\ q.pc = "get"
  BY <1>1 DEF RequestsTyped, Look, At
<1>3. q.node \in Node /\ q.sess \in used /\ q.sess \in Session /\ q.make = 0 /\ q.drop = 0
      /\ q.todo \subseteq used /\ 0 \notin used
  BY <1>1, <1>2, Ids DEF Knows, Numbered, Writing, Removing
<1>4. v \in Version
  BY <1>1, <1>3, Copies
<1>5. /\ redis' \in [Session -> Version] /\ needSync' \in [Node -> BOOLEAN]
      /\ lastAvail' \in [Node -> {"unknown", "up", "down"}] /\ UNCHANGED <<link, mem>>
      /\ \A s \in Session \ used : redis'[s] = None
  BY <1>1, <1>3, GetTyped DEF Look
<1>6. UNCHANGED <<table, perm, awaited, rows, kept, home, closed, fresh>> /\ Version' = Version
  BY DEF Look, Version
<1>7. used \subseteq used' /\ used' \subseteq Session /\ \E k \in Nat : used' = 1 .. k
  <2>1. UNCHANGED used \/ (CanCreate /\ used' = used \cup {NewId})
    BY DEF Look
  <2>. QED BY <1>1, <2>1, Ids DEF CanCreate, Numbered
<1>8. CopiesTyped' /\ CountsTyped' /\ HistoryTyped' /\ Numbered'
  <2>1. missed' \subseteq used'
    <3>1. {s \in Session : mem[q.node][s] # None} \subseteq used
      BY <1>1, <1>3 DEF Numbered
    <3>. QED BY <1>1, <1>7, <3>1 DEF Look, Misses, HistoryTyped
  <2>2. CountsTyped'
    BY <1>1, <1>6, MishapTyped DEF CountsTyped
  <2>3. CopiesTyped'
    BY <1>1, <1>5, <1>6 DEF CopiesTyped
  <2>4. HistoryTyped'
    BY <1>1, <1>6, <1>7, <2>1 DEF HistoryTyped
  <2>5. Numbered'
    BY <1>1, <1>5, <1>6, <1>7 DEF Numbered
  <2>. QED BY <2>2, <2>3, <2>4, <2>5
<1>. HIDE DEF v
<1>9. Went(r) /\ Knows(req[r])'
  <2>1. CASE UNCHANGED used /\ Becomes(r, Idle)
    BY <1>6, <2>1, IdleKnowsStill DEF Becomes
  <2>2. ASSUME UNCHANGED used, NEW s \in q.todo,
               Becomes(r, [q EXCEPT !.pc = "get", !.sess = s, !.todo = @ \ {s}])
        PROVE  Went(r) /\ Knows(req[r])'
    BY <1>2, <1>3, <1>6, <2>2 DEF Becomes, Like, Knows, Req, Writing, Removing
  <2>3. ASSUME UNCHANGED used, NEW pc \in {"delMem", "query"}, NEW kind \in {"none", "edit"},
               Becomes(r, [q EXCEPT !.pc = pc, !.kind = kind])
        PROVE  Went(r) /\ Knows(req[r])'
    BY <1>2, <1>3, <1>6, <2>3 DEF Becomes, Like, Knows, Req, Writing, Removing
  <2>6. CASE UNCHANGED used /\ q.kind = "grant" /\ Becomes(r, [q EXCEPT !.pc = "updMem"])
    BY <1>2, <1>3, <1>6, <2>6 DEF Becomes, Like, Knows, Req, Writing, Removing
  <2>4. ASSUME UNCHANGED used, NEW pc \in {"setMem", "updMem"},
               NEW kind \in {"none", "location", "password"},
               v # None, Becomes(r, [q EXCEPT !.pc = pc, !.kind = kind, !.val = v])
        PROVE  Went(r) /\ Knows(req[r])'
    BY <1>2, <1>3, <1>4, <1>6, <2>4 DEF Becomes, Like, Knows, Req, Writing, Removing
  <2>5. CASE /\ v # None /\ CanCreate /\ used' = used \cup {NewId}
             /\ Becomes(r, [q EXCEPT !.pc = FirstOfCreate, !.kind = "none", !.val = v, !.sess = NewId,
                                     !.make = NewId, !.drop = q.sess])
    <3>1. NewId \notin used /\ NewId # 0 /\ NewId \notin q.todo
      BY <1>1, <1>3, Ids
    <3>. QED BY <1>2, <1>3, <1>4, <1>6, <2>5, <3>1
             DEF Becomes, Like, Knows, Req, FirstOfCreate, Writing, Removing
  <2>. QED BY <2>1, <2>2, <2>3, <2>4, <2>5, <2>6, LookMoves DEF v
<1>10. RequestsTyped'
  BY <1>1, <1>6, <1>7, <1>9, RequestsKeepTypes
<1>. QED BY <1>8, <1>10 DEF Typed

LEMMA KickTyped ==
  ASSUME Typed, NEW r \in Thread, NEW ok \in BOOLEAN, Mishap(ok), Kick(r, ok)
  PROVE  Typed'
<1>1. CopiesTyped /\ Numbered /\ CountsTyped /\ HistoryTyped /\ RequestsTyped
  BY DEF Typed
<1>2. req[r] \in Req /\ Knows(req[r]) /\ req[r].pc = "getAll"
  BY <1>1 DEF RequestsTyped, Kick, At
<1>3. req[r].node \in Node /\ req[r].make # 0 /\ req[r].make = req[r].sess
  BY <1>2 DEF Knows
<1>4. /\ redis' \in [Session -> Version] /\ needSync' \in [Node -> BOOLEAN]
      /\ lastAvail' \in [Node -> {"unknown", "up", "down"}] /\ UNCHANGED <<link, mem>>
      /\ \A s \in Session \ used : redis'[s] = None
  BY <1>1, <1>3, GetTyped DEF Kick
<1>5. UNCHANGED <<table, perm, used, awaited, rows, kept, home, closed, fresh>> /\ Version' = Version
  BY DEF Kick, Version
<1>6. CopiesTyped' /\ CountsTyped' /\ HistoryTyped' /\ Numbered'
  <2>1. missed' \subseteq used'
    <3>1. {s \in Session : mem[req[r].node][s] # None} \subseteq used
      BY <1>1, <1>3 DEF Numbered
    <3>. QED BY <1>1, <1>5, <3>1 DEF Kick, Misses, HistoryTyped
  <2>2. CountsTyped'
    BY <1>1, <1>5, MishapTyped DEF CountsTyped
  <2>. QED BY <1>1, <1>4, <1>5, <2>1, <2>2 DEF CopiesTyped, HistoryTyped, Numbered
<1>. DEFINE ks == AllKeys(req[r].node, ok)
<1>7. ks \subseteq used /\ 0 \notin used /\ ks \subseteq Nat
  <2>1. req[r].sess \in Session
    BY <1>1, <1>2, <1>3 DEF Knows, Numbered
  <2>. QED BY <1>1, <1>3, <2>1, Copies, Ids
<1>8. Went(r) /\ Knows(req[r])'
  <2>. DEFINE q == [req[r] EXCEPT !.todo = ks]
  <2>. HIDE DEF ks
  <2>1. q \in Req /\ Knows(q) /\ q.node \in Node /\ q.make # 0 /\ q.make \in used /\ q.todo = ks
    BY <1>1, <1>2, <1>3, <1>7 DEF Req, Knows, Writing, Removing
  <2>. HIDE DEF q
  <2>2. CASE Becomes(r, [q EXCEPT !.pc = "setMem", !.sess = q.make])
    BY <1>5, <2>1, <2>2 DEF Becomes, Like, Knows, Req, Writing, Removing
  <2>3. ASSUME NEW s \in q.todo,
               Becomes(r, [q EXCEPT !.pc = "delMem", !.sess = s, !.todo = @ \ {s}])
        PROVE  Went(r) /\ Knows(req[r])'
    BY <1>5, <1>7, <2>1, <2>3 DEF Becomes, Like, Knows, Req, Writing, Removing
  <2>. QED BY <2>2, <2>3, KickMoves DEF q, ks
<1>9. RequestsTyped'
  BY <1>1, <1>5, <1>8, RequestsKeepTypes
<1>. QED BY <1>6, <1>9 DEF Typed

\* the steps that only move on with the same session
LEMMA MovesOnKnows ==
  ASSUME RequestsTyped, NEW r \in Thread, UNCHANGED <<used, perm>>,
         NEW pc \in Pc, Becomes(r, [req[r] EXCEPT !.pc = pc]),
         \/ At(r, "setMem") /\ pc = "setRedis"
         \/ At(r, "setRedis") /\ pc = "insert"
         \/ At(r, "delMem") /\ pc = "delRedis"
         \/ At(r, "delRedis") /\ pc = "delRow"
         \/ At(r, "updMem") /\ pc = "updRedis"
         \/ At(r, "updRedis") /\ pc = "updRow"
  PROVE  Knows(req[r])' /\ RequestsTyped'
<1>1. req[r] \in Req /\ Knows(req[r]) /\ Version' = Version /\ Went(r)
  BY DEF RequestsTyped, Version, Becomes
<1>2. Knows(req[r])'
  BY <1>1 DEF Becomes, Like, Knows, Req, At, Writing, Removing, Changing
<1>. QED BY <1>1, <1>2, RequestsKeepTypes

LEMMA CellTyped ==
  ASSUME CopiesTyped, NEW n \in Node, NEW s \in Session, NEW v \in Version,
         mem' = [mem EXCEPT ![n][s] = v]
  PROVE  /\ mem' \in [Node -> [Session -> Version]]
         /\ mem'[n][s] = v
         /\ \A x \in Node, u \in Session : x # n \/ u # s => mem'[x][u] = mem[x][u]
BY DEF CopiesTyped

LEMMA MemoryTyped ==
  ASSUME Typed, NEW r \in Thread, SetMem(r) \/ DelMem(r) \/ UpdMem(r)
  PROVE  Typed'
<1>1. CopiesTyped /\ Numbered /\ CountsTyped /\ HistoryTyped /\ RequestsTyped
  BY DEF Typed
<1>2. req[r] \in Req /\ Knows(req[r]) /\ req[r].pc \in {"setMem", "delMem", "updMem"}
  BY <1>1 DEF RequestsTyped, SetMem, DelMem, UpdMem, At
<1>3. /\ req[r].node \in Node /\ req[r].sess \in used /\ req[r].sess \in Session
      /\ req[r].val \in Version /\ None \in Version
  BY <1>1, <1>2 DEF Knows, Numbered, Version
<1>4. /\ UNCHANGED <<link, lastAvail, needSync, redis, table, perm, used, awaited, rows, events,
                    home, closed, fresh, missed>>
      /\ kept' \subseteq kept /\ Version' = Version
  BY DEF SetMem, DelMem, UpdMem, history, Version
<1>5. /\ mem' \in [Node -> [Session -> Version]]
      /\ \A s \in Session \ used, n \in Node : mem'[n][s] = None
  <2>1. /\ mem \in [Node -> [Session -> Version]]
        /\ \A s \in Session \ used, n \in Node : mem[n][s] = None
    BY <1>1 DEF CopiesTyped, Numbered
  <2>2. \/ UNCHANGED mem
        \/ \E v \in {req[r].val, None} : mem' = [mem EXCEPT ![req[r].node][req[r].sess] = v]
    BY DEF SetMem, DelMem, UpdMem, SetStore, EraseStore, UpdateStore
  <2>3. ASSUME NEW v \in {req[r].val, None},
               mem' = [mem EXCEPT ![req[r].node][req[r].sess] = v]
        PROVE  /\ mem' \in [Node -> [Session -> Version]]
               /\ \A s \in Session \ used, n \in Node : mem'[n][s] = None
    <3>1. v \in Version /\ CopiesTyped
      BY <1>1, <1>3
    <3>2. /\ mem' \in [Node -> [Session -> Version]]
          /\ \A x \in Node, u \in Session :
               x # req[r].node \/ u # req[r].sess => mem'[x][u] = mem[x][u]
      BY <1>3, <2>3, <3>1, CellTyped
    <3>. QED BY <1>3, <2>1, <3>2
  <2>. QED BY <2>1, <2>2, <2>3
<1>6. CopiesTyped' /\ Numbered' /\ CountsTyped' /\ HistoryTyped'
  BY <1>1, <1>4, <1>5 DEF CopiesTyped, Numbered, CountsTyped, HistoryTyped
<1>7. RequestsTyped'
  <2>1. CASE SetMem(r)
    <3>1. Becomes(r, [req[r] EXCEPT !.pc = "setRedis"])
      BY <1>1, <2>1, PcMoves DEF SetMem, Pc, Writing
    <3>. QED BY <1>1, <1>4, <2>1, <3>1, MovesOnKnows DEF SetMem, Pc, Writing
  <2>2. CASE DelMem(r)
    <3>1. Becomes(r, [req[r] EXCEPT !.pc = "delRedis"])
      BY <1>1, <2>2, PcMoves DEF DelMem, Pc, Removing
    <3>. QED BY <1>1, <1>4, <2>2, <3>1, MovesOnKnows DEF DelMem, Pc, Removing
  <2>3. CASE UpdMem(r)
    <3>1. Becomes(r, [req[r] EXCEPT !.pc = "updRedis"])
      BY <1>1, <2>3, PcMoves DEF UpdMem, Pc, Changing
    <3>. QED BY <1>1, <1>4, <2>3, <3>1, MovesOnKnows DEF UpdMem, Pc, Changing
  <2>. QED BY <2>1, <2>2, <2>3
<1>. QED BY <1>6, <1>7 DEF Typed

LEMMA CommandsTyped ==
  ASSUME Typed, NEW r \in Thread, NEW ok \in BOOLEAN, Mishap(ok),
         SetRedis(r, ok) \/ DelRedis(r, ok) \/ UpdRedis(r, ok)
  PROVE  Typed'
<1>1. CopiesTyped /\ Numbered /\ CountsTyped /\ HistoryTyped /\ RequestsTyped
  BY DEF Typed
<1>2. req[r] \in Req /\ Knows(req[r]) /\ req[r].pc \in {"setRedis", "delRedis", "updRedis"}
  BY <1>1 DEF RequestsTyped, SetRedis, DelRedis, UpdRedis, At
<1>. DEFINE n == req[r].node
            s == req[r].sess
            v == req[r].val
<1>3. n \in Node /\ s \in used /\ s \in Session /\ v \in Version /\ None \in Version
  BY <1>1, <1>2 DEF Knows, Numbered, Version
<1>4. /\ UNCHANGED <<link, mem, table, perm, used, awaited, rows, kept, home, closed>>
      /\ Version' = Version /\ missed' \subseteq missed \cup {s}
      /\ fresh' = fresh \/ (fresh' = [fresh EXCEPT ![s] = v] /\ v # Cleared)
  BY DEF SetRedis, DelRedis, UpdRedis, history, Version, Misses
<1>5. PICK after \in {[redis EXCEPT ![s] = v], [redis EXCEPT ![s] = None]} : Command(n, ok, after)
  BY DEF SetRedis, DelRedis, UpdRedis, SetEx, Del
<1>6. after \in [Session -> Version] /\ \A u \in Session \ used : after[u] = None
  BY <1>1, <1>3, <1>5 DEF CopiesTyped, Numbered
<1>7. /\ redis' \in [Session -> Version] /\ needSync' \in [Node -> BOOLEAN]
      /\ lastAvail' \in [Node -> {"unknown", "up", "down"}] /\ redis' \in {redis, after}
  BY <1>1, <1>3, <1>5, <1>6, CommandTyped
<1>. HIDE DEF n, s, v
<1>8. CopiesTyped'
  BY <1>1, <1>4, <1>7 DEF CopiesTyped
<1>9. Numbered'
  BY <1>1, <1>3, <1>4, <1>6, <1>7 DEF Numbered, HistoryTyped
<1>10. CountsTyped'
  BY <1>1, <1>4, MishapTyped DEF CountsTyped
<1>11. HistoryTyped'
  <2>1. v # Cleared => v \in {None} \cup 0 .. perm
    BY <1>3 DEF Version
  <2>. QED BY <1>1, <1>3, <1>4, <2>1 DEF HistoryTyped
<1>12. RequestsTyped'
  <2>1. CASE SetRedis(r, ok)
    <3>1. Becomes(r, [req[r] EXCEPT !.pc = "insert"])
      BY <1>1, <2>1, PcMoves DEF SetRedis, Pc, Writing
    <3>. QED BY <1>1, <1>4, <2>1, <3>1, MovesOnKnows DEF SetRedis, Pc, Writing
  <2>2. CASE DelRedis(r, ok)
    <3>1. Becomes(r, [req[r] EXCEPT !.pc = "delRow"])
      BY <1>1, <2>2, DelRedisMoves
    <3>. QED BY <1>1, <1>4, <2>2, <3>1, MovesOnKnows DEF DelRedis, Pc, Removing
  <2>3. CASE UpdRedis(r, ok)
    <3>1. CASE Becomes(r, Idle)
      BY <1>1, <1>4, <3>1, IdleKnowsStill, RequestsKeepTypes DEF Becomes
    <3>2. ASSUME NEW u \in req[r].todo,
                 Becomes(r, [req[r] EXCEPT !.pc = "get", !.sess = u, !.todo = @ \ {u}])
          PROVE  RequestsTyped'
      <4>1. req[r].pc = "updRedis" /\ 0 \notin used
        BY <1>1, <2>3, Ids DEF UpdRedis, At
      <4>2. Knows(req[r])'
        BY <1>2, <1>4, <3>2, <4>1 DEF Becomes, Like, Knows, Req, Writing, Removing
      <4>. QED BY <1>1, <1>4, <3>2, <4>2, RequestsKeepTypes DEF Becomes
    <3>3. CASE Becomes(r, [req[r] EXCEPT !.pc = "updRow"])
      BY <1>1, <1>4, <2>3, <3>3, MovesOnKnows DEF UpdRedis, Pc, Changing
    <3>. QED BY <2>3, <3>1, <3>2, <3>3, UpdRedisMoves
  <2>. QED BY <2>1, <2>2, <2>3
<1>. QED BY <1>8, <1>9, <1>10, <1>11, <1>12 DEF Typed

LEMMA TableTyped ==
  ASSUME Typed, NEW r \in Thread, NEW ok \in BOOLEAN, Mishap(ok),
         Insert(r, ok) \/ DelRow(r, ok) \/ UpdRow(r, ok)
  PROVE  Typed'
<1>1. CopiesTyped /\ Numbered /\ CountsTyped /\ HistoryTyped /\ RequestsTyped
  BY DEF Typed
<1>2. req[r] \in Req /\ Knows(req[r]) /\ req[r].pc \in {"insert", "delRow", "updRow"}
  BY <1>1 DEF RequestsTyped, Insert, DelRow, UpdRow, At
<1>. DEFINE n == req[r].node
            s == req[r].sess
            v == req[r].val
<1>3. n \in Node /\ s \in used /\ s \in Session /\ v \in Version /\ None \in Version /\ 0 \notin used
  BY <1>1, <1>2, Ids DEF Knows, Numbered, Version
<1>4. /\ UNCHANGED <<cacheVars, perm, used, rows, fresh, missed>>
      /\ Version' = Version
      /\ table' \in {table, [table EXCEPT ![s] = v], [table EXCEPT ![s] = None]}
      /\ awaited' \in {awaited, awaited \cup {<<n, s>>}}
      /\ kept' \in {kept, kept \cup {s}} /\ closed' \in {closed, closed \cup {s}}
      /\ home' \in {home, [home EXCEPT ![s] = n]}
  BY DEF Insert, DelRow, UpdRow, history, Version
<1>. HIDE DEF n, s, v
<1>5. CopiesTyped' /\ Numbered' /\ HistoryTyped'
  <2>1. table' \in [Session -> Version] /\ \A u \in Session \ used : table'[u] = None
    BY <1>1, <1>3, <1>4 DEF CopiesTyped, Numbered
  <2>2. home' \in [Session -> Node \cup {NoNode}] /\ \A u \in Session \ used : home'[u] = NoNode
    BY <1>1, <1>3, <1>4 DEF HistoryTyped, Numbered
  <2>3. CopiesTyped' /\ Numbered'
    BY <1>1, <1>4, <2>1, <2>2 DEF CopiesTyped, Numbered, cacheVars
  <2>4. HistoryTyped'
    BY <1>1, <1>3, <1>4, <2>2 DEF HistoryTyped
  <2>. QED BY <2>3, <2>4
<1>6. CountsTyped'
  BY <1>1, <1>4, MishapTyped DEF CountsTyped
<1>7. Went(r) /\ Knows(req[r])'
  <2>1. CASE Becomes(r, Idle)
    BY <1>4, <2>1, IdleKnowsStill DEF Becomes
  <2>2. CASE Insert(r, ok) /\ ~Becomes(r, Idle)
    BY <1>1, <1>2, <1>4, <2>2, InsertMoves DEF Becomes, Like, Knows, Req, Writing, Removing
  <2>3. CASE DelRow(r, ok) /\ ~Becomes(r, Idle)
    <3>1. req[r].pc = "delRow" /\ req[r].make # 0
      BY <2>3, DelRowMoves DEF DelRow, At
    <3>2. CASE Becomes(r, [req[r] EXCEPT !.pc = "setMem", !.sess = req[r].make])
      BY <1>2, <1>4, <3>1, <3>2 DEF Becomes, Like, Knows, Req, Writing, Removing
    <3>3. ASSUME NEW u \in req[r].todo,
                 Becomes(r, [req[r] EXCEPT !.pc = "delMem", !.sess = u, !.todo = @ \ {u}])
          PROVE  Went(r) /\ Knows(req[r])'
      BY <1>2, <1>3, <1>4, <3>1, <3>3 DEF Becomes, Like, Knows, Req, Writing, Removing
    <3>. QED BY <2>3, <3>2, <3>3, DelRowMoves
  <2>4. CASE UpdRow(r, ok) /\ ~Becomes(r, Idle)
    BY <1>1, <2>4, ReturnWent DEF UpdRow
  <2>. QED BY <2>1, <2>2, <2>3, <2>4
<1>8. RequestsTyped'
  BY <1>1, <1>4, <1>7, RequestsKeepTypes
<1>. QED BY <1>5, <1>6, <1>8 DEF Typed

LEMMA ReadingTyped ==
  ASSUME Typed, NEW r \in Thread, NEW ok \in BOOLEAN, Mishap(ok), Query(r, ok) \/ SelectKeys(r, ok)
  PROVE  Typed'
<1>1. CopiesTyped /\ Numbered /\ CountsTyped /\ HistoryTyped /\ RequestsTyped
  BY DEF Typed
<1>2. req[r] \in Req /\ Knows(req[r]) /\ req[r].pc \in {"query", "keys"} /\ 0 \notin used
  BY <1>1, Ids DEF RequestsTyped, Query, SelectKeys, At
<1>3. UNCHANGED <<cacheVars, table, perm, used, awaited, rows, history>> /\ Version' = Version
  BY DEF Query, SelectKeys, Version
<1>4. CopiesTyped' /\ Numbered' /\ HistoryTyped'
  BY <1>1, <1>3 DEF CopiesTyped, Numbered, HistoryTyped, cacheVars, history
<1>5. CountsTyped'
  BY <1>1, <1>3, MishapTyped DEF CountsTyped
<1>6. Went(r) /\ Knows(req[r])'
  <2>1. CASE Becomes(r, Idle)
    BY <1>3, <2>1, IdleKnowsStill DEF Becomes
  <2>2. CASE Query(r, ok)
    <3>1. PICK v \in {perm, Cleared} :
            Becomes(r, [req[r] EXCEPT !.pc = IF req[r].kind = "grant" THEN "keys" ELSE "updMem",
                                      !.val = v])
      BY <2>2, QueryMoves
    <3>2. v \in Version /\ v # None /\ req[r].pc = "query"
      BY <1>1, <2>2, SessionsAssumption DEF CountsTyped, Version, None, Cleared, Query, At
    <3>3. CASE req[r].kind = "grant"
      <4>1. /\ Went(r) /\ req'[r].pc = "keys" /\ req'[r].val = v /\ req'[r].sess = 0
            /\ req'[r].kind = "grant" /\ req'[r].node = req[r].node /\ req'[r].todo = req[r].todo
            /\ req'[r].make = req[r].make /\ req'[r].drop = req[r].drop
        BY <1>2, <3>1, <3>2, <3>3 DEF Becomes, Like, Req, Knows
      <4>2. ~req'[r].alone
        BY <4>1 DEF Went, TurnsTo, GoesOnWith
      <4>. QED BY <1>2, <1>3, <3>2, <4>1, <4>2 DEF Knows, Writing, Removing
    <3>4. CASE req[r].kind # "grant"
      BY <1>2, <1>3, <3>1, <3>2, <3>4 DEF Becomes, Like, Knows, Req, Writing, Removing
    <3>. QED BY <3>3, <3>4
  <2>3. ASSUME SelectKeys(r, ok), ~Becomes(r, Idle)
        PROVE  Went(r) /\ Knows(req[r])'
    <3>. DEFINE ks == {s \in Session : table[s] # None}
    <3>1. ks \subseteq used /\ ks \subseteq Nat /\ req[r].pc = "keys"
      BY <1>1, <2>3, SessionsAssumption DEF Numbered, SelectKeys, At
    <3>2. PICK u \in ks : Becomes(r, [[req[r] EXCEPT !.todo = ks]
                                        EXCEPT !.pc = "get", !.sess = u, !.todo = @ \ {u}])
      BY <1>2, <2>3, SelectKeysMoves DEF Req
    <3>. HIDE DEF ks
    <3>. QED BY <1>2, <1>3, <3>1, <3>2 DEF Becomes, Like, Knows, Req, Writing, Removing
  <2>. QED BY <2>1, <2>2, <2>3
<1>7. RequestsTyped'
  BY <1>1, <1>3, <1>6, RequestsKeepTypes
<1>. QED BY <1>4, <1>5, <1>7 DEF Typed

LEMMA RestartTyped ==
  ASSUME Typed, NEW n \in Node, Restart(n)
  PROVE  Typed'
<1>1. CopiesTyped /\ Numbered /\ CountsTyped /\ HistoryTyped /\ RequestsTyped
  BY DEF Typed
<1>2. PICK read \in {table, Empty} :
       LET found == {s \in Session : read[s] # None} IN
       /\ rows' = [rows EXCEPT ![n] = read]
       /\ req' = [r \in Thread |->
            IF req[r].node = n THEN Idle
            ELSE IF req[r].sess \in found THEN [req[r] EXCEPT !.alone = FALSE] ELSE req[r]]
       /\ kept' = {s \in kept : home[s] = n => s \in found}
       /\ fresh' = [s \in Session |-> IF s \in found /\ read[s] < fresh[s] THEN None ELSE fresh[s]]
  BY DEF Restart
<1>3. UNCHANGED <<calls, table, perm, used, home, closed, missed, link, redis>>
      /\ Version' = Version /\ None \in Version
  BY DEF Restart, ForgetNode, Version
<1>4. Empty \in [Session -> Version] /\ \A s \in Session : Empty[s] = None
  BY <1>3 DEF Empty
<1>5. read \in [Session -> Version] /\ \A s \in Session \ used : read[s] = None
  BY <1>1, <1>4 DEF CopiesTyped, Numbered
<1>6. CopiesTyped' /\ Numbered'
  BY <1>1, <1>2, <1>3, <1>4, <1>5 DEF CopiesTyped, Numbered, Restart, ForgetNode, HistoryTyped
<1>7. HistoryTyped'
  BY <1>1, <1>2, <1>3 DEF HistoryTyped, Restart
<1>8. CountsTyped'
  BY <1>1, <1>3, MishapTyped DEF CountsTyped, Restart
<1>9. RequestsTyped'
  <2>1. ASSUME NEW r \in Thread PROVE req'[r] \in Req /\ Knows(req[r])'
    <3>1. req[r] \in Req /\ Knows(req[r])
      BY <1>1 DEF RequestsTyped
    <3>2. CASE req'[r] = Idle
      BY <1>3, <3>2, IdleKnows DEF Knows
    <3>3. CASE req'[r] = req[r]
      BY <1>3, <3>1, <3>3 DEF Knows
    <3>4. CASE req'[r] = [req[r] EXCEPT !.alone = FALSE]
      <4>1. req'[r] \in Req /\ Like(req'[r], req[r]) /\ req'[r].alone = FALSE
        BY <3>1, <3>4 DEF Like, Req
      <4>. QED BY <1>3, <3>1, <4>1 DEF Knows, Like
    <3>. QED BY <1>2, <3>2, <3>3, <3>4
  <2>2. req' \in [Thread -> Req]
    BY <1>2, <2>1
  <2>. QED BY <2>1, <2>2 DEF RequestsTyped
<1>. QED BY <1>6, <1>7, <1>8, <1>9 DEF Typed

LEMMA RestoreTyped ==
  ASSUME Typed, NEW n \in Node, NEW s \in Session, NEW ok \in BOOLEAN, Mishap(ok), Restore(n, s, ok)
  PROVE  Typed'
<1>1. CopiesTyped /\ Numbered /\ CountsTyped /\ HistoryTyped /\ RequestsTyped
  BY DEF Typed
<1>2. s \in used /\ rows[n][s] \in Version /\ None \in Version
  BY <1>1 DEF Restore, Numbered, CopiesTyped, Version
<1>3. /\ UNCHANGED <<calls, link, table, perm, used, awaited, req, kept, home, closed, fresh>>
      /\ missed' \in {missed, missed \cup {s}} /\ Version' = Version
      /\ mem' = [mem EXCEPT ![n][s] = rows[n][s]]
      /\ Command(n, ok, [redis EXCEPT ![s] = rows[n][s]])
      /\ rows' = [rows EXCEPT ![n][s] = None]
  BY DEF Restore, RestoreOne, SetStore, SetEx, Misses, Version
<1>4. [redis EXCEPT ![s] = rows[n][s]] \in [Session -> Version]
  BY <1>1, <1>2 DEF CopiesTyped
<1>5. /\ redis' \in [Session -> Version] /\ needSync' \in [Node -> BOOLEAN]
      /\ lastAvail' \in [Node -> {"unknown", "up", "down"}]
      /\ redis' \in {redis, [redis EXCEPT ![s] = rows[n][s]]}
  BY <1>1, <1>3, <1>4, CommandTyped
<1>6. /\ mem' \in [Node -> [Session -> Version]]
      /\ \A x \in Node, u \in Session : x # n \/ u # s => mem'[x][u] = mem[x][u]
  <2>1. PICK v \in Version : v = rows[n][s]
    BY <1>2
  <2>2. mem' = [mem EXCEPT ![n][s] = v]
    BY <1>3, <2>1
  <2>. QED BY <1>1, <2>2, CellTyped
<1>7. /\ CopiesTyped'
      /\ \A x \in Node, u \in Session : x # n \/ u # s => rows'[x][u] = rows[x][u]
  BY <1>1, <1>2, <1>3, <1>5, <1>6 DEF CopiesTyped
<1>8. Numbered'
  BY <1>1, <1>2, <1>3, <1>5, <1>6, <1>7 DEF Numbered
<1>9. CountsTyped'
  BY <1>1, <1>3, MishapTyped DEF CountsTyped
<1>10. HistoryTyped'
  BY <1>1, <1>2, <1>3 DEF HistoryTyped
<1>11. RequestsTyped'
  BY <1>1, <1>3 DEF RequestsTyped, Knows
<1>. QED BY <1>7, <1>8, <1>9, <1>10, <1>11 DEF Typed

LEMMA RedisTyped ==
  ASSUME Typed, RedisRestart \/ \E n \in Node : LinkStep(n)
  PROVE  Typed'
<1>1. CopiesTyped /\ Numbered /\ CountsTyped /\ HistoryTyped /\ RequestsTyped
  BY DEF Typed
<1>2. /\ UNCHANGED <<calls, table, perm, used, awaited, rows, req, kept, home, closed, fresh>>
      /\ UNCHANGED <<lastAvail, needSync, mem>> /\ Version' = Version
  BY DEF RedisRestart, RedisEmptied, LinkStep, LinkChange, history, Version
<1>3. CountsTyped'
  BY <1>1, <1>2, MishapTyped DEF CountsTyped, RedisRestart, LinkStep
<1>4. RequestsTyped'
  BY <1>1, <1>2 DEF RequestsTyped, Knows
<1>5. CASE RedisRestart
  <2>1. redis' = Empty /\ link' = link
    BY <1>5 DEF RedisRestart, RedisEmptied
  <2>2. Empty \in [Session -> Version] /\ \A s \in Session : Empty[s] = None
    BY DEF Empty, Version
  <2>3. missed' \subseteq used
    BY <1>1, <1>5 DEF RedisRestart, HistoryTyped, Numbered
  <2>. QED BY <1>1, <1>2, <1>3, <1>4, <2>1, <2>2, <2>3 DEF Typed, CopiesTyped, Numbered, HistoryTyped
<1>6. ASSUME NEW n \in Node, LinkStep(n) PROVE Typed'
  <2>1. redis' = redis /\ missed' = missed /\ link' \in [Node -> BOOLEAN]
    BY <1>1, <1>6 DEF LinkStep, LinkChange, history, CopiesTyped
  <2>. QED BY <1>1, <1>2, <1>3, <1>4, <2>1 DEF Typed, CopiesTyped, Numbered, HistoryTyped
<1>. QED BY <1>5, <1>6

LEMMA TypedStep ==
  ASSUME Typed, Next
  PROVE  Typed'
<1>1. ASSUME NEW r \in Thread, NEW ok \in BOOLEAN, Step(r, ok) PROVE Typed'
  BY <1>1, LookTyped, KickTyped, CommandsTyped, TableTyped, ReadingTyped DEF Step
<1>. QED BY <1>1, BeginTyped, StatementTyped, MemoryTyped, RestartTyped, RestoreTyped, RedisTyped
         DEF Next

LEMMA TypedInit ==
  ASSUME Init
  PROVE  Typed
<1>1. perm = 0 /\ events = 0 /\ 0 \in 0 .. MaxEvents /\ None \in Version
  BY SessionsAssumption DEF Init, Version
<1>2. Empty \in [Session -> Version] /\ \A s \in Session : Empty[s] = None
  BY <1>1 DEF Empty
<1>3. used = 1 .. 0
  BY DEF Init
<1>4. Knows(Idle) /\ Idle \in Req
  BY IdleKnows
<1>. QED BY <1>1, <1>2, <1>3, <1>4
         DEF Init, CacheInit, Typed, CopiesTyped, Numbered, CountsTyped, HistoryTyped, RequestsTyped

LEMMA TypedStutter ==
  ASSUME Typed, UNCHANGED vars
  PROVE  Typed'
<1>1. Version' = Version
  BY DEF vars, Version
<1>. QED BY <1>1
         DEF vars, cacheVars, history, Typed, CopiesTyped, Numbered, CountsTyped, HistoryTyped,
             RequestsTyped, Knows

(* Every variable keeps its type, no copy carries permissions of later than *)
(* now, and only a session whose id was given out leaves a trace.           *)
THEOREM SessionsTyped == Spec => []TypeOK
<1>1. Typed => TypeOK
  <2>1. {None} \cup 0 .. perm \subseteq Version
    BY DEF Version
  <2>. QED BY <2>1
       DEF Typed, CopiesTyped, Numbered, CountsTyped, HistoryTyped, RequestsTyped, Knows, TypeOK
<1>2. Typed /\ [Next]_vars => Typed'
  BY TypedStep, TypedStutter
<1>. QED BY <1>1, <1>2, TypedInit, PTL DEF Spec

-----------------------------------------------------------------------------
(* What is gone stays gone: the inductive invariant.                        *)

\* no copy of s anywhere
Blank(s) ==
  redis[s] = None /\ table[s] = None /\ \A n \in Node : mem[n][s] = None /\ rows[n][s] = None

\* r is going to create a session and has not begun to
Making(r) == req[r].make # 0 /\ ~At(r, "setRedis") /\ ~At(r, "insert")

\* the session r creates is known to nobody, and before r begins there is no trace of it
New(r) ==
  LET s == req[r].make IN
  /\ s # 0 => /\ s \notin kept /\ s \notin closed /\ fresh[s] = None /\ home[s] = NoNode
              /\ \A x \in Thread \ {r} : req[x].make # s
  /\ Making(r) =>
       /\ Blank(s)
       /\ \A x \in Thread \ {r} : ~Owns(x, s) /\ s \notin req[x].todo /\ req[x].drop # s
       /\ s \notin req[r].todo /\ req[r].drop # s
       /\ req[r].pc \in Removing => req[r].sess # s

\* a request that nothing has met is the only one at work on its session, and no copy of
\* the session is out of its reach
Lonely(r) ==
  LET s == req[r].sess
      n == req[r].node IN
  ~At(r, "idle") /\ req[r].alone =>
    /\ s # 0 /\ \A x \in Thread \ {r} : ~Owns(x, s)
    /\ \A m \in Node : rows[m][s] = None /\ (m # n => mem[m][s] = None)
    /\ req[r].pc \in {"delRedis", "delRow"} => mem[n][s] = None
    /\ At(r, "delRow") => redis[s] = None
    /\ req[r].pc \in {"setRedis", "insert"} => mem[n][s] # None

\* a session that was removed has no copy, and nobody is about to write one
Gone(s) ==
  /\ Blank(s)
  /\ \A r \in Thread : Owns(r, s) => req[r].pc \in {"get"} \cup Removing

Orderly ==
  /\ \A r \in Thread : New(r) /\ Lonely(r)
  /\ \A s \in closed : Gone(s)

\* what a request's step does: copies change only where it works, and it gets to know only
\* sessions that were there
Touches(r) ==
  /\ Went(r) /\ UNCHANGED rows /\ used \subseteq used'
  /\ \A n \in Node, s \in Session : mem'[n][s] # mem[n][s] =>
       /\ Owns(r, s) /\ n = req[r].node /\ n = req'[r].node
       /\ req[r].pc \in {"setMem", "delMem", "updMem"} /\ (At(r, "delMem") => mem'[n][s] = None)
  /\ \A s \in Session : redis[s] = None /\ redis'[s] # None /\ (\A n \in Node : mem[n][s] = None) =>
       Owns(r, s) /\ req[r].pc \in {"setRedis", "updRedis"}
  /\ \A s \in Session : table'[s] # table[s] =>
        /\ Owns(r, s) /\ req[r].pc \in {"insert", "delRow", "updRow"}
        /\ (At(r, "delRow") => table'[s] = None)
  /\ \A s \in Session : home'[s] # home[s] => At(r, "insert") /\ s = req[r].make
  /\ \A s \in kept' : s \in kept \/ (At(r, "insert") /\ s = req[r].make)
  /\ \A s \in closed' : s \in closed \/ (At(r, "delRow") /\ Owns(r, s) /\ req[r].alone /\ table'[s] = None)
  /\ \A s \in Session : fresh'[s] # fresh[s] => At(r, "updRedis") /\ Owns(r, s) /\ req[r].alone

\* a session r may come to know of
Reach(r, s) ==
  \/ s = 0 \/ Owns(r, s) \/ s = req[r].make \/ s = req[r].drop \/ s \in req[r].todo
  \/ ~Blank(s) \/ home[s] # NoNode \/ s \notin used

Knew(r) ==
  /\ \A s \in {req'[r].sess, req'[r].drop} \cup req'[r].todo : Reach(r, s)
  /\ req'[r].make \in {0, req[r].make} \/ req'[r].make \notin used

LEMMA OthersNew ==
  ASSUME Typed, Typed', Orderly, NEW r \in Thread, Touches(r), Knew(r), NEW x \in Thread \ {r}
  PROVE  New(x)'
<1>0. PICK s : s = req[x].make
  OBVIOUS
<1>1. req[x] \in Req /\ Knows(req[x]) /\ s \in used \cup {0} /\ used \subseteq Session /\ 0 \notin used
  BY <1>0, Ids DEF Typed, RequestsTyped, Knows, Numbered
<1>2. /\ Like(req'[x], req[x]) /\ \A y \in Thread \ {r} : Like(req'[y], req[y])
      /\ used \subseteq used'
  BY DEF Touches, Went
<1>3. New(x) /\ Lonely(r)
  BY DEF Orderly
<1>4. s # 0 => /\ s \notin kept' /\ s \notin closed' /\ fresh'[s] = None /\ home'[s] = NoNode
               /\ \A y \in Thread \ {x} : req'[y].make # s
  <2>. SUFFICES ASSUME s # 0 PROVE /\ s \notin kept' /\ s \notin closed' /\ fresh'[s] = None
                                   /\ home'[s] = NoNode /\ \A y \in Thread \ {x} : req'[y].make # s
    OBVIOUS
  <2>1. req[r].make # s /\ s \notin kept /\ s \notin closed /\ fresh[s] = None /\ home[s] = NoNode
    BY <1>0, <1>3 DEF New
  <2>2. ~(Owns(r, s) /\ req[r].alone)
    <3>1. CASE Making(x)
      BY <1>0, <1>3, <3>1 DEF New
    <3>2. CASE ~Making(x)
      <4>1. Owns(x, s)
        BY <1>0, <1>1, <3>2 DEF Making, Owns, At, Knows, Writing
      <4>. QED BY <1>3, <4>1 DEF Lonely, Owns
    <3>. QED BY <3>1, <3>2
  <2>3. s \notin kept' /\ s \notin closed' /\ fresh'[s] = None /\ home'[s] = NoNode
    BY <1>1, <2>1, <2>2 DEF Touches
  <2>4. ASSUME NEW y \in Thread \ {x} PROVE req'[y].make # s
    BY <1>0, <1>1, <1>2, <1>3, <2>1 DEF New, Knew, Like
  <2>. QED BY <2>3, <2>4
<1>5. Making(x) => /\ Blank(s)'
                   /\ \A y \in Thread \ {x} : ~Owns(y, s)' /\ s \notin req'[y].todo /\ req'[y].drop # s
                   /\ s \notin req[x].todo /\ req[x].drop # s
                   /\ req[x].pc \in Removing => req[x].sess # s
  <2>. SUFFICES ASSUME Making(x)
                PROVE  /\ Blank(s)'
                       /\ \A y \in Thread \ {x} : ~Owns(y, s)' /\ s \notin req'[y].todo /\ req'[y].drop # s
                       /\ s \notin req[x].todo /\ req[x].drop # s
                       /\ req[x].pc \in Removing => req[x].sess # s
    OBVIOUS
  <2>1. s \in Session /\ s \in used /\ s # 0
    BY <1>0, <1>1 DEF Making
  <2>2. /\ Blank(s) /\ home[s] = NoNode /\ s \notin req[x].todo /\ req[x].drop # s
        /\ req[x].pc \in Removing => req[x].sess # s
        /\ \A y \in Thread \ {x} : /\ ~Owns(y, s) /\ s \notin req[y].todo /\ req[y].drop # s
                                   /\ req[y].make # s
    BY <1>0, <1>3, <2>1 DEF New
  <2>3. Blank(s)'
    <3>1. ~Owns(r, s) /\ Blank(s)
      BY <2>2
    <3>2. /\ \A m \in Node : mem'[m][s] = None /\ rows'[m][s] = None
          /\ table'[s] = None
      BY <2>1, <3>1 DEF Touches, Blank
    <3>3. redis'[s] = None
      BY <2>1, <3>1 DEF Touches, Blank
    <3>. QED BY <3>2, <3>3 DEF Blank
  <2>4. ~Reach(r, s)
    BY <2>1, <2>2 DEF Reach
  <2>5. ASSUME NEW y \in Thread \ {x}
        PROVE  ~Owns(y, s)' /\ s \notin req'[y].todo /\ req'[y].drop # s
    <3>1. CASE y = r
      BY <2>1, <2>4, <3>1 DEF Knew, Owns
    <3>2. CASE y # r
      BY <1>2, <2>2, <3>2 DEF Like, Owns, At
    <3>. QED BY <3>1, <3>2
  <2>. QED BY <2>2, <2>3, <2>5
<1>. QED BY <1>0, <1>2, <1>4, <1>5 DEF New, Like, Making, At

LEMMA OthersLonely ==
  ASSUME Typed, Typed', Orderly, NEW r \in Thread, Touches(r), NEW x \in Thread \ {r}
  PROVE  Lonely(x)'
<1>0. PICK s, n : s = req[x].sess /\ n = req[x].node
  OBVIOUS
<1>1. req[x] \in Req /\ Knows(req[x]) /\ s \in used \cup {0} /\ used \subseteq Session /\ 0 \notin used
  BY <1>0, Ids DEF Typed, RequestsTyped, Knows, Numbered
<1>2. /\ Like(req'[x], req[x]) /\ (req'[x].alone => req[x].alone)
      /\ \A y \in Thread \ {r} : Like(req'[y], req[y])
  BY DEF Touches, Went
<1>3. Lonely(x)
  BY DEF Orderly
<1>. SUFFICES ASSUME ~At(x, "idle"), req'[x].alone
              PROVE  /\ s # 0 /\ \A y \in Thread \ {x} : ~Owns(y, s)'
                     /\ \A m \in Node : rows'[m][s] = None /\ (m # n => mem'[m][s] = None)
                     /\ req[x].pc \in {"delRedis", "delRow"} => mem'[n][s] = None
                     /\ At(x, "delRow") => redis'[s] = None
                     /\ req[x].pc \in {"setRedis", "insert"} => mem'[n][s] # None
  BY <1>0, <1>2 DEF Lonely, Like, At
<1>4. /\ s # 0 /\ s \in Session /\ \A y \in Thread \ {x} : ~Owns(y, s)
      /\ \A m \in Node : rows[m][s] = None /\ (m # n => mem[m][s] = None)
      /\ req[x].pc \in {"delRedis", "delRow"} => mem[n][s] = None
      /\ At(x, "delRow") => redis[s] = None
      /\ req[x].pc \in {"setRedis", "insert"} => mem[n][s] # None
      /\ n \in Node
  BY <1>0, <1>1, <1>2, <1>3 DEF Lonely, Knows, At
<1>5. ASSUME NEW y \in Thread \ {x} PROVE ~Owns(y, s)'
  <2>1. CASE y # r
    BY <1>2, <1>4, <2>1 DEF Like, Owns, At
  <2>2. CASE y = r
    <3>1. Owns(x, s) /\ ~Owns(r, s)
      BY <1>0, <1>4 DEF Owns
    <3>2. req'[r].sess # s
      BY <1>4, <3>1 DEF Touches, Went, TurnsTo, GoesOnWith
    <3>. QED BY <2>2, <3>2 DEF Owns
  <2>. QED BY <2>1, <2>2
<1>6. /\ \A m \in Node : rows'[m][s] = rows[m][s] /\ mem'[m][s] = mem[m][s]
      /\ redis[s] = None /\ (\A m \in Node : mem[m][s] = None) => redis'[s] = None
  BY <1>4 DEF Touches
<1>. QED BY <1>4, <1>5, <1>6 DEF At

LEMMA OthersGone ==
  ASSUME Typed, Typed', Orderly, NEW r \in Thread, Touches(r), NEW s \in closed,
         Owns(r, s) => Blank(s)',
         Owns(r, s)' => req'[r].pc \in {"get"} \cup Removing
  PROVE  Gone(s)'
<1>1. Gone(s) /\ s \in Session
  BY DEF Orderly, Typed, HistoryTyped, Numbered
<1>2. Blank(s)'
  BY <1>1 DEF Gone, Touches, Blank
<1>3. ASSUME NEW x \in Thread, Owns(x, s)' PROVE req'[x].pc \in {"get"} \cup Removing
  BY <1>1, <1>3 DEF Gone, Touches, Went, Like, Owns, At
<1>. QED BY <1>2, <1>3 DEF Gone

(* How r goes on: where it gets its next session from, and what it has      *)
(* done to the one it stays with.                                           *)
Advances(r) ==
  LET q == req'[r]
      s == q.sess IN
  /\ s # 0 /\ Owns(r, s) => q.node = req[r].node
  /\ q.pc \in {"getAll"} \cup Writing \cup Changing =>
       \/ s = q.make \/ (Owns(r, s) /\ req[r].pc \in Writing \cup Changing)
       \/ (At(r, "get") /\ ~Blank(s))
  /\ q.pc \in {"delRedis", "delRow", "setRedis", "insert"} => Owns(r, s)
  /\ q.pc = "delRedis" => mem'[q.node][s] = None
  /\ q.pc = "delRow" => At(r, "delRedis") /\ (q.alone => redis'[s] = None)
  /\ q.pc = "setRedis" => mem'[q.node][s] # None
  /\ q.pc = "insert" => At(r, "setRedis")
  /\ q.make # 0 =>
       \/ /\ q.make \notin used /\ q.pc \in {"getAll", "setMem"}
          /\ q.todo \subseteq used /\ q.drop \in used \cup {0}
       \/ /\ q.make = req[r].make /\ q.drop = req[r].drop /\ ~At(r, "insert")
          /\ \A u \in q.todo : u \in req[r].todo \/ ~Blank(u)
          /\ q.pc \in Removing =>
               s \in req[r].todo \/ ~Blank(s) \/ (req[r].pc \in Removing /\ s = req[r].sess)
          /\ q.pc \notin {"setRedis", "insert"} => req[r].pc \in {"getAll"} \cup Removing

Acts(r) == Touches(r) /\ Knew(r) /\ Advances(r)

LEMMA SelfNew ==
  ASSUME Typed, Typed', Orderly, NEW r \in Thread, Touches(r), Advances(r)
  PROVE  New(r)'
<1>0. PICK s : s = req'[r].make
  OBVIOUS
<1>. SUFFICES ASSUME s # 0 PROVE New(r)'
  BY <1>0 DEF New, Making
<1>1. /\ Knows(req[r]) /\ s \in used' /\ s \in Session /\ 0 \notin used
      /\ \A x \in Thread : Knows(req[x])
  BY <1>0, Ids DEF Typed, RequestsTyped, Knows, Numbered
<1>2. /\ \A y \in Thread \ {r} : Like(req'[y], req[y])
      /\ used \subseteq used'
  BY DEF Touches, Went
<1>3. CASE /\ s \notin used /\ req'[r].pc \in {"getAll", "setMem"}
           /\ req'[r].todo \subseteq used /\ req'[r].drop \in used \cup {0}
  <2>1. ~Owns(r, s) /\ s # req[r].make
    BY <1>1, <1>3 DEF Knows, Owns
  <2>2. Blank(s) /\ fresh[s] = None /\ home[s] = NoNode /\ s \notin kept /\ s \notin closed
    BY <1>1, <1>3 DEF Typed, Numbered, HistoryTyped, Blank
  <2>3. s \notin kept' /\ s \notin closed' /\ fresh'[s] = None /\ home'[s] = NoNode
    BY <1>1, <2>1, <2>2 DEF Touches
  <2>4. Blank(s)'
    <3>1. /\ \A m \in Node : mem'[m][s] = None /\ rows'[m][s] = None
          /\ table'[s] = None
      BY <1>1, <2>1, <2>2 DEF Touches, Blank
    <3>2. redis'[s] = None
      BY <1>1, <2>1, <2>2 DEF Touches, Blank
    <3>. QED BY <3>1, <3>2 DEF Blank
  <2>5. ASSUME NEW x \in Thread \ {r}
        PROVE  req'[x].make # s /\ ~Owns(x, s)' /\ s \notin req'[x].todo /\ req'[x].drop # s
    BY <1>1, <1>2, <1>3 DEF Knows, Like, Owns
  <2>. QED BY <1>0, <1>1, <1>3, <2>3, <2>4, <2>5 DEF New, Removing
<1>4. CASE /\ s = req[r].make /\ req'[r].drop = req[r].drop /\ ~At(r, "insert")
           /\ \A u \in req'[r].todo : u \in req[r].todo \/ ~Blank(u)
           /\ req'[r].pc \in Removing => \/ req'[r].sess \in req[r].todo \/ ~Blank(req'[r].sess)
                                         \/ (req[r].pc \in Removing /\ req'[r].sess = req[r].sess)
           /\ req'[r].pc \notin {"setRedis", "insert"} => req[r].pc \in {"getAll"} \cup Removing
  <2>1. New(r)
    BY DEF Orderly
  <2>2. /\ s \notin kept /\ s \notin closed /\ fresh[s] = None /\ home[s] = NoNode
        /\ \A x \in Thread \ {r} : req[x].make # s
    BY <1>4, <2>1 DEF New
  <2>3. req[r].pc \notin Changing /\ (Making(r) /\ req[r].pc \in Removing => ~Owns(r, s))
    BY <1>1, <1>4, <2>1 DEF New, Knows, Writing, Removing, Changing, Owns
  <2>4. At(r, "delRow") => Making(r)
    BY <1>4 DEF Making, At
  <2>5. s \notin kept' /\ s \notin closed' /\ fresh'[s] = None /\ home'[s] = NoNode
    <3>1. s \notin closed'
      BY <1>1, <2>2, <2>3, <2>4 DEF Touches, Removing, At
    <3>. QED BY <1>1, <1>4, <2>2, <2>3, <3>1 DEF Touches, Changing, At
  <2>6. \A x \in Thread \ {r} : req'[x].make # s
    BY <1>2, <2>2 DEF Like
  <2>7. ASSUME Making(r)'
        PROVE  /\ Blank(s)' /\ s \notin req'[r].todo /\ req'[r].drop # s
               /\ req'[r].pc \in Removing => req'[r].sess # s
               /\ \A x \in Thread \ {r} : ~Owns(x, s)' /\ s \notin req'[x].todo /\ req'[x].drop # s
    <3>1. Making(r) /\ req[r].pc \in {"getAll"} \cup Removing
      BY <1>4, <2>7 DEF Making, At, Removing
    <3>2. /\ Blank(s) /\ s \notin req[r].todo /\ req[r].drop # s
          /\ req[r].pc \in Removing => req[r].sess # s
          /\ \A x \in Thread \ {r} : ~Owns(x, s) /\ s \notin req[x].todo /\ req[x].drop # s
      BY <1>4, <2>1, <3>1 DEF New
    <3>3. Blank(s)'
      <4>1. req[r].pc \in Removing => ~Owns(r, s)
        BY <3>2 DEF Owns
      <4>2. /\ \A m \in Node : mem'[m][s] = None /\ rows'[m][s] = None
            /\ table'[s] = None
        BY <1>1, <3>1, <3>2, <4>1 DEF Touches, Blank, Removing
      <4>3. redis'[s] = None
        BY <1>1, <3>1, <3>2 DEF Touches, Blank, Removing
      <4>. QED BY <4>2, <4>3 DEF Blank
    <3>. QED BY <1>2, <1>4, <3>2, <3>3 DEF Like, Owns, At
  <2>. QED BY <1>0, <2>5, <2>6, <2>7 DEF New
<1>. QED BY <1>0, <1>3, <1>4 DEF Advances

LEMMA SelfLonely ==
  ASSUME Typed, Typed', Orderly, NEW r \in Thread, Touches(r), Advances(r)
  PROVE  Lonely(r)'
<1>0. PICK s, n : s = req'[r].sess /\ n = req'[r].node
  OBVIOUS
<1>. SUFFICES ASSUME ~At(r, "idle")', req'[r].alone
              PROVE  /\ s # 0 /\ \A x \in Thread \ {r} : ~Owns(x, s)'
                     /\ \A m \in Node : rows'[m][s] = None /\ (m # n => mem'[m][s] = None)
                     /\ req'[r].pc \in {"delRedis", "delRow"} => mem'[n][s] = None
                     /\ req'[r].pc = "delRow" => redis'[s] = None
                     /\ req'[r].pc \in {"setRedis", "insert"} => mem'[n][s] # None
  BY <1>0 DEF Lonely, At
<1>1. TurnsTo(r, s) \/ GoesOnWith(r, s)
  BY <1>0 DEF Touches, Went
<1>2. /\ s # 0 /\ s \in Session /\ n \in Node /\ \A x \in Thread \ {r} : ~Owns(x, s)
      /\ \A m \in Node : rows[m][s] = None /\ (m # n => mem[m][s] = None)
  <2>1. s # 0 /\ s \in Session /\ n \in Node
    BY <1>0, <1>1 DEF Typed, RequestsTyped, Numbered, Knows, At, TurnsTo, GoesOnWith
  <2>2. CASE TurnsTo(r, s)
    BY <1>0, <2>1, <2>2 DEF TurnsTo
  <2>3. CASE GoesOnWith(r, s)
    BY <1>0, <2>1, <2>3 DEF GoesOnWith, Owns, Orderly, Lonely, Advances
  <2>. QED BY <1>1, <2>2, <2>3
<1>3. ASSUME NEW x \in Thread \ {r} PROVE ~Owns(x, s)'
  BY <1>2 DEF Touches, Went, Like, Owns, At
<1>4. \A m \in Node : rows'[m][s] = None /\ (m # n => mem'[m][s] = None)
  BY <1>0, <1>2 DEF Touches
<1>5. ASSUME req'[r].pc \in {"delRedis", "delRow", "setRedis", "insert"}
      PROVE  /\ req'[r].pc \in {"delRedis", "delRow"} => mem'[n][s] = None
             /\ req'[r].pc = "delRow" => redis'[s] = None
             /\ req'[r].pc \in {"setRedis", "insert"} => mem'[n][s] # None
  <2>1. Owns(r, s) /\ n = req[r].node /\ req[r].alone
    BY <1>0, <1>1, <1>5 DEF Advances, TurnsTo, GoesOnWith
  <2>2. At(r, "delRedis") => mem[n][s] = None
    BY <2>1 DEF Orderly, Lonely, Owns, At
  <2>3. At(r, "setRedis") => mem[n][s] # None
    BY <2>1 DEF Orderly, Lonely, Owns, At
  <2>4. req[r].pc \in {"delRedis", "setRedis"} => mem'[n][s] = mem[n][s]
    BY <1>2 DEF Touches
  <2>. QED BY <1>0, <1>5, <2>2, <2>3, <2>4 DEF Advances, At
<1>. QED BY <1>2, <1>3, <1>4, <1>5

LEMMA SelfGone ==
  ASSUME Typed, Typed', Orderly, NEW r \in Thread, Touches(r), Advances(r), New(r)', NEW s \in closed'
  PROVE  Gone(s)'
<1>1. s \in Session /\ s # 0 /\ (req[r].pc \in Removing => ~At(r, "get"))
  BY Ids DEF Typed, HistoryTyped, Numbered, Removing, At
<1>2. s # req'[r].make
  BY <1>1 DEF New
<1>3. CASE s \in closed
  <2>1. Gone(s)
    BY <1>3 DEF Orderly
  <2>2. Owns(r, s) => Blank(s)'
    <3>. SUFFICES ASSUME Owns(r, s) PROVE Blank(s)'
      OBVIOUS
    <3>1. req[r].pc \in {"get"} \cup Removing /\ Blank(s)
      BY <2>1 DEF Gone
    <3>2. /\ \A m \in Node : mem'[m][s] = None /\ rows'[m][s] = None
          /\ table'[s] = None
      <4>1. req[r].pc \notin {"setMem", "updMem", "insert", "updRow"}
        BY <3>1 DEF Removing
      <4>2. ASSUME NEW m \in Node PROVE mem'[m][s] = None
        BY <1>1, <3>1, <4>1 DEF Touches, Blank, At
      <4>3. table'[s] = None
        BY <1>1, <3>1, <4>1 DEF Touches, Blank, At
      <4>. QED BY <3>1, <4>2, <4>3 DEF Touches, Blank
    <3>3. redis'[s] = None
      BY <1>1, <3>1 DEF Touches, Blank, Removing, At
    <3>. QED BY <3>2, <3>3 DEF Blank
  <2>3. ASSUME Owns(r, s)' PROVE req'[r].pc \in {"get"} \cup Removing
    <3>1. req'[r].sess = s /\ req'[r].pc # "idle" /\ req'[r].pc # "keys" /\ req'[r].pc \in Pc
      <4>1. req'[r] \in Req /\ Knows(req[r])'
        BY DEF Typed, RequestsTyped
      <4>. QED BY <1>1, <2>3, <4>1 DEF Owns, At, Knows, Req
    <3>2. ~(Owns(r, s) /\ req[r].pc \in Writing \cup Changing) /\ Blank(s)
      BY <2>1 DEF Gone, Writing, Changing, Removing
    <3>3. req'[r].pc \notin {"getAll"} \cup Writing \cup Changing
      BY <1>2, <3>1, <3>2 DEF Advances
    <3>. QED BY <3>1, <3>3 DEF Pc
  <2>. QED BY <1>3, <2>2, <2>3, OthersGone
<1>4. CASE s \notin closed
  <2>1. At(r, "delRow") /\ Owns(r, s) /\ req[r].alone /\ table'[s] = None
    BY <1>1, <1>4 DEF Touches
  <2>2. /\ redis[s] = None /\ \A m \in Node : mem[m][s] = None /\ rows[m][s] = None
        /\ \A x \in Thread \ {r} : ~Owns(x, s)
    <3>1. Lonely(r)
      BY DEF Orderly
    <3>2. \A m \in Node : mem[m][s] = None
      BY <2>1, <3>1 DEF Lonely, Owns, At
    <3>. QED BY <2>1, <3>1, <3>2 DEF Lonely, Owns, At
  <2>3. Blank(s)'
    <3>1. \A m \in Node : mem'[m][s] = None /\ rows'[m][s] = None
      BY <1>1, <2>1, <2>2 DEF Touches, At
    <3>2. redis'[s] = None
      BY <1>1, <2>1, <2>2 DEF Touches, At
    <3>. QED BY <2>1, <3>1, <3>2 DEF Blank
  <2>4. ASSUME NEW x \in Thread, Owns(x, s)' PROVE req'[x].pc \in {"get"} \cup Removing
    <3>1. x = r
      BY <2>2, <2>4 DEF Touches, Went, Like, Owns, At
    <3>2. req'[r].sess = s /\ req'[r].pc # "idle" /\ req'[r].pc # "keys" /\ req'[r].pc \in Pc
      <4>1. req'[r] \in Req /\ Knows(req[r])'
        BY DEF Typed, RequestsTyped
      <4>. QED BY <1>1, <2>4, <3>1, <4>1 DEF Owns, At, Knows, Req
    <3>3. req'[r].pc \notin {"getAll"} \cup Writing \cup Changing
      BY <1>2, <2>1, <3>2 DEF Advances, Writing, Changing, At
    <3>. QED BY <3>1, <3>2, <3>3 DEF Pc
  <2>. QED BY <2>3, <2>4 DEF Gone
<1>. QED BY <1>3, <1>4

LEMMA RequestOrderly ==
  ASSUME Typed, Typed', Orderly, NEW r \in Thread, Acts(r)
  PROVE  Orderly'
<1>. Touches(r) /\ Knew(r) /\ Advances(r)
  BY DEF Acts
<1>1. ASSUME NEW x \in Thread PROVE New(x)' /\ Lonely(x)'
  <2>1. CASE x = r
    BY <2>1, SelfNew, SelfLonely
  <2>2. CASE x # r
    BY <2>2, OthersNew, OthersLonely
  <2>. QED BY <2>1, <2>2
<1>2. \A s \in closed' : Gone(s)'
  BY SelfNew, SelfGone
<1>. QED BY <1>1, <1>2 DEF Orderly

-----------------------------------------------------------------------------
(* Every step of a request is of that kind.                                 *)

LEMMA QuietTouches ==
  ASSUME Typed, NEW r \in Thread, Went(r), used \subseteq used',
         UNCHANGED <<mem, redis, table, rows, kept, home, closed, fresh>>
  PROVE  Touches(r)
BY DEF Touches

LEMMA BeginActs ==
  ASSUME Typed, NEW r \in Thread, NEW n \in Node,
         \/ Login(r, n) \/ \E kind \in Changes : Change(r, n, kind)
         \/ \E kind \in Kinds, s \in used : Request(r, n, kind, s)
  PROVE  Acts(r)
<1>1. /\ UNCHANGED <<mem, redis, table, rows, kept, home, closed, fresh>> /\ used \subseteq used'
      /\ At(r, "idle") /\ \A s : ~Owns(r, s)
  BY DEF Login, Change, Request, Enters, cacheVars, history, Owns
<1>2. CASE Login(r, n)
  <2>1. NewId \notin used /\ NewId # 0
    BY Ids DEF Typed
  <2>2. /\ Went(r) /\ req'[r].sess = NewId /\ req'[r].make = NewId /\ req'[r].drop = 0
        /\ req'[r].todo = {} /\ req'[r].pc \in {"getAll", "setMem"}
    BY <1>2, LoginMoves DEF Becomes, Like, Idle, FirstOfCreate
  <2>3. Touches(r)
    BY <1>1, <2>2, QuietTouches
  <2>4. Knew(r) /\ Advances(r)
    BY <1>1, <2>1, <2>2 DEF Knew, Reach, Advances
  <2>. QED BY <2>3, <2>4 DEF Acts
<1>3. ASSUME NEW kind \in Changes, Change(r, n, kind) PROVE Acts(r)
  <2>1. /\ Went(r) /\ req'[r].sess = 0 /\ req'[r].make = 0 /\ req'[r].drop = 0
        /\ req'[r].todo = {} /\ req'[r].pc \in {"keys", "query"}
    BY <1>3, ChangeMoves DEF Becomes, Like, Idle, FirstRead
  <2>2. Touches(r)
    BY <1>1, <2>1, QuietTouches
  <2>3. Knew(r) /\ Advances(r)
    BY <1>1, <2>1 DEF Knew, Reach, Advances, Writing, Changing
  <2>. QED BY <2>2, <2>3 DEF Acts
<1>4. ASSUME NEW kind \in Kinds, NEW s \in used, Request(r, n, kind, s) PROVE Acts(r)
  <2>1. /\ Went(r) /\ req'[r].sess = s /\ req'[r].make = 0 /\ req'[r].drop = 0
        /\ req'[r].todo = {} /\ req'[r].pc = "get"
    BY <1>4, RequestMoves DEF Becomes, Like, Idle
  <2>2. Touches(r)
    BY <1>1, <2>1, QuietTouches
  <2>3. home[s] # NoNode \/ ~Blank(s)
    BY <1>4 DEF Request, Known, Blank
  <2>4. Knew(r) /\ Advances(r)
    BY <1>1, <2>1, <2>3 DEF Knew, Reach, Advances, Writing, Changing
  <2>. QED BY <2>2, <2>4 DEF Acts
<1>. QED BY <1>2, <1>3, <1>4

\* a request that is done, or that turns to a session among those it still has to work on
LEMMA DoneAdvances ==
  ASSUME NEW r \in Thread, Becomes(r, Idle)
  PROVE  Knew(r) /\ Advances(r)
BY IdleKnows DEF Becomes, Like, Knew, Reach, Advances, Writing, Removing, Changing, Owns, At, Idle

\* get and getAll bring to Redis at most what the node has in memory
LEMMA SyncTouches ==
  ASSUME Typed, NEW r \in Thread, Went(r), used \subseteq used', NEW n \in Node, NEW ok \in BOOLEAN,
         Get(n, ok) \/ GetAll(n, ok),
         UNCHANGED <<table, rows, kept, home, closed, fresh>>
  PROVE  Touches(r)
<1>1. UNCHANGED mem /\ redis' \in {redis, RedisSeenBy(n)}
  BY GetTyped DEF Typed
<1>2. ASSUME NEW s \in Session, redis[s] = None, \A m \in Node : mem[m][s] = None PROVE redis'[s] = None
  BY <1>1, <1>2 DEF RedisSeenBy, Synced
<1>. QED BY <1>1, <1>2 DEF Touches

LEMMA LookActs ==
  ASSUME Typed, NEW r \in Thread, NEW ok \in BOOLEAN, Look(r, ok)
  PROVE  Acts(r)
<1>. DEFINE q == req[r]
            v == Found(q.node, q.sess, ok)
<1>1. q \in Req /\ Knows(q) /\ q.pc = "get" /\ At(r, "get")
  BY DEF Typed, RequestsTyped, Look, At
<1>2. /\ q.node \in Node /\ q.sess \in used /\ q.sess \in Session /\ q.sess # 0
      /\ q.make = 0 /\ q.drop = 0 /\ q.todo \subseteq used /\ 0 \notin used
      /\ Owns(r, q.sess) /\ NewId \notin used /\ NewId # 0
  BY <1>1, Ids DEF Typed, Knows, Numbered, Writing, Removing, Owns, At
<1>3. UNCHANGED <<table, rows, kept, home, closed, fresh>> /\ used \subseteq used' /\ Get(q.node, ok)
  BY DEF Look
<1>4. v # None => ~Blank(q.sess)
  BY <1>2 DEF Found, Served, RedisSeenBy, Synced, Blank
<1>. HIDE DEF v
<1>5. Went(r) /\ Knew(r) /\ Advances(r)
  <2>1. CASE Becomes(r, Idle)
    BY <2>1, DoneAdvances DEF Becomes
  <2>2. ASSUME NEW s \in q.todo, Becomes(r, [q EXCEPT !.pc = "get", !.sess = s, !.todo = @ \ {s}])
        PROVE  Went(r) /\ Knew(r) /\ Advances(r)
    BY <1>1, <1>2, <2>2 DEF Becomes, Like, Req, Knew, Reach, Advances, Writing, Removing, Changing
  <2>3. ASSUME NEW pc \in {"delMem", "query"}, NEW kind \in {"none", "edit"},
               Becomes(r, [q EXCEPT !.pc = pc, !.kind = kind]), pc = "query" => v # None
        PROVE  Went(r) /\ Knew(r) /\ Advances(r)
    BY <1>1, <1>2, <1>4, <2>3 DEF Becomes, Like, Req, Knew, Reach, Advances, Writing, Removing, Changing
  <2>6. CASE v # None /\ Becomes(r, [q EXCEPT !.pc = "updMem"])
    BY <1>1, <1>2, <1>4, <2>6 DEF Becomes, Like, Req, Knew, Reach, Advances, Writing, Removing, Changing
  <2>4. ASSUME NEW pc \in {"setMem", "updMem"}, NEW kind \in {"none", "location", "password"},
               v # None, Becomes(r, [q EXCEPT !.pc = pc, !.kind = kind, !.val = v])
        PROVE  Went(r) /\ Knew(r) /\ Advances(r)
    BY <1>1, <1>2, <1>4, <2>4 DEF Becomes, Like, Req, Knew, Reach, Advances, Writing, Removing, Changing
  <2>5. CASE Becomes(r, [q EXCEPT !.pc = FirstOfCreate, !.kind = "none", !.val = v, !.sess = NewId,
                                  !.make = NewId, !.drop = q.sess])
    <3>1. /\ Went(r) /\ req'[r].sess = NewId /\ req'[r].make = NewId /\ req'[r].drop = q.sess
          /\ req'[r].todo = q.todo /\ req'[r].pc \in {"getAll", "setMem"}
      BY <1>1, <2>5 DEF Becomes, Like, Req, FirstOfCreate
    <3>2. ~Owns(r, NewId)
      BY <1>2 DEF Owns
    <3>. QED BY <1>2, <3>1, <3>2 DEF Knew, Reach, Advances, Removing
  <2>. QED BY <2>1, <2>2, <2>3, <2>4, <2>5, <2>6, LookMoves DEF v
<1>6. Touches(r)
  BY <1>2, <1>3, <1>5, SyncTouches
<1>. QED BY <1>5, <1>6 DEF Acts

LEMMA KickActs ==
  ASSUME Typed, NEW r \in Thread, NEW ok \in BOOLEAN, Kick(r, ok)
  PROVE  Acts(r)
<1>. DEFINE ks == AllKeys(req[r].node, ok)
            q == [req[r] EXCEPT !.todo = ks]
<1>1. req[r] \in Req /\ Knows(req[r]) /\ req[r].pc = "getAll" /\ At(r, "getAll")
  BY DEF Typed, RequestsTyped, Kick, At
<1>2. /\ req[r].node \in Node /\ req[r].make # 0 /\ req[r].make = req[r].sess
      /\ req[r].sess \in Session /\ 0 \notin used /\ Owns(r, req[r].make)
  <2>1. req[r].node \in Node /\ req[r].make # 0 /\ req[r].make = req[r].sess
    BY <1>1 DEF Knows
  <2>2. req[r].sess \in Session /\ 0 \notin used
    BY <1>1, <2>1, Ids DEF Typed, Knows, Numbered
  <2>3. Owns(r, req[r].make)
    BY <1>1, <2>1 DEF Owns, At
  <2>. QED BY <2>1, <2>2, <2>3
<1>3. UNCHANGED <<table, rows, used, kept, home, closed, fresh>> /\ GetAll(req[r].node, ok)
  BY DEF Kick
<1>4. ks \subseteq used /\ ks \subseteq Nat
  BY <1>2, Copies, Ids DEF Typed
<1>5. \A s \in ks : ~Blank(s)
  BY <1>2 DEF AllKeys, Blank
<1>. HIDE DEF ks
<1>6. /\ q \in Req /\ q.make = req[r].make /\ q.todo = ks /\ q.drop = req[r].drop
      /\ q.node = req[r].node
  BY <1>1, <1>4 DEF Req
<1>. HIDE DEF q
<1>7. Went(r) /\ Knew(r) /\ Advances(r)
  <2>1. CASE Becomes(r, [q EXCEPT !.pc = "setMem", !.sess = q.make])
    <3>1. /\ Went(r) /\ req'[r].sess = req[r].make /\ req'[r].make = req[r].make
          /\ req'[r].drop = req[r].drop /\ req'[r].node = req[r].node
          /\ req'[r].todo = ks /\ req'[r].pc = "setMem"
      BY <1>6, <2>1 DEF Becomes, Like, Req
    <3>. QED BY <1>1, <1>2, <1>5, <3>1 DEF Knew, Reach, Advances, Removing, At
  <2>2. ASSUME NEW s \in q.todo,
               Becomes(r, [q EXCEPT !.pc = "delMem", !.sess = s, !.todo = @ \ {s}])
        PROVE  Went(r) /\ Knew(r) /\ Advances(r)
    <3>1. /\ Went(r) /\ req'[r].sess = s /\ req'[r].make = req[r].make
          /\ req'[r].drop = req[r].drop /\ req'[r].node = req[r].node
          /\ req'[r].todo \subseteq ks /\ req'[r].pc = "delMem" /\ s \in ks
      BY <1>6, <2>2 DEF Becomes, Like, Req
    <3>. QED BY <1>1, <1>2, <1>5, <3>1 DEF Knew, Reach, Advances, Removing, Writing, Changing, At
  <2>. QED BY <2>1, <2>2, KickMoves DEF q, ks
<1>8. Touches(r)
  BY <1>2, <1>3, <1>7, SyncTouches
<1>. QED BY <1>7, <1>8 DEF Acts

\* the steps that go on with the same session
LEMMA MovesOnAdvances ==
  ASSUME Typed, NEW r \in Thread, NEW pc \in Pc, Becomes(r, [req[r] EXCEPT !.pc = pc]),
         \/ At(r, "setMem") /\ pc = "setRedis" /\ mem'[req[r].node][req[r].sess] # None
         \/ At(r, "setRedis") /\ pc = "insert"
         \/ At(r, "delMem") /\ pc = "delRedis" /\ mem'[req[r].node][req[r].sess] = None
         \/ At(r, "delRedis") /\ pc = "delRow" /\ (req'[r].alone => redis'[req[r].sess] = None)
         \/ At(r, "updMem") /\ pc = "updRedis"
         \/ At(r, "updRedis") /\ pc = "updRow"
  PROVE  Went(r) /\ Knew(r) /\ Advances(r)
<1>1. /\ Went(r) /\ req'[r].pc = pc /\ req'[r].sess = req[r].sess /\ req'[r].node = req[r].node
      /\ req'[r].make = req[r].make /\ req'[r].drop = req[r].drop /\ req'[r].todo = req[r].todo
  BY DEF Typed, RequestsTyped, Req, Becomes, Like
<1>2. Owns(r, req[r].sess)
  BY DEF Owns, At
<1>3. Knew(r)
  BY <1>1, <1>2 DEF Knew, Reach
<1>4. Advances(r)
  <2>1. Knows(req[r])
    BY DEF Typed, RequestsTyped
  <2>. QED BY <1>1, <1>2, <2>1 DEF Advances, Knows, Writing, Removing, Changing, At
<1>. QED BY <1>1, <1>3, <1>4

LEMMA MemoryActs ==
  ASSUME Typed, NEW r \in Thread, SetMem(r) \/ DelMem(r) \/ UpdMem(r)
  PROVE  Acts(r)
<1>1. req[r] \in Req /\ Knows(req[r]) /\ req[r].pc \in {"setMem", "delMem", "updMem"}
  BY DEF Typed, RequestsTyped, SetMem, DelMem, UpdMem, At
<1>2. PICK n, s, v : n = req[r].node /\ s = req[r].sess /\ v = req[r].val
  OBVIOUS
<1>3. /\ n \in Node /\ s \in Session /\ Owns(r, s) /\ v \in Version /\ None \in Version
      /\ At(r, "setMem") => v # None
  BY <1>1, <1>2 DEF Typed, Knows, Numbered, Version, Owns, At, Writing
<1>4. /\ UNCHANGED <<redis, table, used, rows, home, closed, fresh>> /\ kept' \subseteq kept
      /\ \/ UNCHANGED mem /\ At(r, "updMem")
         \/ \E u \in {v, None} : /\ mem' = [mem EXCEPT ![n][s] = u]
                                 /\ (At(r, "delMem") => u = None) /\ (At(r, "setMem") => u = v)
  BY <1>2, <1>3 DEF SetMem, DelMem, UpdMem, history, SetStore, EraseStore, UpdateStore, At
<1>5. /\ \A x \in Node, y \in Session : x # n \/ y # s => mem'[x][y] = mem[x][y]
      /\ (At(r, "delMem") => mem'[n][s] = None) /\ (At(r, "setMem") => mem'[n][s] # None)
  <2>1. CASE UNCHANGED mem /\ At(r, "updMem")
    BY <2>1 DEF At
  <2>2. ASSUME NEW u \in {v, None}, mem' = [mem EXCEPT ![n][s] = u],
               (At(r, "delMem") => u = None) /\ (At(r, "setMem") => u = v)
        PROVE  /\ \A x \in Node, y \in Session : x # n \/ y # s => mem'[x][y] = mem[x][y]
               /\ (At(r, "delMem") => mem'[n][s] = None) /\ (At(r, "setMem") => mem'[n][s] # None)
    <3>1. u \in Version /\ CopiesTyped /\ n \in Node /\ s \in Session
          /\ mem' = [mem EXCEPT ![n][s] = u]
      BY <1>3, <2>2 DEF Typed
    <3>2. mem'[n][s] = u /\ \A x \in Node, y \in Session : x # n \/ y # s => mem'[x][y] = mem[x][y]
      BY <3>1 DEF CopiesTyped
    <3>. QED BY <1>3, <2>2, <3>2
  <2>. QED BY <1>4, <2>1, <2>2
<1>6. \/ Becomes(r, [req[r] EXCEPT !.pc = "setRedis"]) /\ At(r, "setMem")
      \/ Becomes(r, [req[r] EXCEPT !.pc = "delRedis"]) /\ At(r, "delMem")
      \/ Becomes(r, [req[r] EXCEPT !.pc = "updRedis"]) /\ At(r, "updMem")
  BY PcMoves DEF Typed, SetMem, DelMem, UpdMem, Pc, Writing, Removing, Changing
<1>7. Went(r) /\ Knew(r) /\ Advances(r)
  BY <1>2, <1>5, <1>6, MovesOnAdvances DEF Pc, Writing, Removing, Changing
<1>8. n = req'[r].node
  BY <1>1, <1>2, <1>6 DEF Becomes, Like, Req
<1>9. Touches(r)
  BY <1>1, <1>2, <1>3, <1>4, <1>5, <1>7, <1>8 DEF Touches
<1>. QED BY <1>7, <1>9 DEF Acts

\* on to a session of todo
LEMMA NextAdvances ==
  ASSUME Typed, NEW r \in Thread, NEW s \in req[r].todo, NEW pc \in {"get", "delMem"},
         Becomes(r, [req[r] EXCEPT !.pc = pc, !.sess = s, !.todo = @ \ {s}]),
         req[r].make # 0 => pc = "delMem" /\ At(r, "delRow")
  PROVE  Went(r) /\ Knew(r) /\ Advances(r)
<1>1. /\ Went(r) /\ req'[r].pc = pc /\ req'[r].sess = s /\ req'[r].node = req[r].node
      /\ req'[r].make = req[r].make /\ req'[r].drop = req[r].drop
      /\ req'[r].todo = req[r].todo \ {s}
  BY DEF Typed, RequestsTyped, Req, Becomes, Like
<1>2. Knew(r)
  BY <1>1 DEF Knew, Reach
<1>3. Advances(r)
  BY <1>1 DEF Advances, Writing, Removing, Changing, At
<1>. QED BY <1>1, <1>2, <1>3

LEMMA CommandsActs ==
  ASSUME Typed, NEW r \in Thread, NEW ok \in BOOLEAN,
         SetRedis(r, ok) \/ DelRedis(r, ok) \/ UpdRedis(r, ok)
  PROVE  Acts(r)
<1>1. req[r] \in Req /\ Knows(req[r]) /\ req[r].pc \in {"setRedis", "delRedis", "updRedis"}
  BY DEF Typed, RequestsTyped, SetRedis, DelRedis, UpdRedis, At
<1>2. PICK n, s, v : n = req[r].node /\ s = req[r].sess /\ v = req[r].val
  OBVIOUS
<1>3. n \in Node /\ s \in Session /\ Owns(r, s)
  BY <1>1, <1>2 DEF Typed, Knows, Numbered, Owns, At
<1>4. /\ UNCHANGED <<mem, table, used, rows, kept, home, closed>>
      /\ \A u \in Session : fresh'[u] # fresh[u] => At(r, "updRedis") /\ u = s /\ req[r].alone
  BY <1>2 DEF SetRedis, DelRedis, UpdRedis, history, Typed, HistoryTyped
<1>5. /\ \A u \in Session : redis[u] = None /\ redis'[u] # None =>
                              u = s /\ req[r].pc \in {"setRedis", "updRedis"}
      /\ At(r, "delRedis") /\ ok /\ link[n] => redis'[s] = None
  <2>1. redis \in [Session -> Version]
    BY DEF Typed, CopiesTyped
  <2>2. CASE At(r, "delRedis")
    <3>1. redis' = IF link[n] /\ ok THEN [redis EXCEPT ![s] = None] ELSE redis
      BY <1>2, <2>2 DEF SetRedis, DelRedis, UpdRedis, Del, Command, At
    <3>. QED BY <1>3, <2>1, <2>2, <3>1
  <2>3. CASE ~At(r, "delRedis")
    <3>1. redis' \in {redis, [redis EXCEPT ![s] = v]}
      BY <1>2, <2>3 DEF SetRedis, DelRedis, UpdRedis, SetEx, Command, At
    <3>. QED BY <1>1, <1>3, <2>1, <2>3, <3>1 DEF At
  <2>. QED BY <2>2, <2>3
<1>6. Went(r) /\ Knew(r) /\ Advances(r)
  <2>1. CASE SetRedis(r, ok)
    <3>1. Becomes(r, [req[r] EXCEPT !.pc = "insert"]) /\ At(r, "setRedis")
      BY <2>1, PcMoves DEF SetRedis, Typed, Pc, Writing
    <3>. QED BY <3>1, MovesOnAdvances DEF Pc, Writing
  <2>2. CASE DelRedis(r, ok)
    <3>1. /\ Becomes(r, [req[r] EXCEPT !.pc = "delRow"]) /\ At(r, "delRedis")
          /\ req'[r].alone => ok /\ link[n]
      BY <1>2, <2>2, DelRedisMoves DEF DelRedis, Typed
    <3>. QED BY <1>2, <1>5, <3>1, MovesOnAdvances DEF Pc, Removing
  <2>3. CASE UpdRedis(r, ok)
    <3>1. At(r, "updRedis") /\ req[r].make = 0
      BY <1>1, <2>3 DEF UpdRedis, Knows, Writing, Removing, At
    <3>2. CASE Becomes(r, Idle)
      BY <3>2, DoneAdvances DEF Becomes
    <3>3. ASSUME NEW u \in req[r].todo,
                 Becomes(r, [req[r] EXCEPT !.pc = "get", !.sess = u, !.todo = @ \ {u}])
          PROVE  Went(r) /\ Knew(r) /\ Advances(r)
      BY <3>1, <3>3, NextAdvances
    <3>4. CASE Becomes(r, [req[r] EXCEPT !.pc = "updRow"])
      BY <3>1, <3>4, MovesOnAdvances DEF Pc, Changing
    <3>. QED BY <2>3, <3>2, <3>3, <3>4, UpdRedisMoves
  <2>. QED BY <2>1, <2>2, <2>3
<1>7. Touches(r)
  BY <1>1, <1>3, <1>4, <1>5, <1>6 DEF Touches
<1>. QED BY <1>6, <1>7 DEF Acts

LEMMA TableActs ==
  ASSUME Typed, NEW r \in Thread, NEW ok \in BOOLEAN,
         Insert(r, ok) \/ DelRow(r, ok) \/ UpdRow(r, ok)
  PROVE  Acts(r)
<1>1. req[r] \in Req /\ Knows(req[r]) /\ req[r].pc \in {"insert", "delRow", "updRow"}
  BY DEF Typed, RequestsTyped, Insert, DelRow, UpdRow, At
<1>2. PICK n, s, v : n = req[r].node /\ s = req[r].sess /\ v = req[r].val
  OBVIOUS
<1>3. n \in Node /\ s \in Session /\ Owns(r, s)
  BY <1>1, <1>2 DEF Typed, Knows, Numbered, Owns, At
<1>4. /\ UNCHANGED <<mem, redis, used, rows, fresh>>
      /\ table' \in {table, [table EXCEPT ![s] = v], [table EXCEPT ![s] = None]}
      /\ At(r, "delRow") => table' \in {table, [table EXCEPT ![s] = None]}
      /\ kept' = kept \/ (At(r, "insert") /\ s = req[r].make /\ kept' = kept \cup {s})
      /\ home' = home \/ (At(r, "insert") /\ s = req[r].make /\ home' = [home EXCEPT ![s] = n])
      /\ \/ closed' = closed
         \/ At(r, "delRow") /\ req[r].alone /\ closed' = closed \cup {s}
            /\ table' = [table EXCEPT ![s] = None]
  BY <1>2 DEF Insert, DelRow, UpdRow, cacheVars, history, At
<1>5. /\ \A u \in Session : table'[u] # table[u] => u = s /\ (At(r, "delRow") => table'[u] = None)
      /\ \A u \in Session : home'[u] # home[u] => At(r, "insert") /\ u = req[r].make
      /\ \A u \in closed' : u \in closed \/ (At(r, "delRow") /\ req[r].alone /\ u = s /\ table'[u] = None)
  BY <1>3, <1>4 DEF Typed, CopiesTyped, HistoryTyped
<1>6. Went(r) /\ Knew(r) /\ Advances(r)
  <2>1. CASE Becomes(r, Idle)
    BY <2>1, DoneAdvances DEF Becomes
  <2>2. CASE Insert(r, ok) /\ ~Becomes(r, Idle)
    <3>1. /\ Went(r) /\ req'[r].pc = "delMem" /\ req'[r].sess = req[r].drop /\ req'[r].make = 0
          /\ req'[r].drop = 0 /\ req'[r].todo = req[r].todo /\ req'[r].node = req[r].node
      BY <1>1, <2>2, InsertMoves DEF Typed, Req, Becomes, Like
    <3>. QED BY <3>1 DEF Knew, Reach, Advances, Writing, Changing
  <2>3. CASE DelRow(r, ok) /\ ~Becomes(r, Idle)
    <3>1. At(r, "delRow") /\ req[r].make # 0
      BY <2>3, DelRowMoves DEF DelRow
    <3>2. CASE Becomes(r, [req[r] EXCEPT !.pc = "setMem", !.sess = req[r].make])
      <4>1. /\ Went(r) /\ req'[r].pc = "setMem" /\ req'[r].sess = req[r].make
            /\ req'[r].make = req[r].make /\ req'[r].drop = req[r].drop
            /\ req'[r].todo = req[r].todo /\ req'[r].node = req[r].node
        BY <1>1, <3>2 DEF Req, Becomes, Like
      <4>. QED BY <3>1, <4>1 DEF Knew, Reach, Advances, Removing, At
    <3>3. ASSUME NEW u \in req[r].todo,
                 Becomes(r, [req[r] EXCEPT !.pc = "delMem", !.sess = u, !.todo = @ \ {u}])
          PROVE  Went(r) /\ Knew(r) /\ Advances(r)
      BY <3>1, <3>3, NextAdvances
    <3>. QED BY <2>3, <3>2, <3>3, DelRowMoves
  <2>4. CASE UpdRow(r, ok) /\ ~Becomes(r, Idle)
    BY <2>4, ReturnWent DEF UpdRow, Typed
  <2>. QED BY <2>1, <2>2, <2>3, <2>4
<1>7. Touches(r)
  BY <1>1, <1>3, <1>4, <1>5, <1>6 DEF Touches
<1>. QED BY <1>6, <1>7 DEF Acts

LEMMA ReadingActs ==
  ASSUME Typed, NEW r \in Thread, NEW ok \in BOOLEAN, Query(r, ok) \/ SelectKeys(r, ok)
  PROVE  Acts(r)
<1>1. req[r] \in Req /\ Knows(req[r]) /\ req[r].pc \in {"query", "keys"} /\ req[r].make = 0
  BY DEF Typed, RequestsTyped, Query, SelectKeys, Knows, Writing, Removing, At
<1>2. UNCHANGED <<mem, redis, table, used, rows, kept, home, closed, fresh>>
  BY DEF Query, SelectKeys, cacheVars, history
<1>3. Went(r) /\ Knew(r) /\ Advances(r)
  <2>1. CASE Becomes(r, Idle)
    BY <2>1, DoneAdvances DEF Becomes
  <2>2. CASE Query(r, ok)
    <3>1. PICK pc \in {"keys", "updMem"}, v \in {perm, Cleared} :
            /\ Becomes(r, [req[r] EXCEPT !.pc = pc, !.val = v])
            /\ pc = "keys" => req[r].kind = "grant"
      BY <2>2, QueryMoves
    <3>2. /\ Went(r) /\ req'[r].pc = pc /\ req'[r].sess = req[r].sess /\ req'[r].make = 0
          /\ req'[r].drop = req[r].drop /\ req'[r].todo = req[r].todo /\ req'[r].node = req[r].node
      BY <1>1, <3>1 DEF Req, Becomes, Like
    <3>3. Owns(r, req[r].sess) /\ req[r].pc = "query"
      BY <2>2 DEF Query, Owns, At
    <3>. QED BY <3>1, <3>2, <3>3 DEF Knew, Reach, Advances, Writing, Changing
  <2>3. ASSUME SelectKeys(r, ok), ~Becomes(r, Idle)
        PROVE  Went(r) /\ Knew(r) /\ Advances(r)
    <3>. DEFINE ks == {s \in Session : table[s] # None}
    <3>1. ks \subseteq Nat /\ req[r].pc = "keys" /\ req[r].sess = 0 /\ \A s \in ks : ~Blank(s) /\ s # 0
      BY <1>1, <2>3, SessionsAssumption DEF SelectKeys, At, Knows, Blank
    <3>2. PICK u \in ks : Becomes(r, [[req[r] EXCEPT !.todo = ks]
                                        EXCEPT !.pc = "get", !.sess = u, !.todo = @ \ {u}])
      BY <1>1, <2>3, SelectKeysMoves DEF Req
    <3>. HIDE DEF ks
    <3>3. /\ Went(r) /\ req'[r].pc = "get" /\ req'[r].sess = u /\ req'[r].make = 0
          /\ req'[r].drop = req[r].drop /\ req'[r].todo \subseteq ks
      BY <1>1, <3>1, <3>2 DEF Req, Becomes, Like
    <3>. QED BY <3>1, <3>3 DEF Knew, Reach, Advances, Writing, Changing, Owns
  <2>. QED BY <2>1, <2>2, <2>3
<1>4. Touches(r)
  BY <1>2, <1>3, QuietTouches
<1>. QED BY <1>3, <1>4 DEF Acts

-----------------------------------------------------------------------------
(* Restarts, what a node restores, and what becomes of Redis.               *)

LEMMA RestartOrderly ==
  ASSUME Typed, Typed', Orderly, NEW n \in Node, Restart(n)
  PROVE  Orderly'
<1>1. PICK read \in {table, Empty} :
       LET found == {s \in Session : read[s] # None} IN
       /\ rows' = [rows EXCEPT ![n] = read]
       /\ req' = [r \in Thread |->
            IF req[r].node = n THEN Idle
            ELSE IF req[r].sess \in found THEN [req[r] EXCEPT !.alone = FALSE] ELSE req[r]]
       /\ kept' = {s \in kept : home[s] = n => s \in found}
       /\ fresh' = [s \in Session |-> IF s \in found /\ read[s] < fresh[s] THEN None ELSE fresh[s]]
  BY DEF Restart
<1>2. /\ UNCHANGED <<table, home, closed, redis>> /\ mem' = [mem EXCEPT ![n] = Empty]
      /\ kept' \subseteq kept /\ \A s \in Session : fresh'[s] \in {fresh[s], None}
  BY <1>1 DEF Restart, ForgetNode
<1>3. /\ \A m \in Node, s \in Session : mem'[m][s] = IF m = n THEN None ELSE mem[m][s]
      /\ \A m \in Node, s \in Session : rows'[m][s] = IF m = n THEN read[s] ELSE rows[m][s]
      /\ \A s \in Session : table[s] = None => read[s] = None
  BY <1>1, <1>2 DEF Typed, CopiesTyped, Empty
<1>4. ASSUME NEW r \in Thread
      PROVE  \/ req'[r] = Idle
             \/ Like(req'[r], req[r]) /\ req[r].node # n
                /\ (req'[r].alone => req[r].alone /\ (req[r].sess \in Session => read[req[r].sess] = None))
  <2>1. req[r] \in Req
    BY DEF Typed, RequestsTyped
  <2>2. CASE req[r].node = n
    BY <1>1, <2>2
  <2>3. CASE req[r].node # n /\ req[r].sess \in {s \in Session : read[s] # None}
    <3>1. req'[r] = [req[r] EXCEPT !.alone = FALSE]
      BY <1>1, <2>3
    <3>. QED BY <2>1, <2>3, <3>1 DEF Like, Req
  <2>4. CASE req[r].node # n /\ req[r].sess \notin {s \in Session : read[s] # None}
    <3>1. req'[r] = req[r]
      BY <1>1, <2>4
    <3>. QED BY <2>1, <2>4, <3>1 DEF Like
  <2>. QED BY <2>2, <2>3, <2>4
<1>5. ASSUME NEW s \in Session, Blank(s) PROVE Blank(s)'
  BY <1>2, <1>3, <1>5 DEF Blank
<1>6. \A r \in Thread, s \in Session : Owns(r, s)' => Owns(r, s) /\ req'[r].pc = req[r].pc
  BY <1>4, IdleKnows DEF Owns, At, Like
<1>7. ASSUME NEW r \in Thread PROVE New(r)'
  <2>1. CASE req'[r] = Idle
    BY <2>1, IdleKnows DEF New, Making
  <2>2. CASE Like(req'[r], req[r])
    <3>1. PICK s : s = req[r].make
      OBVIOUS
    <3>2. New(r) /\ req'[r].make = s /\ (s = 0 \/ s \in Session) /\ 0 \notin Session
      BY <2>2, <3>1, Ids, SessionsAssumption
      DEF Orderly, Like, Typed, RequestsTyped, Knows, Numbered
    <3>3. s # 0 => /\ s \notin kept' /\ s \notin closed' /\ fresh'[s] = None /\ home'[s] = NoNode
                   /\ \A x \in Thread \ {r} : req'[x].make # s
      BY <1>2, <1>4, <3>1, <3>2, IdleKnows DEF New, Like
    <3>4. ASSUME Making(r)'
          PROVE  /\ Blank(s)'
                 /\ \A x \in Thread \ {r} : ~Owns(x, s)' /\ s \notin req'[x].todo /\ req'[x].drop # s
                 /\ s \notin req'[r].todo /\ req'[r].drop # s
                 /\ req'[r].pc \in Removing => req'[r].sess # s
      <4>1. Making(r) /\ s # 0
        BY <2>2, <3>1, <3>4 DEF Making, Like, At
      <4>2. /\ Blank(s)
            /\ \A x \in Thread \ {r} : ~Owns(x, s) /\ s \notin req[x].todo /\ req[x].drop # s
            /\ s \notin req[r].todo /\ req[r].drop # s
            /\ req[r].pc \in Removing => req[r].sess # s
        BY <3>1, <3>2, <4>1 DEF New
      <4>. QED BY <1>4, <1>5, <1>6, <2>2, <3>2, <4>1, <4>2, IdleKnows DEF Like
    <3>. QED BY <3>2, <3>3, <3>4 DEF New, Making
  <2>. QED BY <1>4, <2>1, <2>2
<1>8. ASSUME NEW r \in Thread PROVE Lonely(r)'
  <2>. SUFFICES ASSUME ~At(r, "idle")', req'[r].alone PROVE Lonely(r)'
    BY DEF Lonely
  <2>1. PICK s, m : s = req[r].sess /\ m = req[r].node
    OBVIOUS
  <2>2. Like(req'[r], req[r]) /\ m # n /\ req[r].alone /\ ~At(r, "idle")
        /\ (s \in Session => read[s] = None)
    BY <1>4, <2>1, IdleKnows DEF At, Like
  <2>3. /\ s # 0 /\ \A x \in Thread \ {r} : ~Owns(x, s)
        /\ \A k \in Node : rows[k][s] = None /\ (k # m => mem[k][s] = None)
        /\ req[r].pc \in {"delRedis", "delRow"} => mem[m][s] = None
        /\ At(r, "delRow") => redis[s] = None
        /\ req[r].pc \in {"setRedis", "insert"} => mem[m][s] # None
    BY <2>1, <2>2 DEF Orderly, Lonely
  <2>4. s \in Session /\ m \in Node
    BY <2>1, <2>2, <2>3 DEF Typed, RequestsTyped, Knows, Numbered, At
  <2>5. /\ \A k \in Node : rows'[k][s] = None /\ (k # m => mem'[k][s] = None)
        /\ mem'[m][s] = mem[m][s] /\ redis' = redis
    BY <1>2, <1>3, <2>2, <2>3, <2>4
  <2>6. \A x \in Thread \ {r} : ~Owns(x, s)'
    BY <1>6, <2>3, <2>4
  <2>7. /\ req'[r].sess = s /\ req'[r].node = m /\ req'[r].pc = req[r].pc
    BY <2>1, <2>2 DEF Like
  <2>. QED BY <2>3, <2>5, <2>6, <2>7 DEF Lonely, At
<1>9. ASSUME NEW s \in closed' PROVE Gone(s)'
  <2>1. s \in closed /\ s \in Session /\ Gone(s)
    BY <1>2 DEF Typed, HistoryTyped, Numbered, Orderly
  <2>. QED BY <1>5, <1>6, <2>1 DEF Gone
<1>. QED BY <1>7, <1>8, <1>9 DEF Orderly

LEMMA RestoreOrderly ==
  ASSUME Typed, Typed', Orderly, NEW n \in Node, NEW s \in Session, NEW ok \in BOOLEAN, Restore(n, s, ok)
  PROVE  Orderly'
<1>1. /\ UNCHANGED <<table, req, kept, home, closed, fresh>> /\ rows[n][s] # None
      /\ mem' = [mem EXCEPT ![n][s] = rows[n][s]]
      /\ redis' \in {redis, [redis EXCEPT ![s] = rows[n][s]]}
      /\ rows' = [rows EXCEPT ![n][s] = None]
  BY DEF Restore, RestoreOne, SetStore, SetEx, Command
<1>2. \A m \in Node, u \in Session : u # s =>
        mem'[m][u] = mem[m][u] /\ redis'[u] = redis[u] /\ rows'[m][u] = rows[m][u]
  BY <1>1 DEF Typed, CopiesTyped
<1>3. ~Blank(s)
  BY <1>1 DEF Blank
<1>4. ASSUME NEW u \in Session, Blank(u) PROVE Blank(u)'
  <2>1. u # s
    BY <1>3, <1>4
  <2>. QED BY <1>1, <1>2, <1>4, <2>1 DEF Blank
<1>5. ASSUME NEW r \in Thread PROVE New(r)'
  <2>1. PICK u : u = req[r].make
    OBVIOUS
  <2>2. New(r) /\ req'[r] = req[r] /\ (u = 0 \/ u \in Session)
    BY <1>1, <2>1 DEF Orderly, Typed, RequestsTyped, Knows, Numbered
  <2>3. Making(r)' => Making(r) /\ u # 0
    BY <1>1, <2>1 DEF Making, At
  <2>4. Making(r)' => Blank(u)'
    BY <1>4, <2>1, <2>2, <2>3 DEF New
  <2>. QED BY <1>1, <2>1, <2>2, <2>3, <2>4 DEF New, Owns, At
<1>6. ASSUME NEW r \in Thread PROVE Lonely(r)'
  <2>. SUFFICES ASSUME ~At(r, "idle"), req[r].alone PROVE Lonely(r)'
    BY <1>1 DEF Lonely, At
  <2>1. PICK u, m : u = req[r].sess /\ m = req[r].node
    OBVIOUS
  <2>2. Lonely(r)
    BY DEF Orderly
  <2>3. u \in Session /\ m \in Node /\ u # s
    BY <1>1, <2>1, <2>2 DEF Lonely, Typed, RequestsTyped, Knows, Numbered, At
  <2>. QED BY <1>1, <1>2, <2>1, <2>2, <2>3 DEF Lonely, Owns, At
<1>7. ASSUME NEW u \in closed' PROVE Gone(u)'
  <2>1. u \in closed /\ u \in Session /\ Gone(u)
    BY <1>1, <1>7 DEF Typed, HistoryTyped, Numbered, Orderly
  <2>. QED BY <1>1, <1>4, <2>1 DEF Gone, Owns, At
<1>. QED BY <1>5, <1>6, <1>7 DEF Orderly

\* Redis may only lose what it has
LEMMA RedisOrderly ==
  ASSUME Typed, Orderly, UNCHANGED <<mem, table, rows, req, kept, home, closed, fresh>>,
         \A s \in Session : redis'[s] \in {redis[s], None}
  PROVE  Orderly'
<1>1. ASSUME NEW s \in Session, Blank(s) PROVE Blank(s)'
  BY <1>1 DEF Blank
<1>2. ASSUME NEW r \in Thread PROVE New(r)'
  <2>1. PICK u : u = req[r].make
    OBVIOUS
  <2>2. New(r) /\ req'[r] = req[r] /\ (u = 0 \/ u \in Session)
    BY <2>1 DEF Orderly, Typed, RequestsTyped, Knows, Numbered
  <2>3. Making(r)' => Making(r) /\ u # 0
    BY <2>1 DEF Making, At
  <2>4. Making(r)' => Blank(u)'
    BY <1>1, <2>1, <2>2, <2>3 DEF New
  <2>. QED BY <2>1, <2>2, <2>3, <2>4 DEF New, Owns, At
<1>3. ASSUME NEW r \in Thread PROVE Lonely(r)'
  <2>. SUFFICES ASSUME ~At(r, "idle"), req[r].alone PROVE Lonely(r)'
    BY DEF Lonely, At
  <2>1. Lonely(r) /\ req[r].sess \in Session
    BY DEF Orderly, Lonely, Typed, RequestsTyped, Knows, Numbered, At
  <2>. QED BY <2>1 DEF Lonely, Owns, At
<1>4. ASSUME NEW s \in closed' PROVE Gone(s)'
  BY <1>1 DEF Typed, HistoryTyped, Numbered, Orderly, Gone, Owns, At
<1>. QED BY <1>2, <1>3, <1>4 DEF Orderly

\* the steps of request r
Moves(r) ==
  \/ \E n \in Node : Login(r, n) \/ \E kind \in Changes : Change(r, n, kind)
  \/ \E n \in Node, kind \in Kinds, s \in used : Request(r, n, kind, s)
  \/ SetMem(r) \/ DelMem(r) \/ UpdMem(r)
  \/ \E ok \in BOOLEAN : Step(r, ok)

LEMMA MovesAct ==
  ASSUME Typed, NEW r \in Thread, Moves(r)
  PROVE  Acts(r)
<1>1. ASSUME NEW ok \in BOOLEAN, Step(r, ok) PROVE Acts(r)
  BY <1>1, LookActs, KickActs, CommandsActs, TableActs, ReadingActs DEF Step
<1>. QED BY <1>1, BeginActs, MemoryActs DEF Moves

LEMMA OrderlyStep ==
  ASSUME Typed, Typed', Orderly, Next
  PROVE  Orderly'
<1>1. ASSUME NEW r \in Thread, Moves(r) PROVE Orderly'
  BY <1>1, MovesAct, RequestOrderly
<1>2. ASSUME NEW n \in Node, LinkStep(n) PROVE Orderly'
  BY <1>2, RedisOrderly DEF LinkStep, LinkChange, history
<1>3. CASE RedisRestart
  <2>1. \A s \in Session : redis'[s] = None
    BY <1>3 DEF RedisRestart, RedisEmptied, Empty
  <2>. QED BY <1>3, <2>1, RedisOrderly DEF RedisRestart, RedisEmptied
<1>4. ASSUME NEW r \in Thread, Statement(r) PROVE Orderly'
  BY <1>4, RedisOrderly DEF Statement, cacheVars, history
<1>. QED BY <1>1, <1>2, <1>3, <1>4, RestartOrderly, RestoreOrderly DEF Next, Moves

LEMMA OrderlyInit ==
  ASSUME Init
  PROVE  Orderly
BY IdleKnows DEF Init, Orderly, New, Lonely, Making, At

LEMMA SoundStep ==
  Typed /\ Orderly /\ [Next]_vars => (Typed /\ Orderly)'
<1>1. ASSUME Typed, Orderly, Next PROVE (Typed /\ Orderly)'
  BY <1>1, TypedStep, OrderlyStep
<1>2. ASSUME Typed, Orderly, UNCHANGED vars PROVE (Typed /\ Orderly)'
  BY <1>2, TypedStutter, RedisOrderly DEF vars, cacheVars, history
<1>. QED BY <1>1, <1>2

(* Whatever refreshes, callbacks, synchronisations and restarts come after  *)
(* a logout, none brings the session back, with the exceptions LogoutLasts  *)
(* states.                                                                  *)
THEOREM SessionsLogoutLasts == Spec => []LogoutLasts
<1>1. Init => Typed /\ Orderly
  BY TypedInit, OrderlyInit
<1>2. Typed /\ Orderly /\ [Next]_vars => (Typed /\ Orderly)'
  BY SoundStep
<1>3. Typed /\ Orderly => LogoutLasts
  BY DEF Orderly, Gone, Blank, LogoutLasts
<1>. QED BY <1>1, <1>2, <1>3, PTL DEF Spec
=============================================================================
