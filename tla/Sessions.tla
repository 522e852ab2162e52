------------------------------ MODULE Sessions ------------------------------
(***************************************************************************)
(* Login sessions (system/services/TokenService.h and its callers): a      *)
(* session is in the cache of TokenCache and, for restarts, in the table   *)
(* sys_token.  Every request is a sequence of calls to the cache and       *)
(* statements on the table, without a lock over them, so that requests and *)
(* the callback with the location interleave call by call, on every node.  *)
(*                                                                         *)
(* All sessions are of one user.  What a session carries is the version of *)
(* the user's permissions that was read into it, or Cleared when a SELECT  *)
(* failed; names, addresses and the location itself are left out.          *)
(***************************************************************************)
EXTENDS TokenCache, FiniteSets

CONSTANTS
  Thread,        \* requests that can be in progress at a time
  KickPrevious,  \* MultiSessionPolicy::kickPrevious()
  MaxEvents,     \* bound on the mishaps (links lost, commands and statements lost,
                 \* nodes restarted, Redis emptied), the changes of permissions, and
                 \* the sessions after the first, together
  MaxCalls       \* bound on the requests begun

ASSUME SessionsAssumption ==
  /\ Session \subseteq Nat \ {0}
  /\ KickPrevious \in BOOLEAN /\ MaxEvents \in Nat /\ MaxCalls \in Nat

VARIABLES
  table,     \* sys_token: table[s]
  perm,      \* the version of the permissions in the role tables
  used,      \* sessions whose id has been given out
  awaited,   \* <<n, s>>: node n waits for the location of session s
  rows,      \* rows[n]: what node n still has to restore at its start
  calls,     \* the requests begun so far
  req,       \* req[r]: the request thread r is working on
  events,    \* the mishaps so far
  kept,      \* history: sessions logged in, table row included, and not logged out
  home,      \* the node createToken has returned a session on
  closed,    \* history: sessions whose removal met nothing that could undo it
  fresh,     \* history: the version a change of the permissions brought a session to
  missed     \* history: sessions Redis did not get, or lost, without anybody noticing

history == <<kept, home, closed, fresh, missed>>
vars == <<cacheVars, table, perm, used, awaited, rows, calls, req, events, history>>

NoNode == "none"
Cleared == MaxEvents + 1   \* no permissions at all, later than every version

(* sess: the session worked on; val: what was read of it or is to be        *)
(* written; todo: sessions still to be worked on; make: the session the     *)
(* request is about to create; drop: the one it removes at its end; alone:  *)
(* nothing has met the work on sess yet.                                    *)
Idle == [pc |-> "idle", kind |-> "none", node |-> NoNode, sess |-> 0, val |-> None,
         todo |-> {}, make |-> 0, drop |-> 0, alone |-> FALSE]

At(r, pc) == req[r].pc = pc
Busy(s) == {r \in Thread : req[r].pc # "idle" /\ req[r].sess = s}
Running(n) == rows[n] = Empty
Further(ss) == IF ss = {} THEN 0 ELSE Cardinality(ss) - 1
Within(e, p, ss) == e + p + Further(ss) <= MaxEvents
EventsLeft == Within(events + 1, perm, used)

\* copies of s a request on node n does not reach
CopyElsewhere(n, s) == \E m \in Node : (m # n /\ mem[m][s] # None) \/ rows[m][s] # None

(* Thread r goes on as q.  When q turns to another session, those at work   *)
(* on it are no longer alone.                                               *)
Turn(r, q) ==
  LET turns == q.sess # 0 /\ (q.sess # req[r].sess \/ At(r, "idle"))
      met == IF turns THEN Busy(q.sess) \ {r} ELSE {}
  IN req' = [x \in Thread |->
       IF x = r THEN IF turns THEN [q EXCEPT !.alone = met = {} /\ ~CopyElsewhere(q.node, q.sess)]
                              ELSE q
       ELSE IF x \in met THEN [req[x] EXCEPT !.alone = FALSE] ELSE req[x]]

GoTo(r, pc) == Turn(r, [req[r] EXCEPT !.pc = pc])
Return(r) == req' = [req EXCEPT ![r] = Idle]

\* the step went wrong, or Redis did not take part: the work is not done everywhere
Spoil(q, ok) == [q EXCEPT !.alone = @ /\ ok]

\* commands that Redis did not take although the link looked alive
Misses(ss, ok) == missed' = IF ok THEN missed ELSE missed \cup ss

\* a step goes wrong at the cost of one mishap
Mishap(ok) == (ok \/ EventsLeft) /\ events' = IF ok THEN events ELSE events + 1

-----------------------------------------------------------------------------
(* Requests begin: login (createToken for a new session, with the           *)
(* permissions read before), the calls that work on a session (logout,      *)
(* forceLogout, the refresh in JwtAuthFilter, refreshToken, updatePwd, the  *)
(* location callback, those that only read it), and changes of the user's   *)
(* permissions: of those of the role (SysRoleCtrl::edit), or of the role    *)
(* itself ("grant": SysRoleCtrl::selectAll, SysUserCtrl::insertAuthRole).   *)
NewId == Cardinality(used) + 1
CanCreate == NewId \in Session /\ Within(events, perm, used \cup {NewId})

FirstOfCreate == IF KickPrevious THEN "getAll" ELSE "setMem"

\* thread r takes up a request on node n
Enters(r, n) == At(r, "idle") /\ Running(n) /\ calls < MaxCalls /\ calls' = calls + 1

Login(r, n) ==
  /\ Enters(r, n) /\ CanCreate
  /\ Turn(r, [Idle EXCEPT !.pc = FirstOfCreate, !.node = n, !.sess = NewId, !.val = perm,
                          !.make = NewId])
  /\ used' = used \cup {NewId}
  /\ UNCHANGED <<cacheVars, table, perm, awaited, rows, events, history>>

\* a client has its token from createToken; the list of sessions shows what is cached
Known(s, kind) == home[s] # NoNode \/ (kind = "force" /\ redis[s] # None)

Request(r, n, kind, s) ==
  /\ Enters(r, n) /\ Known(s, kind)
  /\ kind = "location" => <<n, s>> \in awaited
  /\ awaited' = IF kind = "location" THEN awaited \ {<<n, s>>} ELSE awaited
  /\ Turn(r, [Idle EXCEPT !.pc = "get", !.kind = kind, !.node = n, !.sess = s])
  /\ UNCHANGED <<cacheVars, table, perm, used, rows, events, history>>

Changes == {"edit", "grant"}
FirstRead(kind) == IF kind = "edit" THEN "keys" ELSE "query"

Change(r, n, kind) ==
  /\ Enters(r, n) /\ Within(events, perm + 1, used)
  /\ Turn(r, [Idle EXCEPT !.pc = FirstRead(kind), !.kind = kind, !.node = n])
  /\ UNCHANGED <<cacheVars, table, perm, used, awaited, rows, events, history>>

(* The UPDATE, DELETE and INSERTs a change begins with, one by one; their   *)
(* results are not looked at, so that any number of them takes effect.      *)
Statement(r) ==
  /\ req[r].kind \in Changes /\ At(r, FirstRead(req[r].kind))
  /\ Within(events, perm + 1, used)
  /\ perm' = perm + 1
  /\ UNCHANGED <<calls, cacheVars, table, used, awaited, rows, req, events, history>>

-----------------------------------------------------------------------------
(* What follows when one piece of work is done.                             *)
NextKey(r, q) ==
  IF q.todo = {} THEN Return(r)
  ELSE \E s \in q.todo :
         Turn(r, [q EXCEPT !.pc = "get", !.sess = s, !.todo = @ \ {s}])

NextKick(r, q) ==
  IF q.todo = {} THEN Turn(r, [q EXCEPT !.pc = "setMem", !.sess = q.make])
  ELSE \E s \in q.todo :
         Turn(r, [q EXCEPT !.pc = "delMem", !.sess = s, !.todo = @ \ {s}])

AfterRemoval(r, q) == IF q.make = 0 THEN Return(r) ELSE NextKick(r, q)

AfterCreation(r, q) ==
  IF q.drop = 0 THEN Return(r)
  ELSE Turn(r, [q EXCEPT !.pc = "delMem", !.sess = q.drop, !.make = 0, !.drop = 0])

(* get, and what each request makes of the answer.                          *)
Look(r, ok) ==
  LET q == req[r]
      v == Found(q.node, q.sess, ok) IN
  /\ At(r, "get")
  /\ Get(q.node, ok)
  /\ Misses({s \in Session : mem[q.node][s] # None}, ok)
  /\ CASE q.kind = "force"                ->
            Turn(r, [q EXCEPT !.pc = "delMem", !.kind = "none"]) /\ UNCHANGED used
       [] q.kind \in Changes /\ v = None  -> NextKey(r, q) /\ UNCHANGED used
       [] q.kind = "edit" /\ v # None     -> GoTo(r, "query") /\ UNCHANGED used
       [] q.kind = "grant" /\ v # None    -> GoTo(r, "updMem") /\ UNCHANGED used
       [] q.kind = "logout" /\ v # None   ->
            Turn(r, [q EXCEPT !.pc = "delMem", !.kind = "none"]) /\ UNCHANGED used
       [] q.kind = "refresh" /\ v # None  ->
            Turn(r, [q EXCEPT !.pc = "setMem", !.kind = "none", !.val = v]) /\ UNCHANGED used
       [] q.kind \in {"location", "password"} /\ v # None ->
            Turn(r, [q EXCEPT !.pc = "updMem", !.val = v]) /\ UNCHANGED used
       [] q.kind = "rotate" /\ v # None   ->
            /\ CanCreate
            /\ Turn(r, [q EXCEPT !.pc = FirstOfCreate, !.kind = "none", !.val = v, !.sess = NewId,
                                 !.make = NewId, !.drop = q.sess])
            /\ used' = used \cup {NewId}
       [] OTHER                           -> Return(r) /\ UNCHANGED used
  /\ UNCHANGED <<calls, table, perm, awaited, rows, kept, home, closed, fresh>>

(* createToken: the other sessions of the user go first.                    *)
Kick(r, ok) ==
  LET q == req[r] IN
  /\ At(r, "getAll")
  /\ GetAll(q.node, ok)
  /\ NextKick(r, [q EXCEPT !.todo = AllKeys(q.node, ok)])
  /\ Misses({s \in Session : mem[q.node][s] # None}, ok)
  /\ UNCHANGED <<calls, table, perm, used, awaited, rows, kept, home, closed, fresh>>

(* refreshToken: set, then INSERT ... ON CONFLICT DO UPDATE.                *)
SetMem(r) ==
  /\ At(r, "setMem")
  /\ SetStore(req[r].node, req[r].sess, req[r].val)
  /\ GoTo(r, "setRedis")
  /\ UNCHANGED <<calls, link, lastAvail, needSync, redis, table, perm, used, awaited, rows,
                 events, history>>

SetRedis(r, ok) ==
  LET q == req[r] IN
  /\ At(r, "setRedis")
  /\ SetEx(q.node, q.sess, q.val, ok)
  /\ GoTo(r, "insert")
  /\ Misses({q.sess}, ok)
  /\ UNCHANGED <<calls, link, mem, table, perm, used, awaited, rows, kept, home, closed, fresh>>

Insert(r, ok) ==
  LET q == req[r] 
      made == q.sess = q.make IN
  /\ At(r, "insert")
  /\ table' = IF ok THEN [table EXCEPT ![q.sess] = q.val] ELSE table
  /\ awaited' = IF made THEN awaited \cup {<<q.node, q.sess>>} ELSE awaited
  /\ kept' = IF made /\ ok /\ q.alone THEN kept \cup {q.sess} ELSE kept
  /\ home' = IF made THEN [home EXCEPT ![q.sess] = q.node] ELSE home
  /\ AfterCreation(r, q)
  /\ UNCHANGED <<calls, cacheVars, perm, used, rows, closed, fresh, missed>>

(* delLoginUser: remove, then DELETE.                                       *)
DelMem(r) ==
  /\ At(r, "delMem")
  /\ EraseStore(req[r].node, req[r].sess)
  /\ kept' = kept \ {req[r].sess}
  /\ GoTo(r, "delRedis")
  /\ UNCHANGED <<calls, link, lastAvail, needSync, redis, table, perm, used, awaited, rows, events,
                 home, closed, fresh, missed>>

DelRedis(r, ok) ==
  LET q == req[r] IN
  /\ At(r, "delRedis")
  /\ Del(q.node, q.sess, ok)
  /\ Turn(r, [Spoil(q, ok /\ link[q.node]) EXCEPT !.pc = "delRow"])
  /\ UNCHANGED <<calls, link, mem, table, perm, used, awaited, rows, history>>

DelRow(r, ok) ==
  LET q == req[r] IN
  /\ At(r, "delRow")
  /\ table' = IF ok THEN [table EXCEPT ![q.sess] = None] ELSE table
  /\ closed' = IF ok /\ q.alone THEN closed \cup {q.sess} ELSE closed
  /\ AfterRemoval(r, q)
  /\ UNCHANGED <<calls, cacheVars, perm, used, awaited, rows, kept, home, fresh, missed>>

(* A change looks up the keys of the sessions and updates each of them: an  *)
(* edit with the permissions as they are by then, a grant with those it has *)
(* read before it looked.                                                   *)
SelectKeys(r, ok) ==
  /\ At(r, "keys")
  /\ IF ok THEN NextKey(r, [req[r] EXCEPT !.todo = {s \in Session : table[s] # None}])
     ELSE Return(r)
  /\ UNCHANGED <<calls, cacheVars, table, perm, used, awaited, rows, history>>

ReadAhead(r) == perm + 1
ReadPermissions(r) == perm

Query(r, ok) ==
  /\ At(r, "query")
  /\ Turn(r, [req[r] EXCEPT !.pc = IF req[r].kind = "grant" THEN "keys" ELSE "updMem",
                            !.val = IF ok THEN ReadPermissions(r) ELSE Cleared])
  /\ UNCHANGED <<calls, cacheVars, table, perm, used, awaited, rows, history>>

UpdMem(r) ==
  /\ At(r, "updMem")
  /\ UpdateStore(req[r].node, req[r].sess, req[r].val)
  /\ GoTo(r, "updRedis")
  /\ UNCHANGED <<calls, link, lastAvail, needSync, redis, table, perm, used, awaited, rows,
                 events, history>>

\* a grant that still has to write what it has read
Granting(x) == req[x].kind = "grant" /\ ~At(x, "query")

UpdRedis(r, ok) ==
  LET q == req[r]
      done == /\ q.kind \in Changes /\ q.val # Cleared /\ ok /\ link[q.node] /\ q.alone
              /\ \A x \in Thread \ {r} : ~Granting(x) IN
  /\ At(r, "updRedis")
  /\ SetEx(q.node, q.sess, q.val, ok)
  /\ fresh' = IF done THEN [fresh EXCEPT ![q.sess] = q.val] ELSE fresh
  /\ CASE q.kind \in Changes   -> NextKey(r, q)
       [] q.kind = "location"  -> GoTo(r, "updRow")
       [] OTHER                -> Return(r)
  /\ Misses({q.sess}, ok)
  /\ UNCHANGED <<calls, link, mem, table, perm, used, awaited, rows, kept, home, closed>>

(* the location callback writes its copy to the row, if there is one        *)
UpdRow(r, ok) ==
  LET s == req[r].sess IN
  /\ At(r, "updRow")
  /\ table' = IF ok /\ table[s] # None THEN [table EXCEPT ![s] = req[r].val] ELSE table
  /\ Return(r)
  /\ UNCHANGED <<calls, cacheVars, perm, used, awaited, rows, history>>

-----------------------------------------------------------------------------
(* A node's process ends and is started again: startRuntimeServices reads   *)
(* sys_token (which may fail) and sets every session it finds.              *)
Restart(n) ==
  /\ EventsLeft /\ events' = events + 1
  /\ ForgetNode(n)
  /\ \E read \in {table, Empty} :
       LET found == {s \in Session : read[s] # None} IN
       /\ rows' = [rows EXCEPT ![n] = read]
       /\ req' = [r \in Thread |->
            IF req[r].node = n THEN Idle
            ELSE IF req[r].sess \in found THEN [req[r] EXCEPT !.alone = FALSE] ELSE req[r]]
       /\ kept' = {s \in kept : home[s] = n => s \in found}
       /\ fresh' = [s \in Session |-> IF s \in found /\ read[s] < fresh[s] THEN None ELSE fresh[s]]
  /\ awaited' = {a \in awaited : a[1] # n}
  /\ UNCHANGED <<calls, table, perm, used, home, closed, missed>>

RestoreRedisOnly(n, s, ok) ==
  SetEx(n, s, rows[n][s], ok) /\ UNCHANGED mem
RestoreOne(n, s, ok) ==
  SetStore(n, s, rows[n][s]) /\ SetEx(n, s, rows[n][s], ok)

Restore(n, s, ok) ==
  /\ rows[n][s] # None
  /\ RestoreOne(n, s, ok)
  /\ rows' = [rows EXCEPT ![n][s] = None]
  /\ Misses({s}, ok)
  /\ UNCHANGED <<calls, link, table, perm, used, awaited, req, kept, home, closed, fresh>>

LinkStep(n) ==
  /\ link[n] => EventsLeft
  /\ events' = IF link[n] THEN events + 1 ELSE events
  /\ LinkChange(n)
  /\ UNCHANGED <<calls, table, perm, used, awaited, rows, req, history>>

RedisRestart ==
  /\ EventsLeft /\ events' = events + 1
  /\ RedisEmptied
  /\ missed' = missed \cup {s \in Session : redis[s] # None}
  /\ UNCHANGED <<calls, table, perm, used, awaited, rows, req, kept, home, closed, fresh>>

-----------------------------------------------------------------------------
Step(r, ok) ==
  /\ Mishap(ok)
  /\ \/ Look(r, ok) \/ Kick(r, ok) \/ SetRedis(r, ok) \/ Insert(r, ok) \/ DelRedis(r, ok)
     \/ DelRow(r, ok) \/ SelectKeys(r, ok) \/ Query(r, ok) \/ UpdRedis(r, ok) \/ UpdRow(r, ok)

Kinds == {"logout", "force", "refresh", "rotate", "location", "password", "read"}

Init ==
  /\ CacheInit
  /\ table = Empty /\ perm = 0 /\ used = {} /\ awaited = {}
  /\ rows = [n \in Node |-> Empty] /\ req = [r \in Thread |-> Idle] /\ events = 0 /\ calls = 0
  /\ kept = {} /\ closed = {} /\ missed = {} /\ fresh = Empty
  /\ home = [s \in Session |-> NoNode]

Next ==
  \/ \E r \in Thread, n \in Node : Login(r, n)
  \/ \E r \in Thread, n \in Node, kind \in Changes : Change(r, n, kind)
  \/ \E r \in Thread, n \in Node, kind \in Kinds, s \in used : Request(r, n, kind, s)
  \/ \E r \in Thread : Statement(r) \/ SetMem(r) \/ DelMem(r) \/ UpdMem(r)
  \/ \E r \in Thread, ok \in BOOLEAN : Step(r, ok)
  \/ \E n \in Node, s \in Session, ok \in BOOLEAN : Mishap(ok) /\ Restore(n, s, ok)
  \/ \E n \in Node : Restart(n) \/ LinkStep(n)
  \/ RedisRestart

Spec == Init /\ [][Next]_vars

-----------------------------------------------------------------------------
Version == {None, Cleared} \cup 0 .. perm

(* Every variable has its type, and no copy carries permissions of later    *)
(* than now.                                                                *)
TypeOK ==
  /\ link \in [Node -> BOOLEAN] /\ needSync \in [Node -> BOOLEAN]
  /\ lastAvail \in [Node -> {"unknown", "up", "down"}]
  /\ mem \in [Node -> [Session -> Version]] /\ rows \in [Node -> [Session -> Version]]
  /\ redis \in [Session -> Version] /\ table \in [Session -> Version]
  /\ perm \in 0 .. MaxEvents /\ used \subseteq Session /\ awaited \subseteq Node \X used
  /\ \A r \in Thread : req[r].val \in Version /\ req[r].sess \in used \cup {0}
  /\ events \in 0 .. MaxEvents
  /\ kept \subseteq used /\ closed \subseteq used /\ missed \subseteq used
  /\ fresh \in [Session -> Version] /\ home \in [Session -> Node \cup {NoNode}]

(* A session that was logged out is gone for good, from every cache and     *)
(* from the table: whatever refreshes, callbacks, synchronisations and      *)
(* restarts come later, none brings it back.  Excepted are removals that    *)
(* another request, or a starting node, on the same session met, those made *)
(* while Redis did not take the DEL or the table the DELETE, and those of a *)
(* session another node holds in memory.                                    *)
LogoutLasts ==
  \A s \in closed :
    redis[s] = None /\ table[s] = None /\ \A n \in Node : mem[n][s] = None

(* Once a change of the permissions has reached a session, no node serves   *)
(* the session with older ones.  Excepted are changes that met another      *)
(* request on the session, could not reach every copy, read nothing because *)
(* a SELECT failed, or ended while a grant had read permissions and had yet *)
(* to write them; and a node restarted since: sys_token keeps the           *)
(* permissions of the login.                                                *)
PermissionsFresh ==
  \A n \in Node, s \in Session :
    Running(n) /\ Served(n, s) # None => Served(n, s) >= fresh[s]

(* A session that was not logged out is served by the node it was created   *)
(* on, whether Redis answers, has lost its data, or the node has been       *)
(* restarted in between.                                                    *)
StaysServed == \A s \in kept : Running(home[s]) => Served(home[s], s) # None

(* A node that takes Redis to be up and has no synchronisation ahead has    *)
(* nothing in memory that the other nodes cannot see in Redis, unless a     *)
(* command was lost or Redis lost its data behind the node's back.          *)
NothingUnsynced ==
  \A n \in Node, s \in kept \ missed :
    Running(n) /\ lastAvail[n] = "up" /\ ~needSync[n] /\ Busy(s) = {}
    /\ mem[n][s] # None
      => redis[s] # None
=============================================================================
