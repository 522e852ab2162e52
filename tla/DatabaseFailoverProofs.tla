----------------------- MODULE DatabaseFailoverProofs -----------------------
(***************************************************************************)
(* Machine-checked theorems about DatabaseFailover, for every number of    *)
(* writes, every queue capacity and every retry limit.                     *)
(***************************************************************************)
EXTENDS DatabaseFailover, SequenceTheorems, TLAPS

-----------------------------------------------------------------------------
(* The writes named by a queue, when one is appended or taken off.          *)

LEMMA IdsAppend ==
  ASSUME NEW S, NEW s \in Seq(S), NEW e \in S
  PROVE  Ids(Append(s, e)) = Ids(s) \cup {e.w}
<1>1. /\ DOMAIN s = 1 .. Len(s) /\ Len(s) \in Nat
      /\ DOMAIN Append(s, e) = 1 .. Len(s) + 1
      /\ \A i \in 1 .. Len(s) : Append(s, e)[i] = s[i]
      /\ Append(s, e)[Len(s) + 1] = e
  BY AppendProperties
<1>2. ASSUME NEW x \in Ids(Append(s, e)) PROVE x \in Ids(s) \cup {e.w}
  BY <1>1 DEF Ids
<1>3. ASSUME NEW x \in Ids(s) \cup {e.w} PROVE x \in Ids(Append(s, e))
  <2>1. CASE x = e.w
    <3>1. Len(s) + 1 \in DOMAIN Append(s, e)
      BY <1>1
    <3>2. QED BY <1>1, <2>1, <3>1 DEF Ids
  <2>2. CASE x \in Ids(s)
    <3>1. PICK i \in DOMAIN s : x = s[i].w
      BY <2>2 DEF Ids
    <3>2. i \in DOMAIN Append(s, e) /\ Append(s, e)[i].w = x
      BY <1>1, <3>1
    <3>3. QED BY <3>2 DEF Ids
  <2>3. QED BY <1>3, <2>1, <2>2
<1>4. QED BY <1>2, <1>3

LEMMA IdsHeadTail ==
  ASSUME NEW S, NEW s \in Seq(S), s # <<>>
  PROVE  /\ Head(s) \in S
         /\ Tail(s) \in Seq(S)
         /\ Ids(s) = {Head(s).w} \cup Ids(Tail(s))
<1>1. /\ Head(s) \in S /\ Tail(s) \in Seq(S)
      /\ Head(s) = s[1]
      /\ Len(s) \in Nat /\ Len(s) > 0
      /\ DOMAIN s = 1 .. Len(s)
      /\ Len(Tail(s)) = Len(s) - 1
      /\ DOMAIN Tail(s) = 1 .. Len(s) - 1
      /\ \A i \in 1 .. Len(s) - 1 : Tail(s)[i] = s[i + 1]
  BY HeadTailProperties
<1>2. ASSUME NEW x \in Ids(s) PROVE x \in {Head(s).w} \cup Ids(Tail(s))
  <2>1. PICK i \in 1 .. Len(s) : x = s[i].w
    BY <1>1 DEF Ids
  <2>2. CASE i = 1
    BY <1>1, <2>1, <2>2
  <2>3. CASE i > 1
    <3>1. i - 1 \in DOMAIN Tail(s) /\ Tail(s)[i - 1] = s[i]
      BY <1>1, <2>1, <2>3
    <3>2. QED BY <2>1, <3>1 DEF Ids
  <2>4. QED BY <2>1, <2>2, <2>3
<1>3. ASSUME NEW x \in {Head(s).w} \cup Ids(Tail(s)) PROVE x \in Ids(s)
  <2>1. CASE x = Head(s).w
    BY <1>1, <2>1 DEF Ids
  <2>2. CASE x \in Ids(Tail(s))
    <3>1. PICK i \in 1 .. Len(s) - 1 : x = Tail(s)[i].w
      BY <1>1, <2>2 DEF Ids
    <3>2. i + 1 \in DOMAIN s /\ s[i + 1].w = x
      BY <1>1, <3>1
    <3>3. QED BY <3>2 DEF Ids
  <2>3. QED BY <1>3, <2>1, <2>2
<1>4. QED BY <1>1, <1>2, <1>3

LEMMA IdsEmpty == Ids(<<>>) = {}
BY DEF Ids

-----------------------------------------------------------------------------
(* Type correctness.                                                        *)

LEMMA TypeInit == Init => TypeOK
<1>. SUFFICES ASSUME Init PROVE TypeOK
  OBVIOUS
<1>1. /\ pgUp \in BOOLEAN /\ pool \in BOOLEAN /\ conn \in {"none", "open", "stale"}
      /\ lite \in BOOLEAN /\ useSqlite \in BOOLEAN /\ retryDue \in BOOLEAN
      /\ intact \in BOOLEAN
  BY DEF Init
<1>2. pending \in Seq(Item) /\ remain \in Seq(Item)
  BY DEF Init
<1>. QED BY <1>1, <1>2 DEF Init, TypeOK, SELECT

LEMMA TypeCall ==
  ASSUME TypeOK, NEW c \in {SELECT} \cup Write, Call(c)
  PROVE  TypeOK'
BY DEF TypeOK, Call, EnsurePgOrFallback, KeepLink, Reconnect, queue, mirror, Write, SELECT

LEMMA TypeExecPg == ASSUME TypeOK, ExecPg PROVE TypeOK'
<1>1. PICK o \in Outcomes : PgStatement(o, call)
  BY DEF ExecPg
<1>2. /\ pgUp' \in BOOLEAN /\ pool' \in BOOLEAN /\ conn' \in {"none", "open", "stale"}
      /\ pg' \subseteq Write /\ ambiguous' \subseteq Write
  BY <1>1 DEF TypeOK, PgStatement
<1>3. lite' \in BOOLEAN /\ intact' \in BOOLEAN /\ sqlite' \subseteq Write
  BY DEF TypeOK, ExecPg, DualWrite, SqliteStatement, mirror
<1>4. /\ useSqlite' \in BOOLEAN /\ retryDue' \in BOOLEAN
      /\ pc' \in {"idle", "lite"} /\ call' \in {SELECT} \cup Write /\ acked' \subseteq Write
  BY DEF TypeOK, ExecPg, Return
<1>. QED
  BY <1>2, <1>3, <1>4 DEF TypeOK, ExecPg, queue

LEMMA TypeTryRecover == ASSUME TypeOK, TryRecover PROVE TypeOK'
BY DEF TypeOK, TryRecover, KeepLink, UseSqliteAfter, queue, mirror

LEMMA ItemRetried ==
  ASSUME NEW item \in Item, ~Exhausted(item.retries + 1)
  PROVE  [w |-> item.w, retries |-> item.retries + 1] \in Item
BY DatabaseAssumption DEF Item, Exhausted, Write

LEMMA TypeReplayOne == ASSUME TypeOK, ReplayOne PROVE TypeOK'
<1>1. /\ Head(pending) \in Item
      /\ pending' \in Seq(Item)
  BY IdsHeadTail DEF TypeOK, ReplayOne
<1>2. PICK o \in Outcomes : PgStatement(o, Head(pending).w) /\ Settle(o, Head(pending))
  BY DEF ReplayOne
<1>3. Head(pending).w \in Write
  BY <1>1 DEF Item
<1>4. remain' \in Seq(Item)
  <2>1. CASE UNCHANGED remain
    BY <2>1 DEF TypeOK
  <2>2. CASE ~Exhausted(Head(pending).retries + 1) /\ Keep(Head(pending))
    BY <1>1, <2>2, ItemRetried, AppendProperties DEF TypeOK, Keep
  <2>3. QED BY <1>2, <2>1, <2>2 DEF Settle
<1>5. dead' \subseteq Write /\ deadTable' \subseteq Write
  BY <1>2, <1>3 DEF TypeOK, Settle, DeadLetter
<1>6. /\ pgUp' \in BOOLEAN /\ pool' \in BOOLEAN /\ conn' \in {"none", "open", "stale"}
      /\ pg' \subseteq Write /\ ambiguous' \subseteq Write
  BY <1>2, <1>3 DEF TypeOK, PgStatement
<1>. QED
  BY <1>1, <1>4, <1>5, <1>6 DEF TypeOK, ReplayOne, mirror

LEMMA TypeReplayEnd == ASSUME TypeOK, ReplayEnd PROVE TypeOK'
BY DEF TypeOK, ReplayEnd, SwapRemain, server, mirror

LEMMA TypeExecLite == ASSUME TypeOK, ExecLite PROVE TypeOK'
<1>1. pending' \in Seq(Item) /\ dropped' \subseteq Write
  <2>1. CASE call # SELECT /\ Len(pending) < MAX_PENDING
    <3>1. [w |-> call, retries |-> 0] \in Item
      BY <2>1, DatabaseAssumption DEF TypeOK, Item
    <3>2. pending' = Append(pending, [w |-> call, retries |-> 0]) /\ dropped' = dropped
      BY <2>1 DEF ExecLite, PendingSyncIfRoom
    <3>3. Append(pending, [w |-> call, retries |-> 0]) \in Seq(Item)
      BY <3>1, AppendProperties DEF TypeOK
    <3>4. QED BY <3>2, <3>3 DEF TypeOK
  <2>2. CASE ~(call # SELECT /\ Len(pending) < MAX_PENDING)
    BY <2>2 DEF TypeOK, ExecLite, PendingSyncIfRoom
  <2>3. QED BY <2>1, <2>2
<1>2. PICK r \in LiteOutcomes : SqliteStatement(r, call) /\ Return(lite /\ r = "ok")
  BY DEF ExecLite
<1>. QED
  BY <1>1, <1>2 DEF TypeOK, ExecLite, SqliteStatement, Return, server, SELECT

LEMMA IdsInWrite == ASSUME NEW s \in Seq(Item) PROVE Ids(s) \subseteq Write
<1>1. s \in [1 .. Len(s) -> Item]
  BY LenProperties
<1>2. ASSUME NEW i \in DOMAIN s PROVE s[i].w \in Write
  BY <1>1 DEF Item
<1>. QED BY <1>2 DEF Ids

LEMMA TypeEnvironment ==
  ASSUME TypeOK,
         OpsCheck \/ OpsReconnect \/ Restart \/ PgDown \/ PgUp \/ RetryTimer \/ UNCHANGED vars
  PROVE  TypeOK'
<1>1. CASE OpsCheck
  BY <1>1 DEF TypeOK, OpsCheck, server, queue, mirror
<1>2. CASE OpsReconnect
  BY <1>2 DEF TypeOK, OpsReconnect, queue, mirror
<1>3. CASE Restart
  <2>1. lost' \subseteq Write
    BY <1>3, IdsInWrite DEF TypeOK, Restart, Queued
  <2>2. PICK opened \in BOOLEAN : Startup(pgUp, opened) /\ intact' = (intact /\ opened)
    BY <1>3 DEF Restart
  <2>3. /\ pgUp' \in BOOLEAN /\ pool' \in BOOLEAN /\ conn' \in {"none", "open", "stale"}
        /\ lite' \in BOOLEAN /\ useSqlite' \in BOOLEAN /\ retryDue' \in BOOLEAN
        /\ intact' \in BOOLEAN
    BY <2>2 DEF TypeOK, Startup
  <2>4. pending' \in Seq(Item) /\ remain' \in Seq(Item)
    BY <1>3 DEF Restart
  <2>5. QED BY <1>3, <2>1, <2>3, <2>4 DEF TypeOK, Restart, SELECT
<1>4. CASE PgDown
  BY <1>4 DEF TypeOK, PgDown, queue, mirror
<1>5. CASE PgUp
  BY <1>5 DEF TypeOK, PgUp, queue, mirror
<1>6. CASE RetryTimer
  BY <1>6 DEF TypeOK, RetryTimer, server, queue, mirror
<1>7. CASE UNCHANGED vars
  BY <1>7 DEF TypeOK, vars, server, queue, mirror
<1>. QED BY <1>1, <1>2, <1>3, <1>4, <1>5, <1>6, <1>7

LEMMA TypeStep == TypeOK /\ [Next]_vars => TypeOK'
  BY TypeCall, TypeExecPg, TypeTryRecover, TypeReplayOne, TypeReplayEnd, TypeExecLite,
     TypeEnvironment DEF Next, Progress

(* The type invariant of the service holds in every run.                    *)
THEOREM TypeCorrect == Spec => []TypeOK
BY TypeInit, TypeStep, PTL DEF Spec

-----------------------------------------------------------------------------
(* How each step changes the set of queued writes.                          *)

LEMMA QueuedByReplay ==
  ASSUME TypeOK, ReplayOne
  PROVE  /\ Head(pending) \in Item
         /\ Ids(pending) = {Head(pending).w} \cup Ids(pending')
         /\ Ids(remain) \subseteq Ids(remain')
         /\ Ids(remain') \subseteq Ids(remain) \cup {Head(pending).w}
         /\ Head(pending).w \in pg' \cup Ids(remain') \cup dead'
<1>1. /\ Head(pending) \in Item
      /\ Ids(pending) = {Head(pending).w} \cup Ids(pending')
  BY IdsHeadTail DEF TypeOK, ReplayOne
<1>2. PICK o \in Outcomes : PgStatement(o, Head(pending).w) /\ Settle(o, Head(pending))
  BY DEF ReplayOne
<1>3. CASE o = "ok" /\ UNCHANGED <<remain, dead, deadTable>>
  <2>1. Head(pending).w # SELECT
    BY <1>1 DEF Item, Write, SELECT
  <2>2. Head(pending).w \in pg'
    BY <1>2, <1>3, <2>1 DEF PgStatement, Applies
  <2>3. QED BY <1>1, <1>3, <2>2
<1>4. CASE ~Exhausted(Head(pending).retries + 1) /\ Keep(Head(pending))
  <2>1. [w |-> Head(pending).w, retries |-> Head(pending).retries + 1] \in Item
    BY <1>1, <1>4, ItemRetried
  <2>2. Ids(remain') = Ids(remain) \cup {Head(pending).w}
    BY <1>4, <2>1, IdsAppend DEF TypeOK, Keep
  <2>3. QED BY <1>1, <2>2
<1>5. CASE DeadLetter(Head(pending)) /\ UNCHANGED remain
  <2>1. Head(pending).w \in dead'
    BY <1>5 DEF DeadLetter
  <2>2. QED BY <1>1, <1>5, <2>1
<1>. QED BY <1>2, <1>3, <1>4, <1>5 DEF Settle

LEMMA QueuedByReplayEnd ==
  ASSUME ReplayEnd
  PROVE  Queued' = Queued /\ pending' = remain /\ remain' = <<>>
BY IdsEmpty DEF ReplayEnd, SwapRemain, Queued

LEMMA QueuedByExecLite ==
  ASSUME TypeOK, ExecLite
  PROVE  /\ remain' = remain
         /\ call # SELECT => call \in Ids(pending') \cup dropped'
         /\ \/ Ids(pending') = Ids(pending)
            \/ call # SELECT /\ Ids(pending') = Ids(pending) \cup {call}
         /\ \/ dropped' = dropped
            \/ call # SELECT /\ dropped' = dropped \cup {call} /\ pending' = pending
<1>1. CASE call # SELECT /\ Len(pending) < MAX_PENDING
  <2>1. [w |-> call, retries |-> 0] \in Item
    BY <1>1, DatabaseAssumption DEF TypeOK, Item
  <2>2. /\ pending' = Append(pending, [w |-> call, retries |-> 0])
        /\ dropped' = dropped
    BY <1>1 DEF ExecLite, PendingSyncIfRoom
  <2>3. Ids(pending') = Ids(pending) \cup {call}
    BY <2>1, <2>2, IdsAppend DEF TypeOK
  <2>4. QED BY <1>1, <2>2, <2>3 DEF ExecLite
<1>2. CASE call # SELECT /\ ~(Len(pending) < MAX_PENDING)
  BY <1>2 DEF ExecLite, PendingSyncIfRoom
<1>3. CASE call = SELECT
  BY <1>3 DEF ExecLite
<1>. QED BY <1>1, <1>2, <1>3

(* The steps that leave the queue and its ledgers alone.                    *)
Quiet ==
  \/ \E c \in {SELECT} \cup Write : Call(c)
  \/ ExecPg \/ TryRecover
  \/ OpsCheck \/ OpsReconnect \/ PgDown \/ PgUp \/ RetryTimer
  \/ UNCHANGED vars

LEMMA QuietKeepsQueue == Quiet => UNCHANGED queue
BY DEF Quiet, Call, ExecPg, TryRecover, OpsCheck, OpsReconnect, PgDown, PgUp, RetryTimer, vars

LEMMA Steps == [Next]_vars => Quiet \/ ReplayOne \/ ReplayEnd \/ ExecLite \/ Restart
BY DEF Next, Progress, Quiet

-----------------------------------------------------------------------------
(* No acknowledged write is lost silently.                                  *)

LEMMA LossQuiet == ASSUME TypeOK, NoSilentLoss, Quiet PROVE NoSilentLoss'
<1>1. UNCHANGED <<pending, remain, dropped, dead, lost>>
  BY QuietKeepsQueue DEF queue
<1>2. Queued' = Queued
  BY <1>1 DEF Queued
<1>3. pg \subseteq pg' /\ (acked' \cup sqlite') \subseteq (acked \cup sqlite \cup pg')
  <2>1. CASE ExecPg
    <3>1. PICK o \in Outcomes :
            /\ PgStatement(o, call)
            /\ \/ o = "ok" /\ DualWrite /\ Return(TRUE)
               \/ sqlite' = sqlite /\ acked' = acked
      BY <2>1 DEF ExecPg, Return, mirror
    <3>2. pg \subseteq pg'
      BY <3>1 DEF PgStatement
    <3>3. CASE o = "ok" /\ DualWrite /\ Return(TRUE)
      <4>1. call # SELECT => call \in pg'
        BY <3>1, <3>3 DEF PgStatement, Applies
      <4>2. acked' \subseteq acked \cup pg'
        BY <3>3, <4>1 DEF Return
      <4>3. sqlite' \subseteq sqlite \cup pg'
        BY <3>3, <4>1 DEF DualWrite, SqliteStatement
      <4>4. QED BY <3>2, <4>2, <4>3
    <3>4. QED BY <3>1, <3>2, <3>3
  <2>2. CASE ~ExecPg
    BY <2>2 DEF Quiet, Call, TryRecover, OpsCheck, OpsReconnect, PgDown, PgUp, RetryTimer,
       vars, mirror
  <2>3. QED BY <2>1, <2>2
<1>. QED BY <1>1, <1>2, <1>3 DEF NoSilentLoss

LEMMA LossStep == ASSUME TypeOK, NoSilentLoss, [Next]_vars PROVE NoSilentLoss'
<1>1. CASE Quiet
  BY <1>1, LossQuiet
<1>2. CASE ReplayOne
  <2>1. pg \subseteq pg' /\ dead \subseteq dead'
    BY <1>2 DEF ReplayOne, PgStatement, Settle, DeadLetter
  <2>2. UNCHANGED <<acked, sqlite, dropped, lost>>
    BY <1>2 DEF ReplayOne, mirror
  <2>3. QED BY <1>2, <2>1, <2>2, QueuedByReplay DEF NoSilentLoss, Queued
<1>3. CASE ReplayEnd
  BY <1>3, QueuedByReplayEnd DEF NoSilentLoss, ReplayEnd, mirror
<1>4. CASE ExecLite
  <2>1. /\ acked' \cup sqlite' \subseteq acked \cup sqlite \cup (IF call # SELECT THEN {call} ELSE {})
        /\ UNCHANGED <<pg, dead, lost>>
    BY <1>4 DEF ExecLite, SqliteStatement, Return
  <2>2. QED BY <1>4, <2>1, QueuedByExecLite DEF NoSilentLoss, Queued
<1>5. CASE Restart
  BY <1>5 DEF Restart, NoSilentLoss
<1>. QED BY <1>1, <1>2, <1>3, <1>4, <1>5, Steps

(* A write whose caller was told "true", or that SQLite holds, is in        *)
(* PostgreSQL, queued, or counted as given up, in every reachable state.    *)
THEOREM NothingLostSilently == Spec => []NoSilentLoss
<1>1. Init => NoSilentLoss
  BY DEF Init, NoSilentLoss
<1>2. TypeOK /\ NoSilentLoss /\ [Next]_vars => NoSilentLoss'
  BY LossStep
<1>. QED BY <1>1, <1>2, TypeCorrect, PTL DEF Spec

-----------------------------------------------------------------------------
(* Order of the queue when an item is appended or taken off.                *)

LEMMA IncreasingAppend ==
  ASSUME NEW s \in Seq(Item), Increasing(s), NEW e \in Item, \A v \in Ids(s) : v < e.w
  PROVE  Increasing(Append(s, e))
<1>1. /\ DOMAIN s = 1 .. Len(s) /\ Len(s) \in Nat
      /\ DOMAIN Append(s, e) = 1 .. Len(s) + 1
      /\ \A i \in 1 .. Len(s) : Append(s, e)[i] = s[i]
      /\ Append(s, e)[Len(s) + 1] = e
  BY AppendProperties
<1>2. ASSUME NEW i \in DOMAIN Append(s, e), NEW j \in DOMAIN Append(s, e), i < j
      PROVE  Append(s, e)[i].w < Append(s, e)[j].w
  <2>1. i \in DOMAIN s /\ Append(s, e)[i] = s[i]
    BY <1>1, <1>2
  <2>2. CASE j = Len(s) + 1
    BY <1>1, <2>1, <2>2 DEF Ids
  <2>3. CASE j # Len(s) + 1
    <3>1. j \in DOMAIN s /\ Append(s, e)[j] = s[j]
      BY <1>1, <2>3
    <3>2. QED BY <1>2, <2>1, <3>1 DEF Increasing
  <2>4. QED BY <2>2, <2>3
<1>. QED BY <1>2 DEF Increasing

LEMMA IncreasingTail ==
  ASSUME NEW s \in Seq(Item), s # <<>>, Increasing(s)
  PROVE  Increasing(Tail(s)) /\ \A v \in Ids(Tail(s)) : Head(s).w < v
<1>1. /\ Head(s) = s[1]
      /\ Len(s) \in Nat /\ Len(s) > 0
      /\ DOMAIN s = 1 .. Len(s)
      /\ DOMAIN Tail(s) = 1 .. Len(s) - 1
      /\ \A i \in 1 .. Len(s) - 1 : Tail(s)[i] = s[i + 1]
  BY HeadTailProperties
<1>2. ASSUME NEW i \in DOMAIN Tail(s), NEW j \in DOMAIN Tail(s), i < j
      PROVE  Tail(s)[i].w < Tail(s)[j].w
  BY <1>1, <1>2 DEF Increasing
<1>3. ASSUME NEW v \in Ids(Tail(s)) PROVE Head(s).w < v
  <2>1. PICK i \in DOMAIN Tail(s) : v = Tail(s)[i].w
    BY DEF Ids
  <2>2. 1 \in DOMAIN s /\ i + 1 \in DOMAIN s /\ 1 < i + 1 /\ v = s[i + 1].w
    BY <1>1, <2>1
  <2>3. QED BY <1>1, <2>2 DEF Increasing
<1>. QED BY <1>2, <1>3 DEF Increasing

-----------------------------------------------------------------------------
(* The inductive invariant: each step preserves the order of the queue, the *)
(* absence of double replay and EachWriteOnce together.                     *)

LEMMA OnceInit == Init => ReplayInOrder /\ NoDoubleReplay /\ EachWriteOnce
BY IdsEmpty DEF Init, ReplayInOrder, Increasing, NoDoubleReplay, EachWriteOnce, Queued,
   GivenUp, SELECT

LEMMA OnceCall ==
  ASSUME IInv, NEW c \in {SELECT} \cup Write, Call(c)
  PROVE  NoDoubleReplay' /\ EachWriteOnce'
<1>1. UNCHANGED <<pending, remain, dropped, dead, lost, pg, acked, ambiguous>>
  BY DEF Call, queue
<1>2. Queued' = Queued /\ GivenUp' = GivenUp
  BY <1>1 DEF Queued, GivenUp
<1>3. issued \in Int /\ issued' \in Int /\ issued <= issued'
  BY DEF IInv, TypeOK, Call, Write, SELECT
<1>4. \A w \in pg \cup acked \cup Queued \cup GivenUp : w \in Int
  BY IdsInWrite DEF IInv, TypeOK, Queued, GivenUp, Write
<1>5. \A w \in pg \cup acked \cup Queued \cup GivenUp : w <= issued /\ w <= issued'
  BY <1>3, <1>4 DEF IInv, EachWriteOnce
<1>6. call' = c /\ (c # SELECT => c = issued + 1 /\ c = issued') /\ pc = "idle" /\ pc' # "replay"
      /\ pc' # "idle"
  BY DEF Call
<1>7. \A w \in pg \cup acked \cup Queued \cup GivenUp : w \in Write
  BY IdsInWrite DEF IInv, TypeOK, Queued, GivenUp
<1>8. \A w \in pg \cup Queued \cup GivenUp : w # call'
  BY <1>3, <1>5, <1>6, <1>7 DEF Write, SELECT
<1>. QED
  BY <1>1, <1>2, <1>5, <1>6, <1>8 DEF IInv, NoDoubleReplay, EachWriteOnce

LEMMA OnceExecPg == ASSUME IInv, ExecPg PROVE NoDoubleReplay' /\ EachWriteOnce'
<1>1. UNCHANGED <<pending, remain, dropped, dead, lost, issued>> /\ pc' \in {"idle", "lite"}
      /\ pc = "pg"
  BY DEF ExecPg, queue, Return
<1>2. Queued' = Queued /\ GivenUp' = GivenUp
  BY <1>1 DEF Queued, GivenUp
<1>3. PICK o \in Outcomes :
        /\ PgStatement(o, call)
        /\ \/ o = "ok" /\ Return(TRUE)
           \/ o # "ok" /\ Return(FALSE)
           \/ o # "ok" /\ pc' = "lite" /\ call' = call /\ acked' = acked
  BY DEF ExecPg
<1>4. /\ pg' \subseteq pg \cup (IF call # SELECT THEN {call} ELSE {})
      /\ ambiguous \subseteq ambiguous'
      /\ acked' \subseteq acked \cup (IF call # SELECT THEN {call} ELSE {})
      /\ o # "ok" => pg' \subseteq pg \cup ambiguous'
  BY <1>3 DEF PgStatement, Return, Applies
<1>5. call' = SELECT \/ (call' = call /\ pc' = "lite" /\ o # "ok")
  BY <1>3 DEF Return
<1>6. SELECT \notin pg' /\ \A w \in Queued \cup GivenUp : w # SELECT
  BY <1>4, IdsInWrite DEF IInv, TypeOK, Queued, GivenUp, Write, SELECT
<1>7. NoDoubleReplay'
  BY <1>2, <1>4 DEF IInv, NoDoubleReplay, EachWriteOnce
<1>8. \A w \in pg' \cup acked' \cup Queued \cup GivenUp : w <= issued
  BY <1>4 DEF IInv, EachWriteOnce, TypeOK, Write, SELECT
<1>9. call' \in pg' => call' \in ambiguous'
  BY <1>4, <1>5, <1>6 DEF IInv, EachWriteOnce
<1>10. pc' = "idle" => call' = SELECT
  BY <1>3 DEF Return
<1>. QED
  BY <1>1, <1>2, <1>5, <1>6, <1>7, <1>8, <1>9, <1>10 DEF IInv, EachWriteOnce

LEMMA OnceQuiet == ASSUME IInv, Quiet PROVE ReplayInOrder' /\ NoDoubleReplay' /\ EachWriteOnce'
<1>1. UNCHANGED <<pending, remain, dropped, dead, lost>>
  BY QuietKeepsQueue DEF queue
<1>2. ReplayInOrder'
  BY <1>1 DEF IInv, ReplayInOrder
<1>3. CASE ExecPg
  BY <1>2, <1>3, OnceExecPg
<1>4. CASE \E c \in {SELECT} \cup Write : Call(c)
  BY <1>2, <1>4, OnceCall
<1>5. CASE TryRecover \/ OpsCheck \/ OpsReconnect \/ PgDown \/ PgUp \/ RetryTimer \/ UNCHANGED vars
  <2>1. /\ UNCHANGED <<call, issued, pg, acked, ambiguous>>
        /\ pc' = pc \/ (pc = "recover" /\ pc' \in {"lite", "replay"})
    BY <1>5 DEF TryRecover, OpsCheck, OpsReconnect, PgDown, PgUp, RetryTimer, vars
  <2>2. Queued' = Queued /\ GivenUp' = GivenUp
    BY <1>1 DEF Queued, GivenUp
  <2>3. QED BY <1>1, <1>2, <2>1, <2>2 DEF IInv, NoDoubleReplay, EachWriteOnce
<1>. QED BY <1>3, <1>4, <1>5 DEF Quiet

LEMMA OnceReplayOne ==
  ASSUME IInv, ReplayOne
  PROVE  ReplayInOrder' /\ NoDoubleReplay' /\ EachWriteOnce'
<1>. DEFINE h == Head(pending)
<1>1. /\ h \in Item
      /\ Ids(pending) = {h.w} \cup Ids(pending')
      /\ Ids(remain') \subseteq Ids(remain) \cup {h.w}
  BY QueuedByReplay DEF IInv
<1>2. /\ pending # <<>> /\ pending' = Tail(pending)
      /\ pc = "replay" /\ UNCHANGED <<dropped, lost, pc, call, issued, acked>>
  BY DEF ReplayOne
<1>3. PICK o \in Outcomes : PgStatement(o, h.w) /\ Settle(o, h)
  BY DEF ReplayOne
<1>4. Increasing(pending') /\ \A v \in Ids(pending') : h.w < v
  BY <1>2, IncreasingTail DEF IInv, TypeOK, ReplayInOrder
<1>5. \A v \in Ids(remain), w \in Ids(pending) : v < w
  BY DEF IInv, ReplayInOrder
<1>6. \A v \in Queued : v \in Write
  BY IdsInWrite DEF IInv, TypeOK, Queued
<1>7. h.w \notin Ids(pending') /\ h.w \notin Ids(remain)
  BY <1>1, <1>4, <1>5, <1>6 DEF Queued, Write
<1>8. Increasing(remain')
  <2>1. CASE remain' = remain
    BY <2>1 DEF IInv, ReplayInOrder
  <2>2. CASE ~Exhausted(h.retries + 1) /\ Keep(h)
    <3>1. [w |-> h.w, retries |-> h.retries + 1] \in Item
      BY <1>1, <2>2, ItemRetried
    <3>2. \A v \in Ids(remain) : v < h.w
      BY <1>1, <1>5
    <3>3. QED BY <2>2, <3>1, <3>2, IncreasingAppend DEF Keep, IInv, TypeOK, ReplayInOrder
  <2>3. QED BY <1>3, <2>1, <2>2 DEF Settle
<1>9. ReplayInOrder'
  BY <1>1, <1>4, <1>5, <1>8 DEF ReplayInOrder
<1>10. Queued' \subseteq Queued
  BY <1>1 DEF Queued
<1>11. /\ pg' \subseteq pg \cup {h.w}
       /\ ambiguous \subseteq ambiguous'
       /\ o # "ok" => pg' \subseteq pg \cup ambiguous'
  BY <1>3 DEF PgStatement, Applies
<1>12. o = "ok" => h.w \notin Queued'
  <2>1. o = "ok" => remain' = remain
    BY <1>3 DEF Settle
  <2>2. QED BY <1>7, <2>1 DEF Queued
<1>13. NoDoubleReplay'
  BY <1>10, <1>11, <1>12 DEF IInv, NoDoubleReplay
<1>14. dead' = dead \/ (dead' = dead \cup {h.w} /\ remain' = remain)
  BY <1>3 DEF Settle, DeadLetter
<1>15. Queued' \cap GivenUp' = {}
  BY <1>2, <1>7, <1>10, <1>14 DEF IInv, EachWriteOnce, GivenUp, Queued
<1>16. h.w \in Queued /\ h.w # call /\ h.w <= issued
  BY <1>1 DEF IInv, EachWriteOnce, Queued
<1>17. GivenUp' \subseteq GivenUp \cup {h.w}
  BY <1>2, <1>14 DEF GivenUp
<1>18. /\ \A w \in pg' \cup acked' \cup Queued' \cup GivenUp' : w <= issued'
       /\ \A w \in Queued' \cup GivenUp' : w # call'
  BY <1>2, <1>10, <1>11, <1>16, <1>17 DEF IInv, EachWriteOnce
<1>19. call' \in pg' => call' \in ambiguous'
  BY <1>2, <1>11, <1>16 DEF IInv, EachWriteOnce
<1>. QED
  BY <1>2, <1>9, <1>13, <1>15, <1>18, <1>19 DEF IInv, EachWriteOnce

LEMMA OnceReplayEnd ==
  ASSUME IInv, ReplayEnd
  PROVE  ReplayInOrder' /\ NoDoubleReplay' /\ EachWriteOnce'
<1>1. /\ Queued' = Queued /\ pending' = remain /\ remain' = <<>>
      /\ UNCHANGED <<call, issued, dropped, dead, lost, pg, acked, ambiguous>>
      /\ pc' = "lite" /\ pc = "replay"
  BY QueuedByReplayEnd DEF ReplayEnd
<1>2. GivenUp' = GivenUp
  BY <1>1 DEF GivenUp
<1>3. ReplayInOrder'
  BY <1>1, IdsEmpty DEF IInv, ReplayInOrder, Increasing
<1>. QED
  BY <1>1, <1>2, <1>3 DEF IInv, NoDoubleReplay, EachWriteOnce

LEMMA OnceExecLite ==
  ASSUME IInv, ExecLite
  PROVE  ReplayInOrder' /\ NoDoubleReplay' /\ EachWriteOnce'
<1>1. /\ UNCHANGED <<remain, dead, lost, pg, ambiguous, issued>> /\ pc = "lite" /\ pc' = "idle"
      /\ call' = SELECT
      /\ acked' \subseteq acked \cup (IF call # SELECT THEN {call} ELSE {})
  BY DEF ExecLite, Return
<1>2. remain = <<>> /\ Ids(remain) = {}
  BY <1>1, IdsEmpty DEF IInv, EachWriteOnce
<1>3. /\ Ids(pending') \subseteq Ids(pending) \cup (IF call # SELECT THEN {call} ELSE {})
      /\ \/ dropped' = dropped
         \/ call # SELECT /\ dropped' = dropped \cup {call} /\ pending' = pending
  BY QueuedByExecLite DEF IInv
<1>4. \A v \in Queued \cup GivenUp : v \in Write /\ v <= issued /\ v # call
  BY IdsInWrite DEF IInv, TypeOK, EachWriteOnce, Queued, GivenUp
<1>5. call # SELECT => call \in Write /\ call = issued
  BY DEF IInv, TypeOK, EachWriteOnce
<1>6. Increasing(pending')
  <2>1. CASE pending' = pending
    BY <2>1 DEF IInv, ReplayInOrder
  <2>2. CASE call # SELECT /\ pending' = Append(pending, [w |-> call, retries |-> 0])
    <3>1. [w |-> call, retries |-> 0] \in Item
      BY <1>5, <2>2, DatabaseAssumption DEF Item
    <3>2. \A v \in Ids(pending) : v < call
      BY <1>4, <1>5, <2>2 DEF Queued, Write
    <3>3. QED BY <2>2, <3>1, <3>2, IncreasingAppend DEF IInv, TypeOK, ReplayInOrder
  <2>3. QED BY <2>1, <2>2 DEF ExecLite, PendingSyncIfRoom
<1>7. ReplayInOrder'
  BY <1>1, <1>2, <1>6, IdsEmpty DEF IInv, ReplayInOrder
<1>8. Queued' \subseteq Queued \cup (IF call # SELECT THEN {call} ELSE {})
  BY <1>1, <1>2, <1>3 DEF Queued
<1>9. GivenUp' \subseteq GivenUp \cup (IF call # SELECT THEN {call} ELSE {})
  BY <1>1, <1>3 DEF GivenUp
<1>10. NoDoubleReplay'
  BY <1>1, <1>8 DEF IInv, NoDoubleReplay, EachWriteOnce
<1>11. Queued' \cap GivenUp' = {}
  <2>1. CASE dropped' = dropped
    <3>1. GivenUp' = GivenUp
      BY <1>1, <2>1 DEF GivenUp
    <3>2. QED BY <1>4, <1>8, <3>1 DEF IInv, EachWriteOnce
  <2>2. CASE call # SELECT /\ dropped' = dropped \cup {call} /\ pending' = pending
    <3>1. Queued' = Queued
      BY <1>1, <2>2 DEF Queued
    <3>2. QED BY <1>4, <1>9, <3>1 DEF IInv, EachWriteOnce
  <2>3. QED BY <1>3, <2>1, <2>2
<1>12. SELECT \notin pg /\ SELECT \notin Queued \cup GivenUp
  BY <1>4 DEF IInv, TypeOK, Write, SELECT
<1>13. /\ \A w \in pg' \cup acked' \cup Queued' \cup GivenUp' : w <= issued'
       /\ \A w \in Queued' \cup GivenUp' : w # call'
  <2>1. call # SELECT => call <= issued
    BY <1>5 DEF Write
  <2>2. QED BY <1>1, <1>8, <1>9, <1>12, <2>1 DEF IInv, EachWriteOnce
<1>. QED
  BY <1>1, <1>2, <1>7, <1>10, <1>11, <1>12, <1>13 DEF EachWriteOnce

LEMMA OnceRestart ==
  ASSUME IInv, Restart
  PROVE  ReplayInOrder' /\ NoDoubleReplay' /\ EachWriteOnce'
<1>1. /\ pending' = <<>> /\ remain' = <<>> /\ pc' = "idle" /\ call' = SELECT
      /\ lost' = lost \cup Queued
      /\ UNCHANGED <<issued, pg, acked, dropped, dead>>
  BY DEF Restart
<1>2. Queued' = {} /\ GivenUp' = GivenUp \cup Queued
  BY <1>1, IdsEmpty DEF Queued, GivenUp
<1>3. ReplayInOrder' /\ NoDoubleReplay'
  BY <1>1, <1>2, IdsEmpty DEF ReplayInOrder, Increasing, NoDoubleReplay
<1>4. \A w \in pg \cup Queued \cup GivenUp : w # SELECT
  BY IdsInWrite DEF IInv, TypeOK, Queued, GivenUp, Write, SELECT
<1>. QED
  BY <1>1, <1>2, <1>3, <1>4 DEF IInv, EachWriteOnce

LEMMA Inductive == IInv /\ [Next]_vars => IInv'
<1>. SUFFICES ASSUME IInv, [Next]_vars PROVE IInv'
  OBVIOUS
<1>1. TypeOK' /\ NoSilentLoss'
  BY LossStep, TypeStep DEF IInv
<1>2. ReplayInOrder' /\ NoDoubleReplay' /\ EachWriteOnce'
  BY Steps, OnceQuiet, OnceReplayOne, OnceReplayEnd, OnceExecLite, OnceRestart
<1>. QED BY <1>1, <1>2 DEF IInv

(* The inductive invariant holds in every run: each write is in one place.  *)
THEOREM Invariance == Spec => []IInv
<1>1. Init => IInv
  BY TypeInit, OnceInit DEF IInv, Init, NoSilentLoss
<1>. QED BY <1>1, Inductive, PTL DEF Spec

(* Writes are replayed in the order in which they were issued, and none is  *)
(* replayed that PostgreSQL is known to have taken.                         *)
THEOREM ReplayOrdered == Spec => []ReplayInOrder
BY Invariance, PTL DEF IInv

(* A write PostgreSQL is known to have applied is not in the queue.         *)
THEOREM NeverReplayedTwice == Spec => []NoDoubleReplay
BY Invariance, PTL DEF IInv

LEMMA LimitStep == ASSUME IInv, QueueWithinLimit, [Next]_vars PROVE QueueWithinLimit'
<1>1. pending \in Seq(Item) /\ remain \in Seq(Item)
  BY DEF IInv, TypeOK
<1>2. Len(pending) \in Nat /\ Len(remain) \in Nat /\ MAX_PENDING \in Nat
  BY <1>1, LenProperties, DatabaseAssumption
<1>3. CASE Quiet
  BY <1>3, QuietKeepsQueue DEF queue, QueueWithinLimit
<1>4. CASE ReplayOne
  <2>1. pending # <<>> /\ pending' = Tail(pending)
    BY <1>4 DEF ReplayOne
  <2>2. Len(pending') = Len(pending) - 1
    BY <1>1, <2>1, HeadTailProperties
  <2>3. UNCHANGED remain \/ \E e : remain' = Append(remain, e)
    BY <1>4 DEF ReplayOne, Settle, Keep, DeadLetter
  <2>4. Len(remain') \in {Len(remain), Len(remain) + 1}
    BY <1>1, <2>3
  <2>5. QED BY <1>2, <2>2, <2>4 DEF QueueWithinLimit
<1>5. CASE ReplayEnd
  BY <1>2, <1>5, QueuedByReplayEnd DEF QueueWithinLimit, ReplayEnd
<1>6. CASE ExecLite
  <2>1. remain = <<>> /\ UNCHANGED remain
    BY <1>6 DEF IInv, EachWriteOnce, ExecLite
  <2>2. \/ UNCHANGED pending
        \/ Len(pending) < MAX_PENDING /\ \E e : pending' = Append(pending, e)
    BY <1>6 DEF ExecLite, PendingSyncIfRoom
  <2>3. Len(pending') = Len(pending) \/ (Len(pending) < MAX_PENDING /\ Len(pending') = Len(pending) + 1)
    BY <1>1, <2>2
  <2>4. QED BY <1>2, <2>1, <2>3 DEF QueueWithinLimit
<1>7. CASE Restart
  BY <1>2, <1>7 DEF Restart, QueueWithinLimit
<1>. QED BY <1>3, <1>4, <1>5, <1>6, <1>7, Steps

(* The queue never outgrows MAX_PENDING, the writes a replay in progress    *)
(* has set aside included.                                                  *)
THEOREM QueueBounded == Spec => []QueueWithinLimit
<1>1. Init => QueueWithinLimit
  BY DatabaseAssumption DEF Init, QueueWithinLimit
<1>2. IInv /\ QueueWithinLimit /\ [Next]_vars => QueueWithinLimit'
  BY LimitStep
<1>. QED BY <1>1, <1>2, Invariance, PTL DEF Spec

-----------------------------------------------------------------------------
(* What SQLite holds.                                                       *)

\* while nothing has gone wrong with it, SQLite has all that was acknowledged
Mirrored == intact => acked \subseteq sqlite

LEMMA MirrorExecPg == ASSUME Mirrored, ExecPg PROVE Mirrored'
<1>1. CASE UNCHANGED <<mirror, acked>>
  BY <1>1 DEF Mirrored, mirror
<1>2. CASE DualWrite /\ Return(TRUE)
  <2>1. CASE call = SELECT
    BY <1>2, <2>1 DEF Mirrored, DualWrite, Return
  <2>2. CASE call # SELECT /\ ~lite
    BY <1>2, <2>2 DEF Mirrored, DualWrite
  <2>3. CASE call # SELECT /\ lite
    BY <1>2, <2>3 DEF Mirrored, DualWrite, SqliteStatement, Return
  <2>4. QED BY <2>1, <2>2, <2>3
<1>. QED BY <1>1, <1>2 DEF ExecPg, Return, mirror

LEMMA MirrorExecLite == ASSUME Mirrored, ExecLite PROVE Mirrored'
<1>1. PICK r \in LiteOutcomes : SqliteStatement(r, call) /\ Return(lite /\ r = "ok")
  BY DEF ExecLite
<1>. QED BY <1>1 DEF Mirrored, SqliteStatement, Return

LEMMA MirrorStep == ASSUME Mirrored, [Next]_vars PROVE Mirrored'
<1>1. CASE Restart
  BY <1>1 DEF Mirrored, Restart
<1>2. CASE UNCHANGED <<mirror, acked>>
  BY <1>2 DEF Mirrored, mirror
<1>3. QED
  BY <1>1, <1>2, MirrorExecPg, MirrorExecLite
     DEF Next, Progress, Call, TryRecover, ReplayOne, ReplayEnd, OpsCheck, OpsReconnect, PgDown,
         PgUp, RetryTimer, vars

(* While SQLite has been open and has refused no write, whoever reads from  *)
(* it after a failover sees every write that was acknowledged.              *)
THEOREM FallbackComplete == Spec => []FallbackReadsAcked
<1>1. Init => Mirrored
  BY DEF Init, Mirrored
<1>2. Mirrored => FallbackReadsAcked
  BY DEF Mirrored, FallbackReadsAcked
<1>. QED BY <1>1, <1>2, MirrorStep, PTL DEF Spec

-----------------------------------------------------------------------------
(* The service implements WriteLedger: every step changes the status of at  *)
(* most one write, in a way the ledger allows, and the end of the process   *)
(* is the ledger's crash.                                                   *)

Unmoved(v) == WriteStatus'[v] = WriteStatus[v]

LEMMA Status ==
  ASSUME NEW w \in Write
  PROVE  /\ WriteStatus[w] = (IF w \in pg THEN "synced"
                             ELSE IF w \in dead THEN "dead"
                             ELSE IF w \in dropped THEN "dropped"
                             ELSE IF w \in lost THEN "lost"
                             ELSE IF w \in Queued THEN "queued" ELSE "none")
         /\ WriteStatus'[w] = (IF w \in pg' THEN "synced"
                              ELSE IF w \in dead' THEN "dead"
                              ELSE IF w \in dropped' THEN "dropped"
                              ELSE IF w \in lost' THEN "lost"
                              ELSE IF w \in Queued' THEN "queued" ELSE "none")
BY DEF WriteStatus, StatusOf

LEMMA OneMoves ==
  ASSUME NEW w \in Write, NEW from, NEW to,
         WriteStatus[w] \in from, WriteStatus'[w] = to, \A v \in Write \ {w} : Unmoved(v)
  PROVE  Ledger!Become(w, from, to)
BY DEF Ledger!Become, WriteStatus, Unmoved

LEMMA NoneMoves == (\A v \in Write : Unmoved(v)) => UNCHANGED WriteStatus
BY DEF WriteStatus, Unmoved

LEMMA FreshCall ==
  ASSUME IInv, call # SELECT
  PROVE  call \in Write /\ WriteStatus[call] = (IF call \in pg THEN "synced" ELSE "none")
BY Status DEF IInv, TypeOK, EachWriteOnce, GivenUp

LEMMA QueuedStatus ==
  ASSUME IInv, NEW w \in Queued
  PROVE  w \in Write /\ WriteStatus[w] = (IF w \in pg THEN "synced" ELSE "queued")
BY IdsInWrite, Status DEF IInv, TypeOK, EachWriteOnce, GivenUp, Queued

LEMMA LedgerQuiet == ASSUME IInv, Quiet PROVE [Ledger!Next]_WriteStatus
<1>1. UNCHANGED <<Queued, dropped, dead, lost>>
  BY QuietKeepsQueue DEF queue, Queued
<1>2. pg' = pg \/ (call # SELECT /\ pg' = pg \cup {call})
  BY DEF Quiet, Call, ExecPg, PgStatement, TryRecover, OpsCheck, OpsReconnect, PgDown, PgUp,
     RetryTimer, vars
<1>3. CASE pg' = pg
  <2>1. \A v \in Write : Unmoved(v)
    BY <1>1, <1>3, Status DEF Unmoved
  <2>2. QED BY <2>1, NoneMoves
<1>4. CASE call # SELECT /\ call \notin pg /\ pg' = pg \cup {call}
  <2>1. call \in Write /\ WriteStatus[call] \in {"none", "queued"} /\ WriteStatus'[call] = "synced"
    BY <1>4, FreshCall, Status
  <2>2. \A v \in Write \ {call} : Unmoved(v)
    BY <1>1, <1>4, Status DEF Unmoved
  <2>3. Ledger!Apply(call)
    BY <2>1, <2>2, OneMoves DEF Ledger!Apply
  <2>4. QED BY <2>1, <2>3 DEF Ledger!Next
<1>. QED BY <1>2, <1>3, <1>4

LEMMA LedgerReplayOne == ASSUME IInv, ReplayOne PROVE [Ledger!Next]_WriteStatus
<1>. DEFINE h == Head(pending)
<1>1. /\ Ids(pending) = {h.w} \cup Ids(pending')
      /\ Ids(remain) \subseteq Ids(remain')
      /\ Ids(remain') \subseteq Ids(remain) \cup {h.w}
      /\ h.w \in pg' \cup Ids(remain') \cup dead'
  BY QueuedByReplay DEF IInv
<1>2. UNCHANGED <<dropped, lost>> /\ h.w \in Queued
  BY <1>1 DEF ReplayOne, Queued
<1>3. PICK o \in Outcomes : PgStatement(o, h.w) /\ Settle(o, h)
  BY DEF ReplayOne
<1>4. pg' = pg \/ pg' = pg \cup {h.w}
  BY <1>3 DEF PgStatement
<1>5. dead' = dead \/ dead' = dead \cup {h.w}
  BY <1>3 DEF Settle, DeadLetter
<1>6. /\ h.w \in Write
      /\ WriteStatus[h.w] = (IF h.w \in pg THEN "synced" ELSE "queued")
      /\ h.w \notin GivenUp
  BY <1>2, QueuedStatus DEF IInv, EachWriteOnce
<1>7. \A v \in Write \ {h.w} : Unmoved(v)
  BY <1>1, <1>2, <1>4, <1>5, Status DEF Unmoved, Queued
<1>8. CASE h.w \in pg
  <2>1. Unmoved(h.w)
    BY <1>4, <1>6, <1>8, Status DEF Unmoved
  <2>2. QED BY <1>7, <2>1, NoneMoves
<1>9. CASE h.w \notin pg /\ h.w \in pg'
  <2>1. WriteStatus[h.w] \in {"none", "queued"} /\ WriteStatus'[h.w] = "synced"
    BY <1>6, <1>9, Status
  <2>2. Ledger!Apply(h.w)
    BY <1>6, <1>7, <2>1, OneMoves DEF Ledger!Apply
  <2>3. QED BY <1>6, <2>2 DEF Ledger!Next
<1>10. CASE h.w \notin pg /\ h.w \notin pg' /\ h.w \in dead'
  <2>1. WriteStatus[h.w] \in {"queued"} /\ WriteStatus'[h.w] = "dead"
    BY <1>6, <1>10, Status
  <2>2. Ledger!DeadLetter(h.w)
    BY <1>6, <1>7, <2>1, OneMoves DEF Ledger!DeadLetter
  <2>3. QED BY <1>6, <2>2 DEF Ledger!Next
<1>11. CASE h.w \notin pg /\ h.w \notin pg' /\ h.w \notin dead'
  <2>1. WriteStatus'[h.w] = "queued"
    BY <1>1, <1>2, <1>6, <1>11, Status DEF Queued, GivenUp
  <2>2. Unmoved(h.w)
    BY <1>6, <1>11, <2>1 DEF Unmoved
  <2>3. QED BY <1>7, <2>2, NoneMoves
<1>. QED BY <1>8, <1>9, <1>10, <1>11

LEMMA LedgerExecLite == ASSUME IInv, ExecLite PROVE [Ledger!Next]_WriteStatus
<1>1. UNCHANGED <<pg, remain, dead, lost>>
  BY DEF ExecLite
<1>2. /\ call # SELECT => call \in Ids(pending') \cup dropped'
      /\ \/ Ids(pending') = Ids(pending)
         \/ call # SELECT /\ Ids(pending') = Ids(pending) \cup {call}
      /\ \/ dropped' = dropped
         \/ call # SELECT /\ dropped' = dropped \cup {call} /\ pending' = pending
  BY QueuedByExecLite DEF IInv
<1>3. \A v \in Write \ {call} : Unmoved(v)
  BY <1>1, <1>2, Status DEF Unmoved, Queued
<1>4. CASE call = SELECT
  <2>1. \A v \in Write : v # call
    BY <1>4 DEF Write, SELECT
  <2>2. QED BY <1>3, <2>1, NoneMoves
<1>5. CASE call # SELECT /\ call \in pg
  <2>1. Unmoved(call)
    BY <1>1, <1>5, FreshCall, Status DEF Unmoved
  <2>2. QED BY <1>3, <2>1, NoneMoves
<1>6. CASE call # SELECT /\ call \notin pg
  <2>1. call \in Write /\ WriteStatus[call] \in {"none"} /\ call \notin Queued \cup GivenUp
    BY <1>6, FreshCall DEF IInv, EachWriteOnce
  <2>2. CASE dropped' = dropped
    <3>1. WriteStatus'[call] = "queued"
      BY <1>1, <1>2, <1>6, <2>1, <2>2, Status DEF Queued, GivenUp
    <3>2. Ledger!Queue(call)
      BY <1>3, <2>1, <3>1, OneMoves DEF Ledger!Queue
    <3>3. QED BY <2>1, <3>2 DEF Ledger!Next
  <2>3. CASE dropped' = dropped \cup {call}
    <3>1. WriteStatus'[call] = "dropped"
      BY <1>1, <1>6, <2>1, <2>3, Status DEF GivenUp
    <3>2. Ledger!Drop(call)
      BY <1>3, <2>1, <3>1, OneMoves DEF Ledger!Drop
    <3>3. QED BY <2>1, <3>2 DEF Ledger!Next
  <2>4. QED BY <1>2, <2>2, <2>3
<1>. QED BY <1>4, <1>5, <1>6

LEMMA LedgerRestart == ASSUME IInv, Restart PROVE Ledger!Crash
<1>1. Queued' = {} /\ lost' = lost \cup Queued /\ UNCHANGED <<pg, dropped, dead>>
  BY IdsEmpty DEF Restart, Queued
<1>2. ASSUME NEW w \in Write
      PROVE  WriteStatus'[w] = IF WriteStatus[w] = "queued" THEN "lost" ELSE WriteStatus[w]
  <2>1. CASE w \in Queued
    BY <1>1, <2>1, QueuedStatus, Status DEF IInv, EachWriteOnce, GivenUp
  <2>2. CASE w \notin Queued
    BY <1>1, <2>2, Status
  <2>3. QED BY <2>1, <2>2
<1>. QED BY <1>2 DEF Ledger!Crash, WriteStatus

(* Whatever fails and whenever the process is restarted, the fate of every  *)
(* write follows the ledger: it is never applied after being given up, and  *)
(* never un-applied.                                                        *)
THEOREM LedgerImplemented == Spec => LedgerSpec
<1>1. Init => Ledger!Init
  <2>1. Init => \A w \in Write : WriteStatus[w] = "none"
    BY IdsEmpty, Status DEF Init, Queued
  <2>2. QED BY <2>1 DEF Ledger!Init, WriteStatus
<1>2. IInv /\ [Next]_vars => [Ledger!Next]_WriteStatus
  <2>. SUFFICES ASSUME IInv, [Next]_vars PROVE [Ledger!Next]_WriteStatus
    OBVIOUS
  <2>1. CASE ReplayEnd
    <3>1. \A v \in Write : Unmoved(v)
      BY <2>1, QueuedByReplayEnd, Status DEF Unmoved, ReplayEnd
    <3>2. QED BY <3>1, NoneMoves
  <2>2. CASE Restart
    BY <2>2, LedgerRestart DEF Ledger!Next
  <2>3. QED
    BY <2>1, <2>2, Steps, LedgerQuiet, LedgerReplayOne, LedgerExecLite
<1>. QED BY <1>1, <1>2, Invariance, PTL DEF Spec, LedgerSpec, Ledger!Spec
=============================================================================
