-------------------------- MODULE TaskQueueProofs ---------------------------
(***************************************************************************)
(* Machine-checked theorems about TaskQueue, for every number of processes *)
(* and tasks, and every bound.                                             *)
(***************************************************************************)
EXTENDS TaskQueue, SequenceTheorems, FiniteSetTheorems, TLAPS

-----------------------------------------------------------------------------
(* The types, in full.                                                      *)

WorkerPc == {"idle", "load", "orphan", "mark", "handle", "success", "again", "bury",
             "schedule", "letter", "remove"}
Row == [status : {"none", "pending", "processing", "success", "dead"}, retries : Nat]
Work == [pc : WorkerPc, task : Task \cup {None}, retries : Nat]
Ask == [pc : {"idle", "undead", "renew", "requeue"}, task : Task \cup {None},
        by : Process \cup {None}]
Batch == [ids : SUBSET Task, held : SUBSET Task, found : BOOLEAN]

WorkerOK(w) == w \in Work /\ (w.pc = "idle" => w = Idle) /\ (w.pc # "idle" => w.task \in Task)

ListsTyped ==
  /\ queue \in Seq(Task) /\ retry \subseteq Task /\ memory \subseteq Task
  /\ processing \in [Task -> Nat] /\ dead \in [Task -> Nat]
  /\ data \in [Task -> Row]
  /\ producer \in [Task -> {"no", "push", "yes", "cut"}]

ThreadsTyped ==
  /\ worker \in [Process -> Work] /\ \A p \in Process : WorkerOK(worker[p])
  /\ janitor \in [Process -> Batch] /\ \A p \in Process : \A t, u \in janitor[p].held : t = u
  /\ operator \in Ask /\ (operator.pc # "idle" => operator.task \in Task)

HistoryTyped ==
  /\ runs \in [Task -> Nat] /\ finished \subseteq Task
  /\ met \subseteq Task /\ mislaid \subseteq met

Typed == ListsTyped /\ ThreadsTyped /\ HistoryTyped

-----------------------------------------------------------------------------
(* Lemmas about the operators the actions are built from.                   *)

\* an id put at the head of the queue is in it, and all others still are
LEMMA QueuePut ==
  ASSUME queue \in Seq(Task), NEW t \in Task, queue' = <<t>> \o queue
  PROVE  /\ queue' \in Seq(Task) /\ InQueue(t)'
         /\ \A u : InQueue(u) => InQueue(u)'
<1>1. <<t>> \in Seq(Task) /\ Len(<<t>>) = 1 /\ <<t>>[1] = t
  OBVIOUS
<1>2. Len(queue) \in Nat /\ DOMAIN queue = 1 .. Len(queue)
  BY LenProperties
<1>. DEFINE one == <<t>>
<1>. HIDE DEF one
<1>3. one \in Seq(Task) /\ Len(one) = 1 /\ one[1] = t
  BY <1>1 DEF one
<1>4. /\ one \o queue \in Seq(Task) /\ Len(one \o queue) = 1 + Len(queue)
      /\ \A i \in 1 .. 1 + Len(queue) :
           (one \o queue)[i] = IF i <= 1 THEN one[i] ELSE queue[i - 1]
  <2>1. /\ one \o queue \in Seq(Task) /\ Len(one \o queue) = Len(one) + Len(queue)
        /\ \A i \in 1 .. Len(one) + Len(queue) :
             (one \o queue)[i] = IF i <= Len(one) THEN one[i] ELSE queue[i - Len(one)]
    BY <1>3, ConcatProperties, Zenon
  <2>. QED BY <1>3, <2>1, Zenon
<1>5. queue' = one \o queue
  BY DEF one
<1>6. /\ queue' \in Seq(Task) /\ DOMAIN queue' = 1 .. Len(queue) + 1
      /\ queue'[1] = t /\ \A i \in 1 .. Len(queue) : queue'[i + 1] = queue[i]
  <2>1. queue' \in Seq(Task) /\ DOMAIN queue' = 1 .. 1 + Len(queue)
    BY <1>4, <1>5, LenProperties
  <2>2. queue'[1] = t
    BY <1>2, <1>3, <1>4, <1>5
  <2>3. ASSUME NEW i \in 1 .. Len(queue) PROVE queue'[i + 1] = queue[i]
    <3>1. i + 1 \in 1 .. 1 + Len(queue) /\ ~(i + 1 <= 1) /\ i + 1 - 1 = i
      BY <1>2
    <3>. QED BY <1>4, <1>5, <3>1
  <2>. QED BY <1>2, <2>1, <2>2, <2>3
<1>7. InQueue(t)'
  BY <1>2, <1>6 DEF InQueue
<1>8. ASSUME NEW u, InQueue(u) PROVE InQueue(u)'
  <2>1. PICK i \in 1 .. Len(queue) : queue[i] = u
    BY <1>2, <1>8 DEF InQueue
  <2>2. i + 1 \in 1 .. Len(queue) + 1
    BY <1>2, <2>1
  <2>. QED BY <1>6, <2>1, <2>2 DEF InQueue
<1>. QED BY <1>6, <1>7, <1>8

\* the last id taken from the queue: all others are still in it
LEMMA QueueTake ==
  ASSUME queue \in Seq(Task), queue # <<>>, queue' = Front(queue)
  PROVE  /\ Last(queue) \in Task /\ queue' \in Seq(Task)
         /\ \A u : InQueue(u) /\ u # Last(queue) => InQueue(u)'
<1>. DEFINE n == Len(queue)
<1>1. n \in Nat \ {0} /\ DOMAIN queue = 1 .. n
  BY LenProperties, EmptySeq
<1>2. Last(queue) = queue[n] /\ Last(queue) \in Task
  BY <1>1, ElementOfSeq DEF Last
<1>3. n - 1 \in Nat /\ n - 1 <= n /\ 1 <= n
  BY <1>1
<1>. HIDE DEF n
<1>4. Front(queue) = SubSeq(queue, 1, n - 1)
  BY DEF Front, n
<1>5. queue' \in Seq(Task) /\ Len(queue') = n - 1 /\ \A i \in 1 .. n - 1 : queue'[i] = queue[i]
  BY <1>1, <1>3, <1>4, SubSeqProperties DEF n
<1>6. ASSUME NEW u, InQueue(u), u # Last(queue) PROVE InQueue(u)'
  <2>1. PICK i \in 1 .. n : queue[i] = u
    BY <1>1, <1>6 DEF InQueue
  <2>2. i \in 1 .. n - 1
    BY <1>1, <1>2, <1>6, <2>1
  <2>3. DOMAIN queue' = 1 .. n - 1
    BY <1>5, LenProperties
  <2>. QED BY <1>5, <2>1, <2>2, <2>3 DEF InQueue
<1>. QED BY <1>2, <1>5, <1>6

-----------------------------------------------------------------------------
(* What each step makes of the worker that takes it.                        *)

\* worker p is at pc with task t now (with none if it rests), the others are as before
Becomes(p, pc, t) ==
  /\ worker' \in [Process -> Work] /\ WorkerOK(worker'[p])
  /\ worker'[p].pc = pc /\ (pc # "idle" => worker'[p].task = t)
  /\ \A q \in Process \ {p} : worker'[q] = worker[q]

LEMMA BecomesWork ==
  ASSUME ThreadsTyped, NEW p \in Process, NEW w, WorkerOK(w), worker' = [worker EXCEPT ![p] = w]
  PROVE  Becomes(p, w.pc, w.task)
<1>1. w \in Work
  BY DEF WorkerOK
<1>. QED BY <1>1 DEF ThreadsTyped, Becomes

LEMMA IdleOK ==
  WorkerOK(Idle) /\ Idle.pc = "idle"
BY DEF WorkerOK, Idle, Work, WorkerPc

LEMMA Rests ==
  ASSUME ThreadsTyped, NEW p \in Process, WorkerRests(p), NEW t
  PROVE  Becomes(p, "idle", t)
<1>1. worker' = [worker EXCEPT ![p] = Idle]
  BY DEF WorkerRests
<1>2. Becomes(p, Idle.pc, Idle.task)
  BY <1>1, IdleOK, BecomesWork
<1>. QED BY <1>2, IdleOK DEF Becomes

LEMMA GoesOn ==
  ASSUME ThreadsTyped, NEW p \in Process, NEW pc \in WorkerPc \ {"idle"}, WorkerTo(p, pc),
         worker[p].pc # "idle"
  PROVE  Becomes(p, pc, worker[p].task) /\ worker[p].task \in Task
<1>. DEFINE w == [worker[p] EXCEPT !.pc = pc]
<1>1. worker[p] \in Work /\ worker[p].task \in Task
  BY DEF ThreadsTyped, WorkerOK
<1>2. WorkerOK(w) /\ w.pc = pc /\ w.task = worker[p].task
  BY <1>1 DEF WorkerOK, Work
<1>3. worker' = [worker EXCEPT ![p] = w]
  BY <1>1 DEF WorkerTo
<1>. HIDE DEF w
<1>. QED BY <1>1, <1>2, <1>3, BecomesWork

LEMMA ClaimWork ==
  ASSUME Typed, NEW p \in Process, NEW o \in Outcome, Claim(p, o)
  PROVE  /\ Last(queue) \in Task /\ worker[p].pc = "idle"
         /\ \/ o = "ok" /\ Becomes(p, "load", Last(queue))
            \/ o # "ok" /\ UNCHANGED worker
<1>. DEFINE t == Last(queue)
            w == [Idle EXCEPT !.pc = "load", !.task = t]
<1>1. t \in Task /\ ThreadsTyped
  <2>1. queue \in Seq(Task) /\ queue # <<>>
    BY DEF Typed, ListsTyped, Claim
  <2>2. Len(queue) \in 1 .. Len(queue)
    BY <2>1, EmptySeq
  <2>. QED BY <2>1, <2>2, ElementOfSeq DEF Last, Typed
<1>. HIDE DEF t
<1>2. WorkerOK(w) /\ w.pc = "load" /\ w.task = t
  BY <1>1 DEF WorkerOK, Work, WorkerPc, Idle
<1>3. o = "ok" => worker' = [worker EXCEPT ![p] = w]
  BY DEF Claim, Seen, t
<1>. HIDE DEF w
<1>4. o = "ok" => Becomes(p, "load", t)
  BY <1>1, <1>2, <1>3, BecomesWork
<1>. QED BY <1>1, <1>4 DEF Claim, WorkerAt, Seen, t

LEMMA LoadWork ==
  ASSUME Typed, NEW p \in Process, NEW o \in Outcome, Load(p, o)
  PROVE  /\ worker[p].task \in Task
         /\ \E pc \in {"idle", "orphan", "mark"} : Becomes(p, pc, worker[p].task)
<1>. DEFINE t == worker[p].task
            pc == IF data[t] = None THEN "orphan" ELSE "mark"
            w == [worker[p] EXCEPT !.pc = pc, !.retries = data[t].retries]
<1>1. worker[p] \in Work /\ t \in Task /\ ThreadsTyped /\ data[t] \in Row
  BY DEF Typed, ThreadsTyped, ListsTyped, WorkerOK, Load, WorkerAt
<1>2. WorkerOK(w) /\ w.pc = pc /\ w.task = t
  BY <1>1 DEF WorkerOK, Work, WorkerPc, Row
<1>3. Seen(o) => worker' = [worker EXCEPT ![p] = w]
  BY <1>1 DEF Load
<1>. HIDE DEF w
<1>4. Seen(o) => Becomes(p, pc, t)
  BY <1>1, <1>2, <1>3, BecomesWork
<1>5. ~Seen(o) => Becomes(p, "idle", t)
  BY <1>1, Rests DEF Load
<1>. QED BY <1>1, <1>4, <1>5

LEMMA HandlerWork ==
  ASSUME Typed, NEW p \in Process, HandlerReturns(p)
  PROVE  /\ worker[p].task \in Task
         /\ \/ Becomes(p, "success", worker[p].task) /\ finished' = finished \cup {worker[p].task}
            \/ /\ \E pc \in {"bury", "again"} : Becomes(p, pc, worker[p].task)
               /\ UNCHANGED finished
<1>. DEFINE pc == Failed(worker[p].retries)
            n == worker[p].retries + 1
            w == [worker[p] EXCEPT !.pc = pc, !.retries = n]
<1>1. worker[p] \in Work /\ worker[p].task \in Task /\ ThreadsTyped /\ worker[p].pc # "idle"
  BY DEF Typed, ThreadsTyped, WorkerOK, HandlerReturns, WorkerAt
<1>2. pc \in {"bury", "again"}
  BY DEF Failed
<1>3. n \in Nat
  BY <1>1 DEF Work
<1>. HIDE DEF pc, n
<1>4. WorkerOK(w) /\ w.pc = pc /\ w.task = worker[p].task
  BY <1>1, <1>2, <1>3 DEF WorkerOK, Work, WorkerPc
<1>5. CASE WorkerTo(p, "success") /\ finished' = finished \cup {worker[p].task}
  BY <1>1, <1>5, GoesOn DEF WorkerPc
<1>6. CASE worker' = [worker EXCEPT ![p] = w] /\ UNCHANGED finished
  <2>. HIDE DEF w
  <2>. QED BY <1>1, <1>2, <1>4, <1>6, BecomesWork
<1>. QED BY <1>1, <1>5, <1>6 DEF HandlerReturns, pc, n

LEMMA RestingWork ==
  ASSUME Typed, NEW p \in Process, NEW o \in Outcome, Orphan(p, o) \/ Release(p, o)
  PROVE  worker[p].task \in Task /\ Becomes(p, "idle", worker[p].task)
BY Rests DEF Typed, ThreadsTyped, WorkerOK, Orphan, Release, WorkerAt

LEMMA MarkWork ==
  ASSUME Typed, NEW p \in Process, NEW o \in Outcome, Mark(p, o)
  PROVE  worker[p].task \in Task /\ Becomes(p, "handle", worker[p].task)
BY GoesOn DEF Typed, Mark, WorkerAt, WorkerPc

LEMMA UpdateWork ==
  ASSUME Typed, NEW p \in Process, NEW o \in Outcome, Update(p, o)
  PROVE  /\ worker[p].task \in Task
         /\ \/ worker[p].pc = "success" /\ Becomes(p, "remove", worker[p].task)
            \/ /\ worker[p].pc \in {"again", "bury"}
               /\ \E pc \in {"schedule", "letter"} : Becomes(p, pc, worker[p].task)
BY GoesOn DEF Typed, Update, AfterStatus, WorkerPc

LEMMA ListingWork ==
  ASSUME Typed, NEW p \in Process, NEW o \in Outcome, Schedule(p, o) \/ DeadLetter(p, o)
  PROVE  worker[p].task \in Task /\ Becomes(p, "remove", worker[p].task)
BY GoesOn DEF Typed, Schedule, DeadLetter, WorkerAt, WorkerPc

-----------------------------------------------------------------------------
(* Every variable keeps its type.                                           *)

LEMMA FallbackTyped ==
  ASSUME ListsTyped, HistoryTyped, NEW t \in Task, NEW o, Fallback(t, o), UNCHANGED tries
  PROVE  memory' \subseteq Task /\ HistoryTyped'
BY DEF Fallback, Meets, ListsTyped, HistoryTyped, tries

LEMMA MeetsTyped ==
  ASSUME HistoryTyped, NEW t \in Task, NEW o, NEW ts \in SUBSET Task, NEW ms \in SUBSET Task,
         Meets(t, o, ts, ms)
  PROVE  /\ met' \subseteq Task /\ mislaid' \subseteq met'
         /\ mislaid' = mislaid \cup ts
BY DEF HistoryTyped, Meets

LEMMA MeetsKeepsHistory ==
  ASSUME HistoryTyped, NEW t \in Task, NEW o, NEW ts \in SUBSET Task, NEW ms \in SUBSET Task,
         Meets(t, o, ts, ms), UNCHANGED tries
  PROVE  HistoryTyped'
BY MeetsTyped DEF HistoryTyped, tries

LEMMA SetTyped ==
  ASSUME ListsTyped, NEW t \in Task, NEW c, NEW n \in Nat,
         NEW status \in {"none", "pending", "processing", "success", "dead"},
         SetIf(c, t, status, n)
  PROVE  data' \in [Task -> Row]
<1>. DEFINE row == [status |-> status, retries |-> n]
<1>1. row \in Row
  BY DEF Row
<1>2. CASE data' = [data EXCEPT ![t] = row]
  <2>. HIDE DEF row
  <2>. QED BY <1>1, <1>2 DEF ListsTyped
<1>. QED BY <1>2 DEF SetIf, Set, ListsTyped

LEMMA BagsTyped ==
  ASSUME NEW bag \in [Task -> Nat], NEW t \in Task
  PROVE  More(bag, t) \in [Task -> Nat] /\ Less(bag, t) \in [Task -> Nat]
BY DEF More, Less

LEMMA BecomesTyped ==
  ASSUME ThreadsTyped, NEW p \in Process, NEW pc, NEW t, Becomes(p, pc, t),
         UNCHANGED <<janitor, operator>>
  PROVE  ThreadsTyped'
BY DEF ThreadsTyped, Becomes

LEMMA EnqueueTyped ==
  ASSUME Typed, NEW t \in Task, Enqueue(t)
  PROVE  Typed'
<1>1. ListsTyped /\ ThreadsTyped /\ HistoryTyped
  BY DEF Typed
<1>2. ASSUME NEW o \in Outcome, Store(t, o) PROVE Typed'
  <2>1. HistoryTyped'
    BY <1>1, <1>2, FallbackTyped DEF Store
  <2>2. data' \in [Task -> Row]
    BY <1>1, <1>2, SetTyped DEF Store
  <2>3. memory' \subseteq Task
    BY <1>1, <1>2, FallbackTyped DEF Store
  <2>. QED BY <1>1, <1>2, <2>1, <2>2, <2>3 DEF Typed, ListsTyped, ThreadsTyped, Store, lists
<1>3. ASSUME NEW o \in Outcome, Push(t, o) PROVE Typed'
  <2>1. HistoryTyped'
    BY <1>1, <1>3, FallbackTyped DEF Push
  <2>2. queue' \in Seq(Task)
    BY <1>1, <1>3, QueuePut DEF Push, ListsTyped
  <2>3. memory' \subseteq Task
    BY <1>1, <1>3, FallbackTyped DEF Push
  <2>. QED BY <1>1, <1>3, <2>1, <2>2, <2>3 DEF Typed, ListsTyped, ThreadsTyped, Push
<1>. QED BY <1>2, <1>3 DEF Enqueue

LEMMA WorkerTyped ==
  ASSUME Typed, NEW p \in Process, WorkerStep(p)
  PROVE  Typed'
<1>1. ListsTyped /\ ThreadsTyped /\ HistoryTyped
  BY DEF Typed
<1>2. CASE HandlerReturns(p)
  <2>1. ThreadsTyped'
    BY <1>1, <1>2, HandlerWork, BecomesTyped DEF HandlerReturns, Others
  <2>2. HistoryTyped'
    BY <1>1, <1>2, HandlerWork DEF HandlerReturns, HistoryTyped
  <2>. QED BY <1>1, <1>2, <2>1, <2>2 DEF HandlerReturns, Typed, ListsTyped, lists, Others
<1>3. ASSUME NEW o \in Outcome, Claim(p, o) PROVE Typed'
  <2>. DEFINE t == Last(queue)
  <2>1. t \in Task /\ ThreadsTyped'
    BY <1>1, <1>3, ClaimWork, BecomesTyped DEF Claim, Others, ThreadsTyped
  <2>2. HistoryTyped'
    BY <1>1, <1>3, <2>1, MeetsKeepsHistory DEF Claim
  <2>3. queue' \in Seq(Task)
    BY <1>1, <1>3, QueueTake DEF Claim, ListsTyped
  <2>4. processing' \in [Task -> Nat]
    BY <1>1, <1>3, <2>1, BagsTyped DEF Claim, ListsTyped
  <2>. HIDE DEF t
  <2>. QED BY <1>1, <1>3, <2>1, <2>2, <2>3, <2>4 DEF Claim, Typed, ListsTyped, Others
<1>4. ASSUME NEW o \in Outcome, Load(p, o) PROVE Typed'
  <2>1. ThreadsTyped'
    BY <1>1, <1>4, LoadWork, BecomesTyped DEF Load, Others
  <2>2. HistoryTyped'
    BY <1>1, <1>4, LoadWork, MeetsKeepsHistory DEF Load
  <2>. QED BY <1>1, <1>4, <2>1, <2>2 DEF Load, Typed, ListsTyped, lists, Others
<1>5. ASSUME NEW o \in Outcome, Orphan(p, o) \/ Release(p, o) PROVE Typed'
  <2>1. worker[p].task \in Task /\ ThreadsTyped'
    BY <1>1, <1>5, RestingWork, BecomesTyped DEF Orphan, Release, Others
  <2>2. HistoryTyped'
    BY <1>1, <1>5, <2>1, MeetsKeepsHistory DEF Orphan, Release
  <2>3. processing' \in [Task -> Nat]
    BY <1>1, <1>5, <2>1, BagsTyped DEF Orphan, Release, ListsTyped
  <2>. QED BY <1>1, <1>5, <2>1, <2>2, <2>3 DEF Orphan, Release, Typed, ListsTyped, Others
<1>6. ASSUME NEW o \in Outcome, Mark(p, o) PROVE Typed'
  <2>1. worker[p].task \in Task /\ worker[p].retries \in Nat /\ ThreadsTyped'
    BY <1>1, <1>6, MarkWork, BecomesTyped DEF Mark, Others, ThreadsTyped, Work
  <2>2. met' \subseteq Task /\ mislaid' \subseteq met'
    BY <1>1, <1>6, <2>1, MeetsTyped DEF Mark
  <2>3. HistoryTyped'
    BY <1>1, <1>6, <2>1, <2>2 DEF Mark, HistoryTyped
  <2>4. data' \in [Task -> Row]
    BY <1>1, <1>6, <2>1, SetTyped DEF Mark
  <2>. QED BY <1>1, <1>6, <2>1, <2>3, <2>4 DEF Mark, Typed, ListsTyped, lists, Others
<1>7. ASSUME NEW o \in Outcome, Update(p, o) PROVE Typed'
  <2>1. worker[p].task \in Task /\ worker[p].retries \in Nat /\ ThreadsTyped'
    BY <1>1, <1>7, UpdateWork, BecomesTyped DEF Update, Others, ThreadsTyped, Work
  <2>2. HistoryTyped'
    BY <1>1, <1>7, <2>1, MeetsKeepsHistory DEF Update
  <2>3. StatusAt(worker[p].pc) \in {"none", "pending", "processing", "success", "dead"}
    BY <1>7 DEF Update, StatusAt
  <2>4. data' \in [Task -> Row]
    BY <1>1, <1>7, <2>1, <2>3, SetTyped DEF Update
  <2>. QED BY <1>1, <1>7, <2>1, <2>2, <2>4 DEF Update, Typed, ListsTyped, lists, Others
<1>8. ASSUME NEW o \in Outcome, Schedule(p, o) \/ DeadLetter(p, o) PROVE Typed'
  <2>1. worker[p].task \in Task /\ ThreadsTyped'
    BY <1>1, <1>8, ListingWork, BecomesTyped DEF Schedule, DeadLetter, Others
  <2>2. HistoryTyped'
    BY <1>1, <1>8, <2>1, MeetsKeepsHistory DEF Schedule, DeadLetter
  <2>3. More(dead, worker[p].task) \in [Task -> Nat]
    BY <1>1, <2>1, BagsTyped DEF ListsTyped
  <2>4. dead' \in [Task -> Nat] /\ retry' \subseteq Task
    BY <1>1, <1>8, <2>1, <2>3 DEF Schedule, DeadLetter, ListsTyped
  <2>. QED BY <1>1, <1>8, <2>1, <2>2, <2>4 DEF Schedule, DeadLetter, Typed, ListsTyped, Others
<1>. QED BY <1>2, <1>3, <1>4, <1>5, <1>6, <1>7, <1>8 DEF WorkerStep

LEMMA JanitorTyped ==
  ASSUME Typed, NEW p \in Process, JanitorStep(p) \/ \E ts \in SUBSET Task : ListDue(p, ts)
  PROVE  Typed'
<1>1. ListsTyped /\ ThreadsTyped /\ HistoryTyped /\ janitor[p] \in Batch /\ Resting \in Batch
  BY DEF Typed, ThreadsTyped, Resting, Batch
<1>2. ASSUME NEW b \in Batch, \A t, u \in b.held : t = u, janitor' = [janitor EXCEPT ![p] = b],
             UNCHANGED <<worker, operator>>
      PROVE  ThreadsTyped'
  BY <1>1, <1>2 DEF ThreadsTyped
<1>3. ASSUME NEW ts \in SUBSET Task, ListDue(p, ts) PROVE Typed'
  <2>. DEFINE b == [janitor[p] EXCEPT !.ids = ts]
  <2>1. b \in Batch
    BY <1>1 DEF Batch
  <2>. b.held = {}
    BY <1>1, <1>3 DEF Batch, ListDue, Resting
  <2>2. janitor' = [janitor EXCEPT ![p] = b]
    BY <1>1, <1>3 DEF ListDue
  <2>. HIDE DEF b
  <2>3. ThreadsTyped'
    BY <1>2, <1>3, <2>1, <2>2 DEF ListDue, NotJanitor
  <2>. QED BY <1>1, <1>3, <2>3 DEF ListDue, NotJanitor, Typed, ListsTyped, HistoryTyped, tries
<1>4. ASSUME NEW t \in Task, NEW o \in Outcome, TakeDue(p, t, o) PROVE Typed'
  <2>. DEFINE b == IF Seen(o)
                   THEN [ids |-> janitor[p].ids \ {t}, held |-> {t}, found |-> t \in retry]
                   ELSE Resting
  <2>1. b \in Batch /\ \A x, y \in b.held : x = y
    BY <1>1 DEF Batch, Resting
  <2>2. janitor' = [janitor EXCEPT ![p] = b]
    BY <1>1, <1>4 DEF TakeDue
  <2>. HIDE DEF b
  <2>3. ThreadsTyped'
    BY <1>2, <1>4, <2>1, <2>2 DEF TakeDue, NotJanitor
  <2>4. HistoryTyped'
    BY <1>1, <1>4, MeetsKeepsHistory DEF TakeDue, NotJanitor
  <2>. QED BY <1>1, <1>4, <2>3, <2>4 DEF TakeDue, TakenFromRetry, NotJanitor, Typed, ListsTyped
<1>5. ASSUME NEW t \in Task, NEW o \in Outcome, PutBack(p, t, o) PROVE Typed'
  <2>. DEFINE b == IF Seen(o) THEN [ids |-> janitor[p].ids, held |-> {}, found |-> TRUE]
                   ELSE Resting
  <2>1. b \in Batch /\ \A x, y \in b.held : x = y
    BY <1>1 DEF Batch, Resting
  <2>2. janitor' = [janitor EXCEPT ![p] = b]
    BY <1>1, <1>5 DEF PutBack
  <2>. HIDE DEF b
  <2>3. ThreadsTyped'
    BY <1>2, <1>5, <2>1, <2>2 DEF PutBack, NotJanitor
  <2>4. HistoryTyped'
    BY <1>1, <1>5, MeetsKeepsHistory DEF PutBack, NotJanitor
  <2>5. queue' \in Seq(Task)
    BY <1>1, <1>5, QueuePut DEF PutBack, ListsTyped
  <2>. QED BY <1>1, <1>5, <2>3, <2>4, <2>5 DEF PutBack, NotJanitor, Typed, ListsTyped
<1>. QED BY <1>3, <1>4, <1>5 DEF JanitorStep

LEMMA OperatorTyped ==
  ASSUME Typed, OperatorStep \/ ClearDead \/ \E p \in Process, t \in Task : AskRequeue(p, t)
  PROVE  Typed'
<1>1. ListsTyped /\ ThreadsTyped /\ HistoryTyped
  BY DEF Typed
<1>. DEFINE t == operator.task
<1>2. ASSUME NEW o \in Outcome, Undead(o) PROVE Typed'
  <2>1. t \in Task
    BY <1>1, <1>2 DEF Undead, ThreadsTyped
  <2>2. HistoryTyped'
    BY <1>1, <1>2, <2>1, MeetsKeepsHistory DEF Undead
  <2>3. Less(dead, t) \in [Task -> Nat]
    BY <1>1, <2>1, BagsTyped DEF ListsTyped
  <2>. QED BY <1>1, <1>2, <2>1, <2>2, <2>3
       DEF Undead, Ask, NotOperator, Typed, ListsTyped, ThreadsTyped
<1>3. ASSUME NEW o \in Outcome, Renew(o) PROVE Typed'
  <2>1. t \in Task
    BY <1>1, <1>3 DEF Renew, ThreadsTyped
  <2>2. met' \subseteq Task /\ mislaid' \subseteq met'
    BY <1>1, <1>3, <2>1, MeetsTyped DEF Renew
  <2>3. HistoryTyped'
    BY <1>1, <1>3, <2>1, <2>2 DEF Renew, HistoryTyped
  <2>4. data' \in [Task -> Row]
    BY <1>1, <1>3, <2>1, SetTyped DEF Renew
  <2>. QED BY <1>1, <1>3, <2>1, <2>3, <2>4
       DEF Renew, Ask, NotOperator, Typed, ListsTyped, ThreadsTyped
<1>4. ASSUME NEW o \in Outcome, Requeue(o) PROVE Typed'
  <2>1. t \in Task
    BY <1>1, <1>4 DEF Requeue, ThreadsTyped
  <2>2. HistoryTyped'
    BY <1>1, <1>4, <2>1, MeetsKeepsHistory DEF Requeue
  <2>3. queue' \in Seq(Task)
    BY <1>1, <1>4, <2>1, QueuePut DEF Requeue, ListsTyped
  <2>. QED BY <1>1, <1>4, <2>2, <2>3
       DEF Requeue, Ask, NotOperator, Typed, ListsTyped, ThreadsTyped, NoRequest
<1>5. ASSUME ClearDead PROVE Typed'
  BY <1>1, <1>5 DEF ClearDead, NotOperator, Typed, ListsTyped, ThreadsTyped, HistoryTyped, tries
<1>6. ASSUME NEW p \in Process, NEW u \in Task, AskRequeue(p, u) PROVE Typed'
  BY <1>1, <1>6 DEF AskRequeue, Ask, NotOperator, Typed, ListsTyped, ThreadsTyped, HistoryTyped,
                    history, tries
<1>. QED BY <1>2, <1>3, <1>4, <1>5, <1>6 DEF OperatorStep

LEMMA FaultTyped ==
  ASSUME Typed, (\E p \in Process : Crash(p)) \/ (\E t \in Task : Expire(t))
  PROVE  Typed'
<1>1. ListsTyped /\ ThreadsTyped /\ HistoryTyped /\ Resting \in Batch
  BY DEF Typed, Resting, Batch
<1>2. ASSUME NEW p \in Process, Crash(p) PROVE Typed'
  <2>1. janitor[p] \in Batch /\ worker[p].task \in Task \cup {None}
    BY <1>1 DEF ThreadsTyped, Work
  <2>2. InHand(p) \subseteq Task
    BY <1>1, <2>1 DEF InHand, Batch, Served, Submitting, InMemory, ListsTyped, ThreadsTyped, Ask
  <2>3. OutOfLists(p) \subseteq InHand(p)
    BY <1>1, <2>1, NoneIsNoTask
       DEF OutOfLists, InHand, Batch, Served, InMemory, ListsTyped, ThreadsTyped, Ask
  <2>4. HistoryTyped'
    BY <1>1, <1>2, <2>2, <2>3 DEF Crash, HistoryTyped, tries
  <2>5. Becomes(p, "idle", None)
    BY <1>1, <1>2, Rests DEF Crash
  <2>6. NoRequest \in Ask /\ NoRequest.pc = "idle"
    BY DEF NoRequest, Ask
  <2>7. operator' \in Ask /\ (operator'.pc # "idle" => operator'.task \in Task)
    BY <1>1, <1>2, <2>6 DEF Crash, ThreadsTyped
  <2>8. ThreadsTyped'
    BY <1>1, <1>2, <2>5, <2>7 DEF Crash, Becomes, ThreadsTyped, Resting
  <2>9. producer' \in [Task -> {"no", "push", "yes", "cut"}] /\ memory' \subseteq Task
    BY <1>1, <1>2 DEF Crash, ListsTyped
  <2>. QED BY <1>1, <1>2, <2>4, <2>8, <2>9 DEF Crash, Typed, ListsTyped, lists
<1>3. ASSUME NEW t \in Task, Expire(t) PROVE Typed'
  <2>1. None \in Row
    BY DEF None, Row
  <2>. QED BY <1>1, <1>3, <2>1 DEF Expire, Typed, ListsTyped, ThreadsTyped, HistoryTyped, lists,
                                  threads, tries
<1>. QED BY <1>2, <1>3

LEMMA TypedStep ==
  ASSUME Typed, Next
  PROVE  Typed'
BY EnqueueTyped, WorkerTyped, JanitorTyped, OperatorTyped, FaultTyped DEF Next

LEMMA TypedInit ==
  ASSUME Init
  PROVE  Typed
<1>1. <<>> \in Seq(Task) /\ WorkerOK(Idle) /\ NoRequest \in Ask /\ Resting \in Batch /\ None \in Row
  BY IdleOK, EmptySeq DEF NoRequest, Ask, Resting, Batch, None, Row
<1>2. Idle \in Work
  BY <1>1 DEF WorkerOK
<1>3. Resting.held = {} /\ NoRequest.pc = "idle"
  BY DEF Resting, NoRequest
<1>. QED BY <1>1, <1>2, <1>3, IdleOK DEF Init, Typed, ListsTyped, ThreadsTyped, HistoryTyped

LEMMA TypedStutter ==
  ASSUME Typed, UNCHANGED vars
  PROVE  Typed'
BY DEF vars, lists, threads, tries, history, Typed, ListsTyped, ThreadsTyped, HistoryTyped

(* Every variable keeps its type, whatever fails.                           *)
THEOREM TaskTyped == Spec => []TypeOK
<1>1. Typed => TypeOK
  BY IdleOK DEF Typed, ListsTyped, ThreadsTyped, HistoryTyped, TypeOK, Row, WorkerOK, Work, Batch,
                WorkerAt
<1>2. Typed /\ [Next]_vars => Typed'
  BY TypedStep, TypedStutter
<1>. QED BY <1>1, <1>2, TypedInit, PTL DEF Spec

-----------------------------------------------------------------------------
(* No task vanishes: the inductive invariant.                               *)

\* the workers that hold t, and those of them that will just take it out of processing
Held(t) == {p \in Process : worker[p].pc # "idle" /\ worker[p].task = t}
Leaving(t) == {p \in Held(t) : worker[p].pc \in {"success", "remove"}}

\* taken out of the retries, or off the dead letters, and about to be queued
Carried(t) ==
  \/ \E p \in Process : t \in janitor[p].held /\ janitor[p].found
  \/ operator.task = t /\ operator.pc \in {"renew", "requeue"}

Elsewhere(t) ==
  t \in finished \/ InQueue(t) \/ t \in retry \/ dead[t] > 0 \/ t \in memory \/ Carried(t)

\* every worker that holds t has its own entry in processing
Covered(t) == Cardinality(Held(t)) <= processing[t]

\* processing has an entry that no worker will just take out
Secure(t) ==
  t \in mislaid \/ producer[t] # "yes" \/ Elsewhere(t) \/ Cardinality(Leaving(t)) < processing[t]

Safe(t) == Covered(t) /\ Secure(t)

LEMMA Counts ==
  ASSUME NEW t
  PROVE  /\ IsFiniteSet(Held(t)) /\ IsFiniteSet(Leaving(t))
         /\ Cardinality(Held(t)) \in Nat /\ Cardinality(Leaving(t)) \in Nat
         /\ Cardinality(Leaving(t)) <= Cardinality(Held(t))
<1>1. IsFiniteSet(Process) /\ Held(t) \subseteq Process /\ Leaving(t) \subseteq Held(t)
  BY TaskQueueAssumption DEF Held, Leaving
<1>2. IsFiniteSet(Held(t)) /\ IsFiniteSet(Leaving(t))
  BY <1>1, FS_Subset
<1>. QED BY <1>1, <1>2, FS_Subset, FS_CardinalityType

LEMMA Shrinks ==
  ASSUME NEW t, Held(t)' \subseteq Held(t), Leaving(t)' \subseteq Leaving(t)
  PROVE  /\ Cardinality(Held(t)') <= Cardinality(Held(t)) /\ Cardinality(Held(t)') \in Nat
         /\ Cardinality(Leaving(t)') <= Cardinality(Leaving(t)) /\ Cardinality(Leaving(t)') \in Nat
BY Counts, FS_Subset, FS_CardinalityType

LEMMA HeldMoves ==
  ASSUME NEW p \in Process, NEW pc, NEW t, Becomes(p, pc, t),
         worker[p].pc # "idle" => worker[p].task = t
  PROVE  /\ Held(t)' = IF pc = "idle" THEN Held(t) \ {p} ELSE Held(t) \cup {p}
         /\ Leaving(t)' = IF pc \in {"success", "remove"} THEN Leaving(t) \cup {p}
                                                          ELSE Leaving(t) \ {p}
         /\ \A u : u # t => Held(u)' = Held(u) /\ Leaving(u)' = Leaving(u)
<1>1. /\ worker'[p].pc = pc /\ (pc # "idle" => worker'[p].task = t)
      /\ \A q \in Process \ {p} : worker'[q] = worker[q]
  BY DEF Becomes
<1>2. Held(t)' = IF pc = "idle" THEN Held(t) \ {p} ELSE Held(t) \cup {p}
  BY <1>1 DEF Held
<1>3. Leaving(t)' = IF pc \in {"success", "remove"} THEN Leaving(t) \cup {p} ELSE Leaving(t) \ {p}
  BY <1>1 DEF Held, Leaving
<1>4. ASSUME NEW u, u # t PROVE Held(u)' = Held(u) /\ Leaving(u)' = Leaving(u)
  BY <1>1, <1>4 DEF Held, Leaving
<1>. QED BY <1>2, <1>3, <1>4

\* no entry is lost, and no worker has become one that will just take one out
LEMMA SafeStays ==
  ASSUME Typed, Typed', NEW t \in Task, Safe(t), mislaid \subseteq mislaid',
         Held(t)' \subseteq Held(t), Leaving(t)' \subseteq Leaving(t),
         processing[t] <= processing'[t],
         producer'[t] = "yes" => producer[t] = "yes" \/ Elsewhere(t)',
         Elsewhere(t) => Elsewhere(t)' \/ t \in mislaid'
  PROVE  Safe(t)'
<1>1. /\ processing[t] \in Nat /\ processing'[t] \in Nat
      /\ Cardinality(Held(t)) \in Nat /\ Cardinality(Leaving(t)) \in Nat
  BY Counts DEF Typed, ListsTyped
<1>2. Cardinality(Held(t)') <= processing'[t]
  BY <1>1, Shrinks DEF Safe, Covered
<1>3. Cardinality(Leaving(t)) < processing[t] => Cardinality(Leaving(t)') < processing'[t]
  BY <1>1, Shrinks
<1>. QED BY <1>2, <1>3 DEF Safe, Covered, Secure

\* or the task is in one of the other places now
LEMMA SafeElsewhere ==
  ASSUME Typed, Typed', NEW t \in Task, Safe(t),
         Held(t)' \subseteq Held(t), processing[t] <= processing'[t],
         Elsewhere(t)' \/ t \in mislaid'
  PROVE  Safe(t)'
<1>1. processing[t] \in Nat /\ processing'[t] \in Nat /\ Cardinality(Held(t)) \in Nat
  BY Counts DEF Typed, ListsTyped
<1>2. Cardinality(Held(t)') <= Cardinality(Held(t)) /\ Cardinality(Held(t)') \in Nat
  BY Counts, FS_Subset, FS_CardinalityType
<1>. QED BY <1>1, <1>2 DEF Safe, Covered, Secure

-----------------------------------------------------------------------------
(* No task vanishes: every step.                                            *)

LEMMA MislaidGrows ==
  ASSUME Next
  PROVE  mislaid \subseteq mislaid'
<1>1. ASSUME NEW p \in Process, WorkerStep(p) PROVE mislaid \subseteq mislaid'
  BY <1>1 DEF WorkerStep, HandlerReturns, Claim, Load, Orphan, Mark, Update, Schedule, DeadLetter,
              Release, Meets
<1>2. ASSUME NEW p \in Process, JanitorStep(p) \/ Crash(p) \/ \E ts \in SUBSET Task : ListDue(p, ts)
      PROVE  mislaid \subseteq mislaid'
  BY <1>2 DEF JanitorStep, ListDue, TakeDue, PutBack, Crash, Meets
<1>3. ASSUME NEW t \in Task, Enqueue(t) \/ Expire(t) \/ \E p \in Process : AskRequeue(p, t)
      PROVE  mislaid \subseteq mislaid'
  BY <1>3 DEF Enqueue, Store, Push, Fallback, Meets, AskRequeue, Expire, history
<1>4. CASE OperatorStep \/ ClearDead
  BY <1>4 DEF OperatorStep, Undead, Renew, Requeue, ClearDead, Meets
<1>. QED BY <1>1, <1>2, <1>3, <1>4 DEF Next

\* the steps that leave the workers and processing alone
LEMMA AsideSafe ==
  ASSUME Typed, Typed', NEW t \in Task, Safe(t), mislaid \subseteq mislaid',
         UNCHANGED <<worker, processing>>,
         producer'[t] = "yes" => producer[t] = "yes" \/ Elsewhere(t)',
         Elsewhere(t) => Elsewhere(t)' \/ t \in mislaid'
  PROVE  Safe(t)'
<1>1. /\ Held(t)' \subseteq Held(t) /\ Leaving(t)' \subseteq Leaving(t)
      /\ processing[t] <= processing'[t]
  BY DEF Held, Leaving, Typed, ListsTyped
<1>. QED BY <1>1, SafeStays

LEMMA EnqueueSafe ==
  ASSUME Typed, Typed', NEW t \in Task, Safe(t), mislaid \subseteq mislaid',
         NEW u \in Task, Enqueue(u)
  PROVE  Safe(t)'
<1>1. ASSUME NEW o \in Outcome, Store(u, o) PROVE Safe(t)'
  <2>1. Elsewhere(t) => Elsewhere(t)'
    BY <1>1 DEF Store, Fallback, Meets, lists, tries, Elsewhere, InQueue, Carried
  <2>2. producer'[t] = "yes" => producer[t] = "yes" \/ Elsewhere(t)'
    BY <1>1 DEF Store, Fallback, Meets, Typed, ListsTyped, Elsewhere
  <2>. QED BY <1>1, <2>1, <2>2, AsideSafe DEF Store, lists
<1>2. ASSUME NEW o \in Outcome, Push(u, o) PROVE Safe(t)'
  <2>1. /\ InQueue(t) => InQueue(t)'
        /\ Done(o) => InQueue(u)'
    BY <1>2, QueuePut DEF Push, Typed, ListsTyped, InQueue
  <2>2. Elsewhere(t) => Elsewhere(t)'
    BY <1>2, <2>1 DEF Push, Fallback, Meets, tries, Elsewhere, Carried
  <2>3. producer'[t] = "yes" => producer[t] = "yes" \/ Elsewhere(t)'
    BY <1>2, <2>1 DEF Push, Fallback, Meets, Typed, ListsTyped, Elsewhere, Seen, Done
  <2>. QED BY <1>2, <2>2, <2>3, AsideSafe DEF Push
<1>. QED BY <1>1, <1>2 DEF Enqueue

LEMMA JanitorSafe ==
  ASSUME Typed, Typed', NEW t \in Task, Safe(t), mislaid \subseteq mislaid', NEW p \in Process,
         JanitorStep(p) \/ \E ts \in SUBSET Task : ListDue(p, ts)
  PROVE  Safe(t)'
<1>1. janitor \in [Process -> Batch]
  BY DEF Typed, ThreadsTyped
<1>2. ASSUME NEW ts \in SUBSET Task, ListDue(p, ts) PROVE Safe(t)'
  <2>1. Carried(t) => Carried(t)'
    BY <1>1, <1>2 DEF ListDue, NotJanitor, Carried, Resting
  <2>2. Elsewhere(t) => Elsewhere(t)'
    BY <1>2, <2>1 DEF ListDue, NotJanitor, tries, Elsewhere, InQueue
  <2>. QED BY <1>2, <2>2, AsideSafe DEF ListDue, NotJanitor
<1>3. ASSUME NEW u \in Task, NEW o \in Outcome, TakeDue(p, u, o) PROVE Safe(t)'
  <2>1. Carried(t) => Carried(t)'
    BY <1>1, <1>3 DEF TakeDue, NotJanitor, Carried
  <2>2. t \in retry => t \in retry' \/ Carried(t)' \/ t \in mislaid'
    <3>1. CASE u = t /\ o = "ok"
      BY <1>1, <1>3, <3>1 DEF TakeDue, Carried, Seen
    <3>2. CASE u = t /\ o = "lost"
      BY <1>3, <3>2 DEF TakeDue, Meets
    <3>3. CASE u # t \/ o = "failed"
      BY <1>3, <3>3 DEF TakeDue, TakenFromRetry, Done
    <3>. QED BY <3>1, <3>2, <3>3 DEF Outcome
  <2>3. Elsewhere(t) => Elsewhere(t)' \/ t \in mislaid'
    BY <1>3, <2>1, <2>2 DEF TakeDue, NotJanitor, tries, Elsewhere, InQueue
  <2>. QED BY <1>3, <2>3, AsideSafe DEF TakeDue, NotJanitor
<1>4. ASSUME NEW u \in Task, NEW o \in Outcome, PutBack(p, u, o) PROVE Safe(t)'
  <2>1. /\ InQueue(t) => InQueue(t)'
        /\ Done(o) => InQueue(u)'
    BY <1>4, QueuePut DEF PutBack, Typed, ListsTyped, InQueue
  <2>2. Carried(t) => Carried(t)' \/ InQueue(t)' \/ t \in mislaid'
    <3>1. CASE operator.task = t /\ operator.pc \in {"renew", "requeue"}
      BY <1>4, <3>1 DEF PutBack, NotJanitor, Carried
    <3>2. ASSUME NEW q \in Process \ {p}, t \in janitor[q].held, janitor[q].found
          PROVE  Carried(t)'
      BY <1>1, <1>4, <3>2 DEF PutBack, Carried
    <3>3. CASE t \in janitor[p].held /\ janitor[p].found
      <4>1. t = u
        BY <1>4, <3>3 DEF PutBack, Typed, ThreadsTyped
      <4>. QED BY <1>4, <2>1, <3>3, <4>1 DEF PutBack, Meets
    <3>. QED BY <3>1, <3>2, <3>3 DEF Carried
  <2>3. Elsewhere(t) => Elsewhere(t)' \/ t \in mislaid'
    BY <1>4, <2>1, <2>2 DEF PutBack, NotJanitor, tries, Elsewhere
  <2>. QED BY <1>4, <2>3, AsideSafe DEF PutBack, NotJanitor
<1>. QED BY <1>2, <1>3, <1>4 DEF JanitorStep

LEMMA OperatorSafe ==
  ASSUME Typed, Typed', NEW t \in Task, Safe(t), mislaid \subseteq mislaid',
         OperatorStep \/ ClearDead \/ (\E u \in Task : Expire(u))
           \/ \E p \in Process, u \in Task : AskRequeue(p, u)
  PROVE  Safe(t)'
<1>1. operator \in Ask /\ dead \in [Task -> Nat]
  BY DEF Typed, ThreadsTyped, ListsTyped
<1>2. ASSUME NEW o \in Outcome, Undead(o) PROVE Safe(t)'
  <2>1. CASE operator.task = t
    <3>1. Carried(t)'
      BY <1>1, <1>2, <2>1 DEF Undead, Carried, Ask
    <3>. QED BY <1>2, <3>1, AsideSafe DEF Undead, NotOperator, Elsewhere
  <2>2. CASE operator.task # t
    <3>1. dead'[t] = dead[t] /\ (Carried(t) => Carried(t)')
      BY <1>1, <1>2, <2>2 DEF Undead, Less, NotOperator, Carried
    <3>2. Elsewhere(t) => Elsewhere(t)'
      BY <1>2, <3>1 DEF Undead, NotOperator, tries, Elsewhere, InQueue
    <3>. QED BY <1>2, <3>2, AsideSafe DEF Undead, NotOperator
  <2>. QED BY <2>1, <2>2
<1>3. ASSUME NEW o \in Outcome, Renew(o) PROVE Safe(t)'
  <2>1. Carried(t) => Carried(t)'
    BY <1>1, <1>3 DEF Renew, NotOperator, Carried, Ask
  <2>2. t = operator.task => Carried(t)'
    BY <1>1, <1>3 DEF Renew, Carried, Ask
  <2>3. Elsewhere(t) => Elsewhere(t)'
    BY <1>3, <2>1, <2>2 DEF Renew, NotOperator, Elsewhere, InQueue
  <2>. QED BY <1>3, <2>3, AsideSafe DEF Renew, NotOperator
<1>4. ASSUME NEW o \in Outcome, Requeue(o) PROVE Safe(t)'
  <2>1. operator.task \in Task /\ queue \in Seq(Task)
    BY <1>4 DEF Requeue, Typed, ThreadsTyped, ListsTyped
  <2>2. CASE Done(o)
    <3>1. PICK u \in Task : u = operator.task
      BY <2>1
    <3>2. queue' = <<u>> \o queue
      BY <1>4, <2>2, <3>1 DEF Requeue
    <3>3. InQueue(u)' /\ (InQueue(t) => InQueue(t)')
      BY <2>1, <3>2, QueuePut
    <3>4. Carried(t) => Carried(t)' \/ InQueue(t)'
      BY <1>4, <3>1, <3>3 DEF Requeue, NotOperator, Carried
    <3>5. Elsewhere(t) => Elsewhere(t)'
      BY <1>4, <3>3, <3>4 DEF Requeue, NotOperator, tries, Elsewhere
    <3>. QED BY <1>4, <3>5, AsideSafe DEF Requeue, NotOperator
  <2>3. CASE ~Done(o)
    <3>1. queue' = queue /\ operator.task \in mislaid'
      BY <1>4, <2>3 DEF Requeue, Meets
    <3>2. Carried(t) => Carried(t)' \/ t \in mislaid'
      BY <1>4, <3>1 DEF Requeue, NotOperator, Carried
    <3>3. Elsewhere(t) => Elsewhere(t)' \/ t \in mislaid'
      BY <1>4, <3>1, <3>2 DEF Requeue, NotOperator, tries, Elsewhere, InQueue
    <3>. QED BY <1>4, <3>3, AsideSafe DEF Requeue, NotOperator
  <2>. QED BY <2>2, <2>3
<1>5. ASSUME ClearDead PROVE Safe(t)'
  <2>1. dead[t] > 0 => t \in mislaid'
    BY <1>5 DEF ClearDead
  <2>2. Elsewhere(t) => Elsewhere(t)' \/ t \in mislaid'
    BY <1>5, <2>1 DEF ClearDead, NotOperator, tries, Elsewhere, InQueue, Carried
  <2>. QED BY <1>5, <2>2, AsideSafe DEF ClearDead, NotOperator
<1>6. ASSUME NEW p \in Process, NEW u \in Task, AskRequeue(p, u) PROVE Safe(t)'
  <2>1. Carried(t) => Carried(t)'
    BY <1>1, <1>6 DEF AskRequeue, NoRequest, NotOperator, Carried
  <2>2. Elsewhere(t) => Elsewhere(t)'
    BY <1>6, <2>1 DEF AskRequeue, NotOperator, history, tries, Elsewhere, InQueue
  <2>. QED BY <1>6, <2>2, AsideSafe DEF AskRequeue, NotOperator
<1>7. ASSUME NEW u \in Task, Expire(u) PROVE Safe(t)'
  <2>1. Elsewhere(t) => Elsewhere(t)'
    BY <1>7 DEF Expire, lists, threads, tries, Elsewhere, InQueue, Carried
  <2>. QED BY <1>7, <2>1, AsideSafe DEF Expire, lists, threads
<1>. QED BY <1>2, <1>3, <1>4, <1>5, <1>6, <1>7 DEF OperatorStep

LEMMA CrashSafe ==
  ASSUME Typed, Typed', NEW t \in Task, Safe(t), mislaid \subseteq mislaid', NEW p \in Process,
         Crash(p)
  PROVE  Safe(t)'
<1>1. Becomes(p, "idle", worker[p].task) /\ janitor \in [Process -> Batch]
  BY Rests DEF Crash, Typed, ThreadsTyped
<1>2. worker'[p].pc = "idle" /\ \A q \in Process \ {p} : worker'[q] = worker[q]
  BY <1>1 DEF Becomes
<1>3. Held(t)' \subseteq Held(t)
  BY <1>2 DEF Held
<1>4. Leaving(t)' \subseteq Leaving(t)
  BY <1>2, <1>3 DEF Held, Leaving
<1>5. Carried(t) => Carried(t)' \/ t \in mislaid'
  <2>1. CASE operator.task = t /\ operator.pc \in {"renew", "requeue"}
    BY <2>1 DEF Crash, Carried, OutOfLists, Served
  <2>2. ASSUME NEW q \in Process, t \in janitor[q].held, janitor[q].found
        PROVE  Carried(t)' \/ t \in mislaid'
    BY <1>1, <2>2 DEF Crash, Carried, OutOfLists
  <2>. QED BY <2>1, <2>2 DEF Carried
<1>6. t \in memory => t \in memory' \/ t \in mislaid' \/ Waits(t)
  BY DEF Crash, InMemory, OutOfLists
<1>7. Elsewhere(t) => Elsewhere(t)' \/ t \in mislaid'
  BY <1>5, <1>6 DEF Crash, lists, tries, Elsewhere, InQueue, Waits
<1>8. processing' = processing /\ (producer'[t] = "yes" => producer[t] = "yes")
  BY DEF Crash, lists
<1>9. processing[t] <= processing'[t]
  BY <1>8 DEF Typed, ListsTyped
<1>. QED BY <1>3, <1>4, <1>7, <1>8, <1>9, SafeStays

\* worker p has finished with t and taken its entry out of processing
LEMMA SafeReleased ==
  ASSUME Typed, Typed', NEW t \in Task, Safe(t), NEW p \in Process,
         worker[p].pc # "idle", worker[p].task = t, Becomes(p, "idle", t),
         processing'[t] = IF processing[t] = 0 THEN 0 ELSE processing[t] - 1,
         UNCHANGED producer, mislaid \subseteq mislaid',
         Elsewhere(t) => Elsewhere(t)' \/ t \in mislaid',
         worker[p].pc = "remove" \/ t \in mislaid'
  PROVE  Safe(t)'
<1>1. Held(t)' = Held(t) \ {p} /\ Leaving(t)' = Leaving(t) \ {p} /\ p \in Held(t)
  BY HeldMoves DEF Held
<1>2. /\ processing[t] \in Nat /\ IsFiniteSet(Held(t)) /\ IsFiniteSet(Leaving(t))
      /\ Cardinality(Held(t)) \in Nat /\ Cardinality(Leaving(t)) \in Nat
  BY Counts DEF Typed, ListsTyped
<1>3. Cardinality(Held(t)') = Cardinality(Held(t)) - 1 /\ Cardinality(Held(t)') \in Nat
  <2>1. Cardinality(Held(t) \ {p}) = Cardinality(Held(t)) - 1 /\ Cardinality(Held(t) \ {p}) \in Nat
    BY <1>1, <1>2, FS_RemoveElement, FS_CardinalityType
  <2>. QED BY <1>1, <2>1
<1>4. Cardinality(Held(t)) >= 1 /\ processing[t] >= 1
  BY <1>2, <1>3 DEF Safe, Covered
<1>5. Covered(t)'
  BY <1>2, <1>3, <1>4 DEF Safe, Covered
<1>6. CASE t \in mislaid'
  BY <1>5, <1>6 DEF Safe, Secure
<1>7. CASE worker[p].pc = "remove"
  <2>1. p \in Leaving(t)
    BY <1>1, <1>7 DEF Leaving
  <2>2. Cardinality(Leaving(t)') = Cardinality(Leaving(t)) - 1
    <3>1. Cardinality(Leaving(t) \ {p}) = Cardinality(Leaving(t)) - 1
      BY <1>2, <2>1, FS_RemoveElement
    <3>. QED BY <1>1, <3>1
  <2>3. Cardinality(Leaving(t)) < processing[t] => Cardinality(Leaving(t)') < processing'[t]
    BY <1>2, <1>4, <2>2
  <2>. QED BY <1>5, <2>3 DEF Safe, Secure
<1>. QED BY <1>6, <1>7

\* worker p has taken t from the queue
LEMMA SafeClaimed ==
  ASSUME Typed, Typed', NEW t \in Task, Safe(t), NEW p \in Process,
         worker[p].pc = "idle", Becomes(p, "load", t),
         processing'[t] = processing[t] + 1
  PROVE  Safe(t)'
<1>1. Held(t)' = Held(t) \cup {p} /\ Leaving(t)' = Leaving(t) \ {p}
      /\ p \notin Held(t) /\ p \notin Leaving(t)
  BY HeldMoves DEF Held, Leaving
<1>2. /\ processing[t] \in Nat /\ IsFiniteSet(Held(t))
      /\ Cardinality(Held(t)) \in Nat /\ Cardinality(Leaving(t)) \in Nat
      /\ Cardinality(Leaving(t)) <= Cardinality(Held(t))
  BY Counts DEF Typed, ListsTyped
<1>3. Leaving(t)' = Leaving(t)
  BY <1>1
<1>4. Cardinality(Held(t)') = Cardinality(Held(t)) + 1
  <2>1. Cardinality(Held(t) \cup {p}) = Cardinality(Held(t)) + 1
    BY <1>1, <1>2, FS_AddElement
  <2>. QED BY <1>1, <2>1
<1>5. Cardinality(Leaving(t)') < processing'[t]
  BY <1>2, <1>3 DEF Safe, Covered
<1>. QED BY <1>2, <1>4, <1>5 DEF Safe, Covered, Secure

\* worker p goes on with its task, which keeps its entry
LEMMA SafeGoesOn ==
  ASSUME Typed, Typed', NEW t \in Task, Safe(t), mislaid \subseteq mislaid', NEW p \in Process,
         NEW pc, worker[p].pc # "idle", Becomes(p, pc, worker[p].task),
         UNCHANGED <<processing, producer>>,
         Elsewhere(t) => Elsewhere(t)' \/ t \in mislaid',
         \/ pc \notin {"success", "remove"} \/ worker[p].pc \in {"success", "remove"}
         \/ worker[p].task # t \/ Elsewhere(t)' \/ t \in mislaid'
  PROVE  Safe(t)'
<1>1. Held(t)' \subseteq Held(t) /\ processing[t] <= processing'[t]
  <2>1. Held(t)' \subseteq Held(t)
    BY DEF Becomes, Held
  <2>2. processing' = processing /\ processing[t] \in Nat
    BY DEF Typed, ListsTyped
  <2>. QED BY <2>1, <2>2
<1>2. CASE Elsewhere(t)' \/ t \in mislaid'
  BY <1>1, <1>2, SafeElsewhere
<1>3. CASE \/ pc \notin {"success", "remove"} \/ worker[p].pc \in {"success", "remove"}
           \/ worker[p].task # t
  <2>1. Leaving(t)' \subseteq Leaving(t)
    BY <1>3 DEF Becomes, Held, Leaving
  <2>. QED BY <1>1, <2>1, SafeStays
<1>. QED BY <1>2, <1>3

\* a step of worker p on another task
LEMMA SafeOther ==
  ASSUME Typed, Typed', NEW t \in Task, Safe(t), mislaid \subseteq mislaid', NEW p \in Process,
         NEW pc, NEW u, u # t, worker[p].pc # "idle" => worker[p].task = u, Becomes(p, pc, u),
         processing'[t] = processing[t], UNCHANGED producer,
         Elsewhere(t) => Elsewhere(t)' \/ t \in mislaid'
  PROVE  Safe(t)'
<1>1. Held(t)' = Held(t) /\ Leaving(t)' = Leaving(t)
  BY HeldMoves
<1>2. processing[t] <= processing'[t]
  BY DEF Typed, ListsTyped
<1>. QED BY <1>1, <1>2, SafeStays

LEMMA ClaimSafe ==
  ASSUME Typed, Typed', NEW t \in Task, Safe(t), mislaid \subseteq mislaid', NEW p \in Process,
         NEW o \in Outcome, Claim(p, o)
  PROVE  Safe(t)'
<1>1. PICK u \in Task : u = Last(queue)
  BY ClaimWork
<1>2. queue \in Seq(Task) /\ queue # <<>> /\ processing \in [Task -> Nat]
  BY DEF Typed, ListsTyped, Claim
<1>3. t # u /\ InQueue(t) => InQueue(t)'
  <2>1. CASE Done(o)
    BY <1>1, <1>2, <2>1, QueueTake DEF Claim
  <2>2. CASE ~Done(o)
    BY <2>2 DEF Claim, InQueue
  <2>. QED BY <2>1, <2>2
<1>4. t # u => (Elsewhere(t) => Elsewhere(t)')
  BY <1>3 DEF Claim, Others, tries, Elsewhere, Carried
<1>5. processing' = IF Done(o) THEN More(processing, u) ELSE processing
  BY <1>1 DEF Claim
<1>6. CASE o = "ok"
  <2>1. worker[p].pc = "idle" /\ Becomes(p, "load", u)
    BY <1>1, <1>6, ClaimWork
  <2>2. CASE t = u
    <3>1. processing'[t] = processing[t] + 1
      BY <1>2, <1>5, <1>6, <2>2 DEF More, Done
    <3>. QED BY <2>1, <2>2, <3>1, SafeClaimed
  <2>3. CASE t # u
    <3>1. processing'[t] = processing[t]
      BY <1>2, <1>5, <2>3 DEF More
    <3>2. UNCHANGED producer
      BY DEF Claim, Others
    <3>. QED BY <1>4, <2>1, <2>3, <3>1, <3>2, SafeOther
  <2>. QED BY <2>2, <2>3
<1>7. CASE o # "ok"
  <2>1. UNCHANGED <<worker, producer>>
    BY <1>7, ClaimWork DEF Claim, Others
  <2>2. Held(t)' = Held(t) /\ Leaving(t)' = Leaving(t)
    BY <2>1 DEF Held, Leaving
  <2>3. processing[t] <= processing'[t] /\ (t = u /\ Done(o) => processing[t] < processing'[t])
    BY <1>2, <1>5 DEF More
  <2>4. CASE t = u /\ Done(o)
    <3>1. /\ Cardinality(Held(t)) \in Nat /\ Cardinality(Leaving(t)) \in Nat
          /\ Cardinality(Leaving(t)) <= Cardinality(Held(t))
          /\ processing[t] \in Nat /\ processing'[t] \in Nat
      BY Counts DEF Typed, ListsTyped
    <3>. QED BY <2>2, <2>3, <2>4, <3>1 DEF Safe, Covered, Secure
  <2>5. CASE t # u \/ ~Done(o)
    <3>1. Elsewhere(t) => Elsewhere(t)'
      BY <1>4, <2>5 DEF Claim, Others, tries, Elsewhere, Carried, InQueue
    <3>. QED BY <2>1, <2>2, <2>3, <3>1, SafeStays
  <2>. QED BY <2>4, <2>5
<1>. QED BY <1>6, <1>7

LEMMA GoingOnSafe ==
  ASSUME Typed, Typed', NEW t \in Task, Safe(t), mislaid \subseteq mislaid', NEW p \in Process,
         NEW o \in Outcome, Load(p, o) \/ Mark(p, o) \/ Update(p, o)
  PROVE  Safe(t)'
<1>1. UNCHANGED <<processing, producer>> /\ worker[p].pc # "idle"
  BY DEF Load, Mark, Update, lists, Others, WorkerAt
<1>2. Elsewhere(t) => Elsewhere(t)'
  BY DEF Load, Mark, Update, lists, Others, tries, Elsewhere, InQueue, Carried
<1>3. \E pc : /\ Becomes(p, pc, worker[p].task)
              /\ pc \notin {"success", "remove"} \/ worker[p].pc \in {"success", "remove"}
  <2>1. CASE Load(p, o)
    BY <2>1, LoadWork
  <2>2. CASE Mark(p, o)
    BY <2>2, MarkWork
  <2>3. CASE Update(p, o)
    BY <2>3, UpdateWork
  <2>. QED BY <2>1, <2>2, <2>3
<1>. QED BY <1>1, <1>2, <1>3, SafeGoesOn

LEMMA HandlerSafe ==
  ASSUME Typed, Typed', NEW t \in Task, Safe(t), mislaid \subseteq mislaid', NEW p \in Process,
         HandlerReturns(p)
  PROVE  Safe(t)'
<1>1. UNCHANGED <<processing, producer>> /\ worker[p].pc # "idle"
  BY DEF HandlerReturns, lists, Others, WorkerAt
<1>2. Elsewhere(t) => Elsewhere(t)'
  BY DEF HandlerReturns, lists, Others, tries, Elsewhere, InQueue, Carried
<1>3. \E pc : /\ Becomes(p, pc, worker[p].task)
              /\ pc \notin {"success", "remove"} \/ worker[p].task # t \/ Elsewhere(t)'
  BY HandlerWork DEF Elsewhere
<1>. QED BY <1>1, <1>2, <1>3, SafeGoesOn

LEMMA ListingSafe ==
  ASSUME Typed, Typed', NEW t \in Task, Safe(t), mislaid \subseteq mislaid', NEW p \in Process,
         NEW o \in Outcome, Schedule(p, o) \/ DeadLetter(p, o)
  PROVE  Safe(t)'
<1>1. UNCHANGED <<processing, producer>> /\ worker[p].pc # "idle"
  BY DEF Schedule, DeadLetter, Others, WorkerAt
<1>2. dead \in [Task -> Nat]
  BY DEF Typed, ListsTyped
<1>3. Elsewhere(t) => Elsewhere(t)'
  BY <1>2 DEF Schedule, DeadLetter, More, Others, tries, Elsewhere, InQueue, Carried
<1>4. worker[p].task = t => Elsewhere(t)' \/ t \in mislaid'
  BY <1>2 DEF Schedule, DeadLetter, More, Elsewhere, Meets
<1>. QED BY <1>1, <1>3, <1>4, ListingWork, SafeGoesOn

LEMMA ReleasingSafe ==
  ASSUME Typed, Typed', NEW t \in Task, Safe(t), mislaid \subseteq mislaid', NEW p \in Process,
         NEW o \in Outcome, Orphan(p, o) \/ Release(p, o)
  PROVE  Safe(t)'
<1>1. PICK u \in Task : u = worker[p].task
  BY RestingWork
<1>2. worker[p].pc # "idle" /\ UNCHANGED producer /\ processing \in [Task -> Nat]
  BY DEF Orphan, Release, Others, WorkerAt, Typed, ListsTyped
<1>3. Becomes(p, "idle", u)
  BY <1>1, RestingWork
<1>4. Elsewhere(t) => Elsewhere(t)'
  BY DEF Orphan, Release, Others, tries, Elsewhere, InQueue, Carried
<1>5. processing' = IF Done(o) THEN Less(processing, u) ELSE processing
  BY <1>1 DEF Orphan, Release
<1>6. CASE ~Done(o)
  <2>1. processing' = processing
    BY <1>5, <1>6
  <2>. QED BY <1>1, <1>2, <1>3, <1>4, <2>1, SafeGoesOn
<1>7. CASE Done(o) /\ u = t
  <2>1. processing'[t] = IF processing[t] = 0 THEN 0 ELSE processing[t] - 1
    BY <1>2, <1>5, <1>7 DEF Less
  <2>2. worker[p].pc = "remove" \/ t \in mislaid'
    BY <1>1, <1>7 DEF Orphan, Release, WorkerAt, Meets
  <2>. QED BY <1>1, <1>2, <1>3, <1>4, <1>7, <2>1, <2>2, SafeReleased
<1>8. CASE u # t
  <2>1. processing'[t] = processing[t]
    BY <1>2, <1>5, <1>8 DEF Less
  <2>. QED BY <1>1, <1>2, <1>3, <1>4, <1>8, <2>1, SafeOther
<1>. QED BY <1>6, <1>7, <1>8

LEMMA SafeStep ==
  ASSUME Typed, Typed', Next, NEW t \in Task, Safe(t)
  PROVE  Safe(t)'
<1>1. mislaid \subseteq mislaid'
  BY MislaidGrows
<1>2. ASSUME NEW p \in Process, WorkerStep(p) PROVE Safe(t)'
  BY <1>1, <1>2, ClaimSafe, GoingOnSafe, HandlerSafe, ListingSafe, ReleasingSafe DEF WorkerStep
<1>. QED BY <1>1, <1>2, EnqueueSafe, JanitorSafe, OperatorSafe, CrashSafe DEF Next

LEMMA SafeInit ==
  ASSUME Init, NEW t \in Task
  PROVE  Safe(t)
<1>1. Held(t) = {} /\ Cardinality(Held(t)) = 0
  <2>1. Held(t) = {}
    BY IdleOK DEF Init, Held
  <2>. QED BY <2>1, FS_EmptySet
<1>. QED BY <1>1 DEF Init, Safe, Covered, Secure

LEMMA SafeStutter ==
  ASSUME Typed, Typed', UNCHANGED vars, NEW t \in Task, Safe(t)
  PROVE  Safe(t)'
<1>1. UNCHANGED <<worker, processing, producer, mislaid>>
  BY DEF vars, lists, threads, history
<1>2. Elsewhere(t) => Elsewhere(t)'
  BY DEF vars, lists, threads, history, tries, Elsewhere, InQueue, Carried
<1>. QED BY <1>1, <1>2, AsideSafe

(* A task that was accepted and is not done is in one of the lists, in the  *)
(* memory of the process it was given to, or just being moved, unless it    *)
(* was mislaid: see NothingVanishes for how it can be.  Behind it           *)
(* is the balance of processing: every worker that has a task has its own   *)
(* entry there, and there is one entry more than workers about to take one  *)
(* out, unless the task is in another place already.  So when several       *)
(* workers have the same task, none takes out the entry that another needs. *)
THEOREM NothingIsLost == Spec => []NothingVanishes
<1>. DEFINE IInv == Typed /\ \A t \in Task : Safe(t)
<1>1. Init => IInv
  BY TypedInit, SafeInit
<1>2. IInv /\ [Next]_vars => IInv'
  <2>1. IInv /\ [Next]_vars => Typed'
    BY TypedStep, TypedStutter
  <2>2. ASSUME IInv, [Next]_vars, Typed', NEW t \in Task PROVE Safe(t)'
    BY <2>2, SafeStep, SafeStutter
  <2>. QED BY <2>1, <2>2
<1>3. IInv => NothingVanishes
  <2>1. ASSUME IInv, NEW t \in Task \ mislaid, producer[t] = "yes", ~Elsewhere(t)
        PROVE  processing[t] > 0
    BY <2>1, Counts DEF Safe, Secure, Typed, ListsTyped
  <2>. QED BY <2>1 DEF NothingVanishes, Elsewhere, Carried, BeingMoved, Waits
<1>. HIDE DEF IInv
<1>. QED BY <1>1, <1>2, <1>3, PTL DEF Spec

-----------------------------------------------------------------------------
(* The course of a task that met nothing: where it is, and what is known of *)
(* it there.                                                                *)

\* worker p has t and has not just to take it out of processing
Works(p, t) == worker[p].task = t /\ worker[p].pc \notin {"idle", "remove"}
\* janitor p has taken t out of the retries
Carries(p, t) == t \in janitor[p].held /\ janitor[p].found
\* the operator has taken t off the dead letters
Revives(t, pc) == operator.task = t /\ operator.pc = pc
OnceQueued(t) == \A i, j \in DOMAIN queue : queue[i] = t /\ queue[j] = t => i = j

Pending(t) == [status |-> "pending", retries |-> runs[t]]

\* where a task can be
There(t, place) ==
  \/ place = "producer" /\ producer[t] # "yes"
  \/ place = "queue" /\ InQueue(t)
  \/ place = "worker" /\ \E p \in Process : Works(p, t)
  \/ place = "retry" /\ t \in retry
  \/ place = "janitor" /\ \E p \in Process : Carries(p, t)
  \/ place = "dead" /\ dead[t] > 0
  \/ place = "operator" /\ operator.task = t /\ operator.pc \in {"renew", "requeue"}

\* ... and it is in one of them at most, once
InOnePlace(t) ==
  /\ \A x, y : There(t, x) /\ There(t, y) => x = y
  /\ OnceQueued(t) /\ dead[t] <= 1
  /\ \A p, q \in Process : Works(p, t) /\ Works(q, t) => p = q
  /\ \A p, q \in Process : Carries(p, t) /\ Carries(q, t) => p = q

\* what worker p knows of t, and what is stored of it meanwhile
WorkKnown(p, t) ==
  LET w == worker[p] IN
  /\ w.pc # "orphan"
  /\ w.pc \in {"load", "mark", "schedule"} => data[t] = Pending(t)
  /\ w.pc \in {"handle", "success", "again", "bury"} => data[t].status = "processing"
  /\ w.pc = "letter" => data[t].status = "dead"
  /\ w.pc \in {"mark", "again", "bury"} => w.retries = runs[t]
  /\ w.pc = "again" => runs[t] < MaxRetries
  /\ w.pc = "bury" => runs[t] >= MaxRetries
  /\ w.pc = "handle" => w.retries + 1 = runs[t]

RowKnown(t) ==
  /\ producer[t] # "yes" => runs[t] = 0
  /\ producer[t] = "push" => data[t] = Pending(t)
  /\ InQueue(t) \/ t \in retry \/ (\E p \in Process : Carries(p, t)) \/ Revives(t, "requeue")
       => data[t] = Pending(t)
  /\ dead[t] > 0 \/ Revives(t, "renew") => data[t].status = "dead"
  /\ \A p \in Process : Works(p, t) => WorkKnown(p, t)

OnItsWay(t) == InOnePlace(t) /\ RowKnown(t)

-----------------------------------------------------------------------------
(* What a step does to one task.                                            *)

SameRow(t) == producer'[t] = producer[t] /\ data'[t] = data[t] /\ runs'[t] = runs[t]
SameQueue(t) == (InQueue(t)' <=> InQueue(t)) /\ (OnceQueued(t) => OnceQueued(t)')
SameLists(t) == SameQueue(t) /\ (t \in retry' <=> t \in retry) /\ dead'[t] = dead[t]
SameWorker(p, t) == (Works(p, t)' <=> Works(p, t)) /\ (Works(p, t) => worker'[p] = worker[p])
SameWorkers(t) == \A p \in Process : SameWorker(p, t)
SameJanitors(t) == \A p \in Process : Carries(p, t)' <=> Carries(p, t)
SameOperator(t) == \A pc \in {"renew", "requeue"} : Revives(t, pc)' <=> Revives(t, pc)

Untouched(t) == SameRow(t) /\ SameLists(t) /\ SameWorkers(t) /\ SameJanitors(t) /\ SameOperator(t)

\* t is put into the queue
Queued(t) ==
  /\ InQueue(t)' /\ (~InQueue(t) => OnceQueued(t)')
  /\ (t \in retry' <=> t \in retry) /\ dead'[t] = dead[t]

Stored(t) ==
  /\ producer[t] = "no" /\ producer'[t] = "push"
  /\ data'[t] = [status |-> "pending", retries |-> 0] /\ runs'[t] = runs[t]
  /\ SameLists(t) /\ SameWorkers(t) /\ SameJanitors(t) /\ SameOperator(t)

Pushed(t) ==
  /\ producer[t] = "push" /\ producer'[t] = "yes" /\ data'[t] = data[t] /\ runs'[t] = runs[t]
  /\ Queued(t) /\ SameWorkers(t) /\ SameJanitors(t) /\ SameOperator(t)

Claimed(p, t) ==
  /\ InQueue(t) /\ (OnceQueued(t) => ~InQueue(t)' /\ OnceQueued(t)')
  /\ (t \in retry' <=> t \in retry) /\ dead'[t] = dead[t]
  /\ ~Works(p, t) /\ Works(p, t)' /\ worker'[p].pc = "load"
  /\ \A q \in Process \ {p} : SameWorker(q, t)
  /\ SameRow(t) /\ SameJanitors(t) /\ SameOperator(t)

\* worker p goes on with t
WentOn(p, t) ==
  LET w == worker[p]
      x == worker'[p] IN
  /\ producer'[t] = producer[t] /\ Works(p, t)
  /\ (Works(p, t)' <=> x.pc # "remove") /\ (x.pc = "remove" <=> w.pc \in {"success", "schedule", "letter"})
  /\ \A q \in Process \ {p} : SameWorker(q, t)
  /\ SameJanitors(t) /\ SameOperator(t)
  /\ w.pc \notin {"schedule", "letter"} => SameLists(t)
  /\ \/ /\ w.pc = "load" /\ SameRow(t)
        /\ x.pc = (IF data[t] = None THEN "orphan" ELSE "mark") /\ x.retries = data[t].retries
     \/ /\ w.pc = "mark" /\ x.pc = "handle" /\ x.retries = w.retries
        /\ data'[t] = [status |-> "processing", retries |-> w.retries] /\ runs'[t] = runs[t] + 1
     \/ /\ w.pc = "handle" /\ SameRow(t)
        /\ x.pc = "success" \/ (x.pc = Failed(w.retries) /\ x.retries = w.retries + 1)
     \/ /\ w.pc \in {"success", "again", "bury"} /\ x.pc = AfterStatus(w.pc) /\ x.retries = w.retries
        /\ data'[t] = [status |-> StatusAt(w.pc), retries |-> w.retries] /\ runs'[t] = runs[t]
     \/ /\ w.pc = "schedule" /\ SameRow(t) /\ SameQueue(t) /\ t \in retry' /\ dead'[t] = dead[t]
     \/ /\ w.pc = "letter" /\ SameRow(t) /\ SameQueue(t) /\ (t \in retry' <=> t \in retry)
        /\ dead'[t] = dead[t] + 1

Taken(p, t) ==
  /\ t \in retry /\ t \notin retry' /\ SameQueue(t) /\ dead'[t] = dead[t]
  /\ ~Carries(p, t) /\ Carries(p, t)'
  /\ \A q \in Process \ {p} : Carries(q, t)' <=> Carries(q, t)
  /\ SameRow(t) /\ SameWorkers(t) /\ SameOperator(t)

PutDown(p, t) ==
  /\ Carries(p, t) /\ ~Carries(p, t)'
  /\ \A q \in Process \ {p} : Carries(q, t)' <=> Carries(q, t)
  /\ Queued(t) /\ SameRow(t) /\ SameWorkers(t) /\ SameOperator(t)

TakenOffDead(t) ==
  /\ dead[t] > 0 /\ dead'[t] = dead[t] - 1 /\ SameQueue(t) /\ (t \in retry' <=> t \in retry)
  /\ Revives(t, "renew")' /\ ~Revives(t, "requeue")'
  /\ SameRow(t) /\ SameWorkers(t) /\ SameJanitors(t)

Renewed(t) ==
  /\ Revives(t, "renew") /\ Revives(t, "requeue")' /\ ~Revives(t, "renew")'
  /\ producer'[t] = producer[t] /\ runs'[t] = 0
  /\ data'[t] = [status |-> "pending", retries |-> 0]
  /\ SameLists(t) /\ SameWorkers(t) /\ SameJanitors(t)

Requeued(t) ==
  /\ Revives(t, "requeue") /\ ~Revives(t, "requeue")' /\ ~Revives(t, "renew")'
  /\ Queued(t) /\ SameRow(t) /\ SameWorkers(t) /\ SameJanitors(t)

Goes(t) ==
  \/ Stored(t) \/ Pushed(t) \/ TakenOffDead(t) \/ Renewed(t) \/ Requeued(t)
  \/ \E p \in Process : Claimed(p, t) \/ WentOn(p, t) \/ Taken(p, t) \/ PutDown(p, t)

\* a step concerns task t only, which goes on undisturbed or has met something
Concerns(t) ==
  /\ \A u \in Task \ {t} : Untouched(u)
  /\ t \in met' \/ (met' = met /\ (Untouched(t) \/ Goes(t)))

-----------------------------------------------------------------------------
(* Every step concerns one task, or none but those that have met something. *)

\* in a longer queue the others are where they were
LEMMA QueuedAtHead ==
  ASSUME queue \in Seq(Task), NEW t \in Task, queue' = <<t>> \o queue
  PROVE  /\ InQueue(t)' /\ (~InQueue(t) => OnceQueued(t)')
         /\ \A u \in Task \ {t} : SameQueue(u)
<1>1. queue' \in Seq(Task) /\ InQueue(t)' /\ \A u : InQueue(u) => InQueue(u)'
  BY QueuePut
<1>2. /\ Len(queue) \in Nat /\ DOMAIN queue = 1 .. Len(queue)
      /\ DOMAIN queue' = 1 .. Len(queue) + 1
      /\ queue'[1] = t /\ \A i \in 2 .. Len(queue) + 1 : queue'[i] = queue[i - 1]
  <2>1. <<t>> \in Seq(Task) /\ Len(<<t>>) = 1 /\ <<t>>[1] = t
    OBVIOUS
  <2>. DEFINE one == <<t>>
  <2>. HIDE DEF one
  <2>2. one \in Seq(Task) /\ Len(one) = 1 /\ one[1] = t /\ queue' = one \o queue
    BY <2>1 DEF one
  <2>3. Len(queue) \in Nat /\ DOMAIN queue = 1 .. Len(queue)
    BY LenProperties
  <2>4. /\ Len(one \o queue) = Len(one) + Len(queue)
        /\ \A i \in 1 .. Len(one) + Len(queue) :
             (one \o queue)[i] = IF i <= Len(one) THEN one[i] ELSE queue[i - Len(one)]
    BY <2>2, ConcatProperties, Zenon
  <2>5. DOMAIN queue' = 1 .. Len(queue) + 1
    BY <1>1, <2>2, <2>3, <2>4, LenProperties
  <2>. QED BY <2>2, <2>3, <2>4, <2>5
<1>3. ~InQueue(t) => OnceQueued(t)'
  <2>1. ASSUME ~InQueue(t), NEW i \in DOMAIN queue', queue'[i] = t PROVE i = 1
    <3>1. i # 1 => i - 1 \in DOMAIN queue /\ queue[i - 1] = t
      BY <1>2, <2>1
    <3>. QED BY <2>1, <3>1 DEF InQueue
  <2>. QED BY <2>1 DEF OnceQueued
<1>4. ASSUME NEW u \in Task \ {t} PROVE SameQueue(u)
  <2>1. ASSUME NEW i \in DOMAIN queue', queue'[i] = u
        PROVE  i - 1 \in DOMAIN queue /\ queue[i - 1] = u /\ i \in Int
    BY <1>2, <2>1
  <2>2. InQueue(u)' => InQueue(u)
    BY <2>1 DEF InQueue
  <2>3. OnceQueued(u) => OnceQueued(u)'
    <3>. SUFFICES ASSUME OnceQueued(u), NEW i \in DOMAIN queue', NEW j \in DOMAIN queue',
                         queue'[i] = u, queue'[j] = u
                  PROVE  i = j
      BY DEF OnceQueued
    <3>1. i - 1 = j - 1 /\ i \in Int /\ j \in Int
      BY <2>1 DEF OnceQueued
    <3>. QED BY <3>1
  <2>. QED BY <1>1, <2>2, <2>3 DEF SameQueue
<1>. QED BY <1>1, <1>3, <1>4

\* in a shorter one too, and the one that was taken is no longer in it
LEMMA TakenFromEnd ==
  ASSUME queue \in Seq(Task), queue # <<>>, queue' = Front(queue), NEW t, t = Last(queue)
  PROVE  /\ t \in Task /\ InQueue(t)
         /\ OnceQueued(t) => ~InQueue(t)' /\ OnceQueued(t)'
         /\ \A u \in Task \ {t} : SameQueue(u)
<1>. DEFINE n == Len(queue)
<1>1. n \in Nat \ {0} /\ DOMAIN queue = 1 .. n
  BY LenProperties, EmptySeq
<1>2. t = queue[n] /\ t \in Task /\ n \in DOMAIN queue
  BY <1>1, ElementOfSeq DEF Last
<1>3. n - 1 \in Nat /\ n - 1 <= n /\ 1 <= n
  BY <1>1
<1>. HIDE DEF n
<1>4. Front(queue) = SubSeq(queue, 1, n - 1)
  BY DEF Front, n
<1>5. queue' \in Seq(Task) /\ Len(queue') = n - 1 /\ \A i \in 1 .. n - 1 : queue'[i] = queue[i]
  BY <1>1, <1>3, <1>4, SubSeqProperties DEF n
<1>6. DOMAIN queue' = 1 .. n - 1
  BY <1>5, LenProperties
<1>7. \A i \in DOMAIN queue' : i \in DOMAIN queue /\ i # n /\ queue'[i] = queue[i]
  BY <1>1, <1>5, <1>6
<1>8. OnceQueued(t) => ~InQueue(t)' /\ OnceQueued(t)'
  BY <1>2, <1>7 DEF OnceQueued, InQueue
<1>9. ASSUME NEW u \in Task \ {t} PROVE SameQueue(u)
  <2>1. \A i \in DOMAIN queue : queue[i] = u => i \in DOMAIN queue'
    BY <1>1, <1>2, <1>6
  <2>. QED BY <1>7, <2>1 DEF SameQueue, OnceQueued, InQueue
<1>. QED BY <1>2, <1>8, <1>9 DEF InQueue

LEMMA Meeting ==
  ASSUME NEW t, NEW o \in Outcome, NEW ts, NEW ms, Meets(t, o, ts, ms)
  PROVE  /\ o # "ok" => t \in met'
         /\ o = "ok" => met' = met \cup ts \cup ms
         /\ o = "ok" <=> Seen(o)
         /\ o = "ok" => Done(o)
BY DEF Meets, Seen, Done

LEMMA OthersWork ==
  ASSUME NEW p \in Process, NEW pc, NEW t, Becomes(p, pc, t),
         worker[p].pc # "idle" => worker[p].task = t
  PROVE  /\ \A u : u # t => SameWorkers(u)
         /\ \A q \in Process \ {p} : SameWorker(q, t)
         /\ Works(p, t)' <=> pc \notin {"idle", "remove"}
         /\ worker'[p].pc = pc
BY DEF Becomes, Works, SameWorker, SameWorkers

LEMMA StoreCourse ==
  ASSUME Typed, NEW t \in Task, NEW o \in Outcome, Store(t, o)
  PROVE  Concerns(t)
<1>1. /\ producer \in [Task -> {"no", "push", "yes", "cut"}] /\ data \in [Task -> Row]
      /\ runs \in [Task -> Nat]
  BY DEF Typed, ListsTyped, HistoryTyped
<1>2. UNCHANGED <<queue, retry, dead, worker, janitor, operator, runs>>
  BY DEF Store, lists, tries
<1>3. ASSUME NEW u \in Task
      PROVE  SameLists(u) /\ SameWorkers(u) /\ SameJanitors(u) /\ SameOperator(u)
  BY <1>2 DEF SameLists, SameQueue, InQueue, OnceQueued, SameWorkers, SameWorker, Works,
              SameJanitors, Carries, SameOperator, Revives
<1>4. \A u \in Task \ {t} : producer'[u] = producer[u] /\ data'[u] = data[u]
  BY <1>1 DEF Store, SetIf, Set
<1>5. CASE o = "ok"
  <2>1. /\ producer[t] = "no" /\ producer'[t] = "push"
        /\ data'[t] = [status |-> "pending", retries |-> 0]
    BY <1>1, <1>5 DEF Store, SetIf, Set, Done, Seen
  <2>2. met' = met
    BY <1>5 DEF Store, Fallback, Meets, Seen
  <2>. QED BY <1>2, <1>3, <1>4, <2>1, <2>2 DEF Concerns, Goes, Stored, Untouched, SameRow
<1>6. CASE o # "ok"
  <2>1. t \in met'
    BY <1>6 DEF Store, Fallback, Meets, Seen
  <2>. QED BY <1>2, <1>3, <1>4, <2>1 DEF Concerns, Untouched, SameRow
<1>. QED BY <1>5, <1>6

LEMMA PushCourse ==
  ASSUME Typed, NEW t \in Task, NEW o \in Outcome, Push(t, o)
  PROVE  Concerns(t)
<1>1. producer \in [Task -> {"no", "push", "yes", "cut"}] /\ queue \in Seq(Task)
  BY DEF Typed, ListsTyped
<1>2. UNCHANGED <<retry, dead, data, worker, janitor, operator, runs>>
  BY DEF Push, tries
<1>3. ASSUME NEW u \in Task
      PROVE  SameWorkers(u) /\ SameJanitors(u) /\ SameOperator(u)
  BY <1>2 DEF SameWorkers, SameWorker, Works, SameJanitors, Carries, SameOperator, Revives
<1>4. \A u \in Task \ {t} : producer'[u] = producer[u] /\ SameQueue(u)
  <2>1. queue' = queue => \A u \in Task : SameQueue(u)
    BY DEF SameQueue, InQueue, OnceQueued
  <2>. QED BY <1>1, <2>1, QueuedAtHead DEF Push
<1>5. CASE o = "ok"
  <2>1. producer[t] = "push" /\ producer'[t] = "yes" /\ Queued(t)
    BY <1>1, <1>2, <1>5, QueuedAtHead DEF Push, Done, Queued
  <2>2. met' = met
    BY <1>5 DEF Push, Fallback, Meets, Seen
  <2>. QED BY <1>2, <1>3, <1>4, <2>1, <2>2 DEF Concerns, Goes, Pushed, Untouched, SameRow, SameLists
<1>6. CASE o # "ok"
  <2>1. t \in met'
    BY <1>6 DEF Push, Fallback, Meets, Seen
  <2>. QED BY <1>2, <1>3, <1>4, <2>1 DEF Concerns, Untouched, SameRow, SameLists
<1>. QED BY <1>5, <1>6

LEMMA ClaimCourse ==
  ASSUME Typed, NEW p \in Process, NEW o \in Outcome, Claim(p, o)
  PROVE  \E t \in Task : Concerns(t)
<1>1. PICK t \in Task : t = Last(queue)
  BY ClaimWork
<1>2. queue \in Seq(Task) /\ queue # <<>>
  BY DEF Typed, ListsTyped, Claim
<1>3. UNCHANGED <<retry, dead, data, producer, janitor, operator, runs>>
  BY DEF Claim, Others, tries
<1>4. ASSUME NEW u \in Task
      PROVE  SameRow(u) /\ SameJanitors(u) /\ SameOperator(u)
  BY <1>3 DEF SameRow, SameJanitors, Carries, SameOperator, Revives
<1>5. \A u \in Task \ {t} : SameQueue(u)
  <2>1. queue' = queue => \A u \in Task : SameQueue(u)
    BY DEF SameQueue, InQueue, OnceQueued
  <2>. QED BY <1>1, <1>2, <2>1, TakenFromEnd DEF Claim
<1>6. CASE o = "ok"
  <2>1. worker[p].pc = "idle" /\ Becomes(p, "load", t)
    BY <1>1, <1>6, ClaimWork
  <2>2. /\ \A u : u # t => SameWorkers(u)
        /\ \A q \in Process \ {p} : SameWorker(q, t)
        /\ Works(p, t)' /\ worker'[p].pc = "load" /\ ~Works(p, t)
    BY <2>1, OthersWork DEF Works
  <2>3. InQueue(t) /\ (OnceQueued(t) => ~InQueue(t)' /\ OnceQueued(t)')
    BY <1>1, <1>2, <1>6, TakenFromEnd DEF Claim, Done
  <2>4. met' = met
    BY <1>6 DEF Claim, Meets
  <2>5. Claimed(p, t)
    BY <1>3, <1>4, <2>2, <2>3 DEF Claimed
  <2>. QED BY <1>3, <1>4, <1>5, <2>2, <2>4, <2>5 DEF Concerns, Goes, Untouched, SameLists
<1>7. CASE o # "ok"
  <2>1. t \in met' /\ worker' = worker
    BY <1>1, <1>7 DEF Claim, Meets, Seen
  <2>2. \A u \in Task : SameWorkers(u)
    BY <2>1 DEF SameWorkers, SameWorker, Works
  <2>. QED BY <1>3, <1>4, <1>5, <2>1, <2>2 DEF Concerns, Untouched, SameLists
<1>. QED BY <1>6, <1>7

\* what is common to the steps of a worker that leave the lists alone
Aside(p, pc, t) ==
  /\ Becomes(p, pc, t) /\ worker[p].pc # "idle" /\ worker[p].task = t
  /\ UNCHANGED <<queue, retry, dead, Others>>
  /\ \A u \in Task \ {t} : data'[u] = data[u] /\ runs'[u] = runs[u]

WentAside(p, pc, t) ==
  /\ \A u \in Task \ {t} : Untouched(u)
  /\ SameLists(t) /\ SameJanitors(t) /\ SameOperator(t) /\ producer'[t] = producer[t]
  /\ \A q \in Process \ {p} : SameWorker(q, t)
  /\ worker'[p].pc = pc /\ (Works(p, t)' <=> pc \notin {"idle", "remove"})

LEMMA WorkAside ==
  ASSUME NEW p \in Process, NEW pc, NEW t \in Task, Aside(p, pc, t)
  PROVE  WentAside(p, pc, t)
<1>1. UNCHANGED <<queue, retry, dead, producer, janitor, operator>>
  BY DEF Aside, Others
<1>2. ASSUME NEW u
      PROVE  SameLists(u) /\ SameJanitors(u) /\ SameOperator(u)
  BY <1>1 DEF SameLists, SameQueue, InQueue, OnceQueued, SameJanitors, Carries, SameOperator, Revives
<1>3. \A u \in Task \ {t} : SameRow(u)
  BY <1>1 DEF SameRow, Aside
<1>4. /\ \A u : u # t => SameWorkers(u)
      /\ \A q \in Process \ {p} : SameWorker(q, t)
      /\ Works(p, t)' <=> pc \notin {"idle", "remove"}
      /\ worker'[p].pc = pc
  BY OthersWork DEF Aside
<1>. QED BY <1>1, <1>2, <1>3, <1>4 DEF Untouched, WentAside

LEMMA LoadCourse ==
  ASSUME Typed, NEW p \in Process, NEW o \in Outcome, Load(p, o)
  PROVE  \E t \in Task : Concerns(t)
<1>1. PICK t \in Task : t = worker[p].task
  BY LoadWork
<1>2. PICK pc \in {"idle", "orphan", "mark"} : Becomes(p, pc, t)
  BY <1>1, LoadWork
<1>3. worker \in [Process -> Work] /\ worker[p].pc = "load" /\ worker[p].pc # "idle"
  BY DEF Typed, ThreadsTyped, Load, WorkerAt
<1>4. /\ UNCHANGED <<lists, Others>> /\ UNCHANGED <<data, runs>>
      /\ \A u \in Task \ {t} : data'[u] = data[u] /\ runs'[u] = runs[u]
  BY DEF Load, tries
<1>5. WentAside(p, pc, t)
  <2>1. Aside(p, pc, t)
    BY <1>1, <1>2, <1>3, <1>4 DEF Aside, lists
  <2>. QED BY <2>1, WorkAside
<1>6. CASE o = "ok"
  <2>1. /\ worker'[p].pc = (IF data[t] = None THEN "orphan" ELSE "mark")
        /\ worker'[p].retries = data[t].retries
    BY <1>1, <1>3, <1>6 DEF Load, Seen, Work
  <2>2. SameRow(t) /\ Works(p, t)
    BY <1>1, <1>3, <1>4, <1>5 DEF SameRow, WentAside, Works
  <2>3. WentOn(p, t)
    BY <1>3, <1>5, <2>1, <2>2 DEF WentAside, WentOn
  <2>4. met' = met
    BY <1>6 DEF Load, Meets
  <2>. QED BY <1>5, <2>3, <2>4 DEF WentAside, Concerns, Goes
<1>7. CASE o # "ok"
  <2>1. t \in met'
    BY <1>1, <1>7 DEF Load, Meets
  <2>. QED BY <1>5, <2>1 DEF WentAside, Concerns
<1>. QED BY <1>6, <1>7

\* data is set at t, if the command is carried out
LEMMA SetAt ==
  ASSUME data \in [Task -> Row], NEW t \in Task, NEW c, NEW status, NEW n, SetIf(c, t, status, n)
  PROVE  /\ c => data'[t] = [status |-> status, retries |-> n]
         /\ \A u \in Task \ {t} : data'[u] = data[u]
BY DEF SetIf, Set

LEMMA MarkCourse ==
  ASSUME Typed, NEW p \in Process, NEW o \in Outcome, Mark(p, o)
  PROVE  \E t \in Task : Concerns(t)
<1>1. PICK t \in Task : t = worker[p].task
  BY MarkWork
<1>2. Becomes(p, "handle", t)
  BY <1>1, MarkWork
<1>3. worker \in [Process -> Work] /\ worker[p].pc = "mark" /\ worker[p].pc # "idle" /\ data \in [Task -> Row]
      /\ runs \in [Task -> Nat]
  BY DEF Typed, ThreadsTyped, ListsTyped, HistoryTyped, Mark, WorkerAt
<1>4. UNCHANGED <<lists, Others>>
  BY DEF Mark
<1>5. /\ Done(o) => data'[t] = [status |-> "processing", retries |-> worker[p].retries]
      /\ \A u \in Task \ {t} : data'[u] = data[u] /\ runs'[u] = runs[u]
      /\ runs'[t] = runs[t] + 1
  BY <1>1, <1>3, SetAt DEF Mark
<1>6. WentAside(p, "handle", t)
  <2>1. Aside(p, "handle", t)
    BY <1>1, <1>2, <1>3, <1>4, <1>5 DEF Aside, lists
  <2>. QED BY <2>1, WorkAside
<1>7. CASE o = "ok"
  <2>1. worker'[p].retries = worker[p].retries /\ Works(p, t)
    BY <1>1, <1>3 DEF Mark, WorkerTo, Work, Works
  <2>2. WentOn(p, t)
    BY <1>3, <1>5, <1>6, <1>7, <2>1 DEF WentAside, WentOn, Done
  <2>3. met' = met
    BY <1>7 DEF Mark, Meets
  <2>. QED BY <1>6, <2>2, <2>3 DEF WentAside, Concerns, Goes
<1>8. CASE o # "ok"
  <2>1. t \in met'
    BY <1>1, <1>8 DEF Mark, Meets
  <2>. QED BY <1>6, <2>1 DEF WentAside, Concerns
<1>. QED BY <1>7, <1>8

LEMMA HandlerCourse ==
  ASSUME Typed, NEW p \in Process, HandlerReturns(p)
  PROVE  \E t \in Task : Concerns(t)
<1>1. PICK t \in Task : t = worker[p].task
  BY HandlerWork
<1>2. PICK pc \in {"success", "bury", "again"} : Becomes(p, pc, t)
  BY <1>1, HandlerWork
<1>3. worker \in [Process -> Work] /\ worker[p].pc = "handle" /\ worker[p].pc # "idle"
      /\ worker[p] \in Work
  BY DEF Typed, ThreadsTyped, HandlerReturns, WorkerAt
<1>4. /\ UNCHANGED <<lists, Others>> /\ UNCHANGED <<data, runs, met>>
      /\ \A u \in Task \ {t} : data'[u] = data[u] /\ runs'[u] = runs[u]
  BY DEF HandlerReturns
<1>5. WentAside(p, pc, t)
  <2>1. Aside(p, pc, t)
    BY <1>1, <1>2, <1>3, <1>4 DEF Aside, lists
  <2>. QED BY <2>1, WorkAside
<1>6. \/ worker'[p].pc = "success"
      \/ /\ worker'[p].pc = Failed(worker[p].retries)
         /\ worker'[p].retries = worker[p].retries + 1
  <2>1. CASE WorkerTo(p, "success")
    BY <1>3, <2>1 DEF WorkerTo, Work
  <2>2. CASE worker' = [worker EXCEPT ![p].pc = Failed(worker[p].retries), ![p].retries = @ + 1]
    <3>. DEFINE w == [worker[p] EXCEPT !.pc = Failed(worker[p].retries), !.retries = worker[p].retries + 1]
    <3>1. worker' = [worker EXCEPT ![p] = w]
      BY <1>3, <2>2
    <3>2. w.pc = Failed(worker[p].retries) /\ w.retries = worker[p].retries + 1
      BY <1>3 DEF Work
    <3>. HIDE DEF w
    <3>3. worker'[p] = w
      BY <1>3, <3>1
    <3>. QED BY <3>2, <3>3
  <2>. QED BY <2>1, <2>2 DEF HandlerReturns
<1>7. SameRow(t) /\ Works(p, t)
  BY <1>1, <1>3, <1>4, <1>5 DEF WentAside, SameRow, Works
<1>8. WentOn(p, t)
  BY <1>3, <1>5, <1>6, <1>7 DEF WentAside, WentOn
<1>. QED BY <1>4, <1>5, <1>8 DEF WentAside, Concerns, Goes

LEMMA UpdateCourse ==
  ASSUME Typed, NEW p \in Process, NEW o \in Outcome, Update(p, o)
  PROVE  \E t \in Task : Concerns(t)
<1>1. PICK t \in Task : t = worker[p].task
  BY UpdateWork
<1>2. PICK pc \in {"remove", "schedule", "letter"} : Becomes(p, pc, t) /\ pc = AfterStatus(worker[p].pc)
  <2>1. PICK pc \in {"remove", "schedule", "letter"} : Becomes(p, pc, t)
    BY <1>1, UpdateWork
  <2>2. worker'[p].pc = AfterStatus(worker[p].pc)
    BY DEF Update, WorkerTo, Typed, ThreadsTyped, Work
  <2>. QED BY <2>1, <2>2 DEF Becomes
<1>3. worker \in [Process -> Work] /\ worker[p].pc \in {"success", "again", "bury"}
      /\ data \in [Task -> Row]
  BY DEF Typed, ThreadsTyped, ListsTyped, Update
<1>4. UNCHANGED <<lists, Others, runs>>
  BY DEF Update, tries
<1>5. /\ Done(o) => data'[t] = [status |-> StatusAt(worker[p].pc), retries |-> worker[p].retries]
      /\ \A u \in Task \ {t} : data'[u] = data[u] /\ runs'[u] = runs[u]
  BY <1>1, <1>3, <1>4, SetAt DEF Update
<1>6. WentAside(p, pc, t)
  <2>1. Aside(p, pc, t)
    BY <1>1, <1>2, <1>3, <1>4, <1>5 DEF Aside, lists
  <2>. QED BY <2>1, WorkAside
<1>7. CASE o = "ok"
  <2>1. worker'[p].retries = worker[p].retries /\ Works(p, t)
    BY <1>1, <1>3 DEF Update, WorkerTo, Work, Works
  <2>2. WentOn(p, t)
    BY <1>2, <1>3, <1>4, <1>5, <1>6, <1>7, <2>1 DEF WentAside, WentOn, Done, AfterStatus
  <2>3. met' = met
    BY <1>7 DEF Update, Meets
  <2>. QED BY <1>6, <2>2, <2>3 DEF WentAside, Concerns, Goes
<1>8. CASE o # "ok"
  <2>1. t \in met'
    BY <1>1, <1>8 DEF Update, Meets
  <2>. QED BY <1>6, <2>1 DEF WentAside, Concerns
<1>. QED BY <1>7, <1>8

LEMMA RestingCourse ==
  ASSUME Typed, NEW p \in Process, NEW o \in Outcome, Orphan(p, o) \/ Release(p, o)
  PROVE  \E t \in Task : Concerns(t)
<1>1. PICK t \in Task : t = worker[p].task
  BY RestingWork
<1>2. Becomes(p, "idle", t)
  BY <1>1, RestingWork
<1>3. worker[p].pc \in {"orphan", "remove"} /\ worker[p].pc # "idle"
  BY DEF Orphan, Release, WorkerAt
<1>4. UNCHANGED <<queue, retry, dead, data, runs, Others>>
  BY DEF Orphan, Release, tries
<1>5. WentAside(p, "idle", t)
  <2>1. Aside(p, "idle", t)
    BY <1>1, <1>2, <1>3, <1>4 DEF Aside
  <2>. QED BY <2>1, WorkAside
<1>6. CASE Release(p, o) /\ o = "ok"
  <2>1. ~Works(p, t) /\ ~Works(p, t)'
    BY <1>5, <1>6 DEF Release, WorkerAt, WentAside, Works
  <2>2. Untouched(t)
    BY <1>4, <1>5, <2>1 DEF Untouched, WentAside, SameRow, SameWorkers, SameWorker
  <2>3. met' = met
    BY <1>6 DEF Release, Meets
  <2>. QED BY <1>5, <2>2, <2>3 DEF WentAside, Concerns
<1>7. CASE Orphan(p, o) \/ o # "ok"
  <2>1. t \in met'
    BY <1>1, <1>7 DEF Orphan, Release, Meets, Done
  <2>. QED BY <1>5, <2>1 DEF WentAside, Concerns
<1>. QED BY <1>6, <1>7

LEMMA ListingCourse ==
  ASSUME Typed, NEW p \in Process, NEW o \in Outcome, Schedule(p, o) \/ DeadLetter(p, o)
  PROVE  \E t \in Task : Concerns(t)
<1>1. PICK t \in Task : t = worker[p].task
  BY ListingWork
<1>2. Becomes(p, "remove", t)
  BY <1>1, ListingWork
<1>3. worker[p].pc \in {"schedule", "letter"} /\ worker[p].pc # "idle"
  BY DEF Schedule, DeadLetter, WorkerAt
<1>4. UNCHANGED <<queue, data, runs, producer, janitor, operator>>
  BY DEF Schedule, DeadLetter, tries, Others
<1>5. dead \in [Task -> Nat]
  BY DEF Typed, ListsTyped
<1>6. ASSUME NEW u \in Task
      PROVE  SameRow(u) /\ SameQueue(u) /\ SameJanitors(u) /\ SameOperator(u)
  BY <1>4 DEF SameRow, SameQueue, InQueue, OnceQueued, SameJanitors, Carries, SameOperator, Revives
<1>7. \A u \in Task \ {t} : (u \in retry' <=> u \in retry) /\ dead'[u] = dead[u]
  BY <1>1, <1>5 DEF Schedule, DeadLetter, More
<1>8. /\ \A u : u # t => SameWorkers(u)
      /\ \A q \in Process \ {p} : SameWorker(q, t)
      /\ ~Works(p, t)' /\ worker'[p].pc = "remove"
  BY <1>1, <1>2, <1>3, OthersWork
<1>9. \A u \in Task \ {t} : Untouched(u)
  BY <1>6, <1>7, <1>8 DEF Untouched, SameLists
<1>10. CASE o = "ok"
  <2>1. Works(p, t)
    BY <1>1, <1>3 DEF Works
  <2>2. WentOn(p, t)
    <3>1. CASE Schedule(p, o)
      <4>1. worker[p].pc = "schedule" /\ t \in retry' /\ dead'[t] = dead[t]
        BY <1>1, <1>10, <3>1 DEF Schedule, WorkerAt, Done
      <4>. QED BY <1>4, <1>6, <1>8, <2>1, <4>1 DEF WentOn
    <3>2. CASE DeadLetter(p, o)
      <4>1. worker[p].pc = "letter" /\ retry' = retry /\ dead'[t] = dead[t] + 1
        BY <1>1, <1>5, <1>10, <3>2 DEF DeadLetter, WorkerAt, Done, More
      <4>. QED BY <1>4, <1>6, <1>8, <2>1, <4>1 DEF WentOn
    <3>. QED BY <3>1, <3>2
  <2>3. met' = met
    BY <1>10 DEF Schedule, DeadLetter, Meets, Done
  <2>. QED BY <1>9, <2>2, <2>3 DEF Concerns, Goes
<1>11. CASE o # "ok"
  <2>1. t \in met'
    BY <1>1, <1>11 DEF Schedule, DeadLetter, Meets
  <2>. QED BY <1>9, <2>1 DEF Concerns
<1>. QED BY <1>10, <1>11

LEMMA TakeDueCourse ==
  ASSUME Typed, NEW p \in Process, NEW t \in Task, NEW o \in Outcome, TakeDue(p, t, o)
  PROVE  Concerns(t)
<1>1. janitor \in [Process -> Batch] /\ janitor[p].held = {} /\ janitor[p].ids \subseteq Task
  BY DEF Typed, ThreadsTyped, TakeDue, Batch
<1>2. UNCHANGED <<queue, dead, data, runs, producer, worker, operator>>
  BY DEF TakeDue, NotJanitor, tries
<1>3. ASSUME NEW u \in Task
      PROVE  SameRow(u) /\ SameQueue(u) /\ SameWorkers(u) /\ SameOperator(u)
  BY <1>2 DEF SameRow, SameQueue, InQueue, OnceQueued, SameWorkers, SameWorker, Works, SameOperator, Revives
<1>4. \A u \in Task \ {t} : u \in retry' <=> u \in retry
  BY DEF TakeDue, TakenFromRetry
<1>5. /\ \A q \in Process \ {p} : janitor'[q] = janitor[q]
      /\ o = "ok" => janitor'[p].held = {t} /\ janitor'[p].found = (t \in retry)
      /\ o # "ok" => janitor'[p].held = {}
  BY <1>1 DEF TakeDue, Seen, Resting
<1>6. /\ \A u \in Task : ~Carries(p, u)
      /\ \A u \in Task : \A q \in Process \ {p} : Carries(q, u)' <=> Carries(q, u)
      /\ \A u \in Task \ {t} : ~Carries(p, u)'
  BY <1>1, <1>5 DEF Carries, Outcome
<1>7. \A u \in Task \ {t} : Untouched(u)
  BY <1>2, <1>3, <1>4, <1>6 DEF Untouched, SameLists, SameJanitors
<1>8. CASE o = "ok" /\ t \in retry
  <2>1. t \notin retry' /\ Carries(p, t)'
    BY <1>5, <1>8 DEF TakeDue, TakenFromRetry, Done, Carries
  <2>2. Taken(p, t)
    BY <1>2, <1>3, <1>6, <1>8, <2>1 DEF Taken
  <2>3. met' = met
    BY <1>8 DEF TakeDue, Meets
  <2>. QED BY <1>7, <2>2, <2>3 DEF Concerns, Goes
<1>9. CASE o = "ok" /\ t \notin retry
  <2>1. retry' = retry /\ ~Carries(p, t)'
    BY <1>5, <1>9 DEF TakeDue, TakenFromRetry, Carries
  <2>2. Untouched(t)
    BY <1>2, <1>3, <1>6, <2>1 DEF Untouched, SameLists, SameJanitors
  <2>3. met' = met
    BY <1>9 DEF TakeDue, Meets
  <2>. QED BY <1>7, <2>2, <2>3 DEF Concerns
<1>10. CASE o # "ok"
  <2>1. t \in met'
    BY <1>10 DEF TakeDue, Meets
  <2>. QED BY <1>7, <2>1 DEF Concerns
<1>. QED BY <1>8, <1>9, <1>10

LEMMA PutBackCourse ==
  ASSUME Typed, NEW p \in Process, NEW t \in Task, NEW o \in Outcome, PutBack(p, t, o)
  PROVE  Concerns(t)
<1>1. /\ janitor \in [Process -> Batch] /\ t \in janitor[p].held
      /\ \A u \in janitor[p].held : u = t
      /\ queue \in Seq(Task)
  BY DEF Typed, ThreadsTyped, ListsTyped, PutBack
<1>2. UNCHANGED <<retry, dead, data, runs, producer, worker, operator>>
  BY DEF PutBack, NotJanitor, tries
<1>3. ASSUME NEW u \in Task
      PROVE  SameRow(u) /\ SameWorkers(u) /\ SameOperator(u)
  BY <1>2 DEF SameRow, SameWorkers, SameWorker, Works, SameOperator, Revives
<1>4. \A u \in Task \ {t} : SameQueue(u)
  <2>1. queue' = queue => \A u \in Task : SameQueue(u)
    BY DEF SameQueue, InQueue, OnceQueued
  <2>. QED BY <1>1, <2>1, QueuedAtHead DEF PutBack
<1>5. janitor'[p].held = {} /\ \A q \in Process \ {p} : janitor'[q] = janitor[q]
  BY <1>1 DEF PutBack, Resting
<1>6. /\ \A u \in Task : ~Carries(p, u)'
      /\ \A u \in Task : \A q \in Process \ {p} : Carries(q, u)' <=> Carries(q, u)
      /\ \A u \in Task \ {t} : ~Carries(p, u)
  BY <1>1, <1>5 DEF Carries
<1>7. \A u \in Task \ {t} : Untouched(u)
  BY <1>2, <1>3, <1>4, <1>6 DEF Untouched, SameLists, SameJanitors
<1>8. CASE o = "ok" /\ janitor[p].found
  <2>1. Carries(p, t) /\ Queued(t)
    BY <1>1, <1>2, <1>8, QueuedAtHead DEF PutBack, Done, Queued, Carries
  <2>2. PutDown(p, t)
    BY <1>2, <1>3, <1>6, <2>1 DEF PutDown
  <2>3. met' = met
    BY <1>8 DEF PutBack, Meets, Done
  <2>. QED BY <1>7, <2>2, <2>3 DEF Concerns, Goes
<1>9. CASE o # "ok" \/ ~janitor[p].found
  <2>1. t \in met'
    BY <1>9 DEF PutBack, Meets
  <2>. QED BY <1>7, <2>1 DEF Concerns
<1>. QED BY <1>8, <1>9

LEMMA OperatorCourse ==
  ASSUME Typed, NEW o \in Outcome, Undead(o) \/ Renew(o) \/ Requeue(o)
  PROVE  \E t \in Task : Concerns(t)
<1>1. PICK t \in Task : t = operator.task
  BY DEF Typed, ThreadsTyped, Undead, Renew, Requeue
<1>2. /\ operator \in Ask /\ dead \in [Task -> Nat] /\ data \in [Task -> Row] /\ queue \in Seq(Task)
      /\ runs \in [Task -> Nat]
  BY DEF Typed, ThreadsTyped, ListsTyped, HistoryTyped
<1>3. UNCHANGED <<retry, producer, worker, janitor>>
  BY DEF Undead, Renew, Requeue, NotOperator
<1>4. ASSUME NEW u \in Task
      PROVE  SameWorkers(u) /\ SameJanitors(u)
  BY <1>3 DEF SameWorkers, SameWorker, Works, SameJanitors, Carries
<1>5. \A u \in Task \ {t} : SameRow(u) /\ dead'[u] = dead[u]
  BY <1>1, <1>2, <1>3, SetAt DEF Undead, Renew, Requeue, Less, tries, SameRow
<1>6. \A u \in Task \ {t} : SameQueue(u)
  <2>1. queue' = queue => \A u \in Task : SameQueue(u)
    BY DEF SameQueue, InQueue, OnceQueued
  <2>. QED BY <1>1, <1>2, <2>1, QueuedAtHead DEF Undead, Renew, Requeue
<1>7. /\ \A pc : Revives(t, pc) <=> operator.pc = pc
      /\ \A u \in Task \ {t} : \A pc \in {"renew", "requeue"} : ~Revives(u, pc) /\ ~Revives(u, pc)'
      /\ Undead(o) => operator'.pc = "renew" /\ operator'.task = t
      /\ Renew(o) => operator'.pc = "requeue" /\ operator'.task = t
      /\ Requeue(o) => operator'.pc = "idle"
  BY <1>1, <1>2 DEF Undead, Renew, Requeue, Revives, NoRequest, Ask
<1>8. \A u \in Task \ {t} : Untouched(u)
  BY <1>3, <1>4, <1>5, <1>6, <1>7 DEF Untouched, SameLists, SameOperator
<1>9. CASE Undead(o) /\ o = "ok" /\ dead[t] > 0
  <2>1. dead'[t] = dead[t] - 1 /\ UNCHANGED <<queue, data, runs>> /\ met' = met
    BY <1>1, <1>2, <1>9 DEF Undead, Less, Done, tries, Meets
  <2>2. SameQueue(t) /\ SameRow(t)
    BY <1>3, <2>1 DEF SameQueue, InQueue, OnceQueued, SameRow
  <2>3. Revives(t, "renew")' /\ ~Revives(t, "requeue")'
    BY <1>7, <1>9 DEF Revives
  <2>4. TakenOffDead(t)
    BY <1>3, <1>4, <1>9, <2>1, <2>2, <2>3 DEF TakenOffDead
  <2>. QED BY <1>8, <2>1, <2>4 DEF Concerns, Goes
<1>10. CASE Renew(o) /\ o = "ok"
  <2>1. /\ data'[t] = [status |-> "pending", retries |-> 0] /\ runs'[t] = 0
        /\ UNCHANGED <<queue, dead>> /\ met' = met
    <3>1. SetIf(Done(o), t, "pending", 0) /\ Done(o) /\ runs' = [runs EXCEPT ![t] = 0]
      BY <1>1, <1>10 DEF Renew, Done
    <3>2. data'[t] = [status |-> "pending", retries |-> 0]
      BY <1>2, <3>1 DEF SetIf, Set
    <3>. QED BY <1>2, <1>10, <3>1, <3>2 DEF Renew, Meets
  <2>2. SameLists(t)
    BY <1>3, <2>1 DEF SameLists, SameQueue, InQueue, OnceQueued
  <2>3. Revives(t, "renew") /\ Revives(t, "requeue")' /\ ~Revives(t, "renew")'
    BY <1>7, <1>10 DEF Revives, Renew
  <2>4. Renewed(t)
    BY <1>3, <1>4, <2>1, <2>2, <2>3 DEF Renewed
  <2>. QED BY <1>8, <2>1, <2>4 DEF Concerns, Goes
<1>11. CASE Requeue(o) /\ o = "ok"
  <2>1. Queued(t) /\ UNCHANGED <<data, runs>> /\ met' = met
    BY <1>1, <1>2, <1>3, <1>11, QueuedAtHead DEF Requeue, Done, Queued, Meets, tries
  <2>2. Revives(t, "requeue") /\ ~Revives(t, "renew")' /\ ~Revives(t, "requeue")'
    BY <1>7, <1>11 DEF Revives, Requeue
  <2>3. Requeued(t)
    BY <1>3, <1>4, <2>1, <2>2 DEF Requeued, SameRow
  <2>. QED BY <1>8, <2>1, <2>3 DEF Concerns, Goes
<1>12. CASE o # "ok" \/ (Undead(o) /\ ~(dead[t] > 0))
  <2>1. t \in met'
    BY <1>1, <1>2, <1>12 DEF Undead, Renew, Requeue, Meets
  <2>. QED BY <1>8, <2>1 DEF Concerns
<1>. QED BY <1>9, <1>10, <1>11, <1>12

\* the other steps do nothing to a task, unless it has met something then
LEMMA AsideCourse ==
  ASSUME Typed,
         \/ \E p \in Process : Crash(p) \/ \E ts \in SUBSET Task : ListDue(p, ts)
         \/ \E p \in Process, t \in Task : AskRequeue(p, t)
         \/ \E t \in Task : Expire(t)
         \/ ClearDead,
         NEW u \in Task \ met'
  PROVE  Untouched(u)
<1>1. /\ worker \in [Process -> Work] /\ janitor \in [Process -> Batch] /\ operator \in Ask
      /\ dead \in [Task -> Nat] /\ data \in [Task -> Row]
  BY DEF Typed, ThreadsTyped, ListsTyped
<1>2. UNCHANGED <<queue, retry, runs>>
  BY DEF Crash, ListDue, AskRequeue, Expire, ClearDead, NotOperator, NotJanitor, lists, threads, tries,
         history
<1>3. SameQueue(u) /\ (u \in retry' <=> u \in retry)
  BY <1>2 DEF SameQueue, InQueue, OnceQueued
<1>4. dead'[u] = dead[u]
  <2>1. ClearDead => dead'[u] = 0 /\ ~(dead[u] > 0)
    BY DEF ClearDead
  <2>2. dead' = dead \/ ClearDead
    BY DEF Crash, ListDue, AskRequeue, Expire, NotOperator, NotJanitor, lists
  <2>. QED BY <1>1, <2>1, <2>2
<1>5. data'[u] = data[u]
  BY <1>1 DEF Crash, ListDue, AskRequeue, Expire, ClearDead, NotOperator, NotJanitor
<1>6. \A p \in Process :
        u \in {worker[p].task} \cup janitor[p].held \cup Submitting(p) \cup Served(p) => u \in InHand(p)
  BY NoneIsNoTask DEF InHand
<1>10. producer'[u] = producer[u]
  <2>1. CASE producer' = producer
    BY <2>1
  <2>2. ASSUME NEW p \in Process, Crash(p) PROVE producer'[u] = producer[u]
    BY <1>6, <2>2 DEF Crash
  <2>. QED BY <2>1, <2>2 DEF ListDue, AskRequeue, Expire, ClearDead, NotOperator, NotJanitor, threads
<1>7. SameWorkers(u)
  <2>1. CASE worker' = worker
    BY <2>1 DEF SameWorkers, SameWorker, Works
  <2>2. ASSUME NEW p \in Process, Crash(p) PROVE SameWorkers(u)
    <3>1. ~Works(p, u)
      BY <1>6, <2>2 DEF Crash, Works
    <3>2. worker'[p].pc = "idle" /\ \A q \in Process \ {p} : worker'[q] = worker[q]
      BY <1>1, <2>2 DEF Crash, WorkerRests, Idle
    <3>. QED BY <3>1, <3>2 DEF SameWorkers, SameWorker, Works
  <2>. QED BY <2>1, <2>2 DEF ListDue, AskRequeue, Expire, ClearDead, NotOperator, NotJanitor, threads
<1>8. SameJanitors(u)
  <2>1. CASE janitor' = janitor
    BY <2>1 DEF SameJanitors, Carries
  <2>2. ASSUME NEW p \in Process, Crash(p) PROVE SameJanitors(u)
    <3>1. ~Carries(p, u)
      BY <1>6, <2>2 DEF Crash, Carries
    <3>2. janitor'[p].held = {} /\ \A q \in Process \ {p} : janitor'[q] = janitor[q]
      BY <1>1, <2>2 DEF Crash, Resting
    <3>. QED BY <3>1, <3>2 DEF SameJanitors, Carries
  <2>3. ASSUME NEW p \in Process, NEW ts \in SUBSET Task, ListDue(p, ts) PROVE SameJanitors(u)
    <3>1. /\ janitor'[p].held = janitor[p].held /\ janitor'[p].found = janitor[p].found
          /\ \A q \in Process \ {p} : janitor'[q] = janitor[q]
      BY <1>1, <2>3 DEF ListDue, Batch
    <3>. QED BY <3>1 DEF SameJanitors, Carries
  <2>. QED BY <2>1, <2>2, <2>3 DEF AskRequeue, Expire, ClearDead, NotOperator, threads
<1>9. SameOperator(u)
  <2>1. CASE operator' = operator
    BY <2>1 DEF SameOperator, Revives
  <2>2. ASSUME NEW p \in Process, NEW t \in Task, AskRequeue(p, t) PROVE SameOperator(u)
    BY <1>1, <2>2 DEF AskRequeue, NoRequest, SameOperator, Revives, Ask
  <2>3. ASSUME NEW p \in Process, Crash(p) PROVE SameOperator(u)
    <3>1. operator' = operator \/ (operator' = NoRequest /\ operator.task # u)
      BY <1>6, <2>3 DEF Crash, Served
    <3>2. NoRequest.pc = "idle"
      BY DEF NoRequest
    <3>. QED BY <2>1, <3>1, <3>2 DEF SameOperator, Revives
  <2>. QED BY <2>1, <2>2, <2>3 DEF ListDue, Expire, ClearDead, NotJanitor, threads
<1>. QED BY <1>10, <1>2, <1>3, <1>4, <1>5, <1>7, <1>8, <1>9 DEF Untouched, SameRow, SameLists

\* a step concerns one task, or none that has met nothing
LEMMA NextCourse ==
  ASSUME Typed, Next
  PROVE  (\E t \in Task : Concerns(t)) \/ (\A u \in Task \ met' : Untouched(u))
<1>1. ASSUME NEW p \in Process, WorkerStep(p) PROVE \E t \in Task : Concerns(t)
  BY <1>1, ClaimCourse, LoadCourse, RestingCourse, MarkCourse, HandlerCourse, UpdateCourse,
     ListingCourse DEF WorkerStep
<1>2. ASSUME NEW p \in Process, JanitorStep(p) PROVE \E t \in Task : Concerns(t)
  BY <1>2, TakeDueCourse, PutBackCourse DEF JanitorStep
<1>3. ASSUME NEW t \in Task, Enqueue(t) PROVE Concerns(t)
  BY <1>3, StoreCourse, PushCourse DEF Enqueue
<1>4. ASSUME OperatorStep PROVE \E t \in Task : Concerns(t)
  BY <1>4, OperatorCourse DEF OperatorStep
<1>. QED BY <1>1, <1>2, <1>3, <1>4, AsideCourse DEF Next

-----------------------------------------------------------------------------
(* A task that met nothing stays on its way.                                *)

\* t leaves one place for another, or stays: it is in one place still
LEMMA MovesOn ==
  ASSUME NEW t, InOnePlace(t), NEW from, NEW to, There(t, from),
         from # to => ~There(t, from)',
         \A x : There(t, x)' /\ x # to => There(t, x)
  PROVE  \A x, y : There(t, x)' /\ There(t, y)' => x = y
BY DEF InOnePlace

\* what is not touched is where it was
LEMMA SamePlaces ==
  ASSUME NEW t, UNCHANGED producer[t]
  PROVE  /\ There(t, "producer")' <=> There(t, "producer")
         /\ SameLists(t) => \A x \in {"queue", "retry", "dead"} : There(t, x)' <=> There(t, x)
         /\ SameWorkers(t) => (There(t, "worker")' <=> There(t, "worker"))
         /\ SameJanitors(t) => (There(t, "janitor")' <=> There(t, "janitor"))
         /\ SameOperator(t) => (There(t, "operator")' <=> There(t, "operator"))
BY DEF There, SameLists, SameQueue, SameWorkers, SameWorker, SameJanitors, SameOperator, Revives

LEMMA PlaceNames ==
  ASSUME NEW t, NEW x
  PROVE  /\ There(t, x) => x \in {"producer", "queue", "worker", "retry", "janitor", "dead", "operator"}
         /\ There(t, x)' => x \in {"producer", "queue", "worker", "retry", "janitor", "dead", "operator"}
BY DEF There

\* no place holds t twice, when the threads do as they did
LEMMA StaysSingle ==
  ASSUME NEW t, InOnePlace(t)
  PROVE  /\ SameLists(t) => OnceQueued(t)' /\ dead'[t] <= 1
         /\ SameWorkers(t) => \A p, q \in Process : Works(p, t)' /\ Works(q, t)' => p = q
         /\ SameJanitors(t) => \A p, q \in Process : Carries(p, t)' /\ Carries(q, t)' => p = q
BY DEF InOnePlace, SameLists, SameQueue, SameWorkers, SameWorker, SameJanitors

\* what has to be known of a task depends on the place where it is
LEMMA KnownThere ==
  ASSUME Typed', NEW t \in Task, InOnePlace(t)',
         \/ \A x : ~There(t, x)'
         \/ There(t, "producer")' /\ runs'[t] = 0 /\ (producer'[t] = "push" => data'[t] = Pending(t)')
         \/ (There(t, "queue")' \/ There(t, "retry")' \/ There(t, "janitor")' \/ Revives(t, "requeue")')
            /\ data'[t] = Pending(t)'
         \/ (There(t, "dead")' \/ Revives(t, "renew")') /\ data'[t].status = "dead"
         \/ \E p \in Process : Works(p, t)' /\ WorkKnown(p, t)'
  PROVE  RowKnown(t)'
<1>1. /\ producer'[t] # "yes" <=> There(t, "producer")'
      /\ InQueue(t)' <=> There(t, "queue")'
      /\ (\E p \in Process : Works(p, t)') <=> There(t, "worker")'
      /\ t \in retry' <=> There(t, "retry")'
      /\ (\E p \in Process : Carries(p, t)') <=> There(t, "janitor")'
      /\ dead'[t] > 0 <=> There(t, "dead")'
      /\ Revives(t, "renew")' \/ Revives(t, "requeue")' <=> There(t, "operator")'
      /\ ~(Revives(t, "renew")' /\ Revives(t, "requeue")')
  BY DEF There, Revives
<1>2. \A x, y : There(t, x)' /\ There(t, y)' => x = y
  BY DEF InOnePlace
<1>3. \A p, q \in Process : Works(p, t)' /\ Works(q, t)' => p = q
  BY DEF InOnePlace
<1>. QED BY <1>1, <1>2, <1>3 DEF RowKnown

LEMMA UntouchedOn ==
  ASSUME NEW t \in Task, OnItsWay(t), Untouched(t)
  PROVE  OnItsWay(t)'
<1>1. InOnePlace(t) /\ RowKnown(t)
  BY DEF OnItsWay
<1>2. \A x : There(t, x)' => There(t, x)
  BY SamePlaces, PlaceNames DEF Untouched, SameRow
<1>3. InOnePlace(t)'
  BY <1>1, <1>2, StaysSingle DEF InOnePlace, Untouched
<1>4. SameRow(t) /\ data[t]' = data[t] /\ runs[t]' = runs[t]
  BY DEF Untouched, SameRow
<1>5. \A p \in Process : Works(p, t)' => WorkKnown(p, t)'
  BY <1>1, <1>4 DEF RowKnown, Untouched, SameWorkers, SameWorker, WorkKnown, Pending
<1>6. RowKnown(t)'
  <2>1. /\ InQueue(t)' <=> InQueue(t)
        /\ t \in retry' <=> t \in retry
        /\ dead'[t] = dead[t]
        /\ \A p \in Process : Carries(p, t)' <=> Carries(p, t)
        /\ \A pc \in {"renew", "requeue"} : Revives(t, pc)' <=> Revives(t, pc)
    BY DEF Untouched, SameLists, SameQueue, SameJanitors, SameOperator
  <2>. QED BY <1>1, <1>4, <1>5, <2>1 DEF RowKnown, SameRow, Pending
<1>. QED BY <1>3, <1>6 DEF OnItsWay

LEMMA StoredOn ==
  ASSUME Typed, Typed', NEW t \in Task, OnItsWay(t), Stored(t)
  PROVE  OnItsWay(t)'
<1>1. InOnePlace(t) /\ RowKnown(t)
  BY DEF OnItsWay
<1>2. There(t, "producer") /\ There(t, "producer")'
  BY DEF Stored, There
<1>3. \A x : There(t, x)' /\ x # "producer" => There(t, x)
  BY PlaceNames DEF Stored, There, SameLists, SameQueue, SameWorkers, SameWorker, SameJanitors,
     SameOperator, Revives
<1>4. InOnePlace(t)'
  BY <1>1, <1>2, <1>3, MovesOn, StaysSingle DEF InOnePlace, Stored
<1>5. runs'[t] = 0 /\ data'[t] = Pending(t)'
  BY <1>1 DEF RowKnown, Stored, Pending
<1>. QED BY <1>2, <1>4, <1>5, KnownThere DEF OnItsWay

LEMMA PushedOn ==
  ASSUME Typed, Typed', NEW t \in Task, OnItsWay(t), Pushed(t)
  PROVE  OnItsWay(t)'
<1>1. InOnePlace(t) /\ RowKnown(t)
  BY DEF OnItsWay
<1>2. There(t, "producer") /\ There(t, "queue")' /\ ~There(t, "producer")'
  BY DEF Pushed, There, Queued
<1>3. \A x : There(t, x)' /\ x # "queue" => There(t, x)
  BY PlaceNames DEF Pushed, Queued, There, SameWorkers, SameWorker, SameJanitors, SameOperator, Revives
<1>4. InOnePlace(t)'
  <2>1. ~There(t, "queue") /\ ~InQueue(t)
    BY <1>1, <1>2 DEF InOnePlace, There
  <2>2. OnceQueued(t)' /\ dead'[t] <= 1
    BY <1>1, <2>1 DEF Pushed, Queued, InOnePlace
  <2>. QED BY <1>1, <1>2, <1>3, <2>2, MovesOn, StaysSingle DEF InOnePlace, Pushed
<1>5. data'[t] = Pending(t)'
  BY <1>1 DEF RowKnown, Pushed, Pending
<1>. QED BY <1>2, <1>4, <1>5, KnownThere DEF OnItsWay

LEMMA ClaimedOn ==
  ASSUME Typed, Typed', NEW t \in Task, OnItsWay(t), NEW p \in Process, Claimed(p, t)
  PROVE  OnItsWay(t)'
<1>1. InOnePlace(t) /\ RowKnown(t)
  BY DEF OnItsWay
<1>2. There(t, "queue") /\ There(t, "worker")' /\ ~There(t, "queue")'
  BY <1>1 DEF Claimed, There, InOnePlace
<1>3. \A x : There(t, x)' /\ x # "worker" => There(t, x)
  BY <1>2, PlaceNames DEF Claimed, There, SameRow, SameJanitors, SameOperator, Revives
<1>4. \A q \in Process \ {p} : ~Works(q, t)'
  <2>1. ~There(t, "worker")
    BY <1>1, <1>2 DEF InOnePlace
  <2>. QED BY <2>1 DEF There, Claimed, SameWorker
<1>5. InOnePlace(t)'
  <2>1. OnceQueued(t)' /\ dead'[t] <= 1
    BY <1>1 DEF Claimed, InOnePlace
  <2>. QED BY <1>1, <1>2, <1>3, <1>4, <2>1, MovesOn, StaysSingle DEF InOnePlace, Claimed
<1>6. WorkKnown(p, t)'
  BY <1>1 DEF RowKnown, Claimed, SameRow, WorkKnown, Pending
<1>. QED BY <1>5, <1>6, KnownThere DEF OnItsWay, Claimed

LEMMA TakenOn ==
  ASSUME Typed, Typed', NEW t \in Task, OnItsWay(t), NEW p \in Process, Taken(p, t)
  PROVE  OnItsWay(t)'
<1>1. InOnePlace(t) /\ RowKnown(t)
  BY DEF OnItsWay
<1>2. There(t, "retry") /\ There(t, "janitor")' /\ ~There(t, "retry")'
  BY DEF Taken, There
<1>3. \A x : There(t, x)' /\ x # "janitor" => There(t, x)
  BY <1>2, PlaceNames DEF Taken, There, SameRow, SameQueue, SameWorkers, SameWorker, SameOperator, Revives
<1>4. \A q \in Process \ {p} : ~Carries(q, t)'
  <2>1. ~There(t, "janitor")
    BY <1>1, <1>2 DEF InOnePlace
  <2>. QED BY <2>1 DEF There, Taken
<1>5. InOnePlace(t)'
  <2>1. OnceQueued(t)' /\ dead'[t] <= 1
    BY <1>1 DEF Taken, InOnePlace, SameQueue
  <2>. QED BY <1>1, <1>2, <1>3, <1>4, <2>1, MovesOn, StaysSingle DEF InOnePlace, Taken
<1>6. data'[t] = Pending(t)'
  BY <1>1 DEF RowKnown, Taken, SameRow, Pending
<1>. QED BY <1>2, <1>5, <1>6, KnownThere DEF OnItsWay

LEMMA PutDownOn ==
  ASSUME Typed, Typed', NEW t \in Task, OnItsWay(t), NEW p \in Process, PutDown(p, t)
  PROVE  OnItsWay(t)'
<1>1. InOnePlace(t) /\ RowKnown(t)
  BY DEF OnItsWay
<1>2. \A q \in Process : ~Carries(q, t)'
  BY <1>1 DEF PutDown, InOnePlace
<1>3. There(t, "janitor") /\ There(t, "queue")' /\ ~There(t, "janitor")'
  BY <1>2 DEF PutDown, Queued, There
<1>4. \A x : There(t, x)' /\ x # "queue" => There(t, x)
  BY <1>3, PlaceNames DEF PutDown, Queued, There, SameRow, SameWorkers, SameWorker, SameOperator, Revives
<1>5. InOnePlace(t)'
  <2>1. ~There(t, "queue") /\ ~InQueue(t)
    BY <1>1, <1>3 DEF InOnePlace, There
  <2>2. OnceQueued(t)' /\ dead'[t] <= 1
    BY <1>1, <2>1 DEF PutDown, Queued, InOnePlace
  <2>. QED BY <1>1, <1>2, <1>3, <1>4, <2>2, MovesOn, StaysSingle DEF InOnePlace, PutDown
<1>6. data'[t] = Pending(t)'
  BY <1>1 DEF RowKnown, PutDown, SameRow, Pending
<1>. QED BY <1>3, <1>5, <1>6, KnownThere DEF OnItsWay

LEMMA RevivedOn ==
  ASSUME Typed, Typed', NEW t \in Task, OnItsWay(t),
         TakenOffDead(t) \/ Renewed(t) \/ Requeued(t)
  PROVE  OnItsWay(t)'
<1>1. InOnePlace(t) /\ RowKnown(t) /\ dead \in [Task -> Nat]
  BY DEF OnItsWay, Typed, ListsTyped
<1>2. CASE TakenOffDead(t)
  <2>1. dead'[t] = 0
    BY <1>1, <1>2 DEF TakenOffDead, InOnePlace
  <2>2. There(t, "dead") /\ There(t, "operator")' /\ ~There(t, "dead")'
    BY <1>2, <2>1 DEF TakenOffDead, There, Revives
  <2>3. \A x : There(t, x)' /\ x # "operator" => There(t, x)
    BY <1>2, <2>2, PlaceNames DEF TakenOffDead, There, SameRow, SameQueue, SameWorkers, SameWorker,
       SameJanitors
  <2>4. InOnePlace(t)'
    <3>1. OnceQueued(t)' /\ dead'[t] <= 1
      BY <1>1, <1>2, <2>1 DEF TakenOffDead, InOnePlace, SameQueue
    <3>. QED BY <1>1, <1>2, <2>2, <2>3, <3>1, MovesOn, StaysSingle DEF InOnePlace, TakenOffDead
  <2>5. data'[t].status = "dead"
    BY <1>1, <1>2 DEF RowKnown, TakenOffDead, SameRow
  <2>. QED BY <1>2, <2>4, <2>5, KnownThere DEF OnItsWay, TakenOffDead
<1>3. CASE Renewed(t)
  <2>1. There(t, "operator") /\ There(t, "operator")'
    BY <1>3 DEF Renewed, There, Revives
  <2>2. \A x : There(t, x)' /\ x # "operator" => There(t, x)
    BY <1>3, PlaceNames, SamePlaces DEF Renewed
  <2>3. InOnePlace(t)'
    BY <1>1, <1>3, <2>1, <2>2, MovesOn, StaysSingle DEF InOnePlace, Renewed
  <2>4. data'[t] = Pending(t)'
    BY <1>3 DEF Renewed, Pending
  <2>. QED BY <1>3, <2>3, <2>4, KnownThere DEF OnItsWay, Renewed
<1>4. CASE Requeued(t)
  <2>1. There(t, "operator") /\ There(t, "queue")' /\ ~There(t, "operator")'
    BY <1>4 DEF Requeued, Queued, There, Revives
  <2>2. \A x : There(t, x)' /\ x # "queue" => There(t, x)
    BY <1>4, <2>1, PlaceNames DEF Requeued, Queued, There, SameRow, SameWorkers, SameWorker, SameJanitors
  <2>3. InOnePlace(t)'
    <3>1. ~There(t, "queue") /\ ~InQueue(t)
      BY <1>1, <2>1 DEF InOnePlace, There
    <3>2. OnceQueued(t)' /\ dead'[t] <= 1
      BY <1>1, <1>4, <3>1 DEF Requeued, Queued, InOnePlace
    <3>. QED BY <1>1, <1>4, <2>1, <2>2, <3>2, MovesOn, StaysSingle DEF InOnePlace, Requeued
  <2>4. data'[t] = Pending(t)'
    BY <1>1, <1>4 DEF RowKnown, Requeued, SameRow, Pending
  <2>. QED BY <2>1, <2>3, <2>4, KnownThere DEF OnItsWay
<1>. QED BY <1>2, <1>3, <1>4

\* what a worker on its way finds, and what it makes of it
LEMMA WorkStaysKnown ==
  ASSUME Typed, NEW t \in Task, OnItsWay(t), NEW p \in Process, WentOn(p, t),
         worker[p].pc \in {"load", "mark", "handle", "again", "bury"}
  PROVE  WorkKnown(p, t)' /\ Works(p, t)' /\ SameLists(t)
<1>. DEFINE w == worker[p]
            x == worker'[p]
<1>1. Works(p, t) /\ WorkKnown(p, t) /\ w \in Work /\ runs[t] \in Nat
  BY DEF OnItsWay, RowKnown, WentOn, Typed, ThreadsTyped, HistoryTyped
<1>2. Works(p, t)' /\ SameLists(t)
  BY DEF WentOn
<1>3. CASE w.pc = "load"
  <2>1. data[t] = Pending(t) /\ data[t] # None
    BY <1>1, <1>3 DEF WorkKnown, Pending, None
  <2>2. x.pc = "mark" /\ x.retries = runs[t] /\ data'[t] = data[t] /\ runs'[t] = runs[t]
    BY <1>3, <2>1 DEF WentOn, SameRow, Pending
  <2>. QED BY <1>2, <2>1, <2>2 DEF WorkKnown, Pending
<1>4. CASE w.pc = "mark"
  <2>1. w.retries = runs[t]
    BY <1>1, <1>4 DEF WorkKnown
  <2>2. x.pc = "handle" /\ x.retries + 1 = runs'[t] /\ data'[t].status = "processing"
    BY <1>4, <2>1 DEF WentOn
  <2>. QED BY <1>2, <2>2 DEF WorkKnown
<1>5. CASE w.pc = "handle"
  <2>1. w.retries + 1 = runs[t] /\ data[t].status = "processing"
    BY <1>1, <1>5 DEF WorkKnown
  <2>2. /\ x.pc = "success" \/ (x.pc = Failed(w.retries) /\ x.retries = runs[t])
        /\ data'[t] = data[t] /\ runs'[t] = runs[t]
    BY <1>5, <2>1 DEF WentOn, SameRow
  <2>3. Failed(w.retries) = IF runs[t] >= MaxRetries THEN "bury" ELSE "again"
    BY <2>1 DEF Failed
  <2>4. MaxRetries \in Nat
    BY TaskQueueAssumption
  <2>. QED BY <1>1, <1>2, <2>1, <2>2, <2>3, <2>4 DEF WorkKnown
<1>6. CASE w.pc = "again"
  <2>1. x.pc = "schedule" /\ data'[t] = Pending(t)'
    BY <1>1, <1>6 DEF WentOn, AfterStatus, StatusAt, WorkKnown, Pending
  <2>. QED BY <1>2, <2>1 DEF WorkKnown
<1>7. CASE w.pc = "bury"
  <2>1. x.pc = "letter" /\ data'[t].status = "dead"
    BY <1>1, <1>7 DEF WentOn, AfterStatus, StatusAt
  <2>. QED BY <1>2, <2>1 DEF WorkKnown
<1>. QED BY <1>3, <1>4, <1>5, <1>6, <1>7

LEMMA WentOnOn ==
  ASSUME Typed, Typed', NEW t \in Task, OnItsWay(t), NEW p \in Process, WentOn(p, t)
  PROVE  OnItsWay(t)'
<1>1. InOnePlace(t) /\ RowKnown(t) /\ dead \in [Task -> Nat]
  BY DEF OnItsWay, Typed, ListsTyped
<1>2. There(t, "worker") /\ Works(p, t) /\ WorkKnown(p, t)
  BY <1>1 DEF WentOn, There, RowKnown
<1>3. \A q \in Process \ {p} : ~Works(q, t)'
  BY <1>1, <1>2 DEF InOnePlace, WentOn, SameWorker
<1>4. \A p1, q \in Process : Works(p1, t)' /\ Works(q, t)' => p1 = q
  BY <1>3
<1>5. UNCHANGED producer[t] /\ SameJanitors(t) /\ SameOperator(t)
  BY DEF WentOn
<1>6. CASE worker[p].pc \in {"load", "mark", "handle", "again", "bury"}
  <2>1. There(t, "worker")'
    BY <1>6, WorkStaysKnown DEF There
  <2>2. \A x : There(t, x)' /\ x # "worker" => There(t, x)
    BY <1>5, <1>6, WorkStaysKnown, SamePlaces, PlaceNames
  <2>3. InOnePlace(t)'
    BY <1>1, <1>2, <1>4, <1>5, <1>6, <2>1, <2>2, WorkStaysKnown, MovesOn, StaysSingle DEF InOnePlace
  <2>. QED BY <1>6, <2>3, WorkStaysKnown, KnownThere DEF OnItsWay
<1>7. CASE worker[p].pc \in {"success", "schedule", "letter"}
  <2>1. ~There(t, "worker")'
    BY <1>3, <1>7 DEF There, WentOn
  <2>2. CASE worker[p].pc = "success"
    <3>1. SameLists(t)
      BY <2>2 DEF WentOn
    <3>2. \A x : ~There(t, x)'
      <4>1. \A x : There(t, x)' => There(t, x) /\ x # "worker"
        BY <1>5, <2>1, <3>1, SamePlaces, PlaceNames
      <4>. QED BY <1>1, <1>2, <4>1 DEF InOnePlace
    <3>3. InOnePlace(t)'
      BY <1>1, <1>4, <1>5, <3>1, <3>2, StaysSingle DEF InOnePlace
    <3>. QED BY <3>2, <3>3, KnownThere DEF OnItsWay
  <2>3. CASE worker[p].pc = "schedule"
    <3>1. SameQueue(t) /\ dead'[t] = dead[t] /\ There(t, "retry")' /\ SameRow(t)
      BY <2>3 DEF WentOn, There
    <3>2. \A x : There(t, x)' /\ x # "retry" => There(t, x)
      BY <1>5, <2>1, <3>1, SamePlaces, PlaceNames DEF There, SameQueue
    <3>3. InOnePlace(t)'
      <4>1. OnceQueued(t)' /\ dead'[t] <= 1
        BY <1>1, <3>1 DEF InOnePlace, SameQueue
      <4>. QED BY <1>1, <1>2, <1>4, <1>5, <2>1, <3>1, <3>2, <4>1, MovesOn, StaysSingle DEF InOnePlace
    <3>4. data'[t] = Pending(t)'
      BY <1>2, <2>3, <3>1 DEF WorkKnown, SameRow, Pending
    <3>. QED BY <3>1, <3>3, <3>4, KnownThere DEF OnItsWay
  <2>4. CASE worker[p].pc = "letter"
    <3>1. SameQueue(t) /\ (t \in retry' <=> t \in retry) /\ dead'[t] = dead[t] + 1 /\ SameRow(t)
      BY <2>4 DEF WentOn
    <3>2. dead[t] = 0
      BY <1>1, <1>2 DEF InOnePlace, There
    <3>3. There(t, "dead")' /\ dead'[t] <= 1
      BY <3>1, <3>2 DEF There
    <3>4. \A x : There(t, x)' /\ x # "dead" => There(t, x)
      BY <1>5, <2>1, <3>1, SamePlaces, PlaceNames DEF There, SameQueue
    <3>5. InOnePlace(t)'
      <4>1. OnceQueued(t)'
        BY <1>1, <3>1 DEF InOnePlace, SameQueue
      <4>. QED BY <1>1, <1>2, <1>4, <1>5, <2>1, <3>3, <3>4, <4>1, MovesOn, StaysSingle DEF InOnePlace
    <3>6. data'[t].status = "dead"
      BY <1>2, <2>4, <3>1 DEF WorkKnown, SameRow
    <3>. QED BY <3>3, <3>5, <3>6, KnownThere DEF OnItsWay
  <2>. QED BY <1>7, <2>2, <2>3, <2>4
<1>8. worker[p].pc \in {"load", "mark", "handle", "again", "bury", "success", "schedule", "letter"}
  BY DEF WentOn
<1>. QED BY <1>6, <1>7, <1>8

LEMMA GoesOnItsWay ==
  ASSUME Typed, Typed', NEW t \in Task, OnItsWay(t), Untouched(t) \/ Goes(t)
  PROVE  OnItsWay(t)'
BY UntouchedOn, StoredOn, PushedOn, ClaimedOn, TakenOn, PutDownOn, RevivedOn, WentOnOn DEF Goes

LEMMA OnItsWayStep ==
  ASSUME Typed, Typed', Next, NEW t \in Task \ met', OnItsWay(t)
  PROVE  OnItsWay(t)'
BY NextCourse, GoesOnItsWay DEF Concerns

LEMMA MetGrows ==
  ASSUME Next
  PROVE  met \subseteq met'
<1>1. ASSUME NEW p \in Process, WorkerStep(p) PROVE met \subseteq met'
  BY <1>1 DEF WorkerStep, HandlerReturns, Claim, Load, Orphan, Mark, Update, Schedule, DeadLetter,
              Release, Meets
<1>2. ASSUME NEW p \in Process, JanitorStep(p) PROVE met \subseteq met'
  BY <1>2 DEF JanitorStep, TakeDue, PutBack, Meets
<1>3. ASSUME OperatorStep PROVE met \subseteq met'
  BY <1>3 DEF OperatorStep, Undead, Renew, Requeue, Meets
<1>4. ASSUME NEW t \in Task, Enqueue(t) PROVE met \subseteq met'
  BY <1>4 DEF Enqueue, Store, Push, Fallback, Meets
<1>. QED BY <1>1, <1>2, <1>3, <1>4 DEF Next, Crash, ListDue, AskRequeue, Expire, ClearDead, history

LEMMA OnItsWayInit ==
  ASSUME Init, NEW t \in Task
  PROVE  OnItsWay(t)
<1>1. /\ ~InQueue(t) /\ t \notin retry /\ dead[t] = 0 /\ runs[t] = 0 /\ producer[t] = "no"
      /\ \A p \in Process : ~Works(p, t) /\ ~Carries(p, t)
      /\ \A pc \in {"renew", "requeue"} : ~Revives(t, pc)
      /\ OnceQueued(t)
  BY DEF Init, InQueue, Works, Carries, Revives, Idle, NoRequest, Resting, OnceQueued
<1>2. \A x : There(t, x) => x = "producer"
  BY <1>1 DEF There, Revives
<1>. QED BY <1>1, <1>2 DEF OnItsWay, InOnePlace, RowKnown

LEMMA OnItsWayStutter ==
  ASSUME UNCHANGED vars, NEW t \in Task, OnItsWay(t)
  PROVE  OnItsWay(t)'
<1>1. UNCHANGED <<queue, retry, dead, data, producer, worker, janitor, operator, runs>>
  BY DEF vars, lists, threads, history, tries
<1>2. Untouched(t)
  BY <1>1 DEF Untouched, SameRow, SameLists, SameQueue, InQueue, OnceQueued, SameWorkers, SameWorker,
              Works, SameJanitors, Carries, SameOperator, Revives
<1>. QED BY <1>2, UntouchedOn

LEMMA OnItsWayAlways ==
  Spec => [](Typed /\ \A t \in Task \ met : OnItsWay(t))
<1>. DEFINE IInv == Typed /\ \A t \in Task \ met : OnItsWay(t)
<1>1. Init => IInv
  BY TypedInit, OnItsWayInit
<1>2. IInv /\ [Next]_vars => IInv'
  <2>1. IInv /\ [Next]_vars => Typed'
    BY TypedStep, TypedStutter
  <2>2. ASSUME IInv, [Next]_vars, Typed', NEW t \in Task \ met' PROVE OnItsWay(t)'
    <3>1. t \in Task \ met
      BY <2>2, MetGrows DEF vars, history
    <3>2. OnItsWay(t)
      BY <2>2, <3>1
    <3>. QED BY <2>2, <3>1, <3>2, OnItsWayStep, OnItsWayStutter
  <2>. QED BY <2>1, <2>2
<1>. HIDE DEF IInv
<1>3. Spec => []IInv
  BY <1>1, <1>2, PTL DEF Spec
<1>. QED BY <1>3 DEF IInv

(* A task that met neither a fault nor a crossing command is run by one     *)
(* worker at a time, and while one runs it, it is in no other list: it is   *)
(* in one place at most, and there once, and what is stored of it fits that *)
(* place, so that no worker finds it without data or counts its attempts    *)
(* wrongly.                                                                 *)
THEOREM TasksRunAlone == Spec => []RunsAlone
<1>1. ASSUME Typed, NEW t \in Task, OnItsWay(t), NEW p \in Process,
             worker[p].task = t /\ WorkerAt(p, "handle")
      PROVE  /\ ~InQueue(t) /\ t \notin retry /\ dead[t] = 0
             /\ \A q \in Process \ {p} : worker[q].task = t => WorkerAt(q, "remove")
  <2>1. Works(p, t) /\ There(t, "worker")
    BY <1>1 DEF Works, WorkerAt, There
  <2>2. ~There(t, "queue") /\ ~There(t, "retry") /\ ~There(t, "dead")
    BY <1>1, <2>1 DEF OnItsWay, InOnePlace
  <2>3. ~InQueue(t) /\ t \notin retry /\ dead[t] = 0
    BY <1>1, <2>2 DEF There, Typed, ListsTyped
  <2>4. ASSUME NEW q \in Process \ {p}, worker[q].task = t PROVE WorkerAt(q, "remove")
    <3>1. ~Works(q, t)
      BY <1>1, <2>1 DEF OnItsWay, InOnePlace
    <3>2. worker[q].pc # "idle"
      BY <1>1, <2>4, NoneIsNoTask DEF Typed, ThreadsTyped, WorkerOK, Idle
    <3>. QED BY <2>4, <3>1, <3>2 DEF Works, WorkerAt
  <2>. QED BY <2>3, <2>4
<1>2. Typed /\ (\A t \in Task \ met : OnItsWay(t)) => RunsAlone
  BY <1>1 DEF RunsAlone
<1>. QED BY <1>2, OnItsWayAlways, PTL

-----------------------------------------------------------------------------
(* What the steps make of a task's life.                                    *)

\* life of a task that worker p works on, of one that nobody works on
WorkLife(pc) ==
  IF pc = "handle" THEN "running" ELSE IF pc = "success" THEN "done"
  ELSE IF pc \in {"bury", "letter"} THEN "dead" ELSE "waiting"
RowLife(status) ==
  IF status = "success" THEN "done" ELSE IF status = "dead" THEN "dead" ELSE "waiting"

LEMMA LifeKinds ==
  ASSUME NEW t
  PROVE  /\ LifeOf(t) \in {"new", "running", "done", "dead", "waiting"}
         /\ producer[t] # "yes" => LifeOf(t) = "new"
BY DEF LifeOf

LEMMA LifeAside ==
  ASSUME NEW t, producer[t] = "yes", \A p \in Process : ~Works(p, t)
  PROVE  LifeOf(t) = RowLife(data[t].status)
<1>1. ~Busy(t, {"handle"}) /\ ~Busy(t, {"success"}) /\ ~Busy(t, {"bury"})
  BY DEF Busy, Works
<1>. QED BY <1>1 DEF LifeOf, RowLife

LEMMA LifeAtWork ==
  ASSUME Typed, NEW t \in Task, OnItsWay(t), NEW p \in Process, Works(p, t)
  PROVE  LifeOf(t) = WorkLife(worker[p].pc)
<1>1. /\ \A q \in Process : Works(q, t) => q = p
      /\ WorkKnown(p, t)
  BY DEF OnItsWay, InOnePlace, RowKnown
<1>2. producer[t] = "yes"
  BY DEF OnItsWay, InOnePlace, There
<1>3. /\ Busy(t, {"handle"}) <=> worker[p].pc = "handle"
      /\ Busy(t, {"success"}) <=> worker[p].pc = "success"
      /\ Busy(t, {"bury"}) <=> worker[p].pc = "bury"
  BY <1>1 DEF Busy, Works
<1>4. CASE worker[p].pc \in {"handle", "success", "again", "bury"}
  <2>1. data[t].status = "processing"
    BY <1>1, <1>4 DEF WorkKnown
  <2>. QED BY <1>2, <1>3, <1>4, <2>1 DEF LifeOf, WorkLife
<1>5. CASE worker[p].pc = "letter"
  <2>1. data[t].status = "dead"
    BY <1>1, <1>5 DEF WorkKnown
  <2>. QED BY <1>2, <1>3, <1>5, <2>1 DEF LifeOf, WorkLife
<1>6. CASE worker[p].pc \in {"load", "mark", "schedule"}
  <2>1. data[t].status = "pending"
    BY <1>1, <1>6 DEF WorkKnown, Pending
  <2>. QED BY <1>2, <1>3, <1>6, <2>1 DEF LifeOf, WorkLife
<1>7. worker[p].pc \in WorkerPc \ {"idle", "remove", "orphan"}
  BY <1>1 DEF Typed, ThreadsTyped, Work, Works, WorkKnown
<1>. QED BY <1>4, <1>5, <1>6, <1>7 DEF WorkerPc

\* what is known of a life, in every state
LivesKnown ==
  \A t \in Task :
    /\ LifeOf(t) \in {"new", "running", "done", "dead", "waiting"}
    /\ producer[t] # "yes" => LifeOf(t) = "new"
    /\ producer[t] = "yes" /\ (\A p \in Process : ~Works(p, t)) => LifeOf(t) = RowLife(data[t].status)
    /\ Typed /\ OnItsWay(t) =>
         \A p \in Process : Works(p, t) => LifeOf(t) = WorkLife(worker[p].pc)

LEMMA LivesKnownNow == LivesKnown
BY LifeKinds, LifeAside, LifeAtWork DEF LivesKnown

LEMMA LivesKnownNext == LivesKnown'
BY LivesKnownNow, PTL

LEMMA SameLife ==
  ASSUME NEW t, SameRow(t), SameWorkers(t)
  PROVE  LifeOf(t)' = LifeOf(t) /\ runs'[t] = runs[t]
<1>1. \A pcs \in {{"handle"}, {"success"}, {"bury"}} : Busy(t, pcs)' <=> Busy(t, pcs)
  <2>1. ASSUME NEW pcs \in {{"handle"}, {"success"}, {"bury"}}, NEW p \in Process
        PROVE  /\ worker[p].task = t /\ worker[p].pc \in pcs <=> Works(p, t) /\ worker[p].pc \in pcs
               /\ worker'[p].task = t /\ worker'[p].pc \in pcs <=> Works(p, t)' /\ worker'[p].pc \in pcs
    BY DEF Works
  <2>. QED BY <2>1 DEF Busy, SameWorkers, SameWorker
<1>2. producer'[t] = producer[t] /\ data'[t] = data[t] /\ runs'[t] = runs[t]
  BY DEF SameRow
<1>. QED BY <1>1, <1>2 DEF LifeOf

LEMMA OtherLives ==
  ASSUME met \subseteq met', met' \subseteq Task,
         \A u \in Task \ met' : LifeOf(u)' = LifeOf(u) /\ runs'[u] = runs[u]
  PROVE  Life!Next
<1>1. Life!SetAdrift(met')
  BY DEF Life!SetAdrift
<1>. QED BY <1>1 DEF Life!Next

LEMMA LifeChanges ==
  ASSUME Typed, Typed', NEW t \in Task \ met, met' = met, \A u \in Task \ {t} : Untouched(u)
  PROVE  Life!Change(t, LifeOf(t), LifeOf(t)', runs'[t])
<1>1. \A u \in Task \ {t} : LifeOf(u)' = LifeOf(u) /\ runs'[u] = runs[u]
  BY SameLife DEF Untouched
<1>2. runs \in [Task -> Nat] /\ runs' \in [Task -> Nat]
  BY DEF Typed, HistoryTyped
<1>3. runs' = [runs EXCEPT ![t] = runs'[t]]
  BY <1>1, <1>2
<1>4. [u \in Task |-> LifeOf(u)'] = [[u \in Task |-> LifeOf(u)] EXCEPT ![t] = LifeOf(t)']
  BY <1>1
<1>. QED BY <1>3, <1>4 DEF Life!Change

\* a worker that goes on with t takes it one step along its life, or none
LEMMA WorkLives ==
  ASSUME Typed, Typed', NEW t \in Task \ met, met' = met, \A u \in Task \ {t} : Untouched(u),
         OnItsWay(t), OnItsWay(t)', NEW p \in Process, WentOn(p, t)
  PROVE  Life!Next \/ (LifeOf(t)' = LifeOf(t) /\ runs'[t] = runs[t])
<1>1. /\ Works(p, t) /\ WorkKnown(p, t) /\ producer[t] = "yes" /\ producer'[t] = "yes"
      /\ LifeOf(t) = WorkLife(worker[p].pc)
  BY LivesKnownNow DEF OnItsWay, RowKnown, InOnePlace, There, WentOn, LivesKnown
<1>2. Works(p, t)' => LifeOf(t)' = WorkLife(worker'[p].pc)
  BY LivesKnownNext DEF LivesKnown
<1>3. ~Works(p, t)' => LifeOf(t)' = RowLife(data'[t].status)
  <2>1. ~Works(p, t)' => \A q \in Process : ~Works(q, t)'
    BY <1>1 DEF WentOn, SameWorker, OnItsWay, InOnePlace
  <2>. QED BY <1>1, <2>1, LivesKnownNext DEF LivesKnown
<1>4. Life!Change(t, LifeOf(t), LifeOf(t)', runs'[t])
  BY LifeChanges
<1>5. CASE worker[p].pc = "load"
  <2>1. data[t] # None
    BY <1>1, <1>5 DEF WorkKnown, Pending, None
  <2>2. worker'[p].pc = "mark" /\ Works(p, t)' /\ runs'[t] = runs[t]
    BY <1>5, <2>1 DEF WentOn, SameRow
  <2>. QED BY <1>1, <1>2, <1>5, <2>2 DEF WorkLife
<1>6. CASE worker[p].pc = "mark"
  <2>1. worker'[p].pc = "handle" /\ Works(p, t)' /\ runs'[t] = runs[t] + 1
    BY <1>6 DEF WentOn
  <2>2. LifeOf(t) = "waiting" /\ LifeOf(t)' = "running"
    BY <1>1, <1>2, <1>6, <2>1 DEF WorkLife
  <2>3. Life!Run(t)
    BY <1>4, <2>1, <2>2 DEF Life!Run
  <2>. QED BY <2>3 DEF Life!Next
<1>7. CASE worker[p].pc = "handle"
  <2>1. LifeOf(t) = "running" /\ Works(p, t)' /\ runs'[t] = runs[t]
    BY <1>1, <1>7 DEF WorkLife, WentOn, SameRow
  <2>2. worker'[p].pc \in {"success", "again", "bury"} /\ WorkKnown(p, t)'
    BY <1>7, <2>1 DEF WentOn, Failed, OnItsWay, RowKnown
  <2>3. CASE worker'[p].pc = "success"
    <3>1. Life!Succeed(t)
      BY <1>2, <1>4, <2>1, <2>3 DEF WorkLife, Life!Succeed
    <3>. QED BY <3>1 DEF Life!Next
  <2>4. CASE worker'[p].pc = "again"
    <3>1. runs[t] < MaxRetries
      BY <2>1, <2>2, <2>4 DEF WorkKnown
    <3>2. Life!Retry(t)
      BY <1>2, <1>4, <2>1, <2>4, <3>1 DEF WorkLife, Life!Retry
    <3>. QED BY <3>2 DEF Life!Next
  <2>5. CASE worker'[p].pc = "bury"
    <3>1. runs[t] >= MaxRetries
      BY <2>1, <2>2, <2>5 DEF WorkKnown
    <3>2. Life!Bury(t)
      BY <1>2, <1>4, <2>1, <2>5, <3>1 DEF WorkLife, Life!Bury
    <3>. QED BY <3>2 DEF Life!Next
  <2>. QED BY <2>2, <2>3, <2>4, <2>5
<1>8. CASE worker[p].pc = "success"
  <2>1. ~Works(p, t)' /\ data'[t].status = "success" /\ runs'[t] = runs[t]
    BY <1>8 DEF WentOn, AfterStatus, StatusAt
  <2>. QED BY <1>1, <1>3, <1>8, <2>1 DEF WorkLife, RowLife
<1>9. CASE worker[p].pc = "again"
  <2>1. worker'[p].pc = "schedule" /\ Works(p, t)' /\ runs'[t] = runs[t]
    BY <1>9 DEF WentOn, AfterStatus
  <2>. QED BY <1>1, <1>2, <1>9, <2>1 DEF WorkLife
<1>10. CASE worker[p].pc = "bury"
  <2>1. worker'[p].pc = "letter" /\ Works(p, t)' /\ runs'[t] = runs[t]
    BY <1>10 DEF WentOn, AfterStatus
  <2>. QED BY <1>1, <1>2, <1>10, <2>1 DEF WorkLife
<1>11. CASE worker[p].pc \in {"schedule", "letter"}
  <2>1. ~Works(p, t)' /\ data'[t] = data[t] /\ runs'[t] = runs[t]
    BY <1>11 DEF WentOn, SameRow
  <2>2. data[t].status = IF worker[p].pc = "schedule" THEN "pending" ELSE "dead"
    BY <1>1, <1>11 DEF WorkKnown, Pending
  <2>. QED BY <1>1, <1>3, <1>11, <2>1, <2>2 DEF WorkLife, RowLife
<1>12. worker[p].pc \in {"load", "mark", "handle", "success", "again", "bury", "schedule", "letter"}
  BY DEF WentOn
<1>. QED BY <1>5, <1>6, <1>7, <1>8, <1>9, <1>10, <1>11, <1>12

LEMMA GoingLives ==
  ASSUME Typed, Typed', NEW t \in Task \ met, met' = met, \A u \in Task \ {t} : Untouched(u),
         OnItsWay(t), OnItsWay(t)', Untouched(t) \/ Goes(t)
  PROVE  Life!Next \/ (LifeOf(t)' = LifeOf(t) /\ runs'[t] = runs[t])
<1>1. Life!Change(t, LifeOf(t), LifeOf(t)', runs'[t])
  BY LifeChanges
<1>2. CASE Stored(t)
  BY <1>2, LivesKnownNow, LivesKnownNext DEF LivesKnown, Stored
<1>3. CASE Pushed(t)
  <2>1. There(t, "producer") /\ There(t, "queue")'
    BY <1>3 DEF Pushed, Queued, There
  <2>2. (\A q \in Process : ~Works(q, t)') /\ producer'[t] = "yes"
    BY <1>3, <2>1 DEF Pushed, OnItsWay, InOnePlace, There
  <2>3. data'[t].status = "pending" /\ runs'[t] = 0
    BY <1>3 DEF Pushed, OnItsWay, RowKnown, Pending
  <2>4. LifeOf(t) = "new" /\ LifeOf(t)' = "waiting"
    BY <1>3, <2>2, <2>3, LivesKnownNow, LivesKnownNext DEF LivesKnown, RowLife, Pushed
  <2>5. Life!Submit(t)
    BY <1>1, <2>3, <2>4 DEF Life!Submit
  <2>. QED BY <2>5 DEF Life!Next
<1>4. CASE Renewed(t)
  <2>1. There(t, "operator") /\ There(t, "operator")'
    BY <1>4 DEF Renewed, There, Revives
  <2>2. producer[t] = "yes" /\ \A q \in Process : ~Works(q, t)
    BY <2>1 DEF OnItsWay, InOnePlace, There
  <2>3. producer'[t] = "yes" /\ \A q \in Process : ~Works(q, t)'
    BY <2>1 DEF OnItsWay, InOnePlace, There
  <2>4. data[t].status = "dead" /\ data'[t].status = "pending" /\ runs'[t] = 0
    BY <1>4 DEF Renewed, OnItsWay, RowKnown
  <2>5. LifeOf(t) = "dead" /\ LifeOf(t)' = "waiting"
    BY <2>2, <2>3, <2>4, LivesKnownNow, LivesKnownNext DEF LivesKnown, RowLife
  <2>6. Life!Revive(t)
    BY <1>1, <2>4, <2>5 DEF Life!Revive
  <2>. QED BY <2>6 DEF Life!Next
<1>5. ASSUME NEW p \in Process, Claimed(p, t) PROVE LifeOf(t)' = LifeOf(t) /\ runs'[t] = runs[t]
  <2>1. SameRow(t) /\ Works(p, t)' /\ worker'[p].pc = "load" /\ There(t, "queue")
    BY <1>5 DEF Claimed, There
  <2>2. producer[t] = "yes" /\ (\A q \in Process : ~Works(q, t)) /\ data[t].status = "pending"
    BY <2>1 DEF OnItsWay, InOnePlace, There, RowKnown, Pending
  <2>3. LifeOf(t) = "waiting" /\ LifeOf(t)' = "waiting"
    BY <2>1, <2>2, LivesKnownNow, LivesKnownNext DEF LivesKnown, RowLife, WorkLife
  <2>. QED BY <2>1, <2>3 DEF SameRow
<1>6. ASSUME NEW p \in Process, WentOn(p, t)
      PROVE  Life!Next \/ (LifeOf(t)' = LifeOf(t) /\ runs'[t] = runs[t])
  BY <1>6, WorkLives
<1>7. ASSUME \/ Untouched(t) \/ TakenOffDead(t) \/ Requeued(t)
             \/ \E p \in Process : Taken(p, t) \/ PutDown(p, t)
      PROVE  LifeOf(t)' = LifeOf(t) /\ runs'[t] = runs[t]
  <2>1. SameRow(t) /\ SameWorkers(t)
    BY <1>7 DEF Untouched, TakenOffDead, Requeued, Taken, PutDown
  <2>. QED BY <2>1, SameLife
<1>. QED BY <1>2, <1>3, <1>4, <1>5, <1>6, <1>7 DEF Goes

LEMMA LifeStep ==
  ASSUME Typed, Typed', \A t \in Task \ met : OnItsWay(t), \A t \in Task \ met' : OnItsWay(t)', Next
  PROVE  Life!Next
<1>1. met \subseteq met' /\ met' \subseteq Task
  BY MetGrows DEF Typed, HistoryTyped
<1>2. \A u \in Task : Untouched(u) => LifeOf(u)' = LifeOf(u) /\ runs'[u] = runs[u]
  BY SameLife DEF Untouched
<1>3. CASE \A u \in Task \ met' : Untouched(u)
  BY <1>1, <1>2, <1>3, OtherLives
<1>4. ASSUME NEW t \in Task, Concerns(t) PROVE Life!Next
  <2>1. \A u \in Task \ {t} : Untouched(u)
    BY <1>4 DEF Concerns
  <2>2. CASE t \in met'
    BY <1>1, <1>2, <2>1, <2>2, OtherLives
  <2>3. CASE t \notin met'
    <3>1. met' = met /\ (Untouched(t) \/ Goes(t)) /\ t \in Task \ met
      BY <1>4, <2>3 DEF Concerns
    <3>2. OnItsWay(t) /\ OnItsWay(t)'
      BY <3>1
    <3>3. Life!Next \/ (LifeOf(t)' = LifeOf(t) /\ runs'[t] = runs[t])
      BY <2>1, <3>1, <3>2, GoingLives
    <3>4. ASSUME LifeOf(t)' = LifeOf(t) /\ runs'[t] = runs[t] PROVE Life!Next
      BY <1>1, <1>2, <2>1, <3>4, OtherLives
    <3>. QED BY <3>3, <3>4
  <2>. QED BY <2>2, <2>3
<1>. QED BY <1>3, <1>4, NextCourse

(* A task that met neither a fault nor a crossing command goes the way      *)
(* TaskLife says, whatever happens to the other tasks: it is run one        *)
(* attempt after the other, counted rightly, is dead after the last and     *)
(* never before, and runs again then only when the operator revives it.     *)
THEOREM LifeImplemented == Spec => LifeSpec
<1>. DEFINE IInv == Typed /\ \A t \in Task \ met : OnItsWay(t)
<1>1. Init => Life!Init
  BY LivesKnownNow DEF Init, LivesKnown, Life!Init
<1>2. IInv /\ IInv' /\ [Next]_vars => [Life!Next]_(Life!lifeVars)
  <2>1. CASE UNCHANGED vars
    <3>1. UNCHANGED <<producer, worker, data, runs, met>>
      BY <2>1 DEF vars, threads, history, tries
    <3>2. \A t \in Task : LifeOf(t)' = LifeOf(t)
      BY <3>1 DEF LifeOf, Busy
    <3>. QED BY <3>1, <3>2 DEF Life!lifeVars
  <2>2. ASSUME IInv, IInv', Next PROVE Life!Next
    BY <2>2, LifeStep
  <2>. QED BY <2>1, <2>2
<1>. HIDE DEF IInv
<1>3. Spec => []IInv
  BY OnItsWayAlways DEF IInv
<1>. QED BY <1>1, <1>2, <1>3, PTL DEF Spec, LifeSpec, Life!Spec
=============================================================================
