----------------------------- MODULE TaskQueue ------------------------------
(***************************************************************************)
(* The background task queue (taskqueue/TaskQueue.cc), enabled and with    *)
(* Redis configured.  Several processes share the Redis lists of one task  *)
(* type; each has a worker thread and a janitor thread.  Every step is one *)
(* Redis command: its outcome is "ok", "failed" (not carried out), or      *)
(* "lost" (carried out, but the reply did not come), and a thread's later  *)
(* commands on the same broken connection fail too.                        *)
(*                                                                         *)
(* reapStuckTasks reads the field data_started, which no command writes,   *)
(* so it finds every task unstarted and changes nothing: it has no action. *)
(* Logs and counters are left out.                                         *)
(***************************************************************************)
EXTENDS Integers, Sequences, SequencesExt

CONSTANTS
  Process,     \* processes that share the Redis server
  Task,        \* task ids
  Home,        \* Home[t]: the process whose enqueue is called with t
  MaxRetries,  \* maxRetries: attempts a task is given
  MaxEvents,   \* bound on the events: commands that fail, expiries, requests of the
               \* operator, and processes that end; the last of them is the end of
               \* a process
  MaxRuns      \* bound on the runs of a task that has been doubled

ASSUME TaskQueueAssumption ==
  /\ IsFiniteSet(Process) /\ Home \in [Task -> Process]
  /\ {MaxRetries, MaxEvents, MaxRuns} \subseteq Nat
  /\ MaxRuns >= MaxRetries

VARIABLES
  queue,       \* queue:<type>, added to at the head and taken from at the end
  processing,  \* processing[t]: how often t is in queue:<type>:processing
  retry,       \* queue:<type>:retry
  dead,        \* dead[t]: how often t is in queue:<type>:dead
  data,        \* data[t]: task:<id>, its status and retries
  memory,      \* memPending_ and memTaskData_ of the processes, where a producer
               \* puts a task Redis did not take: t can only be in Home[t]'s
  producer,    \* producer[t]: enqueue's progress with t
  worker,      \* worker[p]: the worker thread of p
  janitor,     \* janitor[p]: the ids the janitor of p has read and still has to
               \* move, the one it has taken out, and whether the ZREM found it
  operator,    \* the operator's requeueDeadLetter, and the process that serves it
  events,      \* faults and requests of the operator so far
  runs,        \* history: runs[t]: handler calls since t was last submitted
  finished,    \* history: tasks whose handler has succeeded
  met,         \* history: tasks that met a fault, or commands that crossed
  mislaid      \* history: tasks taken out of one list and not put into the next

lists == <<queue, processing, retry, dead>>
threads == <<producer, worker, janitor, operator>>
tries == <<runs, finished>>
history == <<tries, met, mislaid>>
vars == <<lists, data, memory, threads, events, history>>

None == [status |-> "none", retries |-> 0]
ASSUME NoneIsNoTask == None \notin Task

Idle == [pc |-> "idle", task |-> None, retries |-> 0]
Resting == [ids |-> {}, held |-> {}, found |-> TRUE]
NoRequest == [pc |-> "idle", task |-> None, by |-> None]

Outcome == {"ok", "lost", "failed"}
Done(o) == o # "failed"       \* the command was carried out
Seen(o) == o = "ok"           \* the caller got its reply

MayHappen == events + 1 < MaxEvents

\* a command on task t with outcome o; ts are mislaid by it, ms meet trouble
Meets(t, o, ts, ms) ==
  /\ o = "ok" \/ MayHappen
  /\ events' = IF o = "ok" THEN events ELSE events + 1
  /\ met' = met \cup ts \cup ms \cup (IF o = "ok" THEN {} ELSE {t})
  /\ mislaid' = mislaid \cup ts

Set(t, status, retries) ==
  data' = [data EXCEPT ![t] = [status |-> status, retries |-> retries]]
SetIf(cond, t, status, retries) ==
  IF cond THEN Set(t, status, retries) ELSE UNCHANGED data

LessThanNone(bag, t) == [bag EXCEPT ![t] = @ - 1]
Less(bag, t) == [bag EXCEPT ![t] = IF @ = 0 THEN 0 ELSE @ - 1]   \* LREM key 1 id
NoMore(bag, t) == bag
More(bag, t) == [bag EXCEPT ![t] = @ + 1]

-----------------------------------------------------------------------------
(* enqueue: HSET the task, LPUSH its id; whatever fails, the task goes into *)
(* this process's memory, where workers that use Redis do not look.         *)
Fallback(t, o) ==
  /\ memory' = IF Seen(o) THEN memory ELSE memory \cup {t}
  /\ Meets(t, o, {}, {})

Store(t, o) ==
  /\ producer[t] = "no"
  /\ SetIf(Done(o), t, "pending", 0)
  /\ producer' = [producer EXCEPT ![t] = IF Seen(o) THEN "push" ELSE "yes"]
  /\ Fallback(t, o)
  /\ UNCHANGED <<lists, worker, janitor, operator, tries>>

Push(t, o) ==
  /\ producer[t] = "push"
  /\ queue' = IF Done(o) THEN <<t>> \o queue ELSE queue
  /\ producer' = [producer EXCEPT ![t] = "yes"]
  /\ Fallback(t, o)
  /\ UNCHANGED <<processing, retry, dead, data, worker, janitor, operator, tries>>

-----------------------------------------------------------------------------
WorkerAt(p, pc) == worker[p].pc = pc
WorkerTo(p, pc) == worker' = [worker EXCEPT ![p].pc = pc]
WorkerRests(p) == worker' = [worker EXCEPT ![p] = Idle]
Others == <<memory, producer, janitor, operator>>

\* tryClaimNext: RPOPLPUSH from queue to processing, ...
Claim(p, o) ==
  /\ WorkerAt(p, "idle") /\ queue # <<>>
  /\ LET t == Last(queue) IN
       /\ runs[t] < MaxRuns
       /\ queue' = IF Done(o) THEN Front(queue) ELSE queue
       /\ processing' = IF Done(o) THEN More(processing, t) ELSE processing
       /\ IF Seen(o) THEN worker' = [worker EXCEPT ![p] = [Idle EXCEPT !.pc = "load", !.task = t]]
                     ELSE UNCHANGED worker
       /\ Meets(t, o, {}, {})
  /\ UNCHANGED <<retry, dead, data, Others, tries>>

\* ... HGET data; a task without data is an orphan and taken out of processing
Load(p, o) ==
  LET t == worker[p].task IN
  /\ WorkerAt(p, "load")
  /\ IF Seen(o)
     THEN worker' = [worker EXCEPT ![p].pc = IF data[t] = None THEN "orphan" ELSE "mark",
                                   ![p].retries = data[t].retries]
     ELSE WorkerRests(p)
  /\ Meets(t, o, {}, {})
  /\ UNCHANGED <<lists, data, Others, tries>>

Orphan(p, o) ==
  LET t == worker[p].task IN
  /\ WorkerAt(p, "orphan")
  /\ processing' = IF Done(o) THEN Less(processing, t) ELSE processing
  /\ WorkerRests(p)
  /\ Meets(t, o, IF Done(o) THEN {t} ELSE {}, {})
  /\ UNCHANGED <<queue, retry, dead, data, Others, tries>>

\* redisUpdateStatus(PROCESSING), then the handler is called
Mark(p, o) ==
  LET t == worker[p].task IN
  /\ WorkerAt(p, "mark")
  /\ SetIf(Done(o), t, "processing", worker[p].retries)
  /\ WorkerTo(p, "handle")
  /\ runs' = [runs EXCEPT ![t] = @ + 1] /\ UNCHANGED finished
  /\ Meets(t, o, {}, {})
  /\ UNCHANGED <<lists, Others>>

\* ackFailure: another attempt, or the dead-letter list
FailedOneLate(retries) == IF retries + 1 > MaxRetries THEN "bury" ELSE "again"
Failed(retries) == IF retries + 1 >= MaxRetries THEN "bury" ELSE "again"

HandlerReturns(p) ==
  /\ WorkerAt(p, "handle")
  /\ \/ /\ WorkerTo(p, "success")
        /\ finished' = finished \cup {worker[p].task}
     \/ /\ worker' = [worker EXCEPT ![p].pc = Failed(worker[p].retries), ![p].retries = @ + 1]
        /\ UNCHANGED finished
  /\ UNCHANGED <<lists, data, Others, events, runs, met, mislaid>>

\* redisUpdateStatus, in ackSuccess, scheduleRetry and moveToDeadLetter
StatusAt(pc) ==
  CASE pc = "success" -> "success" [] pc = "again" -> "pending" [] pc = "bury" -> "dead"
AfterStatusForgetful(pc) == IF pc = "bury" THEN "letter" ELSE "remove"
AfterStatus(pc) ==
  CASE pc = "success" -> "remove" [] pc = "again" -> "schedule" [] pc = "bury" -> "letter"

Update(p, o) ==
  LET t == worker[p].task
      pc == worker[p].pc IN
  /\ pc \in {"success", "again", "bury"}
  /\ SetIf(Done(o), t, StatusAt(pc), worker[p].retries)
  /\ WorkerTo(p, AfterStatus(pc))
  /\ Meets(t, o, {}, {})
  /\ UNCHANGED <<lists, Others, tries>>

\* ZADD of scheduleRetry, LPUSH of moveToDeadLetter; the result is ignored
Schedule(p, o) ==
  LET t == worker[p].task IN
  /\ WorkerAt(p, "schedule")
  /\ retry' = IF Done(o) THEN retry \cup {t} ELSE retry
  /\ WorkerTo(p, "remove")
  /\ Meets(t, o, IF Done(o) THEN {} ELSE {t}, {})
  /\ UNCHANGED <<queue, processing, dead, data, Others, tries>>

DeadLetter(p, o) ==
  LET t == worker[p].task IN
  /\ WorkerAt(p, "letter")
  /\ dead' = IF Done(o) THEN More(dead, t) ELSE dead
  /\ WorkerTo(p, "remove")
  /\ Meets(t, o, IF Done(o) THEN {} ELSE {t}, {})
  /\ UNCHANGED <<queue, processing, retry, data, Others, tries>>

\* LREM processing 1 id, the last command of ackSuccess and ackFailure
Release(p, o) ==
  LET t == worker[p].task IN
  /\ WorkerAt(p, "remove")
  /\ processing' = IF Done(o) THEN Less(processing, t) ELSE processing
  /\ WorkerRests(p)
  /\ Meets(t, o, {}, {})
  /\ UNCHANGED <<queue, retry, dead, data, Others, tries>>

-----------------------------------------------------------------------------
(* janitorLoop: ZRANGEBYSCORE the retries that are due, then for each ZREM  *)
(* and LPUSH, all on one connection; the ZREM's answer is not looked at.    *)
NotJanitor == <<processing, dead, data, memory, producer, worker, operator, tries>>

ListDue(p, ts) ==
  /\ janitor[p] = Resting /\ ts # {} /\ ts \subseteq retry
  /\ janitor' = [janitor EXCEPT ![p].ids = ts]
  /\ UNCHANGED <<queue, retry, NotJanitor, events, met, mislaid>>

KeptInRetry(t) == retry
TakenFromRetry(t) == retry \ {t}

TakeDue(p, t, o) ==
  /\ t \in janitor[p].ids /\ janitor[p].held = {}
  /\ retry' = IF Done(o) THEN TakenFromRetry(t) ELSE retry
  /\ janitor' = [janitor EXCEPT ![p] =
       IF Seen(o) THEN [ids |-> @.ids \ {t}, held |-> {t}, found |-> t \in retry] ELSE Resting]
  /\ Meets(t, o, IF o = "lost" /\ t \in retry THEN {t} ELSE {}, {})
  /\ UNCHANGED <<queue, NotJanitor>>

PutBack(p, t, o) ==
  LET j == janitor[p] IN
  /\ t \in j.held
  /\ queue' = IF Done(o) THEN <<t>> \o queue ELSE queue
  /\ janitor' = [janitor EXCEPT ![p] =
       IF Seen(o) THEN [ids |-> j.ids, held |-> {}, found |-> TRUE] ELSE Resting]
  /\ Meets(t, o, IF ~Done(o) /\ j.found THEN {t} ELSE {}, IF j.found THEN {} ELSE {t})
  /\ UNCHANGED <<retry, NotJanitor>>

-----------------------------------------------------------------------------
(* requeueDeadLetter, of any id that has data, in Redis or in the memory of *)
(* the process that serves the request: LREM dead, HSET, LPUSH.             *)
InMemory(p) == {t \in memory : Home[t] = p}
NotOperator == <<processing, retry, memory, producer, worker, janitor>>

AskRequeue(p, t) ==
  /\ operator = NoRequest /\ MayHappen
  /\ producer[t] = "yes"
  /\ data[t] # None \/ t \in InMemory(p)
  /\ operator' = [pc |-> "undead", task |-> t, by |-> p]
  /\ events' = events + 1
  /\ UNCHANGED <<queue, dead, data, NotOperator, history>>

Undead(o) ==
  LET t == operator.task IN
  /\ operator.pc = "undead"
  /\ dead' = IF Done(o) THEN Less(dead, t) ELSE dead
  /\ operator' = [operator EXCEPT !.pc = "renew"]
  /\ Meets(t, o, {}, IF dead[t] = 0 THEN {t} ELSE {})
  /\ UNCHANGED <<queue, data, NotOperator, tries>>

Renew(o) ==
  LET t == operator.task IN
  /\ operator.pc = "renew"
  /\ SetIf(Done(o), t, "pending", 0)
  /\ operator' = [operator EXCEPT !.pc = "requeue"]
  /\ runs' = [runs EXCEPT ![t] = 0] /\ finished' = finished \ {t}
  /\ Meets(t, o, {}, {})
  /\ UNCHANGED <<queue, dead, NotOperator>>

Requeue(o) ==
  LET t == operator.task IN
  /\ operator.pc = "requeue"
  /\ queue' = IF Done(o) THEN <<t>> \o queue ELSE queue
  /\ operator' = NoRequest
  /\ Meets(t, o, IF Done(o) THEN {} ELSE {t}, {})
  /\ UNCHANGED <<dead, data, NotOperator, tries>>

\* clearDeadLetter: DEL
ClearDead ==
  LET ts == {t \in Task : dead[t] > 0} IN
  /\ ts # {} /\ MayHappen
  /\ dead' = [t \in Task |-> 0]
  /\ events' = events + 1
  /\ met' = met \cup ts /\ mislaid' = mislaid \cup ts
  /\ UNCHANGED <<queue, data, NotOperator, operator, tries>>

-----------------------------------------------------------------------------
(* A process ends, and is started again: its threads stop between any two   *)
(* commands, and what it had in memory is gone.                             *)
InQueue(t) == \E i \in DOMAIN queue : queue[i] = t
Waits(t) == InQueue(t) \/ t \in retry \/ dead[t] > 0

\* what process p has in its hands or in memory, and what of it is nowhere else
Served(p) == IF operator.by = p THEN {operator.task} ELSE {}
Submitting(p) == {t \in Task : producer[t] = "push" /\ Home[t] = p}
InHand(p) ==
  ({worker[p].task} \cup janitor[p].ids \cup janitor[p].held \cup Served(p)
     \cup Submitting(p) \cup InMemory(p)) \ {None}
OutOfLists(p) ==
  (IF janitor[p].found THEN janitor[p].held ELSE {})
    \cup (IF operator.pc \in {"renew", "requeue"} THEN Served(p) ELSE {})
    \cup {t \in InMemory(p) : ~Waits(t)}

Crash(p) ==
  /\ events < MaxEvents /\ InHand(p) # {}
  /\ events' = events + 1
  /\ WorkerRests(p)
  /\ janitor' = [janitor EXCEPT ![p] = Resting]
  /\ producer' = [t \in Task |-> IF t \in Submitting(p) THEN "cut" ELSE producer[t]]
  /\ operator' = IF operator.by = p THEN NoRequest ELSE operator
  /\ memory' = memory \ InMemory(p)
  /\ met' = met \cup InHand(p)
  /\ mislaid' = mislaid \cup OutOfLists(p)
  /\ UNCHANGED <<lists, data, tries>>

\* EXPIRE task:<id> taskTtl: a day after the last update the data is gone
Expire(t) ==
  /\ MayHappen /\ data[t] # None
  /\ events' = events + 1
  /\ data' = [data EXCEPT ![t] = None]
  /\ met' = met \cup {t}
  /\ UNCHANGED <<lists, memory, threads, tries, mislaid>>

-----------------------------------------------------------------------------
WorkerStep(p) ==
  \/ HandlerReturns(p)
  \/ \E o \in Outcome :
       \/ Claim(p, o) \/ Load(p, o) \/ Orphan(p, o) \/ Mark(p, o)
       \/ Update(p, o) \/ Schedule(p, o) \/ DeadLetter(p, o) \/ Release(p, o)

JanitorStep(p) == \E t \in Task, o \in Outcome : TakeDue(p, t, o) \/ PutBack(p, t, o)
OperatorStep == \E o \in Outcome : Undead(o) \/ Renew(o) \/ Requeue(o)
Enqueue(t) == \E o \in Outcome : Store(t, o) \/ Push(t, o)

Init ==
  /\ queue = <<>> /\ retry = {} /\ memory = {}
  /\ processing = [t \in Task |-> 0] /\ dead = [t \in Task |-> 0]
  /\ data = [t \in Task |-> None]
  /\ producer = [t \in Task |-> "no"]
  /\ worker = [p \in Process |-> Idle]
  /\ janitor = [p \in Process |-> Resting]
  /\ operator = NoRequest
  /\ events = 0
  /\ runs = [t \in Task |-> 0] /\ finished = {} /\ met = {} /\ mislaid = {}

Next ==
  \/ \E p \in Process : WorkerStep(p) \/ JanitorStep(p) \/ Crash(p)
  \/ \E p \in Process, t \in Task : AskRequeue(p, t)
  \/ \E p \in Process, ts \in SUBSET Task : ListDue(p, ts)
  \/ \E t \in Task : Enqueue(t) \/ Expire(t)
  \/ OperatorStep \/ ClearDead

Spec == Init /\ [][Next]_vars

(* The threads of a live process run on, a handler returns, a producer that *)
(* has begun goes on, and a retry falls due and is listed in the end.       *)
Fairness ==
  /\ \A p \in Process : WF_vars(WorkerStep(p)) /\ WF_vars(JanitorStep(p))
  /\ \A t \in Task : WF_vars(\E o \in Outcome : Push(t, o))
  /\ \A t \in Task : SF_vars(\E p \in Process, ts \in SUBSET Task : t \in ts /\ ListDue(p, ts))
  /\ WF_vars(OperatorStep)

FairSpec == Spec /\ Fairness

-----------------------------------------------------------------------------
(* Every variable has its type.                                             *)
TypeOK ==
  /\ queue \in Seq(Task) /\ retry \subseteq Task /\ memory \subseteq Task
  /\ processing \in [Task -> Nat] /\ dead \in [Task -> Nat]
  /\ data \in [Task -> [status : {"none", "pending", "processing", "success", "dead"},
                        retries : Nat]]
  /\ producer \in [Task -> {"no", "push", "yes", "cut"}]
  /\ \A p \in Process :
       /\ worker[p].task \in Task \cup {None}
       /\ WorkerAt(p, "idle") <=> worker[p] = Idle
       /\ janitor[p].ids \subseteq Task /\ janitor[p].held \subseteq Task
  /\ runs \in [Task -> Nat] /\ finished \subseteq Task /\ met \subseteq Task /\ mislaid \subseteq met

(* A task that was accepted and is not done is in one of the lists, in the  *)
(* memory of the process it was given to, or just being moved.  Excepted    *)
(* are those that were mislaid: the janitor's or the operator's thread was  *)
(* cut, or its link lost, between taking a task out of one list and putting *)
(* it into the next; the ZADD, the LPUSH of a dead letter or of a requeued  *)
(* task failed; its data had expired; the dead letters were cleared; or it  *)
(* waited in no list when the process ended that had it in memory.  A       *)
(* worker that ends, wherever it is, makes no task disappear: its entry     *)
(* stays in processing.  Being there is all that is said: nothing takes it  *)
(* back, for reapStuckTasks (TaskQueue.cc:849), which is meant to           *)
(* (TaskQueue.h:21), finds no task that has started.                        *)
BeingMoved(t) ==
  \/ \E p \in Process : t \in janitor[p].held
  \/ operator.task = t /\ operator.pc \in {"renew", "requeue"}

NothingVanishes ==
  \A t \in Task \ mislaid :
    producer[t] = "yes" =>
      \/ t \in finished
      \/ Waits(t) \/ processing[t] > 0 \/ t \in memory
      \/ BeingMoved(t)

(* A task that met neither a fault nor a crossing command is run by one     *)
(* worker at a time, and while one runs it, it is in no other list.         *)
RunsAlone ==
  \A t \in Task \ met, p \in Process :
    worker[p].task = t /\ WorkerAt(p, "handle") =>
      /\ ~InQueue(t) /\ t \notin retry /\ dead[t] = 0
      /\ \A q \in Process \ {p} : worker[q].task = t => WorkerAt(q, "remove")

(* Such a task is settled in the end: done, or among the dead letters.      *)
Settled(t) == data[t].status = "success" \/ dead[t] > 0
Settles == \A t \in Task : producer[t] = "yes" ~> Settled(t) \/ t \in met

(* And it goes the way TaskLife says: one attempt after the other, dead     *)
(* after the last, revived only by the operator.                            *)
Busy(t, pcs) == \E p \in Process : worker[p].task = t /\ worker[p].pc \in pcs

LifeOf(t) ==
  IF producer[t] # "yes" THEN "new"
  ELSE IF Busy(t, {"handle"}) THEN "running"
  ELSE IF Busy(t, {"success"}) \/ data[t].status = "success" THEN "done"
  ELSE IF Busy(t, {"bury"}) \/ data[t].status = "dead" THEN "dead"
  ELSE "waiting"

Life == INSTANCE TaskLife WITH
  life <- [t \in Task |-> LifeOf(t)],
  attempts <- runs,
  adrift <- met

LifeSpec == Life!Spec
=============================================================================
