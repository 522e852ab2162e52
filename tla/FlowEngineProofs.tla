-------------------------- MODULE FlowEngineProofs --------------------------
(***************************************************************************)
(* Machine-checked theorems about FlowEngine, for every number of threads, *)
(* every list of nodes, keys and assignees, and every bound.               *)
(***************************************************************************)
EXTENDS FlowEngine, SequenceTheorems, FiniteSetTheorems, TLAPS

-----------------------------------------------------------------------------
(* The inductive invariant, part by part.                                   *)

Status == Ended \cup {"running"}
TaskStatus == {"pending", "approved", "rejected", "skipped"}
InstRow == [status : Status, node : 0 .. Last, vars : SUBSET Nat]
TaskRow == [inst : Nat, node : Node, by : Nat, status : TaskStatus]

Asking == {"instance", "approve", "vars", "define", "count", "skipNode", "advance", "finish"}
Ending == {"end", "cancel", "skipAll"}
Pc == {"idle", "insert", "max", "tasks", "reject"} \cup Asking \cup Ending
Req == [pc : Pc, inst : Nat, task : Nat, node : 0 .. Last, left : Seq(Nat), seen : SUBSET Nat]

\* the rows and the requests are records of the right kind
Typed ==
  /\ def \in {"usable", "empty", "gone"} /\ keys \in Keyings
  /\ insts \in Seq(InstRow) /\ tasks \in Seq(TaskRow)
  /\ req \in [Thread -> Req]
  /\ faults \in 0 .. MaxEvents

\* unless i has gone back, a task at k for u is one of node k, not of another with its key
Invited(i, k, u) == i \in returned \/ u \in People(k)

TasksInvited ==
  \A t \in TaskId : /\ tasks[t].inst <= Len(insts)
                    /\ Invited(tasks[t].inst, tasks[t].node, tasks[t].by)

\* an id names an existing row
IdsOK ==
  /\ \A i \in Started : insts[i].vars \subseteq TaskId
  /\ TasksInvited
  /\ \A r \in Thread :
       req[r].inst <= Len(insts) /\ req[r].task <= Len(tasks) /\ req[r].seen \subseteq TaskId
  /\ said \subseteq Started \X Node \X Nat
  /\ crowded \subseteq 0 .. Len(insts) /\ spoiled \subseteq 0 .. Len(insts)
  /\ returned \subseteq Started

\* what a request knows at each of its statements
DecidesTask(r) ==
  /\ req[r].task \in TaskId
  /\ req[r].inst = tasks[req[r].task].inst
  /\ req[r].node = tasks[req[r].task].node

Placed(r) ==
  /\ req[r].pc \in Asking \cup {"reject"} => DecidesTask(r)
  /\ req[r].pc \in (Asking \ {"instance"}) \cup Ending \cup {"reject"} => req[r].inst \in Started
  /\ At(r, "advance") => req[r].node < Last
  /\ At(r, "finish") => req[r].node = Last
  /\ At(r, "tasks") => /\ req[r].node \in Node /\ req[r].left # <<>>
                       /\ \A a \in DOMAIN req[r].left :
                            Invited(req[r].inst, req[r].node, req[r].left[a])
  /\ req[r].pc \in {"insert", "max"} => req[r].node \in 0 .. 1

AllPlaced == \A r \in Thread : Placed(r)

Shape == Typed /\ IdsOK /\ AllPlaced

-----------------------------------------------------------------------------
(* Constants and rows.                                                      *)

LEMMA Definition ==
  /\ Last \in Nat \ {0} /\ Node = DOMAIN Assignees /\ 1 \in Node
  /\ \A k \in Node : Assignees[k] \in Seq(Nat) /\ Assignees[k] # <<>>
  /\ \A k \in Node : Assignees[k] # <<>> /\ DOMAIN Assignees[k] = 1 .. Len(Assignees[k])
  /\ \A k \in Node : People(k) = {Assignees[k][a] : a \in DOMAIN Assignees[k]}
  /\ \A k \in Node : People(k) \subseteq Nat
<1>. DEFINE Column == Seq(Nat) \ {<<>>}
<1>1. Assignees \in Seq(Column) /\ Assignees # <<>>
  BY FlowEngineAssumption
<1>. HIDE DEF Column
<1>2. Last \in Nat \ {0} /\ Node = DOMAIN Assignees
  BY <1>1, LenProperties, EmptySeq DEF Last, Node
<1>3. \A k \in Node : Assignees[k] \in Column
  BY <1>1, ElementOfSeq DEF Node, Last
<1>4. \A k \in Node : Assignees[k] \in Seq(Nat) /\ Assignees[k] # <<>>
  BY <1>3 DEF Column
<1>5. \A k \in Node : DOMAIN Assignees[k] = 1 .. Len(Assignees[k])
  BY <1>4, LenProperties
<1>6. \A k \in Node : \A a \in DOMAIN Assignees[k] : Assignees[k][a] \in Nat
  BY <1>4, <1>5, ElementOfSeq
<1>7. \A k \in Node : People(k) \subseteq Nat
  BY <1>6 DEF People
<1>. QED BY <1>2, <1>4, <1>5, <1>7 DEF People, Node

LEMMA KeyIsNode ==
  ASSUME Typed, NEW k \in Node
  PROVE  keys[k] \in Node /\ keys[k] <= k
BY DEF Typed, Keyings

LEMMA RowsTyped ==
  ASSUME Typed
  PROVE  /\ Len(insts) \in Nat /\ Len(tasks) \in Nat
         /\ DOMAIN insts = Started /\ DOMAIN tasks = TaskId
         /\ \A i \in Started : insts[i] \in InstRow
         /\ \A t \in TaskId : tasks[t] \in TaskRow
         /\ \A r \in Thread : req[r] \in Req
<1>1. insts \in Seq(InstRow) /\ tasks \in Seq(TaskRow)
  BY DEF Typed
<1>2. Len(insts) \in Nat /\ DOMAIN insts = Started /\ \A i \in Started : insts[i] \in InstRow
  BY <1>1, LenProperties, ElementOfSeq DEF Started
<1>3. Len(tasks) \in Nat /\ DOMAIN tasks = TaskId /\ \A t \in TaskId : tasks[t] \in TaskRow
  BY <1>1, LenProperties, ElementOfSeq DEF TaskId
<1>. QED BY <1>2, <1>3 DEF Typed

-----------------------------------------------------------------------------
(* What the statements do to the rows, row by row.                          *)

\* the instance i becomes row, the others stay
PutInst(i, row) ==
  /\ insts' \in Seq(InstRow) /\ Len(insts') = Len(insts) /\ Started' = Started
  /\ \A j \in Started : insts'[j] = IF j = i THEN row ELSE insts[j]

LEMMA InstReplaced ==
  ASSUME Typed, NEW i \in Started, NEW row \in InstRow, insts' = [insts EXCEPT ![i] = row]
  PROVE  PutInst(i, row)
BY ExceptSeq DEF Typed, Started, PutInst

AddInst(row) ==
  /\ insts' \in Seq(InstRow) /\ Len(insts') = Len(insts) + 1
  /\ Started' = Started \cup {Len(insts) + 1}
  /\ \A j \in Started : insts'[j] = insts[j]
  /\ insts'[Len(insts) + 1] = row

LEMMA InstAppended ==
  ASSUME Typed, NEW row \in InstRow, insts' = Append(insts, row)
  PROVE  AddInst(row)
<1>1. insts \in Seq(InstRow)
  BY DEF Typed
<1>. HIDE DEF InstRow
<1>. QED BY <1>1, AppendProperties, LenProperties DEF Started, AddInst

AddTask(row) ==
  /\ tasks' \in Seq(TaskRow) /\ Len(tasks') = Len(tasks) + 1
  /\ TaskId' = TaskId \cup {Len(tasks) + 1}
  /\ \A t \in TaskId : tasks'[t] = tasks[t]
  /\ tasks'[Len(tasks) + 1] = row

LEMMA TaskAppended ==
  ASSUME Typed, NEW row \in TaskRow, tasks' = Append(tasks, row)
  PROVE  AddTask(row)
<1>1. tasks \in Seq(TaskRow)
  BY DEF Typed
<1>. HIDE DEF TaskRow
<1>. QED BY <1>1, AppendProperties, LenProperties DEF TaskId, AddTask

\* the tasks in ts get a status, nothing else of any task changes
PutStatus(ts, status) ==
  /\ tasks' \in Seq(TaskRow) /\ Len(tasks') = Len(tasks) /\ TaskId' = TaskId
  /\ \A t \in TaskId : /\ tasks'[t].inst = tasks[t].inst /\ tasks'[t].node = tasks[t].node
                       /\ tasks'[t].by = tasks[t].by
                       /\ tasks'[t].status = IF t \in ts THEN status ELSE tasks[t].status
                       /\ t \notin ts => tasks'[t] = tasks[t]

LEMMA TaskDecided ==
  ASSUME Typed, NEW t \in TaskId, NEW status \in TaskStatus, tasks' = Decided(t, status)
  PROVE  PutStatus({t}, status)
<1>. DEFINE row == [tasks[t] EXCEPT !.status = status]
<1>1. tasks \in Seq(TaskRow) /\ tasks[t] \in TaskRow /\ row \in TaskRow
  BY RowsTyped DEF Typed, TaskRow
<1>2. row.inst = tasks[t].inst /\ row.node = tasks[t].node /\ row.by = tasks[t].by /\ row.status = status
  BY <1>1 DEF TaskRow
<1>3. tasks' = [tasks EXCEPT ![t] = row]
  BY DEF Decided
<1>. HIDE DEF row, TaskRow
<1>4. /\ tasks' \in Seq(TaskRow) /\ Len(tasks') = Len(tasks)
      /\ \A u \in TaskId : tasks'[u] = IF u = t THEN row ELSE tasks[u]
  BY <1>1, <1>3, ExceptSeq DEF TaskId
<1>. QED BY <1>2, <1>4 DEF PutStatus, TaskId

LEMMA TasksSkipped ==
  ASSUME Typed, NEW ts, tasks' = SkipPending(ts)
  PROVE  PutStatus({t \in ts : tasks[t].status = "pending"}, "skipped")
<1>. DEFINE n == Len(tasks)
            new(t) == IF t \in ts /\ tasks[t].status = "pending"
                      THEN [tasks[t] EXCEPT !.status = "skipped"] ELSE tasks[t]
<1>1. n \in Nat /\ TaskId = 1 .. n /\ \A t \in TaskId : tasks[t] \in TaskRow
  BY RowsTyped DEF TaskId
<1>2. \A t \in TaskId : /\ new(t) \in TaskRow
                        /\ new(t).inst = tasks[t].inst /\ new(t).node = tasks[t].node
                        /\ new(t).by = tasks[t].by
                        /\ new(t).status = IF t \in ts /\ tasks[t].status = "pending"
                                           THEN "skipped" ELSE tasks[t].status
  BY <1>1 DEF TaskRow, TaskStatus
<1>3. tasks' = [t \in 1 .. n |-> new(t)]
  BY <1>1 DEF SkipPending
<1>. HIDE DEF new, n, TaskRow
<1>4. tasks' \in [1 .. n -> TaskRow]
  BY <1>1, <1>2, <1>3
<1>5. tasks' \in Seq(TaskRow)
  BY <1>1, <1>4, SeqDef
<1>6. DOMAIN tasks' = 1 .. n /\ DOMAIN tasks' = 1 .. Len(tasks') /\ Len(tasks') \in Nat
  BY <1>4, <1>5, LenProperties
<1>7. Len(tasks') = n
  BY <1>1, <1>6
<1>8. \A t \in TaskId : t \notin {u \in ts : tasks[u].status = "pending"} => new(t) = tasks[t]
  BY DEF new
<1>. QED BY <1>1, <1>2, <1>3, <1>5, <1>7, <1>8 DEF PutStatus, n, TaskId

-----------------------------------------------------------------------------
(* The effect of each statement on the rows, carried out or not.            *)

\* instance i has this status, node and these variables now, the others are as before
InstBecomes(i, status, node, vs) ==
  /\ insts' \in Seq(InstRow) /\ Len(insts') = Len(insts) /\ Started' = Started
  /\ \A j \in Started \ {i} : insts'[j] = insts[j]
  /\ insts'[i].status = status /\ insts'[i].node = node /\ insts'[i].vars = vs

LEMMA EndEffect ==
  ASSUME Shape, NEW r \in Thread, NEW pc \in {"cancel", "end", "finish"}, NEW outcome \in Ended,
         NEW next, NEW ok \in BOOLEAN, EndInstance(r, pc, outcome, next, ok)
  PROVE  LET i == req[r].inst IN
         /\ i \in Started
         /\ InstBecomes(i, IF ok THEN outcome ELSE insts[i].status, insts[i].node, insts[i].vars)
<1>. DEFINE i == req[r].inst
            row == IF ok THEN [insts[i] EXCEPT !.status = outcome] ELSE insts[i]
<1>1. Typed /\ i \in Started
  BY DEF Shape, AllPlaced, Placed, EndInstance, At, Asking, Ending
<1>2. insts[i] \in InstRow
  BY <1>1, RowsTyped
<1>3. /\ row \in InstRow /\ row.status = IF ok THEN outcome ELSE insts[i].status
      /\ row.node = insts[i].node /\ row.vars = insts[i].vars
  BY <1>2 DEF InstRow, Status
<1>4. insts' = [insts EXCEPT ![i] = row]
  <2>1. insts \in [Started -> InstRow]
    BY <1>1, LenProperties DEF Typed, Started
  <2>. QED BY <1>1, <2>1 DEF EndInstance
<1>. HIDE DEF row
<1>5. PutInst(i, row)
  BY <1>1, <1>3, <1>4, InstReplaced
<1>. QED BY <1>1, <1>3, <1>5 DEF PutInst, InstBecomes

LEMMA AdvanceEffect ==
  ASSUME Shape, NEW r \in Thread, NEW ok \in BOOLEAN, Advance(r, ok)
  PROVE  LET i == req[r].inst IN
         /\ i \in Started /\ req[r].node + 1 \in Node
         /\ InstBecomes(i, insts[i].status,
                        IF ok THEN keys[req[r].node + 1] ELSE insts[i].node, insts[i].vars)
<1>. DEFINE i == req[r].inst
            k == keys[req[r].node + 1]
            row == IF ok THEN [insts[i] EXCEPT !.node = k] ELSE insts[i]
<1>1. Typed /\ i \in Started /\ req[r].node < Last
  BY DEF Shape, AllPlaced, Placed, Advance, At, Asking
<1>2. insts[i] \in InstRow /\ req[r].node + 1 \in Node /\ k \in 0 .. Last
  <2>1. req[r].node \in 0 .. Last /\ req[r].node + 1 \in Node
    BY <1>1, RowsTyped, Definition DEF Req, Node
  <2>. QED BY <1>1, <2>1, RowsTyped, KeyIsNode, Definition DEF Node
<1>3. /\ row \in InstRow /\ row.status = insts[i].status
      /\ row.node = (IF ok THEN k ELSE insts[i].node) /\ row.vars = insts[i].vars
  BY <1>2 DEF InstRow
<1>4. insts' = [insts EXCEPT ![i] = row]
  <2>1. insts \in [Started -> InstRow]
    BY <1>1, LenProperties DEF Typed, Started
  <2>. QED BY <1>1, <2>1 DEF Advance
<1>. HIDE DEF row
<1>5. PutInst(i, row)
  BY <1>1, <1>3, <1>4, InstReplaced
<1>. QED BY <1>1, <1>2, <1>3, <1>5 DEF PutInst, InstBecomes

LEMMA AppendEffect ==
  ASSUME Shape, NEW r \in Thread, NEW ok \in BOOLEAN, AppendVars(r, ok)
  PROVE  LET i == req[r].inst IN
         /\ i \in Started /\ req[r].task \in TaskId
         /\ InstBecomes(i, insts[i].status, insts[i].node,
                        IF ok THEN req[r].seen \cup {req[r].task} ELSE insts[i].vars)
<1>. DEFINE i == req[r].inst
            vs == req[r].seen \cup {req[r].task}
            row == IF ok THEN [insts[i] EXCEPT !.vars = vs] ELSE insts[i]
<1>1. Typed /\ i \in Started /\ req[r].task \in TaskId
  BY DEF Shape, AllPlaced, Placed, DecidesTask, AppendVars, At, Asking
<1>2. insts[i] \in InstRow /\ vs \in SUBSET Nat
  BY <1>1, RowsTyped DEF Req
<1>3. /\ row \in InstRow /\ row.status = insts[i].status
      /\ row.node = insts[i].node /\ row.vars = IF ok THEN vs ELSE insts[i].vars
  BY <1>2 DEF InstRow
<1>4. insts' = [insts EXCEPT ![i] = row]
  <2>1. insts \in [Started -> InstRow]
    BY <1>1, LenProperties DEF Typed, Started
  <2>. QED BY <1>1, <2>1 DEF AppendVars, Appended
<1>. HIDE DEF row
<1>5. PutInst(i, row)
  BY <1>1, <1>3, <1>4, InstReplaced
<1>. QED BY <1>1, <1>2, <1>3, <1>5 DEF PutInst, InstBecomes

LEMMA InsertEffect ==
  ASSUME Shape, NEW r \in Thread, NEW ok \in BOOLEAN, InsertInstance(r, ok)
  PROVE  LET i == Len(insts) + 1 IN
         /\ ~ok => insts' = insts
         /\ ok => /\ insts' \in Seq(InstRow) /\ Len(insts') = i /\ Started' = Started \cup {i}
                  /\ i \notin Started
                  /\ \A j \in Started : insts'[j] = insts[j]
                  /\ insts'[i].status = "running" /\ insts'[i].node = req[r].node
                  /\ insts'[i].vars = {}
<1>. DEFINE row == [status |-> "running", node |-> req[r].node, vars |-> {}]
<1>1. Typed /\ req[r].node \in 0 .. Last /\ Len(insts) \in Nat
  BY RowsTyped DEF Shape, Req
<1>2. /\ row \in InstRow /\ row.status = "running" /\ row.node = req[r].node /\ row.vars = {}
  BY <1>1 DEF InstRow, Status
<1>3. CASE ~ok
  BY <1>3 DEF InsertInstance
<1>4. CASE ok
  <2>1. insts' = Append(insts, row)
    BY <1>4 DEF InsertInstance
  <2>. HIDE DEF row
  <2>2. AddInst(row)
    BY <1>1, <1>2, <2>1, InstAppended
  <2>3. Len(insts) + 1 \notin Started
    BY <1>1 DEF Started
  <2>. QED BY <1>2, <1>4, <2>2, <2>3 DEF AddInst
<1>. QED BY <1>3, <1>4

LEMMA CreateEffect ==
  ASSUME Shape, NEW r \in Thread, NEW ok \in BOOLEAN, CreateNodeTask(r, ok)
  PROVE  LET t == Len(tasks) + 1 IN
         /\ ~ok => tasks' = tasks
         /\ ok => /\ tasks' \in Seq(TaskRow) /\ Len(tasks') = t /\ TaskId' = TaskId \cup {t}
                  /\ t \notin TaskId
                  /\ \A u \in TaskId : tasks'[u] = tasks[u]
                  /\ tasks'[t].inst = req[r].inst /\ tasks'[t].node = req[r].node
                  /\ tasks'[t].by = Head(req[r].left) /\ tasks'[t].status = "pending"
<1>. DEFINE row == [inst |-> req[r].inst, node |-> req[r].node, by |-> Head(req[r].left),
                    status |-> "pending"]
<1>1. Typed /\ Len(tasks) \in Nat /\ req[r] \in Req
  BY RowsTyped DEF Shape
<1>2. req[r].left \in Seq(Nat) /\ req[r].left # <<>> /\ req[r].node \in Node
  BY <1>1 DEF Req, Shape, AllPlaced, Placed, CreateNodeTask, At
<1>3. Head(req[r].left) \in Nat
  BY <1>2, HeadTailProperties
<1>4. /\ row \in TaskRow /\ row.inst = req[r].inst /\ row.node = req[r].node
      /\ row.by = Head(req[r].left) /\ row.status = "pending"
  BY <1>1, <1>2, <1>3 DEF TaskRow, TaskStatus, Req
<1>5. CASE ~ok
  BY <1>5 DEF CreateNodeTask
<1>6. CASE ok
  <2>1. tasks' = Append(tasks, row)
    BY <1>6 DEF CreateNodeTask
  <2>. HIDE DEF row
  <2>2. AddTask(row)
    BY <1>1, <1>4, <2>1, TaskAppended
  <2>3. Len(tasks) + 1 \notin TaskId
    BY <1>1 DEF TaskId
  <2>. QED BY <1>4, <1>6, <2>2, <2>3 DEF AddTask
<1>. QED BY <1>5, <1>6

LEMMA TasksUntouched ==
  ASSUME Typed, UNCHANGED tasks, NEW status
  PROVE  PutStatus({}, status)
BY DEF Typed, PutStatus, TaskId

\* the pending tasks of the set, if the statement is carried out
Hit(ts, ok) == IF ok THEN {t \in ts : tasks[t].status = "pending"} ELSE {}

LEMMA SkipEffect ==
  ASSUME Typed, NEW ts, NEW ok \in BOOLEAN, tasks' = IF ok THEN SkipPending(ts) ELSE tasks
  PROVE  PutStatus(Hit(ts, ok), "skipped")
<1>1. CASE ok
  BY <1>1, TasksSkipped DEF Hit
<1>2. CASE ~ok
  BY <1>2, TasksUntouched DEF Hit
<1>. QED BY <1>1, <1>2

LEMMA MarkEffect ==
  ASSUME Shape, NEW r \in Thread, NEW ok \in BOOLEAN, req[r].pc \in {"approve", "reject"},
         NEW status \in TaskStatus, tasks' = IF ok THEN Decided(req[r].task, status) ELSE tasks
  PROVE  /\ req[r].task \in TaskId /\ req[r].inst = tasks[req[r].task].inst
         /\ req[r].node = tasks[req[r].task].node /\ req[r].inst \in Started
         /\ PutStatus(IF ok THEN {req[r].task} ELSE {}, status)
<1>1. /\ Typed /\ req[r].task \in TaskId /\ req[r].inst = tasks[req[r].task].inst
      /\ req[r].node = tasks[req[r].task].node /\ req[r].inst \in Started
  BY DEF Shape, AllPlaced, Placed, DecidesTask, Asking
<1>2. CASE ok
  BY <1>1, <1>2, TaskDecided
<1>3. CASE ~ok
  BY <1>1, <1>3, TasksUntouched
<1>. QED BY <1>1, <1>2, <1>3

-----------------------------------------------------------------------------
(* Every step is one of these; the first group leaves the rows alone.       *)

ReadStep(r, ok) ==
  \/ Start(r) \/ SelectInstance(r) \/ BreakOff(r)
  \/ \E i \in Started : Cancel(r, i)
  \/ \E t \in TaskId : SelectTask(r, t)
  \/ SelectMaxId(r, ok) \/ SelectDefinition(r, ok) \/ CountPending(r, ok)

EndStep(r, ok) ==
  \/ EndInstance(r, "cancel", "canceled", "skipAll", ok)
  \/ EndInstance(r, "end", "rejected", "skipAll", ok)
  \/ EndInstance(r, "finish", "approved", "idle", ok)

WriteStep(r, ok) ==
  \/ InsertInstance(r, ok) \/ CreateNodeTask(r, ok) \/ EndStep(r, ok) \/ SkipAll(r, ok)
  \/ MarkApproved(r, ok) \/ MarkRejected(r, ok) \/ AppendVars(r, ok)
  \/ SkipNode(r, ok) \/ Advance(r, ok)

LEMMA Steps ==
  ASSUME Next
  PROVE  \/ \E r \in Thread, ok \in BOOLEAN : ReadStep(r, ok) \/ WriteStep(r, ok)
         \/ LoseDefinition
BY DEF Next, Statement, ReadStep, WriteStep, EndStep

-----------------------------------------------------------------------------
(* Rows are added and changed, never removed; the histories only grow.      *)

Grown ==
  /\ Len(insts') \in Nat /\ Len(tasks') \in Nat
  /\ Len(insts) <= Len(insts') /\ Len(tasks) <= Len(tasks')
  /\ Started \subseteq Started' /\ TaskId \subseteq TaskId'
  /\ \A t \in TaskId : /\ tasks'[t].inst = tasks[t].inst /\ tasks'[t].node = tasks[t].node
                       /\ tasks'[t].by = tasks[t].by
  /\ said \subseteq said' /\ crowded \subseteq crowded' /\ spoiled \subseteq spoiled'
  /\ returned \subseteq returned'

RowsTypedAfter == insts' \in Seq(InstRow) /\ tasks' \in Seq(TaskRow)

LEMMA HistoriesGrow ==
  ASSUME Next
  PROVE  /\ said \subseteq said' /\ crowded \subseteq crowded' /\ spoiled \subseteq spoiled'
         /\ returned \subseteq returned'
<1>1. ASSUME NEW r \in Thread, NEW ok \in BOOLEAN, ReadStep(r, ok)
      PROVE  /\ said \subseteq said' /\ crowded \subseteq crowded' /\ spoiled \subseteq spoiled'
             /\ returned \subseteq returned'
  BY <1>1 DEF ReadStep, Start, SelectInstance, BreakOff, Cancel, SelectTask, SelectMaxId,
              SelectDefinition, CountPending, Note, Joins, history
<1>2. ASSUME NEW r \in Thread, NEW ok \in BOOLEAN, WriteStep(r, ok)
      PROVE  /\ said \subseteq said' /\ crowded \subseteq crowded' /\ spoiled \subseteq spoiled'
             /\ returned \subseteq returned'
  BY <1>2 DEF WriteStep, InsertInstance, CreateNodeTask, EndStep, EndInstance, SkipAll,
              MarkApproved, MarkRejected, AppendVars, SkipNode, Advance, Note
<1>3. ASSUME LoseDefinition
      PROVE  /\ said \subseteq said' /\ crowded \subseteq crowded' /\ spoiled \subseteq spoiled'
             /\ returned \subseteq returned'
  BY <1>3 DEF LoseDefinition
<1>. QED BY <1>1, <1>2, <1>3, Steps

LEMMA ReadsLeaveRows ==
  ASSUME NEW r \in Thread, NEW ok \in BOOLEAN, ReadStep(r, ok)
  PROVE  UNCHANGED rows
BY DEF ReadStep, Start, SelectInstance, BreakOff, Cancel, SelectTask, SelectMaxId,
       SelectDefinition, CountPending

InstWrite(r, ok) ==
  \/ InsertInstance(r, ok) \/ EndStep(r, ok) \/ AppendVars(r, ok) \/ Advance(r, ok)

TaskWrite(r, ok) ==
  \/ CreateNodeTask(r, ok) \/ SkipAll(r, ok) \/ MarkApproved(r, ok) \/ MarkRejected(r, ok)
  \/ SkipNode(r, ok)

LEMMA Writes ==
  ASSUME NEW r, NEW ok, WriteStep(r, ok)
  PROVE  \/ InstWrite(r, ok) /\ UNCHANGED tasks
         \/ TaskWrite(r, ok) /\ UNCHANGED insts
BY DEF WriteStep, InstWrite, TaskWrite, EndStep, InsertInstance, EndInstance, AppendVars,
       Advance, CreateNodeTask, SkipAll, MarkApproved, MarkRejected, SkipNode

LEMMA InstWriteGrows ==
  ASSUME Shape, NEW r \in Thread, NEW ok \in BOOLEAN, InstWrite(r, ok)
  PROVE  insts' \in Seq(InstRow) /\ Started \subseteq Started' /\ Len(insts) <= Len(insts')
<1>. DEFINE Good == insts' \in Seq(InstRow) /\ Started \subseteq Started' /\ Len(insts) <= Len(insts')
<1>1. Len(insts) \in Nat /\ insts \in Seq(InstRow)
  BY RowsTyped DEF Shape, Typed
<1>2. ASSUME InsertInstance(r, ok) PROVE Good
  BY <1>1, <1>2, InsertEffect DEF Started
<1>3. ASSUME EndStep(r, ok) PROVE Good
  BY <1>1, <1>3, EndEffect DEF EndStep, Ended, InstBecomes
<1>4. ASSUME AppendVars(r, ok) PROVE Good
  <2>. DEFINE vs == IF ok THEN req[r].seen \cup {req[r].task} ELSE insts[req[r].inst].vars
  <2>1. InstBecomes(req[r].inst, insts[req[r].inst].status, insts[req[r].inst].node, vs)
    BY <1>4, AppendEffect
  <2>. QED BY <1>1, <2>1 DEF InstBecomes
<1>5. ASSUME Advance(r, ok) PROVE Good
  BY <1>1, <1>5, AdvanceEffect DEF InstBecomes
<1>. QED BY <1>2, <1>3, <1>4, <1>5 DEF InstWrite

LEMMA TaskWriteGrows ==
  ASSUME Shape, NEW r \in Thread, NEW ok \in BOOLEAN, TaskWrite(r, ok)
  PROVE  /\ tasks' \in Seq(TaskRow) /\ TaskId \subseteq TaskId' /\ Len(tasks) <= Len(tasks')
         /\ \A t \in TaskId : /\ tasks'[t].inst = tasks[t].inst
                              /\ tasks'[t].node = tasks[t].node /\ tasks'[t].by = tasks[t].by
<1>. DEFINE Good == 
         /\ tasks' \in Seq(TaskRow) /\ TaskId \subseteq TaskId' /\ Len(tasks) <= Len(tasks')
         /\ \A t \in TaskId : /\ tasks'[t].inst = tasks[t].inst
                              /\ tasks'[t].node = tasks[t].node /\ tasks'[t].by = tasks[t].by
<1>1. Len(tasks) \in Nat /\ tasks \in Seq(TaskRow) /\ Typed
  BY RowsTyped DEF Shape, Typed
<1>2. ASSUME CreateNodeTask(r, ok) PROVE Good
  BY <1>1, <1>2, CreateEffect DEF TaskId
<1>3. ASSUME NEW ts, NEW status, PutStatus(ts, status) PROVE Good
  BY <1>1, <1>3 DEF PutStatus
<1>4. ASSUME SkipAll(r, ok) PROVE Good
  BY <1>1, <1>3, <1>4, SkipEffect DEF SkipAll
<1>5. ASSUME SkipNode(r, ok) PROVE Good
  BY <1>1, <1>3, <1>5, SkipEffect DEF SkipNode
<1>6. ASSUME MarkApproved(r, ok) PROVE Good
  <2>1. tasks' = (IF ok THEN Decided(req[r].task, "approved") ELSE tasks) /\ req[r].pc = "approve"
    BY <1>6 DEF MarkApproved, At
  <2>. QED BY <1>3, <2>1, MarkEffect DEF TaskStatus
<1>7. ASSUME MarkRejected(r, ok) PROVE Good
  <2>1. tasks' = (IF ok THEN Decided(req[r].task, "rejected") ELSE tasks) /\ req[r].pc = "reject"
    BY <1>7 DEF MarkRejected, At
  <2>. QED BY <1>3, <2>1, MarkEffect DEF TaskStatus
<1>. HIDE DEF Good
<1>. QED BY <1>2, <1>4, <1>5, <1>6, <1>7 DEF TaskWrite, Good

LEMMA StepGrows ==
  ASSUME Shape, Next
  PROVE  Grown /\ RowsTypedAfter
<1>. USE DEF RowsTypedAfter
<1>1. /\ Len(insts) \in Nat /\ Len(tasks) \in Nat
      /\ insts \in Seq(InstRow) /\ tasks \in Seq(TaskRow)
  BY RowsTyped DEF Shape, Typed
<1>. DEFINE Same == UNCHANGED rows
<1>2. ASSUME UNCHANGED rows PROVE Grown /\ RowsTypedAfter
  BY <1>1, <1>2, HistoriesGrow DEF Grown, rows, Started, TaskId
<1>3. ASSUME NEW r \in Thread, NEW ok \in BOOLEAN, WriteStep(r, ok)
      PROVE  Grown /\ RowsTypedAfter
  <2>1. CASE InstWrite(r, ok) /\ UNCHANGED tasks
    <3>1. insts' \in Seq(InstRow) /\ Started \subseteq Started' /\ Len(insts) <= Len(insts')
      BY <2>1, InstWriteGrows
    <3>2. Len(insts') \in Nat
      BY <3>1, LenProperties
    <3>. QED BY <1>1, <2>1, <3>1, <3>2, HistoriesGrow DEF Grown, TaskId
  <2>2. CASE TaskWrite(r, ok) /\ UNCHANGED insts
    <3>1. /\ tasks' \in Seq(TaskRow) /\ TaskId \subseteq TaskId' /\ Len(tasks) <= Len(tasks')
          /\ \A t \in TaskId : /\ tasks'[t].inst = tasks[t].inst
                               /\ tasks'[t].node = tasks[t].node /\ tasks'[t].by = tasks[t].by
      BY <2>2, TaskWriteGrows
    <3>2. Len(tasks') \in Nat
      BY <3>1, LenProperties
    <3>. QED BY <1>1, <2>2, <3>1, <3>2, HistoriesGrow DEF Grown, Started
  <2>. QED BY <1>3, <2>1, <2>2, Writes
<1>4. ASSUME LoseDefinition PROVE UNCHANGED rows
  BY <1>4 DEF LoseDefinition
<1>. QED BY <1>2, <1>3, <1>4, Steps, ReadsLeaveRows

-----------------------------------------------------------------------------
(* What each statement makes of the request that executes it.               *)

\* thread r's request has these fields now, the other requests are as before
Now(r, pc, inst, task, node, left, seen) ==
  /\ req' \in [Thread -> Req]
  /\ req'[r].pc = pc /\ req'[r].inst = inst /\ req'[r].task = task /\ req'[r].node = node
  /\ req'[r].left = left /\ req'[r].seen = seen
  /\ \A q \in Thread \ {r} : req'[q] = req[q]

LEMMA NowBecomes ==
  ASSUME Typed, NEW r \in Thread, NEW q \in Req, req' = [req EXCEPT ![r] = q]
  PROVE  Now(r, q.pc, q.inst, q.task, q.node, q.left, q.seen)
<1>. HIDE DEF Req
<1>. QED BY DEF Typed, Now

\* the request goes on with its next statement
Goes(r, pc) == Now(r, pc, req[r].inst, req[r].task, req[r].node, req[r].left, req[r].seen)

LEMMA NowGoes ==
  ASSUME Typed, NEW r \in Thread, NEW pc \in Pc, GoTo(r, pc)
  PROVE  Goes(r, pc)
<1>. DEFINE q == [req[r] EXCEPT !.pc = pc]
<1>1. req[r] \in Req /\ req \in [Thread -> Req]
  BY RowsTyped DEF Typed
<1>2. /\ q \in Req /\ q.pc = pc /\ q.inst = req[r].inst /\ q.task = req[r].task
      /\ q.node = req[r].node /\ q.left = req[r].left /\ q.seen = req[r].seen
  BY <1>1 DEF Req
<1>3. req' = [req EXCEPT ![r] = q]
  BY <1>1 DEF GoTo
<1>. HIDE DEF q
<1>. QED BY <1>2, <1>3, NowBecomes DEF Goes

Ends(r) == Now(r, "idle", 0, 0, 0, <<>>, {})

LEMMA IdleTyped ==
  Idle \in Req
<1>1. 0 \in 0 .. Last
  BY Definition
<1>. QED BY <1>1, EmptySeq DEF Idle, Req, Pc

LEMMA NowEnds ==
  ASSUME Typed, NEW r \in Thread, Return(r)
  PROVE  Ends(r)
<1>1. /\ Idle.pc = "idle" /\ Idle.inst = 0 /\ Idle.task = 0 /\ Idle.node = 0
      /\ Idle.left = <<>> /\ Idle.seen = {}
  BY DEF Idle
<1>2. req' = [req EXCEPT ![r] = Idle]
  BY DEF Return
<1>. QED BY <1>1, <1>2, IdleTyped, NowBecomes DEF Ends

LEMMA StartReq ==
  ASSUME Typed, NEW r \in Thread, Start(r)
  PROVE  Now(r, "insert", 0, 0, FirstNode, <<>>, {}) /\ FirstNode \in 0 .. 1
<1>. DEFINE q == [Idle EXCEPT !.pc = "insert", !.node = FirstNode]
<1>1. FirstNode \in 0 .. 1 /\ FirstNode \in 0 .. Last
  BY Definition DEF FirstNode
<1>2. /\ q \in Req /\ q.pc = "insert" /\ q.inst = 0 /\ q.task = 0 /\ q.node = FirstNode
      /\ q.left = <<>> /\ q.seen = {}
  BY <1>1, EmptySeq DEF Idle, Req, Pc
<1>3. req' = [req EXCEPT ![r] = q]
  BY DEF Start
<1>. HIDE DEF q
<1>. QED BY <1>1, <1>2, <1>3, NowBecomes

LEMMA InsertReq ==
  ASSUME Typed, NEW r \in Thread, NEW ok \in BOOLEAN, InsertInstance(r, ok)
  PROVE  Now(r, "max", IF ok THEN Len(insts) + 1 ELSE 0, req[r].task, req[r].node,
             req[r].left, req[r].seen)
<1>. DEFINE i == IF ok THEN Len(insts) + 1 ELSE 0
            q == [req[r] EXCEPT !.pc = "max", !.inst = i]
<1>1. req[r] \in Req /\ req \in [Thread -> Req] /\ i \in Nat
  BY RowsTyped DEF Typed
<1>2. req' = [req EXCEPT ![r] = q]
  BY <1>1 DEF InsertInstance
<1>. HIDE DEF i
<1>3. /\ q \in Req /\ q.pc = "max" /\ q.inst = i /\ q.task = req[r].task
      /\ q.node = req[r].node /\ q.left = req[r].left /\ q.seen = req[r].seen
  BY <1>1 DEF Req, Pc
<1>. HIDE DEF q
<1>. QED BY <1>2, <1>3, NowBecomes DEF i

LEMMA MaxReq ==
  ASSUME Shape, NEW r \in Thread, NEW ok \in BOOLEAN, SelectMaxId(r, ok)
  PROVE  \/ /\ ok /\ req[r].node = 1
            /\ Now(r, "tasks", Len(insts), req[r].task, 1, Assignees[1], req[r].seen)
         \/ ~(ok /\ req[r].node # 0) /\ Ends(r)
<1>1. /\ Typed /\ req[r] \in Req /\ req \in [Thread -> Req] /\ Len(insts) \in Nat
      /\ req[r].node \in 0 .. 1
  BY RowsTyped DEF Shape, AllPlaced, Placed, SelectMaxId, At, Typed
<1>2. CASE ok /\ req[r].node # 0
  <2>. DEFINE i == Len(insts)
              l == Assignees[1]
              q == [req[r] EXCEPT !.pc = "tasks", !.inst = i, !.left = l]
  <2>1. req[r].node = 1 /\ l \in Seq(Nat) /\ i \in Nat
    BY <1>1, <1>2, Definition
  <2>2. req' = [req EXCEPT ![r] = q]
    BY <1>1, <1>2, <2>1 DEF SelectMaxId, NewestId
  <2>. HIDE DEF i, l
  <2>3. /\ q \in Req /\ q.pc = "tasks" /\ q.inst = i /\ q.task = req[r].task
        /\ q.node = 1 /\ q.left = l /\ q.seen = req[r].seen
    BY <1>1, <2>1 DEF Req, Pc
  <2>. HIDE DEF q
  <2>. QED BY <1>1, <1>2, <2>1, <2>2, <2>3, NowBecomes DEF i, l
<1>3. CASE ~(ok /\ req[r].node # 0)
  BY <1>1, <1>3, NowEnds DEF SelectMaxId
<1>. QED BY <1>2, <1>3

LEMMA CreateReq ==
  ASSUME Shape, NEW r \in Thread, NEW ok \in BOOLEAN, CreateNodeTask(r, ok)
  PROVE  LET l == req[r].left IN
         /\ l \in Seq(Nat) /\ l # <<>> /\ req[r].node \in Node
         /\ \A a \in DOMAIN l : Invited(req[r].inst, req[r].node, l[a])
         /\ \/ Len(l) = 1 /\ Ends(r)
            \/ /\ Len(l) > 1 /\ Tail(l) # <<>>
               /\ Now(r, "tasks", req[r].inst, req[r].task, req[r].node, Tail(l), req[r].seen)
<1>. DEFINE l == req[r].left
            q == [req[r] EXCEPT !.left = Tail(l)]
<1>1. /\ Typed /\ req[r] \in Req /\ req \in [Thread -> Req] /\ At(r, "tasks")
      /\ l # <<>> /\ req[r].node \in Node
      /\ \A a \in DOMAIN l : Invited(req[r].inst, req[r].node, l[a])
  BY RowsTyped DEF Shape, AllPlaced, Placed, CreateNodeTask, Typed
<1>2. /\ l \in Seq(Nat) /\ Tail(l) \in Seq(Nat) /\ Len(l) \in Nat \ {0}
      /\ Len(Tail(l)) = Len(l) - 1
  BY <1>1, HeadTailProperties, EmptySeq DEF Req
<1>3. CASE Len(l) = 1
  BY <1>1, <1>2, <1>3, NowEnds DEF CreateNodeTask
<1>4. CASE Len(l) # 1
  <2>1. req' = [req EXCEPT ![r] = q]
    BY <1>1, <1>4 DEF CreateNodeTask
  <2>. HIDE DEF l
  <2>2. Len(Tail(l)) # 0 /\ Len(l) > 1
    <3>1. \A n \in Nat \ {0} : n # 1 => n > 1 /\ n - 1 # 0
      OBVIOUS
    <3>. QED BY <1>2, <1>4, <3>1
  <2>3. Tail(l) # <<>>
    BY <2>2, EmptySeq
  <2>4. /\ q \in Req /\ q.pc = req[r].pc /\ q.inst = req[r].inst /\ q.task = req[r].task
        /\ q.node = req[r].node /\ q.left = Tail(l) /\ q.seen = req[r].seen
    BY <1>1, <1>2 DEF Req
  <2>. HIDE DEF q
  <2>5. Now(r, req[r].pc, req[r].inst, req[r].task, req[r].node, Tail(l), req[r].seen)
    BY <1>1, <2>1, <2>4, NowBecomes
  <2>. QED BY <1>1, <1>2, <2>2, <2>3, <2>5 DEF At, l
<1>. QED BY <1>3, <1>4

LEMMA CancelReq ==
  ASSUME Typed, NEW r \in Thread, NEW i \in Started, Cancel(r, i)
  PROVE  Now(r, "cancel", i, 0, 0, <<>>, {})
<1>. DEFINE q == [Idle EXCEPT !.pc = "cancel", !.inst = i]
<1>1. i \in Nat /\ 0 \in 0 .. Last
  BY RowsTyped, Definition DEF Started
<1>2. /\ q \in Req /\ q.pc = "cancel" /\ q.inst = i /\ q.task = 0 /\ q.node = 0
      /\ q.left = <<>> /\ q.seen = {}
  BY <1>1, EmptySeq DEF Idle, Req, Pc, Ending
<1>3. req' = [req EXCEPT ![r] = q]
  BY DEF Cancel
<1>. HIDE DEF q
<1>. QED BY <1>2, <1>3, NowBecomes

LEMMA SelectTaskReq ==
  ASSUME Typed, NEW r \in Thread, NEW t \in TaskId, SelectTask(r, t)
  PROVE  Now(r, "instance", tasks[t].inst, t, tasks[t].node, <<>>, {})
<1>. DEFINE i == tasks[t].inst
            k == tasks[t].node
            q == [Idle EXCEPT !.pc = "instance", !.inst = i, !.task = t, !.node = k]
<1>1. i \in Nat /\ t \in Nat /\ k \in 0 .. Last
  BY RowsTyped, Definition DEF TaskRow, TaskId, Node
<1>2. req' = [req EXCEPT ![r] = q]
  BY DEF SelectTask
<1>. HIDE DEF i, k
<1>3. /\ q \in Req /\ q.pc = "instance" /\ q.inst = i /\ q.task = t /\ q.node = k
      /\ q.left = <<>> /\ q.seen = {}
  BY <1>1, EmptySeq DEF Idle, Req, Pc, Asking
<1>. HIDE DEF q
<1>. QED BY <1>2, <1>3, NowBecomes DEF i, k

LEMMA SelectInstanceReq ==
  ASSUME Typed, NEW r \in Thread, SelectInstance(r)
  PROVE  LET i == req[r].inst IN
         \/ /\ Alive(i)
            /\ \E pc \in {"approve", "reject"} :
                 Now(r, pc, i, req[r].task, req[r].node, req[r].left, insts[i].vars)
         \/ Ends(r)
<1>. DEFINE i == req[r].inst
            vs == insts[i].vars
<1>1. req[r] \in Req /\ req \in [Thread -> Req]
  BY RowsTyped DEF Typed
<1>2. CASE /\ Alive(i)
           /\ \E pc \in {"approve", "reject"} :
                req' = [req EXCEPT ![r].pc = pc, ![r].seen = insts[i].vars]
  <2>1. PICK pc \in {"approve", "reject"} :
               req' = [req EXCEPT ![r].pc = pc, ![r].seen = vs]
    BY <1>2
  <2>. DEFINE q == [req[r] EXCEPT !.pc = pc, !.seen = vs]
  <2>2. insts[i] \in InstRow
    BY <1>2, RowsTyped DEF Alive
  <2>3. vs \in SUBSET Nat
    BY <2>2 DEF InstRow
  <2>4. req' = [req EXCEPT ![r] = q]
    BY <1>1, <2>1
  <2>. HIDE DEF vs
  <2>5. /\ q \in Req /\ q.pc = pc /\ q.inst = req[r].inst /\ q.task = req[r].task
        /\ q.node = req[r].node /\ q.left = req[r].left /\ q.seen = vs
    BY <1>1, <2>3 DEF Req, Pc, Asking
  <2>. HIDE DEF q
  <2>. QED BY <1>2, <2>4, <2>5, NowBecomes DEF vs
<1>3. CASE Return(r)
  BY <1>3, NowEnds
<1>. QED BY <1>2, <1>3 DEF SelectInstance

LEMMA AdvanceReq ==
  ASSUME Shape, NEW r \in Thread, NEW ok \in BOOLEAN, Advance(r, ok)
  PROVE  LET k == req[r].node + 1 IN
         /\ k \in Node /\ keys[k] \in Node /\ keys[k] <= k
         /\ Now(r, "tasks", req[r].inst, req[r].task, keys[k], Assignees[k], req[r].seen)
<1>. DEFINE n == req[r].node + 1
            k == keys[n]
            l == Assignees[n]
            q == [req[r] EXCEPT !.pc = "tasks", !.node = k, !.left = l]
<1>1. Typed /\ req[r] \in Req /\ req \in [Thread -> Req] /\ n \in Node
  BY RowsTyped, AdvanceEffect DEF Shape, Typed
<1>2. l \in Seq(Nat) /\ k \in 0 .. Last /\ k \in Node /\ k <= n
  BY <1>1, Definition, KeyIsNode DEF Node
<1>3. req' = [req EXCEPT ![r] = q]
  BY <1>1 DEF Advance
<1>. HIDE DEF l, k, n
<1>4. /\ q \in Req /\ q.pc = "tasks" /\ q.inst = req[r].inst /\ q.task = req[r].task
      /\ q.node = k /\ q.left = l /\ q.seen = req[r].seen
  BY <1>1, <1>2 DEF Req, Pc
<1>. HIDE DEF q
<1>. QED BY <1>1, <1>2, <1>3, <1>4, NowBecomes DEF l, k, n

-----------------------------------------------------------------------------
(* Shape is preserved.                                                      *)

Step(r, ok) == ReadStep(r, ok) \/ WriteStep(r, ok)

\* a request refers to existing rows and knows what its statement needs
Sound(r) ==
  /\ req[r].inst <= Len(insts) /\ req[r].task <= Len(tasks) /\ req[r].seen \subseteq TaskId
  /\ Placed(r)

LEMMA SoundRequests ==
  ASSUME Shape, NEW r \in Thread
  PROVE  Sound(r) /\ req[r] \in Req
BY RowsTyped DEF Shape, IdsOK, AllPlaced, Sound

\* the request of a thread that does not act stays sound
LEMMA SoundKept ==
  ASSUME Shape, Grown, NEW q \in Thread, req'[q] = req[q]
  PROVE  Sound(q)'
<1>1. Sound(q) /\ req[q] \in Req /\ Len(insts) \in Nat /\ Len(tasks) \in Nat
  BY SoundRequests, RowsTyped DEF Shape
<1>2. req[q].inst <= Len(insts') /\ req[q].task <= Len(tasks') /\ req[q].seen \subseteq TaskId'
  BY <1>1 DEF Sound, Grown, Req
<1>3. Placed(q)'
  BY <1>1 DEF Sound, Grown, Placed, DecidesTask, At, Invited
<1>. QED BY <1>2, <1>3 DEF Sound

LEMMA SoundGoes ==
  ASSUME Shape, Grown, NEW r \in Thread,
         NEW pc \in (Asking \ {"instance"}) \cup Ending, Goes(r, pc), req[r].inst \in Started,
         pc \in Asking => req[r].pc \in Asking,
         pc = "advance" => req[r].node < Last, pc = "finish" => req[r].node = Last
  PROVE  Sound(r)'
<1>1. Sound(r) /\ req[r] \in Req /\ Len(insts) \in Nat /\ Len(tasks) \in Nat
  BY SoundRequests, RowsTyped DEF Shape
<1>2. /\ req'[r].pc = pc /\ req'[r].inst = req[r].inst /\ req'[r].task = req[r].task
      /\ req'[r].node = req[r].node /\ req'[r].seen = req[r].seen
  BY DEF Goes, Now
<1>3. /\ req'[r].inst <= Len(insts') /\ req'[r].task <= Len(tasks')
      /\ req'[r].seen \subseteq TaskId'
  BY <1>1, <1>2 DEF Sound, Grown, Req
<1>4. Placed(r)'
  BY <1>1, <1>2 DEF Sound, Grown, Placed, DecidesTask, At, Asking, Ending
<1>. QED BY <1>3, <1>4 DEF Sound

LEMMA SoundEnds ==
  ASSUME Grown, NEW r \in Thread, Ends(r)
  PROVE  Sound(r)'
<1>1. req'[r].pc = "idle" /\ req'[r].inst = 0 /\ req'[r].task = 0 /\ req'[r].seen = {}
  BY DEF Ends, Now
<1>2. Placed(r)'
  BY <1>1 DEF Placed, At, Asking, Ending
<1>. QED BY <1>1, <1>2 DEF Sound, Grown

\* the effect on the requests of a step of thread r
Acted(r) ==
  /\ req' \in [Thread -> Req] /\ \A q \in Thread \ {r} : req'[q] = req[q]
  /\ Sound(r)'

LEMMA NowActed ==
  ASSUME NEW r \in Thread, NEW pc, NEW i, NEW t, NEW k, NEW l, NEW s,
         Now(r, pc, i, t, k, l, s), Sound(r)'
  PROVE  Acted(r)
BY DEF Now, Acted

LEMMA ReadActed ==
  ASSUME Shape, Grown, NEW r \in Thread, NEW ok \in BOOLEAN, ReadStep(r, ok)
  PROVE  Acted(r)
<1>1. /\ Typed /\ Len(insts) \in Nat /\ Len(tasks) \in Nat /\ UNCHANGED rows
      /\ Sound(r) /\ req[r] \in Req
  BY RowsTyped, ReadsLeaveRows, SoundRequests DEF Shape
<1>2. UNCHANGED <<insts, tasks>> /\ Started' = Started /\ TaskId' = TaskId
  BY <1>1 DEF rows, Started, TaskId
<1>3. ASSUME Ends(r) PROVE Acted(r)
  BY <1>3, SoundEnds, NowActed DEF Ends
<1>4. ASSUME Start(r) PROVE Acted(r)
  <2>1. Now(r, "insert", 0, 0, FirstNode, <<>>, {}) /\ FirstNode \in 0 .. 1
    BY <1>1, <1>4, StartReq
  <2>2. Sound(r)'
    BY <1>1, <1>2, <2>1 DEF Now, Sound, Placed, At, Asking, Ending
  <2>. QED BY <2>1, <2>2, NowActed
<1>5. ASSUME SelectInstance(r) PROVE Acted(r)
  <2>1. CASE Ends(r)
    BY <1>3, <2>1
  <2>2. ASSUME Alive(req[r].inst), NEW pc \in {"approve", "reject"},
               Now(r, pc, req[r].inst, req[r].task, req[r].node, req[r].left,
                   insts[req[r].inst].vars)
        PROVE  Acted(r)
    <3>1. req[r].inst \in Started /\ At(r, "instance")
      BY <1>5, <2>2 DEF Alive, SelectInstance
    <3>2. insts[req[r].inst].vars \subseteq TaskId
      BY <3>1 DEF Shape, IdsOK
    <3>3. DecidesTask(r)
      BY <1>1, <3>1 DEF Sound, Placed, At, Asking
    <3>4. DecidesTask(r)'
      BY <1>2, <2>2, <3>3 DEF Now, DecidesTask
    <3>5. Placed(r)'
      BY <1>2, <2>2, <3>1, <3>4 DEF Now, Placed, At, Ending
    <3>6. Sound(r)'
      BY <1>1, <1>2, <2>2, <3>2, <3>5 DEF Now, Sound
    <3>. QED BY <2>2, <3>6, NowActed
  <2>. QED BY <1>1, <1>5, <2>1, <2>2, SelectInstanceReq
<1>6. ASSUME BreakOff(r) PROVE Acted(r)
  BY <1>1, <1>3, <1>6, NowEnds DEF BreakOff
<1>7. ASSUME NEW i \in Started, Cancel(r, i) PROVE Acted(r)
  <2>1. Now(r, "cancel", i, 0, 0, <<>>, {}) /\ i <= Len(insts)
    BY <1>1, <1>7, CancelReq DEF Started
  <2>2. Sound(r)'
    BY <1>1, <1>2, <2>1 DEF Now, Sound, Placed, At, Asking, Ending
  <2>. QED BY <2>1, <2>2, NowActed
<1>8. ASSUME NEW t \in TaskId, SelectTask(r, t) PROVE Acted(r)
  <2>1. Now(r, "instance", tasks[t].inst, t, tasks[t].node, <<>>, {})
    BY <1>1, <1>8, SelectTaskReq
  <2>2. tasks[t].inst <= Len(insts) /\ t <= Len(tasks)
    BY <1>1 DEF TaskId, Shape, IdsOK, TasksInvited
  <2>3. Sound(r)'
    BY <1>1, <1>2, <2>1, <2>2 DEF Now, Sound, Placed, DecidesTask, At, Asking, Ending
  <2>. QED BY <2>1, <2>3, NowActed
<1>9. ASSUME SelectMaxId(r, ok) PROVE Acted(r)
  <2>1. CASE Ends(r)
    BY <1>3, <2>1
  <2>2. CASE Now(r, "tasks", Len(insts), req[r].task, 1, Assignees[1], req[r].seen)
    <3>1. /\ Assignees[1] # <<>>
          /\ \A a \in DOMAIN Assignees[1] : Assignees[1][a] \in People(1)
      BY Definition
    <3>2. Sound(r)'
      BY <1>1, <1>2, <2>2, <3>1, Definition DEF Now, Sound, Placed, At, Asking, Ending, Invited
    <3>. QED BY <2>2, <3>2, NowActed
  <2>. QED BY <1>9, <2>1, <2>2, MaxReq
<1>10. ASSUME SelectDefinition(r, ok) PROVE Acted(r)
  <2>1. req[r].inst \in Started /\ req[r].pc \in Asking
    BY <1>1, <1>10 DEF SelectDefinition, At, Sound, Placed, Asking
  <2>2. CASE GoTo(r, "count")
    <3>1. Goes(r, "count")
      BY <1>1, <2>2, NowGoes DEF Pc, Asking
    <3>. QED BY <2>1, <3>1, SoundGoes, NowActed DEF Goes, Asking
  <2>. QED BY <1>1, <1>3, <1>10, <2>2, NowEnds DEF SelectDefinition
<1>11. ASSUME CountPending(r, ok) PROVE Acted(r)
  <2>1. req[r].inst \in Started /\ req[r].pc \in Asking
    BY <1>1, <1>11 DEF CountPending, At, Sound, Placed, Asking
  <2>2. CASE GoTo(r, "skipNode")
    <3>1. Goes(r, "skipNode")
      BY <1>1, <2>2, NowGoes DEF Pc, Asking
    <3>. QED BY <2>1, <3>1, SoundGoes, NowActed DEF Goes, Asking
  <2>. QED BY <1>1, <1>3, <1>11, <2>2, NowEnds DEF CountPending
<1>. QED BY <1>4, <1>5, <1>6, <1>7, <1>8, <1>9, <1>10, <1>11 DEF ReadStep

LEMMA WriteActed ==
  ASSUME Shape, Grown, NEW r \in Thread, NEW ok \in BOOLEAN, WriteStep(r, ok)
  PROVE  Acted(r)
<1>1. /\ Typed /\ Len(insts) \in Nat /\ Len(tasks) \in Nat /\ Sound(r) /\ req[r] \in Req
  BY RowsTyped, SoundRequests DEF Shape
<1>2. ASSUME Ends(r) PROVE Acted(r)
  BY <1>2, SoundEnds, NowActed DEF Ends
<1>3. ASSUME NEW pc \in (Asking \ {"instance"}) \cup Ending, GoTo(r, pc), req[r].inst \in Started,
             pc \in Asking => req[r].pc \in Asking,
             pc = "advance" => req[r].node < Last, pc = "finish" => req[r].node = Last
      PROVE  Acted(r)
  <2>1. Goes(r, pc)
    BY <1>1, <1>3, NowGoes DEF Pc
  <2>. QED BY <1>3, <2>1, SoundGoes, NowActed DEF Goes
<1>4. ASSUME req[r].pc \in (Asking \ {"instance"}) \cup Ending \cup {"reject"}
      PROVE  req[r].inst \in Started
  BY <1>1, <1>4 DEF Sound, Placed
<1>5. ASSUME InsertInstance(r, ok) PROVE Acted(r)
  <2>. DEFINE i == IF ok THEN Len(insts) + 1 ELSE 0
  <2>1. Now(r, "max", i, req[r].task, req[r].node, req[r].left, req[r].seen)
    BY <1>1, <1>5, InsertReq
  <2>2. i <= Len(insts')
    BY <1>1, <1>5, InsertEffect DEF Grown
  <2>3. req[r].node \in 0 .. 1
    BY <1>1, <1>5 DEF InsertInstance, At, Sound, Placed
  <2>. HIDE DEF i
  <2>4. Placed(r)'
    BY <2>1, <2>3 DEF Now, Placed, At, Asking, Ending
  <2>5. req[r].task <= Len(tasks') /\ req[r].seen \subseteq TaskId'
    BY <1>1 DEF Sound, Grown, Req
  <2>6. Sound(r)'
    BY <2>1, <2>2, <2>4, <2>5 DEF Now, Sound
  <2>. QED BY <2>1, <2>6, NowActed
<1>6. ASSUME CreateNodeTask(r, ok) PROVE Acted(r)
  <2>. DEFINE l == req[r].left
  <2>1. CASE Ends(r)
    BY <1>2, <2>1
  <2>2. CASE /\ Len(l) > 1 /\ Tail(l) # <<>>
             /\ Now(r, "tasks", req[r].inst, req[r].task, req[r].node, Tail(l), req[r].seen)
    <3>1. /\ l \in Seq(Nat) /\ l # <<>> /\ req[r].node \in Node
          /\ \A a \in DOMAIN l : Invited(req[r].inst, req[r].node, l[a])
      BY <1>6, CreateReq
    <3>2. /\ Tail(l) \in Seq(Nat) /\ Len(Tail(l)) = Len(l) - 1 /\ Len(l) \in Nat
          /\ DOMAIN l = 1 .. Len(l) /\ DOMAIN Tail(l) = 1 .. Len(Tail(l))
          /\ \A a \in 1 .. Len(Tail(l)) : Tail(l)[a] = l[a + 1]
      BY <3>1, HeadTailProperties, LenProperties
    <3>. HIDE DEF l
    <3>3. \A a \in DOMAIN Tail(l) : Invited(req[r].inst, req[r].node, Tail(l)[a])
      <4>. TAKE a \in DOMAIN Tail(l)
      <4>1. a + 1 \in DOMAIN l /\ Tail(l)[a] = l[a + 1]
        BY <3>2
      <4>. QED BY <3>1, <4>1
    <3>4. Placed(r)'
      BY <1>1, <2>2, <3>1, <3>3 DEF Now, Placed, At, Asking, Ending, Invited, Grown
    <3>5. req[r].inst <= Len(insts') /\ req[r].task <= Len(tasks') /\ req[r].seen \subseteq TaskId'
      BY <1>1 DEF Sound, Grown, Req
    <3>6. Sound(r)'
      BY <2>2, <3>4, <3>5 DEF Now, Sound
    <3>. QED BY <2>2, <3>6, NowActed
  <2>. QED BY <1>6, <2>1, <2>2, CreateReq
<1>7. ASSUME EndStep(r, ok) PROVE Acted(r)
  <2>1. CASE EndInstance(r, "finish", "approved", "idle", ok)
    BY <1>1, <1>2, <2>1, NowEnds DEF EndInstance
  <2>2. ASSUME NEW pc \in {"cancel", "end"}, NEW outcome, EndInstance(r, pc, outcome, "skipAll", ok)
        PROVE  Acted(r)
    <3>1. req[r].inst \in Started /\ GoTo(r, "skipAll")
      BY <1>4, <2>2 DEF EndInstance, At, Ending
    <3>. QED BY <1>3, <3>1 DEF Ending, Asking
  <2>. QED BY <1>7, <2>1, <2>2 DEF EndStep
<1>8. ASSUME SkipAll(r, ok) PROVE Acted(r)
  BY <1>1, <1>2, <1>8, NowEnds DEF SkipAll
<1>9. ASSUME MarkApproved(r, ok) PROVE Acted(r)
  <2>1. req[r].inst \in Started /\ req[r].pc \in Asking
    BY <1>4, <1>9 DEF MarkApproved, At, Asking
  <2>2. GoTo(r, "define") \/ GoTo(r, "vars")
    BY <1>9 DEF MarkApproved
  <2>. QED BY <1>3, <2>1, <2>2 DEF Asking
<1>10. ASSUME MarkRejected(r, ok) PROVE Acted(r)
  <2>1. req[r].inst \in Started /\ GoTo(r, "end")
    BY <1>4, <1>10 DEF MarkRejected, At
  <2>. QED BY <1>3, <2>1 DEF Asking, Ending
<1>11. ASSUME AppendVars(r, ok) PROVE Acted(r)
  <2>1. req[r].inst \in Started /\ req[r].pc \in Asking /\ GoTo(r, "define")
    BY <1>4, <1>11 DEF AppendVars, At, Asking
  <2>. QED BY <1>3, <2>1 DEF Asking
<1>12. ASSUME SkipNode(r, ok) PROVE Acted(r)
  <2>1. req[r].inst \in Started /\ req[r].pc \in Asking /\ DecidesTask(r)
    BY <1>1, <1>4, <1>12 DEF SkipNode, At, Asking, Sound, Placed
  <2>2. tasks[req[r].task] \in TaskRow
    BY <1>1, <2>1, RowsTyped DEF DecidesTask
  <2>3. req[r].node \in 1 .. Last /\ Last \in Nat
    BY <2>1, <2>2, Definition DEF DecidesTask, TaskRow, Node
  <2>4. CASE req[r].node < Last
    BY <1>3, <1>12, <2>1, <2>4 DEF SkipNode, Asking
  <2>5. CASE ~(req[r].node < Last)
    <3>1. req[r].node = Last
      BY <2>3, <2>5
    <3>. QED BY <1>3, <1>12, <2>1, <2>5, <3>1 DEF SkipNode, Asking
  <2>. QED BY <2>4, <2>5
<1>13. ASSUME Advance(r, ok) PROVE Acted(r)
  <2>. DEFINE n == req[r].node + 1
              k == keys[n]
              l == Assignees[n]
  <2>1. n \in Node /\ k \in Node /\ Now(r, "tasks", req[r].inst, req[r].task, k, l, req[r].seen)
    BY <1>13, AdvanceReq
  <2>2. l # <<>> /\ \A a \in DOMAIN l : l[a] \in People(n)
    BY <2>1, Definition
  <2>3. k = n \/ req[r].inst \in returned'
    BY <1>13 DEF Advance
  <2>. HIDE DEF l, k, n
  <2>5. Placed(r)'
    BY <2>1, <2>2, <2>3 DEF Now, Placed, At, Asking, Ending, Invited
  <2>4. req[r].inst <= Len(insts') /\ req[r].task <= Len(tasks') /\ req[r].seen \subseteq TaskId'
    BY <1>1 DEF Sound, Grown, Req
  <2>6. Sound(r)'
    BY <2>1, <2>4, <2>5 DEF Now, Sound
  <2>. QED BY <2>1, <2>6, NowActed
<1>. QED BY <1>5, <1>6, <1>7, <1>8, <1>9, <1>10, <1>11, <1>12, <1>13 DEF WriteStep

LEMMA StepActed ==
  ASSUME Shape, Grown, NEW r \in Thread, NEW ok \in BOOLEAN, Step(r, ok)
  PROVE  Acted(r)
BY ReadActed, WriteActed DEF Step

LEMMA RequestsStaySound ==
  ASSUME Shape, Next
  PROVE  req' \in [Thread -> Req] /\ \A q \in Thread : Sound(q)'
<1>1. Grown
  BY StepGrows
<1>2. ASSUME NEW r \in Thread, NEW ok \in BOOLEAN, Step(r, ok)
      PROVE  req' \in [Thread -> Req] /\ \A q \in Thread : Sound(q)'
  <2>1. Acted(r)
    BY <1>1, <1>2, StepActed
  <2>. QED BY <1>1, <2>1, SoundKept DEF Acted
<1>3. ASSUME LoseDefinition
      PROVE  req' \in [Thread -> Req] /\ \A q \in Thread : Sound(q)'
  <2>1. req' = req
    BY <1>3 DEF LoseDefinition
  <2>. QED BY <1>1, <2>1, SoundKept DEF Shape, Typed
<1>. QED BY <1>2, <1>3, Steps DEF Step

\* nobody changes a key
LEMMA KeysStay ==
  ASSUME Next
  PROVE  keys' = keys
<1>1. ASSUME NEW r \in Thread, NEW ok \in BOOLEAN, ReadStep(r, ok) PROVE keys' = keys
  BY <1>1 DEF ReadStep, Start, SelectInstance, BreakOff, Cancel, SelectTask, SelectMaxId,
              SelectDefinition, CountPending, Note
<1>2. ASSUME NEW r \in Thread, NEW ok \in BOOLEAN, WriteStep(r, ok) PROVE keys' = keys
  BY <1>2 DEF WriteStep, InsertInstance, CreateNodeTask, EndStep, EndInstance, SkipAll,
              MarkApproved, MarkRejected, AppendVars, SkipNode, Advance, Note
<1>. QED BY <1>1, <1>2, Steps DEF LoseDefinition

\* nodes with an earlier one's key only lower the bound on the other events
LEMMA EventsBound ==
  ASSUME Typed, EventsLeft
  PROVE  Len(insts) + faults < MaxEvents
<1>1. Last \in Nat
  BY FlowEngineAssumption, LenProperties DEF Last
<1>2. IsFiniteSet(Node)
  BY <1>1, FS_Interval DEF Node
<1>3. IsFiniteSet(Repeated)
  BY <1>2, FS_Subset DEF Repeated
<1>4. Cardinality(Repeated) \in Nat
  BY <1>3, FS_CardinalityType
<1>5. Len(insts) \in Nat /\ faults \in Nat /\ MaxEvents \in Nat
  BY RowsTyped, FlowEngineAssumption DEF Typed
<1>. QED BY <1>4, <1>5 DEF EventsLeft

LEMMA DefAndFaults ==
  ASSUME Typed, Next
  PROVE  def' \in {"usable", "empty", "gone"} /\ faults' \in 0 .. MaxEvents
<1>1. /\ def \in {"usable", "empty", "gone"} /\ faults \in 0 .. MaxEvents
      /\ MaxEvents \in Nat /\ Len(insts) \in Nat
  BY RowsTyped, FlowEngineAssumption DEF Typed
<1>2. EventsLeft => faults + 1 \in 0 .. MaxEvents
  BY <1>1, EventsBound
<1>3. def' = def \/ def' \in {"empty", "gone"}
  <2>1. ASSUME NEW r \in Thread, NEW ok \in BOOLEAN, ReadStep(r, ok) PROVE def' = def
    BY <2>1 DEF ReadStep, Start, SelectInstance, BreakOff, Cancel, SelectTask, SelectMaxId,
                SelectDefinition, CountPending, Note
  <2>2. ASSUME NEW r \in Thread, NEW ok \in BOOLEAN, WriteStep(r, ok) PROVE def' = def
    BY <2>2 DEF WriteStep, InsertInstance, CreateNodeTask, EndStep, EndInstance, SkipAll,
                MarkApproved, MarkRejected, AppendVars, SkipNode, Advance, Note
  <2>. QED BY <2>1, <2>2, Steps DEF LoseDefinition
<1>4. faults' = faults \/ (EventsLeft /\ faults' = faults + 1)
  BY DEF Next, Statement, Start, SelectInstance, BreakOff, Cancel, SelectTask, LoseDefinition
<1>. QED BY <1>1, <1>2, <1>3, <1>4

LEMMA IdsStep ==
  ASSUME Shape, Next
  PROVE  IdsOK'
<1>1. /\ Typed /\ IdsOK /\ Grown /\ Len(insts) \in Nat /\ Len(tasks) \in Nat
      /\ \A q \in Thread : Sound(q)'
  BY StepGrows, RowsTyped, RequestsStaySound DEF Shape
<1>2. \A i \in Started' : insts'[i].vars \subseteq TaskId'
  <2>1. CASE UNCHANGED insts
    BY <1>1, <2>1 DEF IdsOK, Grown, Started
  <2>2. ASSUME NEW r \in Thread, NEW ok \in BOOLEAN, InstWrite(r, ok)
        PROVE  \A i \in Started' : insts'[i].vars \subseteq TaskId'
    <3>1. CASE InsertInstance(r, ok)
      <4>1. CASE ok
        BY <1>1, <3>1, <4>1, InsertEffect DEF IdsOK, Grown
      <4>2. CASE ~ok
        BY <1>1, <3>1, <4>2, InsertEffect DEF IdsOK, Grown, Started
      <4>. QED BY <4>1, <4>2
    <3>2. ASSUME NEW vs, NEW i \in Started, NEW status, NEW node,
                 InstBecomes(i, status, node, vs), vs \subseteq TaskId
          PROVE  \A j \in Started' : insts'[j].vars \subseteq TaskId'
      BY <1>1, <3>2 DEF InstBecomes, IdsOK, Grown
    <3>3. ASSUME NEW i \in Started, NEW status, NEW node, InstBecomes(i, status, node, insts[i].vars)
          PROVE  \A j \in Started' : insts'[j].vars \subseteq TaskId'
      BY <1>1, <3>2, <3>3 DEF IdsOK
    <3>4. CASE EndStep(r, ok)
      BY <3>3, <3>4, EndEffect DEF EndStep, Ended
    <3>5. CASE Advance(r, ok)
      BY <3>3, <3>5, AdvanceEffect
    <3>6. CASE AppendVars(r, ok)
      <4>. DEFINE vs == IF ok THEN req[r].seen \cup {req[r].task} ELSE insts[req[r].inst].vars
      <4>1. /\ req[r].inst \in Started /\ req[r].task \in TaskId
            /\ InstBecomes(req[r].inst, insts[req[r].inst].status, insts[req[r].inst].node, vs)
        BY <3>6, AppendEffect
      <4>2. vs \subseteq TaskId
        BY <1>1, <4>1 DEF IdsOK
      <4>. HIDE DEF vs
      <4>. QED BY <3>2, <4>1, <4>2
    <3>. QED BY <2>2, <3>1, <3>4, <3>5, <3>6 DEF InstWrite
  <2>. QED BY <1>1, <2>1, <2>2, Steps, Writes, ReadsLeaveRows DEF rows, LoseDefinition
<1>3. TasksInvited'
  <2>1. \A t \in TaskId : /\ tasks'[t].inst <= Len(insts')
                        /\ Invited(tasks[t].inst, tasks[t].node, tasks[t].by)'
    <3>1. \A t \in TaskId : tasks[t].inst \in Nat /\ tasks[t].inst <= Len(insts)
      BY <1>1, RowsTyped DEF IdsOK, TasksInvited, TaskRow
    <3>. QED BY <1>1, <3>1 DEF IdsOK, TasksInvited, Invited, Grown
  <2>2. CASE UNCHANGED tasks
    BY <2>1, <2>2 DEF TaskId, TasksInvited
  <2>3. ASSUME NEW ts, NEW status, PutStatus(ts, status)
        PROVE  TaskId' = TaskId
    BY <2>3 DEF PutStatus
  <2>4. ASSUME NEW r \in Thread, NEW ok \in BOOLEAN, TaskWrite(r, ok), UNCHANGED insts
        PROVE  TasksInvited'
    <3>1. CASE CreateNodeTask(r, ok)
      <4>1. CASE ok
        <5>1. /\ req[r].left \in Seq(Nat) /\ req[r].left # <<>> /\ req[r].inst <= Len(insts)
              /\ \A a \in DOMAIN req[r].left : Invited(req[r].inst, req[r].node, req[r].left[a])
          BY <1>1, <3>1, CreateReq DEF IdsOK
        <5>2. Invited(req[r].inst, req[r].node, Head(req[r].left))
          <6>1. 1 \in DOMAIN req[r].left
            BY <5>1, EmptySeq, LenProperties
          <6>. QED BY <5>1, <6>1
        <5>3. returned' = returned
          BY <3>1 DEF CreateNodeTask, Note
        <5>. QED BY <2>1, <2>4, <3>1, <4>1, <5>1, <5>2, <5>3, CreateEffect
             DEF TasksInvited, Invited
      <4>2. CASE ~ok
        BY <2>2, <3>1, <4>2, CreateEffect
      <4>. QED BY <4>1, <4>2
    <3>2. CASE SkipAll(r, ok)
      BY <1>1, <2>1, <2>3, <3>2, SkipEffect DEF SkipAll, TasksInvited
    <3>3. CASE SkipNode(r, ok)
      BY <1>1, <2>1, <2>3, <3>3, SkipEffect DEF SkipNode, TasksInvited
    <3>4. CASE MarkApproved(r, ok)
      BY <2>1, <2>3, <3>4, MarkEffect DEF MarkApproved, At, TaskStatus, TasksInvited
    <3>5. CASE MarkRejected(r, ok)
      BY <2>1, <2>3, <3>5, MarkEffect DEF MarkRejected, At, TaskStatus, TasksInvited
    <3>. QED BY <2>4, <3>1, <3>2, <3>3, <3>4, <3>5 DEF TaskWrite
  <2>. QED BY <2>2, <2>4, Steps, Writes, ReadsLeaveRows DEF rows, LoseDefinition
<1>4. \A r \in Thread :
        /\ req'[r].inst <= Len(insts') /\ req'[r].task <= Len(tasks')
        /\ req'[r].seen \subseteq TaskId'
  BY <1>1 DEF Sound
<1>5. said' \subseteq Started' \X Node \X Nat
  <2>1. said \subseteq Started' \X Node \X Nat
    BY <1>1 DEF IdsOK, Grown
  <2>2. ASSUME NEW r \in Thread, NEW ok \in BOOLEAN, MarkApproved(r, ok)
        PROVE  <<req[r].inst, req[r].node, tasks[req[r].task].by>> \in Started \X Node \X Nat
    <3>1. /\ req[r].task \in TaskId /\ req[r].inst \in Started
          /\ req[r].node = tasks[req[r].task].node
      BY <2>2, MarkEffect DEF MarkApproved, At, TaskStatus
    <3>. QED BY <1>1, <3>1, RowsTyped DEF TaskRow
  <2>3. \/ said' = said
        \/ \E r \in Thread, ok \in BOOLEAN :
             /\ MarkApproved(r, ok)
             /\ said' = said \cup {<<req[r].inst, req[r].node, tasks[req[r].task].by>>}
    <3>1. ASSUME NEW r \in Thread, NEW ok \in BOOLEAN, ReadStep(r, ok) PROVE said' = said
      BY <3>1 DEF ReadStep, Start, SelectInstance, BreakOff, Cancel, SelectTask, SelectMaxId,
                  SelectDefinition, CountPending, Note, history
    <3>2. ASSUME NEW r \in Thread, NEW ok \in BOOLEAN, WriteStep(r, ok), ~MarkApproved(r, ok)
          PROVE  said' = said
      BY <3>2 DEF WriteStep, InsertInstance, CreateNodeTask, EndStep, EndInstance, SkipAll,
                  MarkRejected, AppendVars, SkipNode, Advance, Note
    <3>3. ASSUME NEW r \in Thread, NEW ok \in BOOLEAN, MarkApproved(r, ok)
          PROVE  said' = said \cup {<<req[r].inst, req[r].node, tasks[req[r].task].by>>}
      BY <3>3 DEF MarkApproved
    <3>. QED BY <3>1, <3>2, <3>3, Steps DEF LoseDefinition
  <2>. QED BY <1>1, <2>1, <2>2, <2>3 DEF Grown
<1>6. crowded' \subseteq 0 .. Len(insts') /\ spoiled' \subseteq 0 .. Len(insts')
  <2>. DEFINE Ids == 0 .. Len(insts')
  <2>1. /\ crowded \subseteq Ids /\ spoiled \subseteq Ids /\ Started \subseteq Ids /\ Len(insts) \in Ids
        /\ \A r \in Thread : req[r].inst \in Ids
        /\ \A t \in TaskId : tasks[t].inst \in Ids
    BY <1>1, RowsTyped DEF IdsOK, TasksInvited, Grown, Started, Req, TaskRow
  <2>2. ASSUME NEW r \in Thread, NEW ok \in BOOLEAN, InsertInstance(r, ok)
        PROVE  crowded' \subseteq Ids /\ spoiled' \subseteq Ids
    <3>1. ok => Len(insts) + 1 \in Ids
      <4>1. ok => Len(insts') = Len(insts) + 1
        BY <1>1, <2>2, InsertEffect
      <4>2. \A n \in Nat : n + 1 \in 0 .. n + 1
        OBVIOUS
      <4>. QED BY <1>1, <4>1, <4>2
    <3>. QED BY <2>1, <2>2, <3>1 DEF InsertInstance
  <2>. HIDE DEF Ids
  <2>3. ASSUME NEW r \in Thread, NEW ok \in BOOLEAN, ReadStep(r, ok)
        PROVE  crowded' \subseteq Ids /\ spoiled' \subseteq Ids
    BY <2>1, <2>3 DEF ReadStep, Start, SelectInstance, BreakOff, Cancel, SelectTask, SelectMaxId,
                      SelectDefinition, CountPending, Note, Joins, history, NewestId
  <2>4. ASSUME NEW r \in Thread, NEW ok \in BOOLEAN, WriteStep(r, ok), ~InsertInstance(r, ok)
        PROVE  crowded' \subseteq Ids /\ spoiled' \subseteq Ids
    BY <2>1, <2>4 DEF WriteStep, CreateNodeTask, EndStep, EndInstance, SkipAll, MarkApproved,
                      MarkRejected, AppendVars, SkipNode, Advance, Note
  <2>5. ASSUME LoseDefinition
        PROVE  crowded' \subseteq Ids /\ spoiled' \subseteq Ids
    BY <2>1, <2>5 DEF LoseDefinition
  <2>. QED BY <2>2, <2>3, <2>4, <2>5, Steps DEF Ids
<1>7. returned' \subseteq Started'
  <2>1. returned \subseteq Started'
    BY <1>1 DEF IdsOK, Grown
  <2>2. ASSUME NEW r \in Thread, NEW ok \in BOOLEAN, ReadStep(r, ok) PROVE returned' = returned
    BY <2>2 DEF ReadStep, Start, SelectInstance, BreakOff, Cancel, SelectTask, SelectMaxId,
                SelectDefinition, CountPending, Note, history
  <2>3. ASSUME NEW r \in Thread, NEW ok \in BOOLEAN, WriteStep(r, ok), ~Advance(r, ok)
        PROVE  returned' = returned
    BY <2>3 DEF WriteStep, InsertInstance, CreateNodeTask, EndStep, EndInstance, SkipAll,
                MarkApproved, MarkRejected, AppendVars, SkipNode, Note
  <2>4. ASSUME NEW r \in Thread, NEW ok \in BOOLEAN, Advance(r, ok)
        PROVE  returned' \subseteq Started'
    <3>1. req[r].inst \in Started'
      BY <1>1, <2>4, AdvanceEffect DEF Grown
    <3>. QED BY <2>1, <2>4, <3>1 DEF Advance
  <2>. QED BY <2>1, <2>2, <2>3, <2>4, Steps DEF LoseDefinition
<1>. QED BY <1>2, <1>3, <1>4, <1>5, <1>6, <1>7 DEF IdsOK

LEMMA ShapeStep ==
  ASSUME Shape, Next
  PROVE  Shape'
<1>1. Typed'
  BY StepGrows, RequestsStaySound, DefAndFaults, KeysStay DEF Shape, Typed, RowsTypedAfter
<1>2. AllPlaced'
  BY RequestsStaySound DEF AllPlaced, Sound
<1>. QED BY <1>1, <1>2, IdsStep DEF Shape

LEMMA ShapeInit ==
  ASSUME Init
  PROVE  Shape
<1>1. /\ insts = <<>> /\ tasks = <<>> /\ Len(insts) = 0 /\ Len(tasks) = 0
      /\ Started = {} /\ TaskId = {}
  BY EmptySeq DEF Init, Started, TaskId
<1>2. Typed
  BY <1>1, EmptySeq, IdleTyped, FlowEngineAssumption DEF Init, Typed
<1>3. \A r \in Thread : /\ req[r].pc = "idle" /\ req[r].inst = 0 /\ req[r].task = 0
                         /\ req[r].seen = {}
  BY DEF Init, Idle
<1>4. IdsOK
  BY <1>1, <1>3 DEF Init, IdsOK, TasksInvited
<1>5. AllPlaced
  BY <1>3 DEF AllPlaced, Placed, At, Asking, Ending
<1>. QED BY <1>2, <1>4, <1>5 DEF Shape

LEMMA ShapeStutter ==
  ASSUME Shape, UNCHANGED vars
  PROVE  Shape'
BY DEF vars, rows, history, Shape, Typed, IdsOK, TasksInvited, Invited, AllPlaced, Placed,
       DecidesTask, At, Started, TaskId

(* Every variable keeps its type, and every reference from one row or       *)
(* request to another finds a row, whatever fails or overlaps.              *)
THEOREM FlowTyped == Spec => []TypeOK
<1>1. Shape => TypeOK
  <2>. SUFFICES ASSUME Shape PROVE TypeOK
    OBVIOUS
  <2>. DEFINE Inst == [status : Ended \cup {"running"}, node : 0 .. Last, vars : SUBSET TaskId]
              Task == [inst : 0 .. Len(insts), node : Node, by : Nat,
                       status : {"pending", "approved", "rejected", "skipped"}]
  <2>1. /\ Len(insts) \in Nat /\ Len(tasks) \in Nat
        /\ insts \in [1 .. Len(insts) -> InstRow] /\ tasks \in [1 .. Len(tasks) -> TaskRow]
    BY LenProperties DEF Shape, Typed
  <2>2. insts \in [1 .. Len(insts) -> Inst]
    BY <2>1 DEF Shape, IdsOK, Started, InstRow, Status
  <2>3. tasks \in [1 .. Len(tasks) -> Task]
    BY <2>1 DEF Shape, IdsOK, TasksInvited, TaskId, TaskRow, TaskStatus
  <2>. HIDE DEF Inst, Task
  <2>4. insts \in Seq(Inst) /\ tasks \in Seq(Task)
    BY <2>1, <2>2, <2>3, SeqDef
  <2>5. \A r \in Thread :
          /\ req[r].inst \in 0 .. Len(insts) /\ req[r].task \in 0 .. Len(tasks)
          /\ req[r].node \in 0 .. Last /\ req[r].seen \subseteq TaskId
    BY <2>1, RowsTyped DEF Shape, IdsOK, Req
  <2>. QED BY <2>4, <2>5 DEF Shape, Typed, IdsOK, TypeOK, Inst, Task
<1>2. Shape /\ [Next]_vars => Shape'
  BY ShapeStep, ShapeStutter
<1>. QED BY <1>1, <1>2, ShapeInit, PTL DEF Spec

-----------------------------------------------------------------------------
(* No node is passed without an approval.                                   *)

\* S: who has approved what
Heard(S, i, k) == \E u \in People(k) : <<i, k, u>> \in S
Passed(S, i, k) == \A j \in Node : j <= k => Heard(S, i, j)

Approving == {"vars", "define", "count", "skipNode", "advance", "finish"}

\* a task at k for u is node k's own, or it is of a later node and k has agreed already
Counts(S, i, k, u) == u \in People(k) \/ Heard(S, i, k)

\* a request beyond its approval has passed its node, one that makes tasks the nodes before
Entitled(r) ==
  /\ req[r].pc \in Approving => Passed(said, req[r].inst, req[r].node)
  /\ At(r, "tasks") =>
       /\ Passed(said, req[r].inst, req[r].node - 1)
       /\ \A a \in DOMAIN req[r].left : Counts(said, req[r].inst, req[r].node, req[r].left[a])

Backed ==
  /\ \A i \in Started :
       /\ Passed(said, i, insts[i].node - 1)
       /\ insts[i].status = "approved" => Passed(said, i, Last)
  /\ \A t \in TaskId :
       /\ Passed(said, tasks[t].inst, tasks[t].node - 1)
       /\ Counts(said, tasks[t].inst, tasks[t].node, tasks[t].by)
  /\ \A r \in Thread : Entitled(r)

LEMMA PassedKept ==
  ASSUME Grown, NEW i, NEW k, Passed(said, i, k)
  PROVE  Passed(said', i, k)
BY DEF Grown, Passed, Heard

LEMMA CountsKept ==
  ASSUME Grown, NEW i, NEW k, NEW u, Counts(said, i, k, u)
  PROVE  Counts(said', i, k, u)
BY DEF Grown, Counts, Heard

LEMMA PassedZero ==
  ASSUME NEW S, NEW i, NEW k \in Int, k <= 0
  PROVE  Passed(S, i, k)
BY Definition DEF Passed, Node

LEMMA BackedInst ==
  ASSUME Backed, Grown, NEW i \in Started
  PROVE  /\ Passed(said', i, insts[i].node - 1)
         /\ insts[i].status = "approved" => Passed(said', i, Last)
<1>1. /\ Passed(said, i, insts[i].node - 1)
      /\ insts[i].status = "approved" => Passed(said, i, Last)
  BY DEF Backed
<1>2. \A k : Passed(said, i, k) => Passed(said', i, k)
  BY PassedKept
<1>. QED BY <1>1, <1>2

LEMMA EntitledGoes ==
  ASSUME Grown, NEW r \in Thread, NEW pc \in Pc \ {"tasks"}, Goes(r, pc), Entitled(r),
         pc \in Approving => req[r].pc \in Approving
  PROVE  Entitled(r)'
<1>1. req'[r].pc = pc /\ req'[r].inst = req[r].inst /\ req'[r].node = req[r].node
  BY DEF Goes, Now
<1>. QED BY <1>1, PassedKept DEF Entitled, At, Approving

LEMMA EntitledOther ==
  ASSUME NEW r \in Thread, req'[r].pc \notin Approving \cup {"tasks"}
  PROVE  Entitled(r)'
BY DEF Entitled, At

LEMMA EntitledActing ==
  ASSUME Shape, Backed, Grown, NEW r \in Thread, NEW ok \in BOOLEAN, Step(r, ok)
  PROVE  Entitled(r)'
<1>1. /\ Typed /\ req[r] \in Req /\ Sound(r) /\ Entitled(r) /\ Len(insts) \in Nat
  BY SoundRequests, RowsTyped DEF Shape, Backed
<1>2. ASSUME Ends(r) PROVE Entitled(r)'
  BY <1>2, EntitledOther DEF Ends, Now, Approving
<1>3. ASSUME NEW pc \in Pc \ {"tasks"}, GoTo(r, pc), pc \in Approving => req[r].pc \in Approving
      PROVE  Entitled(r)'
  BY <1>1, <1>3, NowGoes, EntitledGoes
<1>4. CASE ReadStep(r, ok)
  <2>1. CASE Start(r)
    BY <1>1, <2>1, StartReq, EntitledOther DEF Now, Approving
  <2>2. CASE SelectInstance(r)
    <3>1. CASE Ends(r)
      BY <1>2, <3>1
    <3>2. CASE req'[r].pc \in {"approve", "reject"}
      BY <3>2, EntitledOther DEF Approving
    <3>. QED BY <1>1, <2>2, <3>1, <3>2, SelectInstanceReq DEF Now
  <2>3. CASE BreakOff(r)
    BY <1>1, <1>2, <2>3, NowEnds DEF BreakOff
  <2>4. ASSUME NEW i \in Started, Cancel(r, i) PROVE Entitled(r)'
    BY <1>1, <2>4, CancelReq, EntitledOther DEF Now, Approving
  <2>5. ASSUME NEW t \in TaskId, SelectTask(r, t) PROVE Entitled(r)'
    BY <1>1, <2>5, SelectTaskReq, EntitledOther DEF Now, Approving
  <2>6. CASE SelectMaxId(r, ok)
    <3>1. CASE Ends(r)
      BY <1>2, <3>1
    <3>2. CASE Now(r, "tasks", Len(insts), req[r].task, 1, Assignees[1], req[r].seen)
      <4>1. Passed(said, req'[r].inst, req'[r].node - 1)
        BY <3>2, PassedZero DEF Now
      <4>2. Passed(said', req'[r].inst, req'[r].node - 1)
        BY <3>2, PassedZero DEF Now, Passed, Node
      <4>3. \A a \in DOMAIN Assignees[1] : Assignees[1][a] \in People(1)
        BY Definition
      <4>. QED BY <3>2, <4>2, <4>3 DEF Now, Entitled, At, Approving, Passed, Counts
    <3>. QED BY <2>6, <3>1, <3>2, MaxReq
  <2>7. CASE SelectDefinition(r, ok)
    BY <1>1, <1>2, <1>3, <2>7, NowEnds DEF SelectDefinition, At, Approving, Pc, Asking
  <2>8. CASE CountPending(r, ok)
    BY <1>1, <1>2, <1>3, <2>8, NowEnds DEF CountPending, At, Approving, Pc, Asking
  <2>. QED BY <1>4, <2>1, <2>2, <2>3, <2>4, <2>5, <2>6, <2>7, <2>8 DEF ReadStep
<1>5. CASE WriteStep(r, ok)
  <2>1. CASE InsertInstance(r, ok)
    BY <1>1, <2>1, InsertReq, EntitledOther DEF Now, Approving
  <2>2. CASE CreateNodeTask(r, ok)
    <3>1. CASE Ends(r)
      BY <1>2, <3>1
    <3>2. CASE Now(r, "tasks", req[r].inst, req[r].task, req[r].node, Tail(req[r].left), req[r].seen)
      <4>. DEFINE l == req[r].left
      <4>1. /\ Passed(said', req[r].inst, req[r].node - 1)
            /\ \A a \in DOMAIN l : Counts(said', req[r].inst, req[r].node, l[a])
        BY <1>1, <2>2, PassedKept, CountsKept DEF CreateNodeTask, Entitled
      <4>2. l \in Seq(Nat) /\ l # <<>>
        BY <2>2, CreateReq
      <4>. HIDE DEF l
      <4>3. \A a \in DOMAIN Tail(l) : a + 1 \in DOMAIN l /\ Tail(l)[a] = l[a + 1]
        <5>1. /\ Len(Tail(l)) = Len(l) - 1 /\ Len(l) \in Nat /\ Tail(l) \in Seq(Nat)
              /\ \A a \in 1 .. Len(Tail(l)) : Tail(l)[a] = l[a + 1]
          BY <4>2, HeadTailProperties, LenProperties
        <5>2. DOMAIN l = 1 .. Len(l) /\ DOMAIN Tail(l) = 1 .. Len(Tail(l))
          BY <4>2, <5>1, LenProperties
        <5>. QED BY <5>1, <5>2
      <4>4. \A a \in DOMAIN Tail(l) : Counts(said', req[r].inst, req[r].node, Tail(l)[a])
        BY <4>1, <4>3
      <4>. QED BY <3>2, <4>1, <4>4 DEF Now, Entitled, At, Approving, Passed, Heard, Counts, l
    <3>. QED BY <2>2, <3>1, <3>2, CreateReq
  <2>3. CASE EndStep(r, ok)
    BY <1>1, <1>2, <1>3, <2>3, NowEnds DEF EndStep, EndInstance, Pc, Ending, Approving
  <2>4. CASE SkipAll(r, ok)
    BY <1>1, <1>2, <2>4, NowEnds DEF SkipAll
  <2>5. CASE MarkApproved(r, ok)
    <3>. DEFINE i == req[r].inst
                k == req[r].node
                u == tasks[req[r].task].by
    <3>1. /\ req[r].task \in TaskId /\ i = tasks[req[r].task].inst
          /\ k = tasks[req[r].task].node
      BY <2>5, MarkEffect DEF MarkApproved, At, TaskStatus
    <3>2. Passed(said', i, k - 1) /\ Counts(said', i, k, u) /\ k \in Node
      BY <1>1, <3>1, PassedKept, CountsKept, RowsTyped DEF Backed, TaskRow
    <3>8. <<i, k, u>> \in said'
      BY <2>5 DEF MarkApproved
    <3>. HIDE DEF i, k, u
    <3>3. Heard(said', i, k)
      BY <3>2, <3>8 DEF Counts, Heard
    <3>4. \A j \in Node : j <= k => j <= k - 1 \/ j = k
      BY <3>2 DEF Node
    <3>5. \A j \in Node : j <= k => \E v \in People(j) : <<i, j, v>> \in said'
      BY <3>2, <3>3, <3>4 DEF Passed, Heard
    <3>6. \E pc \in {"define", "vars"} : Goes(r, pc)
      BY <1>1, <2>5, NowGoes DEF MarkApproved, Pc, Asking
    <3>7. req'[r].inst = i /\ req'[r].node = k /\ req'[r].pc # "tasks"
      BY <3>6 DEF Goes, Now, i, k
    <3>. QED BY <3>5, <3>7 DEF Entitled, At, Passed, Heard
  <2>6. CASE MarkRejected(r, ok)
    BY <1>1, <1>3, <2>6 DEF MarkRejected, Pc, Ending, Approving
  <2>7. CASE AppendVars(r, ok)
    BY <1>1, <1>3, <2>7 DEF AppendVars, At, Pc, Asking, Approving
  <2>8. CASE SkipNode(r, ok)
    BY <1>1, <1>3, <2>8 DEF SkipNode, At, Pc, Asking, Approving
  <2>9. CASE Advance(r, ok)
    <3>. DEFINE n == req[r].node + 1
                k == keys[n]
                i == req[r].inst
    <3>1. /\ n \in Node /\ n - 1 = req[r].node /\ k \in Node /\ k <= n /\ req[r].node \in Nat
          /\ Now(r, "tasks", i, req[r].task, k, Assignees[n], req[r].seen)
      BY <1>1, <2>9, AdvanceReq DEF Req
    <3>2. Passed(said', i, n - 1)
      BY <1>1, <2>9, <3>1, PassedKept DEF Advance, At, Entitled, Approving
    <3>3. \A a \in DOMAIN Assignees[n] : Assignees[n][a] \in People(n)
      BY <3>1, Definition
    <3>. HIDE DEF k, n, i
    <3>4. Passed(said', i, k - 1)
      BY <3>1, <3>2, Definition DEF Passed, Node
    <3>5. k = n \/ Heard(said', i, k)
      BY <3>1, <3>2, Definition DEF Passed, Node
    <3>6. \A a \in DOMAIN Assignees[n] : Counts(said', i, k, Assignees[n][a])
      BY <3>3, <3>5 DEF Counts
    <3>. QED BY <3>1, <3>4, <3>6 DEF Now, Entitled, At, Approving, Passed, Heard, Counts
  <2>. QED BY <1>5, <2>1, <2>2, <2>3, <2>4, <2>5, <2>6, <2>7, <2>8, <2>9 DEF WriteStep
<1>. QED BY <1>4, <1>5 DEF Step

LEMMA BackedStep ==
  ASSUME Shape, Backed, Next
  PROVE  Backed'
<1>1. /\ Typed /\ Grown /\ Len(insts) \in Nat /\ Len(tasks) \in Nat
  BY StepGrows, RowsTyped DEF Shape
<1>2. \A r \in Thread : Entitled(r)'
  <2>1. ASSUME NEW q \in Thread, req'[q] = req[q] PROVE Entitled(q)'
    BY <1>1, <2>1, PassedKept, CountsKept DEF Backed, Entitled, At
  <2>2. ASSUME NEW r \in Thread, NEW ok \in BOOLEAN, Step(r, ok)
        PROVE  \A q \in Thread : Entitled(q)'
    BY <1>1, <2>1, <2>2, StepActed, EntitledActing DEF Acted
  <2>. QED BY <2>1, <2>2, Steps DEF Step, LoseDefinition
<1>. DEFINE Based(t) == /\ Passed(said', tasks'[t].inst, tasks'[t].node - 1)
                       /\ Counts(said', tasks'[t].inst, tasks'[t].node, tasks'[t].by)
<1>3. \A t \in TaskId' : Based(t)
  <2>1. \A t \in TaskId : Based(t)
    BY <1>1, PassedKept, CountsKept DEF Backed, Grown, Passed, Counts, Heard
  <2>2. ASSUME NEW r \in Thread, NEW ok \in BOOLEAN, CreateNodeTask(r, ok), ok
        PROVE  Based(Len(tasks) + 1)
    <3>. DEFINE l == req[r].left
                u == Head(l)
    <3>1. /\ Passed(said', req[r].inst, req[r].node - 1)
          /\ \A a \in DOMAIN l : Counts(said', req[r].inst, req[r].node, l[a])
      BY <1>1, <2>2, PassedKept, CountsKept DEF CreateNodeTask, Backed, Entitled
    <3>2. 1 \in DOMAIN l /\ u = l[1]
      <4>1. l \in Seq(Nat) /\ l # <<>>
        BY <1>1, <2>2, CreateReq
      <4>. QED BY <4>1, EmptySeq, LenProperties
    <3>3. Counts(said', req[r].inst, req[r].node, u)
      BY <3>1, <3>2
    <3>4. /\ tasks'[Len(tasks) + 1].inst = req[r].inst /\ tasks'[Len(tasks) + 1].node = req[r].node
          /\ tasks'[Len(tasks) + 1].by = u
      BY <2>2, CreateEffect
    <3>. QED BY <3>1, <3>3, <3>4 DEF Passed, Counts, Heard
  <2>3. ASSUME NEW r \in Thread, NEW ok \in BOOLEAN, TaskWrite(r, ok), ~(CreateNodeTask(r, ok) /\ ok)
        PROVE  TaskId' = TaskId
    <3>1. ASSUME NEW ts, NEW status, PutStatus(ts, status)
          PROVE  TaskId' = TaskId
      BY <3>1 DEF PutStatus
    <3>2. CASE CreateNodeTask(r, ok)
      BY <2>3, <3>2, CreateEffect DEF TaskId
    <3>3. CASE SkipAll(r, ok)
      BY <1>1, <3>1, <3>3, SkipEffect DEF SkipAll
    <3>4. CASE SkipNode(r, ok)
      BY <1>1, <3>1, <3>4, SkipEffect DEF SkipNode
    <3>5. CASE MarkApproved(r, ok)
      BY <3>1, <3>5, MarkEffect DEF MarkApproved, At, TaskStatus
    <3>6. CASE MarkRejected(r, ok)
      BY <3>1, <3>6, MarkEffect DEF MarkRejected, At, TaskStatus
    <3>. QED BY <2>3, <3>2, <3>3, <3>4, <3>5, <3>6 DEF TaskWrite
  <2>4. CASE UNCHANGED tasks
    BY <2>1, <2>4 DEF TaskId
  <2>5. ASSUME NEW r \in Thread, NEW ok \in BOOLEAN, TaskWrite(r, ok)
        PROVE  \A t \in TaskId' : Based(t)
    BY <2>1, <2>2, <2>3, <2>5, CreateEffect
  <2>. QED BY <2>4, <2>5, Steps, Writes, ReadsLeaveRows DEF rows, LoseDefinition
<1>4. \A i \in Started' : /\ Passed(said', i, insts'[i].node - 1)
                          /\ insts'[i].status = "approved" => Passed(said', i, Last)
  <2>1. ASSUME NEW i \in Started, insts'[i].node = insts[i].node,
               insts'[i].status = "approved" => insts[i].status = "approved"
        PROVE  /\ Passed(said', i, insts'[i].node - 1)
               /\ insts'[i].status = "approved" => Passed(said', i, Last)
    <3>1. /\ Passed(said', i, insts[i].node - 1)
          /\ insts[i].status = "approved" => Passed(said', i, Last)
      BY <1>1, BackedInst
    <3>. QED BY <2>1, <3>1
  <2>2. CASE UNCHANGED insts
    BY <2>1, <2>2 DEF Started
  <2>3. ASSUME NEW r \in Thread, NEW ok \in BOOLEAN, InsertInstance(r, ok)
        PROVE  \A i \in Started' : /\ Passed(said', i, insts'[i].node - 1)
                                   /\ insts'[i].status = "approved" => Passed(said', i, Last)
    <3>1. CASE ~ok
      BY <2>2, <2>3, <3>1, InsertEffect
    <3>2. CASE ok
      <4>. DEFINE i == Len(insts) + 1
      <4>1. /\ Started' = Started \cup {i} /\ insts'[i].status = "running"
            /\ insts'[i].node = req[r].node
            /\ \A j \in Started : insts'[j] = insts[j]
        BY <2>3, <3>2, InsertEffect
      <4>2. req[r].node \in 0 .. 1
        BY <2>3, SoundRequests DEF InsertInstance, At, Sound, Placed
      <4>3. Passed(said', i, insts'[i].node - 1)
        BY <4>1, <4>2, Definition DEF Passed, Node
      <4>. QED BY <2>1, <4>1, <4>3
    <3>. QED BY <3>1, <3>2
  <2>4. ASSUME NEW r \in Thread, NEW ok \in BOOLEAN, EndStep(r, ok)
        PROVE  \A i \in Started' : /\ Passed(said', i, insts'[i].node - 1)
                                   /\ insts'[i].status = "approved" => Passed(said', i, Last)
    <3>. DEFINE j == req[r].inst
    <3>1. ASSUME NEW pc \in {"cancel", "end"}, NEW outcome \in Ended \ {"approved"},
                 EndInstance(r, pc, outcome, "skipAll", ok)
          PROVE  /\ Started' = Started
                 /\ \A i \in Started : /\ insts'[i].node = insts[i].node
                                       /\ insts'[i].status = "approved" => insts[i].status = "approved"
      BY <3>1, EndEffect DEF InstBecomes
    <3>2. CASE EndInstance(r, "finish", "approved", "idle", ok)
      <4>1. /\ j \in Started /\ Started' = Started
            /\ \A i \in Started \ {j} : insts'[i] = insts[i]
            /\ insts'[j].node = insts[j].node
        BY <3>2, EndEffect DEF InstBecomes, Ended
      <4>2. Passed(said, j, Last)
        BY <3>2, SoundRequests DEF EndInstance, At, Sound, Placed, Backed, Entitled, Approving
      <4>3. Passed(said', j, Last) /\ Passed(said', j, insts[j].node - 1)
        <5>. HIDE DEF j
        <5>1. Passed(said', j, Last)
          BY <1>1, <4>2, PassedKept
        <5>. QED BY <1>1, <4>1, <5>1, BackedInst
      <4>4. Passed(said', j, insts'[j].node - 1)
        BY <4>1, <4>3
      <4>. HIDE DEF j
      <4>. QED BY <2>1, <4>1, <4>3, <4>4
    <3>. QED BY <2>1, <2>4, <3>1, <3>2 DEF EndStep, Ended
  <2>5. ASSUME NEW r \in Thread, NEW ok \in BOOLEAN, AppendVars(r, ok)
        PROVE  \A i \in Started' : /\ Passed(said', i, insts'[i].node - 1)
                                   /\ insts'[i].status = "approved" => Passed(said', i, Last)
    <3>. DEFINE vs == IF ok THEN req[r].seen \cup {req[r].task} ELSE insts[req[r].inst].vars
    <3>1. InstBecomes(req[r].inst, insts[req[r].inst].status, insts[req[r].inst].node, vs)
      BY <2>5, AppendEffect
    <3>. HIDE DEF vs
    <3>. QED BY <2>1, <3>1 DEF InstBecomes
  <2>6. ASSUME NEW r \in Thread, NEW ok \in BOOLEAN, Advance(r, ok)
        PROVE  \A i \in Started' : /\ Passed(said', i, insts'[i].node - 1)
                                   /\ insts'[i].status = "approved" => Passed(said', i, Last)
    <3>. DEFINE j == req[r].inst
                n == req[r].node + 1
                k == keys[n]
    <3>1. /\ j \in Started /\ Started' = Started /\ insts'[j].status = insts[j].status
          /\ insts'[j].node = (IF ok THEN k ELSE insts[j].node)
          /\ \A i \in Started \ {j} : insts'[i] = insts[i]
      BY <2>6, AdvanceEffect DEF InstBecomes
    <3>2. Passed(said, j, n - 1) /\ n \in Node /\ k \in Node /\ k <= n
      <4>1. req[r].node \in 0 .. Last /\ Passed(said, j, req[r].node) /\ Last \in Nat
        BY <2>6, SoundRequests, Definition DEF Advance, At, Backed, Entitled, Approving, Req
      <4>2. n - 1 = req[r].node
        BY <4>1
      <4>. QED BY <2>6, <4>1, <4>2, AdvanceReq
    <3>. HIDE DEF n, k
    <3>3. Passed(said', j, n - 1)
      BY <1>1, <3>2, PassedKept
    <3>. HIDE DEF j
    <3>4. CASE ok
      <4>1. Passed(said', j, k - 1)
        BY <3>2, <3>3, Definition DEF Passed, Node
      <4>2. Passed(said', j, insts'[j].node - 1)
        BY <3>1, <3>4, <4>1
      <4>3. insts[j].status = "approved" => Passed(said', j, Last)
        BY <1>1, <3>1, BackedInst
      <4>. QED BY <2>1, <3>1, <4>2, <4>3
    <3>5. CASE ~ok
      BY <2>1, <3>1, <3>5
    <3>. QED BY <3>4, <3>5
  <2>. QED BY <2>2, <2>3, <2>4, <2>5, <2>6, Steps, Writes, ReadsLeaveRows
       DEF InstWrite, rows, LoseDefinition
<1>. QED BY <1>2, <1>3, <1>4 DEF Backed

LEMMA BackedInit ==
  ASSUME Init
  PROVE  Backed
<1>1. Started = {} /\ TaskId = {} /\ \A r \in Thread : req[r].pc = "idle"
  BY EmptySeq DEF Init, Started, TaskId, Idle
<1>. QED BY <1>1 DEF Backed, Entitled, At, Approving

LEMMA BackedStutter ==
  ASSUME Backed, UNCHANGED vars
  PROVE  Backed'
BY DEF vars, rows, history, Backed, Entitled, Passed, Counts, Heard, At, Started, TaskId

(* No node is passed without an approval by one of its assignees, for any   *)
(* definition, any number of requests, and whatever statements fail.        *)
THEOREM NodesNotSkipped == Spec => []NoNodeSkipped
<1>1. Shape /\ Backed => NoNodeSkipped
  <2>. SUFFICES ASSUME Shape, Backed, NEW i \in Started, NEW k \in Node,
                       k < insts[i].node \/ insts[i].status = "approved"
                PROVE  Heard(said, i, k)
    BY DEF NoNodeSkipped, Heard
  <2>1. insts[i].node \in Nat /\ k \in Nat /\ k <= Last
    BY RowsTyped, Definition DEF Shape, InstRow, Node
  <2>2. k <= insts[i].node - 1 \/ insts[i].status = "approved"
    BY <2>1
  <2>3. CASE insts[i].status = "approved"
    <3>1. Passed(said, i, Last)
      BY <2>3 DEF Backed
    <3>. QED BY <2>1, <3>1 DEF Passed
  <2>4. CASE k <= insts[i].node - 1
    <3>1. Passed(said, i, insts[i].node - 1)
      BY DEF Backed
    <3>. QED BY <2>4, <3>1 DEF Passed
  <2>. QED BY <2>2, <2>3, <2>4
<1>2. Shape /\ Backed /\ [Next]_vars => Shape' /\ Backed'
  BY ShapeStep, ShapeStutter, BackedStep, BackedStutter
<1>. QED BY <1>1, <1>2, ShapeInit, BackedInit, PTL DEF Spec

-----------------------------------------------------------------------------
(* A decision is never taken back.                                          *)

DecisionKept(t) ==
  tasks[t].status \in {"approved", "rejected"} /\ tasks'[t] # tasks[t]
    => \E r \in Thread : req[r].task = t /\ req[r].pc \in {"approve", "reject"}

LEMMA SkippingKeeps ==
  ASSUME NEW ts, NEW ok, PutStatus(Hit(ts, ok), "skipped"), NEW t \in TaskId
  PROVE  DecisionKept(t)
<1>1. CASE t \in Hit(ts, ok)
  BY <1>1 DEF Hit, DecisionKept
<1>2. CASE t \notin Hit(ts, ok)
  BY <1>2 DEF PutStatus, DecisionKept
<1>. QED BY <1>1, <1>2

LEMMA MarkingKeeps ==
  ASSUME Shape, NEW r \in Thread, NEW ok \in BOOLEAN, NEW t \in TaskId,
         MarkApproved(r, ok) \/ MarkRejected(r, ok)
  PROVE  DecisionKept(t)
<1>1. req[r].pc \in {"approve", "reject"}
  BY DEF MarkApproved, MarkRejected, At
<1>2. \E status : PutStatus(IF ok THEN {req[r].task} ELSE {}, status)
  BY MarkEffect DEF MarkApproved, MarkRejected, At, TaskStatus
<1>3. CASE t = req[r].task
  BY <1>1, <1>3 DEF DecisionKept
<1>4. CASE t # req[r].task
  BY <1>2, <1>4 DEF PutStatus, DecisionKept
<1>. QED BY <1>3, <1>4

LEMMA DecisionStep ==
  ASSUME Shape, Next, NEW t \in TaskId
  PROVE  DecisionKept(t)
<1>1. CASE UNCHANGED tasks
  BY <1>1 DEF DecisionKept
<1>2. ASSUME NEW r \in Thread, NEW ok \in BOOLEAN, TaskWrite(r, ok)
      PROVE  DecisionKept(t)
  <2>1. CASE CreateNodeTask(r, ok)
    <3>1. tasks'[t] = tasks[t]
      BY <2>1, CreateEffect
    <3>. QED BY <3>1 DEF DecisionKept
  <2>2. CASE SkipAll(r, ok)
    BY <2>2, SkipEffect, SkippingKeeps DEF SkipAll, Shape
  <2>3. CASE SkipNode(r, ok)
    BY <2>3, SkipEffect, SkippingKeeps DEF SkipNode, Shape
  <2>4. CASE MarkApproved(r, ok) \/ MarkRejected(r, ok)
    BY <2>4, MarkingKeeps
  <2>. QED BY <1>2, <2>1, <2>2, <2>3, <2>4 DEF TaskWrite
<1>. QED BY <1>1, <1>2, Steps, Writes, ReadsLeaveRows DEF rows, LoseDefinition

(* A decision is never taken back by another's request, whatever the        *)
(* requests do to the same instance and whatever fails: skipping spares     *)
(* what is decided.                                                         *)
THEOREM DecisionsStay == Spec => DecisionsKept
<1>1. Shape /\ [Next]_vars
        => [\A t \in TaskId :
              tasks[t].status \in {"approved", "rejected"} /\ tasks'[t] # tasks[t]
                => \E r \in Thread : req[r].task = t /\ req[r].pc \in {"approve", "reject"}]_vars
  BY DecisionStep DEF DecisionKept
<1>2. Shape /\ [Next]_vars => Shape'
  BY ShapeStep, ShapeStutter
<1>. QED BY <1>1, <1>2, ShapeInit, PTL DEF Spec, DecisionsKept
=============================================================================
