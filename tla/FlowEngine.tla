----------------------------- MODULE FlowEngine -----------------------------
(***************************************************************************)
(* The approval workflow (flow/FlowEngine.h, flow/FlowCtrl.h).  All state  *)
(* is in the database: wf_definition, wf_instance, wf_task.  A request     *)
(* (start, approve, reject, cancel) is a sequence of statements without a  *)
(* transaction or a lock, so requests interleave statement by statement,   *)
(* and what one of them has read may have changed when it writes.          *)
(*                                                                         *)
(* There is one definition.  Nodes are numbered in order; the rows hold a  *)
(* node's key, not its number.  Keys may repeat, and a key names the first *)
(* node that has it, so a key is that node's number: instance and tasks of *)
(* a node whose key an earlier one has are at the earlier one.  Comments,  *)
(* times and notifications are left out.                                   *)
(***************************************************************************)
EXTENDS Integers, Sequences, FiniteSets

CONSTANTS
  Thread,        \* requests that can be in progress at a time
  Assignees,     \* Assignees[k]: the assignees of node k, in order
  AllNodes,      \* the nodes of mode "all" (the others are "any")
  WithVars,      \* may an approval append variables?
  MaxEvents,     \* bound on the instances started, the mishaps (statements that fail,
                 \* requests that break off, the definition deleted or saved without
                 \* nodes), and the nodes with an earlier one's key, together
  MaxRows        \* bound on the rows made: instances and tasks

ASSUME FlowEngineAssumption ==
  /\ Assignees \in Seq(Seq(Nat) \ {<<>>}) \ {<<>>}
  /\ AllNodes \subseteq DOMAIN Assignees
  /\ WithVars \in BOOLEAN /\ MaxEvents \in Nat /\ MaxRows \in Nat

VARIABLES
  def,       \* wf_definition: "usable", saved without nodes ("empty"), or "gone"
  keys,      \* keys[k]: the key of node k, as the number of the first node with it
  insts,     \* wf_instance, by id: status, current_node, and whose variables it has
  tasks,     \* wf_task, by id: instance_id, node_key, assignee_id, status
  req,       \* req[r]: the request thread r is working on
  faults,    \* the mishaps so far
  said,      \* history: <<i, k, u>> when u has approved at node k of instance i
  crowded,   \* history: instances on which requests have overlapped
  spoiled,   \* history: instances a request broke off on, lost a statement on,
             \* or lost the definition of
  returned   \* history: instances that went on to a node with an earlier one's key

rows == <<insts, tasks>>
history == <<said, crowded, spoiled, returned>>
vars == <<def, keys, rows, req, faults, history>>

Last == Len(Assignees)
Node == 1 .. Last
People(k) == {Assignees[k][a] : a \in DOMAIN Assignees[k]}
\* validateNodes asks for a key, not for a new one
Keyings == {f \in [Node -> Node] : \A k \in Node : f[k] <= k /\ f[f[k]] = f[k]}
Started == 1 .. Len(insts)
TaskId == 1 .. Len(tasks)

(* task: the task decided on; node: its node, or the node tasks are made    *)
(* for; left: the assignees still without a task; seen: the variables read. *)
Idle == [pc |-> "idle", inst |-> 0, task |-> 0, node |-> 0, left |-> <<>>, seen |-> {}]

Busy(i) == {r \in Thread : req[r].pc # "idle" /\ req[r].inst = i}

Alive(i) == i \in Started /\ insts[i].status = "running"

\* another instance may be started, or another mishap happen
Repeated == {k \in Node : keys[k] # k}
EventsLeft == Cardinality(Repeated) + Len(insts) + faults < MaxEvents
RowsLeft == Len(insts) + Len(tasks) < MaxRows

At(r, pc) == req[r].pc = pc
GoTo(r, pc) == req' = [req EXCEPT ![r].pc = pc]
Return(r) == req' = [req EXCEPT ![r] = Idle]

\* what a failed statement leaves behind in the histories
Note(r, ok) ==
  /\ spoiled' = IF ok THEN spoiled ELSE spoiled \cup {req[r].inst}
  /\ UNCHANGED <<def, keys, said, crowded, returned>>

\* thread r turns to instance i, on which others may be at work
Joins(r, i) == crowded' = IF Busy(i) \ {r} = {} THEN crowded ELSE crowded \cup {i}

-----------------------------------------------------------------------------
(* start: SELECT the definition, INSERT the instance, SELECT MAX(id), and   *)
(* the tasks of the first node for the id found.  Without nodes the         *)
(* instance is at no node and gets no tasks.                                *)
FirstNodeFromOne == IF def = "usable" THEN 2 ELSE 0
FirstNode == IF def = "usable" THEN 1 ELSE 0

Start(r) ==
  /\ At(r, "idle") /\ def # "gone"
  /\ req' = [req EXCEPT ![r] = [Idle EXCEPT !.pc = "insert", !.node = FirstNode]]
  /\ UNCHANGED <<def, keys, rows, faults, history>>

InsertInstance(r, ok) ==
  /\ At(r, "insert") /\ EventsLeft /\ RowsLeft
  /\ insts' = IF ok THEN Append(insts, [status |-> "running", node |-> req[r].node,
                                        vars |-> {}])
                    ELSE insts
  /\ req' = [req EXCEPT ![r].pc = "max", ![r].inst = IF ok THEN Len(insts) + 1 ELSE 0]
  /\ spoiled' = IF ok /\ def # "usable" THEN spoiled \cup {Len(insts) + 1} ELSE spoiled
  /\ UNCHANGED <<def, keys, tasks, said, crowded, returned>>

\* the newest instance need not be the one inserted
NextId == Len(insts) + 1
NewestId == Len(insts)

SelectMaxId(r, ok) ==
  LET id == NewestId IN
  /\ At(r, "max")
  /\ IF ok /\ req[r].node # 0
     THEN req' = [req EXCEPT ![r].pc = "tasks", ![r].inst = id,
                             ![r].left = Assignees[req[r].node]]
     ELSE Return(r)
  /\ spoiled' = IF ok /\ id = req[r].inst THEN spoiled ELSE spoiled \cup {req[r].inst}
  /\ crowded' = IF id = req[r].inst THEN crowded ELSE crowded \cup {id}
  /\ UNCHANGED <<def, keys, rows, said, returned>>

(* createNodeTasks: one INSERT per assignee *)
CreateNodeTask(r, ok) ==
  /\ At(r, "tasks") /\ RowsLeft
  /\ tasks' = IF ok THEN Append(tasks, [inst |-> req[r].inst, node |-> req[r].node,
                                        by |-> Head(req[r].left), status |-> "pending"])
                    ELSE tasks
  /\ IF Len(req[r].left) = 1 THEN Return(r)
     ELSE req' = [req EXCEPT ![r].left = Tail(@)]
  /\ Note(r, ok) /\ UNCHANGED insts

-----------------------------------------------------------------------------
(* cancel: SELECT the instance, UPDATE it, UPDATE its pending tasks.        *)
Cancel(r, i) ==
  /\ At(r, "idle") /\ Alive(i)
  /\ req' = [req EXCEPT ![r] = [Idle EXCEPT !.pc = "cancel", !.inst = i]]
  /\ Joins(r, i)
  /\ UNCHANGED <<def, keys, rows, faults, said, spoiled, returned>>

EndInstance(r, pc, outcome, next, ok) ==
  /\ At(r, pc)
  /\ insts' = IF ok THEN [insts EXCEPT ![req[r].inst].status = outcome] ELSE insts
  /\ IF next = "idle" THEN Return(r) ELSE GoTo(r, next)
  /\ Note(r, ok) /\ UNCHANGED tasks

\* UPDATE wf_task SET status='skipped' ... AND status='pending', over the tasks ts
SkipEverything(ts) ==
  [t \in TaskId |-> IF t \in ts THEN [tasks[t] EXCEPT !.status = "skipped"] ELSE tasks[t]]
SkipPending(ts) ==
  [t \in TaskId |-> IF t \in ts /\ tasks[t].status = "pending"
                    THEN [tasks[t] EXCEPT !.status = "skipped"] ELSE tasks[t]]

OfInstance(i) == {t \in TaskId : tasks[t].inst = i}
OfNode(i, k) == {t \in OfInstance(i) : tasks[t].node = k}

SkipAll(r, ok) ==
  /\ At(r, "skipAll")
  /\ tasks' = IF ok THEN SkipPending(OfInstance(req[r].inst)) ELSE tasks
  /\ Return(r)
  /\ Note(r, ok) /\ UNCHANGED insts

-----------------------------------------------------------------------------
(* doTask: SELECT the task, SELECT the instance; the answers 1, 2 and 3 end *)
(* the request without a trace.  A failed SELECT ends it as well.           *)
SelectTask(r, t) ==
  /\ At(r, "idle") /\ tasks[t].status = "pending"
  /\ req' = [req EXCEPT ![r] = [Idle EXCEPT !.pc = "instance", !.inst = tasks[t].inst,
                                            !.task = t, !.node = tasks[t].node]]
  /\ Joins(r, tasks[t].inst)
  /\ UNCHANGED <<def, keys, rows, faults, said, spoiled, returned>>

SelectInstance(r) ==
  LET i == req[r].inst IN
  /\ At(r, "instance")
  /\ \/ /\ Alive(i)
        /\ \E pc \in {"approve", "reject"} :
             req' = [req EXCEPT ![r].pc = pc, ![r].seen = insts[i].vars]
        /\ UNCHANGED faults
     \/ ~Alive(i) /\ Return(r) /\ UNCHANGED faults
     \/ EventsLeft /\ Return(r) /\ faults' = faults + 1
  /\ UNCHANGED <<def, keys, rows, history>>

\* UPDATE wf_task SET status=... WHERE id=..., whatever the status is by now
Decided(t, status) == [tasks EXCEPT ![t].status = status]

MarkApproved(r, ok) ==
  LET q == req[r] IN
  /\ At(r, "approve")
  /\ tasks' = IF ok THEN Decided(q.task, "approved") ELSE tasks
  /\ said' = said \cup {<<q.inst, q.node, tasks[q.task].by>>}
  /\ \E pc \in {"define"} \cup (IF WithVars THEN {"vars"} ELSE {}) : GoTo(r, pc)
  /\ spoiled' = IF ok THEN spoiled ELSE spoiled \cup {q.inst}
  /\ UNCHANGED <<def, keys, insts, crowded, returned>>

MarkRejected(r, ok) ==
  /\ At(r, "reject")
  /\ tasks' = IF ok THEN Decided(req[r].task, "rejected") ELSE tasks
  /\ GoTo(r, "end")
  /\ Note(r, ok) /\ UNCHANGED insts

\* the variables that were read, with this approval's added
AppendedToNone(r) == {req[r].task}
Appended(r) == req[r].seen \cup {req[r].task}

AppendVars(r, ok) ==
  /\ At(r, "vars")
  /\ insts' = IF ok THEN [insts EXCEPT ![req[r].inst].vars = Appended(r)] ELSE insts
  /\ GoTo(r, "define")
  /\ Note(r, ok) /\ UNCHANGED tasks

(* Without the definition the request ends, the task being approved.        *)
SelectDefinition(r, ok) ==
  /\ At(r, "define")
  /\ IF ok /\ def = "usable" THEN GoTo(r, "count") ELSE Return(r)
  /\ Note(r, ok) /\ UNCHANGED rows

Pending(i, k) == {t \in OfNode(i, k) : tasks[t].status = "pending"}

\* SELECT COUNT(*): no answer counts as none left
NodeDoneByOne(r, ok) == TRUE
NodeDoneAtOneLeft(r, ok) ==
  req[r].node \notin AllNodes \/ Cardinality(Pending(req[r].inst, req[r].node)) = 1
NodeDone(r, ok) ==
  req[r].node \notin AllNodes \/ ~ok \/ Pending(req[r].inst, req[r].node) = {}

CountPending(r, ok) ==
  /\ At(r, "count")
  /\ IF NodeDone(r, ok) THEN GoTo(r, "skipNode") ELSE Return(r)
  /\ Note(r, ok) /\ UNCHANGED rows

SkipNode(r, ok) ==
  /\ At(r, "skipNode")
  /\ tasks' = IF ok THEN SkipPending(OfNode(req[r].inst, req[r].node)) ELSE tasks
  /\ GoTo(r, IF req[r].node < Last THEN "advance" ELSE "finish")
  /\ Note(r, ok) /\ UNCHANGED insts

(* The node after the first one with the task's key, by its key.            *)
Advance(r, ok) ==
  LET k == req[r].node + 1 IN
  /\ At(r, "advance")
  /\ insts' = IF ok THEN [insts EXCEPT ![req[r].inst].node = keys[k]] ELSE insts
  /\ req' = [req EXCEPT ![r].pc = "tasks", ![r].node = keys[k], ![r].left = Assignees[k]]
  /\ spoiled' = IF ok THEN spoiled ELSE spoiled \cup {req[r].inst}
  /\ returned' = IF keys[k] = k THEN returned ELSE returned \cup {req[r].inst}
  /\ UNCHANGED <<def, keys, tasks, said, crowded>>

-----------------------------------------------------------------------------
\* the process ends under the request
BreakOff(r) ==
  /\ EventsLeft /\ ~At(r, "idle")
  /\ Return(r)
  /\ faults' = faults + 1
  /\ spoiled' = spoiled \cup {req[r].inst}
  /\ UNCHANGED <<def, keys, rows, said, crowded, returned>>

(* defDel, and defEdit of a body without nodes, which saves "[]"            *)
LoseDefinition ==
  /\ EventsLeft /\ def = "usable"
  /\ faults' = faults + 1
  /\ def' \in {"empty", "gone"}
  /\ spoiled' = spoiled \cup Started
  /\ UNCHANGED <<keys, rows, req, said, crowded, returned>>

Statement(r, ok) ==
  /\ ok \/ EventsLeft
  /\ faults' = IF ok THEN faults ELSE faults + 1
  /\ \/ InsertInstance(r, ok) \/ SelectMaxId(r, ok) \/ CreateNodeTask(r, ok)
     \/ EndInstance(r, "cancel", "canceled", "skipAll", ok)
     \/ EndInstance(r, "end", "rejected", "skipAll", ok)
     \/ EndInstance(r, "finish", "approved", "idle", ok)
     \/ SkipAll(r, ok) \/ MarkApproved(r, ok) \/ MarkRejected(r, ok)
     \/ AppendVars(r, ok) \/ SelectDefinition(r, ok) \/ CountPending(r, ok)
     \/ SkipNode(r, ok) \/ Advance(r, ok)

Init ==
  /\ def = "usable" /\ keys \in Keyings /\ insts = <<>> /\ tasks = <<>>
  /\ req = [r \in Thread |-> Idle] /\ faults = 0
  /\ said = {} /\ crowded = {} /\ spoiled = {} /\ returned = {}

Next ==
  \/ \E r \in Thread : Start(r) \/ SelectInstance(r) \/ BreakOff(r)
  \/ \E r \in Thread, i \in Started : Cancel(r, i)
  \/ \E r \in Thread, t \in TaskId : SelectTask(r, t)
  \/ \E r \in Thread, ok \in BOOLEAN : Statement(r, ok)
  \/ LoseDefinition

Spec == Init /\ [][Next]_vars

-----------------------------------------------------------------------------
Ended == {"approved", "rejected", "canceled"}

(* Every variable has its type.                                             *)
TypeOK ==
  /\ def \in {"usable", "empty", "gone"} /\ keys \in Keyings
  /\ insts \in Seq([status : Ended \cup {"running"}, node : 0 .. Last, vars : SUBSET TaskId])
  /\ tasks \in Seq([inst : 0 .. Len(insts), node : Node, by : Nat,
                    status : {"pending", "approved", "rejected", "skipped"}])
  /\ \A r \in Thread :
       /\ req[r].inst \in 0 .. Len(insts) /\ req[r].task \in 0 .. Len(tasks)
       /\ req[r].node \in 0 .. Last /\ req[r].seen \subseteq TaskId
  /\ faults \in 0 .. MaxEvents /\ said \subseteq Started \X Node \X Nat
  /\ crowded \subseteq 0 .. Len(insts) /\ spoiled \subseteq 0 .. Len(insts)
  /\ returned \subseteq Started

(* No node is passed without an approval by one of its assignees, however   *)
(* the requests interleave: wherever an instance is, or when it is          *)
(* approved, one of its own assignees said yes at every node before.  (With *)
(* a statement lost, a rejecting and an approving request overlapping, or   *)
(* a repeated key sending the instance back, this still holds.)             *)
NoNodeSkipped ==
  \A i \in Started, k \in Node :
    k < insts[i].node \/ insts[i].status = "approved"
      => \E u \in People(k) : <<i, k, u>> \in said

(* A running instance nobody is working on waits for somebody: two          *)
(* approvals that count the pending tasks at the same time do not both      *)
(* leave it to the other.  Excepted are instances a request broke off on    *)
(* or whose definition went, and those whose starter found another's id.    *)
NotStranded ==
  \A i \in Started \ spoiled :
    insts[i].status = "running" /\ Busy(i) = {} =>
      \E t \in TaskId : tasks[t].inst = i /\ tasks[t].status = "pending"

(* A decision is never taken back by another's request: a task that was     *)
(* approved or rejected is changed only by a request of its own assignee.   *)
DecisionsKept ==
  [][\A t \in TaskId :
       tasks[t].status \in {"approved", "rejected"} /\ tasks'[t] # tasks[t]
         => \E r \in Thread : req[r].task = t /\ req[r].pc \in {"approve", "reject"}]_vars

(* When requests have not overlapped on an instance, none broke off and no  *)
(* repeated key sent it back, its rows agree once the work is done: one     *)
(* task per assignee of every node reached, tasks pending only at the node  *)
(* it is at and only while it runs, a rejection only where the outcome says *)
(* so, the approved tasks are those of the approvals given, and variables   *)
(* only of approvals.  (An assignee named twice at a node has two tasks     *)
(* there, and may have approved one.)                                       *)
Quiet(i) == i \notin crowded \cup spoiled \cup returned /\ Busy(i) = {}
ApprovedOf(i) == {t \in OfInstance(i) : tasks[t].status = "approved"}

RowsAgree ==
  \A i \in Started : Quiet(i) =>
    /\ \A k \in 1 .. insts[i].node :
         /\ Cardinality(OfNode(i, k)) = Len(Assignees[k])
         /\ {tasks[t].by : t \in OfNode(i, k)} = People(k)
    /\ \A t \in TaskId : tasks[t].inst = i =>
         /\ tasks[t].node <= insts[i].node
         /\ tasks[t].status = "pending" =>
              insts[i].status = "running" /\ tasks[t].node = insts[i].node
         /\ tasks[t].status = "rejected" => insts[i].status = "rejected"
    /\ {a \in said : a[1] = i} = {<<i, tasks[t].node, tasks[t].by>> : t \in ApprovedOf(i)}
    /\ insts[i].vars \subseteq ApprovedOf(i)

(* Variables an approval has added are lost only where requests overlapped  *)
(* on the instance: the later one writes back what it read before.          *)
VariablesKept ==
  [][\A i \in Started : insts[i].vars \subseteq insts'[i].vars \/ i \in crowded]_vars

(* Until requests overlap on it, one breaks off or a repeated key sends it  *)
(* back, an instance goes the way the header promises: its nodes in order,  *)
(* any and all, one outcome.                                                *)
Agreed(i) == {u \in People(insts[i].node) : <<i, insts[i].node, u>> \in said}

FlowOf(i) ==
  IF i \notin Started THEN [status |-> "none", node |-> 0, yes |-> {}]
  ELSE [status |-> insts[i].status, node |-> insts[i].node,
        yes |-> IF insts[i].node = 0 THEN {} ELSE Agreed(i)]

Promise == INSTANCE Approval WITH
  Instance <- 1 .. MaxEvents,
  flow <- [i \in 1 .. MaxEvents |-> FlowOf(i)],
  loose <- (crowded \cup spoiled \cup returned) \ {0}

ApprovalSpec == Promise!Spec
=============================================================================
