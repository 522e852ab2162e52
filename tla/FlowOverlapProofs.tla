------------------------- MODULE FlowOverlapProofs -------------------------
(***************************************************************************)
(* What becomes of an instance whose requests come one at a time and all   *)
(* end: it loses no variables (VariablesKept), its row agrees with the     *)
(* rows of its tasks (RowsAgree), and it goes the way the header of the    *)
(* engine promises (Approval).  For every number of threads, every list of *)
(* nodes, and every bound.                                                 *)
(***************************************************************************)
EXTENDS FlowEngineProofs, FiniteSetTheorems

-----------------------------------------------------------------------------
(* The inductive invariant, part by part.                                   *)

\* two requests on one instance have made it a crowded one
Apart(q, r) ==
  req[q].pc # "idle" /\ req[r].pc # "idle" /\ req[q].inst = req[r].inst /\ req[q].inst # 0
    => req[q].inst \in crowded

\* the variables a request has read are still the instance's
UpToDate(r) ==
  req[r].pc \in {"approve", "vars"} /\ req[r].inst \notin crowded
    => req[r].seen = insts[req[r].inst].vars

Overlaps ==
  /\ \A q, r \in Thread : q # r => Apart(q, r)
  /\ \A r \in Thread : UpToDate(r)

-----------------------------------------------------------------------------
(* Requests on one instance.                                                *)

\* nobody but r is at work on i, unless it is crowded already
Free(r, i) == \A q \in Thread \ {r} : req[q].pc # "idle" /\ req[q].inst = i => i \in crowded'

LEMMA JoinsFree ==
  ASSUME NEW r \in Thread, NEW i, Joins(r, i)
  PROVE  Free(r, i)
BY DEF Joins, Busy, Free

LEMMA StaysFree ==
  ASSUME Overlaps, Grown, NEW r \in Thread, req[r].pc # "idle", req[r].inst # 0
  PROVE  Free(r, req[r].inst)
BY DEF Overlaps, Apart, Free, Grown

LEMMA ActingFree ==
  ASSUME Shape, Overlaps, Grown, NEW r \in Thread, NEW ok \in BOOLEAN, Step(r, ok),
         req'[r].pc # "idle", req'[r].inst # 0
  PROVE  Free(r, req'[r].inst)
<1>1. /\ Typed /\ Len(insts) \in Nat
      /\ \A q \in Thread : req[q] \in Req /\ req[q].inst <= Len(insts)
  BY RowsTyped, SoundRequests DEF Shape, Sound
<1>2. ~Ends(r)
  BY DEF Ends, Now
<1>3. ASSUME req[r].pc # "idle", req'[r].inst = req[r].inst PROVE Free(r, req'[r].inst)
  BY <1>3, StaysFree
<1>4. ASSUME NEW pc \in Pc, GoTo(r, pc), ~At(r, "idle") PROVE Free(r, req'[r].inst)
  BY <1>1, <1>3, <1>4, NowGoes DEF Goes, Now, At
<1>5. CASE ReadStep(r, ok)
  <2>1. CASE Start(r)
    BY <1>1, <2>1, StartReq DEF Now
  <2>2. CASE SelectInstance(r)
    BY <1>1, <1>2, <1>3, <2>2, SelectInstanceReq DEF Now, SelectInstance, At
  <2>3. CASE BreakOff(r)
    BY <1>1, <1>2, <2>3, NowEnds DEF BreakOff
  <2>4. ASSUME NEW i \in Started, Cancel(r, i) PROVE Free(r, req'[r].inst)
    BY <1>1, <2>4, CancelReq, JoinsFree DEF Now, Cancel
  <2>5. ASSUME NEW t \in TaskId, SelectTask(r, t) PROVE Free(r, req'[r].inst)
    BY <1>1, <2>5, SelectTaskReq, JoinsFree DEF Now, SelectTask
  <2>6. CASE SelectMaxId(r, ok)
    <3>1. req'[r].inst = Len(insts)
      BY <1>2, <2>6, MaxReq DEF Now
    <3>2. CASE Len(insts) = req[r].inst
      BY <1>3, <2>6, <3>1, <3>2 DEF SelectMaxId, At
    <3>3. CASE Len(insts) # req[r].inst
      BY <2>6, <3>1, <3>3 DEF SelectMaxId, NewestId, Free
    <3>. QED BY <3>2, <3>3
  <2>7. CASE SelectDefinition(r, ok)
    BY <1>1, <1>2, <1>4, <2>7, NowEnds DEF SelectDefinition, At, Pc, Asking
  <2>8. CASE CountPending(r, ok)
    BY <1>1, <1>2, <1>4, <2>8, NowEnds DEF CountPending, At, Pc, Asking
  <2>. QED BY <1>5, <2>1, <2>2, <2>3, <2>4, <2>5, <2>6, <2>7, <2>8 DEF ReadStep
<1>6. CASE WriteStep(r, ok)
  <2>1. CASE InsertInstance(r, ok)
    <3>1. req'[r].inst = Len(insts) + 1
      BY <1>1, <2>1, InsertReq DEF Now
    <3>2. \A q \in Thread : req[q].inst # Len(insts) + 1
      BY <1>1 DEF Req
    <3>. QED BY <3>1, <3>2 DEF Free
  <2>2. CASE CreateNodeTask(r, ok)
    BY <1>2, <1>3, <2>2, CreateReq DEF Now, CreateNodeTask, At
  <2>3. CASE EndStep(r, ok)
    BY <1>1, <1>2, <1>4, <2>3, NowEnds DEF EndStep, EndInstance, At, Pc, Ending
  <2>4. CASE SkipAll(r, ok)
    BY <1>1, <1>2, <2>4, NowEnds DEF SkipAll
  <2>5. CASE MarkApproved(r, ok)
    BY <1>4, <2>5 DEF MarkApproved, At, Pc, Asking
  <2>6. CASE MarkRejected(r, ok)
    BY <1>4, <2>6 DEF MarkRejected, At, Pc, Ending
  <2>7. CASE AppendVars(r, ok)
    BY <1>4, <2>7 DEF AppendVars, At, Pc, Asking
  <2>8. CASE SkipNode(r, ok)
    BY <1>4, <2>8 DEF SkipNode, At, Pc, Asking
  <2>9. CASE Advance(r, ok)
    BY <1>3, <2>9, AdvanceReq DEF Now, Advance, At
  <2>. QED BY <1>6, <2>1, <2>2, <2>3, <2>4, <2>5, <2>6, <2>7, <2>8, <2>9 DEF WriteStep
<1>. QED BY <1>5, <1>6 DEF Step

LEMMA ApartStep ==
  ASSUME Shape, Overlaps, Next, NEW p \in Thread, NEW q \in Thread, p # q
  PROVE  Apart(p, q)'
<1>1. Grown
  BY StepGrows
<1>2. ASSUME req'[p] = req[p], req'[q] = req[q] PROVE Apart(p, q)'
  <2>1. Apart(p, q)
    BY DEF Overlaps
  <2>. QED BY <1>1, <1>2, <2>1 DEF Apart, Grown
<1>3. ASSUME NEW r \in Thread, NEW ok \in BOOLEAN, Step(r, ok) PROVE Apart(p, q)'
  <2>1. \A u \in Thread \ {r} : req'[u] = req[u]
    BY <1>1, <1>3, StepActed DEF Acted
  <2>2. req'[r].pc # "idle" /\ req'[r].inst # 0 => Free(r, req'[r].inst)
    BY <1>1, <1>3, ActingFree
  <2>3. ASSUME NEW u \in Thread \ {r} PROVE Apart(u, r)' /\ Apart(r, u)'
    BY <2>1, <2>2 DEF Apart, Free
  <2>. QED BY <1>2, <2>1, <2>3
<1>4. CASE LoseDefinition
  BY <1>2, <1>4 DEF LoseDefinition
<1>. QED BY <1>3, <1>4, Steps DEF Step

-----------------------------------------------------------------------------
(* The variables of an instance change only where they are appended to.     *)

Appends(r, i) ==
  /\ At(r, "vars") /\ req[r].inst = i /\ req'[r].pc = "define"
  /\ insts'[i].vars = req[r].seen \cup {req[r].task}

LEMMA VarsChange ==
  ASSUME Shape, Next, NEW i \in Started, insts'[i].vars # insts[i].vars
  PROVE  \E r \in Thread : Appends(r, i)
<1>1. ASSUME NEW r \in Thread, NEW ok \in BOOLEAN, InstWrite(r, ok)
      PROVE  Appends(r, i)
  <2>1. CASE InsertInstance(r, ok)
    BY <2>1, InsertEffect
  <2>2. CASE EndStep(r, ok)
    BY <2>2, EndEffect DEF EndStep, InstBecomes, Ended
  <2>3. CASE AppendVars(r, ok)
    <3>1. Goes(r, "define")
      BY <2>3, NowGoes DEF AppendVars, Shape, Pc, Asking
    <3>2. insts'[i].vars = (IF ok /\ req[r].inst = i THEN req[r].seen \cup {req[r].task}
                                                     ELSE insts[i].vars)
      BY <2>3, AppendEffect DEF InstBecomes
    <3>. QED BY <2>3, <3>1, <3>2 DEF Appends, AppendVars, Goes, Now
  <2>4. CASE Advance(r, ok)
    BY <2>4, AdvanceEffect DEF InstBecomes
  <2>. QED BY <1>1, <2>1, <2>2, <2>3, <2>4 DEF InstWrite
<1>. QED BY <1>1, Steps, Writes, ReadsLeaveRows DEF rows, LoseDefinition

LEMMA UpToDateKept ==
  ASSUME Shape, Overlaps, Next, NEW q \in Thread, req'[q] = req[q]
  PROVE  UpToDate(q)'
<1>1. SUFFICES ASSUME req[q].pc \in {"approve", "vars"}, req[q].inst \notin crowded'
               PROVE  req[q].seen = insts'[req[q].inst].vars
  BY DEF UpToDate
<1>2. req[q].inst \in Started /\ req[q].inst # 0
  BY <1>1, SoundRequests DEF Sound, Placed, Asking, Started
<1>3. req[q].inst \notin crowded /\ req[q].seen = insts[req[q].inst].vars
  BY <1>1, StepGrows DEF Grown, Overlaps, UpToDate
<1>4. CASE insts'[req[q].inst].vars # insts[req[q].inst].vars
  <2>1. PICK r \in Thread : Appends(r, req[q].inst)
    BY <1>2, <1>4, VarsChange
  <2>2. CASE r # q
    BY <1>1, <1>2, <1>3, <2>1, <2>2 DEF Overlaps, Apart, Appends, At
  <2>3. CASE r = q
    BY <1>1, <2>1, <2>3 DEF Appends
  <2>. QED BY <2>2, <2>3
<1>. QED BY <1>3, <1>4

LEMMA UpToDateOther ==
  ASSUME NEW r \in Thread, req'[r].pc \notin {"approve", "vars"}
  PROVE  UpToDate(r)'
BY DEF UpToDate

LEMMA UpToDateActing ==
  ASSUME Shape, Overlaps, Next, NEW r \in Thread, NEW ok \in BOOLEAN, Step(r, ok)
  PROVE  UpToDate(r)'
<1>1. Typed
  BY DEF Shape
<1>2. ASSUME Ends(r) PROVE UpToDate(r)'
  BY <1>2, UpToDateOther DEF Ends, Now
<1>3. ASSUME NEW pc \in Pc \ {"approve", "vars"}, GoTo(r, pc) PROVE UpToDate(r)'
  BY <1>1, <1>3, NowGoes, UpToDateOther DEF Goes, Now
<1>4. CASE SelectInstance(r)
  <2>1. CASE Ends(r)
    BY <1>2, <2>1
  <2>2. CASE req'[r].inst = req[r].inst /\ req'[r].seen = insts[req[r].inst].vars
    BY <1>4, <2>2 DEF SelectInstance, rows, UpToDate
  <2>. QED BY <1>1, <1>4, <2>1, <2>2, SelectInstanceReq DEF Now
<1>5. CASE MarkApproved(r, ok)
  <2>1. PICK pc \in {"define", "vars"} : Goes(r, pc)
    BY <1>1, <1>5, NowGoes DEF MarkApproved, Pc, Asking
  <2>2. req'[r].inst = req[r].inst /\ req'[r].seen = req[r].seen
    BY <2>1 DEF Goes, Now
  <2>. QED BY <1>5, <2>2 DEF MarkApproved, At, Overlaps, UpToDate
<1>6. CASE ReadStep(r, ok)
  <2>1. CASE Start(r)
    BY <1>1, <2>1, StartReq, UpToDateOther DEF Now
  <2>2. CASE BreakOff(r)
    BY <1>1, <1>2, <2>2, NowEnds DEF BreakOff
  <2>3. CASE \E i \in Started : Cancel(r, i)
    BY <1>1, <2>3, CancelReq, UpToDateOther DEF Now
  <2>4. CASE \E t \in TaskId : SelectTask(r, t)
    BY <1>1, <2>4, SelectTaskReq, UpToDateOther DEF Now
  <2>5. CASE SelectMaxId(r, ok)
    BY <1>2, <2>5, MaxReq, UpToDateOther DEF Now
  <2>6. CASE SelectDefinition(r, ok)
    BY <1>1, <1>2, <1>3, <2>6, NowEnds DEF SelectDefinition, Pc, Asking
  <2>7. CASE CountPending(r, ok)
    BY <1>1, <1>2, <1>3, <2>7, NowEnds DEF CountPending, Pc, Asking
  <2>. QED BY <1>4, <1>6, <2>1, <2>2, <2>3, <2>4, <2>5, <2>6, <2>7 DEF ReadStep
<1>7. CASE WriteStep(r, ok)
  <2>1. CASE InsertInstance(r, ok)
    BY <1>1, <2>1, InsertReq, UpToDateOther DEF Now
  <2>2. CASE CreateNodeTask(r, ok)
    BY <1>2, <2>2, CreateReq, UpToDateOther DEF Now
  <2>3. CASE EndStep(r, ok)
    BY <1>1, <1>2, <1>3, <2>3, NowEnds DEF EndStep, EndInstance, Pc, Ending
  <2>4. CASE SkipAll(r, ok)
    BY <1>1, <1>2, <2>4, NowEnds DEF SkipAll
  <2>5. CASE MarkRejected(r, ok)
    BY <1>3, <2>5 DEF MarkRejected, Pc, Ending
  <2>6. CASE AppendVars(r, ok)
    BY <1>3, <2>6 DEF AppendVars, Pc, Asking
  <2>7. CASE SkipNode(r, ok)
    BY <1>3, <2>7 DEF SkipNode, Pc, Asking
  <2>8. CASE Advance(r, ok)
    BY <2>8, AdvanceReq, UpToDateOther DEF Now
  <2>. QED BY <1>5, <1>7, <2>1, <2>2, <2>3, <2>4, <2>5, <2>6, <2>7, <2>8 DEF WriteStep
<1>. QED BY <1>6, <1>7 DEF Step

LEMMA OverlapsStep ==
  ASSUME Shape, Overlaps, Next
  PROVE  Overlaps'
<1>1. ASSUME NEW r \in Thread, NEW ok \in BOOLEAN, Step(r, ok)
      PROVE  \A q \in Thread : UpToDate(q)'
  <2>1. \A q \in Thread \ {r} : req'[q] = req[q]
    BY <1>1, StepGrows, StepActed DEF Acted
  <2>. QED BY <1>1, <2>1, UpToDateKept, UpToDateActing
<1>2. ASSUME LoseDefinition PROVE \A q \in Thread : UpToDate(q)'
  BY <1>2, UpToDateKept DEF LoseDefinition
<1>3. \A q \in Thread : UpToDate(q)'
  BY <1>1, <1>2, Steps DEF Step
<1>. QED BY <1>3, ApartStep DEF Overlaps

LEMMA OverlapsInit ==
  ASSUME Init
  PROVE  Overlaps
BY DEF Init, Idle, Overlaps, Apart, UpToDate

LEMMA OverlapsStutter ==
  ASSUME Overlaps, UNCHANGED vars
  PROVE  Overlaps'
BY DEF vars, rows, history, Overlaps, Apart, UpToDate

LEMMA KeepsVars ==
  ASSUME Shape, Overlaps, Next, NEW i \in Started
  PROVE  insts[i].vars \subseteq insts'[i].vars \/ i \in crowded
<1>1. CASE insts'[i].vars # insts[i].vars
  <2>1. PICK r \in Thread : Appends(r, i)
    BY <1>1, VarsChange
  <2>. QED BY <2>1 DEF Appends, At, Overlaps, UpToDate
<1>. QED BY <1>1

(* Variables an approval has added are lost only where requests overlapped  *)
(* on the instance: alone, a request writes back all it read, and what it   *)
(* read is still what the instance has.                                     *)
THEOREM VariablesStay == Spec => VariablesKept
<1>1. Shape /\ Overlaps /\ [Next]_vars
        => [\A i \in Started : insts[i].vars \subseteq insts'[i].vars \/ i \in crowded]_vars
  BY KeepsVars
<1>2. Shape /\ Overlaps /\ [Next]_vars => Shape' /\ Overlaps'
  BY ShapeStep, ShapeStutter, OverlapsStep, OverlapsStutter
<1>. QED BY <1>1, <1>2, ShapeInit, OverlapsInit, PTL DEF Spec, VariablesKept

-----------------------------------------------------------------------------
(* What the rows of an instance look like while its requests come one at a *)
(* time and none breaks off.                                                *)

Calm(i) == i \notin crowded \cup spoiled \cup returned

\* somebody is at one of these statements for i
Doing(i, pcs) == \E r \in Thread : req[r].inst = i /\ req[r].pc \in pcs
Making(i) == Doing(i, {"max", "tasks"})
Clearing(i) == Doing(i, {"skipAll"})
Rejecting(i) == Doing(i, {"end"})
Leaving(i) == Doing(i, {"advance", "finish"})

\* node k of i has its tasks, but for those of the assignees in left
Named(left) == {left[a] : a \in DOMAIN left}
Short(i, k, left) ==
  /\ Cardinality(OfNode(i, k)) + Len(left) = Len(Assignees[k])
  /\ {tasks[t].by : t \in OfNode(i, k)} \cup Named(left) = People(k)

TasksMade(i) ==
  \A k \in Node : k < insts[i].node \/ (k = insts[i].node /\ ~Making(i)) => Short(i, k, <<>>)

Fits(i, t) ==
  /\ tasks[t].node <= insts[i].node
  /\ tasks[t].status = "pending" =>
       Clearing(i) \/ (insts[i].status = "running" /\ tasks[t].node = insts[i].node)
  /\ tasks[t].status = "rejected" => insts[i].status = "rejected" \/ Rejecting(i)
  /\ tasks[t].status = "skipped" =>
       \/ tasks[t].node < insts[i].node \/ insts[i].status # "running" \/ Leaving(i)
  /\ tasks[t].status = "approved" => <<i, tasks[t].node, tasks[t].by>> \in said

SaidFits(i) ==
  \A k, u : <<i, k, u>> \in said => \E t \in ApprovedOf(i) : tasks[t].node = k /\ tasks[t].by = u

InstFits(i) ==
  /\ insts[i].node \in Node
  /\ TasksMade(i)
  /\ \A t \in OfInstance(i) : Fits(i, t)
  /\ SaidFits(i)
  /\ insts[i].vars \subseteq ApprovedOf(i)

\* what a request on i may rely on
Enough(i) == IF insts[i].node \in AllNodes THEN People(insts[i].node) \subseteq Agreed(i)
                                           ELSE Agreed(i) # {}
InTime(r, i) == req[r].node = insts[i].node /\ insts[i].status = "running"

AtWork(r, i) ==
  /\ At(r, "max") => OfInstance(i) = {} /\ InTime(r, i)
  /\ At(r, "tasks") => Short(i, req[r].node, req[r].left) /\ InTime(r, i)
  /\ req[r].pc \in {"instance", "approve", "reject"} =>
       tasks[req[r].task].status = "pending" /\ InTime(r, i)
  /\ req[r].pc \in Approving => tasks[req[r].task].status = "approved" /\ InTime(r, i)
  /\ req[r].pc \in {"skipNode", "advance", "finish"} => Enough(i)
  /\ req[r].pc \in {"advance", "finish"} => \A t \in OfInstance(i) : tasks[t].status # "pending"
  /\ req[r].pc \in {"end", "cancel"} => insts[i].status = "running"
  /\ At(r, "skipAll") => insts[i].status # "running"

Working(r, i) == req[r].pc # "idle" /\ req[r].inst = i

OnTrack(i) == InstFits(i) /\ \A r \in Thread : Working(r, i) => AtWork(r, i)

\* a start knows of the definition what it needs
Fresh(r) == At(r, "insert") => req[r].inst = 0 /\ (req[r].node = 1 \/ def # "usable")

Orderly ==
  /\ \A i \in Started : Calm(i) => OnTrack(i)
  /\ \A r \in Thread : Fresh(r)

-----------------------------------------------------------------------------
(* A step leaves the instances alone that its request is not about.         *)

SameTasks(i) ==
  /\ OfInstance(i)' = OfInstance(i)
  /\ \A t \in OfInstance(i) : tasks'[t] = tasks[t]
SameSaid(i) == \A k, u : <<i, k, u>> \in said' <=> <<i, k, u>> \in said
SameInst(i) == insts'[i] = insts[i] /\ SameTasks(i) /\ SameSaid(i)

LEMMA SameRowsTasks ==
  ASSUME UNCHANGED tasks, NEW i
  PROVE  SameTasks(i)
BY DEF SameTasks, OfInstance, TaskId

LEMMA SameStatusTasks ==
  ASSUME NEW i, NEW ts, NEW status, PutStatus(ts, status), ts \cap OfInstance(i) = {}
  PROVE  SameTasks(i)
BY DEF SameTasks, OfInstance, PutStatus

LEMMA Isolated ==
  ASSUME Shape, NEW r \in Thread, NEW ok \in BOOLEAN, Step(r, ok), NEW i \in Started,
         req[r].inst # i
  PROVE  SameInst(i)
<1>1. Typed
  BY DEF Shape
<1>2. CASE ReadStep(r, ok)
  <2>1. UNCHANGED rows
    BY <1>2, ReadsLeaveRows
  <2>2. UNCHANGED said
    BY <1>2 DEF ReadStep, Start, SelectInstance, BreakOff, Cancel, SelectTask, SelectMaxId,
                SelectDefinition, CountPending, Note, history
  <2>. QED BY <2>1, <2>2, SameRowsTasks DEF rows, SameInst, SameSaid
<1>3. CASE InstWrite(r, ok) /\ UNCHANGED tasks
  <2>1. UNCHANGED said
    BY <1>3 DEF InstWrite, EndStep, InsertInstance, EndInstance, AppendVars, Advance, Note
  <2>2. insts'[i] = insts[i]
    <3>1. CASE InsertInstance(r, ok)
      BY <3>1, InsertEffect
    <3>2. CASE EndStep(r, ok)
      BY <3>2, EndEffect DEF EndStep, InstBecomes, Ended
    <3>3. CASE AppendVars(r, ok)
      <4>. DEFINE vs == IF ok THEN req[r].seen \cup {req[r].task} ELSE insts[req[r].inst].vars
      <4>1. InstBecomes(req[r].inst, insts[req[r].inst].status, insts[req[r].inst].node, vs)
        BY <3>3, AppendEffect
      <4>. QED BY <4>1 DEF InstBecomes
    <3>4. CASE Advance(r, ok)
      BY <3>4, AdvanceEffect DEF InstBecomes
    <3>. QED BY <1>3, <3>1, <3>2, <3>3, <3>4 DEF InstWrite
  <2>. QED BY <1>3, <2>1, <2>2, SameRowsTasks DEF SameInst, SameSaid
<1>4. CASE TaskWrite(r, ok) /\ UNCHANGED insts
  <2>1. SameTasks(i)
    <3>1. CASE CreateNodeTask(r, ok)
      BY <3>1, CreateEffect, SameRowsTasks DEF SameTasks, OfInstance
    <3>2. CASE SkipAll(r, ok)
      <4>1. PutStatus(Hit(OfInstance(req[r].inst), ok), "skipped")
        BY <1>1, <3>2, SkipEffect DEF SkipAll
      <4>2. Hit(OfInstance(req[r].inst), ok) \cap OfInstance(i) = {}
        BY DEF Hit, OfInstance
      <4>. QED BY <4>1, <4>2, SameStatusTasks
    <3>3. CASE SkipNode(r, ok)
      <4>. DEFINE ts == OfNode(req[r].inst, req[r].node)
      <4>1. PutStatus(Hit(ts, ok), "skipped")
        BY <1>1, <3>3, SkipEffect DEF SkipNode
      <4>2. Hit(ts, ok) \cap OfInstance(i) = {}
        BY DEF Hit, OfInstance, OfNode
      <4>. QED BY <4>1, <4>2, SameStatusTasks
    <3>4. CASE MarkApproved(r, ok)
      <4>1. tasks' = (IF ok THEN Decided(req[r].task, "approved") ELSE tasks) /\ req[r].pc = "approve"
        BY <3>4 DEF MarkApproved, At
      <4>2. /\ req[r].inst = tasks[req[r].task].inst
            /\ PutStatus(IF ok THEN {req[r].task} ELSE {}, "approved")
        BY <4>1, MarkEffect DEF TaskStatus
      <4>. QED BY <4>2, SameStatusTasks DEF OfInstance
    <3>5. CASE MarkRejected(r, ok)
      <4>1. tasks' = (IF ok THEN Decided(req[r].task, "rejected") ELSE tasks) /\ req[r].pc = "reject"
        BY <3>5 DEF MarkRejected, At
      <4>2. /\ req[r].inst = tasks[req[r].task].inst
            /\ PutStatus(IF ok THEN {req[r].task} ELSE {}, "rejected")
        BY <4>1, MarkEffect DEF TaskStatus
      <4>. QED BY <4>2, SameStatusTasks DEF OfInstance
    <3>. QED BY <1>4, <3>1, <3>2, <3>3, <3>4, <3>5 DEF TaskWrite
  <2>2. SameSaid(i)
    BY <1>4 DEF TaskWrite, CreateNodeTask, SkipAll, MarkApproved, MarkRejected, SkipNode, Note,
                SameSaid
  <2>. QED BY <1>4, <2>1, <2>2 DEF SameInst
<1>. QED BY <1>2, <1>3, <1>4, Writes DEF Step

\* nobody stops to be at a statement that an instance's rows depend on
StillDoing(i) ==
  /\ Making(i) => Making(i)'
  /\ Clearing(i) => Clearing(i)'
  /\ Rejecting(i) => Rejecting(i)'
  /\ Leaving(i) => Leaving(i)'

LEMMA SameShort ==
  ASSUME NEW i, SameTasks(i), NEW k, NEW left
  PROVE  /\ OfNode(i, k)' = OfNode(i, k)
         /\ ApprovedOf(i)' = ApprovedOf(i)
         /\ Short(i, k, left)' <=> Short(i, k, left)
<1>1. OfNode(i, k)' = OfNode(i, k) /\ ApprovedOf(i)' = ApprovedOf(i)
  BY DEF OfNode, ApprovedOf, SameTasks
<1>2. \A t \in OfNode(i, k) : tasks'[t] = tasks[t]
  BY DEF OfNode, SameTasks
<1>3. {tasks'[t].by : t \in OfNode(i, k)'} = {tasks[t].by : t \in OfNode(i, k)}
  BY <1>1, <1>2
<1>. QED BY <1>1, <1>3 DEF Short

LEMMA FitsStays ==
  ASSUME NEW i, SameInst(i), StillDoing(i), InstFits(i)
  PROVE  InstFits(i)'
<1>1. SameTasks(i) /\ SameSaid(i) /\ insts'[i] = insts[i]
  BY DEF SameInst
<1>2. TasksMade(i)'
  <2>1. SUFFICES ASSUME NEW k \in Node,
                        k < insts'[i].node \/ (k = insts'[i].node /\ ~Making(i)')
                 PROVE  Short(i, k, <<>>)'
    BY DEF TasksMade
  <2>2. Short(i, k, <<>>)
    BY <1>1, <2>1 DEF InstFits, TasksMade, StillDoing
  <2>. QED BY <1>1, <2>2, SameShort
<1>3. \A t \in OfInstance(i)' : Fits(i, t)'
  BY <1>1 DEF SameTasks, SameSaid, StillDoing, InstFits, Fits
<1>4. ApprovedOf(i)' = ApprovedOf(i) /\ ApprovedOf(i) \subseteq OfInstance(i)
  BY <1>1, SameShort DEF ApprovedOf
<1>5. SaidFits(i)'
  BY <1>1, <1>4 DEF SameTasks, SameSaid, InstFits, SaidFits
<1>. QED BY <1>1, <1>2, <1>3, <1>4, <1>5 DEF InstFits

LEMMA WorkStays ==
  ASSUME Shape, NEW i \in Started, SameInst(i), NEW r \in Thread, req'[r] = req[r],
         Working(r, i), AtWork(r, i)
  PROVE  AtWork(r, i)'
<1>1. SameTasks(i) /\ SameSaid(i) /\ insts'[i] = insts[i]
  BY DEF SameInst
<1>2. req[r].pc \in Asking \cup {"reject"} => req[r].task \in OfInstance(i)
  BY SoundRequests DEF Sound, Placed, DecidesTask, OfInstance, Working
<1>3. PICK k, left : k = req[r].node /\ left = req[r].left
  OBVIOUS
<1>4. At(r, "tasks") => Short(i, k, left)'
  BY <1>1, <1>3, SameShort DEF AtWork
<1>5. At(r, "tasks")' => Short(i, k, left)' /\ InTime(r, i)'
  BY <1>1, <1>4 DEF AtWork, At, InTime
<1>6. At(r, "tasks")' => Short(i, req[r].node, req[r].left)' /\ InTime(r, i)'
  BY <1>3, <1>5
<1>7. Enough(i) => Enough(i)'
  BY <1>1 DEF Enough, Agreed, SameSaid
<1>8. InTime(r, i) => InTime(r, i)'
  BY <1>1 DEF InTime
<1>. QED BY <1>1, <1>2, <1>6, <1>7, <1>8 DEF AtWork, At, SameTasks, Asking, Approving
-----------------------------------------------------------------------------
(* A step whose request is not at work on the instance, or only now turns   *)
(* to it.                                                                   *)

LEMMA Joining ==
  ASSUME Shape, NEW r \in Thread, NEW ok \in BOOLEAN, Step(r, ok), NEW i \in Started,
         i \notin crowded', ~Working(r, i), Working(r, i)'
  PROVE  \/ Cancel(r, i)
         \/ \E t \in TaskId : tasks[t].inst = i /\ SelectTask(r, t)
<1>1. Typed /\ Len(insts) \in Nat /\ i # 0 /\ i # Len(insts) + 1
  BY RowsTyped DEF Shape, Started
<1>2. ~Ends(r)
  BY DEF Ends, Now, Working
<1>3. req'[r].inst = i
  BY DEF Working
<1>4. ASSUME req[r].pc # "idle" PROVE req'[r].inst # req[r].inst
  BY <1>3, <1>4 DEF Working
<1>5. ASSUME NEW pc \in Pc, GoTo(r, pc), ~At(r, "idle") PROVE FALSE
  BY <1>1, <1>4, <1>5, NowGoes DEF Goes, Now, At
<1>6. CASE ReadStep(r, ok)
  <2>1. CASE Start(r)
    BY <1>1, <1>3, <2>1, StartReq DEF Now
  <2>2. CASE SelectInstance(r)
    BY <1>1, <1>2, <1>4, <2>2, SelectInstanceReq DEF Now, SelectInstance, At
  <2>3. CASE BreakOff(r)
    BY <1>1, <1>2, <2>3, NowEnds DEF BreakOff
  <2>4. ASSUME NEW j \in Started, Cancel(r, j) PROVE Cancel(r, i)
    BY <1>1, <1>3, <2>4, CancelReq DEF Now
  <2>5. ASSUME NEW t \in TaskId, SelectTask(r, t) PROVE tasks[t].inst = i
    BY <1>1, <1>3, <2>5, SelectTaskReq DEF Now
  <2>6. CASE SelectMaxId(r, ok)
    <3>1. req'[r].inst = Len(insts) /\ req[r].inst # Len(insts)
      BY <1>2, <1>4, <2>6, MaxReq DEF Now, SelectMaxId, At
    <3>. QED BY <1>3, <2>6, <3>1 DEF SelectMaxId, NewestId
  <2>7. CASE SelectDefinition(r, ok)
    BY <1>1, <1>2, <1>5, <2>7, NowEnds DEF SelectDefinition, At, Pc, Asking
  <2>8. CASE CountPending(r, ok)
    BY <1>1, <1>2, <1>5, <2>8, NowEnds DEF CountPending, At, Pc, Asking
  <2>. QED BY <1>6, <2>1, <2>2, <2>3, <2>4, <2>5, <2>6, <2>7, <2>8 DEF ReadStep
<1>7. CASE WriteStep(r, ok)
  <2>1. CASE InsertInstance(r, ok)
    BY <1>1, <1>3, <2>1, InsertReq DEF Now
  <2>2. CASE CreateNodeTask(r, ok)
    BY <1>2, <1>4, <2>2, CreateReq DEF Now, CreateNodeTask, At
  <2>3. CASE EndStep(r, ok)
    BY <1>1, <1>2, <1>5, <2>3, NowEnds DEF EndStep, EndInstance, At, Pc, Ending
  <2>4. CASE SkipAll(r, ok)
    BY <1>1, <1>2, <2>4, NowEnds DEF SkipAll
  <2>5. CASE MarkApproved(r, ok)
    BY <1>5, <2>5 DEF MarkApproved, At, Pc, Asking
  <2>6. CASE MarkRejected(r, ok)
    BY <1>5, <2>6 DEF MarkRejected, At, Pc, Ending
  <2>7. CASE AppendVars(r, ok)
    BY <1>5, <2>7 DEF AppendVars, At, Pc, Asking
  <2>8. CASE SkipNode(r, ok)
    BY <1>5, <2>8 DEF SkipNode, At, Pc, Asking
  <2>9. CASE Advance(r, ok)
    BY <1>4, <2>9, AdvanceReq DEF Now, Advance, At
  <2>. QED BY <1>7, <2>1, <2>2, <2>3, <2>4, <2>5, <2>6, <2>7, <2>8, <2>9 DEF WriteStep
<1>. QED BY <1>6, <1>7 DEF Step

\* the first statement of a request changes nothing
LEMMA IdleReads ==
  ASSUME NEW r \in Thread, NEW ok \in BOOLEAN, Step(r, ok), req[r].pc = "idle", NEW i
  PROVE  SameInst(i)
<1>1. UNCHANGED rows /\ UNCHANGED said
  BY DEF Step, ReadStep, Start, SelectInstance, BreakOff, Cancel, SelectTask, SelectMaxId,
         SelectDefinition, CountPending, WriteStep, InsertInstance, EndStep, CreateNodeTask,
         EndInstance, SkipAll, MarkApproved, MarkRejected, AppendVars, SkipNode, Advance,
         At, history
<1>. QED BY <1>1, SameRowsTasks DEF rows, SameInst, SameSaid

LEMMA JoinsOnTrack ==
  ASSUME Shape, NEW r \in Thread, NEW i \in Started, SameInst(i), OnTrack(i), i \notin crowded',
         \/ Cancel(r, i)
         \/ \E t \in TaskId : tasks[t].inst = i /\ SelectTask(r, t)
  PROVE  AtWork(r, i)'
<1>1. Typed /\ SameTasks(i) /\ insts'[i] = insts[i]
  BY DEF Shape, SameInst
<1>2. CASE Cancel(r, i)
  <2>1. Now(r, "cancel", i, 0, 0, <<>>, {})
    BY <1>1, <1>2, CancelReq
  <2>2. insts[i].status = "running"
    BY <1>2 DEF Cancel, Alive
  <2>. QED BY <1>1, <2>1, <2>2 DEF AtWork, Now, At, Approving
<1>3. ASSUME NEW t \in TaskId, tasks[t].inst = i, SelectTask(r, t) PROVE AtWork(r, i)'
  <2>1. Now(r, "instance", i, t, tasks[t].node, <<>>, {})
    BY <1>1, <1>3, SelectTaskReq
  <2>2. tasks[t].status = "pending" /\ Joins(r, i) /\ At(r, "idle")
    BY <1>3 DEF SelectTask
  <2>3. Busy(i) \ {r} = {}
    BY <2>2 DEF Joins
  <2>4. ~Clearing(i)
    BY <2>2, <2>3 DEF Clearing, Doing, Busy, At
  <2>5. t \in OfInstance(i)
    BY <1>3 DEF OfInstance
  <2>6. insts[i].status = "running" /\ tasks[t].node = insts[i].node
    BY <2>2, <2>4, <2>5 DEF OnTrack, InstFits, Fits
  <2>7. tasks'[t] = tasks[t]
    BY <1>1, <2>5 DEF SameTasks
  <2>. QED BY <1>1, <2>1, <2>2, <2>6, <2>7 DEF AtWork, Now, At, InTime, Approving
<1>. QED BY <1>2, <1>3

LEMMA AwayStep ==
  ASSUME Shape, Grown, NEW r \in Thread, NEW ok \in BOOLEAN, Step(r, ok), NEW i \in Started,
         Calm(i)', OnTrack(i), ~Working(r, i)
  PROVE  OnTrack(i)'
<1>1. SameInst(i)
  BY Isolated, IdleReads DEF Working
<1>2. \A q \in Thread \ {r} : req'[q] = req[q]
  BY StepActed DEF Acted
<1>3. StillDoing(i)
  BY <1>2 DEF StillDoing, Making, Clearing, Rejecting, Leaving, Doing, Working
<1>4. InstFits(i)'
  BY <1>1, <1>3, FitsStays DEF OnTrack
<1>5. i \notin crowded'
  BY DEF Calm
<1>6. ASSUME NEW q \in Thread, Working(q, i)' PROVE AtWork(q, i)'
  <2>1. CASE q # r
    <3>1. Working(q, i)
      BY <1>2, <1>6, <2>1 DEF Working
    <3>. QED BY <1>1, <1>2, <2>1, <3>1, WorkStays DEF OnTrack
  <2>2. CASE q = r
    BY <1>1, <1>5, <1>6, <2>2, Joining, JoinsOnTrack
  <2>. QED BY <2>1, <2>2
<1>. QED BY <1>4, <1>6 DEF OnTrack

-----------------------------------------------------------------------------
(* A step of the one request that is at work on the instance.               *)

\* r is at work on i, nobody else is, and nobody else moves
Alone(r, i) ==
  /\ Working(r, i)
  /\ \A q \in Thread \ {r} : ~Working(q, i) /\ req'[q] = req[q]
  /\ req'[r].inst = i \/ req'[r].pc = "idle"

Statements(i, pc) ==
  /\ Making(i) <=> pc \in {"max", "tasks"}
  /\ Clearing(i) <=> pc = "skipAll"
  /\ Rejecting(i) <=> pc = "end"
  /\ Leaving(i) <=> pc \in {"advance", "finish"}

LEMMA AloneDoes ==
  ASSUME NEW r \in Thread, NEW i, Alone(r, i)
  PROVE  Statements(i, req[r].pc) /\ Statements(i, req[r].pc)'
<1>1. Statements(i, req[r].pc)
  BY DEF Alone, Working, Statements, Making, Clearing, Rejecting, Leaving, Doing
<1>2. Statements(i, req[r].pc)'
  BY DEF Alone, Working, Statements, Making, Clearing, Rejecting, Leaving, Doing
<1>. QED BY <1>1, <1>2

LEMMA AloneOnTrack ==
  ASSUME NEW r \in Thread, NEW i, Alone(r, i), InstFits(i)', Working(r, i)' => AtWork(r, i)'
  PROVE  OnTrack(i)'
BY DEF OnTrack, Alone, Working

\* what holds before a step of r on i that leaves it calm
Before(r, i) ==
  /\ Shape /\ i \in Started /\ i \notin crowded /\ i \notin returned /\ i \notin returned'
  /\ Alone(r, i) /\ InstFits(i) /\ AtWork(r, i)
  /\ Statements(i, req[r].pc) /\ Statements(i, req[r].pc)'

LEMMA ReadAlone ==
  ASSUME NEW r \in Thread, NEW i, Before(r, i), UNCHANGED rows, UNCHANGED said,
         \/ req[r].pc \notin Ending \cup {"max", "tasks", "advance", "finish"}
         \/ req[r].pc = "max" /\ req'[r].pc = "tasks"
  PROVE  InstFits(i)' /\ SameInst(i)
<1>1. SameInst(i)
  BY SameRowsTasks DEF rows, SameInst, SameSaid
<1>2. StillDoing(i)
  BY DEF Before, Statements, StillDoing, Ending
<1>. QED BY <1>1, <1>2, FitsStays DEF Before

LEMMA EmptyNode ==
  ASSUME NEW i, NEW k \in Node, OfNode(i, k) = {}
  PROVE  Short(i, k, Assignees[k])
<1>1. Cardinality(OfNode(i, k)) = 0 /\ Len(Assignees[k]) \in Nat
  BY Definition, FS_EmptySet, LenProperties
<1>2. {tasks[t].by : t \in OfNode(i, k)} = {} /\ Named(Assignees[k]) = People(k)
  BY Definition DEF Named
<1>. QED BY <1>1, <1>2 DEF Short

LEMMA MaxAlone ==
  ASSUME NEW r \in Thread, NEW i, Before(r, i), SelectMaxId(r, TRUE)
  PROVE  InstFits(i)' /\ (Working(r, i)' => AtWork(r, i)')
<1>1. At(r, "max") /\ OfInstance(i) = {} /\ InTime(r, i) /\ insts[i].node \in Node
  BY DEF SelectMaxId, Before, AtWork, InstFits
<1>2. req[r].node = 1 /\ Now(r, "tasks", Len(insts), req[r].task, 1, Assignees[1], req[r].seen)
  <2>1. req[r].node # 0
    BY <1>1, Definition DEF InTime, Node
  <2>. QED BY <2>1, MaxReq DEF Before
<1>3. InstFits(i)' /\ SameInst(i)
  BY <1>1, <1>2, ReadAlone DEF SelectMaxId, Now, At
<1>4. insts'[i] = insts[i] /\ SameTasks(i)
  BY <1>3 DEF SameInst
<1>5. OfNode(i, 1) = {} /\ 1 \in Node
  BY <1>1, Definition DEF OfNode
<1>6. Short(i, 1, Assignees[1])'
  BY <1>4, <1>5, EmptyNode, SameShort
<1>7. req'[r].pc = "tasks" /\ req'[r].node = 1 /\ req'[r].left = Assignees[1]
  BY <1>2 DEF Now
<1>8. Short(i, req[r].node, req[r].left)'
  <2>1. Short(i, req[r].node, req[r].left)' <=> Short(i, 1, Assignees[1])'
    BY <1>7 DEF Short
  <2>. QED BY <1>6, <2>1
<1>9. InTime(r, i)'
  BY <1>1, <1>2, <1>4, <1>7 DEF InTime
<1>. QED BY <1>3, <1>7, <1>8, <1>9 DEF AtWork, At, Approving

LEMMA InstanceAlone ==
  ASSUME NEW r \in Thread, NEW i, Before(r, i), SelectInstance(r)
  PROVE  InstFits(i)' /\ (Working(r, i)' => AtWork(r, i)')
<1>1. /\ Typed /\ At(r, "instance") /\ tasks[req[r].task].status = "pending" /\ InTime(r, i)
      /\ DecidesTask(r) /\ req[r].inst = i
  BY SoundRequests
     DEF SelectInstance, Before, AtWork, At, Shape, Sound, Placed, Asking, Alone, Working
<1>2. InstFits(i)' /\ SameInst(i)
  BY <1>1, ReadAlone DEF SelectInstance, At, Ending, history
<1>3. /\ insts'[i] = insts[i]
      /\ req[r].task \in OfInstance(i) /\ tasks'[req[r].task] = tasks[req[r].task]
  BY <1>1, <1>2 DEF SameInst, SameTasks, OfInstance, DecidesTask
<1>4. ASSUME NEW pc \in {"approve", "reject"},
             Now(r, pc, i, req[r].task, req[r].node, req[r].left, insts[i].vars)
      PROVE  AtWork(r, i)'
  BY <1>1, <1>3, <1>4 DEF Now, AtWork, At, InTime, Approving
<1>5. ASSUME Ends(r) PROVE ~Working(r, i)'
  BY <1>5 DEF Ends, Now, Working
<1>. QED BY <1>1, <1>2, <1>4, <1>5, SelectInstanceReq

LEMMA DefinitionAlone ==
  ASSUME NEW r \in Thread, NEW i, Before(r, i), SelectDefinition(r, TRUE)
  PROVE  InstFits(i)' /\ (Working(r, i)' => AtWork(r, i)')
<1>1. /\ Typed /\ At(r, "define") /\ tasks[req[r].task].status = "approved" /\ InTime(r, i)
      /\ DecidesTask(r) /\ req[r].inst = i
  BY SoundRequests
     DEF SelectDefinition, Before, AtWork, At, Shape, Sound, Placed, Asking, Alone, Working, Approving
<1>2. InstFits(i)' /\ SameInst(i)
  BY <1>1, ReadAlone DEF SelectDefinition, At, Ending, Note
<1>3. /\ insts'[i] = insts[i]
      /\ req[r].task \in OfInstance(i) /\ tasks'[req[r].task] = tasks[req[r].task]
  BY <1>1, <1>2 DEF SameInst, SameTasks, OfInstance, DecidesTask
<1>4. ASSUME GoTo(r, "count") PROVE AtWork(r, i)'
  <2>1. Goes(r, "count")
    BY <1>1, <1>4, NowGoes DEF Pc, Asking
  <2>. QED BY <1>1, <1>3, <2>1 DEF Goes, Now, AtWork, At, InTime, Approving
<1>5. ASSUME Return(r) PROVE ~Working(r, i)'
  BY <1>1, <1>5, NowEnds DEF Ends, Now, Working
<1>. QED BY <1>2, <1>4, <1>5 DEF SelectDefinition

\* the task r decides on, and the node it is at
LEMMA TaskAtWork ==
  ASSUME NEW r \in Thread, NEW i, Before(r, i), req[r].pc \in Asking \cup {"reject"}
  PROVE  /\ Typed /\ req[r].inst = i /\ req[r].task \in OfInstance(i)
         /\ tasks[req[r].task].node = req[r].node /\ InTime(r, i)
         /\ tasks[req[r].task].by \in People(req[r].node)
         /\ tasks[req[r].task] \in TaskRow /\ insts[i].node \in Node
         /\ Fits(i, req[r].task)
<1>1. /\ Typed /\ req[r].inst = i /\ DecidesTask(r)
  BY SoundRequests DEF Before, Shape, Sound, Placed, Alone, Working
<1>2. InTime(r, i)
  BY DEF Before, AtWork, Asking, Approving
<1>3. req[r].task \in OfInstance(i)
  BY <1>1 DEF DecidesTask, OfInstance
<1>4. tasks[req[r].task].by \in People(req[r].node)
  BY <1>1 DEF DecidesTask, Before, Shape, IdsOK, TasksInvited, Invited
<1>5. tasks[req[r].task] \in TaskRow
  BY <1>1, RowsTyped DEF DecidesTask
<1>. QED BY <1>1, <1>2, <1>3, <1>4, <1>5 DEF DecidesTask, Before, InstFits

LEMMA CountedEnough ==
  ASSUME NEW r \in Thread, NEW i, Before(r, i), At(r, "count"), NodeDone(r, TRUE)
  PROVE  Enough(i)
<1>. DEFINE k == req[r].node
            t == req[r].task
<1>1. /\ Typed /\ t \in OfInstance(i) /\ tasks[t].node = k /\ k = insts[i].node /\ k \in Node
      /\ insts[i].status = "running"
      /\ tasks[t].by \in People(k) /\ tasks[t].status = "approved" /\ Fits(i, t)
      /\ req[r].inst = i
  BY TaskAtWork DEF At, Asking, Approving, Before, AtWork, InTime
<1>2. CASE k \notin AllNodes
  BY <1>1, <1>2 DEF Fits, Enough, Agreed
<1>3. CASE k \in AllNodes
  <2>1. Pending(i, k) = {}
    BY <1>1, <1>3 DEF NodeDone
  <2>2. ~Making(i) /\ ~Rejecting(i) /\ ~Leaving(i)
    BY DEF Before, Statements, At
  <2>3. Short(i, k, <<>>)
    BY <1>1, <2>2 DEF Before, InstFits, TasksMade
  <2>4. Named(<<>>) = {}
    BY EmptySeq, LenProperties DEF Named
  <2>5. ASSUME NEW u \in OfNode(i, k) PROVE <<i, k, tasks[u].by>> \in said
    <3>1. u \in OfInstance(i) /\ u \in TaskId /\ tasks[u].node = k /\ tasks[u].status # "pending"
      BY <2>1 DEF OfNode, Pending, OfInstance
    <3>2. tasks[u] \in TaskRow
      BY <1>1, <3>1, RowsTyped
    <3>3. Fits(i, u)
      BY <3>1 DEF Before, InstFits
    <3>4. tasks[u].node \in Nat /\ ~(tasks[u].node < k)
      BY <3>1, <3>2, Definition DEF TaskRow, Node
    <3>5. tasks[u].status # "rejected" /\ tasks[u].status # "skipped"
      BY <1>1, <2>2, <3>3, <3>4 DEF Fits
    <3>6. tasks[u].status = "approved"
      BY <3>1, <3>2, <3>5 DEF TaskRow, TaskStatus
    <3>. QED BY <3>1, <3>3, <3>6 DEF Fits
  <2>6. People(k) = {tasks[u].by : u \in OfNode(i, k)}
    BY <2>3, <2>4 DEF Short
  <2>7. \A p \in People(k) : <<i, k, p>> \in said
    BY <2>5, <2>6
  <2>. QED BY <1>1, <1>3, <2>7 DEF Enough, Agreed
<1>. QED BY <1>2, <1>3

LEMMA CountAlone ==
  ASSUME NEW r \in Thread, NEW i, Before(r, i), CountPending(r, TRUE)
  PROVE  InstFits(i)' /\ (Working(r, i)' => AtWork(r, i)')
<1>1. /\ Typed /\ At(r, "count") /\ tasks[req[r].task].status = "approved" /\ InTime(r, i)
      /\ req[r].task \in OfInstance(i)
  BY TaskAtWork DEF CountPending, Before, AtWork, At, Approving, Asking
<1>2. InstFits(i)' /\ SameInst(i)
  BY <1>1, ReadAlone DEF CountPending, At, Ending, Note
<1>3. insts'[i] = insts[i] /\ tasks'[req[r].task] = tasks[req[r].task] /\ SameSaid(i)
  BY <1>1, <1>2 DEF SameInst, SameTasks
<1>4. ASSUME NodeDone(r, TRUE), GoTo(r, "skipNode") PROVE AtWork(r, i)'
  <2>1. Goes(r, "skipNode")
    BY <1>1, <1>4, NowGoes DEF Pc, Asking
  <2>2. Enough(i)
    BY <1>1, <1>4, CountedEnough
  <2>3. Enough(i)'
    BY <1>3, <2>2 DEF Enough, Agreed, SameSaid
  <2>. QED BY <1>1, <1>3, <2>1, <2>3 DEF Goes, Now, AtWork, At, InTime, Approving
<1>5. ASSUME Return(r) PROVE ~Working(r, i)'
  BY <1>1, <1>5, NowEnds DEF Ends, Now, Working
<1>. QED BY <1>2, <1>4, <1>5 DEF CountPending

-----------------------------------------------------------------------------
(* Statements that give tasks another status.                               *)

LEMMA PutRows ==
  ASSUME NEW ts, NEW status, PutStatus(ts, status), NEW i
  PROVE  /\ OfInstance(i)' = OfInstance(i)
         /\ \A k, left : Short(i, k, left)' <=> Short(i, k, left)
<1>1. OfInstance(i)' = OfInstance(i)
  BY DEF PutStatus, OfInstance
<1>2. ASSUME NEW k, NEW left PROVE Short(i, k, left)' <=> Short(i, k, left)
  <2>1. OfNode(i, k)' = OfNode(i, k)
    BY <1>1 DEF PutStatus, OfInstance, OfNode
  <2>2. \A t \in OfNode(i, k) : tasks'[t].by = tasks[t].by
    BY DEF PutStatus, OfInstance, OfNode
  <2>3. {tasks'[t].by : t \in OfNode(i, k)'} = {tasks[t].by : t \in OfNode(i, k)}
    BY <2>1, <2>2
  <2>. QED BY <2>1, <2>3 DEF Short
<1>. QED BY <1>1, <1>2

LEMMA MadeStays ==
  ASSUME NEW i, TasksMade(i), insts'[i].node = insts[i].node, Making(i) => Making(i)',
         \A k, left : Short(i, k, left)' <=> Short(i, k, left)
  PROVE  TasksMade(i)'
<1>1. SUFFICES ASSUME NEW k \in Node, k < insts'[i].node \/ (k = insts'[i].node /\ ~Making(i)')
               PROVE  Short(i, k, <<>>)'
  BY DEF TasksMade
<1>. QED BY <1>1 DEF TasksMade

\* the approved tasks stay approved when those that change were pending
LEMMA ApprovedStay ==
  ASSUME NEW ts, NEW status, PutStatus(ts, status), NEW i,
         status # "approved", \A t \in ts : tasks[t].status = "pending"
  PROVE  ApprovedOf(i)' = ApprovedOf(i) /\ ApprovedOf(i) \subseteq OfInstance(i)
<1>1. OfInstance(i)' = OfInstance(i) /\ OfInstance(i) \subseteq TaskId
  BY PutRows DEF OfInstance
<1>2. \A t \in OfInstance(i) : tasks'[t].status = "approved" <=> tasks[t].status = "approved"
  BY <1>1 DEF PutStatus
<1>. QED BY <1>1, <1>2 DEF ApprovedOf

LEMMA PutFits ==
  ASSUME NEW r \in Thread, NEW i, Before(r, i), UNCHANGED insts, UNCHANGED said,
         NEW ts, NEW status, PutStatus(ts, status), status # "approved",
         \A t \in ts : tasks[t].status = "pending",
         ~Making(i), \A t \in OfInstance(i) : Fits(i, t)'
  PROVE  InstFits(i)'
<1>1. TasksMade(i) /\ SaidFits(i) /\ insts[i].node \in Node /\ insts[i].vars \subseteq ApprovedOf(i)
  BY DEF Before, InstFits
<1>2. TasksMade(i)'
  BY <1>1, PutRows, MadeStays
<1>3. ApprovedOf(i)' = ApprovedOf(i) /\ ApprovedOf(i) \subseteq OfInstance(i)
  BY ApprovedStay
<1>4. \A t \in ApprovedOf(i) : tasks'[t].node = tasks[t].node /\ tasks'[t].by = tasks[t].by
  BY <1>3 DEF PutStatus, OfInstance
<1>5. SaidFits(i)'
  BY <1>1, <1>3, <1>4 DEF SaidFits
<1>6. OfInstance(i)' = OfInstance(i)
  BY PutRows
<1>. QED BY <1>1, <1>2, <1>3, <1>5, <1>6 DEF InstFits

LEMMA SkipNodeAlone ==
  ASSUME NEW r \in Thread, NEW i, Before(r, i), SkipNode(r, TRUE)
  PROVE  InstFits(i)' /\ AtWork(r, i)'
<1>. DEFINE ts == Hit(OfNode(i, req[r].node), TRUE)
            t == req[r].task
<1>1. /\ Typed /\ At(r, "skipNode") /\ tasks[t].status = "approved" /\ InTime(r, i)
      /\ t \in OfInstance(i) /\ t \in TaskId /\ req[r].inst = i /\ Enough(i)
  BY TaskAtWork DEF SkipNode, Before, AtWork, At, Approving, Asking, OfInstance
<1>2. PutStatus(ts, "skipped") /\ \A u \in ts : tasks[u].status = "pending"
  BY <1>1, SkipEffect DEF SkipNode, Hit
<1>3. UNCHANGED insts /\ UNCHANGED said
  BY DEF SkipNode, Note
<1>4. PICK pc \in {"advance", "finish"} : Goes(r, pc)
  <2>1. GoTo(r, "advance") \/ GoTo(r, "finish")
    BY DEF SkipNode
  <2>. QED BY <1>1, <2>1, NowGoes DEF Pc, Asking
<1>5. /\ req'[r].pc = pc /\ req'[r].task = t /\ req'[r].node = req[r].node
      /\ req[r].pc = "skipNode"
  BY <1>1, <1>4 DEF Goes, Now, At
<1>6. ~Making(i) /\ ~Clearing(i) /\ ~Rejecting(i) /\ Leaving(i)'
  BY <1>5 DEF Before, Statements
<1>7. ASSUME NEW u \in OfInstance(i) PROVE Fits(i, u)' /\ tasks'[u].status # "pending"
  <2>1. u \in TaskId /\ Fits(i, u)
    BY DEF OfInstance, Before, InstFits
  <2>2. tasks[u].status = "pending" => u \in ts
    BY <1>1, <1>6, <2>1 DEF Fits, InTime, Hit, OfNode
  <2>3. /\ tasks'[u].node = tasks[u].node /\ tasks'[u].by = tasks[u].by
        /\ tasks'[u].status = IF u \in ts THEN "skipped" ELSE tasks[u].status
    BY <1>2, <2>1 DEF PutStatus
  <2>. HIDE DEF ts
  <2>. QED BY <1>3, <1>6, <2>1, <2>2, <2>3 DEF Fits
<1>8. InstFits(i)'
  <2>. HIDE DEF ts
  <2>. QED BY <1>2, <1>3, <1>6, <1>7, PutFits
<1>9. OfInstance(i)' = OfInstance(i) /\ tasks'[t].status = "approved"
  <2>1. t \notin ts
    BY <1>1, <1>2
  <2>2. t \in TaskId
    BY <1>1
  <2>. HIDE DEF ts, t
  <2>3. tasks'[t].status = tasks[t].status
    BY <1>2, <2>1, <2>2 DEF PutStatus
  <2>4. OfInstance(i)' = OfInstance(i)
    BY <1>2, PutRows
  <2>. QED BY <1>1, <2>3, <2>4
<1>10. Enough(i)' /\ InTime(r, i)'
  BY <1>1, <1>3, <1>5 DEF Enough, Agreed, InTime
<1>. QED BY <1>5, <1>7, <1>8, <1>9, <1>10 DEF AtWork, At, Approving

LEMMA SkipAllAlone ==
  ASSUME NEW r \in Thread, NEW i, Before(r, i), SkipAll(r, TRUE)
  PROVE  InstFits(i)' /\ ~Working(r, i)'
<1>. DEFINE ts == Hit(OfInstance(i), TRUE)
<1>1. Typed /\ req[r].pc = "skipAll" /\ req[r].inst = i /\ insts[i].status # "running"
  BY DEF SkipAll, Before, AtWork, At, Shape, Alone, Working
<1>2. PutStatus(ts, "skipped") /\ \A u \in ts : tasks[u].status = "pending"
  BY <1>1, SkipEffect DEF SkipAll, Hit
<1>3. UNCHANGED insts /\ UNCHANGED said
  BY DEF SkipAll, Note
<1>4. req'[r].pc = "idle"
  BY <1>1, NowEnds DEF SkipAll, Ends, Now
<1>5. ~Making(i) /\ ~Rejecting(i)
  BY <1>1 DEF Before, Statements
<1>6. ASSUME NEW u \in OfInstance(i) PROVE Fits(i, u)'
  <2>1. u \in TaskId /\ Fits(i, u)
    BY DEF OfInstance, Before, InstFits
  <2>2. tasks[u].status = "pending" => u \in ts
    BY DEF Hit
  <2>3. /\ tasks'[u].node = tasks[u].node /\ tasks'[u].by = tasks[u].by
        /\ tasks'[u].status = IF u \in ts THEN "skipped" ELSE tasks[u].status
    BY <1>2, <2>1 DEF PutStatus
  <2>. HIDE DEF ts
  <2>. QED BY <1>1, <1>3, <1>5, <2>1, <2>2, <2>3 DEF Fits
<1>7. InstFits(i)'
  <2>. HIDE DEF ts
  <2>. QED BY <1>2, <1>3, <1>5, <1>6, PutFits
<1>. QED BY <1>4, <1>7 DEF Working

LEMMA RejectAlone ==
  ASSUME NEW r \in Thread, NEW i, Before(r, i), MarkRejected(r, TRUE)
  PROVE  InstFits(i)' /\ AtWork(r, i)'
<1>. DEFINE t == req[r].task
<1>1. /\ Typed /\ req[r].pc = "reject" /\ tasks[t].status = "pending" /\ InTime(r, i)
  BY TaskAtWork DEF MarkRejected, Before, AtWork, At
<1>2. PutStatus({t}, "rejected")
  BY <1>1, MarkEffect DEF MarkRejected, Before, TaskStatus
<1>3. UNCHANGED insts /\ UNCHANGED said
  BY DEF MarkRejected, Note
<1>4. req'[r].pc = "end"
  BY <1>1, NowGoes DEF MarkRejected, Goes, Now, Pc, Ending
<1>5. ~Making(i) /\ ~Clearing(i) /\ ~Rejecting(i) /\ ~Leaving(i) /\ Rejecting(i)'
  BY <1>1, <1>4 DEF Before, Statements
<1>. HIDE DEF t
<1>6. ASSUME NEW u \in OfInstance(i) PROVE Fits(i, u)'
  <2>1. u \in TaskId /\ Fits(i, u)
    BY DEF OfInstance, Before, InstFits
  <2>2. /\ tasks'[u].node = tasks[u].node /\ tasks'[u].by = tasks[u].by
        /\ tasks'[u].status = IF u \in {t} THEN "rejected" ELSE tasks[u].status
    BY <1>2, <2>1 DEF PutStatus
  <2>. QED BY <1>3, <1>5, <2>1, <2>2 DEF Fits
<1>7. InstFits(i)'
  BY <1>1, <1>2, <1>3, <1>5, <1>6, PutFits
<1>. QED BY <1>1, <1>3, <1>4, <1>7 DEF AtWork, At, InTime, Approving

LEMMA ApproveAlone ==
  ASSUME NEW r \in Thread, NEW i, Before(r, i), MarkApproved(r, TRUE)
  PROVE  InstFits(i)' /\ AtWork(r, i)'
<1>. DEFINE t == req[r].task
            a == <<i, req[r].node, tasks[t].by>>
<1>1. /\ Typed /\ req[r].pc = "approve" /\ tasks[t].status = "pending" /\ InTime(r, i)
      /\ t \in OfInstance(i) /\ t \in TaskId /\ tasks[t].node = req[r].node
  BY TaskAtWork DEF MarkApproved, Before, AtWork, At, Asking, OfInstance
<1>2. PutStatus({t}, "approved")
  BY <1>1, MarkEffect DEF MarkApproved, Before, TaskStatus
<1>3. UNCHANGED insts /\ said' = said \cup {a}
  BY DEF MarkApproved, Before, Alone, Working
<1>4. PICK pc \in {"define", "vars"} : Goes(r, pc)
  <2>1. GoTo(r, "define") \/ GoTo(r, "vars")
    BY DEF MarkApproved
  <2>. QED BY <1>1, <2>1, NowGoes DEF Pc, Asking
<1>5. req'[r].pc = pc /\ req'[r].task = t /\ req'[r].node = req[r].node
  BY <1>4 DEF Goes, Now
<1>6. ~Making(i) /\ ~Clearing(i) /\ ~Rejecting(i) /\ ~Leaving(i)
  BY <1>1 DEF Before, Statements
<1>. HIDE DEF t
<1>7. \A u \in OfInstance(i) :
        /\ tasks'[u].node = tasks[u].node /\ tasks'[u].by = tasks[u].by
        /\ tasks'[u].status = IF u = t THEN "approved" ELSE tasks[u].status
  BY <1>2 DEF PutStatus, OfInstance
<1>8. ASSUME NEW u \in OfInstance(i) PROVE Fits(i, u)'
  <2>1. Fits(i, u)
    BY DEF Before, InstFits
  <2>2. CASE u = t
    <3>1. tasks'[u].status = "approved" /\ tasks'[u].node = req[r].node /\ tasks'[u].by = tasks[t].by
      BY <1>1, <1>7, <2>2
    <3>2. <<i, tasks'[u].node, tasks'[u].by>> \in said'
      BY <1>3, <3>1
    <3>. QED BY <1>1, <1>3, <1>7, <2>1, <2>2, <3>1, <3>2 DEF Fits
  <2>3. CASE u # t
    BY <1>3, <1>6, <1>7, <2>1, <2>3 DEF Fits
  <2>. QED BY <2>2, <2>3
<1>9. OfInstance(i)' = OfInstance(i) /\ TasksMade(i)'
  BY <1>2, <1>3, <1>6, PutRows, MadeStays DEF Before, InstFits
<1>10. ApprovedOf(i)' = ApprovedOf(i) \cup {t}
  BY <1>1, <1>7, <1>9 DEF ApprovedOf
<1>11. SaidFits(i)'
  <2>1. SUFFICES ASSUME NEW k, NEW u, <<i, k, u>> \in said'
                 PROVE  \E v \in ApprovedOf(i)' : tasks'[v].node = k /\ tasks'[v].by = u
    BY DEF SaidFits
  <2>2. CASE <<i, k, u>> \in said
    <3>1. PICK v \in ApprovedOf(i) : tasks[v].node = k /\ tasks[v].by = u
      BY <2>2 DEF Before, InstFits, SaidFits
    <3>2. v \in OfInstance(i)
      BY <3>1 DEF ApprovedOf
    <3>. QED BY <1>7, <1>10, <3>1, <3>2
  <2>3. CASE <<i, k, u>> = a
    BY <1>1, <1>7, <1>10, <2>3
  <2>. QED BY <1>3, <2>1, <2>2, <2>3
<1>12. insts'[i].node \in Node /\ insts'[i].vars \subseteq ApprovedOf(i)'
  BY <1>3, <1>10 DEF Before, InstFits
<1>13. InstFits(i)'
  BY <1>8, <1>9, <1>11, <1>12 DEF InstFits
<1>. QED BY <1>1, <1>3, <1>5, <1>7, <1>13 DEF AtWork, At, InTime, Approving

-----------------------------------------------------------------------------
(* Statements that change the instance's own row, and new tasks.            *)

LEMMA RowFits ==
  ASSUME NEW i, InstFits(i), UNCHANGED tasks, UNCHANGED said,
         insts'[i].node \in Node, TasksMade(i)', \A t \in OfInstance(i) : Fits(i, t)',
         insts'[i].vars \subseteq ApprovedOf(i)
  PROVE  InstFits(i)'
<1>1. SameTasks(i)
  BY SameRowsTasks
<1>2. ApprovedOf(i)' = ApprovedOf(i) /\ OfInstance(i)' = OfInstance(i)
  BY <1>1, SameShort DEF SameTasks
<1>3. SaidFits(i)'
  BY <1>2 DEF InstFits, SaidFits
<1>. QED BY <1>2, <1>3 DEF InstFits

LEMMA EndAlone ==
  ASSUME NEW r \in Thread, NEW i, Before(r, i), EndStep(r, TRUE)
  PROVE  InstFits(i)' /\ (Working(r, i)' => AtWork(r, i)')
<1>1. /\ Typed /\ req[r].inst = i /\ req[r].pc \in {"cancel", "end", "finish"}
      /\ insts[i].status = "running" /\ insts[i].node \in Node
      /\ UNCHANGED tasks /\ UNCHANGED said
  BY DEF EndStep, EndInstance, Before, AtWork, At, Shape, Alone, Working, InTime, Approving, Note,
         InstFits
<1>2. /\ insts'[i].status = CASE req[r].pc = "cancel" -> "canceled"
                              [] req[r].pc = "end" -> "rejected"
                              [] req[r].pc = "finish" -> "approved"
      /\ insts'[i].node = insts[i].node /\ insts'[i].vars = insts[i].vars
  BY <1>1, EndEffect DEF EndStep, Before, EndInstance, At, InstBecomes, Ended
<1>3. req'[r].pc = IF req[r].pc = "finish" THEN "idle" ELSE "skipAll"
  <2>1. CASE EndInstance(r, "finish", "approved", "idle", TRUE)
    BY <1>1, <2>1, NowEnds DEF EndInstance, At, Ends, Now
  <2>2. CASE EndInstance(r, "cancel", "canceled", "skipAll", TRUE)
    BY <1>1, <2>2, NowGoes DEF EndInstance, At, Goes, Now, Pc, Ending
  <2>3. CASE EndInstance(r, "end", "rejected", "skipAll", TRUE)
    BY <1>1, <2>3, NowGoes DEF EndInstance, At, Goes, Now, Pc, Ending
  <2>. QED BY <2>1, <2>2, <2>3 DEF EndStep
<1>4. /\ ~Making(i) /\ ~Clearing(i) /\ (Rejecting(i) <=> req[r].pc = "end")
      /\ req[r].pc # "finish" => Clearing(i)'
  BY <1>1, <1>3 DEF Before, Statements
<1>5. TasksMade(i)'
  BY <1>1, <1>2, <1>4, SameRowsTasks, SameShort, MadeStays DEF Before, InstFits
<1>6. ASSUME NEW t \in OfInstance(i) PROVE Fits(i, t)'
  <2>1. Fits(i, t)
    BY DEF Before, InstFits
  <2>2. req[r].pc = "finish" => tasks[t].status # "pending"
    BY DEF Before, AtWork
  <2>3. /\ insts'[i].status # "running"
        /\ req[r].pc = "end" => insts'[i].status = "rejected"
    BY <1>1, <1>2
  <2>. QED BY <1>1, <1>2, <1>4, <2>1, <2>2, <2>3 DEF Fits
<1>7. InstFits(i)'
  BY <1>1, <1>2, <1>5, <1>6, RowFits DEF Before, InstFits
<1>8. Working(r, i)' => req'[r].pc = "skipAll" /\ insts'[i].status # "running"
  BY <1>1, <1>2, <1>3 DEF Working
<1>. QED BY <1>7, <1>8 DEF AtWork, At, Approving

LEMMA AppendAlone ==
  ASSUME NEW r \in Thread, NEW i, Before(r, i), UpToDate(r), AppendVars(r, TRUE)
  PROVE  InstFits(i)' /\ AtWork(r, i)'
<1>1. /\ Typed /\ req[r].pc = "vars" /\ tasks[req[r].task].status = "approved" /\ InTime(r, i)
      /\ req[r].task \in OfInstance(i) /\ req[r].inst = i
      /\ UNCHANGED tasks /\ UNCHANGED said
  BY TaskAtWork DEF AppendVars, Before, AtWork, At, Approving, Asking, Note
<1>2. /\ insts'[i].status = insts[i].status /\ insts'[i].node = insts[i].node
      /\ insts'[i].vars = req[r].seen \cup {req[r].task}
  <2>1. InstBecomes(i, insts[i].status, insts[i].node, req[r].seen \cup {req[r].task})
    BY <1>1, AppendEffect DEF Before
  <2>. QED BY <2>1 DEF InstBecomes
<1>3. req[r].seen = insts[i].vars
  BY <1>1 DEF UpToDate, Before
<1>4. insts'[i].vars \subseteq ApprovedOf(i)
  BY <1>1, <1>2, <1>3 DEF ApprovedOf, Before, InstFits
<1>5. Goes(r, "define")
  BY <1>1, NowGoes DEF AppendVars, Pc, Asking
<1>6. ~Making(i) /\ ~Clearing(i) /\ ~Rejecting(i) /\ ~Leaving(i)
  BY <1>1 DEF Before, Statements
<1>7. TasksMade(i)'
  BY <1>1, <1>2, <1>6, SameRowsTasks, SameShort, MadeStays DEF Before, InstFits
<1>8. \A t \in OfInstance(i) : Fits(i, t)'
  BY <1>1, <1>2, <1>6 DEF Before, InstFits, Fits
<1>9. InstFits(i)'
  BY <1>1, <1>2, <1>4, <1>7, <1>8, RowFits DEF Before, InstFits
<1>. QED BY <1>1, <1>2, <1>5, <1>9 DEF Goes, Now, AtWork, At, InTime, Approving

LEMMA AdvanceAlone ==
  ASSUME NEW r \in Thread, NEW i, Before(r, i), Advance(r, TRUE)
  PROVE  InstFits(i)' /\ AtWork(r, i)'
<1>1. /\ Typed /\ req[r].pc = "advance" /\ InTime(r, i) /\ req[r].inst = i
      /\ insts[i].node \in Node /\ Last \in Nat /\ insts[i].status = "running"
      /\ UNCHANGED tasks /\ UNCHANGED said
  BY TaskAtWork, Definition DEF Advance, Before, AtWork, At, Approving, Asking, Note, InTime
<1>2. PICK k : k = insts[i].node + 1
  OBVIOUS
<1>3. k = req[r].node + 1 /\ keys[k] = k
  BY <1>1, <1>2 DEF InTime, Advance, Before
<1>4. /\ insts'[i].status = "running" /\ insts'[i].node = k
      /\ insts'[i].vars = insts[i].vars /\ k \in Node
  BY <1>1, <1>3, AdvanceEffect DEF Before, InstBecomes
<1>5. /\ req'[r].pc = "tasks" /\ req'[r].node = k /\ req'[r].left = Assignees[k]
  BY <1>3, AdvanceReq DEF Before, Now
<1>6. ~Making(i) /\ ~Clearing(i) /\ ~Rejecting(i) /\ Making(i)'
  BY <1>1, <1>5 DEF Before, Statements
<1>7. \A t \in OfInstance(i) : tasks[t].node \in Nat /\ tasks[t].node < k
  <2>1. ASSUME NEW t \in OfInstance(i) PROVE tasks[t].node \in Nat /\ tasks[t].node < k
    <3>1. Fits(i, t) /\ tasks[t] \in TaskRow
      BY <1>1, RowsTyped DEF Before, InstFits, OfInstance
    <3>. QED BY <1>1, <1>2, <3>1 DEF Fits, TaskRow, Node
  <2>. QED BY <2>1
<1>8. SameTasks(i)
  BY <1>1, SameRowsTasks
<1>9. TasksMade(i)'
  <2>1. SUFFICES ASSUME NEW j \in Node, j < insts'[i].node PROVE Short(i, j, <<>>)'
    BY <1>6 DEF TasksMade
  <2>2. j <= insts[i].node
    BY <1>1, <1>2, <1>4, <2>1 DEF Node
  <2>3. j < insts[i].node \/ j = insts[i].node
    BY <1>1, <2>2 DEF Node
  <2>4. Short(i, j, <<>>)
    BY <1>6, <2>3 DEF Before, InstFits, TasksMade
  <2>. QED BY <1>8, <2>4, SameShort
<1>10. ASSUME NEW t \in OfInstance(i) PROVE Fits(i, t)'
  <2>1. Fits(i, t) /\ tasks[t].status # "pending"
    BY <1>1 DEF Before, InstFits, AtWork
  <2>2. tasks[t].node < k /\ tasks[t].node <= k
    BY <1>4, <1>7 DEF Node
  <2>. QED BY <1>1, <1>4, <1>6, <2>1, <2>2 DEF Fits
<1>11. InstFits(i)'
  BY <1>1, <1>4, <1>9, <1>10, RowFits DEF Before, InstFits
<1>12. OfNode(i, k) = {}
  <2>1. ASSUME NEW t \in OfInstance(i) PROVE tasks[t].node # k
    BY <1>4, <1>7 DEF Node
  <2>. QED BY <2>1 DEF OfNode
<1>13. Short(i, k, Assignees[k])'
  BY <1>4, <1>8, <1>12, EmptyNode, SameShort
<1>14. Short(i, req[r].node, req[r].left)'
  <2>1. Short(i, req[r].node, req[r].left)' <=> Short(i, k, Assignees[k])'
    BY <1>5 DEF Short
  <2>. QED BY <1>13, <2>1
<1>15. InTime(r, i)'
  BY <1>4, <1>5 DEF InTime
<1>. QED BY <1>5, <1>11, <1>14, <1>15 DEF AtWork, At, Approving

LEMMA NodeFinite ==
  ASSUME Typed, NEW i, NEW k
  PROVE  IsFiniteSet(OfNode(i, k)) /\ Cardinality(OfNode(i, k)) \in Nat
<1>1. Len(tasks) \in Nat /\ OfNode(i, k) \subseteq 1 .. Len(tasks)
  BY RowsTyped DEF OfNode, OfInstance, TaskId
<1>2. IsFiniteSet(1 .. Len(tasks))
  BY <1>1, FS_Interval
<1>. QED BY <1>1, <1>2, FS_Subset, FS_CardinalityType

LEMMA NamedParts ==
  ASSUME NEW left \in Seq(Nat), left # <<>>
  PROVE  /\ Len(left) \in Nat \ {0} /\ Tail(left) \in Seq(Nat) /\ Len(Tail(left)) = Len(left) - 1
         /\ Named(left) = {Head(left)} \cup Named(Tail(left))
<1>1. /\ Tail(left) \in Seq(Nat) /\ Len(Tail(left)) = Len(left) - 1
      /\ \A a \in 1 .. Len(Tail(left)) : Tail(left)[a] = left[a + 1]
  BY HeadTailProperties
<1>2. /\ Len(left) \in Nat \ {0} /\ DOMAIN left = 1 .. Len(left)
      /\ DOMAIN Tail(left) = 1 .. Len(Tail(left)) /\ Head(left) = left[1]
  BY <1>1, LenProperties, EmptySeq
<1>3. Named(left) \subseteq {Head(left)} \cup Named(Tail(left))
  <2>1. ASSUME NEW a \in 1 .. Len(left) PROVE left[a] \in {Head(left)} \cup Named(Tail(left))
    <3>1. CASE a = 1
      BY <1>2, <3>1
    <3>2. CASE a # 1
      <4>1. a - 1 \in 1 .. Len(Tail(left)) /\ (a - 1) + 1 = a
        BY <1>1, <1>2, <2>1, <3>2
      <4>2. Tail(left)[a - 1] = left[a]
        BY <1>1, <4>1
      <4>. QED BY <1>2, <4>1, <4>2 DEF Named
    <3>. QED BY <3>1, <3>2
  <2>. QED BY <1>2, <2>1 DEF Named
<1>4. {Head(left)} \cup Named(Tail(left)) \subseteq Named(left)
  <2>1. Head(left) \in Named(left)
    BY <1>2 DEF Named
  <2>2. ASSUME NEW a \in 1 .. Len(Tail(left)) PROVE Tail(left)[a] \in Named(left)
    <3>1. a + 1 \in DOMAIN left /\ Tail(left)[a] = left[a + 1]
      BY <1>1, <1>2, <2>2
    <3>. QED BY <3>1 DEF Named
  <2>. QED BY <1>2, <2>1, <2>2 DEF Named
<1>. QED BY <1>1, <1>2, <1>3, <1>4

LEMMA OneFewer ==
  ASSUME Typed, NEW i, NEW k, NEW left \in Seq(Nat), left # <<>>, Short(i, k, left),
         NEW n, n \notin OfNode(i, k), OfNode(i, k)' = OfNode(i, k) \cup {n},
         \A t \in OfNode(i, k) : tasks'[t].by = tasks[t].by, tasks'[n].by = Head(left)
  PROVE  /\ Short(i, k, Tail(left))'
         /\ Len(left) = 1 => Short(i, k, <<>>)'
<1>1. IsFiniteSet(OfNode(i, k)) /\ Cardinality(OfNode(i, k)) \in Nat
  BY NodeFinite
<1>2. Cardinality(OfNode(i, k)') = Cardinality(OfNode(i, k)) + 1
  BY <1>1, FS_AddElement
<1>3. /\ Len(left) \in Nat \ {0} /\ Tail(left) \in Seq(Nat) /\ Len(Tail(left)) = Len(left) - 1
      /\ Named(left) = {Head(left)} \cup Named(Tail(left))
  BY NamedParts
<1>4. {tasks'[t].by : t \in OfNode(i, k)'} = {tasks[t].by : t \in OfNode(i, k)} \cup {Head(left)}
  OBVIOUS
<1>5. /\ Cardinality(OfNode(i, k)) + Len(left) = Len(Assignees[k])
      /\ {tasks[t].by : t \in OfNode(i, k)} \cup Named(left) = People(k)
  BY DEF Short
<1>6. Cardinality(OfNode(i, k)') + Len(Tail(left)) = Len(Assignees[k])
  BY <1>1, <1>2, <1>3, <1>5
<1>7. {tasks'[t].by : t \in OfNode(i, k)'} \cup Named(Tail(left)) = People(k)
  BY <1>3, <1>4, <1>5
<1>8. Short(i, k, Tail(left))'
  BY <1>6, <1>7 DEF Short
<1>9. ASSUME Len(left) = 1 PROVE Tail(left) = <<>>
  <2>1. Tail(left) \in Seq(Nat) /\ Len(Tail(left)) = 0
    BY <1>3, <1>9
  <2>2. \A s \in Seq(Nat) : Len(s) = 0 => s = <<>>
    BY EmptySeq
  <2>. QED BY <2>1, <2>2
<1>. QED BY <1>8, <1>9

LEMMA CreateAlone ==
  ASSUME NEW r \in Thread, NEW i, Before(r, i), CreateNodeTask(r, TRUE)
  PROVE  InstFits(i)' /\ (Working(r, i)' => AtWork(r, i)')
<1>. DEFINE n == Len(tasks) + 1
<1>1. PICK k, left : k = req[r].node /\ left = req[r].left
  OBVIOUS
<1>2. /\ Typed /\ req[r].pc = "tasks" /\ req[r].inst = i /\ Short(i, k, left)
      /\ k = insts[i].node /\ insts[i].status = "running"
  <2>1. Short(i, req[r].node, req[r].left)
    BY DEF CreateNodeTask, Before, AtWork, At
  <2>2. Short(i, k, left)
    BY <1>1, <2>1
  <2>. QED BY <1>1, <2>2
       DEF CreateNodeTask, Before, AtWork, At, InTime, Shape, Alone, Working
<1>3. UNCHANGED insts /\ UNCHANGED said
  BY DEF CreateNodeTask, Note
<1>4. /\ left \in Seq(Nat) /\ left # <<>> /\ k \in Node
      /\ \/ Len(left) = 1 /\ Ends(r)
         \/ Now(r, "tasks", req[r].inst, req[r].task, k, Tail(left), req[r].seen)
  BY <1>1, CreateReq DEF Before
<1>5. /\ TaskId' = TaskId \cup {n} /\ n \notin TaskId
      /\ \A u \in TaskId : tasks'[u] = tasks[u]
      /\ tasks'[n].inst = i /\ tasks'[n].node = k
      /\ tasks'[n].by = Head(left) /\ tasks'[n].status = "pending"
  BY <1>1, <1>2, CreateEffect DEF Before
<1>. HIDE DEF n
<1>6. /\ OfInstance(i)' = OfInstance(i) \cup {n}
      /\ OfInstance(i) \subseteq TaskId /\ n \notin OfInstance(i)
  BY <1>5 DEF OfInstance
<1>7. \A t \in OfInstance(i) : tasks'[t] = tasks[t]
  BY <1>5, <1>6
<1>8. OfNode(i, k)' = OfNode(i, k) \cup {n} /\ n \notin OfNode(i, k)
  BY <1>5, <1>6, <1>7 DEF OfNode
<1>9. /\ Short(i, k, Tail(left))'
      /\ Len(left) = 1 => Short(i, k, <<>>)'
  <2>1. \A t \in OfNode(i, k) : tasks'[t].by = tasks[t].by
    BY <1>7 DEF OfNode
  <2>. QED BY <1>2, <1>4, <1>5, <1>8, <2>1, OneFewer
<1>10. ASSUME NEW j, j # k PROVE Short(i, j, <<>>) => Short(i, j, <<>>)'
  <2>1. OfNode(i, j)' = OfNode(i, j)
    BY <1>5, <1>6, <1>7, <1>10 DEF OfNode
  <2>2. {tasks'[t].by : t \in OfNode(i, j)'} = {tasks[t].by : t \in OfNode(i, j)}
    BY <1>7, <2>1 DEF OfNode
  <2>. QED BY <2>1, <2>2 DEF Short
<1>11. /\ ~Clearing(i) /\ ~Rejecting(i) /\ ~Leaving(i)
       /\ ~Ends(r) => Making(i)'
  BY <1>2, <1>4 DEF Before, Statements, Now
<1>12. TasksMade(i)'
  <2>1. SUFFICES ASSUME NEW j \in Node, j < insts'[i].node \/ (j = insts'[i].node /\ ~Making(i)')
                 PROVE  Short(i, j, <<>>)'
    BY DEF TasksMade
  <2>2. CASE j = k
    <3>1. ~(k < k)
      BY <1>4, Definition DEF Node
    <3>2. Ends(r)
      BY <1>2, <1>3, <1>11, <2>1, <2>2, <3>1
    <3>3. Len(left) = 1
      BY <1>4, <3>2 DEF Ends, Now
    <3>. QED BY <1>9, <2>2, <3>3
  <2>3. CASE j # k
    BY <1>2, <1>3, <1>10, <2>1, <2>3 DEF Before, InstFits, TasksMade
  <2>. QED BY <2>2, <2>3
<1>13. ASSUME NEW t \in OfInstance(i)' PROVE Fits(i, t)'
  <2>1. CASE t = n
    <3>1. k <= k
      BY <1>4, Definition DEF Node
    <3>. QED BY <1>2, <1>3, <1>5, <2>1, <3>1 DEF Fits
  <2>2. CASE t # n
    <3>1. t \in OfInstance(i) /\ Fits(i, t) /\ tasks'[t] = tasks[t]
      BY <1>6, <1>7, <1>13, <2>2 DEF Before, InstFits
    <3>. QED BY <1>3, <1>11, <3>1 DEF Fits
  <2>. QED BY <2>1, <2>2
<1>14. ApprovedOf(i)' = ApprovedOf(i) /\ ApprovedOf(i) \subseteq OfInstance(i)
  BY <1>5, <1>6, <1>7 DEF ApprovedOf
<1>15. SaidFits(i)'
  BY <1>3, <1>7, <1>14 DEF Before, InstFits, SaidFits
<1>16. InstFits(i)'
  BY <1>3, <1>12, <1>13, <1>14, <1>15 DEF Before, InstFits
<1>17. ASSUME Working(r, i)' PROVE AtWork(r, i)'
  <2>1. req'[r].pc = "tasks" /\ req'[r].node = k /\ req'[r].left = Tail(left)
    BY <1>4, <1>17 DEF Working, Ends, Now
  <2>2. Short(i, req[r].node, req[r].left)' <=> Short(i, k, Tail(left))'
    BY <2>1 DEF Short
  <2>3. Short(i, req[r].node, req[r].left)' /\ InTime(r, i)'
    BY <1>2, <1>3, <1>9, <2>1, <2>2 DEF InTime
  <2>. QED BY <2>1, <2>3 DEF AtWork, At, Approving
<1>. QED BY <1>16, <1>17

-----------------------------------------------------------------------------
(* Every step keeps the requests and the rows of calm instances in order.   *)

LEMMA StaysPut ==
  ASSUME Shape, NEW r \in Thread, NEW ok \in BOOLEAN, Step(r, ok), NEW i \in Started,
         Calm(i)', Working(r, i), Fresh(r)
  PROVE  req'[r].inst = i \/ req'[r].pc = "idle"
<1>1. Typed /\ i # 0 /\ req[r].inst = i /\ req[r].pc # "idle"
  BY DEF Shape, Started, Working
<1>2. ASSUME Ends(r) PROVE req'[r].pc = "idle"
  BY <1>2 DEF Ends, Now
<1>3. ASSUME NEW pc \in Pc, GoTo(r, pc) PROVE req'[r].inst = i
  BY <1>1, <1>3, NowGoes DEF Goes, Now
<1>4. CASE ReadStep(r, ok)
  <2>1. CASE Start(r) \/ (\E j \in Started : Cancel(r, j)) \/ \E t \in TaskId : SelectTask(r, t)
    BY <1>1, <2>1 DEF Start, Cancel, SelectTask, At
  <2>2. CASE SelectInstance(r)
    BY <1>1, <1>2, <2>2, SelectInstanceReq DEF Now
  <2>3. CASE BreakOff(r)
    BY <1>1, <1>2, <2>3, NowEnds DEF BreakOff
  <2>4. CASE SelectMaxId(r, ok)
    <3>1. Len(insts) # req[r].inst => i \in spoiled'
      BY <1>1, <2>4 DEF SelectMaxId, NewestId
    <3>2. Len(insts) = i
      BY <1>1, <3>1 DEF Calm
    <3>. QED BY <1>2, <2>4, <3>2, MaxReq DEF Now
  <2>5. CASE SelectDefinition(r, ok)
    BY <1>1, <1>2, <1>3, <2>5, NowEnds DEF SelectDefinition, Pc, Asking
  <2>6. CASE CountPending(r, ok)
    BY <1>1, <1>2, <1>3, <2>6, NowEnds DEF CountPending, Pc, Asking
  <2>. QED BY <1>4, <2>1, <2>2, <2>3, <2>4, <2>5, <2>6 DEF ReadStep
<1>5. CASE WriteStep(r, ok)
  <2>1. CASE InsertInstance(r, ok)
    BY <1>1, <2>1 DEF InsertInstance, Fresh
  <2>2. CASE CreateNodeTask(r, ok)
    BY <1>1, <1>2, <2>2, CreateReq DEF Now
  <2>3. CASE EndStep(r, ok)
    BY <1>1, <1>2, <1>3, <2>3, NowEnds DEF EndStep, EndInstance, Pc, Ending
  <2>4. CASE SkipAll(r, ok)
    BY <1>1, <1>2, <2>4, NowEnds DEF SkipAll
  <2>5. CASE MarkApproved(r, ok)
    BY <1>3, <2>5 DEF MarkApproved, Pc, Asking
  <2>6. CASE MarkRejected(r, ok)
    BY <1>3, <2>6 DEF MarkRejected, Pc, Ending
  <2>7. CASE AppendVars(r, ok)
    BY <1>3, <2>7 DEF AppendVars, Pc, Asking
  <2>8. CASE SkipNode(r, ok)
    BY <1>3, <2>8 DEF SkipNode, Pc, Asking
  <2>9. CASE Advance(r, ok)
    BY <1>1, <2>9, AdvanceReq DEF Now
  <2>. QED BY <1>5, <2>1, <2>2, <2>3, <2>4, <2>5, <2>6, <2>7, <2>8, <2>9 DEF WriteStep
<1>. QED BY <1>4, <1>5 DEF Step

LEMMA ActsAlone ==
  ASSUME Shape, Overlaps, Grown, NEW r \in Thread, NEW ok \in BOOLEAN, Step(r, ok),
         NEW i \in Started, Calm(i)', Working(r, i), Fresh(r), OnTrack(i)
  PROVE  Before(r, i)
<1>1. i \notin crowded /\ i \notin returned /\ i \notin returned' /\ i # 0
  BY DEF Grown, Calm, Started
<1>2. \A q \in Thread \ {r} : req'[q] = req[q]
  BY StepActed DEF Acted
<1>3. \A q \in Thread \ {r} : ~Working(q, i)
  BY <1>1 DEF Overlaps, Apart, Working
<1>4. Alone(r, i)
  BY <1>2, <1>3, StaysPut DEF Alone
<1>5. Statements(i, req[r].pc) /\ Statements(i, req[r].pc)'
  BY <1>4, AloneDoes
<1>. QED BY <1>1, <1>4, <1>5 DEF Before, OnTrack

LEMMA WorkStep ==
  ASSUME Shape, Overlaps, Grown, NEW r \in Thread, NEW ok \in BOOLEAN, Step(r, ok),
         NEW i \in Started, Calm(i)', Working(r, i), Fresh(r), OnTrack(i)
  PROVE  OnTrack(i)'
<1>1. Before(r, i) /\ Alone(r, i)
  BY ActsAlone DEF Before
<1>2. req[r].inst = i /\ req[r].pc # "idle" /\ i \notin spoiled' /\ i # 0
  BY DEF Working, Calm, Started
<1>3. UpToDate(r)
  BY DEF Overlaps
<1>4. SUFFICES InstFits(i)' /\ (Working(r, i)' => AtWork(r, i)')
  BY <1>1, AloneOnTrack
<1>5. CASE ReadStep(r, ok)
  <2>1. CASE Start(r) \/ (\E j \in Started : Cancel(r, j)) \/ \E t \in TaskId : SelectTask(r, t)
    BY <1>2, <2>1 DEF Start, Cancel, SelectTask, At
  <2>2. CASE SelectInstance(r)
    BY <1>1, <2>2, InstanceAlone
  <2>3. CASE BreakOff(r)
    BY <1>2, <2>3 DEF BreakOff
  <2>4. CASE SelectMaxId(r, ok)
    <3>1. ok
      BY <1>2, <2>4 DEF SelectMaxId
    <3>. QED BY <1>1, <2>4, <3>1, MaxAlone
  <2>5. CASE SelectDefinition(r, ok)
    <3>1. ok
      BY <1>2, <2>5 DEF SelectDefinition, Note
    <3>. QED BY <1>1, <2>5, <3>1, DefinitionAlone
  <2>6. CASE CountPending(r, ok)
    <3>1. ok
      BY <1>2, <2>6 DEF CountPending, Note
    <3>. QED BY <1>1, <2>6, <3>1, CountAlone
  <2>. QED BY <1>5, <2>1, <2>2, <2>3, <2>4, <2>5, <2>6 DEF ReadStep
<1>6. CASE WriteStep(r, ok)
  <2>1. CASE InsertInstance(r, ok)
    BY <1>2, <2>1 DEF InsertInstance, Fresh
  <2>2. ASSUME ~InsertInstance(r, ok) PROVE ok
    <3>1. Note(r, ok) => ok
      BY <1>2 DEF Note
    <3>2. MarkApproved(r, ok) => ok
      BY <1>2 DEF MarkApproved
    <3>4. Advance(r, ok) => ok
      BY <1>2 DEF Advance
    <3>3. Note(r, ok) \/ MarkApproved(r, ok) \/ Advance(r, ok)
      BY <1>6, <2>2 DEF WriteStep, CreateNodeTask, EndStep, EndInstance, SkipAll, MarkRejected,
                        AppendVars, SkipNode
    <3>. QED BY <3>1, <3>2, <3>3, <3>4
  <2>3. CASE CreateNodeTask(r, ok)
    BY <1>1, <2>1, <2>2, <2>3, CreateAlone
  <2>4. CASE EndStep(r, ok)
    BY <1>1, <2>1, <2>2, <2>4, EndAlone
  <2>5. CASE SkipAll(r, ok)
    BY <1>1, <2>1, <2>2, <2>5, SkipAllAlone
  <2>6. CASE MarkApproved(r, ok)
    BY <1>1, <2>1, <2>2, <2>6, ApproveAlone
  <2>7. CASE MarkRejected(r, ok)
    BY <1>1, <2>1, <2>2, <2>7, RejectAlone
  <2>8. CASE AppendVars(r, ok)
    BY <1>1, <1>3, <2>1, <2>2, <2>8, AppendAlone
  <2>9. CASE SkipNode(r, ok)
    BY <1>1, <2>1, <2>2, <2>9, SkipNodeAlone
  <2>10. CASE Advance(r, ok)
    BY <1>1, <2>1, <2>2, <2>10, AdvanceAlone
  <2>. QED BY <1>6, <2>1, <2>3, <2>4, <2>5, <2>6, <2>7, <2>8, <2>9, <2>10 DEF WriteStep
<1>. QED BY <1>5, <1>6 DEF Step

\* only a start adds an instance
LEMMA Inserted ==
  ASSUME Shape, NEW r \in Thread, NEW ok \in BOOLEAN, Step(r, ok), Len(insts') # Len(insts)
  PROVE  InsertInstance(r, ok) /\ ok
<1>1. CASE InsertInstance(r, ok)
  BY <1>1, InsertEffect
<1>2. CASE EndStep(r, ok)
  BY <1>2, EndEffect DEF EndStep, InstBecomes, Ended
<1>3. CASE AppendVars(r, ok)
  <2>. DEFINE vs == IF ok THEN req[r].seen \cup {req[r].task} ELSE insts[req[r].inst].vars
  <2>1. InstBecomes(req[r].inst, insts[req[r].inst].status, insts[req[r].inst].node, vs)
    BY <1>3, AppendEffect
  <2>. QED BY <2>1 DEF InstBecomes
<1>4. CASE Advance(r, ok)
  BY <1>4, AdvanceEffect DEF InstBecomes
<1>. QED BY <1>1, <1>2, <1>3, <1>4, Writes, ReadsLeaveRows DEF Step, InstWrite, rows

\* the instance a start makes
LEMMA NewOnTrack ==
  ASSUME Shape, Grown, Next, NEW i \in Started' \ Started, Calm(i)', \A r \in Thread : Fresh(r)
  PROVE  OnTrack(i)'
<1>1. /\ Typed /\ IdsOK /\ Len(insts) \in Nat
      /\ \A q \in Thread : req[q] \in Req /\ req[q].inst <= Len(insts)
  BY RowsTyped, SoundRequests DEF Shape, Sound
<1>2. Len(insts') # Len(insts)
  BY DEF Started
<1>3. PICK r \in Thread, ok \in BOOLEAN : InsertInstance(r, ok) /\ ok
  BY <1>2, Inserted, Steps DEF Step, LoseDefinition, rows
<1>4. ok /\ i = Len(insts) + 1 /\ insts'[i].status = "running" /\ insts'[i].node = req[r].node
      /\ insts'[i].vars = {}
  BY <1>3, InsertEffect DEF Started
<1>5. req[r].node = 1
  BY <1>3, <1>4 DEF InsertInstance, Fresh, At, Calm
<1>6. Now(r, "max", i, req[r].task, req[r].node, req[r].left, req[r].seen)
  BY <1>1, <1>3, <1>4, InsertReq
<1>7. UNCHANGED tasks /\ UNCHANGED said
  BY <1>3 DEF InsertInstance
<1>8. OfInstance(i)' = {}
  <2>1. \A t \in TaskId : tasks[t].inst # i
    <3>1. \A t \in TaskId : tasks[t].inst \in Nat /\ tasks[t].inst <= Len(insts)
      BY <1>1, RowsTyped DEF IdsOK, TasksInvited, TaskRow
    <3>. QED BY <1>1, <1>4, <3>1
  <2>. QED BY <1>7, <2>1 DEF OfInstance, TaskId
<1>9. SaidFits(i)'
  <2>1. \A k, u : <<i, k, u>> \notin said
    BY <1>1, <1>4 DEF IdsOK, Started
  <2>. QED BY <1>7, <2>1 DEF SaidFits
<1>10. TasksMade(i)'
  <2>1. Making(i)'
    BY <1>6 DEF Making, Doing, Now
  <2>. QED BY <1>4, <1>5, <2>1, Definition DEF TasksMade, Node
<1>11. InstFits(i)'
  BY <1>4, <1>5, <1>8, <1>9, <1>10, Definition DEF InstFits
<1>12. ASSUME NEW q \in Thread, Working(q, i)' PROVE AtWork(q, i)'
  <2>1. q = r
    <3>1. \A p \in Thread : req[p].inst # i
      BY <1>1, <1>4 DEF Req
    <3>. QED BY <1>6, <1>12, <3>1 DEF Working, Now
  <2>2. req'[r].pc = "max" /\ req'[r].node = insts'[i].node
    BY <1>4, <1>6 DEF Now
  <2>. QED BY <1>4, <1>8, <2>1, <2>2 DEF AtWork, At, InTime, Approving
<1>. QED BY <1>11, <1>12 DEF OnTrack

LEMMA DefinitionStays ==
  ASSUME Next
  PROVE  def' = def \/ def' # "usable"
<1>1. ASSUME NEW r \in Thread, NEW ok \in BOOLEAN, ReadStep(r, ok) PROVE def' = def
  BY <1>1 DEF ReadStep, Start, SelectInstance, BreakOff, Cancel, SelectTask, SelectMaxId,
              SelectDefinition, CountPending, Note
<1>2. ASSUME NEW r \in Thread, NEW ok \in BOOLEAN, WriteStep(r, ok) PROVE def' = def
  BY <1>2 DEF WriteStep, InsertInstance, CreateNodeTask, EndStep, EndInstance, SkipAll,
              MarkApproved, MarkRejected, AppendVars, SkipNode, Advance, Note
<1>. QED BY <1>1, <1>2, Steps DEF LoseDefinition

\* only a start is at its first statement
LEMMA NotInserting ==
  ASSUME Shape, NEW r \in Thread, NEW ok \in BOOLEAN, Step(r, ok), ~Start(r)
  PROVE  req'[r].pc # "insert"
<1>1. Typed
  BY DEF Shape
<1>2. ASSUME Ends(r) PROVE req'[r].pc # "insert"
  BY <1>2 DEF Ends, Now
<1>3. ASSUME NEW pc \in Pc, GoTo(r, pc), pc # "insert" PROVE req'[r].pc # "insert"
  BY <1>1, <1>3, NowGoes DEF Goes, Now
<1>4. CASE ReadStep(r, ok)
  <2>1. CASE SelectInstance(r)
    BY <1>1, <1>2, <2>1, SelectInstanceReq DEF Now
  <2>2. CASE BreakOff(r)
    BY <1>1, <1>2, <2>2, NowEnds DEF BreakOff
  <2>3. CASE \E i \in Started : Cancel(r, i)
    BY <1>1, <2>3, CancelReq DEF Now
  <2>4. CASE \E t \in TaskId : SelectTask(r, t)
    BY <1>1, <2>4, SelectTaskReq DEF Now
  <2>5. CASE SelectMaxId(r, ok)
    BY <1>2, <2>5, MaxReq DEF Now
  <2>6. CASE SelectDefinition(r, ok)
    BY <1>1, <1>2, <1>3, <2>6, NowEnds DEF SelectDefinition, Pc, Asking
  <2>7. CASE CountPending(r, ok)
    BY <1>1, <1>2, <1>3, <2>7, NowEnds DEF CountPending, Pc, Asking
  <2>. QED BY <1>4, <2>1, <2>2, <2>3, <2>4, <2>5, <2>6, <2>7 DEF ReadStep
<1>5. CASE WriteStep(r, ok)
  <2>1. CASE InsertInstance(r, ok)
    BY <1>1, <2>1, InsertReq DEF Now
  <2>2. CASE CreateNodeTask(r, ok)
    BY <1>2, <2>2, CreateReq DEF Now
  <2>3. CASE EndStep(r, ok)
    BY <1>1, <1>2, <1>3, <2>3, NowEnds DEF EndStep, EndInstance, Pc, Ending
  <2>4. CASE SkipAll(r, ok)
    BY <1>1, <1>2, <2>4, NowEnds DEF SkipAll
  <2>5. CASE MarkApproved(r, ok)
    BY <1>3, <2>5 DEF MarkApproved, Pc, Asking
  <2>6. CASE MarkRejected(r, ok)
    BY <1>3, <2>6 DEF MarkRejected, Pc, Ending
  <2>7. CASE AppendVars(r, ok)
    BY <1>3, <2>7 DEF AppendVars, Pc, Asking
  <2>8. CASE SkipNode(r, ok)
    BY <1>3, <2>8 DEF SkipNode, Pc, Asking
  <2>9. CASE Advance(r, ok)
    BY <2>9, AdvanceReq DEF Now
  <2>. QED BY <1>5, <2>1, <2>2, <2>3, <2>4, <2>5, <2>6, <2>7, <2>8, <2>9 DEF WriteStep
<1>. QED BY <1>4, <1>5 DEF Step

LEMMA FreshStep ==
  ASSUME Shape, Grown, Next, NEW q \in Thread, Fresh(q)
  PROVE  Fresh(q)'
<1>1. def' = def \/ def' # "usable"
  BY DefinitionStays
<1>2. ASSUME req'[q] = req[q] PROVE Fresh(q)'
  BY <1>1, <1>2 DEF Fresh, At
<1>3. ASSUME NEW ok \in BOOLEAN, Step(q, ok) PROVE Fresh(q)'
  <2>1. CASE Start(q)
    <3>1. Now(q, "insert", 0, 0, FirstNode, <<>>, {}) /\ def' = def
      BY <2>1, StartReq DEF Shape, Start
    <3>. QED BY <3>1 DEF Now, FirstNode, Fresh
  <2>2. CASE ~Start(q)
    BY <1>3, <2>2, NotInserting DEF Fresh, At
  <2>. QED BY <2>1, <2>2
<1>4. ASSUME NEW r \in Thread, NEW ok \in BOOLEAN, Step(r, ok), r # q PROVE Fresh(q)'
  BY <1>2, <1>4, StepActed DEF Acted
<1>. QED BY <1>2, <1>3, <1>4, Steps DEF Step, LoseDefinition

LEMMA OrderlyStep ==
  ASSUME Shape, Overlaps, Orderly, Next
  PROVE  Orderly'
<1>1. Grown
  BY StepGrows
<1>2. \A q \in Thread : Fresh(q)'
  BY <1>1, FreshStep DEF Orderly
<1>3. ASSUME NEW i \in Started', Calm(i)' PROVE OnTrack(i)'
  <2>1. CASE i \notin Started
    BY <1>1, <1>3, <2>1, NewOnTrack DEF Orderly
  <2>2. CASE i \in Started
    <3>1. OnTrack(i)
      BY <1>1, <1>3, <2>2 DEF Grown, Calm, Orderly
    <3>2. ASSUME NEW r \in Thread, NEW ok \in BOOLEAN, Step(r, ok) PROVE OnTrack(i)'
      <4>1. Fresh(r)
        BY DEF Orderly
      <4>. QED BY <1>1, <1>3, <2>2, <3>1, <3>2, <4>1, AwayStep, WorkStep
    <3>3. CASE LoseDefinition
      BY <1>3, <2>2, <3>3 DEF LoseDefinition, Calm
    <3>. QED BY <3>2, <3>3, Steps DEF Step
  <2>. QED BY <2>1, <2>2
<1>. QED BY <1>2, <1>3 DEF Orderly

LEMMA OrderlyInit ==
  ASSUME Init
  PROVE  Orderly
<1>1. Started = {}
  BY EmptySeq DEF Init, Started
<1>. QED BY <1>1 DEF Init, Idle, Orderly, Fresh, At

LEMMA OrderlyStutter ==
  ASSUME Orderly, UNCHANGED vars
  PROVE  Orderly'
<1>1. UNCHANGED <<def, insts, tasks, req, said, crowded, spoiled, returned>>
  BY DEF vars, rows, history
<1>2. ASSUME NEW i \in Started', Calm(i)' PROVE OnTrack(i)'
  <2>1. OnTrack(i)
    BY <1>1, <1>2 DEF Started, Calm, Orderly
  <2>2. SameInst(i)
    BY <1>1, SameRowsTasks DEF SameInst, SameSaid
  <2>3. InstFits(i)'
    BY <1>1, <2>1, <2>2, FitsStays DEF OnTrack, StillDoing, Making, Clearing, Rejecting, Leaving, Doing
  <2>4. ASSUME NEW r \in Thread, Working(r, i)' PROVE AtWork(r, i)'
    <3>1. AtWork(r, i)
      BY <1>1, <2>1, <2>4 DEF OnTrack, Working
    <3>. QED BY <1>1, <3>1
         DEF AtWork, At, InTime, Enough, Agreed, Short, OfNode, OfInstance, TaskId
  <2>. QED BY <2>3, <2>4 DEF OnTrack
<1>. QED BY <1>1, <1>2 DEF Orderly, Fresh, At

LEMMA QuietAgrees ==
  ASSUME Shape, Orderly
  PROVE  RowsAgree
<1>1. /\ Typed /\ said \subseteq Started \X Node \X Nat
      /\ \A t \in TaskId : tasks[t] \in TaskRow
  BY RowsTyped DEF Shape, IdsOK
<1>2. SUFFICES
        ASSUME NEW i \in Started, Quiet(i)
        PROVE  /\ \A k \in 1 .. insts[i].node :
                    /\ Cardinality(OfNode(i, k)) = Len(Assignees[k])
                    /\ {tasks[t].by : t \in OfNode(i, k)} = People(k)
               /\ \A t \in TaskId : tasks[t].inst = i =>
                    /\ tasks[t].node <= insts[i].node
                    /\ tasks[t].status = "pending" =>
                         insts[i].status = "running" /\ tasks[t].node = insts[i].node
                    /\ tasks[t].status = "rejected" => insts[i].status = "rejected"
               /\ {a \in said : a[1] = i} = {<<i, tasks[t].node, tasks[t].by>> : t \in ApprovedOf(i)}
               /\ insts[i].vars \subseteq ApprovedOf(i)
  BY DEF RowsAgree
<1>3. InstFits(i)
  BY <1>2 DEF Quiet, Calm, Orderly, OnTrack
<1>4. ~Making(i) /\ ~Clearing(i) /\ ~Rejecting(i)
  BY <1>2 DEF Quiet, Busy, Making, Clearing, Rejecting, Doing
<1>5. ASSUME NEW k \in 1 .. insts[i].node
      PROVE  /\ Cardinality(OfNode(i, k)) = Len(Assignees[k])
             /\ {tasks[t].by : t \in OfNode(i, k)} = People(k)
  <2>1. k \in Node /\ (k < insts[i].node \/ k = insts[i].node)
    BY <1>3, <1>5, Definition DEF InstFits, Node
  <2>2. Short(i, k, <<>>)
    BY <1>3, <1>4, <2>1 DEF InstFits, TasksMade
  <2>3. Named(<<>>) = {} /\ Len(<<>>) = 0 /\ Cardinality(OfNode(i, k)) \in Nat
    BY <1>1, NodeFinite, EmptySeq, LenProperties DEF Named
  <2>. QED BY <2>2, <2>3 DEF Short
<1>6. \A t \in OfInstance(i) : Fits(i, t)
  BY <1>3 DEF InstFits
<1>7. {a \in said : a[1] = i} = {<<i, tasks[t].node, tasks[t].by>> : t \in ApprovedOf(i)}
  <2>1. ASSUME NEW t \in ApprovedOf(i) PROVE <<i, tasks[t].node, tasks[t].by>> \in said
    BY <1>6 DEF ApprovedOf, Fits
  <2>2. ASSUME NEW a \in said, a[1] = i
        PROVE  \E t \in ApprovedOf(i) : a = <<i, tasks[t].node, tasks[t].by>>
    <3>1. PICK k, u : a = <<i, k, u>>
      BY <1>1, <2>2
    <3>. QED BY <1>3, <3>1 DEF InstFits, SaidFits
  <2>. QED BY <2>1, <2>2
<1>. QED BY <1>3, <1>4, <1>5, <1>6, <1>7 DEF Fits, OfInstance, InstFits

(* When requests have not overlapped on an instance, none broke off and no  *)
(* repeated key sent it back, its rows agree once the work is done: the     *)
(* tasks of every node reached, the pending, rejected and approved ones     *)
(* among them, and the variables are what the approvals given and the       *)
(* outcome of the instance say.                                             *)
THEOREM RowsInAgreement == Spec => []RowsAgree
<1>1. Shape /\ Overlaps /\ Orderly /\ [Next]_vars => Shape' /\ Overlaps' /\ Orderly'
  BY ShapeStep, ShapeStutter, OverlapsStep, OverlapsStutter, OrderlyStep, OrderlyStutter
<1>2. Init => Shape /\ Overlaps /\ Orderly
  BY ShapeInit, OverlapsInit, OrderlyInit
<1>3. Shape /\ Orderly => RowsAgree
  BY QuietAgrees
<1>. QED BY <1>1, <1>2, <1>3, PTL DEF Spec

-----------------------------------------------------------------------------
(* The promise of Approval, kept for the instances that are not set loose.  *)

LooseNow == (crowded \cup spoiled \cup returned) \ {0}

\* the instances and the mishaps stay within their bound
Bounded == Len(insts) + faults <= MaxEvents

LEMMA BoundedStep ==
  ASSUME Shape, Bounded, Next
  PROVE  Bounded'
<1>1. /\ Typed /\ Len(insts) \in Nat /\ faults \in Nat /\ MaxEvents \in Nat
  BY RowsTyped, FlowEngineAssumption DEF Shape, Typed
<1>2. ASSUME Len(insts') = Len(insts), faults' = faults \/ (EventsLeft /\ faults' = faults + 1)
      PROVE  Bounded'
  BY <1>1, <1>2, EventsBound DEF Bounded
<1>3. ASSUME NEW r \in Thread, Start(r) \/ SelectInstance(r) \/ BreakOff(r) PROVE Bounded'
  BY <1>2, <1>3 DEF Start, SelectInstance, BreakOff, rows
<1>4. ASSUME NEW r \in Thread, NEW i \in Started, Cancel(r, i) PROVE Bounded'
  BY <1>2, <1>4 DEF Cancel, rows
<1>5. ASSUME NEW r \in Thread, NEW t \in TaskId, SelectTask(r, t) PROVE Bounded'
  BY <1>2, <1>5 DEF SelectTask, rows
<1>6. CASE LoseDefinition
  BY <1>2, <1>6 DEF LoseDefinition, rows
<1>7. ASSUME NEW r \in Thread, NEW ok \in BOOLEAN, Statement(r, ok) PROVE Bounded'
  <2>1. faults' = IF ok THEN faults ELSE faults + 1
    BY <1>7 DEF Statement
  <2>2. faults' = faults \/ (EventsLeft /\ faults' = faults + 1)
    BY <1>7 DEF Statement
  <2>3. CASE InsertInstance(r, ok) /\ ok
    BY <1>1, <2>1, <2>3, InsertEffect, EventsBound DEF InsertInstance, Bounded
  <2>4. CASE ~(InsertInstance(r, ok) /\ ok)
    <3>1. Step(r, ok)
      BY <1>7 DEF Statement, Step, ReadStep, WriteStep, EndStep
    <3>2. Len(insts') = Len(insts)
      BY <2>4, <3>1, Inserted
    <3>. QED BY <1>2, <2>2, <3>2
  <2>. QED BY <2>3, <2>4
<1>. QED BY <1>3, <1>4, <1>5, <1>6, <1>7 DEF Next

LEMMA LooseKnown ==
  ASSUME Shape, Bounded
  PROVE  LooseNow \subseteq 1 .. MaxEvents /\ Started \subseteq 1 .. MaxEvents
<1>1. Len(insts) \in Nat /\ faults \in Nat /\ MaxEvents \in Nat
  BY RowsTyped, FlowEngineAssumption DEF Shape, Typed
<1>. QED BY <1>1 DEF Shape, IdsOK, LooseNow, Started, Bounded

LEMMA FlowSame ==
  ASSUME NEW i \in Started, i \in Started', insts'[i].status = insts[i].status,
         insts'[i].node = insts[i].node, SameSaid(i)
  PROVE  FlowOf(i)' = FlowOf(i)
BY DEF FlowOf, Agreed, SameSaid

\* an instance's flow, and what the promise lets it become
FlowAt(status, k, yes) == [status |-> status, node |-> k, yes |-> yes]
WithYes(f, u) == [f EXCEPT !.yes = @ \cup {u}]
AtNextNode(f) == [f EXCEPT !.node = @ + 1, !.yes = {}]
WithStatus(f, status) == [f EXCEPT !.status = status]

LEMMA FlowRecord ==
  ASSUME NEW f, NEW s, NEW k, NEW yes, f = FlowAt(s, k, yes)
  PROVE  /\ f.status = s /\ f.node = k /\ f.yes = yes
         /\ \A u : WithYes(f, u) = FlowAt(s, k, yes \cup {u})
         /\ AtNextNode(f) = FlowAt(s, k + 1, {})
         /\ \A t : WithStatus(f, t) = FlowAt(t, k, yes)
<1>. USE DEF FlowAt
<1>1. f.status = s /\ f.node = k /\ f.yes = yes
  OBVIOUS
<1>2. ASSUME NEW u PROVE WithYes(f, u) = FlowAt(s, k, yes \cup {u})
  <2>. DEFINE R == [status : {s}, node : {k}, yes : {yes, yes \cup {u}}]
  <2>1. f \in R
    OBVIOUS
  <2>2. WithYes(f, u) \in R
    BY <1>1, <2>1 DEF WithYes
  <2>3. ASSUME NEW x \in R PROVE x = [status |-> x.status, node |-> x.node, yes |-> x.yes]
    OBVIOUS
  <2>. QED BY <1>1, <2>1, <2>2, <2>3 DEF WithYes
<1>3. AtNextNode(f) = FlowAt(s, k + 1, {})
  <2>. DEFINE R == [status : {s}, node : {k, k + 1}, yes : {yes, {}}]
  <2>1. f \in R
    OBVIOUS
  <2>2. AtNextNode(f) \in R
    BY <1>1, <2>1 DEF AtNextNode
  <2>3. ASSUME NEW x \in R PROVE x = [status |-> x.status, node |-> x.node, yes |-> x.yes]
    OBVIOUS
  <2>. QED BY <1>1, <2>1, <2>2, <2>3 DEF AtNextNode
<1>4. ASSUME NEW t PROVE WithStatus(f, t) = FlowAt(t, k, yes)
  <2>. DEFINE R == [status : {s, t}, node : {k}, yes : {yes}]
  <2>1. f \in R
    OBVIOUS
  <2>2. WithStatus(f, t) \in R
    BY <1>1, <2>1 DEF WithStatus
  <2>3. ASSUME NEW x \in R PROVE x = [status |-> x.status, node |-> x.node, yes |-> x.yes]
    OBVIOUS
  <2>. QED BY <1>1, <2>1, <2>2, <2>3 DEF WithStatus
<1>. QED BY <1>1, <1>2, <1>3, <1>4

\* the course the promise lays down for a running instance
CourseOf(i) ==
  \/ FlowOf(i)' = FlowOf(i)
  \/ /\ UNCHANGED <<crowded, spoiled, returned>>
     /\ FlowOf(i).status = "running"
     /\ \/ \E u \in People(FlowOf(i).node) : FlowOf(i)' = WithYes(FlowOf(i), u)
        \/ /\ FlowOf(i).node < Last /\ Promise!Satisfied(FlowOf(i).node, FlowOf(i).yes)
           /\ FlowOf(i)' = AtNextNode(FlowOf(i))
        \/ /\ FlowOf(i).node = Last /\ Promise!Satisfied(Last, FlowOf(i).yes)
           /\ FlowOf(i)' = WithStatus(FlowOf(i), "approved")
        \/ \E s \in {"rejected", "canceled"} : FlowOf(i)' = WithStatus(FlowOf(i), s)

LEMMA EnoughSatisfies ==
  ASSUME NEW i, Enough(i)
  PROVE  Promise!Satisfied(insts[i].node, Agreed(i))
BY DEF Enough, Promise!Satisfied, Promise!People, People

LEMMA FlowIs ==
  ASSUME NEW i \in Started, insts[i].node \in Node
  PROVE  FlowOf(i) = FlowAt(insts[i].status, insts[i].node, Agreed(i))
BY Definition DEF FlowOf, FlowAt, Node

LEMMA FlowIsNext ==
  ASSUME NEW i \in Started', insts'[i].node \in Node
  PROVE  FlowOf(i)' = FlowAt(insts'[i].status, insts'[i].node, Agreed(i)')
BY Definition DEF FlowOf, FlowAt, Node

LEMMA AgreeCourse ==
  ASSUME NEW r \in Thread, NEW i, Before(r, i), MarkApproved(r, TRUE)
  PROVE  CourseOf(i)
<1>1. /\ tasks[req[r].task].by \in People(req[r].node) /\ req[r].node = insts[i].node
      /\ insts[i].status = "running" /\ insts[i].node \in Node /\ req[r].inst = i /\ i \in Started
  BY TaskAtWork DEF MarkApproved, At, Asking, InTime, Before
<1>2. /\ UNCHANGED <<insts, crowded, spoiled, returned>> /\ Started' = Started
      /\ said' = said \cup {<<i, insts[i].node, tasks[req[r].task].by>>}
  BY <1>1 DEF MarkApproved, Started
<1>3. PICK u : u = tasks[req[r].task].by
  OBVIOUS
<1>4. Agreed(i)' = Agreed(i) \cup {u}
  BY <1>1, <1>2, <1>3 DEF Agreed
<1>5. FlowOf(i) = FlowAt("running", insts[i].node, Agreed(i))
  BY <1>1, FlowIs
<1>6. FlowOf(i)' = FlowAt("running", insts[i].node, Agreed(i) \cup {u})
  BY <1>1, <1>2, <1>4, FlowIsNext
<1>7. /\ FlowOf(i)' = WithYes(FlowOf(i), u)
      /\ FlowOf(i).status = "running" /\ FlowOf(i).node = insts[i].node
  BY <1>5, <1>6, FlowRecord
<1>8. u \in People(FlowOf(i).node)
  BY <1>1, <1>3, <1>7
<1>. QED BY <1>2, <1>7, <1>8 DEF CourseOf

LEMMA AdvanceCourse ==
  ASSUME NEW r \in Thread, NEW i, Before(r, i), Advance(r, TRUE)
  PROVE  CourseOf(i)
<1>1. /\ req[r].node = insts[i].node /\ insts[i].status = "running" /\ insts[i].node \in Node
      /\ req[r].inst = i /\ i \in Started /\ Enough(i) /\ IdsOK
  BY TaskAtWork DEF Advance, At, Asking, InTime, Before, AtWork, Shape
<1>2. PICK k : k = insts[i].node + 1
  OBVIOUS
<1>a. keys[k] = k
  BY <1>1, <1>2 DEF Advance, Before
<1>3. /\ UNCHANGED <<said, crowded, spoiled, returned>> /\ k \in Node /\ i \in Started'
      /\ insts'[i].status = insts[i].status /\ insts'[i].node = k
  BY <1>1, <1>2, <1>a, AdvanceEffect DEF Advance, Before, InstBecomes
<1>4. insts[i].node < Last
  BY <1>1, <1>2, <1>3, Definition DEF Node
<1>5. Agreed(i)' = {}
  \* nobody has agreed at a node that has no tasks yet
  <2>1. ASSUME NEW t \in OfInstance(i)
        PROVE  tasks[t].node \in Nat /\ tasks[t].node <= insts[i].node
    <3>1. tasks[t] \in TaskRow /\ Fits(i, t)
      BY RowsTyped DEF Before, Shape, InstFits, OfInstance
    <3>. QED BY <3>1, Definition DEF Fits, TaskRow, Node
  <2>2. \A t \in ApprovedOf(i) : tasks[t].node # k
    BY <1>1, <1>2, <2>1, Definition DEF ApprovedOf, Node
  <2>3. \A u : <<i, k, u>> \notin said
    BY <2>2 DEF Before, InstFits, SaidFits
  <2>. QED BY <1>3, <2>3 DEF Agreed
<1>6. FlowOf(i) = FlowAt("running", insts[i].node, Agreed(i))
  BY <1>1, FlowIs
<1>7. FlowOf(i)' = FlowAt("running", insts[i].node + 1, {})
  BY <1>1, <1>2, <1>3, <1>5, FlowIsNext
<1>8. Promise!Satisfied(insts[i].node, Agreed(i))
  BY <1>1, EnoughSatisfies
<1>9. /\ FlowOf(i).node = insts[i].node /\ FlowOf(i).yes = Agreed(i)
      /\ FlowOf(i).status = "running"
      /\ FlowOf(i)' = AtNextNode(FlowOf(i))
  BY <1>6, <1>7, FlowRecord
<1>10. Promise!Satisfied(FlowOf(i).node, FlowOf(i).yes)
  BY <1>8, <1>9
<1>. QED BY <1>3, <1>4, <1>9, <1>10 DEF CourseOf

LEMMA EndCourse ==
  ASSUME NEW r \in Thread, NEW i, Before(r, i), EndStep(r, TRUE)
  PROVE  CourseOf(i)
<1>1. /\ req[r].inst = i /\ req[r].pc \in {"cancel", "end", "finish"} /\ i \in Started
      /\ insts[i].status = "running" /\ insts[i].node \in Node
      /\ UNCHANGED <<said, crowded, spoiled, returned>>
  BY DEF EndStep, EndInstance, Before, AtWork, At, Alone, Working, InTime, Approving, Note, InstFits
<1>2. PICK s : s = CASE req[r].pc = "cancel" -> "canceled"
                     [] req[r].pc = "end" -> "rejected"
                     [] req[r].pc = "finish" -> "approved"
  OBVIOUS
<1>3. insts'[i].status = s /\ insts'[i].node = insts[i].node /\ i \in Started'
  BY <1>1, <1>2, EndEffect DEF EndStep, Before, EndInstance, At, InstBecomes, Ended
<1>4. Agreed(i)' = Agreed(i)
  BY <1>1, <1>3 DEF Agreed
<1>5. FlowOf(i) = FlowAt("running", insts[i].node, Agreed(i))
  BY <1>1, FlowIs
<1>6. FlowOf(i)' = FlowAt(s, insts[i].node, Agreed(i))
  BY <1>1, <1>3, <1>4, FlowIsNext
<1>7. /\ FlowOf(i)' = WithStatus(FlowOf(i), s) /\ FlowOf(i).status = "running"
      /\ FlowOf(i).node = insts[i].node /\ FlowOf(i).yes = Agreed(i)
  BY <1>5, <1>6, FlowRecord
<1>8. CASE req[r].pc = "finish"
  <2>1. insts[i].node = Last /\ Enough(i)
    BY <1>8, SoundRequests DEF Before, AtWork, Sound, Placed, At, Approving, InTime
  <2>2. Promise!Satisfied(Last, FlowOf(i).yes)
    BY <1>7, <2>1, EnoughSatisfies
  <2>3. s = "approved"
    BY <1>2, <1>8
  <2>. QED BY <1>1, <1>7, <2>1, <2>2, <2>3 DEF CourseOf
<1>9. CASE req[r].pc # "finish"
  <2>1. s \in {"rejected", "canceled"}
    BY <1>1, <1>2, <1>9
  <2>. QED BY <1>1, <1>7, <2>1 DEF CourseOf
<1>. QED BY <1>8, <1>9

LEMMA CourseStep ==
  ASSUME Shape, Overlaps, Grown, NEW r \in Thread, NEW ok \in BOOLEAN, Step(r, ok),
         NEW i \in Started, Calm(i)', Working(r, i), Fresh(r), OnTrack(i)
  PROVE  CourseOf(i)
<1>1. Before(r, i) /\ i \in Started'
  BY ActsAlone DEF Grown
<1>2. req[r].inst = i /\ i \notin spoiled' /\ i # 0
  BY DEF Working, Calm, Started
<1>3. ASSUME UNCHANGED said, insts'[i].status = insts[i].status, insts'[i].node = insts[i].node
      PROVE  CourseOf(i)
  <2>1. SameSaid(i)
    BY <1>3 DEF SameSaid
  <2>. QED BY <1>1, <1>3, <2>1, FlowSame DEF CourseOf
<1>4. CASE ReadStep(r, ok)
  <2>1. UNCHANGED said
    BY <1>4 DEF ReadStep, Start, SelectInstance, BreakOff, Cancel, SelectTask, SelectMaxId,
                SelectDefinition, CountPending, Note, history
  <2>. QED BY <1>3, <1>4, <2>1, ReadsLeaveRows DEF rows
<1>5. CASE InstWrite(r, ok)
  <2>1. CASE InsertInstance(r, ok)
    BY <1>2, <2>1, InsertEffect DEF InsertInstance, Fresh
  <2>2. CASE EndStep(r, ok)
    <3>1. ok
      BY <1>2, <2>2 DEF EndStep, EndInstance, Note
    <3>. QED BY <1>1, <2>2, <3>1, EndCourse
  <2>3. CASE AppendVars(r, ok)
    <3>. DEFINE vs == IF ok THEN req[r].seen \cup {req[r].task} ELSE insts[req[r].inst].vars
    <3>1. InstBecomes(req[r].inst, insts[req[r].inst].status, insts[req[r].inst].node, vs)
      BY <2>3, AppendEffect
    <3>2. UNCHANGED said
      BY <2>3 DEF AppendVars, Note
    <3>3. insts'[i].status = insts[i].status /\ insts'[i].node = insts[i].node
      BY <1>2, <3>1 DEF InstBecomes
    <3>. QED BY <1>3, <3>2, <3>3
  <2>4. CASE Advance(r, ok)
    <3>1. ok
      BY <1>2, <2>4 DEF Advance, Note
    <3>. QED BY <1>1, <2>4, <3>1, AdvanceCourse
  <2>. QED BY <1>5, <2>1, <2>2, <2>3, <2>4 DEF InstWrite
<1>6. CASE TaskWrite(r, ok) /\ UNCHANGED insts
  <2>1. CASE MarkApproved(r, ok)
    <3>1. ok
      BY <1>2, <2>1 DEF MarkApproved
    <3>. QED BY <1>1, <2>1, <3>1, AgreeCourse
  <2>2. CASE ~MarkApproved(r, ok)
    <3>1. UNCHANGED said
      BY <1>6, <2>2 DEF TaskWrite, CreateNodeTask, SkipAll, MarkRejected, SkipNode, Note
    <3>. QED BY <1>3, <1>6, <3>1
  <2>. QED BY <2>1, <2>2
<1>. QED BY <1>4, <1>5, <1>6, Writes DEF Step

LEMMA LoosenPromise ==
  ASSUME LooseNow \subseteq LooseNow', LooseNow' \subseteq 1 .. MaxEvents,
         \A j \in (1 .. MaxEvents) \ LooseNow' : FlowOf(j)' = FlowOf(j)
  PROVE  Promise!Next
<1>1. Promise!Loosen(LooseNow')
  BY DEF Promise!Loosen, LooseNow
<1>. QED BY <1>1 DEF Promise!Next

\* only i changes, and how the promise sees it
LEMMA BecomesPromise ==
  ASSUME NEW i \in 1 .. MaxEvents, UNCHANGED <<crowded, spoiled, returned>>,
         \A j \in (1 .. MaxEvents) \ {i} : FlowOf(j)' = FlowOf(j)
  PROVE  Promise!Becomes(i, FlowOf(i)')
BY DEF Promise!Becomes

LEMMA CoursePromise ==
  ASSUME NEW i \in 1 .. MaxEvents, i \notin LooseNow, CourseOf(i),
         LooseNow \subseteq LooseNow', LooseNow' \subseteq 1 .. MaxEvents,
         \A j \in (1 .. MaxEvents) \ {i} : FlowOf(j)' = FlowOf(j)
  PROVE  Promise!Next
<1>1. CASE FlowOf(i)' = FlowOf(i)
  BY <1>1, LoosenPromise
<1>2. CASE FlowOf(i)' # FlowOf(i)
  <2>1. UNCHANGED <<crowded, spoiled, returned>> /\ FlowOf(i).status = "running"
    BY <1>2 DEF CourseOf
  <2>2. Promise!Running(i)
    BY <2>1 DEF Promise!Running, LooseNow
  <2>3. Promise!Becomes(i, FlowOf(i)')
    BY <2>1, BecomesPromise
  <2>4. CASE \E u \in People(FlowOf(i).node) : FlowOf(i)' = WithYes(FlowOf(i), u)
    <3>1. PICK u \in People(FlowOf(i).node) : FlowOf(i)' = WithYes(FlowOf(i), u)
      BY <2>4
    <3>2. Promise!Becomes(i, WithYes(FlowOf(i), u))
      BY <2>3, <3>1
    <3>3. Promise!Agree(i)
      BY <2>2, <3>2 DEF Promise!Agree, WithYes, Promise!People, People
    <3>. QED BY <3>3 DEF Promise!Next
  <2>5. CASE /\ FlowOf(i).node < Last /\ Promise!Satisfied(FlowOf(i).node, FlowOf(i).yes)
             /\ FlowOf(i)' = AtNextNode(FlowOf(i))
    <3>1. Promise!Becomes(i, AtNextNode(FlowOf(i)))
      BY <2>3, <2>5
    <3>2. Promise!Advance(i)
      BY <2>2, <2>5, <3>1 DEF Promise!Advance, AtNextNode, Promise!Last, Last
    <3>. QED BY <3>2 DEF Promise!Next
  <2>6. CASE /\ FlowOf(i).node = Last /\ Promise!Satisfied(Last, FlowOf(i).yes)
             /\ FlowOf(i)' = WithStatus(FlowOf(i), "approved")
    <3>1. Promise!Becomes(i, WithStatus(FlowOf(i), "approved"))
      BY <2>3, <2>6
    <3>2. Promise!Approve(i)
      BY <2>2, <2>6, <3>1 DEF Promise!Approve, WithStatus, Promise!Last, Last
    <3>. QED BY <3>2 DEF Promise!Next
  <2>7. CASE \E s \in {"rejected", "canceled"} : FlowOf(i)' = WithStatus(FlowOf(i), s)
    <3>1. PICK s \in {"rejected", "canceled"} : FlowOf(i)' = WithStatus(FlowOf(i), s)
      BY <2>7
    <3>2. Promise!Becomes(i, WithStatus(FlowOf(i), s))
      BY <2>3, <3>1
    <3>3. Promise!Stop(i)
      BY <2>2, <3>2 DEF Promise!Stop, WithStatus
    <3>. QED BY <3>3 DEF Promise!Next
  <2>. QED BY <1>2, <2>4, <2>5, <2>6, <2>7 DEF CourseOf
<1>. QED BY <1>1, <1>2


\* an instance the request is not at work on, started or not
LEMMA OtherFlows ==
  ASSUME Shape, Grown, NEW r \in Thread, NEW ok \in BOOLEAN, Step(r, ok), NEW j,
         ~Working(r, j), j \in Started' => j \in Started
  PROVE  FlowOf(j)' = FlowOf(j)
<1>1. CASE j \in Started
  <2>1. SameInst(j) /\ j \in Started'
    BY <1>1, Isolated, IdleReads DEF Working, Grown
  <2>. QED BY <1>1, <2>1, FlowSame DEF SameInst
<1>2. CASE j \notin Started
  BY <1>2 DEF FlowOf, Agreed
<1>. QED BY <1>1, <1>2

LEMMA StartPromise ==
  ASSUME Shape, Grown, Bounded, NEW r \in Thread, Step(r, TRUE), InsertInstance(r, TRUE), Fresh(r),
         LooseNow \subseteq LooseNow', LooseNow' \subseteq 1 .. MaxEvents
  PROVE  Promise!Next
<1>1. PICK i : i = Len(insts) + 1
  OBVIOUS
<1>2. /\ Len(insts) \in Nat /\ faults \in Nat /\ MaxEvents \in Nat /\ Len(insts) + faults < MaxEvents
      /\ IdsOK /\ Started \subseteq Nat
  BY RowsTyped, EventsBound, FlowEngineAssumption DEF Shape, Typed, InsertInstance, Started
<1>a. i \in Nat /\ i \in 1 .. MaxEvents /\ i # 0 /\ i > Len(insts)
  BY <1>1, <1>2
<1>b. Started = 1 .. Len(insts)
  BY DEF Started
<1>c. i \notin Started
  BY <1>a, <1>b, <1>2
<1>3. /\ i \in 1 .. MaxEvents /\ i \notin Started /\ i # 0
      /\ i \notin crowded /\ i \notin spoiled /\ i \notin returned
  BY <1>a, <1>b, <1>c, <1>2 DEF IdsOK
<1>4. /\ Started' = Started \cup {i}
      /\ insts'[i].status = "running" /\ insts'[i].node = req[r].node
  BY <1>1, InsertEffect
<1>5. At(r, "insert") /\ req[r].inst = 0
  BY DEF InsertInstance, Fresh
<1>6. \A j \in (1 .. MaxEvents) \ {i} : FlowOf(j)' = FlowOf(j)
  <2>1. ASSUME NEW j \in (1 .. MaxEvents) \ {i}
        PROVE  ~Working(r, j) /\ (j \in Started' => j \in Started)
    <3>1. j # 0 /\ j # i
      OBVIOUS
    <3>2. j \in Started' => j \in Started
      BY <1>4, <3>1
    <3>. QED BY <1>5, <3>1, <3>2 DEF Working
  <2>2. ASSUME NEW j \in (1 .. MaxEvents) \ {i} PROVE FlowOf(j)' = FlowOf(j)
    <3>1. TRUE \in BOOLEAN
      OBVIOUS
    <3>. QED BY <2>1, <2>2, <3>1, OtherFlows
  <2>. QED BY <2>2
<1>7. CASE def # "usable"
  <2>1. i \in LooseNow'
    BY <1>1, <1>3, <1>7 DEF InsertInstance, LooseNow
  <2>. QED BY <1>6, <2>1, LoosenPromise
<1>8. CASE def = "usable"
  <2>1. UNCHANGED <<crowded, spoiled, returned, said>> /\ req[r].node = 1 /\ 1 \in Node
    BY <1>5, <1>8, Definition DEF InsertInstance, Fresh
  <2>2. \A u : <<i, 1, u>> \notin said'
    BY <1>2, <1>3, <2>1 DEF IdsOK
  <2>3. Agreed(i)' = {}
    BY <1>4, <2>1, <2>2 DEF Agreed
  <2>4. FlowOf(i)' = [status |-> "running", node |-> 1, yes |-> {}]
    BY <1>4, <2>1, <2>3, FlowIsNext DEF FlowAt
  <2>5. FlowOf(i) = Promise!NotStarted
    BY <1>3 DEF FlowOf, Agreed, Promise!NotStarted
  <2>6. Promise!Becomes(i, [status |-> "running", node |-> 1, yes |-> {}])
    BY <1>3, <1>6, <2>1, <2>4, BecomesPromise
  <2>7. Promise!Start(i)
    BY <1>3, <2>5, <2>6 DEF Promise!Start
  <2>. QED BY <1>3, <2>7 DEF Promise!Next
<1>. QED BY <1>7, <1>8

Loosed == Shape /\ Bounded => LooseNow \subseteq 1 .. MaxEvents /\ Started \subseteq 1 .. MaxEvents

LEMMA LoosedNow == Loosed
BY LooseKnown DEF Loosed

LEMMA LoosedNext == Loosed'
BY LoosedNow, PTL

LEMMA PromiseStep ==
  ASSUME Shape, Shape', Overlaps, Orderly, Bounded, Bounded', Next
  PROVE  Promise!Next
<1>1. Grown /\ Started \subseteq 1 .. MaxEvents /\ LooseNow' \subseteq 1 .. MaxEvents
  BY StepGrows, LoosedNow, LoosedNext DEF Loosed
<1>2. LooseNow \subseteq LooseNow'
  BY <1>1 DEF Grown, LooseNow
<1>3. CASE LoseDefinition
  <2>1. UNCHANGED <<insts, said>>
    BY <1>3 DEF LoseDefinition, rows
  <2>2. \A j \in 1 .. MaxEvents : FlowOf(j)' = FlowOf(j)
    BY <2>1 DEF FlowOf, Started, Agreed
  <2>. QED BY <1>1, <1>2, <2>2, LoosenPromise
<1>4. ASSUME NEW r \in Thread, NEW ok \in BOOLEAN, Step(r, ok) PROVE Promise!Next
  <2>1. Fresh(r)
    BY DEF Orderly
  <2>2. CASE InsertInstance(r, ok) /\ ok
    BY <1>1, <1>2, <1>4, <2>1, <2>2, StartPromise
  <2>3. CASE ~(InsertInstance(r, ok) /\ ok)
    <3>1. Started' = Started
      BY <1>4, <2>3, Inserted DEF Started
    <3>2. PICK i : i = req[r].inst
      OBVIOUS
    <3>3. \A j \in (1 .. MaxEvents) \ {i} : FlowOf(j)' = FlowOf(j)
      BY <1>1, <1>4, <3>1, <3>2, OtherFlows DEF Working
    <3>4. CASE ~(Working(r, i) /\ i \in Started)
      <4>1. i \in Started => FlowOf(i)' = FlowOf(i)
        BY <1>1, <1>4, <3>1, <3>4, OtherFlows
      <4>2. i \notin Started => FlowOf(i)' = FlowOf(i)
        BY <3>1 DEF FlowOf, Agreed
      <4>. QED BY <1>1, <1>2, <3>3, <4>1, <4>2, LoosenPromise
    <3>5. CASE Working(r, i) /\ i \in Started /\ ~Calm(i)'
      <4>1. i \in LooseNow'
        BY <3>5 DEF Calm, LooseNow, Started
      <4>. QED BY <1>1, <1>2, <3>3, <4>1, LoosenPromise
    <3>6. CASE Working(r, i) /\ i \in Started /\ Calm(i)'
      <4>1. Calm(i)
        BY <1>1, <3>6 DEF Calm, Grown
      <4>2. CourseOf(i)
        BY <1>1, <1>4, <2>1, <3>6, <4>1, CourseStep DEF Orderly
      <4>3. i \notin LooseNow /\ i \in 1 .. MaxEvents
        BY <1>1, <3>6, <4>1 DEF Calm, LooseNow
      <4>. QED BY <1>1, <1>2, <3>3, <4>2, <4>3, CoursePromise
    <3>. QED BY <3>4, <3>5, <3>6
  <2>. QED BY <2>2, <2>3
<1>. QED BY <1>3, <1>4, Steps DEF Step

(* Until requests overlap on it, one breaks off or a repeated key sends it  *)
(* back, an instance goes the way the header of the engine promises,        *)
(* whatever becomes of the others: its nodes in order, left when one or all *)
(* have agreed, one outcome, kept.                                          *)
THEOREM PromiseKept == Spec => ApprovalSpec
<1>. DEFINE IInv == Shape /\ Overlaps /\ Orderly /\ Bounded
<1>1. Init => Promise!Init
  <2>1. ASSUME Init PROVE Started = {} /\ crowded = {} /\ spoiled = {} /\ returned = {}
    BY <2>1, EmptySeq DEF Init, Started
  <2>2. ASSUME Init, NEW i \in 1 .. MaxEvents PROVE FlowOf(i) = Promise!NotStarted
    BY <2>1, <2>2 DEF Promise!NotStarted, FlowOf, Agreed
  <2>. QED BY <2>1, <2>2 DEF Promise!Init
<1>2. IInv /\ IInv' /\ [Next]_vars
        => [Promise!Next]_<<[i \in 1 .. MaxEvents |-> FlowOf(i)], (crowded \cup spoiled \cup returned) \ {0}>>
  <2>1. CASE UNCHANGED vars
    <3>1. UNCHANGED <<insts, said, crowded, spoiled, returned>>
      BY <2>1 DEF vars, rows, history
    <3>. QED BY <3>1 DEF FlowOf, Started, Agreed
  <2>. QED BY <2>1, PromiseStep
<1>3. IInv /\ [Next]_vars => IInv'
  <2>1. UNCHANGED vars /\ Bounded => Bounded'
    BY DEF vars, rows, Bounded
  <2>. QED BY <2>1, ShapeStep, ShapeStutter, OverlapsStep, OverlapsStutter, OrderlyStep,
              OrderlyStutter, BoundedStep
<1>4. Init => IInv
  <2>1. Init => Bounded
    BY EmptySeq, FlowEngineAssumption DEF Init, Bounded
  <2>. QED BY <2>1, ShapeInit, OverlapsInit, OrderlyInit
<1>. HIDE DEF IInv
<1>. QED BY <1>1, <1>2, <1>3, <1>4, PTL DEF Spec, ApprovalSpec, Promise!Spec

=============================================================================
