------------------------- MODULE FlowWaitingProofs -------------------------
(***************************************************************************)
(* No running instance is left with nobody to act on it: NotStranded, for  *)
(* every number of threads, every list of nodes, and every bound.          *)
(***************************************************************************)
EXTENDS FlowEngineProofs

-----------------------------------------------------------------------------
(* The inductive invariant, part by part.                                   *)

\* statements from which a request always leaves somebody to act on its instance
Working == {"max", "tasks", "cancel", "end", "vars", "define", "count", "skipNode",
            "advance", "finish"}

HasPending(i) == \E t \in TaskId : tasks[t].inst = i /\ tasks[t].status = "pending"
Holds(r, i) == req[r].inst = i /\ req[r].pc \in Working
InHand(i) == \E r \in Thread : Holds(r, i)
Attended(i) == HasPending(i) \/ InHand(i)

Waiting(i) == i \in Started \ spoiled /\ insts[i].status = "running"

\* only a definition that is not usable makes an instance without a node; and the
\* pending tasks of a whole instance are skipped only once it has ended
Prepared(r) ==
  /\ At(r, "insert") /\ req[r].node = 0 => def # "usable"
  /\ At(r, "max") /\ req[r].node = 0 => req[r].inst \in spoiled \cup {0}
  /\ At(r, "skipAll") => req[r].inst \in spoiled \/ insts[req[r].inst].status # "running"

Watched ==
  /\ \A i \in Started : Waiting(i) => Attended(i)
  /\ def # "usable" => Started \subseteq spoiled
  /\ \A r \in Thread : Prepared(r)

-----------------------------------------------------------------------------
(* What does not go back.                                                   *)

LEMMA DefinitionLost ==
  ASSUME Next, def # "usable"
  PROVE  def' # "usable"
<1>1. ASSUME NEW r \in Thread, NEW ok \in BOOLEAN, ReadStep(r, ok) PROVE def' = def
  BY <1>1 DEF ReadStep, Start, SelectInstance, BreakOff, Cancel, SelectTask, SelectMaxId,
              SelectDefinition, CountPending, Note, history
<1>2. ASSUME NEW r \in Thread, NEW ok \in BOOLEAN, WriteStep(r, ok) PROVE def' = def
  BY <1>2 DEF WriteStep, InsertInstance, CreateNodeTask, EndStep, EndInstance, SkipAll,
              MarkApproved, MarkRejected, AppendVars, SkipNode, Advance, Note
<1>. QED BY <1>1, <1>2, Steps DEF LoseDefinition

LEMMA EndedForGood ==
  ASSUME Shape, Next, NEW i \in Started, insts'[i].status = "running"
  PROVE  insts[i].status = "running"
<1>1. ASSUME NEW r \in Thread, NEW ok \in BOOLEAN, InstWrite(r, ok)
      PROVE  insts[i].status = "running"
  <2>1. CASE InsertInstance(r, ok)
    BY <2>1, InsertEffect
  <2>2. CASE EndStep(r, ok)
    BY <2>2, EndEffect DEF EndStep, InstBecomes, Ended
  <2>3. CASE AppendVars(r, ok)
    BY <2>3, AppendEffect DEF InstBecomes
  <2>4. CASE Advance(r, ok)
    BY <2>4, AdvanceEffect DEF InstBecomes
  <2>. QED BY <1>1, <2>1, <2>2, <2>3, <2>4 DEF InstWrite
<1>. QED BY <1>1, Steps, Writes, ReadsLeaveRows DEF rows, LoseDefinition

LEMMA WaitedBefore ==
  ASSUME Shape, Watched, Next, NEW i \in Started, Waiting(i)'
  PROVE  Waiting(i) /\ Attended(i)
<1>1. i \notin spoiled /\ insts'[i].status = "running"
  BY StepGrows DEF Waiting, Grown
<1>2. Waiting(i)
  BY <1>1, EndedForGood DEF Waiting
<1>. QED BY <1>2 DEF Watched

-----------------------------------------------------------------------------
(* Somebody remains: the pending task, another request, or the one acting.  *)

LEMMA OthersHold ==
  ASSUME NEW r \in Thread, Acted(r), NEW i, Attended(i),
         HasPending(i) => Attended(i)',
         Holds(r, i) => Attended(i)'
  PROVE  Attended(i)'
<1>1. ASSUME NEW q \in Thread \ {r}, Holds(q, i) PROVE Attended(i)'
  BY <1>1 DEF Acted, Holds, InHand, Attended
<1>. QED BY <1>1 DEF Attended, InHand

LEMMA PendingSame ==
  ASSUME UNCHANGED tasks, NEW i, HasPending(i)
  PROVE  Attended(i)'
BY DEF HasPending, Attended, TaskId

LEMMA HoldsGoes ==
  ASSUME NEW r \in Thread, NEW pc \in Working, Goes(r, pc), NEW i, req[r].inst = i
  PROVE  Attended(i)'
BY DEF Goes, Now, Attended, InHand, Holds

LEMMA HoldsNow ==
  ASSUME NEW r \in Thread, NEW pc \in Working, NEW i, NEW t, NEW k, NEW l, NEW s,
         Now(r, pc, i, t, k, l, s)
  PROVE  Attended(i)'
BY DEF Now, Attended, InHand, Holds

LEMMA PendingSpared ==
  ASSUME NEW ts, NEW status, PutStatus(ts, status), NEW i, HasPending(i),
         \A t \in ts \cap TaskId : tasks[t].inst # i
  PROVE  Attended(i)'
<1>1. PICK t \in TaskId : tasks[t].inst = i /\ tasks[t].status = "pending"
  BY DEF HasPending
<1>2. t \in TaskId' /\ tasks'[t].inst = i /\ tasks'[t].status = "pending"
  BY <1>1 DEF PutStatus
<1>. QED BY <1>2 DEF Attended, HasPending

LEMMA ReadsAttend ==
  ASSUME Shape, Watched, Grown, NEW r \in Thread, NEW ok \in BOOLEAN, ReadStep(r, ok),
         NEW i \in Started, Waiting(i), Attended(i), i \notin spoiled'
  PROVE  Attended(i)'
<1>1. /\ Typed /\ Acted(r) /\ UNCHANGED tasks /\ i \notin spoiled /\ i # 0
  BY ReadActed, ReadsLeaveRows DEF rows, Shape, Waiting, Started
<1>2. ASSUME Holds(r, i) PROVE Attended(i)'
  <2>1. CASE SelectMaxId(r, ok)
    <3>1. ok /\ Len(insts) = i
      BY <1>1, <1>2, <2>1 DEF SelectMaxId, NewestId, Holds
    <3>2. req[r].node # 0
      BY <1>1, <1>2, <2>1 DEF Watched, Prepared, Holds, SelectMaxId
    <3>3. Now(r, "tasks", Len(insts), req[r].task, 1, Assignees[1], req[r].seen)
      BY <2>1, <3>1, <3>2, MaxReq
    <3>. QED BY <3>1, <3>3, HoldsNow DEF Working
  <2>2. CASE SelectDefinition(r, ok)
    <3>1. ok /\ def = "usable"
      BY <1>1, <1>2, <2>2 DEF SelectDefinition, Note, Holds, Watched
    <3>2. Goes(r, "count")
      BY <1>1, <2>2, <3>1, NowGoes DEF SelectDefinition, Pc, Asking
    <3>. QED BY <1>2, <3>2, HoldsGoes DEF Working, Holds
  <2>3. CASE CountPending(r, ok)
    <3>1. CASE NodeDone(r, ok)
      <4>1. Goes(r, "skipNode")
        BY <1>1, <2>3, <3>1, NowGoes DEF CountPending, Pc, Asking
      <4>. QED BY <1>2, <4>1, HoldsGoes DEF Working, Holds
    <3>2. CASE ~NodeDone(r, ok)
      <4>1. PICK t \in Pending(req[r].inst, req[r].node) : TRUE
        BY <3>2 DEF NodeDone
      <4>2. HasPending(i)
        BY <1>2, <4>1 DEF Pending, OfNode, OfInstance, HasPending, Holds
      <4>. QED BY <1>1, <4>2, PendingSame
    <3>. QED BY <3>1, <3>2
  <2>4. CASE BreakOff(r)
    BY <1>1, <1>2, <2>4 DEF BreakOff, Holds
  <2>5. req[r].pc \notin {"idle", "instance"}
    BY <1>2 DEF Holds, Working
  <2>6. ~ (\/ Start(r) \/ SelectInstance(r)
           \/ \E j \in Started : Cancel(r, j)
           \/ \E t \in TaskId : SelectTask(r, t))
    BY <2>5 DEF Start, SelectInstance, Cancel, SelectTask, At
  <2>. QED BY <2>1, <2>2, <2>3, <2>4, <2>6 DEF ReadStep
<1>. QED BY <1>1, <1>2, OthersHold, PendingSame

LEMMA InstWritesAttend ==
  ASSUME Shape, Watched, Grown, NEW r \in Thread, NEW ok \in BOOLEAN, InstWrite(r, ok),
         UNCHANGED tasks, NEW i \in Started, Waiting(i), Attended(i), Waiting(i)'
  PROVE  Attended(i)'
<1>1. Typed /\ Acted(r) /\ i \notin spoiled'
  BY WriteActed DEF WriteStep, InstWrite, Shape, Waiting
<1>2. ASSUME Holds(r, i) PROVE Attended(i)'
  <2>1. CASE InsertInstance(r, ok)
    BY <1>2, <2>1 DEF InsertInstance, At, Holds, Working
  <2>2. CASE EndStep(r, ok)
    <3>1. ok
      BY <1>1, <1>2, <2>2 DEF EndStep, EndInstance, Note, Holds
    <3>2. insts'[i].status \in Ended
      BY <1>2, <2>2, <3>1, EndEffect DEF EndStep, InstBecomes, Ended, Holds
    <3>. QED BY <3>2 DEF Waiting, Ended
  <2>3. CASE AppendVars(r, ok)
    <3>1. Goes(r, "define")
      BY <1>1, <2>3, NowGoes DEF AppendVars, Pc, Asking
    <3>. QED BY <1>2, <3>1, HoldsGoes DEF Working, Holds
  <2>4. CASE Advance(r, ok)
    <3>. DEFINE k == req[r].node + 1
    <3>1. Now(r, "tasks", i, req[r].task, keys[k], Assignees[k], req[r].seen)
      BY <1>2, <2>4, AdvanceReq DEF Holds
    <3>. HIDE DEF k
    <3>. QED BY <3>1, HoldsNow DEF Working
  <2>. QED BY <2>1, <2>2, <2>3, <2>4 DEF InstWrite
<1>. QED BY <1>1, <1>2, OthersHold, PendingSame

LEMMA CreateAttends ==
  ASSUME Shape, NEW r \in Thread, NEW ok \in BOOLEAN, CreateNodeTask(r, ok), Acted(r),
         NEW i \in Started, Attended(i), i \notin spoiled'
  PROVE  Attended(i)'
<1>1. ASSUME HasPending(i) PROVE Attended(i)'
  <2>1. PICK t \in TaskId : tasks[t].inst = i /\ tasks[t].status = "pending"
    BY <1>1 DEF HasPending
  <2>2. t \in TaskId' /\ tasks'[t] = tasks[t]
    BY <2>1, CreateEffect DEF TaskId
  <2>. QED BY <2>1, <2>2 DEF HasPending, Attended
<1>2. ASSUME Holds(r, i) PROVE Attended(i)'
  <2>1. ok
    BY <1>2 DEF CreateNodeTask, Note, Holds
  <2>2. /\ Len(tasks) + 1 \in TaskId' /\ tasks'[Len(tasks) + 1].inst = i
        /\ tasks'[Len(tasks) + 1].status = "pending"
    BY <1>2, <2>1, CreateEffect DEF Holds
  <2>. QED BY <2>2 DEF HasPending, Attended
<1>. QED BY <1>1, <1>2, OthersHold

LEMMA SkipsAttend ==
  ASSUME Shape, Watched, NEW r \in Thread, NEW ok \in BOOLEAN, Acted(r),
         SkipAll(r, ok) \/ SkipNode(r, ok), NEW i \in Started, Waiting(i), Attended(i)
  PROVE  Attended(i)'
<1>1. Typed
  BY DEF Shape
<1>2. CASE SkipNode(r, ok) /\ req[r].inst = i
  <2>1. \E pc \in {"advance", "finish"} : Goes(r, pc)
    BY <1>1, <1>2, NowGoes DEF SkipNode, Pc, Asking
  <2>. QED BY <1>2, <2>1, HoldsGoes DEF Working
<1>3. CASE req[r].inst # i
  <2>1. ~Holds(r, i)
    BY <1>3 DEF Holds
  <2>2. PICK ts : /\ ts \subseteq OfInstance(req[r].inst)
                  /\ tasks' = IF ok THEN SkipPending(ts) ELSE tasks
    BY DEF SkipAll, SkipNode, OfNode
  <2>3. PutStatus(Hit(ts, ok), "skipped")
    BY <1>1, <2>2, SkipEffect
  <2>4. \A t \in Hit(ts, ok) : tasks[t].inst # i
    BY <1>3, <2>2 DEF Hit, OfInstance
  <2>. QED BY <2>1, <2>3, <2>4, PendingSpared, OthersHold
<1>4. CASE SkipAll(r, ok) /\ req[r].inst = i
  BY <1>4 DEF SkipAll, At, Waiting, Watched, Prepared
<1>. QED BY <1>2, <1>3, <1>4

LEMMA MarksAttend ==
  ASSUME Shape, NEW r \in Thread, NEW ok \in BOOLEAN, Acted(r),
         MarkApproved(r, ok) \/ MarkRejected(r, ok), NEW i \in Started, Attended(i)
  PROVE  Attended(i)'
<1>1. Typed
  BY DEF Shape
<1>2. CASE req[r].inst = i
  <2>1. \E pc \in {"vars", "define", "end"} : Goes(r, pc)
    BY <1>1, NowGoes DEF MarkApproved, MarkRejected, Pc, Asking, Ending
  <2>. QED BY <1>2, <2>1, HoldsGoes DEF Working
<1>3. CASE req[r].inst # i
  <2>1. ~Holds(r, i)
    BY <1>3 DEF Holds
  <2>2. /\ req[r].inst = tasks[req[r].task].inst
        /\ \E status : PutStatus(IF ok THEN {req[r].task} ELSE {}, status)
    BY MarkEffect DEF MarkApproved, MarkRejected, At, TaskStatus
  <2>3. \A t \in (IF ok THEN {req[r].task} ELSE {}) : tasks[t].inst # i
    BY <1>3, <2>2
  <2>. QED BY <2>1, <2>2, <2>3, PendingSpared, OthersHold
<1>. QED BY <1>2, <1>3

LEMMA StartedAttended ==
  ASSUME Shape, Watched, NEW r \in Thread, NEW ok \in BOOLEAN, InsertInstance(r, ok),
         NEW i \in Started' \ Started
  PROVE  Attended(i)'
<1>1. Typed /\ i = Len(insts) + 1 /\ ok
  BY InsertEffect DEF Shape, Started
<1>2. Now(r, "max", i, req[r].task, req[r].node, req[r].left, req[r].seen)
  BY <1>1, InsertReq
<1>. QED BY <1>2, HoldsNow DEF Working

LEMMA StepAttends ==
  ASSUME Shape, Watched, Next, NEW i \in Started', Waiting(i)'
  PROVE  Attended(i)'
<1>1. Grown
  BY StepGrows
<1>2. CASE i \in Started
  <2>1. Waiting(i) /\ Attended(i) /\ i \notin spoiled'
    BY <1>2, WaitedBefore DEF Waiting
  <2>2. ASSUME NEW r \in Thread, NEW ok \in BOOLEAN, ReadStep(r, ok) PROVE Attended(i)'
    BY <1>1, <1>2, <2>1, <2>2, ReadsAttend
  <2>3. ASSUME NEW r \in Thread, NEW ok \in BOOLEAN, WriteStep(r, ok) PROVE Attended(i)'
    <3>1. Acted(r)
      BY <1>1, <2>3, WriteActed
    <3>2. CASE InstWrite(r, ok) /\ UNCHANGED tasks
      BY <1>1, <1>2, <2>1, <3>2, InstWritesAttend
    <3>3. CASE TaskWrite(r, ok)
      BY <1>2, <2>1, <3>1, <3>3, CreateAttends, SkipsAttend, MarksAttend DEF TaskWrite
    <3>. QED BY <2>3, <3>2, <3>3, Writes
  <2>4. CASE LoseDefinition
    BY <1>2, <2>1, <2>4 DEF LoseDefinition
  <2>. QED BY <2>2, <2>3, <2>4, Steps
<1>3. CASE i \notin Started
  <2>1. ASSUME NEW r \in Thread, NEW ok \in BOOLEAN, InstWrite(r, ok), ~InsertInstance(r, ok)
        PROVE  Started' = Started
    BY <2>1, EndEffect, AppendEffect, AdvanceEffect DEF InstWrite, EndStep, InstBecomes, Ended
  <2>2. CASE UNCHANGED insts
    BY <1>3, <2>2 DEF Started
  <2>. QED BY <1>3, <2>1, <2>2, Steps, Writes, ReadsLeaveRows, StartedAttended
       DEF rows, LoseDefinition
<1>. QED BY <1>2, <1>3

-----------------------------------------------------------------------------
(* The rest of the invariant.                                               *)

LEMMA SpoiledWithDefinition ==
  ASSUME Shape, Watched, Next, def' # "usable"
  PROVE  Started' \subseteq spoiled'
<1>1. Grown
  BY StepGrows
<1>2. ASSUME NEW r \in Thread, NEW ok \in BOOLEAN, ReadStep(r, ok)
      PROVE  Started' = Started /\ def' = def
  BY <1>2 DEF ReadStep, Start, SelectInstance, BreakOff, Cancel, SelectTask, SelectMaxId,
              SelectDefinition, CountPending, Note, history, rows, Started
<1>3. ASSUME NEW r \in Thread, NEW ok \in BOOLEAN, WriteStep(r, ok), ~InsertInstance(r, ok)
      PROVE  Started' = Started /\ def' = def
  <2>1. def' = def
    BY <1>3 DEF WriteStep, CreateNodeTask, EndStep, EndInstance, SkipAll, MarkApproved,
                MarkRejected, AppendVars, SkipNode, Advance, Note
  <2>2. CASE UNCHANGED insts
    BY <2>1, <2>2 DEF Started
  <2>3. CASE InstWrite(r, ok)
    BY <1>3, <2>1, <2>3, EndEffect, AppendEffect, AdvanceEffect
    DEF InstWrite, EndStep, InstBecomes, Ended
  <2>. QED BY <1>3, <2>2, <2>3, Writes
<1>4. ASSUME NEW r \in Thread, NEW ok \in BOOLEAN, InsertInstance(r, ok)
      PROVE  Started' \subseteq spoiled'
  <2>1. def' = def
    BY <1>4 DEF InsertInstance
  <2>2. CASE ok
    <3>1. Started' = Started \cup {Len(insts) + 1} /\ Len(insts) + 1 \in spoiled'
      BY <1>4, <2>1, <2>2, InsertEffect DEF InsertInstance
    <3>. QED BY <1>1, <2>1, <3>1 DEF Watched, Grown
  <2>3. CASE ~ok
    BY <1>1, <1>4, <2>1, <2>3, InsertEffect DEF Watched, Grown, Started
  <2>. QED BY <2>2, <2>3
<1>5. CASE LoseDefinition
  BY <1>5 DEF LoseDefinition, rows, Started
<1>. QED BY <1>1, <1>2, <1>3, <1>4, <1>5, Steps DEF Watched, Grown

LEMMA PreparedKept ==
  ASSUME Shape, Watched, Next, NEW q \in Thread, req'[q] = req[q]
  PROVE  Prepared(q)'
<1>1. Prepared(q) /\ Grown /\ Placed(q)
  BY StepGrows DEF Watched, Shape, AllPlaced
<1>2. At(q, "insert") /\ req[q].node = 0 => def' # "usable"
  BY <1>1, DefinitionLost DEF Prepared
<1>3. At(q, "max") /\ req[q].node = 0 => req[q].inst \in spoiled' \cup {0}
  BY <1>1 DEF Prepared, Grown
<1>4. At(q, "skipAll") => req[q].inst \in spoiled' \/ insts'[req[q].inst].status # "running"
  BY <1>1, EndedForGood DEF Prepared, Grown, Placed, At, Ending
<1>. QED BY <1>2, <1>3, <1>4 DEF Prepared, At

LEMMA PreparedOther ==
  ASSUME NEW r \in Thread, req'[r].pc \notin {"insert", "max", "skipAll"}
  PROVE  Prepared(r)'
BY DEF Prepared, At

LEMMA PreparedActing ==
  ASSUME Shape, Watched, Next, NEW r \in Thread, NEW ok \in BOOLEAN, Step(r, ok)
  PROVE  Prepared(r)'
<1>1. Typed
  BY DEF Shape
<1>2. ASSUME Ends(r) PROVE Prepared(r)'
  BY <1>2, PreparedOther DEF Ends, Now
<1>3. ASSUME NEW pc \in Pc \ {"insert", "max", "skipAll"}, GoTo(r, pc) PROVE Prepared(r)'
  BY <1>1, <1>3, NowGoes, PreparedOther DEF Goes, Now
<1>4. CASE Start(r)
  <2>1. req'[r].pc = "insert" /\ req'[r].node = FirstNode /\ def' = def
    BY <1>1, <1>4, StartReq DEF Now, Start
  <2>. QED BY <2>1 DEF Prepared, At, FirstNode
<1>5. CASE InsertInstance(r, ok)
  <2>1. /\ req'[r].pc = "max" /\ req'[r].inst = (IF ok THEN Len(insts) + 1 ELSE 0)
        /\ req'[r].node = req[r].node
    BY <1>1, <1>5, InsertReq DEF Now
  <2>2. req[r].node = 0 => def # "usable"
    BY <1>5 DEF InsertInstance, Watched, Prepared
  <2>3. ok /\ def # "usable" => Len(insts) + 1 \in spoiled'
    BY <1>5 DEF InsertInstance
  <2>. QED BY <2>1, <2>2, <2>3 DEF Prepared, At
<1>6. CASE EndStep(r, ok)
  <2>1. CASE EndInstance(r, "finish", "approved", "idle", ok)
    BY <1>1, <1>2, <2>1, NowEnds DEF EndInstance
  <2>2. ASSUME NEW pc \in {"cancel", "end"}, NEW outcome \in Ended \ {"approved"},
               EndInstance(r, pc, outcome, "skipAll", ok)
        PROVE  Prepared(r)'
    <3>1. req'[r].pc = "skipAll" /\ req'[r].inst = req[r].inst
      BY <1>1, <2>2, NowGoes DEF EndInstance, Pc, Ending, Goes, Now
    <3>2. ok => insts'[req[r].inst].status # "running"
      BY <2>2, EndEffect DEF InstBecomes, Ended
    <3>3. ~ok => req[r].inst \in spoiled'
      BY <2>2 DEF EndInstance, Note
    <3>. QED BY <3>1, <3>2, <3>3 DEF Prepared, At
  <2>. QED BY <1>6, <2>1, <2>2 DEF EndStep, Ended
<1>7. CASE ReadStep(r, ok)
  <2>1. CASE SelectInstance(r)
    BY <1>1, <1>2, <2>1, SelectInstanceReq, PreparedOther DEF Now
  <2>2. CASE BreakOff(r)
    BY <1>1, <1>2, <2>2, NowEnds DEF BreakOff
  <2>3. CASE \E i \in Started : Cancel(r, i)
    BY <1>1, <2>3, CancelReq, PreparedOther DEF Now
  <2>4. CASE \E t \in TaskId : SelectTask(r, t)
    BY <1>1, <2>4, SelectTaskReq, PreparedOther DEF Now
  <2>5. CASE SelectMaxId(r, ok)
    BY <1>2, <2>5, MaxReq, PreparedOther DEF Now
  <2>6. CASE SelectDefinition(r, ok)
    BY <1>1, <1>2, <1>3, <2>6, NowEnds DEF SelectDefinition, Pc, Asking
  <2>7. CASE CountPending(r, ok)
    BY <1>1, <1>2, <1>3, <2>7, NowEnds DEF CountPending, Pc, Asking
  <2>. QED BY <1>4, <1>7, <2>1, <2>2, <2>3, <2>4, <2>5, <2>6, <2>7 DEF ReadStep
<1>8. CASE WriteStep(r, ok)
  <2>1. CASE CreateNodeTask(r, ok)
    BY <1>2, <2>1, CreateReq, PreparedOther DEF Now
  <2>2. CASE SkipAll(r, ok)
    BY <1>1, <1>2, <2>2, NowEnds DEF SkipAll
  <2>3. CASE MarkApproved(r, ok)
    BY <1>3, <2>3 DEF MarkApproved, Pc, Asking
  <2>4. CASE MarkRejected(r, ok)
    BY <1>3, <2>4 DEF MarkRejected, Pc, Ending
  <2>5. CASE AppendVars(r, ok)
    BY <1>3, <2>5 DEF AppendVars, Pc, Asking
  <2>6. CASE SkipNode(r, ok)
    BY <1>3, <2>6 DEF SkipNode, Pc, Asking
  <2>7. CASE Advance(r, ok)
    BY <2>7, AdvanceReq, PreparedOther DEF Now
  <2>. QED BY <1>5, <1>6, <1>8, <2>1, <2>2, <2>3, <2>4, <2>5, <2>6, <2>7 DEF WriteStep
<1>. QED BY <1>7, <1>8 DEF Step

LEMMA WatchedStep ==
  ASSUME Shape, Watched, Next
  PROVE  Watched'
<1>1. \A q \in Thread : Prepared(q)'
  <2>1. ASSUME NEW r \in Thread, NEW ok \in BOOLEAN, Step(r, ok)
        PROVE  \A q \in Thread : Prepared(q)'
    <3>1. \A q \in Thread \ {r} : req'[q] = req[q]
      BY <2>1, StepGrows, StepActed DEF Acted
    <3>. QED BY <2>1, <3>1, PreparedKept, PreparedActing
  <2>2. CASE LoseDefinition
    BY <2>2, PreparedKept DEF LoseDefinition
  <2>. QED BY <2>1, <2>2, Steps DEF Step
<1>2. \A i \in Started' : Waiting(i)' => Attended(i)'
  BY StepAttends
<1>. QED BY <1>1, <1>2, SpoiledWithDefinition DEF Watched

LEMMA WatchedInit ==
  ASSUME Init
  PROVE  Watched
<1>1. Started = {} /\ def = "usable" /\ \A r \in Thread : req[r].pc = "idle"
  BY EmptySeq DEF Init, Started, Idle
<1>. QED BY <1>1 DEF Watched, Prepared, At

LEMMA WatchedStutter ==
  ASSUME Watched, UNCHANGED vars
  PROVE  Watched'
BY DEF vars, rows, history, Watched, Waiting, Attended, HasPending, InHand, Holds, Prepared, At,
       Started, TaskId

(* A running instance nobody is working on waits for somebody: of any       *)
(* number of approvals that count the pending tasks at the same time, one   *)
(* goes on to the next node, and a rejection or a cancellation that skips   *)
(* the tasks has ended the instance first.                                  *)
THEOREM NobodyStranded == Spec => []NotStranded
<1>1. Shape /\ Watched => NotStranded
  BY DEF Watched, Waiting, Attended, HasPending, InHand, Holds, NotStranded, Busy, Working
<1>2. Shape /\ Watched /\ [Next]_vars => Shape' /\ Watched'
  BY ShapeStep, ShapeStutter, WatchedStep, WatchedStutter
<1>. QED BY <1>1, <1>2, ShapeInit, WatchedInit, PTL DEF Spec
=============================================================================
