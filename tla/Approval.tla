------------------------------ MODULE Approval ------------------------------
(***************************************************************************)
(* What the approval workflow promises (flow/FlowEngine.h, its header): an *)
(* instance goes through its nodes in order, leaves a node when one        *)
(* assignee has agreed (any) or all have (all), ends once, and keeps its   *)
(* outcome.  The promise covers an instance until it is set loose: the     *)
(* engine takes no lock, so requests that overlap on one instance, and     *)
(* requests that break off half way, are outside it.                       *)
(***************************************************************************)
EXTENDS Integers, Sequences

CONSTANTS
  Instance,    \* instance ids
  Assignees,   \* Assignees[k]: the assignees of node k, in order
  AllNodes     \* the nodes at which all assignees have to agree

VARIABLES
  flow,        \* flow[i]: status, node, and who has agreed at that node
  loose        \* the instances that are set loose

Outcome == {"approved", "rejected", "canceled"}
Last == Len(Assignees)
People(k) == {Assignees[k][a] : a \in DOMAIN Assignees[k]}

NotStarted == [status |-> "none", node |-> 0, yes |-> {}]

Satisfied(k, yes) == IF k \in AllNodes THEN People(k) \subseteq yes ELSE yes # {}

Init == flow = [i \in Instance |-> NotStarted] /\ loose = {}

\* the one instance that changes, and what it becomes
Becomes(i, new) == flow' = [flow EXCEPT ![i] = new] /\ UNCHANGED loose

Running(i) == i \notin loose /\ flow[i].status = "running"

Start(i) ==
  /\ i \notin loose /\ flow[i] = NotStarted
  /\ Becomes(i, [status |-> "running", node |-> 1, yes |-> {}])

Agree(i) ==
  /\ Running(i)
  /\ \E u \in People(flow[i].node) : Becomes(i, [flow[i] EXCEPT !.yes = @ \cup {u}])

Advance(i) ==
  /\ Running(i) /\ flow[i].node < Last
  /\ Satisfied(flow[i].node, flow[i].yes)
  /\ Becomes(i, [flow[i] EXCEPT !.node = @ + 1, !.yes = {}])

Approve(i) ==
  /\ Running(i) /\ flow[i].node = Last
  /\ Satisfied(Last, flow[i].yes)
  /\ Becomes(i, [flow[i] EXCEPT !.status = "approved"])

Stop(i) ==
  /\ Running(i)
  /\ \E s \in {"rejected", "canceled"} : Becomes(i, [flow[i] EXCEPT !.status = s])

\* nothing is promised of these instances any more
Loosen(is) ==
  /\ loose' = loose \cup is
  /\ \A i \in Instance \ loose' : flow'[i] = flow[i]

Next ==
  \/ \E i \in Instance : Start(i) \/ Agree(i) \/ Advance(i) \/ Approve(i) \/ Stop(i)
  \/ \E is \in SUBSET Instance : Loosen(is)

Spec == Init /\ [][Next]_<<flow, loose>>
=============================================================================
