------------------------------ MODULE TaskLife ------------------------------
(***************************************************************************)
(* What the task queue promises of a background task: it waits, is run,    *)
(* and then is done, or waits for another attempt, or is dead after its    *)
(* last one; a dead task waits again only when the operator says so.  The  *)
(* promise covers a task until it is set adrift: by a fault that met it,   *)
(* or by commands of two processes that crossed.                           *)
(***************************************************************************)
EXTENDS Integers

CONSTANTS
  Task,        \* task ids
  MaxRetries   \* attempts a task is given

VARIABLES
  life,        \* life[t]: new, waiting, running, done or dead
  attempts,    \* attempts[t]: how often t was run since it was last submitted
  adrift       \* the tasks that are set adrift

lifeVars == <<life, attempts, adrift>>

Init ==
  /\ life = [t \in Task |-> "new"]
  /\ attempts = [t \in Task |-> 0]
  /\ adrift = {}

Change(t, from, to, n) ==
  /\ t \notin adrift /\ life[t] = from
  /\ life' = [life EXCEPT ![t] = to]
  /\ attempts' = [attempts EXCEPT ![t] = n]
  /\ UNCHANGED adrift

Submit(t)  == Change(t, "new", "waiting", 0)
Run(t)     == Change(t, "waiting", "running", attempts[t] + 1)
Succeed(t) == Change(t, "running", "done", attempts[t])
Retry(t)   == attempts[t] < MaxRetries /\ Change(t, "running", "waiting", attempts[t])
Bury(t)    == attempts[t] >= MaxRetries /\ Change(t, "running", "dead", attempts[t])
Revive(t)  == Change(t, "dead", "waiting", 0)

SetAdrift(ts) ==
  /\ adrift' = adrift \cup ts
  /\ \A t \in Task \ adrift' : life'[t] = life[t] /\ attempts'[t] = attempts[t]

Next ==
  \/ \E t \in Task :
       Submit(t) \/ Run(t) \/ Succeed(t) \/ Retry(t) \/ Bury(t) \/ Revive(t)
  \/ \E ts \in SUBSET Task : SetAdrift(ts)

Spec == Init /\ [][Next]_lifeVars
=============================================================================
