---------------------------- MODULE WriteLedger ----------------------------
(***************************************************************************)
(* What the database layer promises of every write it is handed: a write   *)
(* reaches PostgreSQL, or waits in the replay queue, or is given up in one *)
(* of the three ways the service reports (queue full, retries exhausted,   *)
(* process ended with the queue in memory).  A write that has reached one  *)
(* of the final states never leaves it, and no write becomes anything but  *)
(* by one of these steps.                                                  *)
(***************************************************************************)
CONSTANT Write          \* the writes callers may issue

VARIABLE status         \* status[w]: what has become of write w

Final  == {"synced", "dropped", "dead", "lost"}
Status == {"none", "queued"} \cup Final

Init == status = [w \in Write |-> "none"]

Become(w, from, to) ==
  /\ status[w] \in from
  /\ status' = [status EXCEPT ![w] = to]

Apply(w)      == Become(w, {"none", "queued"}, "synced")
Queue(w)      == Become(w, {"none"}, "queued")
Drop(w)       == Become(w, {"none"}, "dropped")
DeadLetter(w) == Become(w, {"queued"}, "dead")

\* The queue lives in memory: the end of the process loses all of it.
Crash ==
  status' = [w \in Write |-> IF status[w] = "queued" THEN "lost" ELSE status[w]]

Next ==
  \/ \E w \in Write : Apply(w) \/ Queue(w) \/ Drop(w) \/ DeadLetter(w)
  \/ Crash

Spec == Init /\ [][Next]_status
=============================================================================
