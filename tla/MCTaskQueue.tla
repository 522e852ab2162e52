---------------------------- MODULE MCTaskQueue ----------------------------
(* Instances of TaskQueue for TLC.                                          *)
EXTENDS TaskQueue

\* every task is submitted to one process; the other's threads meet it in Redis
OneHome == [t \in Task |-> CHOOSE p \in Process : TRUE]
=============================================================================
