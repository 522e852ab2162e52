--------------------------- MODULE MCJobScheduler ---------------------------
(* Instances of JobScheduler for TLC.  Threads are numbered, nodes are       *)
(* interchangeable model values.                                            *)
EXTENDS JobScheduler, TLC

CONSTANTS n1, n2

OneNode  == {n1}
TwoNodes == {n1, n2}
OneJob   == {1}
TwoThreads == 1 .. 2
ThreeThreads == 1 .. 3

NodeSymmetry == Permutations(TwoNodes)
=============================================================================
