----------------------------- MODULE MCSessions -----------------------------
(* Instances of Sessions for TLC.  Threads are interchangeable.             *)
EXTENDS Sessions, TLC

Symmetry == Permutations(Thread) \cup Permutations(Node)
=============================================================================
