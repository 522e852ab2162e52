---------------------------- MODULE MCFlowEngine ----------------------------
(* Instances of FlowEngine for TLC: a node at which two have to agree, then  *)
(* one at which one of them is enough.  Threads are interchangeable.         *)
EXTENDS FlowEngine, TLC

BothThenOne == << <<1, 2>>, <<1>> >>
OnlyFirst == {1}

ThreadSymmetry == Permutations(Thread)
=============================================================================
