---------------------------- MODULE MCReconciler ----------------------------
(* Instances of Reconciler: two algorithms that do not fit together on the node, and *)
(* one that keeps a hot worker.                                                      *)
EXTENDS Reconciler

CONSTANTS A, B

AlgOfTwo == [i \in Ids |-> IF i = 1 THEN A ELSE B]
AlgOfOne == [i \in Ids |-> A]
Sizes == [a \in Algorithms |-> IF a = A THEN 2 ELSE 1]
NoneHot == [a \in Algorithms |-> 0]
OneHot == [a \in Algorithms |-> 1]
OneEach == [a \in Algorithms |-> 1]
TwoEach == [a \in Algorithms |-> 2]
=============================================================================
