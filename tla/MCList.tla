-------------------------------- MODULE MCList --------------------------------
(* Two lists, so that one may be joined to the other, over four nodes.  Which   *)
(* list and which node it is makes no difference.                              *)
EXTENDS List

CONSTANTS l1, l2, n1, n2, n3, n4

TwoLists == {l1, l2}
FourNodes == {n1, n2, n3, n4}
Names == Permutations(TwoLists) \cup Permutations(FourNodes)
===============================================================================
