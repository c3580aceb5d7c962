---------------------------- MODULE MCSharedMemory ----------------------------
(* Two processes that own and two that only open; those of a kind are alike.   *)
EXTENDS SharedMemory, TLC

CONSTANTS o1, o2, g1, g2

TwoOwners == {o1, o2}
TwoGuests == {g1, g2}
Processes == Permutations(TwoOwners) \cup Permutations(TwoGuests)
===============================================================================
