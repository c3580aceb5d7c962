------------------------------- MODULE Broadcast -------------------------------
(***************************************************************************)
(* What a ring promises its readers, whatever it does with slots and       *)
(* cursors: items are published one after the other, and each reader is    *)
(* handed the published items in order, one at a time, skipping none and   *)
(* none twice.                                                             *)
(***************************************************************************)
EXTENDS Naturals

CONSTANT Reader

VARIABLES published,  \* number of items published so far
          next        \* next[r]: the item reader r is handed next

log == <<published, next>>

TypeOK == published \in Nat /\ next \in [Reader -> Nat]

Init == published = 0 /\ next = [r \in Reader |-> 0]

Publish == published' = published + 1 /\ UNCHANGED next

Read(r) == /\ next[r] < published
           /\ next' = [next EXCEPT ![r] = @ + 1]
           /\ UNCHANGED published

Next == Publish \/ \E r \in Reader : Read(r)

Safe == Init /\ [][Next]_log

\* No reader stops while there is something left for it to read.
Spec == Safe /\ \A r \in Reader : WF_log(Read(r))
================================================================================
