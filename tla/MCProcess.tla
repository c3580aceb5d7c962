------------------------------- MODULE MCProcess -------------------------------
(* Instances of Process for TLC. *)
EXTENDS Process, TLC

\* The records are interchangeable.  Used with safety properties only.
RecSymmetry == Permutations(Rec)
================================================================================
