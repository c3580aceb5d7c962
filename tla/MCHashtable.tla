------------------------------ MODULE MCHashtable ------------------------------
(* Keys and a hash function for Hashtable: integer keys of two words, two of    *)
(* which share a bucket and their first word.                                   *)
EXTENDS Hashtable, TLC

IntKeys == {<<1, 0>>, <<2, 0>>, <<1, 1>>}

\* Keys that begin with 2 fall into the last bucket, all others
\* into the first: collisions are what the scans are about.
HashIt(k) == IF k[1] = 2 THEN Capacity - 1 ELSE 0
HashOfKeys == [k \in Key |-> HashIt(k)]

ValueSymmetry == Permutations(Value)
================================================================================
