--------------------------------- MODULE MCUllc ---------------------------------
(* Instances of Ullc for TLC. *)
EXTENDS Ullc, TLC

\* What consumers ask set_pos for: -1 or a position up to one that is out of reach,
\* and, in AnyPos, a position set_pos should not have been asked for.
RingPos == -1 .. MaxSeq + 1
AnyPos  == -2 .. MaxSeq + 1

\* The consumers are interchangeable.  Used with safety properties only.
ConsumerSymmetry == Permutations(Consumer)
=================================================================================
