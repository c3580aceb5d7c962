------------------------------- MODULE MCMempool -------------------------------
(* A dynamic and a fixed pool, of which either may be merged into the other.    *)
EXTENDS Mempool

TwoPools == 1 .. 2
================================================================================
