---------------------------- MODULE MCIterators ----------------------------
(* Four slots, three of them arcs of v at the start, for TLC.                *)
EXTENDS Iterators
=============================================================================
