----------------------------- MODULE MCSegment -----------------------------
(* Instances of Segment for TLC. *)
EXTENDS Segment, TLC

CONSTANTS t1, t2

\* Contexts whose passes begin with different sections.
TwoIds == (t1 :> 1) @@ (t2 :> 2)
=============================================================================
