------------------------------ MODULE MCEvents ------------------------------
(* Instances of Events for TLC. *)
EXTENDS Events, TLC

CONSTANTS x1, x2

\* Every subscription listens to one element.
OneElement == [e \in Subs |-> x1]

\* One subscription listens to x2, the others to x1.
TwoElements == LET other == CHOOSE e \in Subs : TRUE
               IN [e \in Subs |-> IF e = other THEN x2 ELSE x1]

\* Threads of a kind are interchangeable.
ThreadSymmetry == Permutations(Clients) \cup Permutations(Workers)
=============================================================================
