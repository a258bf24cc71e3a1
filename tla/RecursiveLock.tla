--------------------------- MODULE RecursiveLock ---------------------------
(***************************************************************************)
(* What a segment section's lock promises its clients: a counted lock that *)
(* one thread at a time may hold, taken and given back atomically.         *)
(***************************************************************************)
EXTENDS Naturals

CONSTANT Threads

VARIABLE hold  \* how many locks each thread holds

Init == hold = [t \in Threads |-> 0]

Acquire(t) ==
  /\ \A u \in Threads \ {t} : hold[u] = 0
  /\ hold' = [hold EXCEPT ![t] = @ + 1]

Release(t) ==
  /\ hold[t] > 0
  /\ hold' = [hold EXCEPT ![t] = @ - 1]

Next == \E t \in Threads : Acquire(t) \/ Release(t)

Spec == Init /\ [][Next]_hold
=============================================================================
