----------------------------- MODULE MCStorage -----------------------------
(* Instances of Storage for TLC. *)
EXTENDS Storage, TLC

\* Slots are interchangeable: no operation compares two addresses.
SlotSymmetry == Permutations(Addr)

\* Bound: levels above the lowest and clients' references do not occur together.
RaisedOrHeld ==
  \/ free.level = Lowest /\ \A a \in Addr : el[a].access = Lowest
  \/ \A a \in Addr : held[a] = 0 /\ ~Dropped(a)
=============================================================================
