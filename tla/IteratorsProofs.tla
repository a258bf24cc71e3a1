-------------------------- MODULE IteratorsProofs --------------------------
(***************************************************************************)
(* Proofs about an iterator over the arcs of an element that another       *)
(* thread changes, for any number of slots: references account for those   *)
(* who hold them (RefsAccounted), the walk does not leave the list         *)
(* (KeepsToList), and returns what it should (AllReturned).                *)
(*                                                                         *)
(* The list of the arcs of V is described by a rank of each arc, smaller   *)
(* than those behind it: a new arc gets one below all others, and nothing  *)
(* else changes the ranks, deletions included.  So the place of the walk   *)
(* is that of its arc, also when the arc has left the list.                *)
(***************************************************************************)
EXTENDS Iterators, TLAPS

\* What the iterator refers to: it stands on one arc at most.
StandInv ==
  /\ pc \in {"try", "ends", "type", "none", "gone"} => result = Null
  /\ pc \in {"ends", "type"} => arc_addr \in Arc
  /\ pc \in {"attr", "more", "drop", "behind", "end"} => result \in Arc
  /\ it_attr => result \in Arc /\ pc \in {"ready", "more", "drop", "aborted"}
  /\ pc \in {"more", "drop"} => it_attr
  /\ ~it_attr => found = 0
  /\ pc = "ends" => lock[arc_addr] = "iterator"
  /\ \A a \in Arc : slot[a].state = "free" <=> ref[a] = 0

\* The locks of a deletion: for each arc that it is still to erase, the arc,
\* its neighbours and both ends are locked or will be.
Held == {x \in Lockable : lock[x] = "deleter"}

DeleteInv ==
  /\ erase \subseteq ArcsOfV
  /\ \A a \in erase : ({a, V, E, slot[a].next, slot[a].prev} \ {Null}) \subseteq need \cup Held
  /\ erase # {} => target # Null
  /\ target \in Arc => erase \subseteq {target} /\ target \in Held
  /\ target = E => ArcsOfV \subseteq erase /\ E \in Held
  /\ dead => ArcsOfV = {}
  /\ head[W] # Null => slot[head[W]].of = W /\ slot[head[W]].state = "live"
  /\ target # V

\* n is the arc behind a: the first of the arcs A with a rank above that of a.
Behind(r, A, a, n) ==
  /\ n # Null => n \in A
  /\ \A c \in A : r[c] > r[a] <=> n # Null /\ r[c] >= r[n]

\* The list s of the arcs A with the first arc h, in the order of their ranks,
\* which are all above lo.
Ordered(r, lo, A, s, h) ==
  /\ \A a \in Arc : r[a] > lo
  /\ \A a, b \in A : r[a] = r[b] => a = b
  /\ h # Null => h \in A
  /\ \A a \in A : /\ h # Null /\ r[h] <= r[a]
                  /\ s[a].prev = Null <=> h = a
                  /\ Behind(r, A, a, s[a].next)
                  /\ s[a].next # Null => s[s[a].next].prev = a
                  /\ s[a].prev # Null => s[a].prev \in A /\ s[s[a].prev].next = a

\* The arc that the walk is at, if it is at one, and the arcs it has before it.
At == IF pc \in {"ends", "type"} THEN arc_addr ELSE result

Before(r) ==
  IF pc = "try" THEN {c \in ArcsOfV : arc_addr # Null /\ r[c] >= r[arc_addr]}
  ELSE {c \in ArcsOfV : At # Null /\ r[c] > r[At]}

\* What is still to be returned of the arc that the walk is at, and in all.
Pending(x) ==
  /\ x[1] = At
  /\ \/ pc \in {"ends", "type", "attr"}
     \/ it_attr /\ pc \in {"ready", "more"} /\ x[2] > found

Left(r, x) == Pending(x) \/ x[1] \in Before(r)

\* The walk.
Walked(r) ==
  /\ pc = "try" /\ arc_addr # Null => arc_addr \in ArcsOfV
  /\ At # Null => slot[At].of = V /\ Behind(r, ArcsOfV, At, slot[At].next)
  /\ pc = "ends" => arc_addr \in ArcsOfV
  /\ pc \in {"ends", "type"} => next_arc = slot[arc_addr].next
  /\ ~Begins => Before(r) \subseteq had
  /\ kept \subseteq ArcsOfV
  /\ \A x \in Range(returned) : ~Left(r, x)
  /\ pc \notin {"gone", "none", "end"} /\ ~Begins =>
       \A c \in kept : \A x \in Results(c) : x \in Range(returned) \/ Left(r, x)
  /\ Begins => returned = <<>>
  /\ pc = "attr" => five
  /\ pc = "false" => result = Null
  /\ IsInjective(returned)

ListInv ==
  \E r \in [Arc -> Int], lo \in Int :
    /\ Ordered(r, lo, ArcsOfV, slot, head[V])
    /\ ~gap => Walked(r) /\ ~stray /\ pc # "aborted"

\* The inductive invariant.
IInv == RefsAccounted /\ StandInv /\ DeleteInv /\ ListInv

-----------------------------------------------------------------------------
\* What the operations write to the slots, field by field.

\* Kinds and states of slots.
LEMMA SlotFields ==
  ASSUME NEW x \in Slot
  PROVE  /\ x.state \in {"free", "live", "marked"} /\ x.of \in {V, W, Null}
         /\ x.next \in Arc \cup {Null} /\ x.prev \in Arc \cup {Null} /\ x.kind \in Kinds
BY DEF Slot

\* The last reference to a slot erases it.
LEMMA UnrefFields ==
  ASSUME TypeOK, NEW a \in Arc, ref[a] > 0, Unref(a)
  PROVE  /\ slot' \in [Arc -> Slot] /\ ref' \in [Arc -> Nat]
         /\ ref'[a] = ref[a] - 1 /\ \A b \in Arc \ {a} : ref'[b] = ref[b]
         /\ \A b \in Arc \ {a} : slot'[b] = slot[b]
         /\ ref[a] = 1 => slot'[a].state = "free"
         /\ ref[a] # 1 => slot'[a] = slot[a]
<1>1. FreeSlot \in Slot /\ FreeSlot.state = "free"
  BY DEF FreeSlot, Slot, Kinds
<1>2. slot \in [Arc -> Slot] /\ ref \in [Arc -> Nat]
  BY DEF TypeOK
<1>3. ref' = [ref EXCEPT ![a] = @ - 1] /\ slot' = IF ref[a] = 1 THEN [slot EXCEPT ![a] = FreeSlot] ELSE slot
  BY DEF Unref
<1> HIDE DEF FreeSlot, Slot
<1>4. ref' \in [Arc -> Nat] /\ ref'[a] = ref[a] - 1 /\ \A b \in Arc \ {a} : ref'[b] = ref[b]
  BY <1>2, <1>3
<1> QED BY <1>1, <1>2, <1>3, <1>4

\* sc_storage_arc_new puts an arc in front.
Fronted(o, k, a) ==
  [b \in Arc |->
     IF b = a THEN [state |-> "live", of |-> o, next |-> head[o], prev |-> Null, kind |-> k]
     ELSE IF b = head[o] THEN [slot[b] EXCEPT !.prev = a] ELSE slot[b]]

LEMMA ArcNewFields ==
  ASSUME TypeOK, NEW o \in {V, W}, NEW k \in Kinds, NEW a \in Arc, slot' = Fronted(o, k, a)
  PROVE  /\ slot' \in [Arc -> Slot]
         /\ slot'[a].state = "live" /\ slot'[a].of = o /\ slot'[a].next = head[o] /\ slot'[a].prev = Null
         /\ \A b \in Arc \ {a} : /\ slot'[b].state = slot[b].state /\ slot'[b].of = slot[b].of
                                 /\ slot'[b].next = slot[b].next /\ slot'[b].kind = slot[b].kind
                                 /\ slot'[b].prev = IF b = head[o] THEN a ELSE slot[b].prev
<1>1. slot \in [Arc -> Slot] /\ head[o] \in Arc \cup {Null}
  BY DEF TypeOK
<1> DEFINE x == [state |-> "live", of |-> o, next |-> head[o], prev |-> Null, kind |-> k]
<1>2. x \in Slot /\ x.state = "live" /\ x.of = o /\ x.next = head[o] /\ x.prev = Null
  BY <1>1 DEF Slot
<1>3. \A b \in Arc : /\ [slot[b] EXCEPT !.prev = a] \in Slot
                     /\ [slot[b] EXCEPT !.prev = a].state = slot[b].state
                     /\ [slot[b] EXCEPT !.prev = a].of = slot[b].of
                     /\ [slot[b] EXCEPT !.prev = a].next = slot[b].next
                     /\ [slot[b] EXCEPT !.prev = a].kind = slot[b].kind
                     /\ [slot[b] EXCEPT !.prev = a].prev = a
  BY <1>1 DEF Slot
<1>4. \A b \in Arc : slot'[b] = IF b = a THEN x ELSE IF b = head[o] THEN [slot[b] EXCEPT !.prev = a] ELSE slot[b]
  BY DEF Fronted
<1>5. \A b \in Arc : slot'[b] \in Slot
  BY <1>1, <1>2, <1>3, <1>4
<1>6. slot' \in [Arc -> Slot]
  BY <1>5 DEF Fronted
<1>7. slot'[a] = x
  BY <1>4
<1>8. \A b \in Arc \ {a} : /\ slot'[b].state = slot[b].state /\ slot'[b].of = slot[b].of
                           /\ slot'[b].next = slot[b].next /\ slot'[b].kind = slot[b].kind
                           /\ slot'[b].prev = IF b = head[o] THEN a ELSE slot[b].prev
  BY <1>3, <1>4
<1> QED BY <1>2, <1>6, <1>7, <1>8

\* sc_storage_element_free takes an arc out of the list.
TakenOut(a) ==
  [Unlinked(a) EXCEPT ![a] = IF Erased(a) THEN FreeSlot ELSE [slot[a] EXCEPT !.state = "marked"]]

LEMMA EraseFields ==
  ASSUME TypeOK, NEW a \in Arc, slot[a].prev = Null \/ slot[a].prev # slot[a].next,
         slot' = TakenOut(a)
  PROVE  /\ slot' \in [Arc -> Slot]
         /\ ref[a] = 1 => slot'[a].state = "free"
         /\ ref[a] # 1 => /\ slot'[a].state = "marked" /\ slot'[a].of = slot[a].of
                          /\ slot'[a].next = slot[a].next /\ slot'[a].kind = slot[a].kind
         /\ \A b \in Arc \ {a} :
              /\ slot'[b].state = slot[b].state /\ slot'[b].of = slot[b].of /\ slot'[b].kind = slot[b].kind
              /\ slot'[b].next = IF b = slot[a].prev THEN slot[a].next ELSE slot[b].next
              /\ slot'[b].prev = IF b = slot[a].next THEN slot[a].prev ELSE slot[b].prev
<1>1. slot \in [Arc -> Slot] /\ slot[a].next \in Arc \cup {Null} /\ slot[a].prev \in Arc \cup {Null}
  BY SlotFields DEF TypeOK
<1> DEFINE y == [slot[a] EXCEPT !.state = "marked"]
           p == slot[a].prev
           n == slot[a].next
<1>2. FreeSlot \in Slot /\ FreeSlot.state = "free"
  BY DEF FreeSlot, Slot, Kinds
<1>3. y \in Slot /\ y.state = "marked" /\ y.of = slot[a].of /\ y.next = n /\ y.kind = slot[a].kind
  BY <1>1 DEF Slot
<1>4. \A b \in Arc : /\ [slot[b] EXCEPT !.next = n] \in Slot
                     /\ [slot[b] EXCEPT !.next = n].state = slot[b].state
                     /\ [slot[b] EXCEPT !.next = n].of = slot[b].of
                     /\ [slot[b] EXCEPT !.next = n].next = n
                     /\ [slot[b] EXCEPT !.next = n].kind = slot[b].kind
                     /\ [slot[b] EXCEPT !.next = n].prev = slot[b].prev
  BY <1>1 DEF Slot
<1>5. \A b \in Arc : /\ [slot[b] EXCEPT !.prev = p] \in Slot
                     /\ [slot[b] EXCEPT !.prev = p].state = slot[b].state
                     /\ [slot[b] EXCEPT !.prev = p].of = slot[b].of
                     /\ [slot[b] EXCEPT !.prev = p].next = slot[b].next
                     /\ [slot[b] EXCEPT !.prev = p].kind = slot[b].kind
                     /\ [slot[b] EXCEPT !.prev = p].prev = p
  BY <1>1 DEF Slot
<1>0. \A b \in Arc : b = p => b # n
  BY IteratorsAssumption
<1>6. ASSUME NEW b \in Arc
      PROVE  /\ b = p => Unlinked(a)[b] = [slot[b] EXCEPT !.next = n]
             /\ b # p /\ b = n => Unlinked(a)[b] = [slot[b] EXCEPT !.prev = p]
             /\ b # p /\ b # n => Unlinked(a)[b] = slot[b]
  <2>1. Unlinked(a)[b] = CASE b = p -> [slot[b] EXCEPT !.next = n]
                           [] b = n -> [slot[b] EXCEPT !.prev = p]
                           [] OTHER -> slot[b]
    BY DEF Unlinked
  <2> HIDE DEF p, n
  <2>2. CASE b = p
    BY <1>0, <2>1, <2>2
  <2>3. CASE b # p /\ b = n
    BY <2>1, <2>3
  <2>4. CASE b # p /\ b # n
    BY <2>1, <2>4
  <2> QED BY <2>2, <2>3, <2>4
<1>7. DOMAIN Unlinked(a) = Arc
  BY DEF Unlinked
<1>8. /\ slot'[a] = IF ref[a] = 1 THEN FreeSlot ELSE y
      /\ \A b \in Arc \ {a} : slot'[b] = Unlinked(a)[b]
      /\ slot' = [b \in Arc |-> slot'[b]]
  BY <1>7 DEF Erased, TakenOut
<1> HIDE DEF y, p, n, FreeSlot
<1>9. \A b \in Arc \ {a} :
        /\ slot'[b] \in Slot
        /\ slot'[b].state = slot[b].state /\ slot'[b].of = slot[b].of /\ slot'[b].kind = slot[b].kind
        /\ slot'[b].next = IF b = p THEN n ELSE slot[b].next
        /\ slot'[b].prev = IF b = n THEN p ELSE slot[b].prev
  <2> SUFFICES ASSUME NEW b \in Arc \ {a}
               PROVE  /\ slot'[b] \in Slot
                      /\ slot'[b].state = slot[b].state /\ slot'[b].of = slot[b].of /\ slot'[b].kind = slot[b].kind
                      /\ slot'[b].next = IF b = p THEN n ELSE slot[b].next
                      /\ slot'[b].prev = IF b = n THEN p ELSE slot[b].prev
    OBVIOUS
  <2>1. CASE b = p
    <3>1. slot'[b] = [slot[b] EXCEPT !.next = n] /\ b # n
      BY <1>0, <1>6, <1>8, <2>1
    <3> QED BY <1>4, <2>1, <3>1
  <2>2. CASE b # p /\ b = n
    <3>1. slot'[b] = [slot[b] EXCEPT !.prev = p]
      BY <1>6, <1>8, <2>2
    <3> QED BY <1>5, <2>2, <3>1
  <2>3. CASE b # p /\ b # n
    BY <1>1, <1>6, <1>8, <2>3
  <2> QED BY <2>1, <2>2, <2>3
<1>10. \A b \in Arc : slot'[b] \in Slot
  BY <1>2, <1>3, <1>8, <1>9
<1>11. slot' \in [Arc -> Slot]
  BY <1>8, <1>10
<1> QED BY <1>2, <1>3, <1>8, <1>9, <1>11 DEF n, p

-----------------------------------------------------------------------------
\* References.

\* What follows from the count: an arc that the iterator is at is not free, and
\* has a reference besides its own when it is live.
LEMMA Counts ==
  ASSUME RefsAccounted, StandInv, NEW a \in Arc
  PROVE  /\ ref[a] \in Nat /\ leaked[a] \in Nat
         /\ slot[a].state = "free" => result # a /\ leaked[a] = 0 /\ ~(pc \in {"ends", "type"} /\ arc_addr = a)
         /\ slot[a].state = "live" => ref[a] > 0
         /\ slot[a].state = "live" /\ (result = a \/ (pc \in {"ends", "type"} /\ arc_addr = a)) => ref[a] > 1
         /\ result = a \/ (pc \in {"ends", "type"} /\ arc_addr = a) => ref[a] > 0 /\ slot[a].state # "free"
         /\ ref[a] = 1 /\ (slot[a].state = "live" \/ result = a) => leaked[a] = 0
         /\ ref[a] = 1 /\ result = a => slot[a].state = "marked" /\ ~it_attr
<1>1. ref[a] \in Nat /\ leaked[a] \in Nat /\ slot[a].state \in {"free", "live", "marked"}
  BY SlotFields DEF RefsAccounted, TypeOK
<1>2. /\ ref[a] = RefsOf(a)
      /\ slot[a].state = "free" <=> ref[a] = 0
  BY DEF RefsAccounted, StandInv
<1> QED BY <1>1, <1>2 DEF RefsOf

\* The distinct values of the constants, and the states of the iterator.
LEMMA Constants ==
  /\ V # W /\ V # E /\ V # Null /\ W # E /\ W # Null /\ E # Null
  /\ \A a \in Arc : a # V /\ a # W /\ a # E /\ a # Null
  /\ Arc \subseteq Lockable /\ V \in Lockable /\ E \in Lockable
BY IteratorsAssumption DEF Lockable

\* sc_storage_arc_new
LEMMA ArcNewRefs ==
  ASSUME RefsAccounted, StandInv, NEW o \in {V, W}, NEW k \in KindsAsked, ArcNew(o, k)
  PROVE  RefsAccounted' /\ StandInv'
<1>1. PICK a \in Arc :
        /\ slot[a].state = "free"
        /\ slot' = Fronted(o, k, a)
        /\ head' = [head EXCEPT ![o] = a] /\ ref' = [ref EXCEPT ![a] = 1]
  BY DEF ArcNew, Fronted
<1>2. UNCHANGED <<lock, five, dead, pc, result, arc_addr, next_arc, it_attr, found, returned, target, erase, need, leaked>>
  BY DEF ArcNew, iter, deletion, history
<1>3. k \in Kinds /\ TypeOK
  BY DEF KindsAsked, Kinds, RefsAccounted
<1>4. /\ slot' \in [Arc -> Slot] /\ slot'[a].state = "live"
      /\ \A b \in Arc \ {a} : slot'[b].state = slot[b].state
  BY <1>1, <1>3, ArcNewFields
<1>5. /\ ref' \in [Arc -> Nat] /\ ref'[a] = 1 /\ \A b \in Arc \ {a} : ref'[b] = ref[b]
      /\ head' \in [{V, W} -> Arc \cup {Null}]
  BY <1>1, <1>3 DEF TypeOK
<1>6. TypeOK'
  BY <1>2, <1>3, <1>4, <1>5 DEF TypeOK
<1>7. \A b \in Arc : RefsOf(b)' = (IF b = a THEN RefsOf(b) + 1 ELSE RefsOf(b))
  <2> SUFFICES ASSUME NEW b \in Arc PROVE RefsOf(b)' = (IF b = a THEN RefsOf(b) + 1 ELSE RefsOf(b))
    OBVIOUS
  <2>1. leaked[b] \in Nat
    BY <1>3 DEF TypeOK
  <2> QED BY <1>1, <1>2, <1>4, <2>1 DEF RefsOf
<1>8. RefsOf(a) = 0
  BY <1>1 DEF RefsAccounted, StandInv
<1>9. RefsAccounted'
  <2>1. ASSUME NEW b \in Arc PROVE ref'[b] = RefsOf(b)'
    <3>1. ref[b] = RefsOf(b)
      BY DEF RefsAccounted
    <3> QED BY <1>5, <1>7, <1>8, <3>1
  <2> QED BY <1>6, <2>1 DEF RefsAccounted
<1>10. StandInv'
  BY <1>2, <1>4, <1>5 DEF StandInv
<1> QED BY <1>9, <1>10

\* Steps that leave slots and references alone, with no effect on what the
\* iterator refers to.
LEMMA SameRefs ==
  ASSUME RefsAccounted, TypeOK', UNCHANGED <<slot, ref, leaked, result, it_attr>>,
         {pc, pc'} \cap {"ends", "type"} = {} \/ (pc \in {"ends", "type"} /\ pc' \in {"ends", "type"}),
         pc' \in {"ends", "type"} => arc_addr' = arc_addr
  PROVE  RefsAccounted'
<1>1. \A a \in Arc : RefsOf(a)' = RefsOf(a)
  BY DEF RefsOf
<1> QED BY <1>1 DEF RefsAccounted

\* What a deletion is to lock are elements.
LEMMA LockTableType ==
  ASSUME TypeOK, NEW es \in SUBSET Arc
  PROVE  LockTable(es) \subseteq Lockable
<1>1. \A a \in Arc : slot[a].next \in Arc \cup {Null} /\ slot[a].prev \in Arc \cup {Null}
  BY SlotFields DEF TypeOK
<1>2. ASSUME NEW x \in LockTable(es) PROVE x \in Lockable
  <2> DEFINE U == UNION {{slot[a].next, slot[a].prev} : a \in es}
  <2>0. x \in es \cup {V, E} \/ (x \in U /\ x # Null)
    <3>1. LockTable(es) = es \cup {V, E} \cup (U \ {Null})
      BY DEF LockTable
    <3> HIDE DEF U
    <3> QED BY <3>1
  <2>1. CASE x \in es \cup {V, E}
    BY <2>1 DEF Lockable
  <2>2. CASE x \in U /\ x # Null
    <3>1. PICK s \in {{slot[a].next, slot[a].prev} : a \in es} : x \in s
      BY <2>2, Zenon
    <3>2. PICK a \in es : s = {slot[a].next, slot[a].prev}
      OBVIOUS
    <3>3. x = slot[a].next \/ x = slot[a].prev
      BY <3>1, <3>2
    <3>4. x \in Arc
      BY <1>1, <2>2, <3>3
    <3> QED BY <3>4 DEF Lockable
  <2> HIDE DEF U
  <2> QED BY <2>0, <2>1, <2>2
<1> QED BY <1>2

\* A deletion locks what it needs, and unlocks it: the iterator keeps its locks.
LEMMA LockRefs ==
  ASSUME RefsAccounted, StandInv, (\E x \in Arc \cup {E} : ElementFree(x)) \/ FreeLock \/ FreeUnlock
  PROVE  RefsAccounted' /\ StandInv'
<1>1. UNCHANGED <<slot, head, ref, five, pc, result, arc_addr, next_arc, it_attr, found, returned, leaked>>
  BY DEF ElementFree, FreeLock, FreeUnlock, store, iter, history
<1>2. TypeOK
  BY DEF RefsAccounted
<1>3. Null # "iterator"
  BY IteratorsAssumption
<1>a. ASSUME NEW x \in Arc \cup {E}, ElementFree(x)
      PROVE  TypeOK' /\ \A y \in Lockable : lock[y] = "iterator" => lock'[y] = "iterator"
  <2> DEFINE es == IF x = E THEN {a \in Arc : slot[a].state = "live" /\ slot[a].of = V} ELSE {x}
  <2>1. /\ lock' = [lock EXCEPT ![x] = "deleter"] /\ lock[x] = Null /\ target' = x /\ dead' = dead
        /\ erase' = es /\ need' = LockTable(es) \ {x}
    BY <1>a DEF ElementFree, Free
  <2>2. x \in Lockable /\ es \subseteq Arc
    BY Constants DEF Lockable
  <2> HIDE DEF es
  <2>3. LockTable(es) \subseteq Lockable
    BY <1>2, <2>2, LockTableType
  <2>4. lock' \in [Lockable -> {"iterator", "deleter", Null}]
    BY <1>2, <2>1, <2>2 DEF TypeOK
  <2>5. TypeOK'
    BY <1>1, <1>2, <2>1, <2>2, <2>3, <2>4 DEF TypeOK
  <2>6. \A y \in Lockable : lock[y] = "iterator" => lock'[y] = "iterator"
    BY <1>2, <1>3, <2>1 DEF TypeOK
  <2> QED BY <2>5, <2>6
<1>b. ASSUME FreeLock PROVE TypeOK' /\ \A y \in Lockable : lock[y] = "iterator" => lock'[y] = "iterator"
  <2>1. PICK x \in need : lock[x] = Null /\ lock' = [lock EXCEPT ![x] = "deleter"] /\ need' = need \ {x}
    BY <1>b DEF FreeLock, Free
  <2>2. UNCHANGED <<dead, target, erase>>
    BY <1>b DEF FreeLock
  <2> QED BY <1>1, <1>2, <1>3, <2>1, <2>2 DEF TypeOK
<1>c. ASSUME FreeUnlock PROVE TypeOK' /\ \A y \in Lockable : lock[y] = "iterator" => lock'[y] = "iterator"
  <2>1. lock' = Released /\ target' = Null /\ dead' \in BOOLEAN /\ UNCHANGED <<erase, need>>
    BY <1>c DEF FreeUnlock
  <2> QED BY <1>1, <1>2, <2>1 DEF TypeOK, Released
<1>4. TypeOK' /\ \A y \in Lockable : lock[y] = "iterator" => lock'[y] = "iterator"
  BY <1>a, <1>b, <1>c
<1>5. RefsAccounted'
  BY <1>1, <1>4, SameRefs
<1>6. StandInv'
  BY <1>1, <1>4, Constants DEF StandInv
<1> QED BY <1>5, <1>6

\* An arc is taken out of the list.
LEMMA EraseRefs ==
  ASSUME RefsAccounted, StandInv, NEW a \in Arc, slot[a].state = "live",
         slot[a].prev = Null \/ slot[a].prev # slot[a].next,
         slot' = TakenOut(a), head' = [head EXCEPT ![V] = IF @ = a THEN slot[a].next ELSE @],
         ref' = [ref EXCEPT ![a] = @ - 1], erase' = erase \ {a},
         leaked' = [leaked EXCEPT ![a] = IF Erased(a) THEN 0 ELSE @],
         UNCHANGED <<lock, five, dead, iter, target, need>>
  PROVE  RefsAccounted' /\ StandInv'
<1>1. UNCHANGED <<pc, result, arc_addr, next_arc, it_attr, found, returned>>
  BY DEF iter
<1>2. TypeOK
  BY DEF RefsAccounted
<1>3. /\ slot' \in [Arc -> Slot]
      /\ ref[a] = 1 => slot'[a].state = "free"
      /\ ref[a] # 1 => slot'[a].state = "marked"
      /\ \A b \in Arc \ {a} : slot'[b].state = slot[b].state
  BY <1>2, EraseFields
<1>4. ref[a] \in Nat /\ leaked[a] \in Nat /\ ref[a] > 0 /\ (ref[a] = 1 => leaked[a] = 0)
  BY Counts
<1>5. leaked' = leaked
  BY <1>2, <1>4 DEF TypeOK, Erased
<1>6. /\ ref' \in [Arc -> Nat] /\ ref'[a] = ref[a] - 1 /\ \A b \in Arc \ {a} : ref'[b] = ref[b]
  BY <1>2, <1>4 DEF TypeOK
<1>7. head' \in [{V, W} -> Arc \cup {Null}]
  BY <1>2, SlotFields DEF TypeOK
<1>8. TypeOK'
  BY <1>1, <1>2, <1>3, <1>5, <1>6, <1>7 DEF TypeOK
<1>9. ASSUME NEW b \in Arc PROVE ref'[b] = RefsOf(b)'
  <2>1. ref[b] = RefsOf(b) /\ leaked[b] \in Nat
    BY <1>2 DEF RefsAccounted, TypeOK
  <2>2. slot'[a].state # "live"
    BY <1>3
  <2>3. CASE b = a
    BY <1>1, <1>5, <1>6, <2>1, <2>2, <2>3 DEF RefsOf
  <2>4. CASE b # a
    <3>1. slot'[b].state = slot[b].state /\ ref'[b] = ref[b]
      BY <1>3, <1>6, <2>4
    <3> QED BY <1>1, <1>5, <2>1, <3>1 DEF RefsOf
  <2> QED BY <2>3, <2>4
<1>10. StandInv'
  BY <1>1, <1>3, <1>4, <1>6 DEF StandInv
<1> QED BY <1>8, <1>9, <1>10 DEF RefsAccounted

\* The iterator gives a reference back: to the arc it stood on, or the one that
\* it_attr has.
LEMMA UnrefRefs ==
  ASSUME RefsAccounted, StandInv, NEW a \in Arc, result = a, Unref(a), it_attr' = FALSE, found' = 0,
         \/ /\ result' = Null /\ ~it_attr /\ pc \in {"ready", "false", "behind", "end"} /\ pc' \in {"try", "gone"}
         \/ result' = a /\ it_attr /\ pc \in {"ready", "drop"} /\ pc' \in {"behind", "end"},
         arc_addr' \in Arc \cup {Null},
         UNCHANGED <<head, lock, five, dead, next_arc, returned, deletion, history>>
  PROVE  RefsAccounted' /\ StandInv'
<1>1. UNCHANGED <<target, erase, need, leaked>>
  BY DEF deletion, history
<1>2. TypeOK
  BY DEF RefsAccounted
<1>3. ref[a] \in Nat /\ ref[a] > 0 /\ (ref[a] = 1 => slot[a].state = "marked" /\ ~it_attr)
  BY Counts
<1>4. /\ slot' \in [Arc -> Slot] /\ ref' \in [Arc -> Nat]
      /\ ref'[a] = ref[a] - 1 /\ \A b \in Arc \ {a} : ref'[b] = ref[b]
      /\ \A b \in Arc \ {a} : slot'[b] = slot[b]
      /\ ref[a] = 1 => slot'[a].state = "free"
      /\ ref[a] # 1 => slot'[a] = slot[a]
  BY <1>2, <1>3, UnrefFields
<1>a. pc' \in {"try", "gone", "behind", "end"} /\ result' \in Arc \cup {Null}
  OBVIOUS
<1>5. TypeOK'
  BY <1>1, <1>2, <1>4, <1>a DEF TypeOK, Pcs
<1>6. ASSUME NEW b \in Arc PROVE ref'[b] = RefsOf(b)'
  <2>1. ref[b] = RefsOf(b) /\ leaked[b] \in Nat
    BY <1>2 DEF RefsAccounted, TypeOK
  <2>2. Null # b
    BY Constants
  <2>3. CASE b = a
    <3>1. slot'[a].state = "live" <=> slot[a].state = "live"
      BY <1>3, <1>4
    <3>2. CASE result' = Null /\ ~it_attr
      BY <1>1, <1>4, <2>1, <2>2, <2>3, <3>1, <3>2 DEF RefsOf
    <3>3. CASE result' = a /\ it_attr
      BY <1>1, <1>4, <2>1, <2>2, <2>3, <3>1, <3>3 DEF RefsOf
    <3> QED BY <3>2, <3>3
  <2>4. CASE b # a
    <3>1. slot'[b] = slot[b] /\ ref'[b] = ref[b]
      BY <1>4, <2>4
    <3> QED BY <1>1, <2>1, <2>2, <2>4, <3>1 DEF RefsOf
  <2> QED BY <2>3, <2>4
<1>7. StandInv'
  BY <1>3, <1>4 DEF StandInv
<1> QED BY <1>5, <1>6, <1>7 DEF RefsAccounted

LEMMA AppendType ==
  ASSUME NEW S, NEW s \in Seq(S), NEW x \in S
  PROVE  Append(s, x) \in Seq(S)
OBVIOUS

\* The steps of the iterator.
LEMMA WalkRefs ==
  ASSUME RefsAccounted, StandInv, IteratorNew \/ Walk \/ Iterator5Free \/ IteratorFree
  PROVE  RefsAccounted' /\ StandInv'
<1>t. TypeOK
  BY DEF RefsAccounted
<1>u. \A a \in Arc : slot[a].next \in Arc \cup {Null}
  BY <1>t, SlotFields DEF TypeOK
<1>v. Null \notin Arc /\ Null # "iterator"
  BY Constants, IteratorsAssumption
<1>w. \A a \in Arc : a \in Lockable
  BY DEF Lockable
<1>a. CASE IteratorNew \/ NextFirst \/ NextEnds \/ AttributesNext
  <2>1. UNCHANGED <<slot, head, ref, lock, five, dead, result, next_arc, it_attr, target, erase, need, leaked>>
    BY <1>a DEF IteratorNew, NextFirst, NextEnds, AttributesNext, store, deletion, history
  <2>2. /\ arc_addr' \in Arc \cup {Null} /\ pc' \in {"ready", "try", "false", "drop", "aborted"}
        /\ pc \notin {"ends", "type"}
        /\ pc' = "try" => result = Null
        /\ it_attr => pc' \in {"ready", "drop", "aborted"}
        /\ pc' = "drop" => it_attr
    <3>1. CASE IteratorNew \/ NextEnds \/ NextFirst
      BY <1>t, <1>v, <3>1 DEF IteratorNew, NextFirst, NextEnds, TypeOK, StandInv
    <3>2. CASE AttributesNext
      BY <1>t, <3>2 DEF AttributesNext, TypeOK
    <3> QED BY <1>a, <3>1, <3>2
  <2>3. returned' \in Seq(Arc \X Nat) /\ found' \in Nat /\ (~it_attr => found' = 0)
    <3>1. CASE it_attr
      <4>1. result \in Arc /\ returned \in Seq(Arc \X Nat) /\ found \in Nat
        BY <1>t, <3>1 DEF StandInv, TypeOK
      <4>2. \/ returned' = returned /\ found' = found
            \/ returned' = Append(returned, <<result, found + 1>>) /\ found' = found + 1
        BY <1>a DEF IteratorNew, NextFirst, NextEnds, AttributesNext
      <4>3. <<result, found + 1>> \in Arc \X Nat
        BY <4>1
      <4>4. Append(returned, <<result, found + 1>>) \in Seq(Arc \X Nat)
        BY <4>1, <4>3, AppendType
      <4>5. returned' \in Seq(Arc \X Nat)
        BY <4>1, <4>2, <4>4, Zenon
      <4>6. found' \in Nat
        BY <4>1, <4>2
      <4> QED BY <3>1, <4>5, <4>6
    <3>2. CASE ~it_attr
      <4>1. UNCHANGED <<found, returned>>
        BY <1>a, <3>2 DEF IteratorNew, NextFirst, NextEnds, AttributesNext
      <4> QED BY <1>t, <3>2, <4>1 DEF TypeOK, StandInv
    <3> QED BY <3>1, <3>2
  <2>4. TypeOK'
    BY <1>t, <2>1, <2>2, <2>3 DEF TypeOK, Pcs
  <2>5. RefsAccounted'
    BY <2>1, <2>2, <2>4, SameRefs
  <2>6. StandInv'
    BY <2>1, <2>2, <2>3 DEF StandInv
  <2> QED BY <2>5, <2>6
<1>b. CASE NextBehind
  <2>1. /\ pc \in {"ready", "behind"} /\ it_attr = FALSE /\ result \in Arc /\ arc_addr' = slot[result].next
        /\ Unref(result) /\ result' = Null /\ pc' = "try" /\ found = 0
        /\ UNCHANGED <<head, lock, five, dead, next_arc, it_attr, found, returned, deletion, history>>
    BY <1>t, <1>b DEF NextBehind, GivenBack, TypeOK, StandInv
  <2> QED BY <1>u, <2>1, UnrefRefs
<1>c. CASE IteratorFree
  <2>1. /\ pc \in {"ready", "false", "end"} /\ it_attr = FALSE /\ pc' = "gone" /\ result' = Null /\ found = 0
        /\ UNCHANGED <<head, lock, five, dead, arc_addr, next_arc, it_attr, found, returned, deletion, history>>
    BY <1>t, <1>c DEF IteratorFree, StandInv, TypeOK
  <2>2. CASE result = Null
    <3>1. UNCHANGED <<slot, ref, result>>
      BY <1>c, <2>2 DEF IteratorFree
    <3>2. TypeOK'
      BY <1>t, <2>1, <3>1 DEF TypeOK, Pcs, deletion, history
    <3>3. RefsAccounted'
      BY <2>1, <3>1, <3>2, SameRefs DEF history
    <3>4. StandInv'
      BY <2>1, <3>1 DEF StandInv
    <3> QED BY <3>3, <3>4
  <2>3. CASE result # Null
    <3>1. result \in Arc /\ Unref(result) /\ arc_addr' \in Arc \cup {Null}
      BY <1>t, <1>c, <2>1, <2>3 DEF IteratorFree, TypeOK
    <3> QED BY <2>1, <3>1, UnrefRefs
  <2> QED BY <2>2, <2>3
<1>g. CASE AttributesEnd \/ Iterator5Free
  <2>1. /\ pc \in {"ready", "drop"} /\ it_attr /\ result \in Arc /\ Unref(result) /\ result' = result
        /\ pc' \in {"behind", "end"} /\ it_attr' = FALSE /\ found' = 0 /\ arc_addr' \in Arc \cup {Null}
        /\ UNCHANGED <<head, lock, five, dead, next_arc, returned, deletion, history>>
    BY <1>t, <1>g DEF AttributesEnd, Iterator5Free, AttributesFree, TypeOK, StandInv
  <2> QED BY <2>1, UnrefRefs
<1>h. CASE AttributesNew
  <2>1. /\ pc = "attr" /\ result \in Arc /\ ~it_attr /\ found = 0
        /\ UNCHANGED <<slot, head, lock, five, dead, result, arc_addr, next_arc, found, returned, target, erase, need,
                       leaked>>
    BY <1>h DEF AttributesNew, StandInv, deletion
  <2>2. CASE slot[result].state # "live"
    <3>1. UNCHANGED <<ref, it_attr>> /\ pc' = "false"
      BY <1>h, <2>2 DEF AttributesNew
    <3>2. TypeOK'
      BY <1>t, <2>1, <3>1 DEF TypeOK, Pcs
    <3>3. RefsAccounted'
      BY <2>1, <3>1, <3>2, SameRefs
    <3>4. StandInv'
      BY <2>1, <3>1 DEF StandInv
    <3> QED BY <3>3, <3>4
  <2>3. CASE slot[result].state = "live"
    <3>1. ref' = [ref EXCEPT ![result] = @ + 1] /\ it_attr' = TRUE /\ pc' = "more"
      BY <1>h, <2>3 DEF AttributesNew
    <3>2. /\ ref' \in [Arc -> Nat] /\ ref'[result] = ref[result] + 1
          /\ \A b \in Arc \ {result} : ref'[b] = ref[b]
      BY <1>t, <2>1, <3>1 DEF TypeOK
    <3>3. TypeOK'
      BY <1>t, <2>1, <3>1, <3>2 DEF TypeOK, Pcs
    <3>4. ASSUME NEW b \in Arc PROVE ref'[b] = RefsOf(b)'
      <4>1. ref[b] = RefsOf(b) /\ leaked[b] \in Nat
        BY <1>t DEF RefsAccounted, TypeOK
      <4>2. CASE b = result
        BY <2>1, <3>1, <3>2, <4>1, <4>2 DEF RefsOf
      <4>3. CASE b # result
        BY <2>1, <3>1, <3>2, <4>1, <4>3 DEF RefsOf
      <4> QED BY <4>2, <4>3
    <3>5. StandInv'
      <4>1. ref[result] \in Nat /\ ref[result] > 0 /\ slot[result].state # "free"
        BY <2>1, Counts
      <4> QED BY <2>1, <3>1, <3>2, <4>1 DEF StandInv
    <3> QED BY <3>3, <3>4, <3>5 DEF RefsAccounted
  <2> QED BY <2>2, <2>3
<1>d. CASE NextLock
  <2>1. /\ pc = "try" /\ arc_addr \in Arc /\ lock[arc_addr] = Null /\ next_arc' = slot[arc_addr].next
        /\ UNCHANGED <<slot, head, five, dead, result, it_attr, found, returned, target, erase, need, leaked>>
        /\ ~it_attr
    BY <1>t, <1>d DEF StandInv, NextLock, Free, TypeOK, deletion
  <2>2. CASE pc' \in {"aborted", "try"}
    <3>1. UNCHANGED <<lock, ref>> /\ arc_addr' \in Arc \cup {Null}
      BY <1>t, <1>u, <1>d, <2>1, <2>2 DEF NextLock, TypeOK
    <3>2. TypeOK'
      BY <1>t, <1>u, <2>1, <2>2, <3>1 DEF TypeOK, Pcs
    <3>3. RefsAccounted'
      BY <2>1, <2>2, <3>1, <3>2, SameRefs
    <3>4. StandInv'
      BY <2>1, <2>2, <3>1 DEF StandInv
    <3> QED BY <3>3, <3>4
  <2>3. CASE pc' \notin {"aborted", "try"}
    <3>1. /\ ref' = [ref EXCEPT ![arc_addr] = @ + 1] /\ lock' = [lock EXCEPT ![arc_addr] = "iterator"]
          /\ pc' = "ends" /\ arc_addr' = arc_addr /\ ref[arc_addr] > 0
      BY <1>d, <2>1, <2>3 DEF NextLock
    <3>2. /\ ref' \in [Arc -> Nat] /\ ref'[arc_addr] = ref[arc_addr] + 1
          /\ \A b \in Arc \ {arc_addr} : ref'[b] = ref[b]
      BY <1>t, <2>1, <3>1 DEF TypeOK
    <3>3. lock' \in [Lockable -> {"iterator", "deleter", Null}] /\ lock'[arc_addr] = "iterator"
      BY <1>t, <1>w, <2>1, <3>1 DEF TypeOK
    <3>4. TypeOK'
      BY <1>t, <1>u, <2>1, <3>1, <3>2, <3>3 DEF TypeOK, Pcs
    <3>5. ASSUME NEW b \in Arc PROVE ref'[b] = RefsOf(b)'
      <4>1. ref[b] = RefsOf(b) /\ leaked[b] \in Nat
        BY <1>t DEF RefsAccounted, TypeOK
      <4>2. CASE b = arc_addr
        BY <2>1, <3>1, <3>2, <4>1, <4>2 DEF RefsOf
      <4>3. CASE b # arc_addr
        BY <2>1, <3>1, <3>2, <4>1, <4>3 DEF RefsOf
      <4> QED BY <4>2, <4>3
    <3>6. StandInv'
      <4>1. ref[arc_addr] \in Nat
        BY <1>t, <2>1 DEF TypeOK
      <4> QED BY <2>1, <3>1, <3>2, <3>3, <4>1 DEF StandInv
    <3> QED BY <3>4, <3>5, <3>6 DEF RefsAccounted
  <2> QED BY <2>2, <2>3
<1>e. CASE NextEnd
  <2>1. /\ pc = "ends" /\ pc' = "type" /\ lock' = [lock EXCEPT ![arc_addr] = Null]
        /\ UNCHANGED <<slot, head, ref, five, dead, result, arc_addr, next_arc, it_attr, found, returned, target, erase,
                       need, leaked>>
    BY <1>e DEF NextEnd, store, deletion, history
  <2>2. TypeOK'
    BY <1>t, <2>1 DEF TypeOK, Pcs
  <2>3. RefsAccounted'
    BY <2>1, <2>2, SameRefs
  <2>4. StandInv'
    BY <2>1 DEF StandInv
  <2> QED BY <2>3, <2>4
<1>f. CASE NextType
  <2>1. /\ pc = "type" /\ next_arc' = Null /\ arc_addr \in Arc /\ result = Null
        /\ UNCHANGED <<slot, head, ref, lock, five, dead, it_attr, found, target, erase, need>>
        /\ ~it_attr
    BY <1>f DEF NextType, store, deletion, StandInv
  <2>2. CASE pc' = "try"
    <3>1. arc_addr' = next_arc /\ leaked' = [leaked EXCEPT ![arc_addr] = @ + 1] /\ UNCHANGED <<result, returned>>
      BY <1>f, <2>2 DEF NextType
    <3>2. leaked' \in [Arc -> Nat] /\ leaked'[arc_addr] = leaked[arc_addr] + 1
          /\ \A b \in Arc \ {arc_addr} : leaked'[b] = leaked[b]
      BY <1>t, <2>1, <3>1 DEF TypeOK
    <3>3. TypeOK'
      BY <1>t, <2>1, <2>2, <3>1, <3>2 DEF TypeOK, Pcs
    <3>4. ASSUME NEW b \in Arc PROVE ref'[b] = RefsOf(b)'
      <4>1. ref[b] = RefsOf(b) /\ leaked[b] \in Nat
        BY <1>t DEF RefsAccounted, TypeOK
      <4>2. CASE b = arc_addr
        BY <2>1, <2>2, <3>1, <3>2, <4>1, <4>2 DEF RefsOf
      <4>3. CASE b # arc_addr
        BY <2>1, <2>2, <3>1, <3>2, <4>1, <4>3 DEF RefsOf
      <4> QED BY <4>2, <4>3
    <3>5. StandInv'
      BY <2>1, <2>2, <3>1 DEF StandInv
    <3> QED BY <3>3, <3>4, <3>5 DEF RefsAccounted
  <2>3. CASE pc' # "try"
    <3>1. /\ result' = arc_addr /\ arc_addr' = Null /\ pc' \in {"attr", "ready"} /\ leaked' = leaked
          /\ returned' = IF five THEN returned ELSE Append(returned, <<arc_addr, 0>>)
      BY <1>f, <2>3 DEF NextType
    <3>2. returned' \in Seq(Arc \X Nat)
      <4>1. <<arc_addr, 0>> \in Arc \X Nat /\ returned \in Seq(Arc \X Nat)
        BY <1>t, <2>1 DEF TypeOK
      <4>2. Append(returned, <<arc_addr, 0>>) \in Seq(Arc \X Nat)
        BY <4>1, AppendType
      <4> QED BY <3>1, <4>1, <4>2
    <3>3. TypeOK'
      BY <1>t, <2>1, <3>1, <3>2 DEF TypeOK, Pcs
    <3>4. ASSUME NEW b \in Arc PROVE ref'[b] = RefsOf(b)'
      <4>1. ref[b] = RefsOf(b) /\ leaked[b] \in Nat
        BY <1>t DEF RefsAccounted, TypeOK
      <4> QED BY <1>v, <2>1, <3>1, <4>1 DEF RefsOf
    <3>5. StandInv'
      BY <2>1, <3>1 DEF StandInv
    <3> QED BY <3>3, <3>4, <3>5 DEF RefsAccounted
  <2> QED BY <2>2, <2>3
<1> QED BY <1>a, <1>b, <1>c, <1>d, <1>e, <1>f, <1>g, <1>h DEF Walk

-----------------------------------------------------------------------------
\* Deletions and the list.

\* Steps that write to no live arc and change no lock of the deletion.
LiveSame == \A a \in Arc : slot[a].state = "live" \/ slot'[a].state = "live" => slot'[a] = slot[a]

LEMMA LiveSameArcs ==
  ASSUME LiveSame
  PROVE  ArcsOfV' = ArcsOfV /\ \A a \in ArcsOfV : slot'[a] = slot[a]
<1>1. \A a \in Arc : a \in ArcsOfV' <=> a \in ArcsOfV
  BY DEF LiveSame, ArcsOfV
<1> QED BY <1>1 DEF LiveSame, ArcsOfV

LEMMA DeleteFrame ==
  ASSUME TypeOK, DeleteInv, LiveSame, UNCHANGED <<head, erase, need, target, dead>>, Held' = Held
  PROVE  DeleteInv'
<1>1. ArcsOfV' = ArcsOfV /\ \A a \in erase : slot'[a] = slot[a]
  BY LiveSameArcs DEF DeleteInv
<1>2. head[W] # Null => slot'[head[W]] = slot[head[W]]
  BY DEF LiveSame, DeleteInv, TypeOK
<1> QED BY <1>1, <1>2 DEF DeleteInv

LEMMA OrderFrame ==
  ASSUME LiveSame, UNCHANGED head, NEW r, NEW lo, Ordered(r, lo, ArcsOfV, slot, head[V])
  PROVE  Ordered(r, lo, ArcsOfV', slot', head'[V])
<1>1. ArcsOfV' = ArcsOfV /\ \A a \in ArcsOfV : slot'[a] = slot[a]
  BY LiveSameArcs
<1>2. \A a \in ArcsOfV : slot[a].next # Null => slot[a].next \in ArcsOfV
  BY DEF Ordered, Behind
<1>3. \A a \in ArcsOfV : slot[a].prev # Null => slot[a].prev \in ArcsOfV
  BY DEF Ordered
<1> HIDE DEF ArcsOfV
<1> QED BY <1>1, <1>2, <1>3 DEF Ordered

\* The arc behind one is the same whatever is known about it.
LEMMA BehindUnique ==
  ASSUME NEW A \in SUBSET Arc, NEW r \in [Arc -> Int], NEW a \in Arc, NEW m, NEW n,
         \A b, c \in A : r[b] = r[c] => b = c,
         Behind(r, A, a, m), Behind(r, A, a, n)
  PROVE  m = n
BY DEF Behind

\* Neighbours in the list have different ranks.
LEMMA Neighbours ==
  ASSUME NEW r \in [Arc -> Int], NEW lo, NEW A \in SUBSET Arc, NEW s, NEW h, Ordered(r, lo, A, s, h),
         NEW a \in A
  PROVE  /\ s[a].next # Null => s[a].next \in A /\ r[s[a].next] > r[a]
         /\ s[a].prev # Null => s[a].prev \in A /\ r[s[a].prev] < r[a]
         /\ s[a].prev = Null \/ s[a].prev # s[a].next
<1>1. \A b \in A : s[b].next # Null => s[b].next \in A /\ r[s[b].next] > r[b]
  BY DEF Ordered, Behind
<1>2. s[a].prev # Null => s[a].prev \in A /\ s[s[a].prev].next = a
  BY DEF Ordered
<1>3. Null \notin A
  BY Constants
<1>4. s[a].prev # Null => r[s[a].prev] < r[a]
  BY <1>1, <1>2, <1>3
<1> QED BY <1>1, <1>2, <1>4

\* A list without arc a: what is before it is linked with what is behind.
LEMMA OrderWithout ==
  ASSUME NEW r \in [Arc -> Int], NEW lo, NEW A \in SUBSET Arc, NEW s, NEW h, Ordered(r, lo, A, s, h),
         NEW a \in A, NEW t,
         \A b \in A \ {a} : /\ t[b].next = IF b = s[a].prev THEN s[a].next ELSE s[b].next
                            /\ t[b].prev = IF b = s[a].next THEN s[a].prev ELSE s[b].prev
  PROVE  Ordered(r, lo, A \ {a}, t, IF h = a THEN s[a].next ELSE h)
<1> DEFINE p == s[a].prev
           n == s[a].next
           B == A \ {a}
           g == IF h = a THEN n ELSE h
<1>1. /\ n # Null => n \in B /\ r[n] > r[a] /\ s[n].prev = a
      /\ p # Null => p \in B /\ r[p] < r[a] /\ s[p].next = a
  <2>1. /\ n # Null => n \in A /\ r[n] > r[a]
        /\ p # Null => p \in A /\ r[p] < r[a]
    BY Neighbours
  <2>2. /\ n # Null => s[n].prev = a
        /\ p # Null => s[p].next = a
    BY DEF Ordered
  <2>3. r[a] \in Int
    OBVIOUS
  <2> QED BY <2>1, <2>2, <2>3
<1>2. Null \notin A /\ \A b \in A : r[b] \in Int
  BY Constants
<1>3. \A c \in A : r[c] > r[a] <=> n # Null /\ r[c] >= r[n]
  BY DEF Ordered, Behind
<1>o. /\ \A b \in Arc : r[b] > lo
      /\ \A b, c \in A : r[b] = r[c] => b = c
      /\ h # Null => h \in A
      /\ \A b \in A : /\ h # Null /\ r[h] <= r[b]
                      /\ s[b].prev = Null <=> h = b
                      /\ s[b].next # Null => s[b].next \in A /\ s[s[b].next].prev = b
                      /\ s[b].prev # Null => s[b].prev \in A /\ s[s[b].prev].next = b
                      /\ \A c \in A : r[c] > r[b] <=> s[b].next # Null /\ r[c] >= r[s[b].next]
  BY DEF Ordered, Behind
<1>4. g # Null => g \in B
  BY <1>1, <1>o
<1>5. ASSUME NEW b \in B PROVE g # Null /\ r[g] <= r[b]
  BY <1>1, <1>2, <1>3, <1>o
<1>6. ASSUME NEW b \in B PROVE Behind(r, B, b, t[b].next)
  <2>1. CASE b = p
    <3>1. t[b].next = n /\ s[b].next = a
      BY <1>1, <1>2, <2>1
    <3>2. \A c \in B : r[c] > r[b] <=> r[c] >= r[a]
      BY <1>2, <1>o, <3>1
    <3>3. \A c \in B : r[c] >= r[a] <=> r[c] > r[a]
      BY <1>2, <1>o
    <3> QED BY <1>1, <1>3, <3>1, <3>2, <3>3 DEF Behind
  <2>2. CASE b # p
    <3>1. t[b].next = s[b].next
      BY <2>2
    <3>2. s[b].next # a
      BY <1>2, <1>o, <2>2
    <3> QED BY <1>o, <3>1, <3>2 DEF Behind
  <2> QED BY <2>1, <2>2
<1>7. ASSUME NEW b \in B
      PROVE  /\ t[b].prev = Null <=> g = b
             /\ t[b].next # Null => t[t[b].next].prev = b
             /\ t[b].prev # Null => t[b].prev \in B /\ t[t[b].prev].next = b
  <2>1. /\ t[b].next = IF b = p THEN n ELSE s[b].next
        /\ t[b].prev = IF b = n THEN p ELSE s[b].prev
    OBVIOUS
  <2>2. t[b].prev = Null <=> g = b
    BY <1>1, <1>2, <1>o, <2>1
  <2>3. t[b].next # Null => t[t[b].next].prev = b
    <3>1. CASE b = p
      BY <1>1, <1>2, <1>o, <2>1, <3>1
    <3>2. CASE b # p
      <4>1. ASSUME s[b].next # Null PROVE s[b].next \in B /\ s[b].next # n
        BY <1>1, <1>2, <1>o, <3>2, <4>1
      <4> QED BY <1>o, <2>1, <3>2, <4>1
    <3> QED BY <3>1, <3>2
  <2>4. t[b].prev # Null => t[b].prev \in B /\ t[t[b].prev].next = b
    <3>1. CASE b = n
      BY <1>1, <1>2, <1>o, <2>1, <3>1
    <3>2. CASE b # n
      <4>1. ASSUME s[b].prev # Null PROVE s[b].prev \in B /\ s[b].prev # p
        BY <1>1, <1>2, <1>o, <3>2, <4>1
      <4> QED BY <1>o, <2>1, <3>2, <4>1
    <3> QED BY <3>1, <3>2
  <2> QED BY <2>2, <2>3, <2>4
<1> QED BY <1>o, <1>4, <1>5, <1>6, <1>7 DEF Ordered

\* A list with arc a in front.
LEMMA OrderWith ==
  ASSUME NEW r \in [Arc -> Int], NEW lo \in Int, NEW A \in SUBSET Arc, NEW s, NEW h, Ordered(r, lo, A, s, h),
         NEW a \in Arc \ A, NEW t,
         t[a].next = h, t[a].prev = Null,
         \A b \in A : t[b].next = s[b].next /\ t[b].prev = IF b = h THEN a ELSE s[b].prev,
         NEW q \in [Arc -> Int], q[a] = lo, \A b \in Arc \ {a} : q[b] = r[b],
         NEW l \in Int, l < lo
  PROVE  Ordered(q, l, A \cup {a}, t, a)
<1> DEFINE B == A \cup {a}
<1>1. q[a] = lo /\ \A b \in Arc : b # a => q[b] = r[b]
  OBVIOUS
<1>2. \A b \in Arc : r[b] \in Int /\ q[b] \in Int /\ b # Null
  BY Constants
<1>o. /\ \A b \in Arc : r[b] > lo
      /\ \A b, c \in A : r[b] = r[c] => b = c
      /\ h # Null => h \in A
      /\ \A b \in A : /\ h # Null /\ r[h] <= r[b]
                      /\ s[b].prev = Null <=> h = b
                      /\ s[b].next # Null => s[b].next \in A /\ s[s[b].next].prev = b
                      /\ s[b].prev # Null => s[b].prev \in A /\ s[s[b].prev].next = b
                      /\ \A c \in A : r[c] > r[b] <=> s[b].next # Null /\ r[c] >= r[s[b].next]
  BY DEF Ordered, Behind
<1>3. \A b \in Arc : q[b] > l
  BY <1>1, <1>2, <1>o
<1>4. \A b, c \in B : q[b] = q[c] => b = c
  BY <1>1, <1>2, <1>o
<1>5. \A b \in B : q[a] <= q[b]
  BY <1>1, <1>2, <1>o
<1>6. ASSUME NEW b \in B PROVE Behind(q, B, b, t[b].next)
  <2>1. CASE b = a
    <3>1. h # Null => h \in A /\ q[h] = r[h]
      BY <1>1, <1>o
    <3>2. \A c \in B : q[c] > q[a] <=> c \in A
      BY <1>1, <1>2, <1>o
    <3>3. \A c \in A : h # Null /\ q[c] >= q[h]
      BY <1>1, <1>2, <1>o
    <3>4. h # Null => ~(q[a] >= q[h])
      BY <1>1, <1>2, <1>o
    <3> QED BY <2>1, <3>1, <3>2, <3>3, <3>4 DEF Behind
  <2>2. CASE b # a
    <3>1. b \in A /\ t[b].next = s[b].next /\ q[b] = r[b] /\ (s[b].next # Null => s[b].next \in A)
      BY <1>1, <1>o, <2>2
    <3>2. \A c \in A : q[c] = r[c]
      BY <1>1
    <3>3. ~(q[a] > q[b]) /\ (s[b].next # Null => ~(q[a] >= q[s[b].next]))
      BY <1>1, <1>2, <1>o, <3>1, <3>2
    <3> QED BY <1>o, <3>1, <3>2, <3>3 DEF Behind
  <2> QED BY <2>1, <2>2
<1>7. ASSUME NEW b \in B
      PROVE  /\ t[b].prev = Null <=> a = b
             /\ t[b].next # Null => t[t[b].next].prev = b
             /\ t[b].prev # Null => t[b].prev \in B /\ t[t[b].prev].next = b
  <2>1. CASE b = a
    BY <1>o, <2>1
  <2>2. CASE b # a
    <3>1. b \in A /\ b # Null
      BY <1>2, <2>2
    <3>2. s[b].next # Null => s[b].next \in A /\ s[b].next # h
      BY <1>2, <1>o, <3>1
    <3> QED BY <1>2, <1>o, <3>1, <3>2
  <2> QED BY <2>1, <2>2
<1> QED BY <1>2, <1>3, <1>4, <1>5, <1>6, <1>7 DEF Ordered


-----------------------------------------------------------------------------
\* The steps of the other thread.

\* The locks of a deletion, as another thread sees them: a new arc, which takes
\* V, its end and its first arc, comes where nothing is to be erased next to it.
LEMMA ArcNewDelete ==
  ASSUME TypeOK, DeleteInv, NEW o \in {V, W}, NEW k \in Kinds, NEW a \in Arc,
         slot[a].state = "free", slot' = Fronted(o, k, a), head' = [head EXCEPT ![o] = a],
         o = V => Free(E) /\ ~dead /\ (head[V] # Null => Free(head[V])),
         UNCHANGED <<lock, dead, target, erase, need>>
  PROVE  /\ DeleteInv'
         /\ o = V => ArcsOfV' = ArcsOfV \cup {a}
         /\ o = W => ArcsOfV' = ArcsOfV /\ \A b \in ArcsOfV : slot'[b].next = slot[b].next /\ slot'[b].prev = slot[b].prev
<1>1. /\ slot'[a].state = "live" /\ slot'[a].of = o /\ slot'[a].next = head[o] /\ slot'[a].prev = Null
      /\ \A b \in Arc \ {a} : /\ slot'[b].state = slot[b].state /\ slot'[b].of = slot[b].of
                              /\ slot'[b].next = slot[b].next
                              /\ slot'[b].prev = IF b = head[o] THEN a ELSE slot[b].prev
  BY ArcNewFields
<1>2. Held' = Held
  BY DEF Held
<1>3. head'[o] = a /\ (o = V => head'[W] = head[W])
  BY Constants DEF TypeOK
<1>4. a \notin ArcsOfV /\ ArcsOfV \subseteq Arc
  BY DEF ArcsOfV
<1>5. head[W] # Null => head[W] \in Arc \ {a} /\ head[W] \notin ArcsOfV
  BY Constants DEF DeleteInv, ArcsOfV, TypeOK
<1>6. \A b \in Arc : b \in ArcsOfV' <=> b \in ArcsOfV \/ (o = V /\ b = a)
  BY <1>1, Constants DEF ArcsOfV
<1>a. CASE o = V
  <2>1. ArcsOfV' = ArcsOfV \cup {a}
    BY <1>6, <1>a DEF ArcsOfV
  <2>2. target # E
    BY <1>a, IteratorsAssumption DEF DeleteInv, Held, Free
  <2>3. head[V] \notin erase
    <3> SUFFICES ASSUME head[V] \in erase PROVE FALSE
      OBVIOUS
    <3>1. target \in Arc
      BY <2>2 DEF DeleteInv, TypeOK, Lockable
    <3>2. head[V] \in Held /\ head[V] # Null
      BY <3>1, <1>4, Constants DEF DeleteInv
    <3> QED BY <1>a, <3>2, IteratorsAssumption DEF Held, Free
  <2>4. \A b \in erase : slot'[b].next = slot[b].next /\ slot'[b].prev = slot[b].prev
    BY <1>1, <1>4, <1>a, <2>3 DEF DeleteInv
  <2>5. head'[W] # Null => slot'[head'[W]].of = W /\ slot'[head'[W]].state = "live"
    BY <1>1, <1>3, <1>5, <1>a DEF DeleteInv
  <2> HIDE DEF ArcsOfV, Held
  <2>6. DeleteInv'
    BY <1>2, <1>a, <2>1, <2>2, <2>4, <2>5 DEF DeleteInv
  <2> QED BY <1>a, <2>1, <2>6, Constants
<1>b. CASE o = W
  <2>1. ArcsOfV' = ArcsOfV
    BY <1>6, <1>b, Constants DEF ArcsOfV
  <2>2. \A b \in ArcsOfV : slot'[b].next = slot[b].next /\ slot'[b].prev = slot[b].prev
    BY <1>1, <1>4, <1>5, <1>b, Constants
  <2>3. head'[W] # Null => slot'[head'[W]].of = W /\ slot'[head'[W]].state = "live"
    BY <1>1, <1>3, <1>b
  <2> HIDE DEF ArcsOfV, Held
  <2>4. DeleteInv'
    BY <1>2, <2>1, <2>2, <2>3 DEF DeleteInv
  <2> QED BY <1>b, <2>1, <2>2, <2>4, Constants
<1> QED BY <1>a, <1>b

\* What has to be locked for an arc is in the table.
LEMMA LockTableHas ==
  ASSUME NEW es \in SUBSET Arc, NEW a \in es
  PROVE  ({a, V, E, slot[a].next, slot[a].prev} \ {Null}) \subseteq LockTable(es)
<1> DEFINE U == UNION {{slot[b].next, slot[b].prev} : b \in es}
<1>1. {slot[a].next, slot[a].prev} \in {{slot[b].next, slot[b].prev} : b \in es}
  OBVIOUS
<1>2. slot[a].next \in U /\ slot[a].prev \in U
  BY <1>1, Zenon
<1>3. LockTable(es) = es \cup {V, E} \cup (U \ {Null})
  BY DEF LockTable
<1> HIDE DEF U
<1> QED BY <1>2, <1>3

LEMMA LockDelete ==
  ASSUME TypeOK, DeleteInv, (\E x \in Arc \cup {E} : ElementFree(x)) \/ FreeLock \/ FreeUnlock
  PROVE  DeleteInv'
<1>1. UNCHANGED <<slot, head>>
  BY DEF ElementFree, FreeLock, FreeUnlock, store
<1>2. ArcsOfV' = ArcsOfV /\ ArcsOfV \subseteq Arc
  BY <1>1 DEF ArcsOfV
<1>a. ASSUME NEW x \in Arc \cup {E}, ElementFree(x) PROVE DeleteInv'
  <2> DEFINE es == IF x = E THEN {a \in Arc : slot[a].state = "live" /\ slot[a].of = V} ELSE {x}
  <2>1. /\ lock' = [lock EXCEPT ![x] = "deleter"] /\ target' = x /\ dead' = dead
        /\ erase' = es /\ need' = LockTable(es) \ {x}
    BY <1>a DEF ElementFree
  <2>2. es \subseteq ArcsOfV /\ (x = E => ArcsOfV \subseteq es) /\ (x \in Arc => es = {x})
    BY <1>a, Constants DEF ElementFree, ArcsOfV
  <2> HIDE DEF es
  <2>3. x \in Held'
    BY <2>1, Constants DEF Held, TypeOK
  <2>4. ASSUME NEW a \in erase'
        PROVE  ({a, V, E, slot[a].next, slot[a].prev} \ {Null}) \subseteq need' \cup Held'
    <3>1. ({a, V, E, slot[a].next, slot[a].prev} \ {Null}) \subseteq LockTable(es)
      BY <1>2, <2>1, <2>2, LockTableHas
    <3>2. LockTable(es) \subseteq need' \cup Held'
      BY <2>1, <2>3
    <3> QED BY <3>1, <3>2
  <2>5. x # V /\ x # Null /\ (x = E => x \notin Arc)
    BY Constants
  <2> HIDE DEF ArcsOfV, Held
  <2> QED BY <1>1, <1>2, <2>1, <2>2, <2>3, <2>4, <2>5 DEF DeleteInv
<1>b. ASSUME FreeLock PROVE DeleteInv'
  <2>1. PICK x \in need : lock' = [lock EXCEPT ![x] = "deleter"] /\ need' = need \ {x}
    BY <1>b DEF FreeLock
  <2>2. UNCHANGED <<dead, target, erase>>
    BY <1>b DEF FreeLock
  <2>3. Held' = Held \cup {x}
    BY <2>1 DEF Held, TypeOK
  <2> HIDE DEF ArcsOfV, Held
  <2>4. need \cup Held \subseteq need' \cup Held'
    BY <2>1, <2>3
  <2>5. \A a \in erase : ({a, V, E, slot[a].next, slot[a].prev} \ {Null}) \subseteq need' \cup Held'
    BY <2>4 DEF DeleteInv
  <2>6. Held \subseteq Held'
    BY <2>3
  <2> QED BY <1>1, <1>2, <2>2, <2>5, <2>6 DEF DeleteInv
<1>c. ASSUME FreeUnlock PROVE DeleteInv'
  <2>1. target' = Null /\ erase = {} /\ erase' = {} /\ dead' = (dead \/ target = E)
    BY <1>c DEF FreeUnlock
  <2>2. dead' => ArcsOfV' = {}
    BY <1>2, <2>1 DEF DeleteInv
  <2> HIDE DEF ArcsOfV, Held
  <2> QED BY <1>1, <2>1, <2>2, Constants DEF DeleteInv
<1> QED BY <1>a, <1>b, <1>c

\* An arc leaves the list.
LEMMA EraseDelete ==
  ASSUME TypeOK, DeleteInv, NEW a \in erase, need = {}, slot[a].prev = Null \/ slot[a].prev # slot[a].next,
         slot' = TakenOut(a), head' = [head EXCEPT ![V] = IF @ = a THEN slot[a].next ELSE @],
         erase' = erase \ {a}, UNCHANGED <<lock, dead, target, need>>
  PROVE  DeleteInv' /\ ArcsOfV' = ArcsOfV \ {a}
<1>1. a \in ArcsOfV /\ a \in Arc
  BY DEF DeleteInv, ArcsOfV
<1>2. /\ slot'[a].state # "live"
      /\ \A b \in Arc \ {a} :
           /\ slot'[b].state = slot[b].state /\ slot'[b].of = slot[b].of
           /\ slot'[b].next = IF b = slot[a].prev THEN slot[a].next ELSE slot[b].next
           /\ slot'[b].prev = IF b = slot[a].next THEN slot[a].prev ELSE slot[b].prev
  BY <1>1, EraseFields
<1>3. ArcsOfV' = ArcsOfV \ {a}
  BY <1>2 DEF ArcsOfV
<1>4. Held' = Held /\ head'[W] = head[W]
  BY Constants DEF Held, TypeOK
<1>5. head[W] # Null => slot'[head[W]].of = W /\ slot'[head[W]].state = "live"
  BY <1>1, <1>2, Constants DEF DeleteInv, ArcsOfV, TypeOK
<1>6. erase \subseteq ArcsOfV /\ ArcsOfV \subseteq Arc
  BY DEF DeleteInv, ArcsOfV
<1> HIDE DEF ArcsOfV, Held
<1>7. ASSUME NEW b \in erase'
      PROVE  ({b, V, E, slot'[b].next, slot'[b].prev} \ {Null}) \subseteq need' \cup Held'
  <2>1. /\ ({a, V, E, slot[a].next, slot[a].prev} \ {Null}) \subseteq need \cup Held
        /\ ({b, V, E, slot[b].next, slot[b].prev} \ {Null}) \subseteq need \cup Held
    BY DEF DeleteInv
  <2>2. /\ slot'[b].next \in {slot[a].next, slot[b].next}
        /\ slot'[b].prev \in {slot[a].prev, slot[b].prev}
    BY <1>2, <1>6
  <2> QED BY <1>4, <2>1, <2>2
<1> QED BY <1>3, <1>4, <1>5, <1>7 DEF DeleteInv

-----------------------------------------------------------------------------
\* The walk.

\* While the walk begins, and after the iterator has gone, it is at no arc.
LEMMA OffList ==
  ASSUME StandInv', NEW r \in [Arc -> Int],
         Begins' \/ pc' = "gone", kept' \subseteq ArcsOfV', IsInjective(returned'),
         Begins' => returned' = <<>>
  PROVE  Walked(r)'
<1>1. pc' \in {"none", "ready", "gone"} /\ result' = Null
  BY DEF Begins, StandInv
<1>2. At' = Null
  BY <1>1 DEF At
<1>3. Before(r)' = {}
  BY <1>1, <1>2 DEF Before
<1>4. ~Begins' => pc' = "gone"
  OBVIOUS
<1>5. \A x : ~Left(r, x)'
  BY <1>1, <1>3, Constants DEF Left, Pending, StandInv
<1> HIDE DEF At, Before, Begins, ArcsOfV, Left
<1> QED BY <1>1, <1>2, <1>3, <1>4, <1>5 DEF Walked

\* The other thread leaves the walk as it is, when it writes to nothing that
\* the walk reads, and the arcs before the walk are those that were there.
LEMMA WalkKept ==
  ASSUME TypeOK, StandInv, StandInv', NEW r \in [Arc -> Int], NEW q \in [Arc -> Int], Walked(r), History,
         UNCHANGED <<pc, result, arc_addr, next_arc, it_attr, found, returned, five>>,
         pc = "try" /\ arc_addr # Null => arc_addr \in ArcsOfV',
         At # Null => slot'[At].of = V /\ Behind(q, ArcsOfV', At, slot'[At].next),
         pc = "ends" => arc_addr \in ArcsOfV',
         pc \in {"ends", "type"} => next_arc = slot'[arc_addr].next,
         Before(q)' \subseteq Before(r),
         \A c \in ArcsOfV \cap ArcsOfV' : /\ c \in Before(r) => c \in Before(q)'
                                          /\ slot'[c].kind = slot[c].kind
  PROVE  Walked(q)'
<1>1. At' = At /\ Begins' = Begins
  BY DEF At, Begins
<1>2. CASE Begins
  <2>1. kept' = ArcsOfV'
    BY <1>2 DEF History
  <2>2. IsInjective(returned') /\ returned' = <<>>
    BY <1>2 DEF Walked
  <2> HIDE DEF Begins, ArcsOfV, Walked
  <2> QED BY <1>1, <1>2, <2>1, <2>2, OffList
<1>3. CASE ~Begins
  <2>1. had' = {a \in had : slot'[a].state # "free"} /\ kept' = kept \cap ArcsOfV'
    BY <1>3 DEF History
  <2>2. Before(q)' \subseteq ArcsOfV'
    BY DEF Before
  <2>3. \A c \in ArcsOfV' : slot'[c].state # "free"
    BY DEF ArcsOfV
  <2>4. Before(q)' \subseteq had'
    BY <1>3, <2>1, <2>2, <2>3 DEF Walked
  <2>5. \A c \in ArcsOfV \cap ArcsOfV' : Results(c)' = Results(c)
    BY DEF Results
  <2>6. kept \subseteq ArcsOfV /\ \A x \in Range(returned) : ~Left(r, x)
    BY DEF Walked
  <2>p. \A x : Pending(x)' = Pending(x)
    BY <1>1 DEF Pending
  <2>7. \A x \in Range(returned') : ~Left(q, x)'
    <3> HIDE DEF Pending, Before
    <3> QED BY <2>6, <2>p DEF Left
  <2>8. ASSUME pc \notin {"gone", "none", "end"}, NEW c \in kept', NEW x \in Results(c)'
        PROVE  x \in Range(returned') \/ Left(q, x)'
    <3>1. c \in kept /\ c \in ArcsOfV \cap ArcsOfV' /\ x \in Results(c)
      BY <2>1, <2>5, <2>6, <2>8
    <3>2. x \in Range(returned) \/ Left(r, x)
      BY <1>3, <2>8, <3>1 DEF Walked
    <3>3. x[1] = c
      BY <3>1 DEF Results
    <3> HIDE DEF Pending, Before, ArcsOfV
    <3> QED BY <2>p, <3>1, <3>2, <3>3 DEF Left
  <2> HIDE DEF Begins, ArcsOfV, At, Before, Results, Left
  <2> QED BY <1>1, <1>3, <2>1, <2>4, <2>7, <2>8 DEF Walked
<1> QED BY <1>2, <1>3

\* Where the walk is, nothing that a free slot is made of.
LEMMA AtHeld ==
  ASSUME RefsAccounted, StandInv, At # Null
  PROVE  At \in Arc /\ slot[At].state # "free" /\ (slot[At].state = "live" => ref[At] > 1)
         /\ (pc \in {"ends", "type"} => At = arc_addr) /\ (pc \notin {"ends", "type"} => At = result)
<1>1. At \in Arc
  BY DEF At, StandInv, RefsAccounted, TypeOK
<1>2. result = At \/ (pc \in {"ends", "type"} /\ arc_addr = At)
  BY DEF At
<1>3. (pc \in {"ends", "type"} => At = arc_addr) /\ (pc \notin {"ends", "type"} => At = result)
  BY DEF At
<1> HIDE DEF At
<1> QED BY <1>1, <1>2, <1>3, Counts

\* An arc is put in front: behind the walk.
LEMMA ArcNewList ==
  ASSUME RefsAccounted, StandInv, DeleteInv, ListInv, History, NEW o \in {V, W}, NEW k \in KindsAsked,
         ArcNew(o, k)
  PROVE  DeleteInv' /\ ListInv'
<1>1. PICK a \in Arc :
        /\ slot[a].state = "free"
        /\ slot' = Fronted(o, k, a)
        /\ head' = [head EXCEPT ![o] = a] /\ ref' = [ref EXCEPT ![a] = 1]
  BY DEF ArcNew, Fronted
<1>2. UNCHANGED <<lock, five, dead, pc, result, arc_addr, next_arc, it_attr, found, returned, target, erase, need, gap, stray>>
  BY DEF ArcNew, iter, deletion, history
<1>3. k \in Kinds /\ TypeOK /\ StandInv'
  BY ArcNewRefs DEF KindsAsked, Kinds, RefsAccounted
<1>4. o = V => Free(E) /\ ~dead /\ (head[V] # Null => Free(head[V]))
  BY DEF ArcNew
<1>5. /\ DeleteInv'
      /\ o = V => ArcsOfV' = ArcsOfV \cup {a}
      /\ o = W => ArcsOfV' = ArcsOfV /\ \A b \in ArcsOfV : slot'[b].next = slot[b].next /\ slot'[b].prev = slot[b].prev
  BY <1>1, <1>2, <1>3, <1>4, ArcNewDelete
<1>6. PICK r \in [Arc -> Int], lo \in Int :
        /\ Ordered(r, lo, ArcsOfV, slot, head[V])
        /\ ~gap => Walked(r) /\ ~stray /\ pc # "aborted"
  BY DEF ListInv
<1>7. /\ slot'[a].next = head[o] /\ slot'[a].prev = Null
      /\ \A b \in Arc \ {a} : /\ slot'[b].next = slot[b].next /\ slot'[b].of = slot[b].of
                              /\ slot'[b].kind = slot[b].kind
                              /\ slot'[b].prev = IF b = head[o] THEN a ELSE slot[b].prev
  BY <1>1, <1>3, ArcNewFields
<1>8. a \notin ArcsOfV /\ ArcsOfV \in SUBSET Arc /\ Null \notin Arc
  BY <1>1, Constants DEF ArcsOfV
<1>9. At # Null => At \in Arc /\ At # a
  BY <1>1, AtHeld
<1>10. ASSUME Walked(r) PROVE /\ pc = "try" /\ arc_addr # Null => arc_addr \in ArcsOfV
                              /\ At # Null => slot[At].of = V /\ Behind(r, ArcsOfV, At, slot[At].next)
                              /\ pc = "ends" => arc_addr \in ArcsOfV
                              /\ pc \in {"ends", "type"} => next_arc = slot[arc_addr].next
  BY <1>10 DEF Walked
<1>11. pc \in {"ends", "type"} => arc_addr = At /\ At # Null
  BY Constants DEF At, StandInv
<1>12. At' = At
  BY <1>2 DEF At
<1>o. \A b \in Arc : r[b] > lo /\ r[b] \in Int
  BY <1>6 DEF Ordered
<1>a. CASE o = V
  <2> DEFINE q == [r EXCEPT ![a] = lo]
  <2>1. q \in [Arc -> Int] /\ q[a] = lo /\ \A b \in Arc \ {a} : q[b] = r[b]
    OBVIOUS
  <2>2. Ordered(q, lo - 1, ArcsOfV', slot', head'[V])
    <3>1. head'[V] = a
      BY <1>1, <1>3, <1>a DEF TypeOK
    <3>2. \A b \in ArcsOfV : slot'[b].next = slot[b].next /\ slot'[b].prev = IF b = head[V] THEN a ELSE slot[b].prev
      BY <1>7, <1>8, <1>a
    <3>3. a \in Arc \ ArcsOfV /\ slot'[a].next = head[V] /\ slot'[a].prev = Null
      BY <1>7, <1>8, <1>a
    <3>5. ArcsOfV \in SUBSET Arc /\ Ordered(r, lo, ArcsOfV, slot, head[V])
      BY <1>6, <1>8
    <3> HIDE DEF ArcsOfV
    <3>6. lo - 1 \in Int /\ lo - 1 < lo
      OBVIOUS
    <3> HIDE DEF q
    <3>4. Ordered(q, lo - 1, ArcsOfV \cup {a}, slot', a)
      BY <2>1, <3>2, <3>3, <3>5, <3>6, OrderWith
    <3> QED BY <1>5, <1>a, <3>1, <3>4
  <2> HIDE DEF q
  <2>3. ASSUME ~gap PROVE Walked(q)'
    <3>0. Walked(r)
      BY <1>6, <2>3
    <3>w. /\ pc = "try" /\ arc_addr # Null => arc_addr \in ArcsOfV
          /\ At # Null => slot[At].of = V /\ Behind(r, ArcsOfV, At, slot[At].next)
          /\ pc = "ends" => arc_addr \in ArcsOfV
          /\ pc \in {"ends", "type"} => next_arc = slot[arc_addr].next
      BY <1>10, <3>0
    <3>v. ArcsOfV' = ArcsOfV \cup {a}
      BY <1>5, <1>a
    <3>1. At # Null => slot'[At].of = V /\ Behind(q, ArcsOfV', At, slot'[At].next)
      <4> SUFFICES ASSUME At # Null PROVE slot'[At].of = V /\ Behind(q, ArcsOfV', At, slot'[At].next)
        OBVIOUS
      <4>1. slot[At].of = V /\ Behind(r, ArcsOfV, At, slot[At].next)
        BY <3>w
      <4>2. At \in Arc \ {a} /\ slot'[At].next = slot[At].next /\ slot'[At].of = slot[At].of
        BY <1>7, <1>9
      <4> HIDE DEF ArcsOfV, At
      <4>3. slot[At].next # Null => slot[At].next \in ArcsOfV
        BY <4>1 DEF Behind
      <4>4. \A c \in ArcsOfV : q[c] = r[c]
        BY <1>8, <2>1
      <4>5. ~(q[a] > q[At]) /\ (slot[At].next # Null => ~(q[a] >= q[slot[At].next]))
        BY <1>8, <1>o, <2>1, <4>2, <4>3
      <4>6. q[At] = r[At] /\ (slot[At].next # Null => q[slot[At].next] = r[slot[At].next])
        BY <2>1, <4>2, <4>3, <4>4
      <4> QED BY <3>v, <4>1, <4>2, <4>3, <4>4, <4>5, <4>6 DEF Behind
    <3>2. pc \in {"ends", "type"} => next_arc = slot'[arc_addr].next
      BY <1>7, <1>9, <1>11, <3>w
    <3>3. Before(q)' = Before(r)
      <4>1. CASE pc = "try"
        <5>1. ASSUME arc_addr # Null, NEW c \in ArcsOfV'
              PROVE  q[c] >= q[arc_addr] <=> c \in ArcsOfV /\ r[c] >= r[arc_addr]
          BY <1>8, <1>o, <2>1, <3>v, <3>w, <4>1, <5>1
        <5>2. ArcsOfV \subseteq ArcsOfV'
          BY <3>v
        <5>3. /\ Before(q)' = {c \in ArcsOfV' : arc_addr # Null /\ q[c] >= q[arc_addr]}
              /\ Before(r) = {c \in ArcsOfV : arc_addr # Null /\ r[c] >= r[arc_addr]}
          BY <1>2, <4>1 DEF Before
        <5> HIDE DEF ArcsOfV
        <5> QED BY <5>1, <5>2, <5>3
      <4>2. CASE pc # "try"
        <5>1. ASSUME At # Null, NEW c \in ArcsOfV'
              PROVE  q[c] > q[At] <=> c \in ArcsOfV /\ r[c] > r[At]
          BY <1>8, <1>9, <1>o, <2>1, <3>v, <5>1
        <5>2. ArcsOfV \subseteq ArcsOfV'
          BY <3>v
        <5>3. /\ Before(q)' = {c \in ArcsOfV' : At # Null /\ q[c] > q[At]}
              /\ Before(r) = {c \in ArcsOfV : At # Null /\ r[c] > r[At]}
          BY <1>2, <1>12, <4>2 DEF Before
        <5> HIDE DEF ArcsOfV, At
        <5> QED BY <5>1, <5>2, <5>3
      <4> QED BY <4>1, <4>2
    <3>4. \A c \in ArcsOfV : slot'[c].kind = slot[c].kind
      BY <1>7, <1>8
    <3>5. ArcsOfV \subseteq ArcsOfV'
      BY <3>v
    <3> HIDE DEF ArcsOfV, At
    <3>6. /\ pc = "try" /\ arc_addr # Null => arc_addr \in ArcsOfV'
          /\ pc = "ends" => arc_addr \in ArcsOfV'
      BY <3>5, <3>w
    <3> QED BY <1>2, <1>3, <2>1, <3>0, <3>1, <3>2, <3>3, <3>4, <3>6, WalkKept
  <2>4. ListInv'
    BY <1>2, <1>6, <2>1, <2>2, <2>3 DEF ListInv
  <2> QED BY <1>5, <2>4
<1>b. CASE o = W
  <2>1. ArcsOfV' = ArcsOfV /\ \A b \in ArcsOfV : slot'[b].next = slot[b].next /\ slot'[b].prev = slot[b].prev
    BY <1>5, <1>b
  <2>2. Ordered(r, lo, ArcsOfV', slot', head'[V])
    <3>1. head'[V] = head[V]
      BY <1>1, <1>3, <1>b, Constants DEF TypeOK
    <3>2. \A b \in ArcsOfV : /\ slot[b].next # Null => slot[b].next \in ArcsOfV
                             /\ slot[b].prev # Null => slot[b].prev \in ArcsOfV
      BY <1>6 DEF Ordered, Behind
    <3> HIDE DEF ArcsOfV
    <3> QED BY <1>6, <2>1, <3>1, <3>2 DEF Ordered
  <2>3. ASSUME ~gap PROVE Walked(r)'
    <3>0. Walked(r)
      BY <1>6, <2>3
    <3>w. /\ pc = "try" /\ arc_addr # Null => arc_addr \in ArcsOfV
          /\ At # Null => slot[At].of = V /\ Behind(r, ArcsOfV, At, slot[At].next)
          /\ pc = "ends" => arc_addr \in ArcsOfV
          /\ pc \in {"ends", "type"} => next_arc = slot[arc_addr].next
      BY <1>10, <3>0
    <3>1. At # Null => slot'[At].of = V /\ Behind(r, ArcsOfV', At, slot'[At].next)
      BY <1>7, <1>9, <2>1, <3>w
    <3>2. pc \in {"ends", "type"} => next_arc = slot'[arc_addr].next
      BY <1>7, <1>9, <1>11, <3>w
    <3>3. Before(r)' = Before(r)
      BY <1>2, <1>12, <2>1 DEF Before
    <3>4. \A c \in ArcsOfV : slot'[c].kind = slot[c].kind
      BY <1>7, <1>8
    <3> HIDE DEF ArcsOfV, At
    <3> QED BY <1>2, <1>3, <2>1, <3>0, <3>1, <3>2, <3>3, <3>4, <3>w, WalkKept
  <2>4. ListInv'
    BY <1>2, <1>6, <2>2, <2>3 DEF ListInv
  <2> QED BY <1>5, <2>4
<1> QED BY <1>a, <1>b

\* Among fewer arcs the one behind stays, unless it is the one that went.
LEMMA BehindWithout ==
  ASSUME NEW r \in [Arc -> Int], NEW A \in SUBSET Arc, NEW a \in A, NEW b, NEW n,
         Behind(r, A, b, n), n # a
  PROVE  Behind(r, A \ {a}, b, n)
BY DEF Behind

\* An arc is taken out: also the one that the walk is at, which stays as it was.
LEMMA EraseList ==
  ASSUME RefsAccounted, StandInv, DeleteInv, ListInv, History, FreeErase
  PROVE  RefsAccounted' /\ StandInv' /\ DeleteInv' /\ ListInv'
<1>1. PICK a \in erase :
        /\ slot' = TakenOut(a)
        /\ head' = [head EXCEPT ![V] = IF @ = a THEN slot[a].next ELSE @]
        /\ ref' = [ref EXCEPT ![a] = @ - 1] /\ erase' = erase \ {a}
        /\ leaked' = [leaked EXCEPT ![a] = IF Erased(a) THEN 0 ELSE @]
        /\ gap' = (gap \/ Ahead = a)
  BY DEF FreeErase, TakenOut
<1>2. need = {} /\ UNCHANGED <<lock, five, dead, iter, target, need, stray>>
  BY DEF FreeErase
<1>3. UNCHANGED <<pc, result, arc_addr, next_arc, it_attr, found, returned>>
  BY <1>2 DEF iter
<1>4. TypeOK /\ a \in ArcsOfV /\ ArcsOfV \in SUBSET Arc /\ a \in Arc /\ slot[a].state = "live" /\ Null \notin Arc
  BY Constants DEF RefsAccounted, DeleteInv, ArcsOfV
<1>5. PICK r \in [Arc -> Int], lo \in Int :
        /\ Ordered(r, lo, ArcsOfV, slot, head[V])
        /\ ~gap => Walked(r) /\ ~stray /\ pc # "aborted"
  BY DEF ListInv
<1>6. /\ slot[a].next # Null => slot[a].next \in ArcsOfV /\ r[slot[a].next] > r[a]
      /\ slot[a].prev # Null => slot[a].prev \in ArcsOfV /\ r[slot[a].prev] < r[a]
      /\ slot[a].prev = Null \/ slot[a].prev # slot[a].next
  <2> HIDE DEF ArcsOfV
  <2> QED BY <1>4, <1>5, Neighbours
<1>7. RefsAccounted' /\ StandInv'
  BY <1>1, <1>2, <1>4, <1>6, EraseRefs
<1>8. DeleteInv' /\ ArcsOfV' = ArcsOfV \ {a}
  BY <1>1, <1>2, <1>4, <1>6, EraseDelete
<1>9. /\ ref[a] # 1 => /\ slot'[a].state = "marked" /\ slot'[a].of = slot[a].of
                       /\ slot'[a].next = slot[a].next /\ slot'[a].kind = slot[a].kind
      /\ \A b \in Arc \ {a} :
           /\ slot'[b].state = slot[b].state /\ slot'[b].of = slot[b].of /\ slot'[b].kind = slot[b].kind
           /\ slot'[b].next = IF b = slot[a].prev THEN slot[a].next ELSE slot[b].next
           /\ slot'[b].prev = IF b = slot[a].next THEN slot[a].prev ELSE slot[b].prev
  BY <1>1, <1>4, <1>6, EraseFields
<1>10. Ordered(r, lo, ArcsOfV', slot', head'[V])
  <2>1. head'[V] = IF head[V] = a THEN slot[a].next ELSE head[V]
    BY <1>1, <1>4 DEF TypeOK
  <2>2. \A b \in ArcsOfV \ {a} : /\ slot'[b].next = IF b = slot[a].prev THEN slot[a].next ELSE slot[b].next
                                 /\ slot'[b].prev = IF b = slot[a].next THEN slot[a].prev ELSE slot[b].prev
    BY <1>4, <1>9
  <2> HIDE DEF ArcsOfV
  <2>3. Ordered(r, lo, ArcsOfV \ {a}, slot', IF head[V] = a THEN slot[a].next ELSE head[V])
    BY <1>4, <1>5, <2>2, OrderWithout
  <2> QED BY <1>8, <2>1, <2>3
<1>11. ASSUME ~gap' PROVE Walked(r)'
  <2>0. Walked(r) /\ Ahead # a /\ pc # "aborted"
    BY <1>1, <1>5, <1>11
  <2>w. /\ pc = "try" /\ arc_addr # Null => arc_addr \in ArcsOfV
        /\ At # Null => slot[At].of = V /\ Behind(r, ArcsOfV, At, slot[At].next)
        /\ pc = "ends" => arc_addr \in ArcsOfV
        /\ pc \in {"ends", "type"} => next_arc = slot[arc_addr].next
    BY <2>0 DEF Walked
  <2>1. pc = "try" => arc_addr # a
    <3>1. pc = "try" => result = Null
      BY DEF StandInv
    <3> QED BY <2>0, <3>1 DEF Ahead
  <2>2. pc = "type" => slot[arc_addr].next # a
    <3>1. pc = "type" => result = Null
      BY DEF StandInv
    <3> QED BY <2>0, <2>w, <3>1 DEF Ahead
  <2>3. pc = "ends" => arc_addr # a /\ arc_addr # slot[a].prev
    <3>1. ({a, slot[a].prev} \ {Null}) \subseteq Held
      BY <1>2 DEF DeleteInv
    <3>2. pc = "ends" => arc_addr \in Arc /\ arc_addr \notin Held
      BY DEF StandInv, Held
    <3> QED BY <1>4, <3>1, <3>2
  <2>4. pc \notin {"ends", "type"} /\ result # Null /\ slot[result].state = "marked" => slot[result].next # a
    <3>1. pc = "try" => result = Null
      BY DEF StandInv
    <3> QED BY <2>0, <3>1 DEF Ahead
  <2>5. /\ slot[a].prev # Null => slot[slot[a].prev].next = a
    BY <1>4, <1>5 DEF Ordered
  <2>6. At # Null => At \in Arc /\ slot[At].state # "free" /\ (slot[At].state = "live" => ref[At] > 1)
                     /\ (pc \in {"ends", "type"} => At = arc_addr) /\ (pc \notin {"ends", "type"} => At = result)
    BY AtHeld
  <2>7. At # Null => slot'[At].of = V /\ Behind(r, ArcsOfV', At, slot'[At].next)
    <3> SUFFICES ASSUME At # Null PROVE slot'[At].of = V /\ Behind(r, ArcsOfV', At, slot'[At].next)
      OBVIOUS
    <3>0. slot[At].of = V /\ Behind(r, ArcsOfV, At, slot[At].next)
      BY <2>w
    <3>1. CASE At = a
      <4>1. slot'[a].next = slot[a].next /\ slot'[a].of = slot[a].of /\ slot[a].next # a
        <5>1. ref[a] # 1
          BY <1>4, <2>6, <3>1
        <5>2. slot[a].next # a
          BY <1>4, <1>6
        <5> QED BY <1>9, <5>1, <5>2
      <4> HIDE DEF ArcsOfV, At
      <4>2. Behind(r, ArcsOfV \ {a}, a, slot[a].next)
        BY <1>4, <3>0, <3>1, <4>1, BehindWithout
      <4> QED BY <1>8, <3>0, <3>1, <4>1, <4>2
    <3>2. CASE At # a /\ At \in ArcsOfV
      <4>1. At \in ArcsOfV' /\ slot'[At].of = slot[At].of
        BY <1>8, <1>9, <2>6, <3>2
      <4> HIDE DEF ArcsOfV, At
      <4>2. Behind(r, ArcsOfV', At, slot'[At].next)
        BY <1>10, <4>1 DEF Ordered
      <4> QED BY <3>0, <4>1, <4>2
    <3>3. CASE At # a /\ At \notin ArcsOfV
      <4>1. slot[At].state = "marked"
        BY <1>4, <2>6, <3>0, <3>3, SlotFields DEF ArcsOfV, TypeOK
      <4>2. slot[At].next # a
        <5>1. CASE pc = "ends"
          BY <2>6, <2>w, <3>3, <5>1
        <5>2. CASE pc = "type"
          BY <2>2, <2>6, <5>2
        <5>3. CASE pc \notin {"ends", "type"}
          BY <2>4, <2>6, <4>1, <5>3
        <5> QED BY <5>1, <5>2, <5>3
      <4>3. slot'[At].next = slot[At].next /\ slot'[At].of = slot[At].of
        BY <1>6, <1>9, <2>6, <3>3
      <4> HIDE DEF ArcsOfV, At
      <4>4. Behind(r, ArcsOfV \ {a}, At, slot[At].next)
        BY <1>4, <3>0, <4>2, BehindWithout
      <4> QED BY <1>8, <3>0, <4>3, <4>4
    <3> QED BY <3>1, <3>2, <3>3
  <2>8. pc \in {"ends", "type"} => next_arc = slot'[arc_addr].next
    <3> SUFFICES ASSUME pc \in {"ends", "type"} PROVE next_arc = slot'[arc_addr].next
      OBVIOUS
    <3>1. arc_addr \in Arc /\ At = arc_addr /\ arc_addr # Null
      BY Constants DEF StandInv, At
    <3>2. CASE arc_addr = a
      <4>1. ref[a] # 1
        BY <1>4, <2>6, <3>1, <3>2
      <4> QED BY <1>9, <2>w, <3>2, <4>1
    <3>3. CASE arc_addr # a
      <4>1. arc_addr # slot[a].prev
        BY <2>2, <2>3, <2>5, <3>1
      <4> QED BY <1>9, <2>w, <3>1, <3>3, <4>1
    <3> QED BY <3>2, <3>3
  <2>9. Before(r)' = Before(r) \ {a}
    <3>1. At' = At
      BY <1>3 DEF At
    <3> QED BY <1>3, <1>8, <3>1 DEF Before
  <2>10. \A c \in ArcsOfV \cap ArcsOfV' : slot'[c].kind = slot[c].kind /\ c # a
    BY <1>4, <1>8, <1>9
  <2>11. /\ pc = "try" /\ arc_addr # Null => arc_addr \in ArcsOfV'
         /\ pc = "ends" => arc_addr \in ArcsOfV'
    BY <1>8, <2>1, <2>3, <2>w
  <2> HIDE DEF ArcsOfV, At
  <2> QED BY <1>2, <1>3, <1>4, <1>7, <2>0, <2>7, <2>8, <2>9, <2>10, <2>11, WalkKept
<1>12. ListInv'
  BY <1>1, <1>2, <1>3, <1>5, <1>10, <1>11 DEF ListInv
<1> QED BY <1>7, <1>8, <1>12

-----------------------------------------------------------------------------
\* The steps of the iterator.

LEMMA AppendRange ==
  ASSUME NEW S, NEW s \in Seq(S), NEW x \in S
  PROVE  /\ Range(Append(s, x)) = Range(s) \cup {x}
         /\ IsInjective(s) /\ x \notin Range(s) => IsInjective(Append(s, x))
<1> DEFINE t == Append(s, x)
<1>1. /\ DOMAIN s = 1..Len(s) /\ DOMAIN t = 1..(Len(s) + 1) /\ Len(s) \in Nat
      /\ t[Len(s) + 1] = x /\ \A i \in 1..Len(s) : t[i] = s[i]
  OBVIOUS
<1> HIDE DEF t
<1>2. Range(t) = Range(s) \cup {x}
  <2>1. \A y \in Range(t) : y \in Range(s) \cup {x}
    BY <1>1 DEF Range
  <2>2. \A y \in Range(s) \cup {x} : y \in Range(t)
    BY <1>1 DEF Range
  <2> QED BY <2>1, <2>2
<1>3. ASSUME IsInjective(s), x \notin Range(s) PROVE IsInjective(t)
  <2>1. \A i \in 1..Len(s) : s[i] # x
    BY <1>1, <1>3 DEF Range
  <2>2. \A i, j \in 1..Len(s) : s[i] = s[j] => i = j
    BY <1>1, <1>3 DEF IsInjective
  <2>3. \A i, j \in 1..(Len(s) + 1) : t[i] = t[j] => i = j
    BY <1>1, <2>1, <2>2
  <2> QED BY <1>1, <2>3 DEF IsInjective
<1> QED BY <1>2, <1>3 DEF t

\* The walk goes on: it has no more before it than it had, and what it has no
\* more before it is what it is at now or has returned.
LEMMA Moved ==
  ASSUME NEW r \in [Arc -> Int], Walked(r), ~Begins, ~Begins', History, pc \notin {"gone", "end"},
         ArcsOfV' = ArcsOfV, \A c \in ArcsOfV : slot'[c] = slot[c], five' = five,
         pc' = "try" /\ arc_addr' # Null => arc_addr' \in ArcsOfV,
         At' # Null => slot'[At'].of = V /\ Behind(r, ArcsOfV, At', slot'[At'].next),
         pc' = "ends" => arc_addr' \in ArcsOfV,
         pc' \in {"ends", "type"} => next_arc' = slot'[arc_addr'].next,
         pc' = "attr" => five, pc' = "false" => result' = Null,
         Before(r)' \subseteq Before(r), IsInjective(returned'),
         \A x \in Range(returned') : ~Left(r, x)', Range(returned) \subseteq Range(returned'),
         pc' # "end" => \A c \in ArcsOfV : \A x \in Results(c) :
                          Left(r, x) => x \in Range(returned') \/ Left(r, x)'
  PROVE  Walked(r)'
<1>1. had' = {a \in had : slot'[a].state # "free"} /\ kept' = kept \cap ArcsOfV'
  BY DEF History
<1>2. Before(r)' \subseteq ArcsOfV' /\ \A c \in ArcsOfV' : slot'[c].state # "free"
  BY DEF Before, ArcsOfV
<1>3. Before(r)' \subseteq had'
  BY <1>1, <1>2 DEF Walked
<1>4. kept \subseteq ArcsOfV /\ kept' = kept
  BY <1>1 DEF Walked
<1>5. \A c \in ArcsOfV : Results(c)' = Results(c)
  BY DEF Results
<1>6. ASSUME pc' # "end", NEW c \in kept', NEW x \in Results(c)'
      PROVE  x \in Range(returned') \/ Left(r, x)'
  <2>1. c \in kept /\ c \in ArcsOfV /\ x \in Results(c)
    BY <1>4, <1>5, <1>6
  <2>2. pc # "none"
    BY DEF Begins
  <2>3. x \in Range(returned) \/ Left(r, x)
    BY <2>1, <2>2 DEF Walked
  <2> HIDE DEF Begins, ArcsOfV, At, Before, Results, Left
  <2> QED BY <1>6, <2>1, <2>3
<1> HIDE DEF Begins, ArcsOfV, At, Before, Results, Left
<1> QED BY <1>3, <1>4, <1>6 DEF Walked

\* No step of the iterator writes to a live arc.
LEMMA WalkFrame ==
  ASSUME RefsAccounted, StandInv, IteratorNew \/ Walk \/ Iterator5Free \/ IteratorFree
  PROVE  LiveSame /\ Held' = Held /\ UNCHANGED <<head, five, dead, target, erase, need>>
<1>t. TypeOK
  BY DEF RefsAccounted
<1>a. ASSUME NEW a \in Arc, result = a, Unref(a) PROVE LiveSame
  <2>1. ref[a] \in Nat /\ ref[a] > 0 /\ (ref[a] = 1 => slot[a].state = "marked")
    BY <1>a, Counts
  <2>2. /\ \A b \in Arc \ {a} : slot'[b] = slot[b]
        /\ ref[a] = 1 => slot'[a].state = "free"
        /\ ref[a] # 1 => slot'[a] = slot[a]
    BY <1>a, <1>t, <2>1, UnrefFields
  <2> QED BY <2>1, <2>2 DEF LiveSame
<1>b. CASE NextBehind
  <2>1. result \in Arc /\ Unref(result) /\ UNCHANGED <<head, lock, five, dead, deletion>>
    BY <1>t, <1>b DEF NextBehind, GivenBack, TypeOK
  <2> QED BY <1>a, <2>1 DEF Held, deletion
<1>c. CASE IteratorFree
  <2>1. UNCHANGED <<head, lock, five, dead, deletion>>
    BY <1>c DEF IteratorFree
  <2>2. CASE result = Null
    BY <1>c, <2>1, <2>2 DEF IteratorFree, LiveSame, Held, deletion
  <2>3. CASE result # Null
    <3>1. result \in Arc /\ Unref(result)
      BY <1>t, <1>c, <2>3 DEF IteratorFree, TypeOK
    <3> QED BY <1>a, <2>1, <3>1 DEF Held, deletion
  <2> QED BY <2>2, <2>3
<1>d. CASE NextLock
  <2>1. UNCHANGED <<slot, head, five, dead, deletion>> /\ arc_addr \in Arc
    BY <1>t, <1>d DEF NextLock, TypeOK
  <2>2. lock' = lock \/ (lock[arc_addr] = Null /\ lock' = [lock EXCEPT ![arc_addr] = "iterator"])
    BY <1>d DEF NextLock, Free
  <2>3. Held' = Held
    BY <1>t, <2>1, <2>2, IteratorsAssumption DEF Held, TypeOK
  <2> QED BY <2>1, <2>3 DEF LiveSame, deletion
<1>e. CASE NextEnd
  <2>1. UNCHANGED <<slot, head, five, dead, deletion>> /\ lock' = [lock EXCEPT ![arc_addr] = Null]
    BY <1>e DEF NextEnd, store
  <2>2. lock[arc_addr] = "iterator"
    BY <1>e DEF NextEnd, StandInv
  <2>3. Held' = Held
    BY <1>t, <2>1, <2>2, IteratorsAssumption DEF Held, TypeOK
  <2> QED BY <2>1, <2>3 DEF LiveSame, deletion
<1>f. CASE IteratorNew \/ NextFirst \/ NextEnds \/ NextType \/ AttributesNew \/ AttributesNext
  <2>1. UNCHANGED <<slot, head, lock, five, dead, deletion>>
    BY <1>f DEF IteratorNew, NextFirst, NextEnds, NextType, AttributesNew, AttributesNext, store
  <2> QED BY <2>1 DEF LiveSame, Held, deletion
<1>g. CASE AttributesEnd \/ Iterator5Free
  <2>1. result \in Arc /\ Unref(result) /\ UNCHANGED <<head, lock, five, dead, deletion>>
    BY <1>g DEF AttributesEnd, Iterator5Free, AttributesFree, StandInv
  <2> QED BY <1>a, <2>1 DEF Held, deletion
<1> QED BY <1>b, <1>c, <1>d, <1>e, <1>f, <1>g DEF Walk

\* Each step of the iterator, as long as nothing has broken its way.
LEMMA WalkMoves ==
  ASSUME RefsAccounted, StandInv, StandInv', DeleteInv, NEW r \in [Arc -> Int], NEW lo \in Int,
         Ordered(r, lo, ArcsOfV, slot, head[V]), Walked(r), ~stray, pc # "aborted", ~gap', History,
         IteratorNew \/ Walk \/ Iterator5Free \/ IteratorFree
  PROVE  Walked(r)' /\ ~stray' /\ pc' # "aborted"
<1>t. TypeOK /\ Null \notin Arc
  BY Constants DEF RefsAccounted
<1>l. LiveSame /\ five' = five
  BY WalkFrame
<1>s. ArcsOfV' = ArcsOfV /\ \A a \in ArcsOfV : slot'[a] = slot[a]
  BY <1>l, LiveSameArcs
<1>v. ArcsOfV \subseteq Arc /\ \A a \in ArcsOfV : slot[a].state = "live" /\ slot[a].of = V
  BY DEF ArcsOfV
<1>o. /\ \A a, b \in ArcsOfV : r[a] = r[b] => a = b
      /\ head[V] # Null => head[V] \in ArcsOfV
      /\ \A a \in ArcsOfV : /\ head[V] # Null /\ r[head[V]] <= r[a]
                            /\ Behind(r, ArcsOfV, a, slot[a].next)
  BY DEF Ordered
<1>i. \A a \in Arc : r[a] \in Int
  OBVIOUS
<1>w. /\ pc = "try" /\ arc_addr # Null => arc_addr \in ArcsOfV
      /\ At # Null => slot[At].of = V /\ Behind(r, ArcsOfV, At, slot[At].next)
      /\ pc = "ends" => arc_addr \in ArcsOfV
      /\ pc \in {"ends", "type"} => next_arc = slot[arc_addr].next
      /\ ~Begins => Before(r) \subseteq had
      /\ kept \subseteq ArcsOfV
      /\ \A x \in Range(returned) : ~Left(r, x)
      /\ Begins => returned = <<>>
      /\ pc = "attr" => five
      /\ IsInjective(returned)
  BY DEF Walked
<1>k. kept' \subseteq ArcsOfV'
  BY DEF History
<1>a. CASE IteratorNew
  <2>1. pc = "none" /\ pc' = "ready" /\ UNCHANGED <<result, returned, stray>>
    BY <1>a DEF IteratorNew, history
  <2>2. Begins /\ Begins'
    BY <2>1 DEF Begins, StandInv
  <2> HIDE DEF ArcsOfV, Begins
  <2> QED BY <1>k, <1>w, <2>1, <2>2, OffList
<1>b. CASE IteratorFree
  <2>1. pc' = "gone" /\ UNCHANGED <<returned, stray>>
    BY <1>b DEF IteratorFree, history
  <2>2. ~Begins'
    BY <2>1 DEF Begins
  <2> HIDE DEF ArcsOfV, Begins
  <2> QED BY <1>k, <1>w, <2>1, <2>2, OffList
<1>c. CASE NextFirst
  <2>1. /\ pc = "ready" /\ result = Null /\ arc_addr' = head[V] /\ pc' = "try"
        /\ UNCHANGED <<result, returned, stray>>
    BY <1>c DEF NextFirst, history
  <2>2. Begins /\ ~Begins' /\ At' = Null
    BY <2>1 DEF Begins, At
  <2>3. had' = ArcsOfV' /\ kept' = ArcsOfV'
    BY <2>2 DEF History
  <2>4. Before(r)' = ArcsOfV'
    BY <1>o, <1>s, <2>1 DEF Before
  <2>5. returned' = <<>> /\ Range(returned') = {}
    BY <1>w, <2>1, <2>2 DEF Range
  <2>7. \A c \in kept' : \A x \in Results(c)' : Left(r, x)'
    BY <2>3, <2>4 DEF Results, Left
  <2> HIDE DEF ArcsOfV, Begins, At, Before, Left, Results
  <2>6. Walked(r)'
    BY <1>o, <1>s, <1>w, <2>1, <2>2, <2>3, <2>4, <2>5, <2>7 DEF Walked
  <2> QED BY <2>1, <2>6
<1>d. CASE NextBehind
  <2>1. /\ pc \in {"ready", "behind"} /\ ~it_attr /\ result # Null /\ arc_addr' = slot[result].next
        /\ result' = Null /\ pc' = "try" /\ UNCHANGED <<it_attr, returned, stray>>
    BY <1>d DEF NextBehind, history, StandInv
  <2>2. ~Begins /\ ~Begins' /\ At = result /\ At' = Null
    BY <2>1 DEF Begins, At
  <2>3. Behind(r, ArcsOfV, result, slot[result].next)
    BY <1>w, <2>1, <2>2
  <2>4. Before(r)' = Before(r)
    BY <1>s, <2>1, <2>2, <2>3 DEF Before, Behind
  <2>5. arc_addr' # Null => arc_addr' \in ArcsOfV
    BY <2>1, <2>3 DEF Behind
  <2>7. \A x : Left(r, x)' <=> Left(r, x)
    <3> HIDE DEF Before
    <3> QED BY <2>1, <2>4 DEF Left, Pending
  <2> HIDE DEF ArcsOfV, Begins, At, Before, Left
  <2>6. Walked(r)'
    BY <1>l, <1>s, <1>w, <2>1, <2>2, <2>4, <2>5, <2>7, Moved
  <2> QED BY <2>1, <2>6
<1>e. CASE NextEnds
  <2>1. pc = "try" /\ arc_addr = Null /\ pc' = "false" /\ UNCHANGED <<result, returned, stray>>
    BY <1>e DEF NextEnds, history
  <2>2. ~Begins /\ ~Begins' /\ At' = Null /\ result' = Null
    BY <2>1 DEF Begins, At, StandInv
  <2>3. Before(r)' = {} /\ Before(r) = {}
    BY <2>1, <2>2 DEF Before
  <2>4. \A x : Left(r, x)' <=> Left(r, x)
    <3> HIDE DEF Before
    <3> QED BY <2>1, <2>3 DEF Left, Pending
  <2> HIDE DEF ArcsOfV, Begins, At, Before, Left
  <2>6. Walked(r)'
    BY <1>l, <1>s, <1>w, <2>1, <2>2, <2>3, <2>4, Moved
  <2> QED BY <2>1, <2>6
<1>f. CASE NextLock
  <2>1. /\ pc = "try" /\ arc_addr # Null /\ next_arc' = slot[arc_addr].next
        /\ stray' = (stray \/ Astray(arc_addr)) /\ UNCHANGED <<slot, result, returned>>
    BY <1>f DEF NextLock
  <2>2. arc_addr \in ArcsOfV /\ arc_addr \in Arc /\ slot[arc_addr].state = "live" /\ ref[arc_addr] > 0
    BY <1>v, <1>w, <2>1, Counts
  <2>3. pc' = "ends" /\ arc_addr' = arc_addr
    BY <1>f, <2>2 DEF NextLock
  <2>4. ~Begins /\ ~Begins' /\ At' = arc_addr
    BY <2>1, <2>3 DEF Begins, At
  <2>5. /\ Before(r) = {c \in ArcsOfV : r[c] >= r[arc_addr]}
        /\ Before(r)' = {c \in ArcsOfV : r[c] > r[arc_addr]}
    BY <1>s, <1>t, <2>1, <2>2, <2>3, <2>4 DEF Before
  <2>6. /\ Before(r)' \subseteq Before(r) /\ arc_addr \in Before(r)
        /\ \A c \in Before(r) : c \in Before(r)' \/ c = arc_addr
    BY <1>i, <1>o, <1>v, <2>2, <2>5
  <2>7. ~Astray(arc_addr)
    BY <1>v, <1>w, <2>2, <2>4, <2>6 DEF Astray
  <2>8. Behind(r, ArcsOfV, arc_addr, slot[arc_addr].next)
    BY <1>o, <2>2
  <2>10. \A x : Left(r, x)' <=> Left(r, x)
    <3>1. \A x : Pending(x)' <=> x[1] = arc_addr
      BY <2>3, <2>4 DEF Pending
    <3>2. \A x : ~Pending(x)
      BY <2>1 DEF Pending
    <3> HIDE DEF Before, Pending
    <3> QED BY <2>6, <3>1, <3>2 DEF Left
  <2> HIDE DEF ArcsOfV, Begins, At, Before, Left
  <2>9. Walked(r)'
    BY <1>l, <1>s, <1>v, <1>w, <2>1, <2>2, <2>3, <2>4, <2>6, <2>8, <2>10, Moved
  <2> QED BY <2>1, <2>3, <2>7, <2>9
<1>g. CASE NextEnd
  <2>1. pc = "ends" /\ pc' = "type" /\ UNCHANGED <<slot, result, arc_addr, next_arc, returned, stray>>
    BY <1>g DEF NextEnd, store, history
  <2>2. ~Begins /\ ~Begins' /\ At' = At
    BY <2>1 DEF Begins, At
  <2>3. Before(r)' = Before(r)
    BY <1>s, <2>1, <2>2 DEF Before
  <2>5. \A x : Left(r, x)' <=> Left(r, x)
    <3> HIDE DEF Before, At
    <3> QED BY <2>1, <2>2, <2>3 DEF Left, Pending
  <2> HIDE DEF ArcsOfV, Begins, At, Before, Left
  <2>4. Walked(r)'
    BY <1>l, <1>s, <1>w, <2>1, <2>2, <2>3, <2>5, Moved
  <2> QED BY <2>1, <2>4
<1>h. CASE NextType
  <2>1. pc = "type" /\ arc_addr \in Arc /\ result = Null /\ ~it_attr /\ UNCHANGED <<slot, it_attr, stray>>
    BY <1>h DEF NextType, store, StandInv
  <2>2. ~Begins /\ At = arc_addr /\ At # Null
    BY <1>t, <2>1 DEF Begins, At
  <2>3. next_arc = slot[arc_addr].next /\ Behind(r, ArcsOfV, arc_addr, next_arc)
    BY <1>w, <2>1, <2>2
  <2>4. Before(r) = {c \in ArcsOfV : r[c] > r[arc_addr]}
    BY <2>1, <2>2 DEF Before
  <2>5. CASE pc' = "try"
    <3>1. /\ arc_addr' = next_arc /\ UNCHANGED <<result, returned>>
          /\ slot[arc_addr].kind = "other" \/ dead
      BY <1>h, <2>5 DEF NextType
    <3>2. ~Begins' /\ At' = Null
      BY <2>1, <2>5, <3>1 DEF Begins, At
    <3>3. Before(r)' = Before(r)
      BY <1>s, <2>3, <2>4, <2>5, <3>1 DEF Before, Behind
    <3>4. next_arc # Null => next_arc \in ArcsOfV
      BY <2>3 DEF Behind
    <3>5. arc_addr \in ArcsOfV => Results(arc_addr) = {}
      BY <3>1 DEF DeleteInv, Results
    <3>7. \A x : /\ Left(r, x)' => Left(r, x)
                 /\ Left(r, x) => Left(r, x)' \/ x[1] = arc_addr
      <4> HIDE DEF Before, At
      <4> QED BY <2>1, <2>2, <2>5, <3>3 DEF Left, Pending
    <3>8. ASSUME NEW c \in ArcsOfV, NEW x \in Results(c), Left(r, x) PROVE Left(r, x)'
      <4>1. x[1] = c
        BY DEF Results
      <4> HIDE DEF Left, ArcsOfV, Results
      <4> QED BY <3>5, <3>7, <3>8, <4>1
    <3> HIDE DEF ArcsOfV, Begins, At, Before, Left, Results
    <3>6. Walked(r)'
      BY <1>l, <1>s, <1>w, <2>1, <2>2, <2>5, <3>1, <3>2, <3>3, <3>4, <3>7, <3>8, Moved
    <3> QED BY <2>1, <2>5, <3>6
  <2>6. CASE pc' # "try"
    <3>1. /\ result' = arc_addr /\ pc' = IF five THEN "attr" ELSE "ready"
          /\ returned' = IF five THEN returned ELSE Append(returned, <<arc_addr, 0>>)
          /\ slot[arc_addr].kind # "other"
      BY <1>h, <2>6 DEF NextType
    <3>2. ~Begins' /\ At' = At
      BY <1>t, <2>1, <2>2, <3>1 DEF Begins, At
    <3>3. Before(r)' = Before(r) /\ arc_addr \notin Before(r)
      BY <1>i, <1>s, <2>1, <2>2, <2>4, <2>6, <3>2 DEF Before
    <3>4. \A x : Pending(x) <=> x[1] = arc_addr
      BY <2>1, <2>2 DEF Pending
    <3>5. pc' \in {"attr", "ready"} /\ (pc' = "attr" <=> five)
      BY <3>1
    <3>6. \A x : Pending(x)' <=> five /\ x[1] = arc_addr
      BY <2>1, <2>2, <3>2, <3>5 DEF Pending
    <3>7. slot'[At'].of = V /\ Behind(r, ArcsOfV, At', slot'[At'].next)
      BY <1>w, <2>1, <2>2, <3>2
    <3> HIDE DEF Pending, Before, Begins, At, ArcsOfV
    <3>8. CASE five
      <4>1. \A x : Left(r, x)' <=> Left(r, x)
        BY <3>3, <3>4, <3>6, <3>8 DEF Left
      <4> HIDE DEF Left
      <4>2. Walked(r)'
        BY <1>l, <1>s, <1>w, <2>1, <2>2, <3>1, <3>2, <3>3, <3>5, <3>7, <3>8, <4>1, Moved
      <4> QED BY <2>1, <3>5, <4>2
    <3>9. CASE ~five
      <4> DEFINE y == <<arc_addr, 0>>
      <4>1. y \in Arc \X Nat /\ returned \in Seq(Arc \X Nat) /\ returned' = Append(returned, y) /\ y[1] = arc_addr
        BY <1>t, <2>1, <3>1, <3>9 DEF TypeOK
      <4>2. \A x : /\ Left(r, x)' => Left(r, x)
                   /\ Left(r, x) => Left(r, x)' \/ x[1] = arc_addr
                   /\ x[1] = arc_addr => ~Left(r, x)' /\ Left(r, x)
        BY <3>3, <3>4, <3>6, <3>9 DEF Left
      <4>3. ASSUME NEW x \in Results(arc_addr) PROVE x = y
        BY <3>9 DEF Results
      <4>4. ASSUME NEW c \in ArcsOfV, NEW x \in Results(c) PROVE x[1] = c
        BY DEF Results
      <4> HIDE DEF y, Left, Results
      <4>5. y \notin Range(returned)
        BY <1>w, <4>1, <4>2
      <4>6. Range(returned') = Range(returned) \cup {y} /\ IsInjective(returned')
        BY <1>w, <4>1, <4>5, AppendRange
      <4>7. \A x \in Range(returned') : ~Left(r, x)'
        BY <1>w, <4>1, <4>2, <4>6
      <4>8. \A c \in ArcsOfV : \A x \in Results(c) : Left(r, x) => x \in Range(returned') \/ Left(r, x)'
        BY <4>2, <4>3, <4>4, <4>6
      <4>9. Walked(r)'
        BY <1>l, <1>s, <1>w, <2>1, <2>2, <3>1, <3>2, <3>3, <3>5, <3>7, <4>6, <4>7, <4>8, Moved
      <4> QED BY <2>1, <3>5, <4>9
    <3> QED BY <3>8, <3>9
  <2> QED BY <2>5, <2>6
<1>j. CASE AttributesNew
  <2>1. /\ pc = "attr" /\ result \in Arc /\ five /\ found = 0 /\ pc' = "more" /\ it_attr'
        /\ UNCHANGED <<slot, result, found, returned, stray>>
    BY <1>j, <1>w DEF AttributesNew, StandInv
  <2>2. ~Begins /\ ~Begins' /\ At = result /\ At' = result /\ At # Null
    BY <1>t, <2>1 DEF Begins, At
  <2>3. Before(r)' = Before(r)
    BY <1>s, <2>1, <2>2 DEF Before
  <2> HIDE DEF Begins, At, Before
  <2>4. \A x : Left(r, x)' => Left(r, x)
    BY <2>1, <2>2, <2>3 DEF Left, Pending
  <2>5. ASSUME NEW c \in ArcsOfV, NEW x \in Results(c), Left(r, x) PROVE Left(r, x)'
    <3>1. x[2] > 0
      BY <2>1 DEF Results
    <3> QED BY <2>1, <2>2, <2>3, <2>5, <3>1 DEF Left, Pending
  <2> HIDE DEF ArcsOfV, Left, Results
  <2>6. Walked(r)'
    BY <1>l, <1>s, <1>w, <2>1, <2>2, <2>3, <2>4, <2>5, Moved
  <2> QED BY <2>1, <2>6
<1>m. CASE AttributesNext
  <2>1. /\ it_attr /\ it_attr' /\ pc \in {"ready", "more"} /\ result \in Arc
        /\ UNCHANGED <<slot, result>>
    BY <1>m DEF AttributesNext, StandInv, store
  <2>2. CASE pc' = "ready"
    <3>1. /\ found' = found + 1 /\ returned' = Append(returned, <<result, found + 1>>) /\ stray' = stray
      BY <1>m, <2>2 DEF AttributesNext
    <3>2. ~Begins /\ ~Begins' /\ At = result /\ At' = result /\ At # Null
      BY <1>t, <2>1, <2>2 DEF Begins, At
    <3>3. Before(r)' = Before(r) /\ result \notin Before(r)
      BY <1>i, <1>s, <2>1, <2>2, <3>2 DEF Before
    <3>4. found \in Nat /\ returned \in Seq(Arc \X Nat)
      BY <1>t DEF TypeOK
    <3> DEFINE y == <<result, found + 1>>
    <3>5. y \in Arc \X Nat /\ returned' = Append(returned, y) /\ y[1] = result /\ y[2] = found + 1
      BY <2>1, <3>1, <3>4
    <3> HIDE DEF Begins, At, Before
    <3>6. ASSUME NEW x \in Arc \X Nat
          PROVE  /\ Left(r, x)' => Left(r, x) /\ x # y
                 /\ Left(r, x) => Left(r, x)' \/ x = y
      <4>1. x = <<x[1], x[2]>> /\ x[2] \in Nat
        OBVIOUS
      <4>2. /\ Pending(x) <=> x[1] = result /\ x[2] > found
            /\ Pending(x)' <=> x[1] = result /\ x[2] > found + 1
        BY <2>1, <2>2, <3>1, <3>2 DEF Pending
      <4>3. x[1] = result /\ x[2] > found /\ ~(x[2] > found + 1) => x = y
        BY <3>4, <4>1
      <4>4. x[2] > found + 1 => x[2] > found /\ x[2] # found + 1
        BY <3>4, <4>1
      <4> HIDE DEF y, Pending
      <4> QED BY <3>3, <3>5, <4>2, <4>3, <4>4 DEF Left
    <3>7. Left(r, y)
      BY <2>1, <3>2, <3>4, <3>5 DEF Left, Pending
    <3>8. ASSUME NEW c \in ArcsOfV, NEW x \in Results(c) PROVE x \in Arc \X Nat
      BY <1>v, IteratorsAssumption DEF Results, Attributes
    <3>9. \A x \in Range(returned) : x \in Arc \X Nat
      BY <3>4 DEF Range
    <3> HIDE DEF y, Left, Results, ArcsOfV
    <3>10. Range(returned') = Range(returned) \cup {y} /\ IsInjective(returned')
      BY <1>w, <3>4, <3>5, <3>7, AppendRange
    <3>11. \A x \in Range(returned') : ~Left(r, x)'
      BY <1>w, <3>5, <3>6, <3>9, <3>10
    <3>12. \A c \in ArcsOfV : \A x \in Results(c) : Left(r, x) => x \in Range(returned') \/ Left(r, x)'
      BY <3>6, <3>8, <3>10
    <3>13. Walked(r)'
      BY <1>l, <1>s, <1>w, <2>1, <2>2, <3>2, <3>3, <3>10, <3>11, <3>12, Moved
    <3> QED BY <2>2, <3>1, <3>13
  <2>3. CASE pc' # "ready"
    <3>1. /\ pc' = "drop" /\ UNCHANGED <<found, returned, stray>>
          /\ slot[result].state = "marked" \/ ~FoundMore
      BY <1>m, <2>3 DEF AttributesNext
    <3>2. ~Begins /\ ~Begins' /\ At = result /\ At' = result /\ At # Null
      BY <1>t, <2>1, <3>1 DEF Begins, At
    <3>3. Before(r)' = Before(r)
      BY <1>s, <2>1, <3>1, <3>2 DEF Before
    <3> HIDE DEF Begins, At, Before
    <3>4. \A x : /\ Left(r, x)' => Left(r, x)
                 /\ Left(r, x) => Left(r, x)' \/ (x[1] = result /\ x[2] > found)
      BY <2>1, <3>1, <3>2, <3>3 DEF Left, Pending
    <3>5. ASSUME NEW c \in ArcsOfV, NEW x \in Results(c), x[1] = result PROVE ~(x[2] > found)
      <4>1. c = result /\ x[2] \in (IF five THEN 1..Attributes(slot[c].kind) ELSE {0})
        BY <3>5 DEF Results
      <4>2. ~(found < Attributes(slot[result].kind)) /\ found \in Nat /\ Attributes(slot[result].kind) \in Nat
        BY <1>t, <1>v, <3>1, <4>1, IteratorsAssumption DEF FoundMore, TypeOK, Attributes
      <4> QED BY <4>1, <4>2
    <3> HIDE DEF ArcsOfV, Left, Results
    <3>6. Walked(r)'
      BY <1>l, <1>s, <1>w, <2>1, <3>1, <3>2, <3>3, <3>4, <3>5, Moved
    <3> QED BY <3>1, <3>6
  <2> QED BY <2>2, <2>3
<1>n. CASE AttributesEnd \/ Iterator5Free
  <2>1. /\ result \in Arc /\ it_attr /\ pc \in {"drop", "ready"} /\ pc' \in {"behind", "end"}
        /\ pc' = "behind" => pc = "drop"
        /\ it_attr' = FALSE /\ UNCHANGED <<result, returned, stray>> /\ Unref(result)
    BY <1>n DEF AttributesEnd, Iterator5Free, AttributesFree, StandInv, history
  <2>2. ~Begins /\ ~Begins' /\ At = result /\ At' = result /\ At # Null
    BY <1>t, <2>1 DEF Begins, At
  <2>3. Before(r)' = Before(r)
    BY <1>s, <2>1, <2>2 DEF Before
  <2>4. slot'[result] = slot[result]
    <3>1. ref[result] \in Nat /\ ref[result] > 0 /\ ref[result] # 1
      BY <2>1, Counts
    <3> QED BY <1>t, <2>1, <3>1, UnrefFields
  <2> HIDE DEF Begins, At, Before
  <2>5. \A x : /\ Left(r, x)' => Left(r, x)
               /\ pc' # "end" /\ Left(r, x) => Left(r, x)'
    BY <2>1, <2>2, <2>3 DEF Left, Pending
  <2> HIDE DEF ArcsOfV, Left
  <2>6. Walked(r)'
    BY <1>l, <1>s, <1>w, <2>1, <2>2, <2>3, <2>4, <2>5, Moved
  <2> QED BY <2>1, <2>6
<1> QED BY <1>a, <1>b, <1>c, <1>d, <1>e, <1>f, <1>g, <1>h, <1>j, <1>m, <1>n DEF Walk

\* The other thread locks and unlocks: the list and the walk stay.
LEMMA LockList ==
  ASSUME RefsAccounted, StandInv, StandInv', DeleteInv, ListInv, History,
         (\E x \in Arc \cup {E} : ElementFree(x)) \/ FreeLock \/ FreeUnlock
  PROVE  ListInv'
<1>1. UNCHANGED <<slot, head, five, pc, result, arc_addr, next_arc, it_attr, found, returned, gap, stray>>
  BY DEF ElementFree, FreeLock, FreeUnlock, store, iter, history
<1>2. PICK r \in [Arc -> Int], lo \in Int :
        /\ Ordered(r, lo, ArcsOfV, slot, head[V])
        /\ ~gap => Walked(r) /\ ~stray /\ pc # "aborted"
  BY DEF ListInv
<1>3. ArcsOfV' = ArcsOfV /\ At' = At
  BY <1>1 DEF ArcsOfV, At
<1>4. Before(r)' = Before(r)
  BY <1>1, <1>3 DEF Before
<1> HIDE DEF ArcsOfV, At, Before
<1>5. Ordered(r, lo, ArcsOfV', slot', head'[V])
  BY <1>1, <1>2, <1>3
<1>6. ASSUME ~gap PROVE Walked(r)'
  <2>1. Walked(r)
    BY <1>2, <1>6
  <2>2. /\ pc = "try" /\ arc_addr # Null => arc_addr \in ArcsOfV
        /\ At # Null => slot[At].of = V /\ Behind(r, ArcsOfV, At, slot[At].next)
        /\ pc = "ends" => arc_addr \in ArcsOfV
        /\ pc \in {"ends", "type"} => next_arc = slot[arc_addr].next
    BY <2>1 DEF Walked
  <2>3. TypeOK
    BY DEF RefsAccounted
  <2> QED BY <1>1, <1>3, <1>4, <2>1, <2>2, <2>3, WalkKept
<1> QED BY <1>1, <1>2, <1>5, <1>6 DEF ListInv

\* Ranks of the arcs that are there at the start: their slots.
LEMMA InitInv ==
  ASSUME Init
  PROVE  IInv
<1>c. /\ Slots \in Nat /\ Given \in Nat /\ Given <= Slots
  BY IteratorsAssumption
<1>1. PICK k \in [1..Given -> KindsAsked] :
        slot = [a \in Arc |->
                 IF a > Given THEN FreeSlot
                 ELSE [state |-> "live", of |-> V, kind |-> k[a],
                       next |-> IF a = Given THEN Null ELSE a + 1,
                       prev |-> IF a = 1 THEN Null ELSE a - 1]]
  BY DEF Init
<1>2. \A a \in Arc : a \in Int /\ 1 <= a /\ a <= Slots
  BY <1>c DEF Arc
<1>3. ASSUME NEW a \in Arc, a > Given PROVE slot[a] \in Slot /\ slot[a].state = "free"
  <2>1. slot[a] = FreeSlot
    BY <1>1, <1>3
  <2> QED BY <2>1 DEF FreeSlot, Slot, Kinds
<1>4. ASSUME NEW a \in Arc, ~(a > Given)
      PROVE  /\ slot[a] \in Slot /\ slot[a].state = "live" /\ slot[a].of = V
             /\ slot[a].next = IF a = Given THEN Null ELSE a + 1
             /\ slot[a].prev = IF a = 1 THEN Null ELSE a - 1
  <2> DEFINE n == IF a = Given THEN Null ELSE a + 1
             p == IF a = 1 THEN Null ELSE a - 1
  <2>1. slot[a] = [state |-> "live", of |-> V, kind |-> k[a], next |-> n, prev |-> p]
    BY <1>1, <1>4
  <2>2. n \in Arc \cup {Null} /\ p \in Arc \cup {Null}
    BY <1>2, <1>4, <1>c DEF Arc
  <2>3. k[a] \in Kinds
    <3>1. a \in 1..Given
      BY <1>2, <1>4, <1>c
    <3> QED BY <3>1 DEF KindsAsked, Kinds
  <2> HIDE DEF n, p
  <2>4. slot[a] \in Slot /\ slot[a].state = "live" /\ slot[a].of = V /\ slot[a].next = n /\ slot[a].prev = p
    BY <2>1, <2>2, <2>3 DEF Slot
  <2> QED BY <2>4 DEF n, p
<1>5. slot \in [Arc -> Slot]
  <2>1. \A a \in Arc : slot[a] \in Slot
    BY <1>3, <1>4
  <2>2. slot = [a \in Arc |-> slot[a]]
    BY <1>1
  <2> QED BY <2>1, <2>2
<1>6. /\ head = [o \in {V, W} |-> IF o = V /\ Given > 0 THEN 1 ELSE Null]
      /\ ref = [a \in Arc |-> IF a <= Given THEN 1 ELSE 0]
      /\ lock = [x \in Lockable |-> Null]
      /\ five \in BOOLEAN /\ dead = FALSE
      /\ pc = "none" /\ result = Null /\ arc_addr = Null /\ next_arc = Null
      /\ it_attr = FALSE /\ found = 0 /\ returned = <<>> /\ target = Null /\ erase = {} /\ need = {}
      /\ kept = {} /\ gap = FALSE /\ stray = FALSE /\ leaked = [a \in Arc |-> 0]
  BY DEF Init
<1>7. /\ head[V] = IF Given > 0 THEN 1 ELSE Null
      /\ head[W] = Null
  BY <1>6, Constants
<1>8. head \in [{V, W} -> Arc \cup {Null}]
  <2>1. Given > 0 => 1 \in Arc
    BY <1>c DEF Arc
  <2> QED BY <1>6, <2>1
<1>9. TypeOK
  <2>1. /\ ref \in [Arc -> Nat] /\ leaked \in [Arc -> Nat]
        /\ lock \in [Lockable -> {"iterator", "deleter", Null}]
    BY <1>6
  <2>2. returned \in Seq(Arc \X Nat)
    BY <1>6
  <2> QED BY <1>5, <1>6, <1>8, <2>1, <2>2 DEF TypeOK, Pcs
<1>10. RefsAccounted
  <2>1. ASSUME NEW a \in Arc PROVE ref[a] = RefsOf(a)
    <3>1. slot[a].state = "live" <=> a <= Given
      BY <1>2, <1>3, <1>4, <1>c
    <3>2. result # a /\ pc \notin {"ends", "type"} /\ leaked[a] = 0 /\ ref[a] = IF a <= Given THEN 1 ELSE 0
      BY <1>6, Constants
    <3> QED BY <3>1, <3>2 DEF RefsOf
  <2> QED BY <1>9, <2>1 DEF RefsAccounted
<1>11. StandInv
  <2>1. \A a \in Arc : slot[a].state = "free" <=> ref[a] = 0
    BY <1>2, <1>3, <1>4, <1>6, <1>c
  <2> QED BY <1>6, <2>1 DEF StandInv
<1>12. DeleteInv
  <2>1. Null # V /\ Null # E /\ Null \notin Arc
    BY Constants
  <2> QED BY <1>6, <1>7, <2>1 DEF DeleteInv
<1>13. ListInv
  <2> DEFINE r == [a \in Arc |-> a]
  <2>1. r \in [Arc -> Int] /\ 0 \in Int /\ \A a \in Arc : r[a] = a
    BY <1>2
  <2> HIDE DEF r
  <2>2. \A a \in Arc : a \in ArcsOfV <=> a <= Given
    BY <1>2, <1>3, <1>4, <1>c DEF ArcsOfV
  <2>3. ArcsOfV \subseteq Arc /\ Null \notin Arc
    BY Constants DEF ArcsOfV
  <2> HIDE DEF ArcsOfV
  <2>4. \A a \in ArcsOfV : /\ a \in Int /\ 1 <= a /\ a <= Given
                           /\ slot[a].next = IF a = Given THEN Null ELSE a + 1
                           /\ slot[a].prev = IF a = 1 THEN Null ELSE a - 1
    BY <1>2, <1>4, <1>c, <2>2, <2>3
  <2>5. \A a \in Int : 1 <= a /\ a <= Given => a \in ArcsOfV
    BY <1>c, <2>2 DEF Arc
  <2>6. ASSUME NEW a \in ArcsOfV PROVE Behind(r, ArcsOfV, a, slot[a].next)
    <3>1. CASE a = Given
      <4>1. slot[a].next = Null
        BY <2>4, <3>1
      <4>2. \A c \in ArcsOfV : ~(r[c] > r[a])
        BY <2>1, <2>3, <2>4, <3>1
      <4> QED BY <4>1, <4>2 DEF Behind
    <3>2. CASE a # Given
      <4>1. slot[a].next = a + 1 /\ a + 1 \in ArcsOfV
        BY <1>c, <2>4, <2>5, <3>2
      <4>2. a + 1 # Null /\ r[a + 1] = a + 1 /\ r[a] = a
        BY <2>1, <2>3, <4>1
      <4>3. \A c \in ArcsOfV : r[c] > r[a] <=> r[c] >= r[a + 1]
        BY <2>1, <2>3, <2>4, <4>2
      <4> QED BY <4>1, <4>2, <4>3 DEF Behind
    <3> QED BY <3>1, <3>2
  <2>7. ASSUME NEW a \in ArcsOfV
        PROVE  /\ head[V] # Null /\ r[head[V]] <= r[a]
               /\ slot[a].prev = Null <=> head[V] = a
               /\ slot[a].next # Null => slot[slot[a].next].prev = a
               /\ slot[a].prev # Null => slot[a].prev \in ArcsOfV /\ slot[slot[a].prev].next = a
    <3>1. Given > 0 /\ head[V] = 1 /\ 1 \in ArcsOfV
      BY <1>7, <1>c, <2>4, <2>5
    <3>2. 1 # Null /\ r[1] = 1 /\ r[a] = a
      BY <2>1, <2>3, <3>1
    <3>3. slot[a].prev = Null <=> a = 1
      <4>1. a # 1 => a - 1 \in ArcsOfV
        BY <1>c, <2>4, <2>5
      <4> QED BY <2>3, <2>4, <4>1
    <3>4. slot[a].next # Null => slot[slot[a].next].prev = a
      <4>1. slot[a].next # Null => slot[a].next = a + 1 /\ a + 1 \in ArcsOfV /\ a + 1 # 1
        BY <1>c, <2>4, <2>5
      <4> QED BY <2>4, <4>1
    <3>5. slot[a].prev # Null => slot[a].prev \in ArcsOfV /\ slot[slot[a].prev].next = a
      <4>1. slot[a].prev # Null => slot[a].prev = a - 1 /\ a - 1 \in ArcsOfV /\ a - 1 # Given
        BY <1>c, <2>4, <2>5
      <4> QED BY <2>4, <4>1
    <3> QED BY <2>4, <3>1, <3>2, <3>3, <3>4, <3>5
  <2>8. /\ \A a \in Arc : r[a] > 0
        /\ \A a, b \in ArcsOfV : r[a] = r[b] => a = b
        /\ head[V] # Null => head[V] \in ArcsOfV
    BY <1>2, <1>7, <1>c, <2>1, <2>3, <2>5
  <2>9. Ordered(r, 0, ArcsOfV, slot, head[V])
    BY <2>6, <2>7, <2>8 DEF Ordered
  <2>10. Walked(r)
    <3>1. Begins /\ At = Null
      BY <1>6 DEF Begins, At
    <3>2. Before(r) = {}
      BY <1>6, <3>1 DEF Before
    <3>3. IsInjective(returned) /\ Range(returned) = {}
      BY <1>6 DEF IsInjective, Range
    <3> HIDE DEF Begins, At, Before, Left
    <3> QED BY <1>6, <3>1, <3>2, <3>3 DEF Walked
  <2> QED BY <1>6, <2>1, <2>9, <2>10 DEF ListInv
<1> QED BY <1>10, <1>11, <1>12, <1>13 DEF IInv

\* Every step preserves the invariant.
LEMMA NextInv ==
  ASSUME IInv, Next
  PROVE  IInv'
<1>i. RefsAccounted /\ StandInv /\ DeleteInv /\ ListInv /\ TypeOK
  BY DEF IInv, RefsAccounted
<1>h. History
  BY DEF Next
<1>1. ASSUME NEW o \in {V, W}, NEW k \in KindsAsked, ArcNew(o, k) PROVE IInv'
  BY <1>i, <1>h, <1>1, ArcNewRefs, ArcNewList DEF IInv
<1>2. CASE (\E x \in Arc \cup {E} : ElementFree(x)) \/ FreeLock \/ FreeUnlock
  <2>1. RefsAccounted' /\ StandInv' /\ DeleteInv'
    BY <1>i, <1>2, LockRefs, LockDelete
  <2>2. ListInv'
    BY <1>i, <1>h, <1>2, <2>1, LockList
  <2> QED BY <2>1, <2>2 DEF IInv
<1>3. CASE FreeErase
  BY <1>i, <1>h, <1>3, EraseList DEF IInv
<1>4. CASE IteratorNew \/ Walk \/ Iterator5Free \/ IteratorFree
  <2>1. RefsAccounted' /\ StandInv'
    BY <1>i, <1>4, WalkRefs
  <2>2. LiveSame /\ Held' = Held /\ UNCHANGED <<head, five, dead, target, erase, need>>
    BY <1>i, <1>4, WalkFrame
  <2>3. DeleteInv'
    BY <1>i, <2>2, DeleteFrame
  <2>4. PICK r \in [Arc -> Int], lo \in Int :
          /\ Ordered(r, lo, ArcsOfV, slot, head[V])
          /\ ~gap => Walked(r) /\ ~stray /\ pc # "aborted"
    BY <1>i DEF ListInv
  <2>5. Ordered(r, lo, ArcsOfV', slot', head'[V])
    BY <2>2, <2>4, OrderFrame
  <2>6. ~gap' => ~gap
    BY <1>4 DEF IteratorNew, Walk, IteratorFree, NextFirst, NextBehind, NextEnds, NextLock, NextEnd, NextType,
                AttributesNew, AttributesNext, AttributesEnd, Iterator5Free, AttributesFree, history
  <2>7. ~gap' => Walked(r)' /\ ~stray' /\ pc' # "aborted"
    BY <1>i, <1>h, <1>4, <2>1, <2>4, <2>6, WalkMoves
  <2>8. ListInv'
    BY <2>5, <2>7 DEF ListInv
  <2> QED BY <2>1, <2>3, <2>8 DEF IInv
<1> QED BY <1>1, <1>2, <1>3, <1>4 DEF Next, Deletes

LEMMA StutterInv ==
  ASSUME IInv, UNCHANGED vars
  PROVE  IInv'
<1>1. UNCHANGED <<slot, head, ref, lock, five, dead, pc, result, arc_addr, next_arc, it_attr, found, returned, target, erase, need,
                  had, kept, gap, stray, leaked>>
  BY DEF vars, store, iter, deletion, history
<1>2. RefsAccounted' /\ StandInv'
  BY <1>1 DEF IInv, RefsAccounted, TypeOK, RefsOf, StandInv
<1>3. DeleteInv'
  BY <1>1 DEF IInv, DeleteInv, ArcsOfV, Held
<1>4. ListInv'
  <2>1. PICK r \in [Arc -> Int], lo \in Int :
          /\ Ordered(r, lo, ArcsOfV, slot, head[V])
          /\ ~gap => Walked(r) /\ ~stray /\ pc # "aborted"
    BY DEF IInv, ListInv
  <2>2. ArcsOfV' = ArcsOfV /\ At' = At /\ Begins' = Begins /\ \A c : Results(c)' = Results(c)
    BY <1>1 DEF ArcsOfV, At, Begins, Results
  <2>3. Before(r)' = Before(r)
    BY <1>1, <2>2 DEF Before
  <2>5. \A x : Left(r, x)' <=> Left(r, x)
    <3> HIDE DEF At, Before
    <3> QED BY <1>1, <2>2, <2>3 DEF Left, Pending
  <2> HIDE DEF ArcsOfV, At, Begins, Results, Before, Left
  <2>4. Walked(r)' <=> Walked(r)
    BY <1>1, <2>2, <2>3, <2>5 DEF Walked
  <2> QED BY <1>1, <2>1, <2>2, <2>4 DEF ListInv
<1> QED BY <1>2, <1>3, <1>4 DEF IInv

-----------------------------------------------------------------------------
\* The invariant holds in every state of every behaviour: the list of V is whole
\* and in order, and the walk is at a place in it that no step loses.
THEOREM IteratorsInvariance == Spec => []IInv
<1>1. Init => IInv
  BY InitInv
<1>2. IInv /\ [Next]_vars => IInv'
  BY NextInv, StutterInv
<1> QED BY <1>1, <1>2, PTL DEF Spec

\* ref_count of each slot is the reference of its element and those that the
\* iterator holds or has forgotten.
THEOREM RefsAccountedHolds == Spec => []RefsAccounted
<1>1. IInv => RefsAccounted
  BY DEF IInv
<1> QED BY <1>1, IteratorsInvariance, PTL

\* sc_iterator3_next leaves the list of its element, or aborts on a slot that
\* nobody refers to, only where an arc was deleted that it was bound to visit.
THEOREM KeepsToListHolds == Spec => []KeepsToList
<1>1. IInv => KeepsToList
  BY DEF IInv, ListInv, KeepsToList
<1> QED BY <1>1, IteratorsInvariance, PTL

\* A walk to the end has returned every arc that matches and was there all the
\* time, sc_iterator5_next with each of its attribute arcs, and none twice.
THEOREM AllReturnedHolds == Spec => []AllReturned
<1>1. ASSUME IInv PROVE AllReturned
  <2> SUFFICES ASSUME pc = "false", ~gap
               PROVE  /\ \A a \in kept : Results(a) \subseteq Range(returned)
                      /\ IsInjective(returned)
    BY DEF AllReturned
  <2>1. PICK r \in [Arc -> Int] : Walked(r)
    BY <1>1 DEF IInv, ListInv
  <2>2. ~Begins
    BY DEF Begins
  <2>3. IsInjective(returned) /\ \A c \in kept : \A x \in Results(c) : x \in Range(returned) \/ Left(r, x)
    BY <2>1, <2>2 DEF Walked
  <2>4. Before(r) = {} /\ \A x : ~Pending(x)
    BY <2>1 DEF Walked, Before, At, Pending
  <2> HIDE DEF Pending, Before
  <2> QED BY <2>3, <2>4 DEF Left
<1> QED BY <1>1, IteratorsInvariance, PTL
=============================================================================
