----------------------------- MODULE Iterators -----------------------------
(***************************************************************************)
(* An iterator over the arcs of an element V, while another thread creates *)
(* and deletes arcs and their common end: sc_iterator3_f_a_a, and on top   *)
(* of it sc_iterator5_f_a_a_a_f, which returns each arc once for every     *)
(* attribute arc that enters it.  The other iterators walk the list of     *)
(* input arcs in the same way.                                             *)
(*                                                                         *)
(* An iterator refers to the arc that it stands on, so that the arc, when  *)
(* deleted, keeps its slot and its successor as they were.  The iterator   *)
(* over the attribute arcs (it_attr) refers to that arc once more.  Of     *)
(* attribute arcs there is only their number: they come and go with the    *)
(* arc they enter.                                                         *)
(***************************************************************************)
EXTENDS Integers, Sequences, FiniteSets, SequencesExt

CONSTANTS Slots,     \* number of slots for arcs
          Given,     \* number of arcs of V at the start
          PerArc,    \* number of attribute arcs of an arc that has any
          MaxNew, MaxFree,   \* bounds: creations and deletions
          V, W, E,   \* the element, another one, and the end of the arcs of V
          Null

Arc == 1..Slots

ASSUME IteratorsAssumption ==
  /\ {Slots, Given, PerArc, MaxNew, MaxFree} \subseteq Nat /\ Given <= Slots
  /\ V \notin {W, E, Null} /\ W \notin {E, Null} /\ E # Null /\ {V, W, E, Null} \cap Arc = {}
  /\ Null \notin {"iterator", "deleter"}

VARIABLES slot,     \* the element in each slot
          head,     \* the first arc of V, and of another element w
          ref,      \* ref_count of each slot
          lock,     \* who holds the arcs, V and E, the end of the arcs of V
          five,     \* this is a 5-element iterator
          dead,     \* E has been deleted
          pc, result, arc_addr, next_arc,   \* the iterator
          it_attr, found,   \* the iterator over attribute arcs exists, and has found so many
          returned, \* what it has returned: arcs, and which of their attribute arcs
          target, erase, need,   \* a deletion: of what, its remove_table, locks to take
          made, freed,
          had, kept, gap, stray, leaked     \* history, for the properties: gap, a deletion
                                            \* has broken the way of the walk

store == <<slot, head, ref>>
iter == <<pc, result, arc_addr, next_arc, it_attr, found, returned>>
deletion == <<target, erase, need>>
history == <<gap, stray, leaked>>
vars == <<store, lock, five, dead, iter, deletion, made, freed, had, kept, history>>

Kinds == {"other", "plain", "attribute"}   \* wrong type; without, with attribute arcs
Attributes(k) == IF k = "attribute" THEN PerArc ELSE 0
Slot == [state : {"free", "live", "marked"}, of : {V, W, Null},
         next : Arc \cup {Null}, prev : Arc \cup {Null}, kind : Kinds]

\* Attributes matter to a 5-element iterator only, and the type of an arc to the
\* walk that it shares with the others.
KindsAsked == IF five THEN {"plain", "attribute"} ELSE {"other", "plain"}

FreeSlot == [state |-> "free", of |-> Null, next |-> Null, prev |-> Null, kind |-> "other"]

Lockable == Arc \cup {V, E}

Pcs == {"none", "ready", "try", "ends", "type", "attr", "more", "drop", "behind", "false", "end",
        "gone", "aborted"}

TypeOK ==
  /\ slot \in [Arc -> Slot]
  /\ head \in [{V, W} -> Arc \cup {Null}]
  /\ ref \in [Arc -> Nat] /\ leaked \in [Arc -> Nat]
  /\ lock \in [Lockable -> {"iterator", "deleter", Null}]
  /\ five \in BOOLEAN /\ dead \in BOOLEAN
  /\ pc \in Pcs
  /\ {result, arc_addr, next_arc} \subseteq Arc \cup {Null}
  /\ it_attr \in BOOLEAN /\ found \in Nat
  /\ returned \in Seq(Arc \X Nat)
  /\ target \in Lockable \cup {Null} /\ erase \subseteq Arc /\ need \subseteq Lockable

Init ==
  /\ five \in BOOLEAN
  /\ \E k \in [1..Given -> KindsAsked] :
       slot = [a \in Arc |->
                 IF a > Given THEN FreeSlot
                 ELSE [state |-> "live", of |-> V, kind |-> k[a],
                       next |-> IF a = Given THEN Null ELSE a + 1,
                       prev |-> IF a = 1 THEN Null ELSE a - 1]]
  /\ head = [o \in {V, W} |-> IF o = V /\ Given > 0 THEN 1 ELSE Null]
  /\ ref = [a \in Arc |-> IF a <= Given THEN 1 ELSE 0]
  /\ lock = [x \in Lockable |-> Null]
  /\ dead = FALSE
  /\ pc = "none" /\ result = Null /\ arc_addr = Null /\ next_arc = Null
  /\ it_attr = FALSE /\ found = 0 /\ returned = <<>>
  /\ target = Null /\ erase = {} /\ need = {}
  /\ made = 0 /\ freed = 0
  /\ had = {} /\ kept = {} /\ gap = FALSE /\ stray = FALSE /\ leaked = [a \in Arc |-> 0]

Running == pc # "aborted"
Free(x) == lock[x] = Null

\* Slots and counts after references to a are given back: the last one
\* erases the slot.
Unref(a) ==
  /\ ref' = [ref EXCEPT ![a] = @ - 1]
  /\ slot' = IF ref[a] = 1 THEN [slot EXCEPT ![a] = FreeSlot] ELSE slot

-----------------------------------------------------------------------------
\* The other thread.

\* sc_storage_arc_new: the arc is put in front of the arcs of its begin.
ArcNew(o, k) ==
  /\ Running /\ made < MaxNew /\ made' = made + 1
  /\ o = V => /\ Free(V) /\ Free(E) /\ ~dead
              /\ head[V] # Null => Free(head[V])
  /\ \E a \in Arc :
       /\ slot[a].state = "free" /\ Free(a)
       /\ slot' = [b \in Arc |->
                     IF b = a THEN [state |-> "live", of |-> o, next |-> head[o], prev |-> Null, kind |-> k]
                     ELSE IF b = head[o] THEN [slot[b] EXCEPT !.prev = a] ELSE slot[b]]
       /\ head' = [head EXCEPT ![o] = a]
       /\ ref' = [ref EXCEPT ![a] = 1]
  /\ UNCHANGED <<lock, five, dead, iter, deletion, freed, history>>

\* What must be locked to erase the arcs es
LockTable(es) ==
  es \cup {V, E} \cup ((UNION {{slot[a].next, slot[a].prev} : a \in es}) \ {Null})

\* sc_storage_element_free of an arc, or of E and with it of the arcs of V.
ElementFree(x) ==
  /\ Running /\ target = Null /\ freed < MaxFree /\ freed' = freed + 1
  /\ \/ x \in Arc /\ slot[x].state = "live" /\ slot[x].of = V
     \/ x = E /\ ~dead
  /\ Free(x)
  /\ lock' = [lock EXCEPT ![x] = "deleter"]
  /\ target' = x
  /\ LET es == IF x = E THEN {a \in Arc : slot[a].state = "live" /\ slot[a].of = V} ELSE {x}
     IN erase' = es /\ need' = LockTable(es) \ {x}
  /\ UNCHANGED <<store, five, dead, iter, made, history>>

\* The order of the locks: for an arc its begin, its end, and the arcs before
\* and behind; for E its arcs from the first to the last, then their begin.
Turn(x) ==
  CASE x = V -> target = E => need = {V}
    [] x = E -> V \notin need
    [] x \in Arc /\ target = E -> slot[x].prev \notin need
    [] OTHER -> /\ need \cap {V, E} = {}
                /\ x = slot[target].next => slot[target].prev \notin need

FreeLock ==
  /\ Running /\ target # Null
  /\ \E x \in need : /\ Turn(x) /\ Free(x)
                     /\ lock' = [lock EXCEPT ![x] = "deleter"]
                     /\ need' = need \ {x}
  /\ UNCHANGED <<store, five, dead, iter, target, erase, made, freed, history>>

\* The slot goes with the last reference.
Erased(a) == ref[a] = 1

\* Mutant: the arc before is left as it is.
UnlinkedHalf(a) ==
  [b \in Arc |-> IF b = slot[a].next THEN [slot[b] EXCEPT !.prev = slot[a].prev] ELSE slot[b]]

\* The arcs before and behind are linked with each other.
Unlinked(a) ==
  [b \in Arc |->
     CASE b = slot[a].prev -> [slot[b] EXCEPT !.next = slot[a].next]
       [] b = slot[a].next -> [slot[b] EXCEPT !.prev = slot[a].prev]
       [] OTHER -> slot[b]]

\* Where the walk goes on whatever happens to that arc: the successor of an
\* arc that has left the list, or an address read and not yet locked.
Ahead == CASE pc = "try" -> arc_addr
           [] pc = "type" -> next_arc
           [] result # Null /\ slot[result].state = "marked" -> slot[result].next
           [] OTHER -> Null

\* One after the other, in any order.  A deleted arc keeps its successor.
FreeErase ==
  /\ Running /\ target # Null /\ need = {}
  /\ \E a \in erase :
       /\ slot' = [Unlinked(a) EXCEPT ![a] = IF Erased(a) THEN FreeSlot
                                             ELSE [slot[a] EXCEPT !.state = "marked"]]
       /\ head' = [head EXCEPT ![V] = IF @ = a THEN slot[a].next ELSE @]
       /\ ref' = [ref EXCEPT ![a] = @ - 1]
       /\ erase' = erase \ {a}
       /\ leaked' = [leaked EXCEPT ![a] = IF Erased(a) THEN 0 ELSE @]
       /\ gap' = (gap \/ Ahead = a)
  /\ UNCHANGED <<lock, five, dead, iter, target, need, made, freed, stray>>

\* Mutant: only what was asked to be deleted is unlocked.
ReleasedTarget == [lock EXCEPT ![target] = Null]

\* Everything in the lock_table is unlocked.
Released == [x \in Lockable |-> IF lock[x] = "deleter" THEN Null ELSE lock[x]]

FreeUnlock ==
  /\ Running /\ target # Null /\ need = {} /\ erase = {}
  /\ lock' = Released
  /\ target' = Null /\ dead' = (dead \/ target = E)
  /\ UNCHANGED <<store, five, iter, erase, need, made, freed, history>>

-----------------------------------------------------------------------------
\* The iterator.

\* sc_iterator3_new, sc_iterator5_new, with a reference to V
IteratorNew ==
  /\ pc = "none" /\ Free(V) /\ pc' = "ready"
  /\ UNCHANGED <<store, lock, five, dead, result, arc_addr, next_arc, it_attr, found, returned, deletion, made, freed, history>>

\* sc_iterator3_next begins with the first arc, or the one behind the last.
NextFirst ==
  /\ pc = "ready" /\ result = Null /\ Free(V)
  /\ arc_addr' = head[V] /\ pc' = "try"
  /\ UNCHANGED <<store, lock, five, dead, result, next_arc, it_attr, found, returned, deletion, made, freed, history>>

\* Mutant: the reference to the last one is kept.
GivenBackNot(a) == UNCHANGED <<slot, ref>>

GivenBack(a) == Unref(a)

NextBehind ==
  /\ pc = "behind" \/ (pc = "ready" /\ ~it_attr)
  /\ result # Null /\ Free(result)
  /\ arc_addr' = slot[result].next
  /\ GivenBack(result)
  /\ result' = Null /\ pc' = "try"
  /\ UNCHANGED <<head, lock, five, dead, next_arc, it_attr, found, returned, deletion, made, freed, history>>

NextEnds ==
  /\ pc = "try" /\ arc_addr = Null /\ pc' = "false"
  /\ UNCHANGED <<store, lock, five, dead, result, arc_addr, next_arc, it_attr, found, returned, deletion, made, freed, history>>

\* Neither an arc of V, deleted or not, nor one that was there before.
Astray(a) == slot[a].of # V \/ a \notin had

\* The arc is locked and referred to, which asserts that somebody refers to
\* it; a deleted one is passed over.
NextLock ==
  /\ pc = "try" /\ arc_addr # Null /\ Free(arc_addr)
  /\ next_arc' = slot[arc_addr].next
  /\ stray' = (stray \/ Astray(arc_addr))
  /\ \/ /\ ref[arc_addr] = 0 /\ pc' = "aborted"
        /\ UNCHANGED <<lock, ref, arc_addr>>
     \/ /\ ref[arc_addr] > 0 /\ slot[arc_addr].state = "marked"
        /\ arc_addr' = slot[arc_addr].next
        /\ UNCHANGED <<lock, ref, pc>>
     \/ /\ ref[arc_addr] > 0 /\ slot[arc_addr].state # "marked"
        /\ ref' = [ref EXCEPT ![arc_addr] = @ + 1]
        /\ lock' = [lock EXCEPT ![arc_addr] = "iterator"]
        /\ pc' = "ends" /\ UNCHANGED arc_addr
  /\ UNCHANGED <<slot, head, five, dead, result, it_attr, found, returned, deletion, made, freed, gap, leaked>>

\* The access levels of the end, with the arc still locked
NextEnd ==
  /\ pc = "ends" /\ Free(E)
  /\ lock' = [lock EXCEPT ![arc_addr] = Null]
  /\ pc' = "type"
  /\ UNCHANGED <<store, five, dead, result, arc_addr, next_arc, it_attr, found, returned, deletion, made, freed, history>>

\* The type of the end, and the comparison; where the end is gone, el_type is
\* not set.  The reference to an arc that does not match is kept for ever.
NextType ==
  /\ pc = "type" /\ Free(E)
  /\ \/ /\ slot[arc_addr].kind = "other" \/ dead
        /\ arc_addr' = next_arc /\ pc' = "try"
        /\ leaked' = [leaked EXCEPT ![arc_addr] = @ + 1]
        /\ UNCHANGED <<result, returned>>
     \/ /\ slot[arc_addr].kind # "other"
        /\ result' = arc_addr /\ arc_addr' = Null
        /\ pc' = IF five THEN "attr" ELSE "ready"
        /\ returned' = IF five THEN returned ELSE Append(returned, <<arc_addr, 0>>)
        /\ UNCHANGED leaked
  /\ next_arc' = Null
  /\ UNCHANGED <<store, lock, five, dead, it_attr, found, deletion, made, freed, gap, stray>>

\* sc_iterator5_next makes the iterator over the attribute arcs, which refers to
\* the arc; when the arc is gone it cannot, and ends.
AttributesNew ==
  /\ pc = "attr" /\ Free(result)
  /\ \/ /\ slot[result].state = "live"
        /\ ref' = [ref EXCEPT ![result] = @ + 1]
        /\ it_attr' = TRUE /\ pc' = "more" /\ UNCHANGED gap
     \/ /\ slot[result].state # "live"
        /\ pc' = "false" /\ gap' = TRUE /\ UNCHANGED <<ref, it_attr>>
  /\ UNCHANGED <<slot, head, lock, five, dead, result, arc_addr, next_arc, found, returned, deletion,
                 made, freed, stray, leaked>>

\* Mutant: the iterator over attribute arcs is not asked again.
FoundMoreOnce == found = 0 /\ Attributes(slot[result].kind) > 0

\* It has an attribute arc that it has not returned.
FoundMore == found < Attributes(slot[result].kind)

\* The first attribute arc is read from the arc, the next one from the one
\* before, which a deletion of the arc locks as well before it erases anything.
Readable == IF found = 0 THEN Free(result) ELSE lock[result] # "deleter" \/ need # {}

\* Every call asks it first: the arc is returned once more for the next
\* attribute arc.  When they have been deleted, with the arc, it ends, or
\* meets an address that it has read before.
AttributesNext ==
  /\ it_attr /\ pc \in {"ready", "more"} /\ Readable
  /\ \/ /\ slot[result].state = "live" /\ FoundMore
        /\ found' = found + 1
        /\ returned' = Append(returned, <<result, found + 1>>)
        /\ pc' = "ready" /\ UNCHANGED <<gap, stray>>
     \/ /\ slot[result].state = "marked" \/ ~FoundMore
        /\ pc' = "drop" /\ UNCHANGED <<found, returned, gap, stray>>
     \/ /\ slot[result].state = "marked" /\ FoundMore
        /\ pc' \in {"ready", "aborted"}
        /\ gap' = TRUE /\ stray' = TRUE /\ UNCHANGED <<found, returned>>
  /\ UNCHANGED <<store, lock, five, dead, result, arc_addr, next_arc, it_attr, deletion, made, freed, leaked>>

\* sc_iterator3_free gives its reference to the arc back.
AttributesFree ==
  /\ Free(result) /\ Unref(result)
  /\ it_attr' = FALSE /\ found' = 0
  /\ UNCHANGED <<head, lock, five, dead, result, arc_addr, next_arc, returned, deletion, made, freed, history>>

AttributesEnd == pc = "drop" /\ pc' = "behind" /\ AttributesFree

\* sc_iterator5_free begins with it ...
Iterator5Free == pc = "ready" /\ it_attr /\ pc' = "end" /\ AttributesFree

\* ... and sc_iterator3_free ends, at any time between calls.
IteratorFree ==
  /\ pc \in {"ready", "false", "end"} /\ ~it_attr /\ pc' = "gone"
  /\ IF result = Null THEN UNCHANGED <<slot, ref>>
     ELSE Free(result) /\ Unref(result)
  /\ result' = Null
  /\ UNCHANGED <<head, lock, five, dead, arc_addr, next_arc, it_attr, found, returned, deletion, made, freed, history>>

-----------------------------------------------------------------------------
ArcsOfV == {a \in Arc : slot[a].state = "live" /\ slot[a].of = V}

\* The arcs that V had when the walk began, until their slots are erased, and
\* those that it has had all the time.
Begins == pc = "none" \/ (pc = "ready" /\ result = Null)

History ==
  /\ had' = IF Begins THEN ArcsOfV' ELSE {a \in had : slot'[a].state # "free"}
  /\ kept' = IF Begins THEN ArcsOfV' ELSE kept \cap ArcsOfV'

Walk == NextFirst \/ NextBehind \/ NextEnds \/ NextLock \/ NextEnd \/ NextType
        \/ AttributesNew \/ AttributesNext \/ AttributesEnd

Deletes == FreeLock \/ FreeErase \/ FreeUnlock

Next ==
  /\ \/ \E o \in {V, W}, k \in KindsAsked : ArcNew(o, k)
     \/ \E x \in Arc \cup {E} : ElementFree(x)
     \/ Deletes
     \/ IteratorNew \/ Walk \/ Iterator5Free \/ IteratorFree
  /\ History

\* A deletion goes on, and so does a client that iterates.
Spec == Init /\ [][Next]_vars /\ WF_vars(Walk /\ History) /\ WF_vars(Deletes /\ History)

-----------------------------------------------------------------------------
\* Properties.

\* References of the iterator: to what it stands on, once more for it_attr, to
\* what it looks at, and to what it has forgotten.
RefsOf(a) ==
  (IF slot[a].state = "live" THEN 1 ELSE 0)
  + (IF result = a THEN 1 ELSE 0)
  + (IF result = a /\ it_attr THEN 1 ELSE 0)
  + (IF pc \in {"ends", "type"} /\ arc_addr = a THEN 1 ELSE 0)
  + leaked[a]

\* A slot is referred to by its element, once, and by the iterator for what it
\* holds, so that after its end only arcs of other types that it has met are
\* kept from being erased.
RefsAccounted == TypeOK /\ \A a \in Arc : ref[a] = RefsOf(a)

\* How an arc is to be returned: by a 5-element iterator for each of its
\* attribute arcs, else once.
Results(a) ==
  IF slot[a].kind = "other" THEN {}
  ELSE {a} \X (IF five THEN 1..Attributes(slot[a].kind) ELSE {0})

\* Whoever walks to its end has returned every arc that matches and was there
\* from the beginning to the end, a 5-element iterator with every attribute arc,
\* and none of them twice, whatever was created and deleted meanwhile, the arc
\* it stood on included; unless an arc was deleted that the walk was bound to
\* visit, or a 5-element iterator ended early.
AllReturned ==
  pc = "false" /\ ~gap =>
    /\ \A a \in kept : Results(a) \subseteq Range(returned)
    /\ IsInjective(returned)

\* Only then does it leave the list of V or meet a slot that nobody refers to.
KeepsToList == stray \/ pc = "aborted" => gap

\* The iterator holds an arc and waits for its end, whose deletion waits for
\* the arc.
Deadlock == pc = "ends" /\ lock[E] = "deleter" /\ arc_addr \in need

\* Every call of next ends, unless it and a deletion wait for each other,
\* although it may meet new arcs: these are in front of those that were there.
WalkEnds ==
  pc \in {"try", "ends", "type", "attr", "more", "drop", "behind"}
    ~> pc \in {"ready", "false", "gone", "aborted"} \/ Deadlock
=============================================================================
