------------------------------ MODULE Storage ------------------------------
(***************************************************************************)
(* The storage of sc-elements: creation, reference counting and deletion   *)
(* (sc_storage.c).                                                         *)
(*                                                                         *)
(* Elements live in slots, named by their addresses.  The outgoing arcs of *)
(* an element form a doubly linked list that starts at its first_out and   *)
(* runs through the arcs' own next_out and prev_out; so do its incoming    *)
(* arcs.  sc-links are nodes here: their content is not modelled.          *)
(*                                                                         *)
(* A creation locks every element it reads or writes before its first      *)
(* write and unlocks them after its last: it is one step.  Deletion, whose *)
(* order of work is the point, is taken step by step (s_mutex_free keeps   *)
(* two deletions apart): it locks and collects the elements to remove,     *)
(* then erases them in the order of a hash table, which is any order,      *)
(* while other threads work on what it has not locked.  A lock covers one  *)
(* element here; the program's sections cover many, and so allow less.     *)
(***************************************************************************)
EXTENDS Integers, Sequences, FiniteSets

CONSTANTS Addr,     \* the slots
          NoAddr,   \* the empty address
          Levels,   \* write levels of elements and contexts
          MaxRefs,  \* bound: references clients keep to one element
          MaxHeld   \* bound: elements that clients refer to or give back at one time

ASSUME StorageAssumption ==
  /\ NoAddr \notin Addr
  /\ Levels \subseteq Nat /\ Levels # {}
  /\ MaxRefs \in Nat /\ MaxHeld \in Nat

VARIABLES el,         \* the sc_element in each slot
          ref_count,  \* its sc_element_meta
          held,       \* references that iterators and events keep to it
          free,       \* the sc_storage_element_free that runs, if any
          emitted,    \* the events it has passed to sc_event_emit
          aborted     \* an assertion failed and the process ended

vars == <<el, ref_count, held, free, emitted, aborted>>

-----------------------------------------------------------------------------
AddrOrNone == Addr \cup {NoAddr}

Elements ==
  [type : {"empty", "node", "arc"}, deleted : BOOLEAN, access : Levels,
   begin : AddrOrNone, end : AddrOrNone,
   first_out : AddrOrNone, first_in : AddrOrNone,
   next_out : AddrOrNone, prev_out : AddrOrNone,
   next_in : AddrOrNone, prev_in : AddrOrNone]

Lowest == CHOOSE l \in Levels : \A k \in Levels : l <= k

\* What memset leaves of an erased element.
Blank ==
  [type |-> "empty", deleted |-> FALSE, access |-> Lowest,
   begin |-> NoAddr, end |-> NoAddr, first_out |-> NoAddr, first_in |-> NoAddr,
   next_out |-> NoAddr, prev_out |-> NoAddr, next_in |-> NoAddr, prev_in |-> NoAddr]

\* The variables of sc_storage_element_free: remove_table, lock_table,
\* remove_list, the pointer el (last), the arc at hand and the context's level.
\* todo is what the final loop over remove_table has not reached yet.
Deletions ==
  [phase : {"none", "check", "out", "in", "erase"},
   table : SUBSET Addr, locked : SUBSET Addr, list : Seq(Addr), last : AddrOrNone,
   cursor : AddrOrNone, level : Levels, todo : SUBSET Addr]

Idle == [phase |-> "none", table |-> {}, locked |-> {}, list |-> <<>>, last |-> NoAddr,
         cursor |-> NoAddr, level |-> Lowest, todo |-> {}]

Events == {"remove_out", "remove_in", "remove_element"} \X Addr \X Addr

TypeOK ==
  /\ el \in [Addr -> Elements]
  /\ ref_count \in [Addr -> Nat]
  /\ held \in [Addr -> Nat]
  /\ free \in Deletions
  /\ emitted \subseteq Events
  /\ aborted \in BOOLEAN

\* sc_element_is_valid
Valid(a) == el[a].type # "empty" /\ ~el[a].deleted

Init ==
  /\ el = [a \in Addr |-> Blank]
  /\ ref_count = [a \in Addr |-> 0]
  /\ held = [a \in Addr |-> 0]
  /\ free = Idle
  /\ emitted = {}
  /\ aborted = FALSE

-----------------------------------------------------------------------------
\* The elements of S can be locked by another thread.
Unlocked(S) == S \cap free.locked = {}

\* Creation, in an empty slot that module Segment finds.

\* sc_storage_node_new, sc_storage_link_new, sc_storage_element_new_access
NodeNew(a, l) ==
  /\ Unlocked({a})
  /\ el[a].type = "empty"
  /\ el' = [el EXCEPT ![a] = [Blank EXCEPT !.type = "node", !.access = l]]
  /\ ref_count' = [ref_count EXCEPT ![a] = 1]
  /\ UNCHANGED <<held, free, emitted, aborted>>

\* Write field f of element x, unless x is the empty address.
Set(elements, x, f, v) ==
  IF x = NoAddr THEN elements ELSE [elements EXCEPT ![x] = [@ EXCEPT ![f] = v]]

\* The new arc becomes the first of its begin's outgoing and of its end's
\* incoming arcs.
Linked(a, b, e, l) ==
  LET new == [Blank EXCEPT !.type = "arc", !.access = l, !.begin = b, !.end = e,
                           !.next_out = el[b].first_out, !.next_in = el[e].first_in]
      s1 == [el EXCEPT ![a] = new]
      s2 == Set(s1, el[b].first_out, "prev_out", a)
      s3 == Set(s2, el[e].first_in, "prev_in", a)
      s4 == Set(s3, b, "first_out", a)
  IN Set(s4, e, "first_in", a)

\* sc_storage_arc_new_ext; it creates nothing when an end is not valid.  Its
\* two events, ADD_OUTPUT_ARC and ADD_INPUT_ARC, are part of the one step.
ArcNew(a, b, e, l) ==
  /\ Unlocked({a, b, e, el[b].first_out, el[e].first_in})
  /\ Valid(b) /\ Valid(e)
  /\ el[a].type = "empty"
  /\ el' = Linked(a, b, e, l)
  /\ ref_count' = [ref_count EXCEPT ![a] = 1]
  /\ UNCHANGED <<held, free, emitted, aborted>>

\* sc_storage_set_access_levels by a context of level c; nothing says that the
\* slot still holds an element.
SetAccess(a, c, l) ==
  /\ Unlocked({a})
  /\ c >= el[a].access
  /\ el' = [el EXCEPT ![a].access = IF c < l THEN c ELSE l]
  /\ UNCHANGED <<ref_count, held, free, emitted, aborted>>

-----------------------------------------------------------------------------
\* References.

\* The last reference is gone and the slot not given back yet.
Dropped(a) == el[a].type # "empty" /\ ref_count[a] = 0

\* An iterator or an event refers to an element (sc_storage_element_ref).  A
\* new event looks at nothing but the count, which must not be 0 ...
Ref(a) ==
  /\ Unlocked({a})
  /\ ref_count[a] > 0
  /\ held[a] < MaxRefs
  /\ Cardinality({x \in Addr \ {a} : held[x] > 0 \/ Dropped(x)}) < MaxHeld
  /\ held' = [held EXCEPT ![a] = @ + 1]
  /\ ref_count' = [ref_count EXCEPT ![a] = @ + 1]
  /\ UNCHANGED <<el, free, emitted, aborted>>

\* ... or else the assertion of _sc_storage_ref_common fails: in a slot that has
\* been given back, or is about to be.
RefAborts(a) ==
  /\ Unlocked({a})
  /\ ref_count[a] = 0
  /\ held[a] < MaxRefs
  /\ aborted' = TRUE
  /\ UNCHANGED <<el, ref_count, held, free, emitted>>

\* sc_storage_element_unref drops a reference and gives the element's lock back.
Unref(a) ==
  /\ Unlocked({a})
  /\ held[a] > 0
  /\ held' = [held EXCEPT ![a] = @ - 1]
  /\ ref_count' = [ref_count EXCEPT ![a] = @ - 1]
  /\ UNCHANGED <<el, free, emitted, aborted>>

\* When that was the last one it locks the element again and gives the slot
\* back.  A client that has the lock itself takes the two steps in one go.
UnrefErase(a) ==
  /\ Unlocked({a})
  /\ Dropped(a)
  /\ el' = [el EXCEPT ![a] = Blank]
  /\ UNCHANGED <<ref_count, held, free, emitted, aborted>>

\* Mutant: the slot is given back although a client still refers to it.
UnrefedAlways(elements, a) == [elements EXCEPT ![a] = Blank]

\* The same by sc_storage_element_free, which has locked the element: nobody
\* comes between the two.
Unrefed(elements, a) ==
  IF ref_count[a] = 1 THEN [elements EXCEPT ![a] = Blank] ELSE elements

-----------------------------------------------------------------------------
\* sc_storage_element_free

FreeCall(a, c) ==
  /\ free = Idle
  /\ Valid(a)
  /\ free' = [Idle EXCEPT !.phase = "check", !.table = {a}, !.locked = {a}, !.list = <<a>>,
                          !.last = a, !.level = c]
  /\ UNCHANGED <<el, ref_count, held, emitted, aborted>>

\* What is locked along with an arc to remove: its ends and the arcs before and
\* behind it in its two lists.
Neighbours(a) ==
  IF el[a].type # "arc" THEN {}
  ELSE {el[a].begin, el[a].end, el[a].prev_out, el[a].prev_in,
        el[a].next_out, el[a].next_in} \ {NoAddr}

\* Mutant: the rights are tested once, for the element the call names.
FreeNextUnchecked ==
  /\ free.phase = "check" /\ free.list # <<>>
  /\ free' = IF free.level < el[free.last].access /\ Cardinality(free.table) = 1
             THEN Idle
             ELSE [free EXCEPT !.phase = "out", !.last = Head(free.list),
                               !.list = Tail(@),
                               !.locked = @ \cup Neighbours(Head(free.list)),
                               !.cursor = el[Head(free.list)].first_out]
  /\ UNCHANGED <<el, ref_count, held, emitted, aborted>>

\* The head of remove_list is taken; the rights tested are those of the
\* element that the previous turn of the loop ended with.
FreeNext ==
  /\ free.phase = "check" /\ free.list # <<>>
  /\ free' = IF free.level < el[free.last].access
             THEN Idle
             ELSE [free EXCEPT !.phase = "out", !.last = Head(free.list),
                               !.list = Tail(@),
                               !.locked = @ \cup Neighbours(Head(free.list)),
                               !.cursor = el[Head(free.list)].first_out]
  /\ UNCHANGED <<el, ref_count, held, emitted, aborted>>

\* Mutant: arcs that start or end in a removed arc are forgotten.
CollectedNotFollowed ==
  [free EXCEPT !.table = @ \cup {free.cursor}, !.locked = @ \cup {free.cursor}]

\* The arc under the cursor is locked and put on both lists, once.
Collected ==
  IF free.cursor \in free.table THEN free
  ELSE [free EXCEPT !.table = @ \cup {free.cursor}, !.locked = @ \cup {free.cursor},
                    !.list = Append(@, free.cursor)]

FreeOut ==
  /\ free.phase = "out"
  /\ free' = IF free.cursor = NoAddr
             THEN [free EXCEPT !.phase = "in", !.cursor = el[free.last].first_in]
             ELSE [Collected EXCEPT !.cursor = el[free.cursor].next_out]
  /\ UNCHANGED <<el, ref_count, held, emitted, aborted>>

FreeIn ==
  /\ free.phase = "in"
  /\ free' = IF free.cursor = NoAddr
             THEN [free EXCEPT !.phase = "check"]
             ELSE [Collected EXCEPT !.cursor = el[free.cursor].next_in]
  /\ UNCHANGED <<el, ref_count, held, emitted, aborted>>

\* remove_list is empty: everything to remove is in remove_table, and locked.
FreeCollected ==
  /\ free.phase = "check" /\ free.list = <<>>
  /\ free' = [free EXCEPT !.phase = "erase", !.todo = free.table]
  /\ UNCHANGED <<el, ref_count, held, emitted, aborted>>

\* An arc leaves the list of outgoing arcs of its begin, and the list of
\* incoming arcs of its end.
UnlinkedOut(elements, a) ==
  LET arc == elements[a]
      s1 == Set(elements, arc.prev_out, "next_out", arc.next_out)
      s2 == Set(s1, arc.next_out, "prev_out", arc.prev_out)
  IN IF s2[arc.begin].first_out = a THEN Set(s2, arc.begin, "first_out", arc.next_out)
     ELSE s2

\* Mutant: the next incoming arc keeps pointing back at the removed one.
UnlinkedInForward(elements, a) ==
  LET arc == elements[a]
      s1 == Set(elements, arc.prev_in, "next_in", arc.next_in)
  IN IF s1[arc.end].first_in = a THEN Set(s1, arc.end, "first_in", arc.next_in)
     ELSE s1

UnlinkedIn(elements, a) ==
  LET arc == elements[a]
      s1 == Set(elements, arc.prev_in, "next_in", arc.next_in)
      s2 == Set(s1, arc.next_in, "prev_in", arc.prev_in)
  IN IF s2[arc.end].first_in = a THEN Set(s2, arc.end, "first_in", arc.next_in)
     ELSE s2

\* The events of one element's removal: <<type, element, arc>>.
EventsOf(a) ==
  {<<"remove_element", a, a>>}
  \cup (IF el[a].type = "arc"
        THEN {<<"remove_out", el[a].begin, a>>, <<"remove_in", el[a].end, a>>}
        ELSE {})

\* One turn of the loop that erases: unlink an arc, mark the element deleted,
\* drop the reference of its existence, tell its subscribers.  No element it
\* collected is marked already, and the test for that is left out.
FreeErase(a) ==
  /\ free.phase = "erase" /\ a \in free.todo
  /\ free' = [free EXCEPT !.todo = @ \ {a}]
  /\ LET unlinked == IF el[a].type = "arc" THEN UnlinkedIn(UnlinkedOut(el, a), a)
                     ELSE el
         marked == Set(unlinked, a, "deleted", TRUE)
     IN el' = Unrefed(marked, a)
  /\ ref_count' = [ref_count EXCEPT ![a] = @ - 1]
  /\ emitted' = emitted \cup EventsOf(a)
  /\ UNCHANGED <<held, aborted>>

FreeReturn ==
  /\ free.phase = "erase" /\ free.todo = {}
  /\ free' = Idle
  /\ emitted' = {}
  /\ UNCHANGED <<el, ref_count, held, aborted>>

-----------------------------------------------------------------------------
Free == FreeNext \/ FreeOut \/ FreeIn \/ FreeCollected
        \/ (\E a \in Addr : FreeErase(a)) \/ FreeReturn

Next ==
  /\ ~aborted
  /\ \/ \E a \in Addr, l \in Levels :
          \/ NodeNew(a, l)
          \/ \E b, e \in Addr : ArcNew(a, b, e, l)
          \/ \E c \in Levels : SetAccess(a, c, l)
          \/ FreeCall(a, l)
     \/ \E a \in Addr : Ref(a) \/ RefAborts(a) \/ Unref(a) \/ UnrefErase(a)
     \/ Free

Spec == Init /\ [][Next]_vars

-----------------------------------------------------------------------------
\* Properties.

Quiet == free.phase # "erase"

Arcs == {a \in Addr : Valid(a) /\ el[a].type = "arc"}

\* What other threads can see: all, until deletion begins to erase, and then
\* what it has not locked.
Visible(S) == IF Quiet THEN S ELSE S \ free.locked

\* An arc always has its two ends: deletion leaves no arc behind that starts
\* or ends in a deleted element or in a slot that may be used again, also
\* not one that another thread creates meanwhile.
NoDangling == \A a \in Visible(Arcs) : Valid(el[a].begin) /\ Valid(el[a].end)

\* What a walk from an arc along next_out or next_in visits: the least set that
\* has the first arc and with every arc the next.
Walk(first, next) ==
  {a \in Addr : \A S \in SUBSET Addr :
     first \in S \cup {NoAddr} /\ (\A y \in S : el[y][next] \in S \cup {NoAddr})
       => a \in S}

\* The lists agree with the arcs: a walk from an element visits exactly its
\* arcs, and walking back from an arc undoes a step forward.
ListsComplete ==
  /\ \A x \in Visible(Addr) : Valid(x) =>
       /\ Walk(el[x].first_out, "next_out") = {a \in Arcs : el[a].begin = x}
       /\ Walk(el[x].first_in, "next_in") = {a \in Arcs : el[a].end = x}
  /\ \A a \in Visible(Arcs) :
       /\ IF el[a].prev_out = NoAddr THEN el[el[a].begin].first_out = a
          ELSE el[el[a].prev_out].next_out = a
       /\ IF el[a].prev_in = NoAddr THEN el[el[a].end].first_in = a
          ELSE el[el[a].prev_in].next_in = a

\* The assertions of the loop that erases (sc_storage.c:496, 504, 531, 539):
\* whatever the order, the arcs before and behind an arc to unlink are locked,
\* those that earlier turns of the loop linked to it too.
LocksCover ==
  \A a \in free.todo :
    el[a].type = "arc" =>
      {el[a].prev_out, el[a].prev_in, el[a].next_out, el[a].next_in} \ {NoAddr}
        \subseteq free.locked

\* Arcs, their ends and the lists of outgoing and incoming arcs fit together
\* whatever the order of creations, collections and erasures, and a deletion
\* mends lists only where it holds the locks.
ListsExact == NoDangling /\ ListsComplete /\ LocksCover

\* ref_count is the references clients keep and one for the element's existence;
\* so a slot is given back, and used again, only when nothing refers to it, and
\* nobody finds an assertion on the count failing (sc_storage.c:1308) who keeps
\* a reference or meets an element that is not deleted.
RefsExact ==
  /\ TypeOK
  /\ \A a \in Addr :
       /\ ref_count[a] = held[a] + (IF Valid(a) THEN 1 ELSE 0)
       /\ el[a].type = "empty" => ref_count[a] = 0

\* The graph of elements changes, and its changes are announced, as module
\* ScGraph says.  A deletion takes effect when all it removes is collected;
\* it then owes the events of the elements that it has not reached yet.
Present == {a \in Addr : Valid(a)} \ (IF Quiet THEN {} ELSE free.table)

Graph == INSTANCE ScGraph WITH
  elements <- Present,
  ends <- [a \in {x \in Present : el[x].type = "arc"} |-> <<el[a].begin, el[a].end>>],
  owed <- UNION {EventsOf(a) : a \in free.todo},
  announced <- emitted

GraphSpec == Graph!Spec

\* What the test of rights does guarantee: at most one element, the last one
\* collected, is deleted without the right to write it, and none is touched
\* when any other lacks it.
RightsButLast ==
  [][free.phase = "check" /\ free'.phase = "erase" =>
       \A a \in free.table \ {free.last} : free.level >= el[a].access]_vars
=============================================================================
