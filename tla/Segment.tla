------------------------------ MODULE Segment ------------------------------
(***************************************************************************)
(* Allocation of sc-elements in one segment (sc_segment.c).                *)
(*                                                                         *)
(* A segment has ElementsCount slots; slot o belongs to section            *)
(* o % Level, and each section keeps how many of its slots are empty and   *)
(* the offset of one of them, under its own lock.  The locks are those of  *)
(* module SectionLock, used here through what RecursiveLock promises.      *)
(* ElementsCount = 65535 and Level = 32 in the program; both leave the     *)
(* remainder Level - 1, so that the last section is one slot short.        *)
(*                                                                         *)
(* The body of sc_segment_lock_empty_element between lock_try and its exit *)
(* runs under the section's lock and is one step; the unlocked reads of    *)
(* elements_count and empty_count that come before it are steps of their   *)
(* own.                                                                    *)
(***************************************************************************)
EXTENDS Integers, FiniteSets

CONSTANTS ElementsCount,  \* SC_SEGMENT_ELEMENTS_COUNT
          Level,          \* SC_CONCURRENCY_LEVEL
          Nums,           \* segment numbers considered: 0 is special
          Threads,
          Id,             \* ctx->id of each thread's context
          None            \* no slot, no section

ASSUME SegmentAssumption ==
  /\ Level \in Nat \ {0}
  /\ ElementsCount \in Nat
  /\ ElementsCount > Level
  /\ Nums \subseteq Nat
  /\ Id \in [Threads -> Nat]
  /\ None \notin Int

VARIABLES num, type, empty_count, empty_offset, elements_count,  \* sc_segment
          pc, i, max_attempts,  \* sc_segment_lock_empty_element, per thread
          claim,                \* the slot a call returned, still locked
          outer                 \* sections the callers locked themselves

segment == <<type, empty_count, empty_offset, elements_count>>
call == <<pc, i, max_attempts>>
vars == <<num, segment, call, claim, outer>>

Offsets == 0..(ElementsCount - 1)
Sections == 0..(Level - 1)
SectionOf(o) == o % Level

\* Offset 0 of segment 0 is the empty address, never an element.
IsAddr(n, o) == n + o > 0

TypeOK ==
  /\ num \in Nums
  /\ type \in [Offsets -> {"empty", "used"}]
  /\ empty_count \in [Sections -> Nat]
  /\ empty_offset \in [Sections -> Offsets]
  /\ elements_count \in Int
  /\ pc \in [Threads -> {"idle", "pass", "visit", "try", "got", "null"}]
  /\ i \in [Threads -> Sections]
  /\ max_attempts \in [Threads -> 1..Level]
  /\ claim \in [Threads -> Offsets \cup {None}]
  /\ outer \in [Threads -> SUBSET Sections]

-----------------------------------------------------------------------------
\* sc_segment_new: every section is given count + 1 empty slots.
NewEmptyCount(n) ==
  [s \in Sections |->
     LET count == ElementsCount \div Level
         full == IF count * Level + s <= ElementsCount THEN count + 1 ELSE count
     IN IF n = 0 /\ s = 0 THEN full - 1 ELSE full]

NewEmptyOffset(n) ==
  [s \in Sections |-> IF n = 0 /\ s = 0 THEN Level ELSE s]

Init ==
  /\ num \in Nums
  /\ type = [o \in Offsets |-> "empty"]
  /\ empty_count = NewEmptyCount(num)
  /\ empty_offset = NewEmptyOffset(num)
  /\ elements_count = 0
  /\ pc = [t \in Threads |-> "idle"]
  /\ i = [t \in Threads |-> 0]
  /\ max_attempts = [t \in Threads |-> 1]
  /\ claim = [t \in Threads |-> None]
  /\ outer = [t \in Threads |-> {}]

-----------------------------------------------------------------------------
\* Section locks, as RecursiveLock promises them: a call of lock_empty_element
\* that returned a slot still has its section locked.
HeldBy(t) == outer[t] \cup (IF claim[t] = None THEN {} ELSE {SectionOf(claim[t])})

FreeFor(t, s) == \A u \in Threads \ {t} : s \notin HeldBy(u)

\* A caller locks sections of other elements, as sc_storage_arc_new_ext does
\* with the begin and the end of the arc.
Lock(t, s) ==
  /\ pc[t] = "idle"
  /\ FreeFor(t, s)
  /\ outer' = [outer EXCEPT ![t] = @ \cup {s}]
  /\ UNCHANGED <<num, segment, call, claim>>

Unlock(t, s) ==
  /\ pc[t] = "idle"
  /\ s \in outer[t]
  /\ outer' = [outer EXCEPT ![t] = @ \ {s}]
  /\ UNCHANGED <<num, segment, call, claim>>

-----------------------------------------------------------------------------
\* sc_segment_lock_empty_element

HasEmptySlot ==
  elements_count < IF num = 0 THEN ElementsCount - 1 ELSE ElementsCount

Call(t) ==
  /\ pc[t] = "idle"
  /\ pc' = [pc EXCEPT ![t] = "pass"]
  /\ max_attempts' = [max_attempts EXCEPT ![t] = 1]
  /\ UNCHANGED <<num, segment, i, claim, outer>>

\* The loop's condition, evaluated before each pass over the sections.
Pass(t) ==
  /\ pc[t] = "pass"
  /\ pc' = [pc EXCEPT ![t] = IF HasEmptySlot THEN "visit" ELSE "null"]
  /\ i' = [i EXCEPT ![t] = 0]
  /\ UNCHANGED <<num, segment, max_attempts, claim, outer>>

Section(t) == (Id[t] + i[t]) % Level

\* Mutant: the number of passes is not bounded.
ContinueForever(t) ==
  /\ i' = [i EXCEPT ![t] = (@ + 1) % Level]
  /\ pc' = [pc EXCEPT ![t] = IF i[t] + 1 < Level THEN "visit" ELSE "pass"]
  /\ UNCHANGED max_attempts

\* The next section of the pass, or the next pass, or no element at all.
Continue(t) ==
  \/ /\ i[t] + 1 < Level
     /\ i' = [i EXCEPT ![t] = @ + 1]
     /\ pc' = [pc EXCEPT ![t] = "visit"]
     /\ UNCHANGED max_attempts
  \/ /\ i[t] + 1 = Level
     /\ max_attempts[t] < Level
     /\ max_attempts' = [max_attempts EXCEPT ![t] = @ + 1]
     /\ pc' = [pc EXCEPT ![t] = "pass"]
     /\ UNCHANGED i
  \/ /\ i[t] + 1 = Level
     /\ max_attempts[t] = Level
     /\ pc' = [pc EXCEPT ![t] = "null"]
     /\ UNCHANGED <<i, max_attempts>>

\* The section is left out when its empty_count, read without the lock, is 0.
Visit(t) ==
  /\ pc[t] = "visit"
  /\ IF empty_count[Section(t)] = 0
     THEN Continue(t)
     ELSE pc' = [pc EXCEPT ![t] = "try"] /\ UNCHANGED <<i, max_attempts>>
  /\ UNCHANGED <<num, segment, claim, outer>>

\* lock_try fails when another thread owns the section, or keeps its guard
\* busy for three exchanges.
TryFails(t) ==
  /\ pc[t] = "try"
  /\ ~FreeFor(t, Section(t)) \/ \E u \in Threads \ {t} : pc[u] # "idle"
  /\ Continue(t)
  /\ UNCHANGED <<num, segment, claim, outer>>

\* Mutant: the slots behind are not checked to be empty.
BehindUnchecked(s, idx) == {j \in Offsets : SectionOf(j) = s /\ j > idx}

\* The empty slots that the two searches for a successor of idx look at: all
\* behind it, and those before it only in the first section visited of
\* segment 0.
Behind(s, idx) ==
  {j \in Offsets : SectionOf(j) = s /\ j > idx /\ type[j] = "empty"}
Before(t, s, idx) ==
  {j \in Offsets : /\ i[t] = 0 /\ num = 0
                   /\ SectionOf(j) = s /\ Level <= j /\ j < idx
                   /\ type[j] = "empty"}

\* Mutant: empty_offset is not moved on.
SuccessorsSame(t, s, idx) == {idx}

\* The new value of empty_offset: the nearest slot behind, else the nearest
\* before; none if both searches fail.
Successors(t, s, idx) ==
  IF Behind(s, idx) # {}
  THEN {j \in Behind(s, idx) : \A k \in Behind(s, idx) : j <= k}
  ELSE {j \in Before(t, s, idx) : \A k \in Before(t, s, idx) : k <= j}

\* empty_count is read again under the lock.
HasSlot(s) == empty_count[s] > 0

\* The section's lock is taken and its empty_count says it has a slot: both
\* counters are moved, and the slot is returned if it has a successor.
Take(t) ==
  LET s == Section(t)
      idx == empty_offset[s]
  IN /\ pc[t] = "try"
     /\ FreeFor(t, s)
     /\ HasSlot(s)
     /\ elements_count' = elements_count + 1
     /\ empty_count' = [empty_count EXCEPT ![s] = @ - 1]
     /\ \/ \E j \in Successors(t, s, idx) :
             /\ empty_offset' = [empty_offset EXCEPT ![s] = j]
             /\ claim' = [claim EXCEPT ![t] = idx]
             /\ pc' = [pc EXCEPT ![t] = "got"]
             /\ UNCHANGED <<i, max_attempts>>
        \/ /\ Successors(t, s, idx) = {}
           /\ Continue(t)
           /\ UNCHANGED <<empty_offset, claim>>
     /\ UNCHANGED <<num, type, outer>>

\* The section's lock is taken and its last slot is gone meanwhile.
TooLate(t) ==
  /\ pc[t] = "try"
  /\ FreeFor(t, Section(t))
  /\ ~HasSlot(Section(t))
  /\ Continue(t)
  /\ UNCHANGED <<num, segment, claim, outer>>

\* The caller got no element.
Return(t) ==
  /\ pc[t] = "null"
  /\ pc' = [pc EXCEPT ![t] = "idle"]
  /\ UNCHANGED <<num, segment, i, max_attempts, claim, outer>>

\* The caller gives the element its type and unlocks it
\* (sc_storage_element_new_access, sc_storage_arc_new_ext).
Publish(t) ==
  /\ pc[t] = "got"
  /\ type' = [type EXCEPT ![claim[t]] = "used"]
  /\ claim' = [claim EXCEPT ![t] = None]
  /\ pc' = [pc EXCEPT ![t] = "idle"]
  /\ UNCHANGED <<num, empty_count, empty_offset, elements_count, i, max_attempts, outer>>

-----------------------------------------------------------------------------
\* Mutant: an element that is already erased is erased again.
EraseAgain(t, o) ==
  LET s == SectionOf(o)
  IN /\ pc[t] = "idle" /\ FreeFor(t, s) /\ IsAddr(num, o)
     /\ elements_count > 0
     /\ type' = [type EXCEPT ![o] = "empty"]
     /\ elements_count' = elements_count - 1
     /\ empty_count' = [empty_count EXCEPT ![s] = @ + 1]
     /\ empty_offset' = [empty_offset EXCEPT ![s] = o]
     /\ UNCHANGED <<num, call, claim, outer>>

\* sc_segment_erase_element, called with the section locked.
Erase(t, o) ==
  LET s == SectionOf(o)
  IN /\ pc[t] = "idle"
     /\ FreeFor(t, s)
     /\ type[o] = "used"
     /\ type' = [type EXCEPT ![o] = "empty"]
     /\ elements_count' = elements_count - 1
     /\ empty_count' = [empty_count EXCEPT ![s] = @ + 1]
     /\ empty_offset' = [empty_offset EXCEPT ![s] = o]
     /\ UNCHANGED <<num, call, claim, outer>>

\* The memory is shut down with its state saved and started again: the slots
\* are read back into a new segment and sc_segment_loaded counts them.
EmptyIn(s) == {o \in Offsets : SectionOf(o) = s /\ type[o] = "empty"}

Reload ==
  /\ \A t \in Threads : pc[t] = "idle" /\ outer[t] = {}
  /\ elements_count' = Cardinality({o \in Offsets : type[o] = "used"})
  /\ empty_count' = [s \in Sections |-> Cardinality(EmptyIn(s))]
  /\ empty_offset' \in [Sections -> Offsets]
  /\ \A s \in Sections :
       IF EmptyIn(s) = {}
       THEN empty_offset'[s] = NewEmptyOffset(num)[s]
       ELSE /\ empty_offset'[s] \in EmptyIn(s)
            /\ \A o \in EmptyIn(s) : o <= empty_offset'[s]
  /\ UNCHANGED <<num, type, call, claim, outer>>

-----------------------------------------------------------------------------
Step(t) ==
  \/ Pass(t) \/ Visit(t) \/ TryFails(t) \/ Take(t) \/ TooLate(t)
  \/ Return(t) \/ Publish(t)

Next ==
  \/ \E t \in Threads :
       \/ Step(t) \/ Call(t)
       \/ \E s \in Sections : Lock(t, s) \/ Unlock(t, s)
       \/ \E o \in Offsets : Erase(t, o)
  \/ Reload

Spec == Init /\ [][Next]_vars

FairSpec == Spec /\ \A t \in Threads : WF_vars(Step(t))

-----------------------------------------------------------------------------
\* Properties.

Claimed == {claim[t] : t \in Threads} \ {None}

\* Every slot that a call of sc_segment_lock_empty_element returns is without an
\* element at that moment and is not one that another call has returned and
\* whose caller has not set its type yet: no element is overwritten.
NeverOverwrites ==
  [][\A t \in Threads : claim'[t] \notin {claim[t], None} =>
       type[claim'[t]] = "empty" /\ claim'[t] \notin Claimed]_vars

\* Two calls never return one slot, and the slot of a call stays free of an
\* element until its caller sets the type.
ClaimsDisjoint ==
  /\ \A t, u \in Threads : claim[t] = claim[u] /\ claim[t] # None => t = u
  /\ \A o \in Claimed : type[o] = "empty"

\* The asserts on the address (sc_segment.c:187, 196 and 208): an element is never
\* created at the empty address, also not after sc_segment_loaded counted
\* offset 0 of segment 0 as an empty slot.
NeverEmptyAddr ==
  /\ \A o \in Claimed : IsAddr(num, o)
  /\ \A o \in Offsets : type[o] = "used" => IsAddr(num, o)

\* elements_count, which sc_segment_has_empty_slot trusts, never says less
\* than the elements and the pending calls there are.
ElementsCounted ==
  elements_count >= Cardinality({o \in Offsets : type[o] = "used"})
                    + Cardinality(Claimed)

\* sc_segment_lock_empty_element returns, whatever the other threads do.
CallReturns == \A t \in Threads : pc[t] = "pass" ~> pc[t] \in {"null", "got"}

\* The inductive invariant: every section keeps an empty slot that is a real
\* address and is in no one's hands, and empty_offset names such a slot.
Spare(o) == type[o] = "empty" /\ o \notin Claimed /\ IsAddr(num, o)

OffsetInv ==
  \A s \in Sections : SectionOf(empty_offset[s]) = s /\ Spare(empty_offset[s])

ClaimInv ==
  /\ \A t \in Threads : (claim[t] # None) <=> (pc[t] = "got")
  /\ \A t, u \in Threads : t # u => HeldBy(t) \cap HeldBy(u) = {}

IInv == TypeOK /\ ClaimInv /\ OffsetInv /\ ClaimsDisjoint /\ NeverEmptyAddr
=============================================================================
