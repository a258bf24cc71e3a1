--------------------------- MODULE SegmentProofs ---------------------------
(***************************************************************************)
(* Allocation never overwrites an element and never uses the empty         *)
(* address, for every segment size, number of sections and set of threads. *)
(***************************************************************************)
EXTENDS Segment, FiniteSetTheorems, TLAPS

\* The sections' first slots (offset % SC_CONCURRENCY_LEVEL).
LEMMA ModSmall == ASSUME NEW s \in Sections PROVE s % Level = s
BY SegmentAssumption DEF Sections

LEMMA ModLevel == Level % Level = 0
BY SegmentAssumption

\* Every offset and every context id names a section.
LEMMA ModRange == ASSUME NEW n \in Nat PROVE n % Level \in Sections
BY SegmentAssumption DEF Sections

LEMMA SectionInRange ==
  ASSUME TypeOK, NEW t \in Threads PROVE Section(t) \in Sections
<1>1. Id[t] + i[t] \in Nat
  BY SegmentAssumption DEF TypeOK, Sections
<1> QED BY <1>1, ModRange DEF Section

\* A new segment (sc_segment_new) offers one real slot per section.
LEMMA InitIInv == Init => IInv
<1> SUFFICES ASSUME Init PROVE IInv
  OBVIOUS
<1> USE SegmentAssumption DEF Init
<1>1. NewEmptyOffset(num) \in [Sections -> Offsets]
  BY DEF NewEmptyOffset, Sections, Offsets
<1>2. NewEmptyCount(num) \in [Sections -> Nat]
  <2>1. ElementsCount \div Level \in Nat \ {0}
    OBVIOUS
  <2> QED BY <2>1 DEF NewEmptyCount
<1>3. TypeOK
  BY <1>1, <1>2 DEF TypeOK, Sections
<1>4. Claimed = {}
  BY DEF Claimed
<1>5. ClaimInv
  BY DEF ClaimInv, HeldBy
<1>6. OffsetInv
  <2> SUFFICES ASSUME NEW s \in Sections
               PROVE  SectionOf(empty_offset[s]) = s /\ Spare(empty_offset[s])
    BY DEF OffsetInv
  <2>1. empty_offset[s] \in Offsets /\ IsAddr(num, empty_offset[s])
    BY <1>1 DEF NewEmptyOffset, IsAddr, Sections, Offsets
  <2>2. SectionOf(empty_offset[s]) = s
    BY ModSmall, ModLevel DEF NewEmptyOffset, SectionOf
  <2> QED BY <1>4, <2>1, <2>2 DEF Spare
<1> QED
  BY <1>3, <1>4, <1>5, <1>6 DEF IInv, ClaimsDisjoint, NeverEmptyAddr, Claimed

\* Moving on to the next section or pass keeps the loop's variables in range.
LEMMA ContinueTyped ==
  ASSUME TypeOK, NEW t \in Threads, Continue(t)
  PROVE  /\ i' \in [Threads -> Sections]
         /\ max_attempts' \in [Threads -> 1..Level]
         /\ pc' \in [Threads -> {"idle", "pass", "visit", "try", "got", "null"}]
         /\ pc' = [pc EXCEPT ![t] = pc'[t]] /\ pc'[t] # "got"
<1>1. i[t] \in Sections /\ max_attempts[t] \in 1..Level
  BY DEF TypeOK
<1>2. i[t] + 1 < Level => i[t] + 1 \in Sections
  BY <1>1, SegmentAssumption DEF Sections
<1>3. max_attempts[t] < Level => max_attempts[t] + 1 \in 1..Level
  BY <1>1, SegmentAssumption
<1>4. i' \in [Threads -> Sections]
  BY <1>2 DEF TypeOK, Continue
<1>5. max_attempts' \in [Threads -> 1..Level]
  BY <1>3 DEF TypeOK, Continue
<1>6. pc' \in [Threads -> {"idle", "pass", "visit", "try", "got", "null"}]
  BY DEF TypeOK, Continue
<1>7. pc' = [pc EXCEPT ![t] = pc'[t]] /\ pc'[t] # "got"
  BY DEF TypeOK, Continue
<1> QED BY <1>4, <1>5, <1>6, <1>7

\* The steps of a call that touch neither slots nor locks.
LEMMA SearchPreservesIInv ==
  ASSUME IInv, NEW t \in Threads,
         Call(t) \/ Pass(t) \/ Visit(t) \/ TryFails(t) \/ TooLate(t) \/ Return(t)
  PROVE  IInv'
<1> USE SegmentAssumption
        DEF Call, Pass, Visit, TryFails, TooLate, Return, segment, call
<1>1. pc' = [pc EXCEPT ![t] = pc'[t]] /\ pc[t] # "got" /\ pc'[t] # "got"
  BY ContinueTyped DEF IInv, TypeOK
<1>2. UNCHANGED <<num, type, empty_count, empty_offset, elements_count, claim, outer>>
  OBVIOUS
<1>3. TypeOK'
  <2>1. 0 \in Sections /\ 1 \in 1..Level
    BY DEF Sections
  <2>2. CASE Continue(t)
    BY <1>2, <2>2, ContinueTyped DEF IInv, TypeOK
  <2>3. CASE ~Continue(t)
    <3>1. pc' \in [Threads -> {"idle", "pass", "visit", "try", "got", "null"}]
      BY <2>3 DEF IInv, TypeOK
    <3>2. i' \in [Threads -> Sections] /\ max_attempts' \in [Threads -> 1..Level]
      BY <2>1, <2>3 DEF IInv, TypeOK
    <3> QED BY <1>2, <3>1, <3>2 DEF IInv, TypeOK
  <2> QED BY <2>2, <2>3
<1>4. ClaimInv'
  BY <1>1, <1>2 DEF IInv, TypeOK, ClaimInv, HeldBy
<1>5. OffsetInv' /\ ClaimsDisjoint' /\ NeverEmptyAddr'
  BY <1>2 DEF IInv, OffsetInv, Spare, ClaimsDisjoint, NeverEmptyAddr, Claimed
<1> QED BY <1>3, <1>4, <1>5 DEF IInv

\* The callers' own locks.
LEMMA LockPreservesIInv ==
  ASSUME IInv, NEW t \in Threads, NEW s \in Sections, Lock(t, s) \/ Unlock(t, s)
  PROVE  IInv'
<1> USE DEF Lock, Unlock, segment, call
<1>1. TypeOK'
  BY DEF IInv, TypeOK
<1>2. ClaimInv'
  <2>1. \A u \in Threads \ {t} : HeldBy(u)' = HeldBy(u)
    BY DEF IInv, TypeOK, HeldBy
  <2>2. HeldBy(t)' \subseteq HeldBy(t) \cup {s}
    BY DEF IInv, TypeOK, HeldBy
  <2>3. Lock(t, s) => \A u \in Threads \ {t} : s \notin HeldBy(u)
    BY DEF FreeFor
  <2>4. Unlock(t, s) => HeldBy(t)' \subseteq HeldBy(t)
    BY DEF IInv, TypeOK, HeldBy
  <2>5. \A u \in Threads \ {t} : HeldBy(u) \cap HeldBy(t)' = {}
    BY <2>2, <2>3, <2>4 DEF IInv, ClaimInv
  <2> QED BY <2>1, <2>5 DEF IInv, ClaimInv
<1>3. OffsetInv' /\ ClaimsDisjoint' /\ NeverEmptyAddr'
  BY DEF IInv, OffsetInv, Spare, ClaimsDisjoint, NeverEmptyAddr, Claimed
<1> QED BY <1>1, <1>2, <1>3 DEF IInv

\* What the search for a successor returns: an empty slot of the section,
\* other than the one taken and never the empty address.
LEMMA SuccessorIsEmpty ==
  ASSUME IInv, NEW t \in Threads, NEW s \in Sections,
         NEW j \in Successors(t, s, empty_offset[s])
  PROVE  /\ j \in Offsets /\ SectionOf(j) = s
         /\ type[j] = "empty" /\ j # empty_offset[s] /\ IsAddr(num, j)
BY SegmentAssumption
   DEF Successors, Behind, Before, IInv, TypeOK, OffsetInv, Spare, IsAddr, Offsets

LEMMA TakePreservesIInv ==
  ASSUME IInv, NEW t \in Threads, Take(t)
  PROVE  IInv'
<1> DEFINE s == Section(t)
           idx == empty_offset[s]
<1>1. s \in Sections
  BY SectionInRange DEF IInv
<1>2. pc[t] = "try" /\ FreeFor(t, s) /\ claim[t] = None
  BY DEF Take, IInv, TypeOK, ClaimInv
<1>3. /\ empty_count' = [empty_count EXCEPT ![s] = @ - 1]
      /\ empty_count[s] > 0
      /\ elements_count' = elements_count + 1
      /\ UNCHANGED <<num, type, outer>>
  BY DEF Take, HasSlot
<1>4. idx \in Offsets /\ SectionOf(idx) = s /\ Spare(idx)
  BY <1>1 DEF IInv, TypeOK, OffsetInv
<1>5. CASE /\ Successors(t, s, idx) = {}
           /\ Continue(t)
           /\ UNCHANGED <<empty_offset, claim>>
  <2>1. TypeOK'
    BY <1>1, <1>3, <1>5, ContinueTyped DEF IInv, TypeOK
  <2>2. pc' = [pc EXCEPT ![t] = pc'[t]] /\ pc'[t] # "got"
    BY <1>5, ContinueTyped DEF IInv
  <2>3. ClaimInv'
    BY <1>2, <1>3, <1>5, <2>2 DEF IInv, TypeOK, ClaimInv, HeldBy
  <2>4. OffsetInv' /\ ClaimsDisjoint' /\ NeverEmptyAddr'
    BY <1>3, <1>5 DEF IInv, OffsetInv, Spare, ClaimsDisjoint, NeverEmptyAddr, Claimed
  <2> QED BY <2>1, <2>3, <2>4 DEF IInv
<1>6. ASSUME NEW j \in Successors(t, s, idx),
             empty_offset' = [empty_offset EXCEPT ![s] = j],
             claim' = [claim EXCEPT ![t] = idx],
             pc' = [pc EXCEPT ![t] = "got"],
             UNCHANGED <<i, max_attempts>>
      PROVE  IInv'
  <2>1. /\ j \in Offsets /\ SectionOf(j) = s
        /\ type[j] = "empty" /\ j # idx /\ IsAddr(num, j)
    BY <1>1, <1>6, SuccessorIsEmpty
  <2>2. TypeOK'
    BY <1>1, <1>3, <1>4, <1>6, <2>1, SegmentAssumption DEF IInv, TypeOK
  <2>3. None \notin Offsets
    BY SegmentAssumption DEF Offsets
  <2>4. ClaimInv'
    BY <1>1, <1>2, <1>3, <1>4, <1>6, <2>3 DEF IInv, TypeOK, ClaimInv, HeldBy, FreeFor
  <2>5. j \notin Claimed
    \* A claimed slot of this section would belong to a thread that holds it.
    <3> SUFFICES ASSUME NEW u \in Threads, claim[u] = j, j # None PROVE FALSE
      BY DEF Claimed
    <3>1. u # t
      BY <1>2
    <3> QED BY <1>2, <2>1, <3>1 DEF FreeFor, HeldBy
  <2>6. Claimed' = Claimed \cup {idx}
    BY <1>2, <1>4, <1>6, <2>3 DEF Claimed, IInv, TypeOK
  <2>7. OffsetInv'
    <3> SUFFICES ASSUME NEW q \in Sections
                 PROVE  SectionOf(empty_offset'[q]) = q /\ Spare(empty_offset[q])'
      BY DEF OffsetInv
    <3>1. CASE q = s
      BY <1>1, <1>3, <1>6, <2>1, <2>5, <2>6, <3>1 DEF IInv, TypeOK, Spare
    <3>2. CASE q # s
      <4>1. empty_offset'[q] = empty_offset[q] /\ SectionOf(empty_offset[q]) = q
        BY <1>1, <1>6, <3>2 DEF IInv, TypeOK, OffsetInv
      <4>2. empty_offset[q] # idx /\ Spare(empty_offset[q])
        BY <1>4, <4>1, <3>2 DEF IInv, OffsetInv
      <4> QED BY <1>3, <2>6, <4>1, <4>2 DEF Spare
    <3> QED BY <3>1, <3>2
  <2>8. ClaimsDisjoint' /\ NeverEmptyAddr'
    BY <1>2, <1>3, <1>4, <1>6, <2>6
       DEF IInv, TypeOK, ClaimsDisjoint, NeverEmptyAddr, Spare, Claimed
  <2> QED BY <2>2, <2>4, <2>7, <2>8 DEF IInv
<1> QED BY <1>5, <1>6 DEF Take

LEMMA PublishPreservesIInv ==
  ASSUME IInv, NEW t \in Threads, Publish(t)
  PROVE  IInv'
<1> USE DEF Publish
<1>1. claim[t] \in Offsets /\ claim[t] \in Claimed /\ claim[t] # None
  BY DEF IInv, TypeOK, ClaimInv, Claimed
<1>2. TypeOK'
  BY <1>1 DEF IInv, TypeOK
<1>3. ClaimInv'
  <2>1. \A u \in Threads : HeldBy(u)' \subseteq HeldBy(u)
    BY DEF IInv, TypeOK, HeldBy
  <2> QED BY <2>1 DEF IInv, TypeOK, ClaimInv
<1>4. Claimed' = Claimed \ {claim[t]}
  BY <1>1 DEF IInv, TypeOK, Claimed, ClaimsDisjoint
<1>5. OffsetInv'
  BY <1>1, <1>4 DEF IInv, TypeOK, OffsetInv, Spare
<1>6. ClaimsDisjoint' /\ NeverEmptyAddr'
  BY <1>1, <1>4 DEF IInv, TypeOK, ClaimsDisjoint, NeverEmptyAddr, Claimed
<1> QED BY <1>2, <1>3, <1>5, <1>6 DEF IInv

LEMMA ErasePreservesIInv ==
  ASSUME IInv, NEW t \in Threads, NEW o \in Offsets, Erase(t, o)
  PROVE  IInv'
<1> USE DEF Erase, call
<1>1. SectionOf(o) \in Sections
  BY ModRange DEF SectionOf, Offsets
<1>2. TypeOK'
  BY <1>1 DEF IInv, TypeOK
<1>3. ClaimInv'
  BY DEF IInv, TypeOK, ClaimInv, HeldBy
<1>4. o \notin Claimed /\ IsAddr(num, o) /\ Claimed' = Claimed
  BY DEF IInv, ClaimsDisjoint, NeverEmptyAddr, Claimed
<1>5. OffsetInv'
  BY <1>1, <1>4 DEF IInv, TypeOK, OffsetInv, Spare
<1>6. ClaimsDisjoint' /\ NeverEmptyAddr'
  BY <1>4 DEF IInv, TypeOK, ClaimsDisjoint, NeverEmptyAddr
<1> QED BY <1>2, <1>3, <1>5, <1>6 DEF IInv

\* After a restart empty_offset is the last empty slot of its section.  It is
\* a real address because the section kept one, even in section 0 of segment
\* 0, where offset 0 is counted as empty.
LEMMA ReloadPreservesIInv ==
  ASSUME IInv, Reload
  PROVE  IInv'
<1> USE DEF Reload, call
<1>1. UNCHANGED <<num, type, claim>> /\ Claimed' = Claimed /\ Claimed = {}
  BY DEF IInv, TypeOK, ClaimInv, Claimed
<1>2. \A s \in Sections : empty_offset[s] \in EmptyIn(s)
  BY DEF IInv, TypeOK, OffsetInv, Spare, EmptyIn
<1>3. \A s \in Sections : /\ empty_offset'[s] \in EmptyIn(s)
                          /\ empty_offset[s] <= empty_offset'[s]
  BY <1>2
<1>4. \A s \in Sections : Cardinality(EmptyIn(s)) \in Nat
  <2>1. IsFiniteSet(Offsets)
    BY SegmentAssumption, FS_Interval DEF Offsets
  <2> QED BY <2>1, FS_Subset, FS_CardinalityType DEF EmptyIn
<1>5. Cardinality({o \in Offsets : type[o] = "used"}) \in Int
  <2>1. IsFiniteSet(Offsets)
    BY SegmentAssumption, FS_Interval DEF Offsets
  <2> QED BY <2>1, FS_Subset, FS_CardinalityType
<1>6. TypeOK'
  BY <1>1, <1>4, <1>5 DEF IInv, TypeOK
<1>7. ClaimInv'
  BY DEF IInv, TypeOK, ClaimInv, HeldBy
<1>8. OffsetInv'
  <2> SUFFICES ASSUME NEW s \in Sections
               PROVE  SectionOf(empty_offset'[s]) = s /\ Spare(empty_offset[s])'
    BY DEF OffsetInv
  <2>1. empty_offset'[s] \in Offsets /\ empty_offset[s] \in Offsets
    BY <1>2, <1>3 DEF EmptyIn
  <2>2. num \in Nat /\ IsAddr(num, empty_offset[s])
    BY SegmentAssumption DEF IInv, TypeOK, OffsetInv, Spare
  <2>3. IsAddr(num, empty_offset'[s])
    BY <1>3, <2>1, <2>2, SegmentAssumption DEF IsAddr, Offsets
  <2> QED BY <1>1, <1>3, <2>3 DEF EmptyIn, Spare
<1>9. ClaimsDisjoint' /\ NeverEmptyAddr'
  BY <1>1 DEF IInv, ClaimsDisjoint, NeverEmptyAddr
<1> QED BY <1>6, <1>7, <1>8, <1>9 DEF IInv

-----------------------------------------------------------------------------
\* Each section always keeps a spare slot that its empty_offset names
\* (sc_segment_lock_empty_element, sc_segment_erase_element,
\* sc_segment_loaded): what the safety of allocation rests on.
THEOREM Invariance == Spec => []IInv
<1>1. IInv /\ [Next]_vars => IInv'
  <2> SUFFICES ASSUME IInv, [Next]_vars PROVE IInv'
    OBVIOUS
  <2>1. CASE Next
    BY <2>1, SearchPreservesIInv, LockPreservesIInv, TakePreservesIInv,
       PublishPreservesIInv, ErasePreservesIInv, ReloadPreservesIInv
       DEF Next, Step
  <2>2. CASE UNCHANGED vars
    BY <2>2
       DEF vars, segment, call, IInv, TypeOK, ClaimInv, HeldBy, OffsetInv,
           Spare, ClaimsDisjoint, NeverEmptyAddr, Claimed
  <2> QED BY <2>1, <2>2
<1> QED BY <1>1, InitIInv, PTL DEF Spec

\* Two pending allocations never share a slot, and none holds an element.
THEOREM Disjointness == Spec => []ClaimsDisjoint
BY Invariance, PTL DEF IInv

\* No element is created at the empty address, before and after restarts.
THEOREM RealAddresses == Spec => []NeverEmptyAddr
BY Invariance, PTL DEF IInv

\* sc_segment_lock_empty_element only returns slots without an element that no
\* other call has in hand.
THEOREM NoOverwrite == Spec => NeverOverwrites
<1> DEFINE A == \A t \in Threads : claim'[t] \notin {claim[t], None} =>
                  type[claim'[t]] = "empty" /\ claim'[t] \notin Claimed
<1>1. IInv /\ [Next]_vars => [A]_vars
  <2> SUFFICES ASSUME IInv, Next, NEW t \in Threads, claim'[t] \notin {claim[t], None}
               PROVE  type[claim'[t]] = "empty" /\ claim'[t] \notin Claimed
    OBVIOUS
  <2>1. \E u \in Threads : Take(u)
    BY DEF Next, Step, Pass, Visit, TryFails, TooLate, Return, Publish,
           Call, Lock, Unlock, Erase, Reload, IInv, TypeOK
  <2>2. PICK u \in Threads : Take(u)
    BY <2>1
  <2>3. claim'[t] = empty_offset[Section(u)]
    BY <2>2 DEF Take, IInv, TypeOK
  <2> QED BY <2>2, <2>3, SectionInRange DEF IInv, OffsetInv, Spare
<1> QED BY <1>1, Invariance, PTL DEF Spec, NeverOverwrites
-----------------------------------------------------------------------------
\* The slots in hand: those that hold an element, and those of pending calls.
Used == {o \in Offsets : type[o] = "used"}

\* Both are finite, so that adding or removing one slot moves the sum by one.
LEMMA SlotsFinite ==
  ASSUME TypeOK
  PROVE  /\ IsFiniteSet(Used) /\ IsFiniteSet(Claimed)
         /\ Cardinality(Used) \in Nat /\ Cardinality(Claimed) \in Nat
<1>1. IsFiniteSet(Offsets)
  BY SegmentAssumption, FS_Interval DEF Offsets
<1>2. Used \subseteq Offsets /\ Claimed \subseteq Offsets
  BY DEF Used, Claimed, TypeOK
<1> QED BY <1>1, <1>2, FS_Subset, FS_CardinalityType

\* A call that takes a slot counts it before it returns it; one that finds no
\* successor counts a slot that it leaves empty.
LEMMA TakeCounts ==
  ASSUME IInv, ElementsCounted, NEW t \in Threads, Take(t)
  PROVE  ElementsCounted'
<1> DEFINE idx == empty_offset[Section(t)]
<1>1. elements_count' = elements_count + 1 /\ Used' = Used /\ elements_count \in Int
  BY DEF Take, Used, IInv, TypeOK
<1>2. Claimed' = Claimed \/ (Claimed' = Claimed \cup {idx} /\ idx \notin Claimed)
  <2>1. CASE UNCHANGED claim
    BY <2>1 DEF Claimed
  <2>2. CASE claim' = [claim EXCEPT ![t] = idx]
    <3>1. Section(t) \in Sections
      BY SectionInRange DEF IInv
    <3>2. idx \in Offsets /\ idx \notin Claimed
      BY <3>1 DEF IInv, TypeOK, OffsetInv, Spare
    <3>3. claim[t] = None /\ None \notin Offsets
      BY SegmentAssumption DEF Take, IInv, ClaimInv, Offsets
    <3> QED BY <2>2, <3>2, <3>3 DEF Claimed, IInv, TypeOK
  <2> QED BY <2>1, <2>2 DEF Take
<1>3. Cardinality(Claimed') <= Cardinality(Claimed) + 1 /\ Cardinality(Claimed') \in Nat
  BY <1>2, SlotsFinite, FS_AddElement DEF IInv
<1>4. elements_count >= Cardinality(Used) + Cardinality(Claimed)
  BY DEF ElementsCounted, Used
<1>5. elements_count' >= Cardinality(Used') + Cardinality(Claimed')
  BY <1>1, <1>3, <1>4, SlotsFinite DEF IInv
<1> QED BY <1>5 DEF ElementsCounted, Used

\* Setting the type moves the slot from the pending calls to the elements.
LEMMA PublishCounts ==
  ASSUME IInv, ElementsCounted, NEW t \in Threads, Publish(t)
  PROVE  ElementsCounted'
<1>1. claim[t] \in Offsets /\ claim[t] \in Claimed /\ claim[t] # None
  BY DEF Publish, IInv, TypeOK, ClaimInv, Claimed
<1>2. Claimed' = Claimed \ {claim[t]}
  BY <1>1 DEF Publish, IInv, TypeOK, Claimed, ClaimsDisjoint
<1>3. Used' = Used \cup {claim[t]} /\ claim[t] \notin Used
  BY <1>1 DEF Publish, IInv, TypeOK, ClaimsDisjoint, Used
<1>4. Cardinality(Used') = Cardinality(Used) + 1
  BY <1>3, SlotsFinite, FS_AddElement DEF IInv
<1>5. Cardinality(Claimed') = Cardinality(Claimed) - 1
  BY <1>1, <1>2, SlotsFinite, FS_RemoveElement DEF IInv
<1>6. elements_count >= Cardinality(Used) + Cardinality(Claimed)
  BY DEF ElementsCounted, Used
<1>7. elements_count' >= Cardinality(Used') + Cardinality(Claimed')
  BY <1>4, <1>5, <1>6, SlotsFinite DEF IInv, TypeOK, Publish
<1> QED BY <1>7 DEF ElementsCounted, Used

LEMMA EraseCounts ==
  ASSUME IInv, ElementsCounted, NEW t \in Threads, NEW o \in Offsets, Erase(t, o)
  PROVE  ElementsCounted'
<1>1. Claimed' = Claimed /\ elements_count' = elements_count - 1
  BY DEF Erase, Claimed
<1>2. Used' = Used \ {o} /\ o \in Used
  BY DEF Erase, IInv, TypeOK, Used
<1>3. Cardinality(Used') = Cardinality(Used) - 1
  BY <1>2, SlotsFinite, FS_RemoveElement DEF IInv
<1>4. elements_count >= Cardinality(Used) + Cardinality(Claimed)
  BY DEF ElementsCounted, Used
<1>5. elements_count' >= Cardinality(Used') + Cardinality(Claimed')
  BY <1>1, <1>3, <1>4, SlotsFinite DEF IInv, TypeOK
<1> QED BY <1>5 DEF ElementsCounted, Used

\* sc_segment_loaded counts the elements afresh, when no call is pending.
LEMMA ReloadCounts ==
  ASSUME IInv, Reload
  PROVE  ElementsCounted'
<1>1. Claimed' = {} /\ type' = type
  BY DEF Reload, call, IInv, ClaimInv, Claimed
<1>2. elements_count' = Cardinality(Used)
  BY DEF Reload, Used
<1> QED BY <1>1, <1>2, SlotsFinite, FS_EmptySet DEF ElementsCounted, Used, IInv

\* elements_count never says less than there are elements and pending calls,
\* however calls, erasures and restarts interleave: sc_segment_has_empty_slot
\* never promises a slot of a segment that is full.
THEOREM Counting == Spec => []ElementsCounted
<1>1. Init => ElementsCounted
  <2> SUFFICES ASSUME Init PROVE ElementsCounted
    OBVIOUS
  <2>1. Used = {} /\ Claimed = {} /\ elements_count = 0
    BY DEF Init, Used, Claimed
  <2> QED BY <2>1, FS_EmptySet DEF ElementsCounted, Used
<1>2. IInv /\ ElementsCounted /\ [Next]_vars => ElementsCounted'
  <2> SUFFICES ASSUME IInv, ElementsCounted, [Next]_vars PROVE ElementsCounted'
    OBVIOUS
  <2>1. CASE UNCHANGED <<type, claim, elements_count>>
    BY <2>1 DEF ElementsCounted, Claimed
  <2>2. ASSUME NEW t \in Threads,
               \/ Call(t) \/ Pass(t) \/ Visit(t) \/ TryFails(t) \/ TooLate(t) \/ Return(t)
               \/ \E s \in Sections : Lock(t, s) \/ Unlock(t, s)
        PROVE  UNCHANGED <<type, claim, elements_count>>
    BY <2>2 DEF Call, Pass, Visit, TryFails, TooLate, Return, Lock, Unlock, segment
  <2>3. UNCHANGED vars => UNCHANGED <<type, claim, elements_count>>
    BY DEF vars, segment
  <2> QED BY <2>1, <2>2, <2>3, TakeCounts, PublishCounts, EraseCounts, ReloadCounts
          DEF Next, Step
<1> QED BY <1>1, <1>2, Invariance, PTL DEF Spec
=============================================================================
