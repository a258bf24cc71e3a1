------------------------- MODULE SectionLockProofs -------------------------
(***************************************************************************)
(* The section lock excludes for any set of threads, any nesting depth and *)
(* any number of attempts, and implements RecursiveLock.                   *)
(***************************************************************************)
EXTENDS SectionLock, TLAPS

\* A call changes the section's words only through Step: starting one
\* preserves the inductive invariant.
LEMMA CallPreservesIInv ==
  ASSUME IInv, NEW t \in Threads,
         \/ \E m \in (0..MaxAttempts) \cup {Unlimited} : CallLock(t, m)
         \/ CallUnlock(t)
  PROVE  IInv'
<1>1. TypeOK'
  BY DEF IInv, TypeOK, CallLock, CallUnlock, Goto, PcValues, section
<1>2. GuardInv'
  BY DEF IInv, TypeOK, GuardInv, CallLock, CallUnlock, Goto, Guarded, section
<1>3. PointInv'
  BY DEF IInv, TypeOK, PointInv, CallLock, CallUnlock, Goto, section
<1>4. AccountInv'
  BY DEF IInv, TypeOK, AccountInv, CallLock, CallUnlock, Goto, section
<1> QED BY <1>1, <1>2, <1>3, <1>4 DEF IInv

\* Every atomic step of lock, try and unlock preserves the invariant.
LEMMA StepPreservesIInv ==
  ASSUME IInv, NEW t \in Threads, Step(t)
  PROVE  IInv'
<1> USE LockAssumption DEF IInv, TypeOK, Goto, section
<1>1. CASE Cas(t)
  <2>1. TypeOK'
    BY <1>1 DEF Cas, PcValues, PointInv, AccountInv, Guarded
  <2>2. GuardInv'
    BY <1>1 DEF Cas, GuardInv, Guarded
  <2>3. PointInv'
    BY <1>1 DEF Cas, GuardInv, Guarded, PointInv, AccountInv
  <2>4. AccountInv'
    BY <1>1 DEF Cas, GuardInv, Guarded, PointInv, AccountInv
  <2> QED BY <2>1, <2>2, <2>3, <2>4
<1>2. CASE CasFails(t)
  <2>1. TypeOK'
    BY <1>2 DEF CasFails, PcValues, PointInv, AccountInv, Guarded
  <2>2. GuardInv'
    BY <1>2 DEF CasFails, GuardInv, Guarded
  <2>3. PointInv'
    BY <1>2 DEF CasFails, GuardInv, Guarded, PointInv, AccountInv
  <2>4. AccountInv'
    BY <1>2 DEF CasFails, GuardInv, Guarded, PointInv, AccountInv
  <2> QED BY <2>1, <2>2, <2>3, <2>4
<1>3. CASE ReadNull(t)
  <2>1. TypeOK'
    BY <1>3 DEF ReadNull, PcValues, PointInv, AccountInv, Guarded
  <2>2. GuardInv'
    BY <1>3 DEF ReadNull, GuardInv, Guarded
  <2>3. PointInv'
    BY <1>3 DEF ReadNull, GuardInv, Guarded, PointInv, AccountInv
  <2>4. AccountInv'
    BY <1>3 DEF ReadNull, GuardInv, Guarded, PointInv, AccountInv
  <2> QED BY <2>1, <2>2, <2>3, <2>4
<1>4. CASE ReadMine(t)
  <2>1. TypeOK'
    BY <1>4 DEF ReadMine, PcValues, PointInv, AccountInv, Guarded
  <2>2. GuardInv'
    BY <1>4 DEF ReadMine, GuardInv, Guarded
  <2>3. PointInv'
    BY <1>4 DEF ReadMine, GuardInv, Guarded, PointInv, AccountInv
  <2>4. AccountInv'
    BY <1>4 DEF ReadMine, GuardInv, Guarded, PointInv, AccountInv
  <2> QED BY <2>1, <2>2, <2>3, <2>4
<1>5. CASE Yield(t)
  <2>1. TypeOK'
    BY <1>5 DEF Yield, PcValues, PointInv, AccountInv, Guarded
  <2>2. GuardInv'
    BY <1>5 DEF Yield, GuardInv, Guarded
  <2>3. PointInv'
    BY <1>5 DEF Yield, GuardInv, Guarded, PointInv, AccountInv
  <2>4. AccountInv'
    BY <1>5 DEF Yield, GuardInv, Guarded, PointInv, AccountInv
  <2> QED BY <2>1, <2>2, <2>3, <2>4
<1>6. CASE Own(t)
  <2>1. TypeOK'
    BY <1>6 DEF Own, PcValues, PointInv, AccountInv, Guarded
  <2>2. GuardInv'
    BY <1>6 DEF Own, GuardInv, Guarded
  <2>3. PointInv'
    BY <1>6 DEF Own, GuardInv, Guarded, PointInv, AccountInv
  <2>4. AccountInv'
    BY <1>6 DEF Own, GuardInv, Guarded, PointInv, AccountInv
  <2> QED BY <2>1, <2>2, <2>3, <2>4
<1>7. CASE Count(t)
  <2>1. TypeOK'
    BY <1>7 DEF Count, PcValues, PointInv, AccountInv, Guarded
  <2>2. GuardInv'
    BY <1>7 DEF Count, GuardInv, Guarded
  <2>3. PointInv'
    BY <1>7 DEF Count, GuardInv, Guarded, PointInv, AccountInv
  <2>4. AccountInv'
    BY <1>7 DEF Count, GuardInv, Guarded, PointInv, AccountInv
  <2> QED BY <2>1, <2>2, <2>3, <2>4
<1>8. CASE Leave(t)
  <2>1. TypeOK'
    BY <1>8 DEF Leave, PcValues, PointInv, AccountInv, Guarded
  <2>2. GuardInv'
    BY <1>8 DEF Leave, GuardInv, Guarded
  <2>3. PointInv'
    BY <1>8 DEF Leave, GuardInv, Guarded, PointInv, AccountInv
  <2>4. AccountInv'
    BY <1>8 DEF Leave, GuardInv, Guarded, PointInv, AccountInv
  <2> QED BY <2>1, <2>2, <2>3, <2>4
<1>9. CASE AssertOwner(t)
  <2>1. TypeOK'
    BY <1>9 DEF AssertOwner, PcValues, PointInv, AccountInv, Guarded
  <2>2. GuardInv'
    BY <1>9 DEF AssertOwner, GuardInv, Guarded
  <2>3. PointInv'
    BY <1>9 DEF AssertOwner, GuardInv, Guarded, PointInv, AccountInv
  <2>4. AccountInv'
    BY <1>9 DEF AssertOwner, GuardInv, Guarded, PointInv, AccountInv
  <2> QED BY <2>1, <2>2, <2>3, <2>4
<1>10. CASE DecAndTest(t)
  <2>1. TypeOK'
    BY <1>10 DEF DecAndTest, PcValues, PointInv, AccountInv, Guarded
  <2>2. GuardInv'
    BY <1>10 DEF DecAndTest, GuardInv, Guarded
  <2>3. PointInv'
    BY <1>10 DEF DecAndTest, GuardInv, Guarded, PointInv, AccountInv
  <2>4. AccountInv'
    BY <1>10 DEF DecAndTest, GuardInv, Guarded, PointInv, AccountInv
  <2> QED BY <2>1, <2>2, <2>3, <2>4
<1>11. CASE Disown(t)
  <2>1. TypeOK'
    BY <1>11 DEF Disown, PcValues, PointInv, AccountInv, Guarded
  <2>2. GuardInv'
    BY <1>11 DEF Disown, GuardInv, Guarded
  <2>3. PointInv'
    BY <1>11 DEF Disown, GuardInv, Guarded, PointInv, AccountInv
  <2>4. AccountInv'
    BY <1>11 DEF Disown, GuardInv, Guarded, PointInv, AccountInv
  <2> QED BY <2>1, <2>2, <2>3, <2>4
<1>12. CASE LeaveUnlock(t)
  <2>1. TypeOK'
    BY <1>12 DEF LeaveUnlock, PcValues, PointInv, AccountInv, Guarded
  <2>2. GuardInv'
    BY <1>12 DEF LeaveUnlock, GuardInv, Guarded
  <2>3. PointInv'
    BY <1>12 DEF LeaveUnlock, GuardInv, Guarded, PointInv, AccountInv
  <2>4. AccountInv'
    BY <1>12 DEF LeaveUnlock, GuardInv, Guarded, PointInv, AccountInv
  <2> QED BY <2>1, <2>2, <2>3, <2>4
<1> QED
  BY <1>1, <1>2, <1>3, <1>4, <1>5, <1>6, <1>7, <1>8, <1>9, <1>10, <1>11, <1>12 DEF Step

\* The words of a section always account for what the threads hold
\* (sc_segment.c:265-336): the strengthening MutualExclusion needs.
THEOREM Invariance == Spec => []IInv
<1>1. Init => IInv
  BY LockAssumption
     DEF Init, IInv, TypeOK, PcValues, Guarded, GuardInv, PointInv, AccountInv
<1>2. IInv /\ [Next]_vars => IInv'
  <2> SUFFICES ASSUME IInv, [Next]_vars PROVE IInv'
    OBVIOUS
  <2>1. CASE Next
    BY <2>1, CallPreservesIInv, StepPreservesIInv DEF Next
  <2>2. CASE UNCHANGED vars
    BY <2>2 DEF vars, IInv, TypeOK, GuardInv, PointInv, AccountInv
  <2> QED BY <2>1, <2>2
<1> QED BY <1>1, <1>2, PTL DEF Spec

\* Two threads never hold one section at a time: for any number of threads
\* that nest sc_segment_section_lock, lock_try and unlock.
THEOREM Exclusion == Spec => []MutualExclusion
<1>1. IInv => MutualExclusion
  BY DEF IInv, TypeOK, AccountInv, MutualExclusion
<1> QED BY <1>1, Invariance, PTL

\* The g_assert of sc_segment_section_unlock never fails.
THEOREM AssertionHolds == Spec => []OwnerAssertion
<1>1. IInv => OwnerAssertion
  BY DEF IInv, TypeOK, PointInv, AccountInv, OwnerAssertion
<1> QED BY <1>1, Invariance, PTL

\* Between calls lock_count is the owner's nesting depth, so that the section
\* is free again exactly when the owner undid its last lock.
THEOREM NestingCounted == Spec => []CountsNesting
<1>1. IInv => CountsNesting
  BY LockAssumption
     DEF IInv, TypeOK, GuardInv, Guarded, AccountInv, CountsNesting
<1> QED BY <1>1, Invariance, PTL

\* What the abstract lock does in one step of the program: nothing, except
\* where thread_lock is written and where lock_count is decremented.
LEMMA StepImplements ==
  ASSUME IInv, NEW t \in Threads, Step(t)
  PROVE  [Abstract!Next]_Hold
<1> USE LockAssumption DEF IInv, TypeOK, Goto, section
<1>1. CASE Own(t)
  <2>1. Hold' = [Hold EXCEPT ![t] = @ + 1]
    BY <1>1 DEF Own, Hold, PointInv, AccountInv, GuardInv, Guarded
  <2>2. \A u \in Threads \ {t} : Hold[u] = 0
    BY <1>1 DEF Own, Hold, PointInv
  <2> QED BY <2>1, <2>2 DEF Abstract!Next, Abstract!Acquire
<1>2. CASE DecAndTest(t)
  <2>1. thread_lock = t /\ lock_count = held[t] /\ held[t] > 0
    BY <1>2 DEF DecAndTest, PointInv, AccountInv
  <2>2. Hold' = [Hold EXCEPT ![t] = @ - 1]
    BY <1>2, <2>1 DEF DecAndTest, Hold
  <2>3. Hold[t] > 0
    BY <1>2, <2>1 DEF DecAndTest, Hold
  <2> QED BY <2>2, <2>3 DEF Abstract!Next, Abstract!Release
<1>3. CASE Cas(t) \/ CasFails(t) \/ ReadNull(t) \/ ReadMine(t) \/ Yield(t)
  BY <1>3 DEF Cas, CasFails, ReadNull, ReadMine, Yield, Hold
<1>4. CASE Count(t)
  BY <1>4 DEF Count, Hold, PointInv
<1>5. CASE Leave(t) \/ AssertOwner(t) \/ LeaveUnlock(t)
  BY <1>5 DEF Leave, AssertOwner, LeaveUnlock, Hold
<1>6. CASE Disown(t)
  BY <1>6 DEF Disown, Hold, PointInv
<1> QED BY <1>1, <1>2, <1>3, <1>4, <1>5, <1>6 DEF Step

\* The atomic instructions of sc_segment_section_lock, lock_try and unlock
\* implement a lock that is taken and given back in one step.
THEOREM Implementation == Spec => AbstractSpec
<1>1. Init => Abstract!Init
  BY LockAssumption DEF Init, Abstract!Init, Hold
<1>2. IInv /\ [Next]_vars => [Abstract!Next]_Hold
  <2> SUFFICES ASSUME IInv, [Next]_vars PROVE [Abstract!Next]_Hold
    OBVIOUS
  <2>1. CASE Next
    <3> PICK t \in Threads :
          \/ \E m \in (0..MaxAttempts) \cup {Unlimited} : CallLock(t, m)
          \/ CallUnlock(t)
          \/ Step(t)
      BY <2>1 DEF Next
    <3>1. CASE Step(t)
      BY <3>1, StepImplements
    <3>2. CASE \E m \in (0..MaxAttempts) \cup {Unlimited} : CallLock(t, m)
      BY <3>2 DEF CallLock, Goto, section, Hold, IInv, TypeOK
    <3>3. CASE CallUnlock(t)
      BY <3>3 DEF CallUnlock, Goto, section, Hold, IInv, TypeOK
    <3> QED BY <3>1, <3>2, <3>3
  <2>2. CASE UNCHANGED vars
    BY <2>2 DEF vars, Hold
  <2> QED BY <2>1, <2>2
<1> QED
  BY <1>1, <1>2, Invariance, PTL DEF Spec, AbstractSpec, Abstract!Spec
-----------------------------------------------------------------------------
\* While a try still looks for the section it has one attempt less.
AttemptInv ==
  \A t \in Threads :
    limit[t] # Unlimited =>
      /\ attempts[t] <= limit[t] + 2
      /\ pc[t] \in {"lock", "null?", "mine?", "yield"} => attempts[t] <= limit[t] + 1

LEMMA StepBoundsAttempts ==
  ASSUME TypeOK, AttemptInv, NEW t \in Threads, Step(t)
  PROVE  AttemptInv'
<1> USE LockAssumption DEF TypeOK, AttemptInv, Goto, section
<1>1. CASE CasFails(t)
  BY <1>1 DEF CasFails
<1>2. CASE Yield(t)
  BY <1>2 DEF Yield
<1>3. CASE Cas(t) \/ ReadNull(t) \/ ReadMine(t)
  BY <1>3 DEF Cas, ReadNull, ReadMine
<1>4. CASE Own(t) \/ Count(t) \/ Leave(t)
  BY <1>4 DEF Own, Count, Leave
<1>5. CASE AssertOwner(t) \/ DecAndTest(t) \/ Disown(t) \/ LeaveUnlock(t)
  BY <1>5 DEF AssertOwner, DecAndTest, Disown, LeaveUnlock
<1> QED BY <1>1, <1>2, <1>3, <1>4, <1>5 DEF Step

\* A try spends at most max_attempts + 2 attempts, whatever the other threads
\* do: failed exchanges (line 300) and foreign owners (line 308) count together,
\* against two different tests.
THEOREM TryBounded == Spec => []BoundedAttempts
<1>1. Init => AttemptInv
  BY DEF Init, AttemptInv
<1>2. TypeOK /\ AttemptInv /\ [Next]_vars => AttemptInv'
  <2> SUFFICES ASSUME TypeOK, AttemptInv, [Next]_vars PROVE AttemptInv'
    OBVIOUS
  <2>1. ASSUME NEW t \in Threads, NEW m \in (0..MaxAttempts) \cup {Unlimited},
               CallLock(t, m)
        PROVE  AttemptInv'
    BY <2>1, LockAssumption DEF CallLock, Goto, section, TypeOK, AttemptInv
  <2>2. ASSUME NEW t \in Threads, CallUnlock(t) PROVE AttemptInv'
    BY <2>2 DEF CallUnlock, Goto, section, TypeOK, AttemptInv
  <2>3. CASE UNCHANGED vars
    BY <2>3 DEF vars, AttemptInv
  <2> QED BY <2>1, <2>2, <2>3, StepBoundsAttempts DEF Next
<1>3. IInv => TypeOK
  BY DEF IInv
<1>4. AttemptInv => BoundedAttempts
  BY DEF AttemptInv, BoundedAttempts
<1> QED BY <1>1, <1>2, <1>3, <1>4, Invariance, PTL DEF Spec
=============================================================================
