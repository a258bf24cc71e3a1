---------------------------- MODULE SectionLock ----------------------------
(***************************************************************************)
(* The recursive spin lock of one segment section (sc_segment.c:265-336).  *)
(*                                                                         *)
(* A section is locked through three words: internal_lock, a test-and-set  *)
(* guard that is taken by compare-and-exchange for the few instructions of *)
(* one call; thread_lock, the thread that owns the section; lock_count,    *)
(* how many nested locks the owner holds.  Every step below is one atomic  *)
(* access to one of these words, so that all their interleavings occur.    *)
(*                                                                         *)
(* held[t] is the caller's side: the sections' clients (sc_storage.c) pair *)
(* every successful lock with one unlock, so a thread calls unlock only    *)
(* while held[t] > 0.                                                      *)
(***************************************************************************)
EXTENDS Integers

CONSTANTS Threads,      \* the threads that use the section
          NoThread,     \* the null value of thread_lock
          MaxAttempts,  \* bound: largest max_attempts passed to lock_try
          MaxDepth      \* bound: nesting depth of one thread's locks

ASSUME LockAssumption ==
  /\ NoThread \notin Threads
  /\ MaxAttempts \in Nat
  /\ MaxDepth \in Nat \ {0}

VARIABLES internal_lock, thread_lock, lock_count,  \* sc_segment_section
          pc, limit, attempts,  \* the call each thread is in
          held                  \* successful locks not yet undone, per thread

section == <<internal_lock, thread_lock, lock_count>>
vars == <<internal_lock, thread_lock, lock_count, pc, limit, attempts, held>>

\* limit[t] of a call of sc_segment_section_lock, which never gives up.
Unlimited == -1

\* The control points at which a thread has internal_lock.
Guarded == {"null?", "mine?", "yield", "own", "count", "leave",
            "assert", "release", "disown", "left"}

PcValues == {"idle", "lock", "unlock"} \cup Guarded

TypeOK ==
  /\ internal_lock \in {0, 1}
  /\ thread_lock \in Threads \cup {NoThread}
  /\ lock_count \in Nat
  /\ pc \in [Threads -> PcValues]
  /\ limit \in [Threads -> (0..MaxAttempts) \cup {Unlimited}]
  /\ attempts \in [Threads -> Nat]
  /\ held \in [Threads -> Nat]

Init ==
  /\ internal_lock = 0
  /\ thread_lock = NoThread
  /\ lock_count = 0
  /\ pc = [t \in Threads |-> "idle"]
  /\ limit = [t \in Threads |-> Unlimited]
  /\ attempts = [t \in Threads |-> 0]
  /\ held = [t \in Threads |-> 0]

Goto(t, from, to) ==
  /\ pc[t] = from
  /\ pc' = [pc EXCEPT ![t] = to]

-----------------------------------------------------------------------------
\* The calls a client makes.

\* sc_segment_section_lock (m = Unlimited) or sc_segment_section_lock_try.
CallLock(t, m) ==
  /\ held[t] < MaxDepth
  /\ Goto(t, "idle", "lock")
  /\ limit' = [limit EXCEPT ![t] = m]
  /\ attempts' = [attempts EXCEPT ![t] = 0]
  /\ UNCHANGED <<section, held>>

CallUnlock(t) ==
  /\ held[t] > 0
  /\ Goto(t, "idle", "unlock")
  /\ UNCHANGED <<section, limit, attempts, held>>

-----------------------------------------------------------------------------
\* The steps of a lock or a try.

\* Mutant: the guard is read and then set, without one atomic exchange.
CasNotAtomic(t) ==
  /\ internal_lock' = 1
  /\ Goto(t, "lock", "null?") \/ Goto(t, "unlock", "assert")
  /\ UNCHANGED <<thread_lock, lock_count, limit, attempts, held>>

\* The compare-and-exchange succeeds.
Cas(t) ==
  /\ internal_lock = 0
  /\ internal_lock' = 1
  /\ \/ Goto(t, "lock", "null?")
     \/ Goto(t, "unlock", "assert")
  /\ UNCHANGED <<thread_lock, lock_count, limit, attempts, held>>

\* Mutant: failed attempts are not counted.
CasFailsUncounted(t) ==
  /\ internal_lock = 1
  /\ limit[t] # Unlimited
  /\ Goto(t, "lock", IF limit[t] < attempts[t] THEN "idle" ELSE "lock")
  /\ UNCHANGED <<section, limit, attempts, held>>

\* The compare-and-exchange of a try fails: give up after max_attempts + 2 of
\* them (max_attempts < attempts++).  The loops of lock and unlock change
\* nothing when it fails.
CasFails(t) ==
  /\ internal_lock = 1
  /\ limit[t] # Unlimited
  /\ Goto(t, "lock", IF limit[t] < attempts[t] THEN "idle" ELSE "lock")
  /\ attempts' = [attempts EXCEPT ![t] = @ + 1]
  /\ UNCHANGED <<section, limit, held>>

\* First read of thread_lock: is the section owned at all?
ReadNull(t) ==
  /\ Goto(t, "null?", IF thread_lock = NoThread THEN "own" ELSE "mine?")
  /\ UNCHANGED <<section, limit, attempts, held>>

\* Mutant: any owner is taken for this thread.
ReadMineDropped(t) ==
  /\ Goto(t, "mine?", "own")
  /\ UNCHANGED <<section, limit, attempts, held>>

\* Second read of thread_lock: is it owned by this thread?
ReadMine(t) ==
  /\ Goto(t, "mine?", IF thread_lock = t THEN "own" ELSE "yield")
  /\ UNCHANGED <<section, limit, attempts, held>>

\* Owned by another thread: leave internal_lock and start again, or give up.
Yield(t) ==
  /\ internal_lock' = 0
  /\ attempts' = [attempts EXCEPT ![t] = IF limit[t] = Unlimited THEN @ ELSE @ + 1]
  /\ Goto(t, "yield", IF limit[t] # Unlimited /\ attempts'[t] >= limit[t]
                      THEN "idle" ELSE "lock")
  /\ UNCHANGED <<thread_lock, lock_count, limit, held>>

\* Mutant: internal_lock is left before the count is written.
OwnLeavesEarly(t) ==
  /\ Goto(t, "own", "count")
  /\ thread_lock' = t
  /\ internal_lock' = 0
  /\ UNCHANGED <<lock_count, limit, attempts, held>>

Own(t) ==
  /\ Goto(t, "own", "count")
  /\ thread_lock' = t
  /\ UNCHANGED <<internal_lock, lock_count, limit, attempts, held>>

Count(t) ==
  /\ Goto(t, "count", "leave")
  /\ lock_count' = lock_count + 1
  /\ UNCHANGED <<internal_lock, thread_lock, limit, attempts, held>>

Leave(t) ==
  /\ Goto(t, "leave", "idle")
  /\ internal_lock' = 0
  /\ held' = [held EXCEPT ![t] = @ + 1]
  /\ UNCHANGED <<thread_lock, lock_count, limit, attempts>>

-----------------------------------------------------------------------------
\* The steps of an unlock, after its compare-and-exchange.

\* g_assert(thread_lock == sc_thread()); OwnerAssertion says that it holds.
AssertOwner(t) ==
  /\ thread_lock = t
  /\ Goto(t, "assert", "release")
  /\ UNCHANGED <<section, limit, attempts, held>>

\* Mutant: tests the count before the decrement, and frees a nested lock.
TestThenDec(t) ==
  /\ lock_count' = lock_count - 1
  /\ held' = [held EXCEPT ![t] = @ - 1]
  /\ Goto(t, "release", IF lock_count \in {1, 2} THEN "disown" ELSE "left")
  /\ UNCHANGED <<internal_lock, thread_lock, limit, attempts>>

\* g_atomic_int_dec_and_test(&lock_count)
DecAndTest(t) ==
  /\ lock_count' = lock_count - 1
  /\ held' = [held EXCEPT ![t] = @ - 1]
  /\ Goto(t, "release", IF lock_count' = 0 THEN "disown" ELSE "left")
  /\ UNCHANGED <<internal_lock, thread_lock, limit, attempts>>

Disown(t) ==
  /\ Goto(t, "disown", "left")
  /\ thread_lock' = NoThread
  /\ UNCHANGED <<internal_lock, lock_count, limit, attempts, held>>

LeaveUnlock(t) ==
  /\ Goto(t, "left", "idle")
  /\ internal_lock' = 0
  /\ UNCHANGED <<thread_lock, lock_count, limit, attempts, held>>

-----------------------------------------------------------------------------
\* The steps a thread takes inside a call.
Step(t) ==
  \/ Cas(t) \/ CasFails(t) \/ ReadNull(t) \/ ReadMine(t) \/ Yield(t)
  \/ Own(t) \/ Count(t) \/ Leave(t)
  \/ AssertOwner(t) \/ DecAndTest(t) \/ Disown(t) \/ LeaveUnlock(t)

Next ==
  \E t \in Threads :
    \/ \E m \in (0..MaxAttempts) \cup {Unlimited} : CallLock(t, m)
    \/ CallUnlock(t)
    \/ Step(t)

Spec == Init /\ [][Next]_vars

\* A thread inside a call keeps being scheduled; it may stay idle for ever.
FairSpec == Spec /\ \A t \in Threads : WF_vars(Step(t))

-----------------------------------------------------------------------------
\* Properties.

\* Two threads never hold one section at a time, whatever they nest: every
\* caller of sc_storage_element_lock relies on it.
MutualExclusion ==
  \A t, u \in Threads : held[t] > 0 /\ held[u] > 0 => t = u

\* The g_assert of sc_segment_section_unlock (line 330) never fails for a
\* client that unlocks only what it locked.
OwnerAssertion == \A t \in Threads : pc[t] = "assert" => thread_lock = t

\* When no call is in progress lock_count is the owner's nesting depth, and
\* the section has an owner exactly while it is locked: no lock is lost and
\* none is left behind, also after tries that gave up.
CountsNesting ==
  internal_lock = 0 =>
    /\ \A t \in Threads : held[t] = IF t = thread_lock THEN lock_count ELSE 0
    /\ (thread_lock = NoThread) <=> (lock_count = 0)

\* A try gives up in bounded work: it spends at most max_attempts + 2 attempts,
\* also when failed exchanges and foreign owners alternate (lines 300 and 308).
BoundedAttempts ==
  \A t \in Threads :
    limit[t] # Unlimited => attempts[t] <= limit[t] + 2

\* sc_segment_section_lock_try returns, under the scheduler's fairness alone
\* and whatever the other threads do with the section.
TryReturns ==
  \A t \in Threads :
    (pc[t] = "lock" /\ limit[t] # Unlimited) ~> (pc[t] = "idle")

\* What the section promises its clients (module RecursiveLock).  The lock is
\* taken when thread_lock is written and given back by the decrement.
Hold == [t \in Threads |->
           IF thread_lock # t THEN 0
           ELSE IF pc[t] = "count" THEN lock_count + 1 ELSE lock_count]

Abstract == INSTANCE RecursiveLock WITH hold <- Hold

AbstractSpec == Abstract!Spec

-----------------------------------------------------------------------------
\* The inductive invariant behind MutualExclusion and the refinement.

\* internal_lock is held by at most the one thread inside the guarded region.
GuardInv ==
  /\ \A t \in Threads : pc[t] \in Guarded => internal_lock = 1
  /\ \A t, u \in Threads :
       pc[t] \in Guarded /\ pc[u] \in Guarded => t = u

\* What each control point knows about the section.
PointInv ==
  \A t \in Threads :
    /\ pc[t] = "own" => thread_lock \in {NoThread, t}
    /\ pc[t] \in {"count", "leave", "disown"} => thread_lock = t
    /\ pc[t] = "disown" => lock_count = 0
    /\ pc[t] \in {"unlock", "assert", "release"} => held[t] > 0

\* The section's words account for what every thread holds.
AccountInv ==
  /\ thread_lock = NoThread => lock_count = 0
  /\ \A t \in Threads :
       /\ thread_lock = t =>
            lock_count = held[t] + (IF pc[t] = "leave" THEN 1 ELSE 0)
       /\ thread_lock # t => held[t] = 0
       /\ thread_lock = t /\ lock_count = 0 => pc[t] \in {"count", "disown"}

IInv == TypeOK /\ GuardInv /\ PointInv /\ AccountInv
=============================================================================
