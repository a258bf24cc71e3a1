------------------------------- MODULE Events -------------------------------
(***************************************************************************)
(* Subscriptions to changes of sc-elements and the delivery of events      *)
(* (sc_event.c, sc_event_queue.c).                                         *)
(*                                                                         *)
(* Client threads create and destroy subscriptions (sc_event), emit events *)
(* and delete elements; the workers of a thread pool run the callbacks,    *)
(* which may be clients themselves.  Three locks order them: the mutex of  *)
(* the events table, a spin lock per sc_event, and the mutex of the queue. *)
(* Emitting takes the first and then the second; destroying takes the      *)
(* second and then the first.  A stretch of code that holds a lock but     *)
(* waits for no other is one step here; every place where a thread may     *)
(* have to wait is a step of its own.                                      *)
(*                                                                         *)
(* An emission reaches here only the subscriptions whose type and access   *)
(* levels match it: Element says which those are.                          *)
(***************************************************************************)
EXTENDS Integers, Sequences, FiniteSets, SequencesExt

CONSTANTS Clients,     \* application threads
          Workers,     \* threads of the pool
          Subs,        \* the sc_events that are ever created
          Elements,
          Element,     \* the element each sc_event listens to
          NoThread, NoSub,
          MaxEmits,    \* bound: emissions in a behaviour
          CanStop,     \* whether the memory is shut down
          CallbacksEmit  \* whether callbacks use the memory themselves

ASSUME EventsAssumption ==
  /\ Clients \cap Workers = {}
  /\ NoThread \notin Clients \cup Workers /\ IsFiniteSet(Workers)
  /\ NoSub \notin Subs
  /\ Element \in [Subs -> Elements]
  /\ MaxEmits \in Nat
  /\ CanStop \in BOOLEAN /\ CallbacksEmit \in BOOLEAN

Threads == Clients \cup Workers

VARIABLES
  evt,      \* the sc_event structures
  table,    \* events_table: the subscriptions of each element, in order
  mutex,    \* the thread that has events_table_mutex
  queue,    \* the pool's pending jobs, each named by its sc_event
  running,  \* sc_event_queue.running
  pool,     \* "open"; a thread inside destroy_wait; "closed"
  alive,    \* the elements not deleted yet
  ref_count, \* the storage's count of references to each element
  op,       \* the call each thread is in: pc, the sc_event, the rest of a list
  job,      \* the job of each worker
  emits,    \* emissions so far
  crashed   \* why the process ended: "no", "null_callback" or "assert"

vars == <<evt, table, mutex, queue, running, pool, alive, ref_count, op, job, emits, crashed>>

-----------------------------------------------------------------------------
\* state: "none" before sc_event_new, "live", "freed" after g_free.
\* refs and flag are the two parts of ref_count; doomed says that its owner
\* called sc_event_destroy.
NewSub == [state |-> "none", flag |-> FALSE, refs |-> 0, callback |-> FALSE,
           lock |-> NoThread, doomed |-> FALSE]

NoOp == [pc |-> "idle", sub |-> NoSub, el |-> NoSub, rest |-> <<>>]
NoJob == [pc |-> "idle", sub |-> NoSub]

OpPoints == {"idle", "ref", "insert", "emit", "append", "deleted", "emit_deleted",
             "append_deleted", "notify", "flag", "remove", "unref", "wait", "free_pool"}

TypeOK ==
  /\ evt \in [Subs -> [state : {"none", "live", "freed"}, flag : BOOLEAN,
                       refs : Nat, callback : BOOLEAN,
                       lock : Threads \cup {NoThread}, doomed : BOOLEAN]]
  /\ table \in [Elements -> Seq(Subs)]
  /\ mutex \in Threads \cup {NoThread}
  /\ queue \in Seq(Subs)
  /\ running \in BOOLEAN
  /\ pool \in {"open", "closing", "closed"}
  /\ alive \subseteq Elements
  /\ ref_count \in [Elements -> Nat]
  /\ op \in [Threads -> [pc : OpPoints, sub : Subs \cup {NoSub},
                         el : Elements \cup {NoSub}, rest : Seq(Subs)]]
  /\ job \in [Workers -> [pc : {"idle", "check", "call", "body", "unref"},
                          sub : Subs \cup {NoSub}]]
  /\ emits \in 0..MaxEmits
  /\ crashed \in {"no", "null_callback", "assert"}

Init ==
  /\ evt = [e \in Subs |-> NewSub]
  /\ table = [x \in Elements |-> <<>>]
  /\ mutex = NoThread
  /\ queue = <<>>
  /\ running = TRUE
  /\ pool = "open"
  /\ alive = Elements
  /\ ref_count = [x \in Elements |-> 1]
  /\ op = [t \in Threads |-> NoOp]
  /\ job = [w \in Workers |-> NoJob]
  /\ emits = 0
  /\ crashed = "no"

-----------------------------------------------------------------------------
\* A thread that can call the memory: a client, or a worker in a callback.
CanCall(t) ==
  /\ op[t] = NoOp
  /\ t \in Workers => CallbacksEmit /\ job[t].pc = "body"

\* sc_event_lock would return at once.
Unlocked(e) == evt[e].lock = NoThread

MutexFree == mutex = NoThread

-----------------------------------------------------------------------------
\* sc_event_new, sc_event_new_ex

\* The access levels of an element that the caller knows to exist are read ...
New(t, e) ==
  /\ CanCall(t)
  /\ evt[e].state = "none"
  /\ \A u \in Threads : op[u].sub # e
  /\ Element[e] \in alive
  /\ op' = [op EXCEPT ![t] = [NoOp EXCEPT !.pc = "ref", !.sub = e]]
  /\ UNCHANGED <<evt, table, mutex, queue, running, pool, alive, ref_count, job, emits, crashed>>

Refed(x) == [ref_count EXCEPT ![x] = @ + 1]

\* ... sc_storage_element_ref asserts that the element still has a reference ...
RefElement(t) ==
  LET x == Element[op[t].sub]
  IN /\ op[t].pc = "ref"
     /\ \/ /\ ref_count[x] = 0
           /\ crashed' = "assert"
           /\ UNCHANGED <<op, ref_count>>
        \/ /\ ref_count[x] > 0
           /\ ref_count' = Refed(x)
           /\ op' = [op EXCEPT ![t].pc = "insert"]
           /\ UNCHANGED crashed
     /\ UNCHANGED <<evt, table, mutex, queue, running, pool, alive, job, emits>>

\* ... and the sc_event is put into the table (insert_event_into_table).  The
\* element may have been deleted in between.
Insert(t) ==
  LET e == op[t].sub
  IN /\ op[t].pc = "insert"
     /\ MutexFree
     /\ evt' = [evt EXCEPT ![e] = [NewSub EXCEPT !.state = "live", !.refs = 1,
                                                !.callback = TRUE]]
     /\ table' = [table EXCEPT ![Element[e]] = Append(@, e)]
     /\ op' = [op EXCEPT ![t] = NoOp]
     /\ UNCHANGED <<mutex, queue, running, pool, alive, ref_count, job, emits, crashed>>

-----------------------------------------------------------------------------
\* sc_event_emit_impl.  The table's mutex is kept until all subscriptions in
\* the list are visited.  A context that collected its events emits them later,
\* when the element may not exist any more.

\* Mutant: the list is visited without the mutex.
TakeMutexNot(t) == MutexFree /\ UNCHANGED mutex

TakeMutex(t) == MutexFree /\ mutex' = t

Emit(t, x) ==
  /\ CanCall(t)
  /\ emits < MaxEmits
  /\ TakeMutex(t)
  /\ emits' = emits + 1
  /\ op' = [op EXCEPT ![t] = [NoOp EXCEPT !.pc = "emit", !.el = x, !.rest = table[x]]]
  /\ UNCHANGED <<evt, table, queue, running, pool, alive, ref_count, job, crashed>>

\* sc_storage_element_free marks the element, drops the reference of its
\* existence, emits SC_EVENT_REMOVE_ELEMENT and then notifies.
Delete(t, x) ==
  /\ CanCall(t)
  /\ x \in alive
  /\ alive' = alive \ {x}
  /\ ref_count' = [ref_count EXCEPT ![x] = @ - 1]
  /\ op' = [op EXCEPT ![t] = [NoOp EXCEPT !.pc = "deleted", !.el = x]]
  /\ UNCHANGED <<evt, table, mutex, queue, running, pool, job, emits, crashed>>

EmitDeleted(t) ==
  /\ op[t].pc = "deleted"
  /\ TakeMutex(t)
  /\ op' = [op EXCEPT ![t].pc = "emit_deleted", ![t].rest = table[op[t].el]]
  /\ UNCHANGED <<evt, table, queue, running, pool, alive, ref_count, job, emits, crashed>>

\* _sc_event_try_emit: refer to the sc_event unless it is being destroyed.
TryEmit(t) ==
  LET e == Head(op[t].rest)
  IN /\ op[t].pc \in {"emit", "emit_deleted"} /\ op[t].rest # <<>>
     /\ Unlocked(e)
     /\ IF evt[e].flag
        THEN op' = [op EXCEPT ![t].rest = Tail(@)] /\ UNCHANGED evt
        ELSE /\ evt' = [evt EXCEPT ![e].refs = @ + 1]
             /\ op' = [op EXCEPT ![t].pc = IF @ = "emit" THEN "append" ELSE "append_deleted"]
     /\ UNCHANGED <<table, mutex, queue, running, pool, alive, ref_count, job, emits, crashed>>

\* sc_event_queue_append: a queue that does not run drops the job.
AppendJob(t) ==
  /\ op[t].pc \in {"append", "append_deleted"}
  /\ pool # "closing"
  /\ queue' = IF running THEN Append(queue, Head(op[t].rest)) ELSE queue
  /\ op' = [op EXCEPT ![t].rest = Tail(@),
                      ![t].pc = IF @ = "append" THEN "emit" ELSE "emit_deleted"]
  /\ UNCHANGED <<evt, table, mutex, running, pool, alive, ref_count, job, emits, crashed>>

Emitted(t) ==
  /\ op[t].pc \in {"emit", "emit_deleted"} /\ op[t].rest = <<>>
  /\ mutex' = NoThread
  /\ op' = [op EXCEPT ![t] = IF @.pc = "emit" THEN NoOp ELSE [@ EXCEPT !.pc = "notify"]]
  /\ UNCHANGED <<evt, table, queue, running, pool, alive, ref_count, job, emits, crashed>>

-----------------------------------------------------------------------------
\* sc_event_notify_element_deleted

Notify(t) ==
  /\ op[t].pc = "notify"
  /\ MutexFree
  /\ mutex' = t
  /\ op' = [op EXCEPT ![t].pc = "flag", ![t].rest = table[op[t].el]]
  /\ table' = [table EXCEPT ![op[t].el] = <<>>]
  /\ UNCHANGED <<evt, queue, running, pool, alive, ref_count, job, emits, crashed>>

Flag(t) ==
  LET e == Head(op[t].rest)
  IN /\ op[t].pc = "flag" /\ op[t].rest # <<>>
     /\ Unlocked(e)
     /\ evt' = [evt EXCEPT ![e].flag = TRUE]
     /\ op' = [op EXCEPT ![t].rest = Tail(@)]
     /\ UNCHANGED <<table, mutex, queue, running, pool, alive, ref_count, job, emits, crashed>>

Notified(t) ==
  /\ op[t].pc = "flag" /\ op[t].rest = <<>>
  /\ mutex' = NoThread
  /\ op' = [op EXCEPT ![t] = NoOp]
  /\ UNCHANGED <<evt, table, queue, running, pool, alive, ref_count, job, emits, crashed>>

-----------------------------------------------------------------------------
\* sc_event_destroy, called once by the owner of the subscription and not
\* from its own callback.

Destroy(t, e) ==
  /\ CanCall(t)
  /\ evt[e].state = "live" /\ ~evt[e].doomed
  /\ t \in Workers => job[t].sub # e
  /\ Unlocked(e)
  /\ evt' = [evt EXCEPT ![e].doomed = TRUE,
                        ![e].lock = IF evt[e].flag THEN NoThread ELSE t]
  /\ op' = [op EXCEPT ![t] = [NoOp EXCEPT !.pc = IF evt[e].flag THEN "unref" ELSE "remove",
                                         !.sub = e]]
  /\ UNCHANGED <<table, mutex, queue, running, pool, alive, ref_count, job, emits, crashed>>

\* g_slist_remove: the first entry goes.
Unlisted(s, e) ==
  LET at == {n \in DOMAIN s : s[n] = e}
  IN IF at = {} THEN s ELSE RemoveAt(s, CHOOSE n \in at : \A m \in at : n <= m)

\* remove_event_from_table, while the sc_event is locked.  Without a list for
\* the element the call fails, and the sc_event stays as it is.
RemoveFromTable(t) ==
  LET e == op[t].sub
      x == Element[e]
      found == table[x] # <<>>
  IN /\ op[t].pc = "remove"
     /\ MutexFree
     /\ table' = [table EXCEPT ![x] = Unlisted(@, e)]
     /\ evt' = [evt EXCEPT ![e].lock = NoThread,
                           ![e].flag = @ \/ found,
                           ![e].callback = @ /\ ~found]
     /\ op' = [op EXCEPT ![t] = IF found THEN [@ EXCEPT !.pc = "unref"] ELSE NoOp]
     /\ UNCHANGED <<mutex, queue, running, pool, alive, ref_count, job, emits, crashed>>

Unref(t) ==
  LET e == op[t].sub
  IN /\ op[t].pc = "unref"
     /\ Unlocked(e)
     /\ evt' = [evt EXCEPT ![e].refs = @ - 1]
     /\ op' = [op EXCEPT ![t].pc = "wait"]
     /\ UNCHANGED <<table, mutex, queue, running, pool, alive, ref_count, job, emits, crashed>>

\* Mutant: pending calls are not waited for.
NoRefsToQueue(e) == evt[e].flag

\* The loop ends when only the flag is left of ref_count.
NoRefs(e) == evt[e].flag /\ evt[e].refs = 0

FreeSub(t) ==
  LET e == op[t].sub
  IN /\ op[t].pc = "wait"
     /\ Unlocked(e)
     /\ NoRefs(e)
     /\ evt' = [evt EXCEPT ![e].state = "freed"]
     /\ ref_count' = [ref_count EXCEPT ![Element[e]] = @ - 1]
     /\ op' = [op EXCEPT ![t] = NoOp]
     /\ UNCHANGED <<table, mutex, queue, running, pool, alive, job, emits, crashed>>

-----------------------------------------------------------------------------
\* sc_event_pool_worker

\* Mutant: the calls of a subscription that is being destroyed stay in the queue.
TakeJobLive(w) ==
  /\ job[w] = NoJob
  /\ queue # <<>> /\ evt[Head(queue)].callback
  /\ job' = [job EXCEPT ![w] = [pc |-> "check", sub |-> Head(queue)]]
  /\ queue' = Tail(queue)
  /\ UNCHANGED <<evt, table, mutex, running, pool, alive, ref_count, op, emits, crashed>>

TakeJob(w) ==
  /\ job[w] = NoJob
  /\ queue # <<>>
  /\ job' = [job EXCEPT ![w] = [pc |-> "check", sub |-> Head(queue)]]
  /\ queue' = Tail(queue)
  /\ UNCHANGED <<evt, table, mutex, running, pool, alive, ref_count, op, emits, crashed>>

\* Mutant: a job without a callback ends without giving its reference back.
CheckCallbackForgets(w) ==
  /\ job[w].pc = "check"
  /\ job' = [job EXCEPT ![w] = IF evt[job[w].sub].callback THEN [@ EXCEPT !.pc = "call"]
                              ELSE NoJob]
  /\ UNCHANGED <<evt, table, mutex, queue, running, pool, alive, ref_count, op, emits, crashed>>

\* callback is tested without the lock of the sc_event ...
CheckCallback(w) ==
  /\ job[w].pc = "check"
  /\ job' = [job EXCEPT ![w].pc = IF evt[job[w].sub].callback THEN "call" ELSE "unref"]
  /\ UNCHANGED <<evt, table, mutex, queue, running, pool, alive, ref_count, op, emits, crashed>>

\* ... and called: through the value tested, or through one read again, which
\* sc_event_destroy may have set to null.
CallCallback(w) ==
  /\ job[w].pc = "call"
  /\ \/ /\ job' = [job EXCEPT ![w].pc = "body"]
        /\ UNCHANGED crashed
     \/ /\ ~evt[job[w].sub].callback
        /\ crashed' = "null_callback"
        /\ UNCHANGED job
  /\ UNCHANGED <<evt, table, mutex, queue, running, pool, alive, ref_count, op, emits>>

CallbackReturns(w) ==
  /\ job[w].pc = "body" /\ op[w] = NoOp
  /\ job' = [job EXCEPT ![w].pc = "unref"]
  /\ UNCHANGED <<evt, table, mutex, queue, running, pool, alive, ref_count, op, emits, crashed>>

UnrefJob(w) ==
  LET e == job[w].sub
  IN /\ job[w].pc = "unref"
     /\ Unlocked(e)
     /\ evt' = [evt EXCEPT ![e].refs = @ - 1]
     /\ job' = [job EXCEPT ![w] = NoJob]
     /\ UNCHANGED <<table, mutex, queue, running, pool, alive, ref_count, op, emits, crashed>>

-----------------------------------------------------------------------------
\* sc_memory_shutdown: a client stops the queue, destroys what is left of its
\* subscriptions and frees the pool.  The other clients are done by then.

Stop(t) ==
  /\ CanStop /\ running
  /\ \A c \in Clients : op[c] = NoOp
  /\ running' = FALSE
  /\ UNCHANGED <<evt, table, mutex, queue, pool, alive, ref_count, op, job, emits, crashed>>

\* sc_event_queue_destroy_wait keeps the queue's mutex while it waits for the
\* pool to run dry.
ClosePool(t) ==
  /\ ~running /\ pool = "open"
  /\ \A c \in Clients : op[c] = NoOp
  /\ pool' = "closing"
  /\ op' = [op EXCEPT ![t] = [NoOp EXCEPT !.pc = "free_pool"]]
  /\ UNCHANGED <<evt, table, mutex, queue, running, alive, ref_count, job, emits, crashed>>

PoolClosed(t) ==
  /\ op[t].pc = "free_pool"
  /\ queue = <<>> /\ \A w \in Workers : job[w] = NoJob
  /\ pool' = "closed"
  /\ op' = [op EXCEPT ![t] = NoOp]
  /\ UNCHANGED <<evt, table, mutex, queue, running, alive, ref_count, job, emits, crashed>>

-----------------------------------------------------------------------------
\* The steps of a thread inside a call, and of a worker with a job.
Step(t) ==
  \/ RefElement(t) \/ Insert(t)
  \/ EmitDeleted(t) \/ TryEmit(t) \/ AppendJob(t) \/ Emitted(t)
  \/ Notify(t) \/ Flag(t) \/ Notified(t)
  \/ RemoveFromTable(t) \/ Unref(t) \/ FreeSub(t) \/ PoolClosed(t)

Work(w) ==
  TakeJob(w) \/ CheckCallback(w) \/ CallCallback(w) \/ CallbackReturns(w) \/ UnrefJob(w)

\* Once the memory is being closed only callbacks still call it.
Start(t) ==
  /\ pool = "open" \/ (pool = "closing" /\ t \in Workers)
  /\ \/ \E e \in Subs : New(t, e) \/ Destroy(t, e)
     \/ \E x \in Elements : Emit(t, x) \/ Delete(t, x)

Next ==
  /\ crashed = "no"
  /\ \/ \E t \in Threads : Start(t) \/ Step(t)
     \/ \E w \in Workers : Work(w)
     \/ \E c \in Clients : Stop(c) \/ ClosePool(c)

Spec == Init /\ [][Next]_vars

\* Threads inside a call keep being scheduled, the pool's threads run while
\* there are jobs, and callbacks return.
FairSpec ==
  /\ Spec
  /\ \A t \in Threads : WF_vars(crashed = "no" /\ Step(t))
  /\ \A w \in Workers : WF_vars(crashed = "no" /\ Work(w))

-----------------------------------------------------------------------------
\* Properties.

\* Who may still touch sc_event e, apart from its owner.
UsedBy(e) ==
  {t \in Threads : op[t].pc # "idle" /\ e \in ToSet(op[t].rest)}
  \cup {w \in Workers : job[w].sub = e}

\* sc_event_destroy frees the structure only when no pending or running
\* callback, no emission and no table entry can reach it any more: in
\* particular no callback runs after it returned.
NoUseAfterFree ==
  \A e \in Subs :
    evt[e].state = "freed" =>
      /\ e \notin ToSet(queue)
      /\ UsedBy(e) = {}
      /\ \A x \in Elements : e \notin ToSet(table[x])

\* Who refers to sc_event e: its owner until it unrefs, and each job between the
\* emission that created it and its end.
Holders(e) ==
  (IF \E t \in Threads : op[t].pc = "wait" /\ op[t].sub = e THEN 0 ELSE 1)
  + Cardinality({n \in DOMAIN queue : queue[n] = e})
  + Cardinality({w \in Workers : job[w].sub = e})
  + Cardinality({t \in Threads : /\ op[t].pc \in {"append", "append_deleted"}
                                 /\ Head(op[t].rest) = e})

\* ref_count counts them: none is lost, and none counted twice
\* (sc_event_private.h:39, "just references from queue"), except that a queue
\* that was stopped drops jobs and leaves their references behind.
RefsAccounted ==
  /\ TypeOK
  /\ \A e \in Subs : evt[e].state = "live" =>
       evt[e].refs >= Holders(e) /\ (running => evt[e].refs = Holders(e))

\* An emission meets no subscription that is being destroyed: each one it has
\* still to visit is live and has its callback, as the assertion of
\* sc_event_emit_impl (sc_event.c:318) says when it visits it.  And a
\* destruction that reaches the table finds its sc_event there: it never gives
\* up half way and leaks it, and the assertion that the table exists
\* (sc_event.c:59) holds.
EmissionsSeeLive ==
  \A t \in Threads :
    /\ op[t].pc \in {"emit", "append", "emit_deleted", "append_deleted"} =>
         \A e \in ToSet(op[t].rest) :
           evt[e].state = "live" /\ evt[e].callback /\ ~evt[e].flag
    /\ op[t].pc = "remove" /\ MutexFree =>
         op[t].sub \in ToSet(table[Element[op[t].sub]])

Ended == crashed # "no"

\* sc_event_destroy returns while the queue runs, unless the process ends
\* before: sc_event_private.h:15-17, "wait until all pending calls of this event
\* would be processed".
DestroyReturns ==
  \A t \in Threads :
    op[t].pc \in {"remove", "unref", "wait"} ~> op[t].pc = "idle" \/ ~running \/ Ended

\* Every accepted emission is delivered: its job is taken from the queue, also
\* when its subscription is being destroyed, and ends.
Delivered ==
  \A e \in Subs :
    e \in ToSet(queue) ~> (e \notin ToSet(queue) /\ UsedBy(e) \cap Workers = {}) \/ Ended

\* sc_event_queue.h:38, "It waits until all events in queue will be processed":
\* sc_event_queue_destroy_wait ends.  It does not when a callback emits while it
\* waits: it keeps the mutex that the emission needs.
ShutdownReturns ==
  \A t \in Threads : op[t].pc = "free_pool" ~> pool = "closed" \/ Ended
=============================================================================
