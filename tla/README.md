# sc-machine in TLA+

TLA+ specifications of the core of sc-machine, the TLC models that check them and
TLAPS proofs about them. All line numbers are those of the sources under `src/`.

## 1. The system

sc-machine keeps a semantic network in memory: *sc-elements* that are nodes, links
(nodes with content) or arcs between two elements, arcs included. Threads work on it
at the same time, subscribe to changes of elements and react to them in callbacks.

| Component (source) | State | Operations | Interacts with |
|---|---|---|---|
| section lock (`sc_segment.c:265-336`) | `internal_lock`, `thread_lock`, `lock_count` of each section | lock, bounded try, unlock; recursive per thread | every access to an element |
| segment (`sc_segment.c`) | slots, per section `empty_count` and `empty_offset`, `elements_count` | new, loaded, lock_empty_element, erase_element | section lock; called by the storage |
| segment cache (`sc_storage.c:44-142, 211-248`) | 32 entries, count, owner, `segments`, `segments_num` | get, append, remove, update, clear | segment; `s_mutex_save` |
| storage (`sc_storage.c`) | elements: type, deletion mark, access levels, ends and list links; reference counts | node, link and arc creation, deletion, ref and unref, access levels, type, content, save | segments, events, file memory |
| events (`sc_event.c`) | table of subscriptions, their counts, flags and locks | new, destroy, emit, notify of deletion | storage (ref, deletion), queue |
| event queue (`sc_event_queue.c`) | running flag, thread pool | append, worker, stop, destroy | callbacks, which are clients of everything |
| contexts (`sc_memory.c`) | identifiers, access levels, pending events | new, free, begin and end of pending mode | events |
| iterators (`sc_iterator3.c`, `sc_iterator5.c`) | current arc, references | new, next, free | storage |
| link content and file memory (`sc_storage.c`, `sc_fs_storage.c`, `sc_fm_engine.cpp`) | content in the element, bytes and addresses by checksum, segments file | set, get, find, remove, save, start | storage, disk |
| templates (`sc_template*.cpp`) | triples; stack of iterators, names and arcs in use | build, generate, search step by step | iterators, storage |
| agents and the rest of the C++ layer (`sc-memory/sc-memory`) | wrappers, waiters, command sets | see the headers | the C interface |
| SCTP server (`sc-network/sctp_server`) | connections, their sockets and subscriptions, notifications | accept, command, subscribe, notify, close, stop | events, storage |
| scp interpreter (`sc-kpm/scp`) | questions, processes, operators, marks: all of it elements and arcs | call, activate, execute, synchronize, return, destroy | events: each step is a callback |
| server program, search and UI agents, tools | none of interest | see `docs/` | the C and C++ interfaces |

What is hard in it: spin locks built from atomic words; optimistic reads before a
lock; a deletion that cascades over arcs on arcs and erases in the order of a hash
table while others create; reference counts that decide when a slot is used again;
subscriptions that are destroyed by their owner, by the deletion of their element and
under running callbacks; three locks taken in two orders; a shutdown with work in
flight; a restart that recomputes the allocator's counters from the slots; walks over
lists that others mend; content whose two stores reach the disk at different times; an
interpreter that is nothing but callbacks, each of which tests what others are changing;
a server whose subscriptions outlive commands and may be destroyed by anyone.

What makes it correct:

* section lock: exclusion, exact nesting, no owner left behind, tries that give up;
* segment: no slot given out twice, over an element, or at the empty address; counters
  that never claim more room than there is; calls that end;
* storage: arcs always have both ends; the lists of an element are exactly its arcs;
  a deletion removes exactly the closure and announces exactly that; a slot is reused
  exactly when nothing refers to it;
* events: nothing freed is reachable; counts are exact; accepted events are delivered;
  destruction and shutdown end;
* iterators: what is there all the time is returned, once (by a 5-element iterator once for each of
  its attribute arcs); references are what the walk holds;
* link content: what was set last is read, and the links of a content are found, also
  after a save and a restart;
* templates: a search finds every construction once, and nothing else;
* SCTP server: results in the order of commands and no more than are due, notifications exactly
  once, no pointer to a connection that is gone;
* scp: joins wait, control is neither duplicated nor lost, answers arrive, a process
  erases what is its own and nothing else.

`PROJECT.json` lists every component with its status and, under `hazards`, the places
where these can go wrong.

## 2. Modules

| Module | What it is |
|---|---|
| `RecursiveLock` | abstract: a lock one thread at a time holds, to some depth |
| `SectionLock` | the section lock, one step per atomic access |
| `Segment` | allocation in one segment, by threads that use section locks |
| `ScGraph` | abstract: a graph of elements with cascading removal and its announcement |
| `Storage` | the storage of elements with its lists, counts and step-by-step deletion |
| `Iterators` | a walk over the arcs of an element against creation and deletion |
| `LinkStore` | link content in elements and file memory, saving, crash and restart |
| `Events` | subscriptions, emission, destruction, worker pool, shutdown |
| `Templates` | building, generation and backtracking search |
| `Sctp` | the SCTP server and its event manager |
| `Scp` | the interpreter of scp-programs |
| `MC...` | instances for TLC |
| `SectionLockProofs`, `SegmentProofs`, `StorageProofs`, `IteratorsProofs`, `LinkStoreProofs`, `EventsProofs`, `SctpProofs`, `ScpProofs` | TLAPS proofs |

Definitions named after a `Mutant:` comment are wrong variants of the definition that
follows them; no specification uses them. They document which mistake in the code
each property would detect.

### SectionLock

`pc[t]` is where thread `t` is inside `sc_segment_section_lock`, `_lock_try` or
`_unlock`; `limit` tells the two kinds of locking apart. `held[t]` is what the callers
believe; the code has no such variable. The two reads of `thread_lock` in one condition
are two steps. Callers pair locks and unlocks, as `sc_storage.c` does.
`AbstractSpec` maps `hold` to the count of the owner, with the lock taken when
`thread_lock` is written and given back by the decrement.

### Segment

One segment of `ElementsCount` slots in `Level` sections. Section locks are used through
what `RecursiveLock` promises: `HeldBy(t)` are the sections of thread `t`, which may
already hold some for other elements (`outer`). The unlocked reads of `elements_count` and
`empty_count` are steps of their own; what runs under the section's lock is one step.
`Reload` is a shutdown and a start: `sc_segment_loaded` recomputes all counters from the
slots. `TryFails` is allowed whenever another thread is inside a call, because the guard
of a section can be busy for as long as a try lasts.

### Storage and ScGraph

`el[a]` is the `sc_element` in slot `a`, with its list links. A creation is one step,
since it holds the locks of all it touches from before its first to after its last write.
A deletion is a sequence of steps (`FreeCall`, then `FreeNext`, `FreeOut`, `FreeIn` until
`FreeCollected`, then `FreeErase` in any order, `FreeReturn`), between which other
threads create, refer to and give back whatever is not in its `lock_table`. Locks cover
one element in the model and a section of many in the program, so the model allows
every interleaving that the program does, and more. Segments give out any empty slot.
A list is read by following links (`Walk` is the least set that has the first arc and with every
arc the next), so that a ring or a lost tail would show.
Links are nodes: their content, kept by the file memory, is not modelled.
The last unref is two critical sections (`sc_storage.c:1330-1346`): `Unref` takes the count to 0
and `UnrefErase` gives the slot back, and in between (`Dropped`) the slot has a type and no
reference. A reference taken there, as one of a slot that is empty, fails the assertion of line 1308 and ends
the process (`RefAborts`, `aborted`). A deletion that drops the last reference itself holds the lock over
both (`Unrefed`).

`GraphSpec` maps the storage to `ScGraph`: a deletion takes effect in one step, when
all is collected, and then owes the events of what it has not erased yet. It says that
what is removed is the least set closed under "arc with a removed end", and that each
removal is announced to both ends and to the element itself.

### Events

Each place where a thread can wait is a step. The table's mutex and the lock of each
`sc_event` are variables; the queue's mutex matters only while the pool is closed.
`CanCall` makes workers clients while they run a callback. Emissions reach only
subscriptions of the type and access levels that match, so those are not modelled.
`Emit` does not ask whether the element exists: a context that collected events emits them
later. `CallCallback` reads `callback` again or not, as the compiler decides.
`crashed` records a call through null, or the failed assertion of `sc_storage_element_ref`.
The count of references accounts for the owner, the jobs and the emission at hand
(`RefsAccounted`); a queue that was stopped drops jobs and leaves their references behind, so
that from then on the count may be larger. The pool has finitely many threads.
A client calls `sc_event_destroy` once per subscription and not from its own callback,
and does not start calls while another client closes the memory. Not modelled here:
deletion callbacks, `data`, and what callbacks do besides calling the memory.

### Iterators

An element `V` has arcs that all end in `E`; `W` has arcs of its own, so that a slot that
is used again may belong to another list. `slot`, `head` and `ref` are the elements, the
list of `V` and the reference counts. The iterator is `_sc_iterator3_f_a_a_next`, split where
it gives a lock back (`NextFirst` or `NextBehind`, `NextLock`, `NextEnd`, `NextType`); with `five`
it is `sc_iterator5` on top of it: `NextAttribute` makes `it_attr`, the iterator over the attribute
arcs of the arc at hand, which has a reference of its own to that arc; the next call asks
`it_attr` first, and so returns the arc once for each attribute arc (up to `PerArc`), before it frees it and
goes to the next arc. `returned` is a sequence of arcs with the number of the attribute arc. A
deletion takes the locks of its `lock_table` in the order of `Turn` (the table first, then
what the table needs) and erases under all of them. When the end of an arc is gone,
`el_type` is what was on the stack: either outcome is possible. A 5-element iterator ends early
when the arc it stands on is gone.
`had`, `kept`, `gap`, `stray` and `leaked` are history: arcs that were there, or stayed; whether
an arc was deleted that the walk was bound to visit; whether it left the list; references it
has forgotten, those of arcs of other types, which the code keeps for ever.

### LinkStore

A content has a checksum, and stands for it; short contents are in the element too, long ones
only in the file memory. A call on a link is a sequence of steps, one for each critical section
(of the link's section, of the database); a search reads addresses and then locks one
link after another. `sc_storage_save` locks everything, writes a temporary file and renames it.
`Crash` may happen at any time, `Shutdown` saves or not, `Initialize` loads the file, whose
elements may be older than the file memory, which is on disk at once: `lost` records that,
`raced` that bytes were erased between their writing and the entry that keeps them.
The disk is reliable: what was written is there after a crash of the process.

### Templates

Arguments are as the builder resolves them (`AddTriple`). `Do` is a generation, `Begin` the start
of a search, `AppendBest` one turn of `UpdateSearchCache`, `Deeper` and `Further` one turn of the
loop of `DoIter` that creates an iterator or goes on with the last one, `Step` the client's demand
for the next result; the client may create arcs before it. `std::sort` and the hash table
leave the order of equal triples open, and so does the model. An iterator is the sequence of what
it will still return: new arcs are put in front of a list, where a walk that has begun does not see
them. Deletions during a search are the subject of `Iterators`. `SC_ASSERT` is empty in release
builds, which are modelled. `FoundExact` compares the results with `Constructions`, which tries all
choices of arcs. Not instantiated, because the code does not cope: the empty template
(`processOrder[0]` of an empty vector); a triple with a known arc and one name at both ends,
which are not compared; an arc's address that is a node's.

### Sctp

One thread per connection takes pieces from its socket: headers and arguments. Arguments that
do not come in time are given up (`ArgsTimeout`), and from then on the stream is out of frame.
The commands that concern subscriptions are modelled as they are, the others by whether and
how often they answer: arguments that are too short are not answered, except those of constructions
(`Enough`), a type of iterator that does not exist is not answered, and an iterate without
an iterator is answered twice. The manager's mutex, its table and the sets of the connections are
variables; a callback of the memory is a job that takes the mutex. Of the memory's own locks those
that matter here are kept: who destroys a subscription that is in the events table
(`InTable`) has its lock until `Detach`, which needs the table; an event (`EventOccurs`, then `Emit`) or a
deletion (`ElementDeleted`) has the table (`table`) when it takes that lock. A subscription whose element
was deleted (`doomed`) is out of the table, and its destruction waits for callbacks only. Stopping the server
destroys what is left. `InOrder` speaks of a connection until its stream is out of frame. `ExactlyOnce` looks at the places where a notification can be: a job,
the data a connection has collected, or a result it was sent.

### Scp

Programs are constants; `quest`, `proc`, `ops`, `live`, `value` are what exists of questions,
processes, operators and variables; `active` and `marks` are arcs, each of which starts a job
when it appears. A job is one callback of the interpreter, in as many steps as it
reads what others may change. The result of an operator is any that its type can have, and
`AgentOf` says for every type of operator what the result leads to. A call is meant to clear its
out-parameters, and erases one value of each, or none: `erase_var_set_values` looks for arcs
of a kind that values do not have, and `eraseElStr5` looks for the value that was passed before, if one was.
What stays is erased by the operator of the called program that assigns it. (Programs are ones that give
no ASSIGN modifier to an in-parameter, which makes a call crash.)

Not every property holds of every program, and the conditions are definitions of their own.
`Straight`: no fork and no operator that waits (`OneControl`). `Orderly`: what is before a join is in
`Once`, that is, one way leads to it from the start of the process and passes no operator that waits; an
operator that is executed again loses its mark, and the join its reason (`JoinWaits`). `Tidy`: processes
share no variables but those passed, each to one call, and two operators that assign one variable are
not at work at the same time (`ErasesOwn`): the code has no lock on a variable, and leaves that to
the program. `MCSystemsAssumption` says that the programs of the run are of these kinds, and TLC tests it.

## 3. Runs

| Run | Instance | Shows |
|---|---|---|
| `section_lock` | 2 threads, depth 2, up to 2 attempts | exclusion, the owner assertion, tries that return, the inductive invariant, and that it implements `RecursiveLock` |
| `segment` | 5 slots, 2 sections, 2 threads, segment number 0 or 1 | the inductive invariant (disjoint claims, real addresses), counters, termination; restarts at any quiet moment |
| `storage` | 4 slots, two levels, one element that clients refer to, up to twice | lists, ends and locks during erasure, counts on both sides of the last unref, that at most one element escapes the test of rights, and that it implements `ScGraph` |
| `events` | 2 clients, 1 worker whose callbacks call, 3 subscriptions of 2 elements, 2 emissions | nothing freed is reachable, exact counts, live subscriptions in emissions |
| `events_shutdown` | 1 client, 2 workers whose callbacks do not call, 2 subscriptions, 3 emissions, stop and shutdown | destruction ends, every job is delivered |
| `events_destroy_deadlock` | 2 clients | *violation*: destruction and emission wait for each other |
| `events_shutdown_deadlock` | 1 client, 1 worker whose callbacks emit | *violation*: the shutdown of the queue and an emitting callback wait for each other |
| `iterators` | 3 arcs of every mix of types with up to 2 attribute arcs each, 1 creation, 2 deletions, 4 slots | references, completeness, and what can mislead or stop a walk |
| `link_store` | 2 clients, 2 links, a short, a long and the empty content, 3 calls, a save, a restart | both stores agree, contents are read back, searches are exact, calls end |
| `templates` | 12 templates, 144 memories of 2 nodes and 3 arcs, 1 generation, 1 arc during the search | exact bookkeeping, exact results |
| `sctp` | 2 clients, 3 commands, 2 subscriptions, 1 event of each | order and number of results, exactly one notification, no dangling pointer, no standstill but two |
| `scp` | 8 systems of up to 3 programs of 5 operators | joins, control, variables, answers, ends |

Bounds. Two threads are enough for every conflict over a section, whose state names one
owner; depth 2 is the least with nesting; two attempts exercise both exits of the try.
Five slots in two sections give one section a slot more than the other, as 65535
slots in 32 sections do, and leave room to fill, erase and refill. Four slots hold two
nodes, an arc and an arc on the arc, loops, and two arcs side by side in one list with
their common ends. Three subscriptions of two elements give an emission a list to walk while
another element's list changes. `MaxEmits` bounds emissions, `MaxRefs` and `MaxHeld` the
references of clients; nothing in the code depends on how many there were. In the run
`storage` elements are either referred to by clients or have levels (`RaisedOrHeld`): rights are tested
without regard to counts.
A walk over three arcs has one it stands on, one it looks at and one behind; two deletions
are the least that take the arc it stands on and its successor, in either order, and one
creation the least that uses a slot again; two attribute arcs are the least with one that
`it_attr` is resumed for. Two links and three calls let one call overtake
two others, or a search meet a setting and a removal. Three arcs, arcs on arcs included,
are more than any template of two triples needs, so that there are wrong ways to come back from.
Two clients of the server are its only kinds: the owner of a subscription and another, which
destroys it or sends one command of each way to be answered (once, twice, not at all, and
a construction that is too short); this run has 733,000 states.
The systems of programs have each a reason: fork and join, a join on results, a loop, an early
return, calls that succeed, fail and are waited for, a wait for an event.
The run of `Storage` is symmetric in the slots and the run `events` in threads of one kind; no
liveness is checked under symmetry.

Fairness is weak fairness of each thread inside a call: the operating system keeps
scheduling it. In `Events` it also means that the pool's threads take jobs and that
callbacks return. A spinning thread is never assumed to win: `sc_segment_section_lock`
itself may starve, and no property says otherwise. In `Scp` a job that waits is taken by a
thread of the pool; in `Sctp` threads run, and whoever has the events table goes on, while clients need not send; in `LinkStore` and
`Iterators` calls and deletions that have begun go on.

`CHECK_DEADLOCK FALSE` in the runs of `Events`, `Iterators`, `LinkStore`, `Templates`, `Sctp` and
`Scp`: their threads may all be done, searches and walks end, and processes come to their
end. Where the code can really stand still, a property says when: `DestroyReturns`, `WalkEnds`,
`BusyEnds`.

### Disagreements

`events_destroy_deadlock` and `events_shutdown_deadlock` each refute a comment; `PROJECT.json` quotes
them. The second: `sc_event_queue_destroy_wait` closes the pool under the mutex that a callback needs
to emit (`sc_event_queue.c:92-95, 105`), whether the queue still runs or not. Other places where the code
does less than a comment, an assertion or the documentation says are in the models as they are
in the code, and the properties are stated up to them:

* Allocation gives up with empty slots left, although `sc_segment.h:75` speaks of a full segment:
  each section keeps one slot for ever (`OffsetInv`), and a restart makes it worse.
* The test of rights in `sc_storage_element_free` looks at the element of the previous turn
  (`sc_storage.c:313`): `RightsButLast` says what is left.
* Between the last unref of an element and its erasure (`sc_storage.c:1332`) a reference fails the
  assertion of line 1308 (`RefAborts`).
* A subscription may be made to an element that is being deleted (`sc_event.c:134`), and an
  iterator may refer to an arc that was erased since its address was read (`sc_iterator3.c:387`):
  both fail the assertion of `sc_storage.c:1308`. In `Events` this ends the process (`crashed`), in
  `Iterators` it is `pc = "aborted"`, which `KeepsToList` traces back to its cause.
* A worker may call `callback` through null (`sc_event_queue.c:44`): `sc_event_destroy` resets it
  before it waits. `DestroyReturns` therefore says "unless the process ends".
* A job that meets a stopped queue is dropped with its reference, for which destruction then
  waits. `events_shutdown` has one thread that calls, and its properties speak of a running queue.
* `sc_event_private.h:55` (stopping "waits while all emited events will be processed"; it clears a
  flag) and `:58-62` (notification "call deletion callback" and "destroy all events"; it flags them).
* `sc_iterator3.c:383` locks by trying "to prevent deadlock with deletion"; yet an iterator holds an arc and waits for its end, while a
  deletion holds the end and waits for the arc (`Deadlock` in `WalkEnds`).
* Arcs of other types that a walk passes keep a reference for ever (`leaked`).
* `sctpEventManager.cpp:65` records a subscription also when `sc_event_new` failed; the client gets an
  id (`docs/net/sctp.md:330`) that never notifies. Destroying a subscription keeps the manager's
  mutex while callbacks wait for it, and takes the locks of the memory in the other order than an
  emission (`CallbackDeadlock` and `TableDeadlock` in `BusyEnds`): the server stands still.
* `docs/net/sctp.md:45` says that after each command a result is returned, tied to its id. An iterate
  without an iterator is answered twice (`sctpCommand.cpp:1078-1100`), one with an invalid type
  (`:1074`, `:1168`), an unknown command and arguments that are too short or too late not at all. `InOrder` counts results
  accordingly.
* Two synchronizers that both find the marks of a join complete start it twice
  (`scp_operator_syncronizer.c:106, 237`). `JoinWaits` is about a join that starts early and `ReliableEnds` about one
  that never does; neither speaks of this.
* The caller of an scp-program may collect the question before the destroyer of the process has
  loaded its parameters; the destroyer then erases the caller's variables (`scp_process_destroyer.c:121-133`).
  `ErasesOwn` exempts this case, and no other.
* A search by template may end with the exception "Invalid state during template search" for a
  template that is connected: `UpdateSearchCache` considers only what the last triple resolves. One of
  the templates of the run does so or not, as the hash table decides. (`idx == 1` in
  `sc_template_search.cpp:147` adds the score for arcs to the first triple only.)
* A generation that fails leaves arcs between given elements behind; one with a new name at both
  ends of a triple makes two elements of it (`Promised`).

## 4. Proofs

`SectionLockProofs`, for any set of threads and any bounds: `IInv` is inductive, hence
`MutualExclusion`, `OwnerAssertion`, `CountsNesting`, and `Spec => AbstractSpec`.
`MutualExclusion` alone is not inductive: it needs that one thread at most is behind
`internal_lock` (`GuardInv`), what each point of the code knows of the owner
(`PointInv`), and that the words of the section account for what every thread holds
(`AccountInv`). `BoundedAttempts` (a try spends at most `max_attempts + 2` attempts) rests on
`AttemptInv`: while a try still looks for the section it has spent one less.

`SegmentProofs`, for any number of slots, sections (fewer than slots) and threads: `IInv` is
inductive, hence `ClaimsDisjoint` and `NeverEmptyAddr`, and `NeverOverwrites`, which says of each
call that the slot it is given is empty and in no other call's hands, follows step by step. The key is `OffsetInv`: `empty_offset` of every section names a slot
that is empty, claimed by nobody and not the empty address. It survives `Take` because a
slot is given out only when a successor is found, and `Reload` because each section
therefore always keeps such a slot. The same fact is why each section loses one slot
(section 3, Disagreements). `ElementsCounted` then follows with what cardinalities do when one
slot comes or goes: `Take` counts a slot that is in no one's hands, `Publish` moves it from the
pending calls to the elements, and `Reload` counts afresh when no call is pending.

`StorageProofs`, for any number of slots, references and levels: `RefsExact`, `ListsExact`,
`RightsButLast`, and `Spec => GraphSpec`. `IInv` says that the lists of outgoing and of incoming arcs
are chained (`Chained`: what an arc knows of its neighbours, and that no arcs form a ring) at every
moment, also between two turns of the loop that erases, when an arc may outlive its end. Of a
deletion in progress it says which lists it has walked, that what it found there cannot change
because it is locked, and that all neighbours of what it will erase are locked too; that is why
other threads, whose steps are reduced to `Outside`, do not disturb it. For the refinement the
set collected must be the least closed one: all that was collected was reached from the
element to be deleted, and when the loop ends no arc that touches the set is left out.
`RefsExact` counts the clients' references and one of the element's own while it is not marked as
deleted; it holds in the gap of the last unref too, where both are gone and the type is not.
That no arcs form a ring makes the walk along a list reach every arc of it.

`EventsProofs`, for any threads (finitely many workers), subscriptions and elements:
`NoUseAfterFree`, `RefsAccounted` and `EmissionsSeeLive`. None is inductive alone. `CallInv` says that
exactly the thread with the mutex goes through a list and that a subscription is in one call at
most; `SubInv` what each point of a creation or destruction knows of it; `TableInv` that the lists
hold live subscriptions of their element, each once, and that a live one without the flag is in its
list or in that which a notification has taken out; `JobInv` that jobs are about live ones. A
subscription is freed when its count is zero, and the count is at least the number of its jobs: so no job
is left. `ElementInv` counts the references to elements, for otherwise `ref_count` might fall below zero.
The counting lemmas say what appending, taking and ending a job does to the cardinalities.

`SctpProofs`, for any clients, commands and subscriptions: `NoDanglingCommand`, `InOrder` and
`ExactlyOnce`. Results are in order because a socket that is in frame holds exactly the pieces
between the one that the server expects and the one that the client will send (`Fed`), and every
piece is of the command that was sent under its number (`Numbered`). So the command that is dealt with
next is the one after those that have their results, and what it adds are results of its own number:
one, two of an iterate, or none. `ExactlyOnce` needs that
notifications of events to come are nowhere (`Fresh`) and that only a subscription without a callback
loses its owner (`Owners`).

`LinkStoreProofs`, for any clients, links and contents: `BackLinksExact`, `SavedExact`, `ReadsBack`
and the action property `FoundExact`. The two stores do not agree while a content is being set, so
`IInv` follows a link through the three steps of `sc_storage_set_link_content` (`Staged`): it fits the
file memory until its address is removed (`Fits`), has no address until the next is entered
(`Bare`), and its element already has a short content by then. `SaveInv` says that a save writes
while it has all locks, hence while no link is between these steps, so that the file fits the
addresses of that moment (`FileInv`). `BytesInv` keeps the bytes of what has an address, and names
the links whose bytes were erased for another (`raced`). `SearchInv` puts what a search has found
and has still to look at between the links that had the content all the time and those
that had it once.

`IteratorsProofs`, for any number of slots, creations and deletions: `RefsAccounted`, `KeepsToList` and
`AllReturned`. The list of `V` changes while the walk goes on, and the arc it stands on may be in it no
more. What does not change is an order: `ListInv` gives every arc a rank, such that each arc leads to
the one with the next rank among those in the list (`Behind`). A new arc, put in front,
gets a rank below all others; a deletion changes none. So the walk has a place also when its
arc is gone, what it will still meet are the arcs of higher ranks (`Before`), and these were
there when it began. For a 5-element iterator what is left to be returned (`Left`) also has the attribute
arcs that `it_attr` has not found yet, of the arc that the walk stands on (`Pending`): a result is either
left or returned, and what is left is returned once. The proof follows `Before` and `Pending` through each step. `DeleteInv` says
that a deletion has or will take the locks of what it erases and of the neighbours; so the
arc that an iterator has locked is neither, and no arc is put in front of one that is about to go.
`StandInv` and `RefsAccounted` keep the slot of the arc that the walk is at from being used again.

`ScpProofs`, for any questions and any programs: `OneControl`, `JoinWaits` and `ErasesOwn`. For `OneControl`: what the property counts is not all there
is: a process that was asked for will be started by a job (`StartInitial`), and a mark may be erased while
the synchronizer follows it. `ControlInv` therefore says of a sequential program that at most one arc
or one job has its control (`Holds`), and that the job of a mark has one way on at most (`OneWay`).
Every step leaves control where it was (`Still`), or is made by who has it and gives it to one job
(`ByJob`) or one arc (`ByArc`); `StepInv` shows that this is enough. A program that is called gets its
control from nowhere: `AskedInv` says that nothing of a question exists before it is asked.
`WorkInv` (a job does what the type of its operator calls for) keeps the callbacks of
waiting operators, which may both let one operator go on, away from sequential programs.

`JoinWaits` (`JoinWaitsHolds`, of programs that are `Orderly`) is about programs with forks, in which
control is in many places, so `ControlInv` says nothing of them. `StartInv` follows one operator
instead of one process. `OnceInv`: an operator in `Once` is to be started (`Starting`: by the creation of its
process, or by a mark before it, whose job may not have begun), or active, or at work, or marked; of these
one at a time, and once. So its mark, once set, is not erased but with the operator: it would be
erased by who starts it again. `JoinInv` says that what was found when a synchronizer tested the marks of
the others (`Suits`) is still so when it activates the operator, in a later step, and as long as the
operator is active. It needs `FollowsInv` (the job of a mark goes along arcs that fit the mark, which is
there) for the predecessor whose mark the job has come from, and `FreshInv` (there is nothing of a
process before it is created) for the first operators. Every step is of one of five kinds
(`Fades`, `Takes`, `Marking`, `Launches`, `Goes`), and one lemma for each kind shows that it keeps `StartInv`.

`ErasesOwn` (`ErasesOwnHolds`, of systems that are `Tidy`) rests on `VarInv`. `ListInv`: until the caller
collects the question, who erases the process has the list of its parameters, although the list
is read in two steps between which the caller may act, and two jobs may erase one process. `OwnInv`: a variable is there only while an operator
has it, so none is left when the last operator is erased. `PassedInv`: what was passed is there while
its owner is `Sound`. `ValueInv`: an operator at work has erased the values of what it will assign; it
stays so because no other operator at work assigns the same (`OneAssigns`), which `ControlInv` gives for
programs that are `Straight`, loops included, and `OnceInv` for operators in `Once` of all others.

Assumptions: those of the constants (`LockAssumption`, `SegmentAssumption`, `StorageAssumption`,
`IteratorsAssumption`, `LinkStoreAssumption`, `EventsAssumption`, `SctpAssumption`, `ScpAssumption`), which TLC evaluates in the runs; and, as hypotheses of the two theorems
above, that programs are `Orderly` or systems `Tidy`. `SegmentProofs` takes exclusion of
sections from `FreeFor`, which stands for the lock that `SectionLockProofs` is about.

Only model-checked: liveness (`TryReturns`, `CallReturns`, `DestroyReturns`, `Delivered`,
`ShutdownReturns`, `WalkEnds`, `CallsEnd`, `BusyEnds`, `NoLostAnswer`, `ReliableEnds`, `ReturnedEnds`),
which is beyond this prover; and `Templates`, where building and generation are folds over the triples of a
template, so that what they return (and the search builds on) takes induction over data.
The inductive invariants of the last six proof modules were checked by TLC on the instances of
the runs before they were proved.

## 5. Plan

In this order:

1. Proofs: the bookkeeping of a search in `Templates`, for a template that was built.
2. `SegmentCache`: getting, removing and refreshing segments, the bound on segments and a
   failing allocation; composed with what `Segment` promises.
3. `StorageLocks`: the order in which arc creation, deletion and saving take sections and mutexes.
4. `Contexts` (identifiers and pending events, in front of `Events`) and `Agents` (commands
   initiated, in progress, finished).

Hazards that have no property yet, besides those that `PROJECT.json` lists: an arc from an address
without a segment retries for ever (`sc_storage.c:666`); a creation without a slot writes through
null (`sc_storage.c:711`); a refused change of subtype keeps the section (`sc_storage.c:809`); identifiers of contexts wrap
around (`sc_memory.c:158`); deletion callbacks run under the lock of their subscription, and a
callback that destroys its own subscription waits for itself (`sc_event.c:225`, `:217`); two
initiators of one command (`kpm/sc_agent.cpp:143`).

## 6. Not modelled

Text processing (SCs parser, builder, code generator), wrappers (C++ memory, streams,
HTTP), configuration, the extension loader, the segment cache, contexts, agents, the operators' own
work in scp and the agents written in it, clients of the memory (search and UI agents), the formats
of files and packets, RocksDB, loss of what was written to disk, and vendored code; the reasons are
in `PROJECT.json`. Most lines of the repository are of these kinds.
