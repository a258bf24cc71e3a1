-------------------------------- MODULE Sctp --------------------------------
(***************************************************************************)
(* The SCTP server (sc-network/sctp_server): one thread per connection     *)
(* reads commands from its socket and writes results; the event manager    *)
(* keeps the subscriptions of all clients behind one mutex, and callbacks  *)
(* of the memory collect notifications, which a client asks for.           *)
(*                                                                         *)
(* A command arrives in two pieces, header and arguments, and the server   *)
(* gives up waiting for the second.  A result is its header and what       *)
(* follows it; what the memory answers is any of what it can answer.       *)
(***************************************************************************)
EXTENDS Integers, Sequences, FiniteSets

CONSTANTS Conn,       \* connections
          Sends,      \* the requests that each client may send
          Garbage,    \* the requests that bytes out of frame are taken for
          MaxCmds,    \* bound: commands of each connection
          MaxEvents,  \* bound: ids of subscriptions (tEventId has 32 bits)
          MaxEmits,   \* bound: events in memory
          Null

VARIABLES sent,         \* commands of each client, in order: id n is the nth
          late,         \* the command whose arguments a client has not sent yet
          input,        \* pieces in the server's socket
          framed,       \* the next piece is what the server takes it for
          thread,       \* where the thread of each connection is
          cmd,          \* the command it processes, or has processed last
          out,          \* all results it has written, in order
          mEvents,      \* the owner of each subscription that the manager knows
          nulls,        \* those whose sc_event is null
          live,         \* those whose sc_event has a callback
          doomed,       \* those whose element was deleted: REQUEST_DESTROY is set
          table,        \* the one whose lock the holder of EVENTS_TABLE_LOCK is about to take
          mLastEventId,
          mEventsMutex, \* who holds it
          target,       \* the subscription that its holder destroys
          mEventsSet,   \* the subscriptions a connection has made
          mSendData,    \* notifications that wait for their client
          emits,        \* events in memory of a subscription so far
          jobs,         \* their callbacks
          server        \* the main thread, and the process

conns == <<sent, late, input, framed, thread, cmd, out>>
manager == <<mEvents, nulls, live, doomed, table, mLastEventId, mEventsMutex, target,
             mEventsSet>>
notes == <<mSendData, emits, jobs>>
vars == <<conns, manager, notes, server>>

EventId == 1..MaxEvents
EventCodes == {"createEvent", "destroyEvent", "emitEvent"}
PlainCodes == {"check", "type", "erase", "createNode", "createLink", "createArc", "arc",
             "content", "findLinks", "setContent", "iterate", "construct", "generate",
             "findIdtf", "setIdtf", "statistics", "unknown"}
NoArgs == {"createLink", "emitEvent"}

\* full: the arguments are as long as the command wants.  valid: the type of
\* iterator in them, for iterate, exists.  event: the argument of destroyEvent.
Request ==
  [code : PlainCodes \cup EventCodes, full : BOOLEAN, valid : BOOLEAN, event : EventId]

\* A request with its id.
WithId(q, id) ==
  [code |-> q.code, full |-> q.full, valid |-> q.valid, event |-> q.event, id |-> id]

\* Id 0 is that of a command nobody has sent.
Command(c) ==
  [code : PlainCodes \cup EventCodes, full : BOOLEAN, valid : BOOLEAN, event : EventId,
   id : 0..MaxCmds[c]]

ASSUME SctpAssumption ==
  /\ Sends \in [Conn -> SUBSET Request]
  /\ Garbage \subseteq Request
  /\ MaxCmds \in [Conn -> Nat]
  /\ {MaxEvents, MaxEmits} \subseteq Nat
  /\ Null \notin Conn \cup {"server"} /\ Null \notin EventId
  /\ \A c \in Conn : Null \notin Command(c)

Note == EventId \X (1..MaxEmits)

-----------------------------------------------------------------------------
\* Results: the headers that a command leads to, and whether data follows.

Header(code, id, res, body) == [code |-> code, id |-> id, res |-> res, body |-> body]

Data(r) == IF r = "ok" THEN <<"data">> ELSE <<>>

processCheckElement(id, r) == <<Header("check", id, r, <<>>)>>

processGetElementType(id, r) == <<Header("type", id, r, Data(r))>>

processElementErase(id, r) == <<Header("erase", id, r, <<>>)>>

processCreateNode(id, r) == <<Header("createNode", id, r, Data(r))>>

processCreateLink(id, r) == <<Header("createLink", id, r, Data(r))>>

\* A failure is reported as that of another command.
processCreateArc(id, r) ==
  <<Header(IF r = "ok" THEN "createArc" ELSE "createLink", id, r, Data(r))>>

processGetArc(id, r) == <<Header("arc", id, r, Data(r))>>

processGetLinkContent(id, r) == <<Header("content", id, r, Data(r))>>

processFindLinks(id, r) == <<Header("findLinks", id, r, Data(r))>>

processSetLinkContent(id, r) == <<Header("setContent", id, r, <<>>)>>

\* A type that does not exist is not answered.  Without an iterator it reports a
\* failure, and then success with no results.
processIterateElements(id, valid, r) ==
  IF ~valid THEN <<>>
  ELSE IF r = "ok" THEN <<Header("iterate", id, "ok", <<"data">>)>>
  ELSE <<Header("iterate", id, "fail", <<>>), Header("iterate", id, "ok", <<"data">>)>>

\* Mutant: it goes on after a failure, as processIterateElements does.
processConstructionTwice(id, r) ==
  (IF r = "ok" THEN <<>> ELSE <<Header("construct", id, r, <<>>)>>)
  \o <<Header("construct", id, "ok", <<"data">>)>>

processIterateConstruction(id, r) == <<Header("construct", id, r, Data(r))>>

\* generateStep always meets an address that nothing has set, and fails.
processGenerateConstruction(id, r) == <<Header("generate", id, "fail", <<>>)>>

processFindElementBySysIdtf(id, r) == <<Header("findIdtf", id, r, Data(r))>>

processSetSysIdtf(id, r) == <<Header("setIdtf", id, r, <<>>)>>

processStatistics(id, r) == <<Header("statistics", id, "ok", <<"data">>)>>

processCommand(code, id, valid, r) ==
  CASE code = "check" -> processCheckElement(id, r)
    [] code = "type" -> processGetElementType(id, r)
    [] code = "erase" -> processElementErase(id, r)
    [] code = "createNode" -> processCreateNode(id, r)
    [] code = "createLink" -> processCreateLink(id, r)
    [] code = "createArc" -> processCreateArc(id, r)
    [] code = "arc" -> processGetArc(id, r)
    [] code = "content" -> processGetLinkContent(id, r)
    [] code = "findLinks" -> processFindLinks(id, r)
    [] code = "setContent" -> processSetLinkContent(id, r)
    [] code = "iterate" -> processIterateElements(id, valid, r)
    [] code = "construct" -> processIterateConstruction(id, r)
    [] code = "generate" -> processGenerateConstruction(id, r)
    [] code = "findIdtf" -> processFindElementBySysIdtf(id, r)
    [] code = "setIdtf" -> processSetSysIdtf(id, r)
    [] code = "statistics" -> processStatistics(id, r)
    [] OTHER -> <<>>

-----------------------------------------------------------------------------
Piece(c) == [k : {"header", "arguments"}, cmd : Command(c)]

Threads == {"none", "wait", "args", "run", "destroy", "close", "closing", "gone"}

TypeOK ==
  /\ \A c \in Conn : /\ sent[c] \in Seq(Command(c)) /\ input[c] \in Seq(Piece(c))
                     /\ {late[c], cmd[c]} \subseteq Command(c) \cup {Null}
  /\ framed \in [Conn -> BOOLEAN]
  /\ thread \in [Conn -> Threads]
  /\ mEvents \in [EventId -> Conn \cup {Null}]
  /\ nulls \subseteq EventId /\ live \subseteq EventId \ nulls /\ doomed \subseteq EventId
  /\ table \in EventId \cup {Null}
  /\ mLastEventId \in 0..MaxEvents
  /\ mEventsMutex \in Conn \cup {"server", Null}
  /\ target \in EventId \cup {Null}
  /\ mEventsSet \in [Conn -> SUBSET EventId]
  /\ mSendData \in [Conn -> Seq(Note)]
  /\ emits \in [EventId -> 0..MaxEmits]
  /\ jobs \subseteq [note : Note, pc : {"queued", "called"}]
  /\ server \in {"up", "stopping", "stopped", "exited", "crashed"}

Init ==
  /\ sent = [c \in Conn |-> <<>>]
  /\ late = [c \in Conn |-> Null]
  /\ input = [c \in Conn |-> <<>>]
  /\ framed = [c \in Conn |-> TRUE]
  /\ thread = [c \in Conn |-> "none"]
  /\ cmd = [c \in Conn |-> Null]
  /\ out = [c \in Conn |-> <<>>]
  /\ mEvents = [e \in EventId |-> Null]
  /\ nulls = {} /\ live = {} /\ doomed = {}
  /\ table = Null
  /\ mLastEventId = 0
  /\ mEventsMutex = Null /\ target = Null
  /\ mEventsSet = [c \in Conn |-> {}]
  /\ mSendData = [c \in Conn |-> <<>>]
  /\ emits = [e \in EventId |-> 0]
  /\ jobs = {}
  /\ server = "up"

Running == server \notin {"exited", "crashed"}

-----------------------------------------------------------------------------
\* Clients and the network.

\* incomingConnection, run
Accept(c) ==
  /\ Running /\ server = "up" /\ thread[c] = "none"
  /\ thread' = [thread EXCEPT ![c] = "wait"]
  /\ UNCHANGED <<sent, late, input, framed, cmd, out, manager, notes, server>>

\* A client sends a command; it need not wait for the result of the last one.
Ask(c) ==
  /\ Running /\ thread[c] \notin {"none", "gone"} /\ Len(sent[c]) < MaxCmds[c]
  /\ late[c] = Null
  /\ \E q \in Sends[c] : LET m == WithId(q, Len(sent[c]) + 1) IN
       /\ sent' = [sent EXCEPT ![c] = Append(@, m)]
       /\ input' = [input EXCEPT ![c] = Append(@, [k |-> "header", cmd |-> m])]
       /\ late' = [late EXCEPT ![c] = IF m.code \in NoArgs THEN Null ELSE m]
  /\ UNCHANGED <<framed, thread, cmd, out, manager, notes, server>>

\* Its arguments arrive, at once or later.
SendArgs(c) ==
  /\ Running /\ thread[c] # "gone" /\ late[c] # Null
  /\ input' = [input EXCEPT ![c] = Append(@, [k |-> "arguments", cmd |-> late[c]])]
  /\ late' = [late EXCEPT ![c] = Null]
  /\ UNCHANGED <<sent, framed, thread, cmd, out, manager, notes, server>>

-----------------------------------------------------------------------------
\* The thread of a connection reads.

\* Once arguments came late, what is taken for a header is any command.
ReadHeader(c) ==
  /\ Running /\ thread[c] = "wait" /\ input[c] # <<>>
  /\ cmd' \in {[cmd EXCEPT ![c] = m] :
                 m \in IF framed[c] THEN {Head(input[c]).cmd}
                       ELSE {WithId(q, 0) : q \in Garbage}}
  /\ input' = [input EXCEPT ![c] = Tail(@)]
  /\ thread' = [thread EXCEPT ![c] = "args"]
  /\ UNCHANGED <<sent, late, framed, out, manager, notes, server>>

\* Commands without arguments go on at once.
ReadArgs(c) ==
  /\ Running /\ thread[c] = "args"
  /\ IF cmd[c].code \in NoArgs THEN UNCHANGED input
     ELSE input[c] # <<>> /\ input' = [input EXCEPT ![c] = Tail(@)]
  /\ thread' = [thread EXCEPT ![c] = "run"]
  /\ UNCHANGED <<sent, late, framed, cmd, out, manager, notes, server>>

\* Mutant: it waits for as long as it takes.
ArgsNoTimeout(c) == FALSE

\* waitAvailableBytes gives up; the arguments may still come.
ArgsTimeout(c) ==
  /\ Running /\ thread[c] = "args" /\ input[c] = <<>> /\ cmd[c].code \notin NoArgs
  /\ framed' = [framed EXCEPT ![c] = FALSE]
  /\ thread' = [thread EXCEPT ![c] = "wait"]
  /\ UNCHANGED <<sent, late, input, cmd, out, manager, notes, server>>

\* Constructions are answered however short their arguments are: build fails, or
\* goes on with what it has not read.
Enough(m) == m.full \/ m.code \in NoArgs \cup {"construct", "generate"}

\* READ_PARAM: arguments that are too short are not answered.
TooShort(c) ==
  /\ Running /\ thread[c] = "run" /\ ~Enough(cmd[c])
  /\ thread' = [thread EXCEPT ![c] = "wait"]
  /\ UNCHANGED <<sent, late, input, framed, cmd, out, manager, notes, server>>

Runs(c, codes) ==
  /\ Running /\ thread[c] = "run" /\ cmd[c].code \in codes /\ Enough(cmd[c])

Write(c, results) == out' = [out EXCEPT ![c] = @ \o results]

Process(c) ==
  /\ Runs(c, PlainCodes)
  /\ \E r \in {"ok", "fail"} :
       Write(c, processCommand(cmd[c].code, cmd[c].id, cmd[c].valid, r))
  /\ thread' = [thread EXCEPT ![c] = "wait"]
  /\ UNCHANGED <<sent, late, input, framed, cmd, manager, notes, server>>

-----------------------------------------------------------------------------
\* Subscriptions.

\* What follows the call of a manager that is gone.
NoManager(c) ==
  /\ server = "stopped" /\ server' = "crashed"
  /\ UNCHANGED <<conns, manager, notes>>

\* Mutant: the connection does not keep the id.
RecordedNot(c, e) == mEventsSet

Recorded(c, e) == [mEventsSet EXCEPT ![c] = @ \cup {e}]

\* _getAvailableEventId; ids are not used again before 2^32 of them were.
NextId == mLastEventId + 1

\* createEvent keeps what sc_event_new returns: a subscription, which it puts into
\* the table, or null, for want of the element.
createEvent(c, e) ==
  /\ mLastEventId' = e
  /\ mEvents' = [mEvents EXCEPT ![e] = c]
  /\ \/ table = Null /\ live' = live \cup {e} /\ UNCHANGED nulls
     \/ nulls' = nulls \cup {e} /\ UNCHANGED live

processCreateEvent(c) ==
  /\ Runs(c, {"createEvent"}) /\ mEventsMutex = Null
  /\ \/ NoManager(c)
     \/ /\ server # "stopped" /\ mLastEventId < MaxEvents
        /\ LET e == NextId
           IN /\ createEvent(c, e)
              /\ mEventsSet' = Recorded(c, e)
              /\ Write(c, <<Header("createEvent", cmd[c].id, "ok", <<e>>)>>)
        /\ thread' = [thread EXCEPT ![c] = "wait"]
        /\ UNCHANGED <<sent, late, input, framed, cmd, doomed, table, mEventsMutex, target,
                       notes, server>>

\* Those in the table; who destroys one of them holds its lock until it is not.
InTable == live \ doomed

\* destroyEvent takes the mutex and calls sc_event_destroy, which takes the lock of
\* the sc_event, and gives it back at once if the element was deleted.
DestroyCall(c, e, next) ==
  IF e \in nulls THEN server' = "crashed" /\ UNCHANGED <<conns, manager, notes>>
  ELSE /\ mEventsMutex' = c /\ target' = e
       /\ thread' = [thread EXCEPT ![c] = next]
       /\ UNCHANGED <<sent, late, input, framed, cmd, out, mEvents, nulls, live, doomed, table,
                      mLastEventId, mEventsSet, notes, server>>

\* remove_event_from_table, still under that lock; then the callback is taken away.
Detach ==
  /\ Running /\ target \in InTable /\ table = Null
  /\ live' = live \ {target}
  /\ UNCHANGED <<conns, mEvents, nulls, doomed, table, mLastEventId, mEventsMutex, target,
                 mEventsSet, notes, server>>

\* Any client may destroy any subscription, and its maker keeps the id.
processDestroyEvent(c) ==
  /\ Runs(c, {"destroyEvent"}) /\ mEventsMutex = Null
  /\ \/ NoManager(c)
     \/ server # "stopped" /\ mEvents[cmd[c].event] # Null /\ DestroyCall(c, cmd[c].event, "destroy")
     \/ /\ server # "stopped" /\ mEvents[cmd[c].event] = Null
        /\ Write(c, <<Header("destroyEvent", cmd[c].id, "fail", <<>>)>>)
        /\ thread' = [thread EXCEPT ![c] = "wait"]
        /\ UNCHANGED <<sent, late, input, framed, cmd, manager, notes, server>>

NoCalls(e) == \A j \in jobs : j.note[1] # e

\* No reference is left of an sc_event that is out of the table; it is freed.
Destroyed(c) ==
  /\ Running /\ thread[c] \in {"destroy", "closing"}
  /\ target \notin InTable /\ NoCalls(target)
  /\ live' = live \ {target}
  /\ mEvents' = [mEvents EXCEPT ![target] = Null]
  /\ mEventsMutex' = Null /\ target' = Null
  /\ \/ /\ thread[c] = "destroy"
        /\ Write(c, <<Header("destroyEvent", cmd[c].id, "ok", <<target>>)>>)
        /\ thread' = [thread EXCEPT ![c] = "wait"]
        /\ UNCHANGED mEventsSet
     \/ /\ thread[c] = "closing"
        /\ mEventsSet' = [mEventsSet EXCEPT ![c] = @ \ {target}]
        /\ thread' = [thread EXCEPT ![c] = "close"]
        /\ UNCHANGED out
  /\ UNCHANGED <<sent, late, input, framed, cmd, nulls, doomed, table, mLastEventId, notes,
                 server>>

\* Mutant: what was collected is sent, and kept.
KeptData(c) == mSendData

ClearedData(c) == [mSendData EXCEPT ![c] = <<>>]

processEmitEvent(c) ==
  /\ Runs(c, {"emitEvent"})
  /\ Write(c, <<Header("emitEvent", cmd[c].id, "ok", mSendData[c])>>)
  /\ mSendData' = ClearedData(c)
  /\ thread' = [thread EXCEPT ![c] = "wait"]
  /\ UNCHANGED <<sent, late, input, framed, cmd, manager, emits, jobs, server>>

-----------------------------------------------------------------------------
\* The client is gone, or has sent nothing for too long.
Disconnect(c) ==
  /\ Running /\ thread[c] = "wait" /\ input[c] = <<>>
  /\ thread' = [thread EXCEPT ![c] = "close"]
  /\ UNCHANGED <<sent, late, input, framed, cmd, out, manager, notes, server>>

\* shutdown destroys what the connection has made, and is not there any more.
Close(c) ==
  /\ Running /\ thread[c] = "close"
  /\ \/ /\ mEventsSet[c] = {}
        /\ thread' = [thread EXCEPT ![c] = "gone"]
        /\ UNCHANGED <<sent, late, input, framed, cmd, out, manager, notes, server>>
     \/ /\ mEventsSet[c] # {} /\ mEventsMutex = Null
        /\ \E e \in mEventsSet[c] :
             /\ \A d \in mEventsSet[c] : e <= d
             /\ \/ NoManager(c)
                \/ server # "stopped" /\ mEvents[e] # Null /\ DestroyCall(c, e, "closing")
                \/ /\ server # "stopped" /\ mEvents[e] = Null
                   /\ mEventsSet' = [mEventsSet EXCEPT ![c] = @ \ {e}]
                   /\ UNCHANGED <<conns, mEvents, nulls, live, doomed, table, mLastEventId,
                                  mEventsMutex, target, notes, server>>

-----------------------------------------------------------------------------
\* Events in memory and their callbacks.

\* Something happens to the element of a subscription: sc_event_emit_impl, or
\* sc_event_notify_element_deleted, takes the table and meets the subscription.
\* One that meets several is several of these.
EventOccurs(e) ==
  /\ Running /\ table = Null /\ e \in InTable
  /\ table' = e
  /\ UNCHANGED <<conns, mEvents, nulls, live, doomed, mLastEventId, mEventsMutex, target,
                 mEventsSet, notes, server>>

\* The lock of the sc_event that it is about to take is free.
LockFree == table # target \/ target \notin InTable

\* _sc_event_try_emit and sc_event_queue_append: the callback is to be called.
Emit(e) ==
  /\ Running /\ table = e /\ e \in InTable /\ LockFree /\ emits[e] < MaxEmits
  /\ emits' = [emits EXCEPT ![e] = @ + 1]
  /\ jobs' = jobs \cup {[note |-> <<e, emits[e] + 1>>, pc |-> "queued"]}
  /\ table' = Null
  /\ UNCHANGED <<conns, mEvents, nulls, live, doomed, mLastEventId, mEventsMutex, target,
                 mEventsSet, mSendData, server>>

\* Or the element is deleted: the subscription stays, with its callback, and is
\* out of the table.
ElementDeleted(e) ==
  /\ Running /\ table = e /\ LockFree
  /\ doomed' = doomed \cup {e}
  /\ table' = Null
  /\ UNCHANGED <<conns, mEvents, nulls, live, mLastEventId, mEventsMutex, target, mEventsSet,
                 notes, server>>

\* A thread of the memory's pool calls the callback, unless it was taken away.
TakeJob(j) ==
  /\ Running /\ j.pc = "queued"
  /\ jobs' = (jobs \ {j}) \cup
       (IF j.note[1] \in live THEN {[j EXCEPT !.pc = "called"]} ELSE {})
  /\ UNCHANGED <<conns, manager, mSendData, emits, server>>

Notified(e, note) ==
  [c \in Conn |-> IF mEvents[e] = c THEN Append(mSendData[c], note) ELSE mSendData[c]]

\* _eventsCallback, processEventEmit
EventsCallback(j) ==
  /\ Running /\ j.pc = "called" /\ mEventsMutex = Null
  /\ \/ server = "stopped" /\ server' = "crashed" /\ UNCHANGED <<mSendData, jobs>>
     \/ /\ server # "stopped"
        /\ mSendData' = Notified(j.note[1], j.note)
        /\ jobs' = jobs \ {j}
        /\ UNCHANGED server
  /\ UNCHANGED <<conns, manager, emits>>

-----------------------------------------------------------------------------
\* sctpServer::stop, with the manager's shutdown.

Stop ==
  /\ server = "up" /\ mEventsMutex = Null
  /\ server' = "stopping" /\ mEventsMutex' = "server"
  /\ UNCHANGED <<conns, mEvents, nulls, live, doomed, table, mLastEventId, target, mEventsSet,
                 notes>>

StopDestroys ==
  /\ server = "stopping"
  /\ \E e \in {d \in EventId : mEvents[d] # Null} :
       \/ e \in nulls /\ server' = "crashed" /\ UNCHANGED <<manager>>
       \/ /\ target = Null /\ e \notin nulls
          /\ target' = e
          /\ UNCHANGED <<mEvents, nulls, live, doomed, table, mLastEventId, mEventsMutex,
                         mEventsSet, server>>
       \/ /\ target = e /\ e \notin InTable /\ NoCalls(e)
          /\ live' = live \ {e}
          /\ mEvents' = [mEvents EXCEPT ![e] = Null] /\ target' = Null
          /\ UNCHANGED <<nulls, doomed, table, mLastEventId, mEventsMutex, mEventsSet, server>>
  /\ UNCHANGED <<conns, notes>>

Stopped ==
  /\ server = "stopping" /\ \A e \in EventId : mEvents[e] = Null
  /\ server' = "stopped" /\ mEventsMutex' = Null
  /\ UNCHANGED <<conns, mEvents, nulls, live, doomed, table, mLastEventId, target, mEventsSet,
                 notes>>

Exit ==
  /\ server = "stopped" /\ server' = "exited"
  /\ UNCHANGED <<conns, manager, notes>>

-----------------------------------------------------------------------------
Serve(c) ==
  \/ ReadHeader(c) \/ ReadArgs(c) \/ ArgsTimeout(c) \/ TooShort(c) \/ Process(c)
  \/ processCreateEvent(c) \/ processDestroyEvent(c) \/ Destroyed(c) \/ processEmitEvent(c)
  \/ Close(c)

CallBack == \E j \in jobs : TakeJob(j) \/ EventsCallback(j)

Occurrence == \E e \in EventId : Emit(e) \/ ElementDeleted(e)

Next ==
  \/ \E c \in Conn : Accept(c) \/ Ask(c) \/ SendArgs(c) \/ Serve(c) \/ Disconnect(c)
  \/ \E e \in EventId : EventOccurs(e)
  \/ Occurrence \/ Detach \/ CallBack
  \/ Stop \/ StopDestroys \/ Stopped \/ Exit

\* Threads run, and whoever holds the table goes on; nobody need send, nothing need
\* happen in memory, and the server need not stop.
Spec ==
  /\ Init /\ [][Next]_vars
  /\ \A c \in Conn : WF_vars(Serve(c))
  /\ WF_vars(Occurrence) /\ WF_vars(Detach)
  /\ WF_vars(CallBack) /\ WF_vars(StopDestroys) /\ WF_vars(Stopped) /\ WF_vars(Exit)

-----------------------------------------------------------------------------
\* Properties.

\* The manager's pointers to connections never dangle: a connection that is
\* gone has left no subscription behind, whoever destroyed which of them, and
\* every subscription is known to the connection that has to destroy it.
NoDanglingCommand ==
  TypeOK /\ (Running => \A e \in EventId : mEvents[e] # Null =>
    thread[mEvents[e]] # "gone" /\ e \in mEventsSet[mEvents[e]])

\* The commands that have a result: their arguments are long enough, and they
\* ask for something that exists.
Answerable(m) == Enough(m) /\ m.code # "unknown" /\ (m.code = "iterate" => m.valid)

\* The commands of a connection that the server has dealt with.
Dealt(c) ==
  IF cmd[c] = Null THEN 0
  ELSE IF thread[c] \in {"args", "run", "destroy"} THEN cmd[c].id - 1 ELSE cmd[c].id

\* Where the results of command i are.
ResultsOf(results, i) == {n \in 1..Len(results) : results[n].id = i}

\* One result; an iterate without an iterator has two, a failure and a success.
AnsweredOnce(m, results, places) ==
  \E n \in places :
    \/ places = {n}
    \/ /\ m.code = "iterate" /\ places = {n, n + 1}
       /\ results[n].res = "fail" /\ results[n + 1].res = "ok"

\* Although the client does not wait for results: as long as none of its arguments
\* came too late, results are in the order of the commands, none is of a command
\* that was not dealt with, every answerable command that was dealt with has one
\* result (iterate has one or two), and the others have none.  After late
\* arguments nothing is said: their bytes are taken for commands.
InOrder ==
  \A c \in Conn : framed[c] =>
    /\ \A n \in 1..Len(out[c]) : /\ out[c][n].id \in 1..Dealt(c)
                                 /\ n > 1 => out[c][n - 1].id <= out[c][n].id
    /\ \A i \in 1..Dealt(c) :
         IF Answerable(sent[c][i]) THEN AnsweredOnce(sent[c][i], out[c], ResultsOf(out[c], i))
         ELSE ResultsOf(out[c], i) = {}

\* The places of a notification that has come to a client: among the data that
\* waits for it, or in a result.
Reached(data, results, note) ==
  {<<"held", 0, i>> : i \in {i \in 1..Len(data) : data[i] = note}}
  \cup UNION {{<<"sent", n, i>> : i \in {i \in 1..Len(results[n].body) : results[n].body[i] = note}} :
                n \in {n \in 1..Len(results) : results[n].code = "emitEvent"}}

\* Those of one that is on its way.
Underway(calls, note) == {<<j.pc, 0, 0>> : j \in {j \in calls : j.note = note}}

\* A notification is in one place, or has not come to a client that is not its own.
Once(own, reached, underway) ==
  IF own THEN \E p \in reached \cup underway : reached \cup underway = {p} ELSE reached = {}

\* Every event of a subscription reaches the client that has made it, once,
\* and no other client: it is queued, collected or sent.
ExactlyOnce ==
  \A e \in live : \A k \in 1..emits[e] : \A c \in Conn :
    Once(mEvents[e] = c, Reached(mSendData[c], out[c], <<e, k>>), Underway(jobs, <<e, k>>))

\* Whoever holds the manager's mutex waits for a callback that waits for it.
CallbackDeadlock ==
  mEventsMutex # Null /\ \E j \in jobs : j.pc = "called" /\ j.note[1] = target

\* Who destroys a subscription has its lock and waits for the table, whose holder
\* waits for that lock.
TableDeadlock == table = target /\ target \in InTable

Deadlock == CallbackDeadlock \/ TableDeadlock

\* A command that was begun comes to its end, and so does a connection that is
\* closed, unless the server stands still in one of two ways: a subscription is
\* destroyed under a callback of its own, or while an event that it waits for, or
\* the deletion of its element, has the table and has not come to it yet.
BusyEnds ==
  \A c \in Conn :
    thread[c] \in {"args", "run", "destroy", "close", "closing"}
      ~> thread[c] \in {"wait", "gone"} \/ Deadlock \/ ~Running
=============================================================================
