----------------------------- MODULE SctpProofs -----------------------------
(***************************************************************************)
(* Proofs about the SCTP server.                                           *)
(*                                                                         *)
(* NoDanglingCommand is inductive once TypeOK says enough (Shape).         *)
(* InOrder is not: the results are in order because the pieces of a socket *)
(* that is in frame are exactly the pieces between the one that the server *)
(* expects and the one that the client is about to send (Fed), and because *)
(* the command of every piece is the one that was sent under its id        *)
(* (Numbered).                                                             *)
(*                                                                         *)
(* ExactlyOnce needs that a notification of an event that has not happened *)
(* yet is nowhere (Fresh), and that a subscription that has a callback has *)
(* an owner (Owners).                                                      *)
(***************************************************************************)
EXTENDS Sctp, TLAPS

\* What may follow the header of a result, and results.
Bodies == {<<>>, <<"data">>} \cup {<<e>> : e \in EventId \cup {Null}} \cup Seq(Note)

Answers ==
  [code : PlainCodes \cup EventCodes, id : Nat, res : {"ok", "fail"}, body : Bodies]

\* What TypeOK leaves out: the variables are functions of connections, results
\* are results, a thread that has read a command has one (with a result, if it is a
\* destroyEvent that was begun), and ids are new.
Shape ==
  /\ DOMAIN sent = Conn /\ DOMAIN late = Conn /\ DOMAIN input = Conn
  /\ DOMAIN cmd = Conn /\ DOMAIN out = Conn
  /\ \A c \in Conn : out[c] \in Seq(Answers)
  /\ \A c \in Conn : thread[c] \in {"args", "run", "destroy"} => cmd[c] \in Command(c)
  /\ \A c \in Conn : thread[c] = "destroy" => Answerable(cmd[c])
  /\ \A e \in live \cup nulls : e <= mLastEventId

\* The piece that follows a piece: the arguments of the same command, or the
\* header of the next.
Following(p) ==
  IF p.k = "header" /\ p.cmd.code \notin NoArgs THEN <<"arguments", p.cmd.id>>
  ELSE <<"header", p.cmd.id + 1>>

\* The piece that the server will read next, and that the client will send next.
Expected(c) ==
  IF cmd[c] = Null THEN <<"header", 1>>
  ELSE IF thread[c] = "args" /\ cmd[c].code \notin NoArgs THEN <<"arguments", cmd[c].id>>
  ELSE <<"header", cmd[c].id + 1>>

Pending(c) ==
  IF late[c] # Null THEN <<"arguments", late[c].id>> ELSE <<"header", Len(sent[c]) + 1>>

\* Command m is one of those in q, at the place of its id.
Known(q, m) == m.id \in 1..Len(q) /\ m = q[m.id]

\* Commands are numbered as they are sent; the others refer to them.
Numbered(c) ==
  /\ \A i \in 1..Len(sent[c]) : sent[c][i].id = i
  /\ late[c] # Null => late[c].id = Len(sent[c]) /\ Known(sent[c], late[c]) /\ late[c].code \notin NoArgs
  /\ cmd[c] # Null => Known(sent[c], cmd[c])

\* The pieces in the socket are those between the two, in order.
Fed(c) ==
  /\ \A n \in 1..Len(input[c]) :
       /\ Known(sent[c], input[c][n].cmd)
       /\ <<input[c][n].k, input[c][n].cmd.id>>
            = IF n = 1 THEN Expected(c) ELSE Following(input[c][n - 1])
  /\ Pending(c) = IF input[c] = <<>> THEN Expected(c) ELSE Following(input[c][Len(input[c])])

\* What InOrder says of one connection.
Answered(c) ==
  /\ \A n \in 1..Len(out[c]) : /\ out[c][n].id \in 1..Dealt(c)
                               /\ n > 1 => out[c][n - 1].id <= out[c][n].id
  /\ \A i \in 1..Dealt(c) :
       IF Answerable(sent[c][i]) THEN AnsweredOnce(sent[c][i], out[c], ResultsOf(out[c], i))
       ELSE ResultsOf(out[c], i) = {}

Ordered(c) == framed[c] => Numbered(c) /\ Fed(c) /\ Answered(c)

OrderInv == \A c \in Conn : Ordered(c)

IInv == NoDanglingCommand /\ Shape /\ OrderInv
-----------------------------------------------------------------------------
\* Commands have ids up to the bound, and are not Null; requests become commands.
LEMMA CommandFacts ==
  ASSUME NEW c \in Conn
  PROVE  /\ \A m \in Command(c) : m.id \in Nat /\ m.id <= MaxCmds[c] /\ m.event \in EventId
                                    /\ m.valid \in BOOLEAN /\ m # Null
         /\ \A q \in Request : \A id \in 0..MaxCmds[c] :
              /\ WithId(q, id) \in Command(c)
              /\ WithId(q, id).id = id /\ WithId(q, id).code = q.code /\ WithId(q, id).full = q.full
<1>1. MaxCmds[c] \in Nat /\ Null \notin Command(c)
  BY SctpAssumption
<1>2. ASSUME NEW q \in Request, NEW id \in 0..MaxCmds[c]
      PROVE  /\ WithId(q, id) \in Command(c)
             /\ WithId(q, id).id = id /\ WithId(q, id).code = q.code /\ WithId(q, id).full = q.full
  BY DEF Command, WithId, Request
<1>3. ASSUME NEW m \in Command(c)
      PROVE  m.id \in Nat /\ m.id <= MaxCmds[c] /\ m.event \in EventId /\ m.valid \in BOOLEAN /\ m # Null
  <2>1. m.id \in 0..MaxCmds[c] /\ m.event \in EventId /\ m.valid \in BOOLEAN
    BY DEF Command
  <2> QED BY <1>1, <2>1
<1> QED BY <1>2, <1>3

\* What the assumption says of the bounds.
LEMMA BoundFacts == MaxEvents \in Nat /\ MaxEmits \in Nat /\ Null \notin Conn
BY SctpAssumption

\* Only what belongs to connection c changes.
OnlyOf(c) == \A d \in Conn \ {c} :
  /\ sent'[d] = sent[d] /\ late'[d] = late[d] /\ input'[d] = input[d]
  /\ framed'[d] = framed[d] /\ thread'[d] = thread[d] /\ cmd'[d] = cmd[d] /\ out'[d] = out[d]

\* The functions of connections stay such.
SameDomains ==
  /\ DOMAIN sent' = Conn /\ DOMAIN late' = Conn /\ DOMAIN input' = Conn
  /\ DOMAIN cmd' = Conn /\ DOMAIN out' = Conn

\* The types of one connection.
Typed(c) ==
  /\ sent[c] \in Seq(Command(c)) /\ input[c] \in Seq(Piece(c))
  /\ late[c] \in Command(c) \cup {Null} /\ cmd[c] \in Command(c) \cup {Null}
  /\ out[c] \in Seq(Answers)
  /\ thread[c] \in {"args", "run", "destroy"} => cmd[c] \in Command(c)
  /\ thread[c] = "destroy" => Answerable(cmd[c])

\* What a client sends and what the server reads keeps the types.
LEMMA ClientTyped ==
  ASSUME TypeOK, Shape, NEW c \in Conn,
         \/ Accept(c) \/ Ask(c) \/ SendArgs(c) \/ ReadHeader(c) \/ ReadArgs(c) \/ ArgsTimeout(c)
         \/ TooShort(c) \/ Disconnect(c)
  PROVE  TypeOK' /\ Shape' /\ OnlyOf(c) /\ UNCHANGED <<manager, notes, server, out>>
<1> USE DEF TypeOK, Shape
<1>1. UNCHANGED <<manager, notes, server, out>>
  BY DEF Accept, Ask, SendArgs, ReadHeader, ReadArgs, ArgsTimeout, TooShort, Disconnect
<1>2. SameDomains /\ OnlyOf(c) /\ thread' \in [Conn -> Threads] /\ framed' \in [Conn -> BOOLEAN]
  <2>1. CASE Accept(c)
    BY <2>1 DEF Accept, SameDomains, OnlyOf, Threads
  <2>2. CASE Ask(c)
    BY <2>2 DEF Ask, SameDomains, OnlyOf
  <2>3. CASE SendArgs(c)
    BY <2>3 DEF SendArgs, SameDomains, OnlyOf
  <2>4. CASE ReadHeader(c)
    BY <2>4 DEF ReadHeader, SameDomains, OnlyOf, Threads
  <2>5. CASE ReadArgs(c)
    BY <2>5 DEF ReadArgs, SameDomains, OnlyOf, Threads
  <2>6. CASE ArgsTimeout(c)
    BY <2>6 DEF ArgsTimeout, SameDomains, OnlyOf, Threads
  <2>7. CASE TooShort(c)
    BY <2>7 DEF TooShort, SameDomains, OnlyOf, Threads
  <2>8. CASE Disconnect(c)
    BY <2>8 DEF Disconnect, SameDomains, OnlyOf, Threads
  <2> QED BY <2>1, <2>2, <2>3, <2>4, <2>5, <2>6, <2>7, <2>8
<1>3. \A d \in Conn : Typed(d)
  BY DEF Typed
<1>4. Typed(c)'
  <2>1. CASE Accept(c)
    BY <1>3, <2>1 DEF Accept, Typed
  <2>2. CASE Ask(c)
    <3>1. PICK q \in Sends[c] : LET m == WithId(q, Len(sent[c]) + 1) IN
            /\ sent' = [sent EXCEPT ![c] = Append(@, m)]
            /\ input' = [input EXCEPT ![c] = Append(@, [k |-> "header", cmd |-> m])]
            /\ late' = [late EXCEPT ![c] = IF m.code \in NoArgs THEN Null ELSE m]
      BY <2>2 DEF Ask
    <3> DEFINE m == WithId(q, Len(sent[c]) + 1)
    <3>2. m \in Command(c)
      <4>1. q \in Request /\ MaxCmds[c] \in Nat
        BY SctpAssumption
      <4>2. Len(sent[c]) + 1 \in 0..MaxCmds[c]
        BY <1>3, <2>2, <4>1 DEF Ask, Typed
      <4> QED BY <4>1, <4>2, CommandFacts
    <3>3. [k |-> "header", cmd |-> m] \in Piece(c)
      BY <3>2 DEF Piece
    <3>4. /\ sent'[c] = Append(sent[c], m)
          /\ input'[c] = Append(input[c], [k |-> "header", cmd |-> m])
          /\ late'[c] \in {Null, m} /\ cmd' = cmd /\ out' = out /\ thread' = thread
      BY <2>2, <3>1 DEF Ask
    <3> HIDE DEF m
    <3> QED BY <1>3, <3>2, <3>3, <3>4 DEF Typed
  <2>3. CASE SendArgs(c)
    <3>1. [k |-> "arguments", cmd |-> late[c]] \in Piece(c)
      BY <1>3, <2>3 DEF Piece, SendArgs, Typed
    <3>2. /\ input'[c] = Append(input[c], [k |-> "arguments", cmd |-> late[c]])
          /\ late'[c] = Null /\ cmd' = cmd /\ out' = out /\ thread' = thread /\ sent' = sent
      BY <2>3 DEF SendArgs
    <3> QED BY <1>3, <3>1, <3>2 DEF Typed
  <2>4. CASE ReadHeader(c)
    <3>1. input[c] # <<>> /\ Head(input[c]) \in Piece(c) /\ Tail(input[c]) \in Seq(Piece(c))
      BY <1>3, <2>4 DEF ReadHeader, Typed
    <3>2. Head(input[c]).cmd \in Command(c)
      BY <3>1 DEF Piece
    <3>3. \A q \in Garbage : WithId(q, 0) \in Command(c)
      BY SctpAssumption, CommandFacts
    <3>4. cmd'[c] \in Command(c)
      BY <2>4, <3>2, <3>3 DEF ReadHeader
    <3> QED BY <1>3, <2>4, <3>1, <3>4 DEF ReadHeader, Typed
  <2>5. CASE ReadArgs(c)
    <3>1. input'[c] = input[c] \/ (input[c] # <<>> /\ input'[c] = Tail(input[c]))
      BY <2>5 DEF ReadArgs
    <3>2. input[c] # <<>> => Tail(input[c]) \in Seq(Piece(c))
      BY <1>3 DEF Typed
    <3>3. input'[c] \in Seq(Piece(c))
      BY <1>3, <3>1, <3>2 DEF Typed
    <3> QED BY <1>3, <2>5, <3>3 DEF ReadArgs, Typed
  <2>6. CASE ArgsTimeout(c)
    BY <1>3, <2>6 DEF ArgsTimeout, Typed
  <2>7. CASE TooShort(c)
    BY <1>3, <2>7 DEF TooShort, Typed
  <2>8. CASE Disconnect(c)
    BY <1>3, <2>8 DEF Disconnect, Typed
  <2> QED BY <2>1, <2>2, <2>3, <2>4, <2>5, <2>6, <2>7, <2>8
<1>5. \A d \in Conn : Typed(d)'
  BY <1>2, <1>3, <1>4 DEF OnlyOf, Typed
<1>6. Shape' /\ TypeOK'
  BY <1>1, <1>2, <1>5 DEF SameDomains, Typed, manager, notes
<1> QED BY <1>1, <1>2, <1>6

\* The results of an answerable command: one, or those of an iterate without an
\* iterator.
Reply(code, s) ==
  \/ Len(s) = 1
  \/ code = "iterate" /\ Len(s) = 2 /\ s[1].res = "fail" /\ s[2].res = "ok"

\* The results of a command are about that command, and are a reply unless the
\* code or the type of iterator is unknown, when there are none.
LEMMA ProcessFacts ==
  ASSUME NEW code \in PlainCodes, NEW id \in Nat, NEW valid \in BOOLEAN, NEW r \in {"ok", "fail"}
  PROVE  /\ processCommand(code, id, valid, r) \in Seq(Answers)
         /\ \A n \in 1..Len(processCommand(code, id, valid, r)) :
              /\ processCommand(code, id, valid, r)[n].id = id
              /\ processCommand(code, id, valid, r)[n].code \in PlainCodes
         /\ IF code # "unknown" /\ (code = "iterate" => valid)
            THEN Reply(code, processCommand(code, id, valid, r))
            ELSE Len(processCommand(code, id, valid, r)) = 0
<1> DEFINE About(s) == /\ s \in Seq(Answers)
                       /\ \A n \in 1..Len(s) : s[n].id = id /\ s[n].code \in PlainCodes
           Good(s) == About(s) /\ Len(s) = 1
<1>1. ASSUME NEW k \in PlainCodes, NEW v \in {"ok", "fail"}, NEW b \in {<<>>, <<"data">>}
      PROVE  /\ Header(k, id, v, b) \in Answers /\ Header(k, id, v, b).id = id
             /\ Header(k, id, v, b).code = k /\ Header(k, id, v, b).res = v
  <2>1. b \in Bodies
    BY DEF Bodies
  <2> QED BY <2>1 DEF Header, Answers
<1>2. ASSUME NEW k \in PlainCodes, NEW v \in {"ok", "fail"}, NEW b \in {<<>>, <<"data">>}
      PROVE  Good(<<Header(k, id, v, b)>>)
  BY <1>1
<1>3. /\ Data(r) \in {<<>>, <<"data">>} /\ <<>> \in {<<>>, <<"data">>}
      /\ <<"data">> \in {<<>>, <<"data">>}
      /\ {"check", "type", "erase", "createNode", "createLink", "createArc", "arc", "content",
          "findLinks", "setContent", "iterate", "construct", "generate", "findIdtf", "setIdtf",
          "statistics"} \subseteq PlainCodes
  BY DEF Data, PlainCodes
<1>4. ASSUME NEW s, s = <<>> PROVE About(s) /\ Len(s) = 0
  BY <1>4
<1>5. About(processIterateElements(id, valid, r))
      /\ IF valid THEN Reply("iterate", processIterateElements(id, valid, r))
         ELSE Len(processIterateElements(id, valid, r)) = 0
  <2> DEFINE h == Header("iterate", id, "ok", <<"data">>)
             f == Header("iterate", id, "fail", <<>>)
  <2>1. /\ h \in Answers /\ h.id = id /\ f \in Answers /\ f.id = id
        /\ h.code \in PlainCodes /\ f.code \in PlainCodes /\ h.res = "ok" /\ f.res = "fail"
    BY <1>1, <1>3
  <2>2. processIterateElements(id, valid, r) = IF ~valid THEN <<>> ELSE IF r = "ok" THEN <<h>> ELSE <<f, h>>
    BY DEF processIterateElements
  <2> HIDE DEF h, f
  <2>3. CASE ~valid
    <3>1. processIterateElements(id, valid, r) = <<>>
      BY <2>2, <2>3
    <3> HIDE DEF processIterateElements
    <3> QED BY <1>4, <2>3, <3>1
  <2>4. CASE valid /\ r = "ok"
    <3>1. processIterateElements(id, valid, r) = <<h>>
      BY <2>2, <2>4
    <3>2. About(<<h>>) /\ Len(<<h>>) = 1
      BY <2>1
    <3> HIDE DEF processIterateElements, About
    <3> QED BY <2>4, <3>1, <3>2 DEF Reply
  <2>5. CASE valid /\ r # "ok"
    <3>1. processIterateElements(id, valid, r) = <<f, h>>
      BY <2>2, <2>5
    <3>2. About(<<f, h>>) /\ Len(<<f, h>>) = 2 /\ <<f, h>>[1] = f /\ <<f, h>>[2] = h
      BY <2>1
    <3> HIDE DEF processIterateElements, About
    <3> QED BY <2>1, <2>5, <3>1, <3>2 DEF Reply
  <2> QED BY <2>3, <2>4, <2>5
<1> HIDE DEF About
<1>6. /\ Good(processCheckElement(id, r)) /\ Good(processGetElementType(id, r))
      /\ Good(processElementErase(id, r)) /\ Good(processCreateNode(id, r))
      /\ Good(processCreateLink(id, r)) /\ Good(processCreateArc(id, r))
      /\ Good(processGetArc(id, r)) /\ Good(processGetLinkContent(id, r))
      /\ Good(processFindLinks(id, r)) /\ Good(processSetLinkContent(id, r))
      /\ Good(processIterateConstruction(id, r)) /\ Good(processGenerateConstruction(id, r))
      /\ Good(processFindElementBySysIdtf(id, r)) /\ Good(processSetSysIdtf(id, r))
      /\ Good(processStatistics(id, r))
  <2> HIDE DEF Good
  <2> QED BY <1>2, <1>3 DEF
     processCheckElement, processGetElementType, processElementErase, processCreateNode,
     processCreateLink, processCreateArc, processGetArc, processGetLinkContent,
     processFindLinks, processSetLinkContent, processIterateConstruction,
     processGenerateConstruction, processFindElementBySysIdtf, processSetSysIdtf,
     processStatistics
<1>7. CASE code \notin {"unknown", "iterate"}
  <2>1. Good(processCommand(code, id, valid, r))
    <3> HIDE DEF Good
    <3> QED BY <1>6, <1>7 DEF processCommand, PlainCodes
  <2> QED BY <1>7, <2>1 DEF About, Reply
<1>8. CASE code = "unknown"
  <2>1. processCommand(code, id, valid, r) = <<>>
    BY <1>8 DEF processCommand
  <2> QED BY <1>4, <1>8, <2>1 DEF About
<1>9. CASE code = "iterate"
  <2>1. processCommand(code, id, valid, r) = processIterateElements(id, valid, r)
    BY <1>9 DEF processCommand
  <2> QED BY <1>5, <1>9, <2>1 DEF About
<1> QED BY <1>7, <1>8, <1>9

\* Connection c answers the command that it has, with the results s.
Answering(c, s) ==
  /\ UNCHANGED <<sent, late, input, framed, cmd>>
  /\ thread[c] \in {"run", "destroy"} /\ thread'[c] = "wait"
  /\ out'[c] = out[c] \o s
  /\ s \in Seq(Answers) /\ \A n \in 1..Len(s) : s[n].id = cmd[c].id
  /\ IF Answerable(cmd[c]) THEN Reply(cmd[c].code, s) ELSE Len(s) = 0

\* It goes on without having dealt with more, or less, of its commands.
Busy == {"run", "destroy"}
Resting == {"none", "wait", "close", "closing", "gone"}

Silent(c) ==
  /\ UNCHANGED <<sent, late, input, framed, cmd, out>>
  /\ \/ thread'[c] = thread[c]
     \/ {thread[c], thread'[c]} \subseteq Busy
     \/ {thread[c], thread'[c]} \subseteq Resting

\* A single result is an answer to the command at hand.
LEMMA OneAnswer ==
  ASSUME TypeOK, Shape, NEW c \in Conn, thread[c] \in Busy, Answerable(cmd[c]),
         thread' = [thread EXCEPT ![c] = "wait"],
         NEW code \in PlainCodes \cup EventCodes, NEW r \in {"ok", "fail"}, NEW b \in Bodies,
         Write(c, <<Header(code, cmd[c].id, r, b)>>),
         UNCHANGED <<sent, late, input, framed, cmd>>
  PROVE  Answering(c, <<Header(code, cmd[c].id, r, b)>>)
<1>1. cmd[c] \in Command(c) /\ cmd[c].id \in Nat
  BY CommandFacts DEF Shape, Busy
<1> DEFINE h == Header(code, cmd[c].id, r, b)
<1>2. h \in Answers /\ h.id = cmd[c].id
  BY <1>1 DEF Header, Answers
<1>3. out' = [out EXCEPT ![c] = out[c] \o <<h>>]
  BY DEF Write
<1> HIDE DEF h
<1>4. <<h>> \in Seq(Answers) /\ Len(<<h>>) = 1 /\ <<h>>[1] = h
  BY <1>2
<1>5. Answering(c, <<h>>)
  BY <1>2, <1>3, <1>4 DEF Answering, Busy, Shape, TypeOK, Reply
<1> QED BY <1>5 DEF h

\* The state of the connections after an answer, or without one.
LEMMA AnsweringTyped ==
  ASSUME TypeOK, Shape, NEW c \in Conn,
         thread' \in [Conn -> Threads], \A d \in Conn \ {c} : thread'[d] = thread[d],
         \/ Silent(c)
         \/ /\ \E s : Answering(c, s)
            /\ DOMAIN out' = Conn /\ \A d \in Conn \ {c} : out'[d] = out[d],
         thread[c] \in Resting => thread'[c] \in Resting,
         thread'[c] = "destroy" => Answerable(cmd[c])
  PROVE  /\ SameDomains /\ OnlyOf(c) /\ \A d \in Conn : Typed(d)'
         /\ framed' \in [Conn -> BOOLEAN]
<1>1. \A d \in Conn : Typed(d)
  BY DEF Typed, TypeOK, Shape
<1>2. UNCHANGED <<sent, late, input, framed, cmd>>
  BY DEF Silent, Answering
<1>3. SameDomains /\ OnlyOf(c) /\ framed' \in [Conn -> BOOLEAN]
  BY <1>2 DEF SameDomains, OnlyOf, Silent, Shape, TypeOK
<1>4. out'[c] \in Seq(Answers)
  <2>1. CASE Silent(c)
    BY <1>1, <2>1 DEF Silent, Typed
  <2>2. ASSUME NEW s, Answering(c, s) PROVE out'[c] \in Seq(Answers)
    BY <1>1, <2>2 DEF Answering, Typed
  <2> QED BY <2>1, <2>2
<1>5. thread'[c] \in {"args", "run", "destroy"} => cmd[c] \in Command(c)
  <2>1. CASE Silent(c)
    BY <1>1, <2>1 DEF Silent, Typed, Busy, Resting
  <2>2. ASSUME NEW s, Answering(c, s) PROVE thread'[c] = "wait"
    BY <2>2 DEF Answering
  <2> QED BY <2>1, <2>2
<1>6. Typed(c)'
  BY <1>1, <1>2, <1>4, <1>5 DEF Typed
<1>7. \A d \in Conn \ {c} : Typed(d)'
  BY <1>1, <1>3 DEF OnlyOf, Typed
<1> QED BY <1>3, <1>6, <1>7

\* What TypeOK and Shape say of the manager, the notifications and the server.
RestTyped ==
  /\ mEvents \in [EventId -> Conn \cup {Null}]
  /\ nulls \subseteq EventId /\ live \subseteq EventId \ nulls /\ doomed \subseteq EventId
  /\ table \in EventId \cup {Null}
  /\ mLastEventId \in 0..MaxEvents
  /\ mEventsMutex \in Conn \cup {"server", Null}
  /\ target \in EventId \cup {Null}
  /\ mEventsSet \in [Conn -> SUBSET EventId]
  /\ mSendData \in [Conn -> Seq(Note)]
  /\ emits \in [EventId -> 0..MaxEmits]
  /\ jobs \subseteq [note : Note, pc : {"queued", "called"}]
  /\ server \in {"up", "stopping", "stopped", "exited", "crashed"}
  /\ \A e \in live \cup nulls : e <= mLastEventId

\* The types of the whole state, from those of its parts.
LEMMA TypedParts ==
  ASSUME SameDomains, \A d \in Conn : Typed(d)', framed' \in [Conn -> BOOLEAN],
         thread' \in [Conn -> Threads], RestTyped'
  PROVE  TypeOK' /\ Shape'
BY DEF TypeOK, Shape, SameDomains, Typed, RestTyped

\* The commands on the memory keep the types, and are answered.
LEMMA ProcessTyped ==
  ASSUME TypeOK, Shape, NEW c \in Conn, Process(c)
  PROVE  /\ TypeOK' /\ Shape' /\ OnlyOf(c) /\ \E s : Answering(c, s)
         /\ UNCHANGED <<manager, notes, server>> /\ Running /\ thread[c] = "run" /\ thread'[c] = "wait"
<1>1. /\ Running /\ thread[c] = "run" /\ cmd[c].code \in PlainCodes
      /\ Enough(cmd[c])
      /\ UNCHANGED <<sent, late, input, framed, cmd, manager, notes, server>>
      /\ thread' = [thread EXCEPT ![c] = "wait"]
  BY DEF Process, Runs
<1>2. PICK r \in {"ok", "fail"} : Write(c, processCommand(cmd[c].code, cmd[c].id, cmd[c].valid, r))
  BY DEF Process
<1> DEFINE s == processCommand(cmd[c].code, cmd[c].id, cmd[c].valid, r)
<1>3. cmd[c].id \in Nat /\ cmd[c].valid \in BOOLEAN
  BY <1>1, CommandFacts DEF Shape
<1>4. /\ s \in Seq(Answers) /\ \A n \in 1..Len(s) : s[n].id = cmd[c].id
      /\ IF cmd[c].code # "unknown" /\ (cmd[c].code = "iterate" => cmd[c].valid)
         THEN Reply(cmd[c].code, s) ELSE Len(s) = 0
  <2>1. PICK k \in PlainCodes : k = cmd[c].code
    BY <1>1
  <2>2. PICK i \in Nat : i = cmd[c].id
    BY <1>3
  <2>3. PICK v \in BOOLEAN : v = cmd[c].valid
    BY <1>3
  <2>4. PICK t : t = processCommand(k, i, v, r)
    OBVIOUS
  <2>5. /\ t \in Seq(Answers) /\ \A n \in 1..Len(t) : t[n].id = i
        /\ IF k # "unknown" /\ (k = "iterate" => v) THEN Reply(k, t) ELSE Len(t) = 0
    BY <2>4, ProcessFacts
  <2>6. t = s
    BY <2>1, <2>2, <2>3, <2>4
  <2> HIDE DEF s
  <2> QED BY <2>1, <2>2, <2>3, <2>5, <2>6
<1>5. out' = [out EXCEPT ![c] = out[c] \o s]
  BY <1>2 DEF Write
<1> HIDE DEF s
<1>6. /\ thread'[c] = "wait" /\ thread' \in [Conn -> Threads]
      /\ \A d \in Conn \ {c} : thread'[d] = thread[d] /\ out'[d] = out[d]
      /\ DOMAIN out' = Conn /\ out'[c] = out[c] \o s
  BY <1>1, <1>5 DEF TypeOK, Shape, Threads
<1>7. Answering(c, s)
  BY <1>1, <1>4, <1>6 DEF Answering, Answerable
<1>8. RestTyped'
  BY <1>1 DEF RestTyped, TypeOK, Shape, manager, notes
<1> QED BY <1>1, <1>6, <1>7, <1>8, AnsweringTyped, TypedParts DEF Resting

\* So does processCreateEvent while there is a manager; the connection records
\* the subscription.
LEMMA CreateEventTyped ==
  ASSUME TypeOK, Shape, NEW c \in Conn, processCreateEvent(c), server # "stopped"
  PROVE  /\ TypeOK' /\ Shape' /\ OnlyOf(c) /\ \E s : Answering(c, s)
         /\ Running /\ thread[c] = "run" /\ thread'[c] = "wait"
         /\ UNCHANGED <<notes, server>>
         /\ mEvents' = [mEvents EXCEPT ![mLastEventId + 1] = c]
         /\ mEventsSet' = [mEventsSet EXCEPT ![c] = @ \cup {mLastEventId + 1}]
         /\ mLastEventId + 1 \in EventId
<1> DEFINE e == mLastEventId + 1
<1>1. /\ Running /\ thread[c] = "run" /\ mLastEventId < MaxEvents /\ Answerable(cmd[c])
      /\ UNCHANGED <<sent, late, input, framed, cmd, doomed, table, mEventsMutex, target, notes,
                     server>>
      /\ thread' = [thread EXCEPT ![c] = "wait"]
      /\ createEvent(c, e) /\ mEventsSet' = Recorded(c, e)
      /\ Write(c, <<Header("createEvent", cmd[c].id, "ok", <<e>>)>>)
  BY DEF processCreateEvent, Runs, NoManager, NextId, Answerable
<1>2. mLastEventId \in Nat /\ e \in EventId /\ e \notin live \cup nulls /\ e <= MaxEvents
  BY <1>1, BoundFacts DEF TypeOK, Shape, EventId
<1> HIDE DEF e
<1>3. /\ mEvents' = [mEvents EXCEPT ![e] = c] /\ mLastEventId' = e
      /\ mEventsSet' = [mEventsSet EXCEPT ![c] = @ \cup {e}]
      /\ \/ live' = live \cup {e} /\ nulls' = nulls
         \/ nulls' = nulls \cup {e} /\ live' = live
  BY <1>1 DEF createEvent, Recorded
<1>4. e \in 0..MaxEvents /\ \A f \in live \cup nulls : f <= e
  BY <1>2, BoundFacts DEF Shape, TypeOK, e, EventId
<1>5. /\ mEvents' \in [EventId -> Conn \cup {Null}] /\ mLastEventId' \in 0..MaxEvents
      /\ mEventsSet' \in [Conn -> SUBSET EventId]
  BY <1>2, <1>3, <1>4 DEF TypeOK
<1>6. /\ nulls' \subseteq EventId /\ live' \subseteq EventId \ nulls'
      /\ \A f \in live' \cup nulls' : f <= mLastEventId'
  <2>1. e <= e /\ live \subseteq EventId \ nulls /\ nulls \subseteq EventId
    BY <1>4 DEF TypeOK
  <2>2. CASE live' = live \cup {e} /\ nulls' = nulls
    BY <1>2, <1>3, <1>4, <2>1, <2>2
  <2>3. CASE nulls' = nulls \cup {e} /\ live' = live
    BY <1>2, <1>3, <1>4, <2>1, <2>3
  <2> QED BY <1>3, <2>2, <2>3
<1>7. RestTyped'
  BY <1>1, <1>5, <1>6 DEF RestTyped, TypeOK, notes
<1>8. <<e>> \in Bodies
  BY <1>2 DEF Bodies
<1>9. Answering(c, <<Header("createEvent", cmd[c].id, "ok", <<e>>)>>)
  BY <1>1, <1>8, OneAnswer DEF Busy, EventCodes
<1>10. /\ thread'[c] = "wait" /\ thread' \in [Conn -> Threads]
       /\ \A d \in Conn \ {c} : thread'[d] = thread[d] /\ out'[d] = out[d]
       /\ DOMAIN out' = Conn
  BY <1>1 DEF TypeOK, Shape, Threads, Write
<1> QED BY <1>1, <1>2, <1>3, <1>7, <1>9, <1>10, AnsweringTyped, TypedParts DEF Resting, e

\* The call of a manager that is gone, or of sc_event_destroy with null.
Crash == UNCHANGED <<conns, manager, notes>> /\ server' = "crashed"

\* A crash changes nothing else.
LEMMA CrashTyped ==
  ASSUME TypeOK, Shape, NEW c \in Conn, Crash
  PROVE  TypeOK' /\ Shape' /\ OnlyOf(c) /\ Silent(c)
<1>1. UNCHANGED <<sent, late, input, framed, thread, cmd, out>>
  BY DEF Crash, conns
<1>2. RestTyped'
  BY DEF RestTyped, TypeOK, Shape, Crash, manager, notes
<1>3. /\ Silent(c) /\ thread' \in [Conn -> Threads]
      /\ thread'[c] = "destroy" => Answerable(cmd[c])
  BY <1>1 DEF Silent, TypeOK, Shape
<1> QED BY <1>1, <1>2, <1>3, AnsweringTyped, TypedParts

\* sc_event_destroy has begun.
Begun(c, e, next) ==
  /\ mEventsMutex' = c /\ target' = e
  /\ thread' = [thread EXCEPT ![c] = next]
  /\ UNCHANGED <<sent, late, input, framed, cmd, out, mEvents, nulls, live, doomed, table,
                 mLastEventId, mEventsSet, notes, server>>

\* The beginning of sc_event_destroy keeps the types, and is no answer.
LEMMA BegunTyped ==
  ASSUME TypeOK, Shape, NEW c \in Conn, NEW e \in EventId,
         \/ thread[c] = "run" /\ Answerable(cmd[c]) /\ Begun(c, e, "destroy")
         \/ thread[c] = "close" /\ Begun(c, e, "closing")
  PROVE  TypeOK' /\ Shape' /\ OnlyOf(c) /\ Silent(c)
<1>1. /\ mEventsMutex' = c /\ target' = e
      /\ UNCHANGED <<sent, late, input, framed, cmd, out, mEvents, nulls, live, doomed, table,
                     mLastEventId, mEventsSet, notes, server>>
  BY DEF Begun
<1>2. RestTyped'
  BY <1>1 DEF RestTyped, TypeOK, Shape, notes
<1>3. /\ thread' \in [Conn -> Threads] /\ \A d \in Conn \ {c} : thread'[d] = thread[d]
      /\ \/ thread[c] = "run" /\ thread'[c] = "destroy" /\ Answerable(cmd[c])
         \/ thread[c] = "close" /\ thread'[c] = "closing"
  BY DEF Begun, TypeOK, Threads
<1>4. /\ Silent(c) /\ (thread[c] \in Resting => thread'[c] \in Resting)
      /\ thread'[c] = "destroy" => Answerable(cmd[c])
  BY <1>1, <1>3 DEF Silent, Busy, Resting
<1> QED BY <1>2, <1>3, <1>4, AnsweringTyped, TypedParts

\* Its end keeps them; destroyEvent is answered, shutdown goes on.
LEMMA DestroyedTyped ==
  ASSUME TypeOK, Shape, NEW c \in Conn, Destroyed(c)
  PROVE  /\ TypeOK' /\ Shape' /\ OnlyOf(c) /\ (Silent(c) \/ \E s : Answering(c, s))
         /\ Running /\ UNCHANGED <<notes, server>> /\ thread'[c] # "gone"
<1>1. /\ Running /\ thread[c] \in {"destroy", "closing"}
      /\ mEvents' = [mEvents EXCEPT ![target] = Null]
      /\ mEventsMutex' = Null /\ target' = Null /\ live' = live \ {target}
      /\ UNCHANGED <<sent, late, input, framed, cmd, nulls, doomed, table, mLastEventId, notes,
                     server>>
  BY DEF Destroyed
<1>2. mEventsSet' \in [Conn -> SUBSET EventId]
  BY DEF Destroyed, TypeOK
<1>3. mEvents' \in [EventId -> Conn \cup {Null}]
  BY <1>1 DEF TypeOK
<1>4. RestTyped'
  BY <1>1, <1>2, <1>3 DEF RestTyped, TypeOK, Shape, notes
<1>5. CASE thread[c] = "destroy"
  <2>1. /\ Write(c, <<Header("destroyEvent", cmd[c].id, "ok", <<target>>)>>)
        /\ thread' = [thread EXCEPT ![c] = "wait"]
    BY <1>5 DEF Destroyed
  <2>2. <<target>> \in Bodies
    BY DEF Bodies, TypeOK
  <2>3. Answering(c, <<Header("destroyEvent", cmd[c].id, "ok", <<target>>)>>)
    <3>1. Answerable(cmd[c])
      BY <1>5 DEF Shape
    <3> QED BY <1>1, <1>5, <2>1, <2>2, <3>1, OneAnswer DEF Busy, EventCodes
  <2>4. /\ thread'[c] = "wait" /\ thread' \in [Conn -> Threads]
        /\ \A d \in Conn \ {c} : thread'[d] = thread[d] /\ out'[d] = out[d]
        /\ DOMAIN out' = Conn
    BY <2>1 DEF TypeOK, Shape, Threads, Write
  <2> QED BY <1>1, <1>4, <1>5, <2>3, <2>4, AnsweringTyped, TypedParts DEF Resting
<1>6. CASE thread[c] = "closing"
  <2>1. thread' = [thread EXCEPT ![c] = "close"] /\ out' = out
    BY <1>6 DEF Destroyed
  <2>2. /\ thread'[c] = "close" /\ thread' \in [Conn -> Threads]
        /\ \A d \in Conn \ {c} : thread'[d] = thread[d]
    BY <2>1 DEF TypeOK, Threads
  <2>3. Silent(c)
    BY <1>1, <1>6, <2>1, <2>2 DEF Silent, Resting
  <2> QED BY <1>1, <1>4, <2>2, <2>3, AnsweringTyped, TypedParts DEF Resting
<1> QED BY <1>1, <1>5, <1>6

\* processEmitEvent keeps the types, and is answered.
LEMMA EmitEventTyped ==
  ASSUME TypeOK, Shape, NEW c \in Conn, processEmitEvent(c)
  PROVE  /\ TypeOK' /\ Shape' /\ OnlyOf(c) /\ \E s : Answering(c, s)
         /\ Running /\ UNCHANGED <<manager, server>> /\ thread'[c] # "gone"
<1>1. /\ Running /\ thread[c] = "run" /\ Answerable(cmd[c])
      /\ Write(c, <<Header("emitEvent", cmd[c].id, "ok", mSendData[c])>>)
      /\ mSendData' = [mSendData EXCEPT ![c] = <<>>]
      /\ thread' = [thread EXCEPT ![c] = "wait"]
      /\ UNCHANGED <<sent, late, input, framed, cmd, manager, emits, jobs, server>>
  BY DEF processEmitEvent, Runs, ClearedData, Answerable
<1>2. mSendData[c] \in Bodies
  BY DEF Bodies, TypeOK
<1>3. Answering(c, <<Header("emitEvent", cmd[c].id, "ok", mSendData[c])>>)
  BY <1>1, <1>2, OneAnswer DEF Busy, EventCodes
<1>4. mSendData' \in [Conn -> Seq(Note)]
  BY <1>1 DEF TypeOK
<1>5. RestTyped'
  BY <1>1, <1>4 DEF RestTyped, TypeOK, Shape, manager
<1>6. /\ thread'[c] = "wait" /\ thread' \in [Conn -> Threads]
      /\ \A d \in Conn \ {c} : thread'[d] = thread[d] /\ out'[d] = out[d]
      /\ DOMAIN out' = Conn
  BY <1>1 DEF TypeOK, Shape, Threads, Write
<1> QED BY <1>1, <1>3, <1>5, <1>6, AnsweringTyped, TypedParts DEF Resting

\* A subscription that is not there, or not any more.
LEMMA NoSuchEventTyped ==
  ASSUME TypeOK, Shape, NEW c \in Conn, thread[c] = "run", Answerable(cmd[c]),
         Write(c, <<Header("destroyEvent", cmd[c].id, "fail", <<>>)>>),
         thread' = [thread EXCEPT ![c] = "wait"],
         UNCHANGED <<sent, late, input, framed, cmd, manager, notes, server>>
  PROVE  TypeOK' /\ Shape' /\ OnlyOf(c) /\ \E s : Answering(c, s)
<1>1. <<>> \in Bodies
  BY DEF Bodies
<1>2. Answering(c, <<Header("destroyEvent", cmd[c].id, "fail", <<>>)>>)
  BY <1>1, OneAnswer DEF Busy, EventCodes
<1>3. RestTyped'
  BY DEF RestTyped, TypeOK, Shape, manager, notes
<1>4. /\ thread'[c] = "wait" /\ thread' \in [Conn -> Threads]
      /\ \A d \in Conn \ {c} : thread'[d] = thread[d] /\ out'[d] = out[d]
      /\ DOMAIN out' = Conn
  BY DEF TypeOK, Shape, Threads, Write
<1> QED BY <1>2, <1>3, <1>4, AnsweringTyped, TypedParts DEF Resting

\* The subscriptions of a connection change, or the connection is done.
LEMMA CloseTyped ==
  ASSUME TypeOK, Shape, NEW c \in Conn, thread[c] = "close",
         \/ /\ thread' = [thread EXCEPT ![c] = "gone"]
            /\ UNCHANGED mEventsSet
         \/ /\ thread' = thread
            /\ \E e \in EventId : mEventsSet' = [mEventsSet EXCEPT ![c] = @ \ {e}],
         UNCHANGED <<sent, late, input, framed, cmd, out, mEvents, nulls, live, doomed, table,
                     mLastEventId, mEventsMutex, target, notes, server>>
  PROVE  TypeOK' /\ Shape' /\ OnlyOf(c) /\ Silent(c)
<1>1. mEventsSet' \in [Conn -> SUBSET EventId]
  BY DEF TypeOK
<1>2. RestTyped'
  BY <1>1 DEF RestTyped, TypeOK, Shape, notes
<1>3. /\ thread'[c] \in {"gone", "close"} /\ thread' \in [Conn -> Threads]
      /\ \A d \in Conn \ {c} : thread'[d] = thread[d]
  BY DEF TypeOK, Threads
<1>4. Silent(c)
  BY <1>3 DEF Silent, Resting
<1> QED BY <1>2, <1>3, <1>4, AnsweringTyped, TypedParts DEF Resting

\* Steps that are not those of a connection.
LEMMA OtherTyped ==
  ASSUME TypeOK, Shape,
         \/ \E e \in EventId : EventOccurs(e)
         \/ Occurrence \/ Detach \/ CallBack
         \/ Stop \/ StopDestroys \/ Stopped \/ Exit
  PROVE  TypeOK' /\ Shape' /\ UNCHANGED conns
<1>1. UNCHANGED conns
  BY DEF EventOccurs, Occurrence, Emit, ElementDeleted, Detach, CallBack, TakeJob, EventsCallback,
     Stop, StopDestroys, Stopped, Exit
<1>2. RestTyped
  BY DEF RestTyped, TypeOK, Shape
<1>3. RestTyped'
  <2> USE DEF RestTyped
  <2>0. ASSUME NEW e \in EventId, EventOccurs(e) \/ ElementDeleted(e) PROVE RestTyped'
    BY <1>2, <2>0 DEF EventOccurs, ElementDeleted, notes
  <2>1. ASSUME NEW e \in EventId, Emit(e) PROVE RestTyped'
    <3>1. /\ UNCHANGED <<mEvents, nulls, live, doomed, mLastEventId, mEventsMutex, target,
                         mEventsSet, mSendData, server>> /\ table' = Null
          /\ emits[e] \in 0..MaxEmits /\ emits[e] < MaxEmits
          /\ emits' = [emits EXCEPT ![e] = @ + 1]
          /\ jobs' = jobs \cup {[note |-> <<e, emits[e] + 1>>, pc |-> "queued"]}
      BY <1>2, <2>1 DEF Emit
    <3>2. emits[e] + 1 \in 0..MaxEmits /\ emits[e] + 1 \in 1..MaxEmits
      BY <3>1, BoundFacts
    <3>3. emits' \in [EventId -> 0..MaxEmits]
      BY <1>2, <3>1, <3>2
    <3>4. [note |-> <<e, emits[e] + 1>>, pc |-> "queued"] \in [note : Note, pc : {"queued", "called"}]
      BY <3>2 DEF Note
    <3>5. jobs' \subseteq [note : Note, pc : {"queued", "called"}]
      BY <1>2, <3>1, <3>4
    <3> QED BY <1>2, <3>1, <3>3, <3>5
  <2>2. ASSUME NEW j \in jobs, TakeJob(j) PROVE RestTyped'
    <3>1. UNCHANGED <<manager, mSendData, emits, server>>
      BY <2>2 DEF TakeJob
    <3>2. j \in [note : Note, pc : {"queued", "called"}]
      BY <1>2
    <3>3. [j EXCEPT !.pc = "called"] \in [note : Note, pc : {"queued", "called"}]
      BY <3>2
    <3>4. jobs' \subseteq [note : Note, pc : {"queued", "called"}]
      BY <1>2, <2>2, <3>3 DEF TakeJob
    <3> QED BY <1>2, <3>1, <3>4 DEF manager
  <2>3. ASSUME NEW j \in jobs, EventsCallback(j) PROVE RestTyped'
    <3>1. /\ UNCHANGED <<manager, emits>> /\ server' \in {server, "crashed"}
          /\ jobs' \subseteq jobs /\ (mSendData' = mSendData \/ mSendData' = Notified(j.note[1], j.note))
      BY <2>3 DEF EventsCallback
    <3>2. j.note \in Note
      BY <1>2
    <3>3. \A c \in Conn : mSendData[c] \in Seq(Note) /\ Append(mSendData[c], j.note) \in Seq(Note)
      BY <1>2, <3>2
    <3>4. mSendData' \in [Conn -> Seq(Note)]
      BY <1>2, <3>1, <3>3 DEF Notified
    <3> QED BY <1>2, <3>1, <3>4 DEF manager
  <2>4. CASE Stop
    BY <1>2, <2>4 DEF Stop, notes
  <2>5. CASE StopDestroys
    <3>1. /\ UNCHANGED <<notes, nulls, doomed, table, mLastEventId, mEventsMutex, mEventsSet>>
          /\ server' \in {server, "crashed"} /\ live' \subseteq live
          /\ target' \in EventId \cup {Null}
          /\ mEvents' = mEvents \/ \E e \in EventId : mEvents' = [mEvents EXCEPT ![e] = Null]
      BY <1>2, <2>5 DEF StopDestroys, manager
    <3>2. mEvents' \in [EventId -> Conn \cup {Null}]
      BY <1>2, <3>1
    <3> QED BY <1>2, <3>1, <3>2 DEF notes
  <2>6. CASE Stopped
    BY <1>2, <2>6 DEF Stopped, notes
  <2>7. CASE Exit
    BY <1>2, <2>7 DEF Exit, notes, manager
  <2>8. CASE Detach
    BY <1>2, <2>8 DEF Detach, notes
  <2> QED BY <2>0, <2>1, <2>2, <2>3, <2>4, <2>5, <2>6, <2>7, <2>8 DEF CallBack, Occurrence
<1>4. (\A d \in Conn : Typed(d)') /\ SameDomains /\ framed' \in [Conn -> BOOLEAN]
      /\ thread' \in [Conn -> Threads]
  BY <1>1 DEF conns, Typed, SameDomains, TypeOK, Shape
<1> QED BY <1>1, <1>3, <1>4, TypedParts

-----------------------------------------------------------------------------
\* The order of results.

\* Nothing that the order is about has changed at d.
LEMMA OrderFrame ==
  ASSUME NEW d \in Conn, Ordered(d),
         sent'[d] = sent[d], late'[d] = late[d], input'[d] = input[d], framed'[d] = framed[d],
         thread'[d] = thread[d], cmd'[d] = cmd[d], out'[d] = out[d]
  PROVE  Ordered(d)'
<1>1. Dealt(d)' = Dealt(d) /\ Expected(d)' = Expected(d) /\ Pending(d)' = Pending(d)
  BY DEF Dealt, Expected, Pending
<1>2. \A m : Known(sent'[d], m) <=> Known(sent[d], m)
  BY DEF Known
<1>3. Numbered(d) => Numbered(d)'
  BY <1>2 DEF Numbered
<1>4. Fed(d) => Fed(d)'
  BY <1>1, <1>2 DEF Fed, Following
<1>5. Answered(d) => Answered(d)'
  BY <1>1 DEF Answered
<1> QED BY <1>3, <1>4, <1>5 DEF Ordered

\* A step that reads, writes and deals with nothing.
LEMMA SilentOrder ==
  ASSUME NEW c \in Conn, Ordered(c), Silent(c)
  PROVE  Ordered(c)'
<1>1. UNCHANGED <<sent, late, input, framed, cmd, out>>
  BY DEF Silent
<1>2. Dealt(c)' = Dealt(c) /\ Expected(c)' = Expected(c) /\ Pending(c)' = Pending(c)
  BY <1>1 DEF Dealt, Expected, Pending, Silent, Busy, Resting
<1>3. \A m : Known(sent'[c], m) <=> Known(sent[c], m)
  BY <1>1 DEF Known
<1>4. Numbered(c) => Numbered(c)'
  BY <1>1, <1>3 DEF Numbered
<1>5. Fed(c) => Fed(c)'
  BY <1>1, <1>2, <1>3 DEF Fed, Following
<1>6. Answered(c) => Answered(c)'
  BY <1>1, <1>2 DEF Answered
<1> QED BY <1>1, <1>4, <1>5, <1>6 DEF Ordered

\* Results of the command at hand, at the end of what was written.
LEMMA AnsweringOrder ==
  ASSUME TypeOK, Shape, NEW c \in Conn, Ordered(c), NEW s, Answering(c, s)
  PROVE  Ordered(c)'
<1>1. /\ UNCHANGED <<sent, late, input, framed, cmd>>
      /\ thread[c] \in {"run", "destroy"} /\ thread'[c] = "wait"
      /\ out'[c] = out[c] \o s
      /\ s \in Seq(Answers) /\ \A n \in 1..Len(s) : s[n].id = cmd[c].id
      /\ IF Answerable(cmd[c]) THEN Reply(cmd[c].code, s) ELSE Len(s) = 0
  BY DEF Answering
<1>2. cmd[c] \in Command(c) /\ cmd[c] # Null /\ cmd[c].id \in Nat /\ out[c] \in Seq(Answers)
  BY <1>1, CommandFacts DEF Shape
<1>3. Dealt(c) = cmd[c].id - 1 /\ Dealt(c)' = cmd[c].id
  BY <1>1, <1>2 DEF Dealt
<1>4. Expected(c)' = Expected(c) /\ Pending(c)' = Pending(c)
  BY <1>1 DEF Expected, Pending
<1>5. \A m : Known(sent'[c], m) <=> Known(sent[c], m)
  BY <1>1 DEF Known
<1>6. Numbered(c) => Numbered(c)'
  BY <1>1, <1>5 DEF Numbered
<1>7. Fed(c) => Fed(c)'
  BY <1>1, <1>4, <1>5 DEF Fed, Following
<1>8. ASSUME Numbered(c), Answered(c) PROVE Answered(c)'
  <2> DEFINE L == Len(out[c])
             o == out'[c]
  <2>1. L \in Nat /\ Len(s) \in Nat /\ Len(o) = L + Len(s)
    BY <1>1, <1>2
  <2>2. /\ \A n \in 1..L : o[n] = out[c][n]
        /\ \A n \in 1..Len(s) : o[L + n] = s[n]
    BY <1>1, <1>2
  <2>3. \A n \in 1..L : out[c][n].id \in 1..(cmd[c].id - 1)
    BY <1>3, <1>8 DEF Answered
  <2>4. \A n \in 1..Len(o) : n > L => o[n].id = cmd[c].id
    <3> SUFFICES ASSUME NEW n \in 1..Len(o), n > L PROVE o[n].id = cmd[c].id
      OBVIOUS
    <3>1. n - L \in 1..Len(s) /\ n = L + (n - L)
      BY <2>1
    <3> QED BY <1>1, <2>2, <3>1
  <2>5. \A n \in 1..Len(o) : o[n].id \in 1..cmd[c].id
    <3> SUFFICES ASSUME NEW n \in 1..Len(o) PROVE o[n].id \in 1..cmd[c].id
      OBVIOUS
    <3>1. CASE n > L
      <4>1. cmd[c].id >= 1
        BY <1>2, <1>8 DEF Numbered, Known
      <4> QED BY <1>2, <2>4, <3>1, <4>1
    <3>2. CASE n <= L
      <4>1. n \in 1..L
        BY <2>1, <3>2
      <4> QED BY <1>2, <2>2, <2>3, <4>1
    <3> QED BY <2>1, <3>1, <3>2
  <2>6. \A n \in 1..Len(o) : n > 1 => o[n - 1].id <= o[n].id
    <3> SUFFICES ASSUME NEW n \in 1..Len(o), n > 1 PROVE o[n - 1].id <= o[n].id
      OBVIOUS
    <3>1. CASE n <= L
      <4>1. n \in 1..L /\ n - 1 \in 1..L
        BY <2>1, <3>1
      <4>2. out[c][n - 1].id <= out[c][n].id
        BY <1>8, <4>1 DEF Answered
      <4> QED BY <2>2, <4>1, <4>2
    <3>2. CASE n > L
      <4>1. o[n].id = cmd[c].id /\ n - 1 \in 1..Len(o)
        BY <2>1, <2>4, <3>2
      <4> QED BY <2>5, <4>1
    <3> QED BY <2>1, <3>1, <3>2
  <2>7. ASSUME NEW i \in 1..(cmd[c].id - 1) PROVE ResultsOf(o, i) = ResultsOf(out[c], i)
    <3>1. \A n \in 1..Len(o) : o[n].id = i => n \in 1..L
      BY <1>2, <2>1, <2>4
    <3> HIDE DEF o
    <3> QED BY <2>1, <2>2, <3>1 DEF ResultsOf, L
  <2>8. ResultsOf(o, cmd[c].id) = {L + n : n \in 1..Len(s)}
    <3>1. ASSUME NEW n \in 1..Len(o), o[n].id = cmd[c].id PROVE \E k \in 1..Len(s) : n = L + k
      <4>1. n > L
        BY <1>2, <2>1, <2>2, <2>3, <3>1
      <4>2. n - L \in 1..Len(s) /\ n = L + (n - L)
        BY <2>1, <4>1
      <4> QED BY <4>2
    <3>2. ASSUME NEW k \in 1..Len(s) PROVE L + k \in 1..Len(o) /\ o[L + k].id = cmd[c].id
      BY <1>1, <2>1, <2>2
    <3> HIDE DEF o, L
    <3> QED BY <3>1, <3>2 DEF ResultsOf
  <2>9. ASSUME NEW i \in 1..cmd[c].id
        PROVE  IF Answerable(sent[c][i]) THEN AnsweredOnce(sent[c][i], o, ResultsOf(o, i))
               ELSE ResultsOf(o, i) = {}
    <3>1. CASE i <= cmd[c].id - 1
      <4>1. i \in 1..(cmd[c].id - 1)
        BY <1>2, <3>1
      <4>2. ResultsOf(o, i) = ResultsOf(out[c], i)
        BY <2>7, <4>1
      <4>3. IF Answerable(sent[c][i]) THEN AnsweredOnce(sent[c][i], out[c], ResultsOf(out[c], i))
            ELSE ResultsOf(out[c], i) = {}
        BY <1>3, <1>8, <4>1 DEF Answered
      <4>4. ASSUME AnsweredOnce(sent[c][i], out[c], ResultsOf(out[c], i))
            PROVE  AnsweredOnce(sent[c][i], o, ResultsOf(o, i))
        <5>1. PICK n \in ResultsOf(out[c], i) :
                \/ ResultsOf(out[c], i) = {n}
                \/ /\ sent[c][i].code = "iterate" /\ ResultsOf(out[c], i) = {n, n + 1}
                   /\ out[c][n].res = "fail" /\ out[c][n + 1].res = "ok"
          BY <4>4 DEF AnsweredOnce
        <5>2. \A k \in ResultsOf(out[c], i) : k \in 1..L
          BY DEF ResultsOf
        <5>3. \A k \in ResultsOf(out[c], i) : o[k] = out[c][k]
          BY <2>2, <5>2
        <5> HIDE DEF o
        <5>4. CASE ResultsOf(out[c], i) = {n}
          BY <4>2, <5>1, <5>4 DEF AnsweredOnce
        <5>5. CASE /\ sent[c][i].code = "iterate" /\ ResultsOf(out[c], i) = {n, n + 1}
                   /\ out[c][n].res = "fail" /\ out[c][n + 1].res = "ok"
          BY <4>2, <5>1, <5>3, <5>5 DEF AnsweredOnce
        <5> QED BY <5>1, <5>4, <5>5
      <4> QED BY <4>2, <4>3, <4>4
    <3>2. CASE i = cmd[c].id
      <4>1. sent[c][i] = cmd[c] /\ ResultsOf(o, i) = {L + n : n \in 1..Len(s)}
        BY <1>2, <1>8, <2>8, <3>2 DEF Numbered, Known
      <4>2. CASE ~Answerable(cmd[c])
        <5>1. Len(s) = 0
          BY <1>1, <4>2
        <5> HIDE DEF o, L
        <5> QED BY <4>1, <4>2, <5>1
      <4>3. CASE Answerable(cmd[c]) /\ Len(s) = 1
        <5>1. ResultsOf(o, i) = {L + 1}
          <6> HIDE DEF o, L
          <6> QED BY <4>1, <4>3
        <5> HIDE DEF o, L
        <5> QED BY <4>1, <4>3, <5>1 DEF AnsweredOnce
      <4>4. CASE /\ Answerable(cmd[c]) /\ cmd[c].code = "iterate" /\ Len(s) = 2
                 /\ s[1].res = "fail" /\ s[2].res = "ok"
        <5>1. o[L + 1] = s[1] /\ o[L + 2] = s[2]
          BY <2>2, <4>4
        <5>2. ResultsOf(o, i) = {L + 1, L + 2} /\ (L + 1) + 1 = L + 2
          <6>1. 1..Len(s) = {1, 2}
            BY <4>4
          <6>2. L \in Nat
            BY <2>1
          <6> HIDE DEF o, L
          <6> QED BY <4>1, <6>1, <6>2
        <5> HIDE DEF o, L
        <5>3. AnsweredOnce(cmd[c], o, ResultsOf(o, i))
          BY <4>4, <5>1, <5>2 DEF AnsweredOnce
        <5> QED BY <4>1, <4>4, <5>3
      <4> QED BY <1>1, <4>2, <4>3, <4>4 DEF Reply
    <3> QED BY <1>2, <3>1, <3>2
  <2> HIDE DEF o, L
  <2>10. /\ \A n \in 1..Len(o) : o[n].id \in 1..Dealt(c)' /\ (n > 1 => o[n - 1].id <= o[n].id)
         /\ \A i \in 1..Dealt(c)' :
              IF Answerable(sent[c][i]) THEN AnsweredOnce(sent[c][i], o, ResultsOf(o, i))
              ELSE ResultsOf(o, i) = {}
    BY <1>3, <2>5, <2>6, <2>9
  <2>11. sent' = sent
    BY <1>1
  <2> QED BY <2>10, <2>11 DEF Answered, o
<1> QED BY <1>1, <1>6, <1>7, <1>8 DEF Ordered

\* The server takes the first piece, and goes on to what follows it.
LEMMA TailFed ==
  ASSUME TypeOK, NEW c \in Conn, Fed(c), input[c] # <<>>, input'[c] = Tail(input[c]),
         Expected(c)' = Following(input[c][1]), sent' = sent, late' = late
  PROVE  Fed(c)'
<1> DEFINE s == input[c]
           t == input'[c]
<1>1. s \in Seq(Piece(c)) /\ Len(s) \in Nat /\ Len(s) > 0
  BY DEF TypeOK
<1>2. /\ Len(t) = Len(s) - 1 /\ \A n \in 1..Len(t) : t[n] = s[n + 1]
      /\ (t = <<>> <=> Len(s) = 1)
  <2>1. t = Tail(s) /\ s # <<>>
    OBVIOUS
  <2> HIDE DEF s, t
  <2>2. t \in Seq(Piece(c)) /\ Len(t) = Len(s) - 1 /\ \A n \in 1..Len(t) : t[n] = s[n + 1]
    BY <1>1, <2>1
  <2>3. t = <<>> <=> Len(t) = 0
    BY <2>2
  <2> QED BY <1>1, <2>2, <2>3
<1>3. Pending(c)' = Pending(c) /\ \A m : Known(sent'[c], m) <=> Known(sent[c], m)
  BY DEF Pending, Known
<1>4. ASSUME NEW n \in 1..Len(t)
      PROVE  /\ Known(sent'[c], t[n].cmd)
             /\ <<t[n].k, t[n].cmd.id>> = IF n = 1 THEN Expected(c)' ELSE Following(t[n - 1])
  <2>1. n + 1 \in 1..Len(s) /\ t[n] = s[n + 1] /\ (n > 1 => t[n - 1] = s[n]) /\ n + 1 # 1
    BY <1>1, <1>2
  <2>2. <<s[n + 1].k, s[n + 1].cmd.id>> = Following(s[(n + 1) - 1]) /\ Known(sent[c], s[n + 1].cmd)
    BY <2>1 DEF Fed
  <2>3. (n + 1) - 1 = n
    OBVIOUS
  <2> QED BY <1>3, <2>1, <2>2, <2>3
<1>5. Pending(c)' = IF t = <<>> THEN Expected(c)' ELSE Following(t[Len(t)])
  <2>1. Pending(c) = Following(s[Len(s)])
    BY DEF Fed
  <2>2. CASE Len(s) = 1
    BY <1>2, <1>3, <2>1, <2>2
  <2>3. CASE Len(s) # 1
    <3>1. Len(t) \in 1..Len(t) /\ Len(t) + 1 = Len(s) /\ t # <<>>
      BY <1>1, <1>2, <2>3
    <3> QED BY <1>2, <1>3, <2>1, <3>1
  <2> QED BY <2>2, <2>3
<1> QED BY <1>4, <1>5 DEF Fed, Following

\* The client sends the piece that is due.
LEMMA AppendFed ==
  ASSUME TypeOK, NEW c \in Conn, NEW p, Fed(c), input'[c] = Append(input[c], p),
         <<p.k, p.cmd.id>> = Pending(c), Known(sent'[c], p.cmd),
         \A m : Known(sent[c], m) => Known(sent'[c], m),
         Expected(c)' = Expected(c), Pending(c)' = Following(p)
  PROVE  Fed(c)'
<1> DEFINE s == input[c]
           t == input'[c]
<1>1. s \in Seq(Piece(c)) /\ Len(s) \in Nat /\ (s = <<>> <=> Len(s) = 0)
  BY DEF TypeOK
<1>2. /\ Len(t) = Len(s) + 1 /\ t[Len(s) + 1] = p /\ t # <<>>
      /\ \A n \in 1..Len(s) : t[n] = s[n]
  BY <1>1
<1>3. ASSUME NEW n \in 1..Len(t)
      PROVE  /\ Known(sent'[c], t[n].cmd)
             /\ <<t[n].k, t[n].cmd.id>> = IF n = 1 THEN Expected(c)' ELSE Following(t[n - 1])
  <2>1. CASE n \in 1..Len(s)
    <3>1. t[n] = s[n] /\ (n # 1 => t[n - 1] = s[n - 1])
      BY <1>1, <1>2, <2>1
    <3>2. /\ Known(sent[c], s[n].cmd)
          /\ <<s[n].k, s[n].cmd.id>> = IF n = 1 THEN Expected(c) ELSE Following(s[n - 1])
      BY <2>1 DEF Fed
    <3> QED BY <3>1, <3>2
  <2>2. CASE n = Len(s) + 1
    <3>1. t[n] = p /\ (n # 1 => t[n - 1] = s[Len(s)] /\ s # <<>>) /\ (n = 1 => s = <<>>)
      BY <1>1, <1>2, <2>2
    <3>2. Pending(c) = IF s = <<>> THEN Expected(c) ELSE Following(s[Len(s)])
      BY DEF Fed
    <3> QED BY <3>1, <3>2
  <2> QED BY <1>1, <1>2, <2>1, <2>2
<1>4. Pending(c)' = Following(t[Len(t)])
  BY <1>2
<1> QED BY <1>2, <1>3, <1>4 DEF Fed, Following

\* What a client sends, and what the server reads.
LEMMA ClientOrder ==
  ASSUME TypeOK, Shape, NEW c \in Conn, Ordered(c),
         \/ Accept(c) \/ Ask(c) \/ SendArgs(c) \/ ReadHeader(c) \/ ReadArgs(c) \/ ArgsTimeout(c)
         \/ TooShort(c) \/ Disconnect(c)
  PROVE  Ordered(c)'
<1>0. /\ sent[c] \in Seq(Command(c)) /\ Len(sent[c]) \in Nat /\ input[c] \in Seq(Piece(c))
      /\ out[c] \in Seq(Answers) /\ cmd[c] \in Command(c) \cup {Null}
      /\ late[c] \in Command(c) \cup {Null}
  BY DEF TypeOK, Shape
<1>1. CASE Accept(c) \/ Disconnect(c)
  <2>1. Silent(c)
    BY <1>1 DEF Accept, Disconnect, Silent, Resting, TypeOK
  <2> QED BY <2>1, SilentOrder
<1>2. CASE TooShort(c)
  <2>1. /\ UNCHANGED <<sent, late, input, framed, cmd, out>> /\ thread[c] = "run"
        /\ thread'[c] = "wait" /\ ~Answerable(cmd[c])
    BY <1>2 DEF TooShort, Answerable, TypeOK
  <2>2. ASSUME NEW s, s = <<>> PROVE s \in Seq(Answers) /\ Len(s) = 0 /\ out[c] = out[c] \o s
    BY <1>0, <2>2
  <2>3. ASSUME NEW s, s = <<>> PROVE Answering(c, s)
    BY <2>1, <2>2, <2>3 DEF Answering
  <2> QED BY <2>3, AnsweringOrder
<1>3. CASE ArgsTimeout(c)
  BY <1>3 DEF ArgsTimeout, Ordered, TypeOK
<1> SUFFICES ASSUME framed'[c] PROVE Numbered(c)' /\ Fed(c)' /\ Answered(c)'
  BY DEF Ordered
<1>4. CASE Ask(c)
  <2>1. PICK q \in Sends[c] : LET m == WithId(q, Len(sent[c]) + 1) IN
          /\ sent' = [sent EXCEPT ![c] = Append(@, m)]
          /\ input' = [input EXCEPT ![c] = Append(@, [k |-> "header", cmd |-> m])]
          /\ late' = [late EXCEPT ![c] = IF m.code \in NoArgs THEN Null ELSE m]
    BY <1>4 DEF Ask
  <2> DEFINE m == WithId(q, Len(sent[c]) + 1)
             p == [k |-> "header", cmd |-> m]
  <2>2. m \in Command(c) /\ m.id = Len(sent[c]) + 1 /\ m # Null
    <3>1. q \in Request /\ MaxCmds[c] \in Nat
      BY SctpAssumption
    <3>2. Len(sent[c]) + 1 \in 0..MaxCmds[c]
      BY <1>0, <1>4, <3>1 DEF Ask
    <3> QED BY <3>1, <3>2, CommandFacts
  <2>3. /\ sent'[c] = Append(sent[c], m) /\ input'[c] = Append(input[c], p)
        /\ late[c] = Null /\ late'[c] = IF m.code \in NoArgs THEN Null ELSE m
        /\ UNCHANGED <<framed, thread, cmd, out>>
    BY <1>4, <2>1 DEF Ask, Shape
  <2>4. p.k = "header" /\ p.cmd = m
    OBVIOUS
  <2>5. Numbered(c) /\ Fed(c) /\ Answered(c)
    BY <2>3 DEF Ordered
  <2> HIDE DEF m, p
  <2>6. /\ Len(sent'[c]) = Len(sent[c]) + 1 /\ sent'[c][Len(sent[c]) + 1] = m
        /\ \A i \in 1..Len(sent[c]) : sent'[c][i] = sent[c][i]
    BY <1>0, <2>2, <2>3
  <2>7. (\A x : Known(sent[c], x) => Known(sent'[c], x)) /\ Known(sent'[c], m)
    BY <1>0, <2>2, <2>6 DEF Known
  <2>8. Expected(c)' = Expected(c) /\ Dealt(c)' = Dealt(c)
    BY <2>3 DEF Expected, Dealt
  <2>9. Numbered(c)'
    <3>1. \A i \in 1..Len(sent'[c]) : sent'[c][i].id = i
      BY <1>0, <2>2, <2>5, <2>6 DEF Numbered
    <3>2. late'[c] # Null => late'[c].id = Len(sent'[c]) /\ Known(sent'[c], late'[c])
                              /\ late'[c].code \notin NoArgs
      BY <2>2, <2>3, <2>6, <2>7
    <3>3. cmd'[c] # Null => Known(sent'[c], cmd'[c])
      BY <2>3, <2>5, <2>7 DEF Numbered
    <3> QED BY <3>1, <3>2, <3>3 DEF Numbered
  <2>10. Fed(c)'
    <3>1. <<p.k, p.cmd.id>> = Pending(c)
      BY <2>2, <2>3, <2>4 DEF Pending
    <3>2. Pending(c)' = Following(p)
      BY <2>2, <2>3, <2>4, <2>6 DEF Pending, Following
    <3> QED BY <2>3, <2>4, <2>5, <2>7, <2>8, <3>1, <3>2, AppendFed
  <2>11. Answered(c)'
    <3>1. \A i \in 1..Dealt(c) : i \in 1..Len(sent[c])
      <4>1. CASE cmd[c] = Null
        BY <4>1 DEF Dealt
      <4>2. CASE cmd[c] # Null
        <5>1. cmd[c].id \in 1..Len(sent[c]) /\ Dealt(c) \in {cmd[c].id, cmd[c].id - 1}
          BY <2>5, <4>2 DEF Numbered, Known, Dealt
        <5> QED BY <1>0, <5>1
      <4> QED BY <4>1, <4>2
    <3>2. \A i \in 1..Dealt(c) : sent'[c][i] = sent[c][i]
      BY <2>6, <3>1
    <3> QED BY <2>3, <2>5, <2>8, <3>2 DEF Answered, Answerable
  <2> QED BY <2>9, <2>10, <2>11
<1>5. CASE SendArgs(c)
  <2> DEFINE p == [k |-> "arguments", cmd |-> late[c]]
  <2>1. /\ late[c] # Null /\ late'[c] = Null /\ input'[c] = Append(input[c], p)
        /\ UNCHANGED <<sent, framed, thread, cmd, out>>
    BY <1>5 DEF SendArgs, Shape
  <2>2. p.k = "arguments" /\ p.cmd = late[c]
    OBVIOUS
  <2>3. Numbered(c) /\ Fed(c) /\ Answered(c)
    BY <2>1 DEF Ordered
  <2> HIDE DEF p
  <2>4. Expected(c)' = Expected(c) /\ Dealt(c)' = Dealt(c)
    BY <2>1 DEF Expected, Dealt
  <2>5. Known(sent[c], late[c]) /\ late[c].id = Len(sent[c])
    BY <2>1, <2>3 DEF Numbered
  <2>6. <<p.k, p.cmd.id>> = Pending(c) /\ Pending(c)' = Following(p)
    BY <2>1, <2>2, <2>5 DEF Pending, Following
  <2>7. Fed(c)'
    BY <2>1, <2>2, <2>3, <2>4, <2>5, <2>6, AppendFed
  <2>8. Numbered(c)'
    BY <2>1, <2>3 DEF Numbered
  <2>9. Answered(c)'
    BY <2>1, <2>3, <2>4 DEF Answered
  <2> QED BY <2>7, <2>8, <2>9
<1>6. CASE ReadHeader(c)
  <2>1. /\ thread[c] = "wait" /\ thread'[c] = "args" /\ input[c] # <<>> /\ framed[c]
        /\ input'[c] = Tail(input[c]) /\ UNCHANGED <<sent, late, framed, out>>
        /\ cmd'[c] = Head(input[c]).cmd
    BY <1>6 DEF ReadHeader, Shape, TypeOK
  <2>2. Numbered(c) /\ Fed(c) /\ Answered(c)
    BY <2>1 DEF Ordered
  <2> DEFINE h == input[c][1]
  <2>3. Head(input[c]) = h /\ 1 \in 1..Len(input[c]) /\ h \in Piece(c)
    BY <1>0, <2>1
  <2>4. h.cmd \in Command(c) /\ h.cmd.id \in Nat /\ h.cmd # Null
    BY <2>3, CommandFacts DEF Piece
  <2>5. <<h.k, h.cmd.id>> = Expected(c) /\ Known(sent[c], h.cmd)
    BY <2>2, <2>3 DEF Fed
  <2> HIDE DEF h
  <2>6. h.k = "header" /\ h.cmd.id = Dealt(c) + 1
    <3>1. cmd[c] # Null => cmd[c].id \in Nat
      BY <1>0, CommandFacts
    <3> QED BY <2>1, <2>5, <3>1 DEF Expected, Dealt
  <2>7. Expected(c)' = Following(h) /\ Dealt(c)' = h.cmd.id - 1
    BY <2>1, <2>3, <2>4, <2>6 DEF Expected, Following, Dealt
  <2>8. Fed(c)'
    BY <2>1, <2>2, <2>7, TailFed DEF h
  <2>9. Numbered(c)'
    BY <2>1, <2>2, <2>3, <2>5 DEF Numbered
  <2>10. Dealt(c)' = Dealt(c)
    <3>1. Dealt(c) \in Int
      BY <1>0, CommandFacts DEF Dealt
    <3> QED BY <2>6, <2>7, <3>1
  <2>11. Answered(c)'
    BY <2>1, <2>2, <2>10 DEF Answered
  <2> QED BY <2>8, <2>9, <2>11
<1>7. CASE ReadArgs(c)
  <2>1. /\ thread[c] = "args" /\ thread'[c] = "run" /\ framed[c]
        /\ UNCHANGED <<sent, late, framed, out, cmd>>
        /\ IF cmd[c].code \in NoArgs THEN input' = input
           ELSE input[c] # <<>> /\ input'[c] = Tail(input[c])
    BY <1>7 DEF ReadArgs, Shape, TypeOK
  <2>2. Numbered(c) /\ Fed(c) /\ Answered(c) /\ cmd[c] \in Command(c)
    BY <2>1 DEF Ordered, Shape
  <2>3. cmd[c] # Null /\ cmd[c].id \in Nat
    BY <2>2, CommandFacts
  <2>4. Dealt(c)' = Dealt(c) /\ Expected(c)' = <<"header", cmd[c].id + 1>>
    BY <2>1, <2>3 DEF Dealt, Expected
  <2>5. Numbered(c)' /\ Answered(c)'
    BY <2>1, <2>2, <2>4 DEF Numbered, Answered
  <2>6. CASE cmd[c].code \in NoArgs
    <3>1. Expected(c)' = Expected(c) /\ Pending(c)' = Pending(c) /\ input' = input
      BY <2>1, <2>3, <2>4, <2>6 DEF Expected, Pending
    <3>2. Fed(c)'
      BY <2>1, <2>2, <3>1 DEF Fed, Following
    <3> QED BY <2>5, <3>2
  <2>7. CASE cmd[c].code \notin NoArgs
    <3> DEFINE h == input[c][1]
    <3>1. 1 \in 1..Len(input[c])
      BY <1>0, <2>1, <2>7
    <3>2. <<h.k, h.cmd.id>> = <<"arguments", cmd[c].id>>
      BY <2>1, <2>2, <2>3, <2>7, <3>1 DEF Fed, Expected
    <3>3. Expected(c)' = Following(h)
      BY <2>4, <3>2 DEF Following
    <3>4. Fed(c)'
      BY <2>1, <2>2, <2>7, <3>3, TailFed
    <3> QED BY <2>5, <3>4
  <2> QED BY <2>6, <2>7
<1> QED BY <1>1, <1>2, <1>3, <1>4, <1>5, <1>6, <1>7 DEF Ordered

-----------------------------------------------------------------------------
\* The manager's pointers.

\* What NoDanglingCommand says while the process runs.
Held ==
  \A e \in EventId : mEvents[e] # Null =>
    thread[mEvents[e]] # "gone" /\ e \in mEventsSet[mEvents[e]]

\* No subscription changes hands, and no connection goes.
LEMMA HeldFrame ==
  ASSUME TypeOK, Held, UNCHANGED <<mEvents, mEventsSet>>,
         \A d \in Conn : thread'[d] = "gone" => thread[d] = "gone"
  PROVE  Held'
BY DEF TypeOK, Held

\* One subscription less.
LEMMA HeldLess ==
  ASSUME TypeOK, Held, mEventsSet' = mEventsSet, thread' = thread,
         NEW e \in EventId, mEvents' = [mEvents EXCEPT ![e] = Null]
  PROVE  Held'
BY DEF TypeOK, Held

-----------------------------------------------------------------------------
\* A step of connection c keeps the invariant if it keeps the types, the order of
\* c's own results and the manager's pointers.
LEMMA OwnStep ==
  ASSUME IInv, NEW c \in Conn, TypeOK', Shape', OnlyOf(c), Running' => Held',
         \/ Ordered(c)'
         \/ Silent(c)
         \/ \E s : Answering(c, s)
  PROVE  IInv'
<1>1. TypeOK /\ Shape /\ \A d \in Conn : Ordered(d)
  BY DEF IInv, NoDanglingCommand, OrderInv
<1>2. Ordered(c)'
  BY <1>1, SilentOrder, AnsweringOrder
<1>3. \A d \in Conn \ {c} : Ordered(d)'
  BY <1>1, OrderFrame DEF OnlyOf
<1> QED BY <1>2, <1>3 DEF IInv, NoDanglingCommand, OrderInv, Held

\* Every step of a client, and of the thread that serves it, keeps the invariant.
LEMMA ConnectionStep ==
  ASSUME IInv, NEW c \in Conn,
         Accept(c) \/ Ask(c) \/ SendArgs(c) \/ Serve(c) \/ Disconnect(c)
  PROVE  IInv'
<1>1. TypeOK /\ Shape /\ Ordered(c) /\ (Running => Held)
  BY DEF IInv, NoDanglingCommand, OrderInv, Held
<1>2. Running
  BY DEF Accept, Ask, SendArgs, Serve, Disconnect, ReadHeader, ReadArgs, ArgsTimeout, TooShort,
         Process, processCreateEvent, processDestroyEvent, Destroyed, processEmitEvent, Close, Runs
<1>3. CASE \/ Accept(c) \/ Ask(c) \/ SendArgs(c) \/ ReadHeader(c) \/ ReadArgs(c)
           \/ ArgsTimeout(c) \/ TooShort(c) \/ Disconnect(c)
  <2>1. TypeOK' /\ Shape' /\ OnlyOf(c) /\ UNCHANGED <<manager, notes, server, out>>
    BY <1>1, <1>3, ClientTyped
  <2>2. Ordered(c)'
    BY <1>1, <1>3, ClientOrder
  <2>3. thread'[c] = "gone" => thread[c] = "gone"
    BY <1>1, <1>3 DEF Accept, Ask, SendArgs, ReadHeader, ReadArgs, ArgsTimeout, TooShort,
       Disconnect, TypeOK
  <2>4. UNCHANGED <<mEvents, mEventsSet>> /\ \A d \in Conn : thread'[d] = "gone" => thread[d] = "gone"
    BY <2>1, <2>3 DEF OnlyOf, manager
  <2>5. Held'
    BY <1>1, <1>2, <2>4, HeldFrame
  <2> QED BY <2>1, <2>2, <2>5, OwnStep
<1>4. CASE Process(c)
  <2>1. /\ TypeOK' /\ Shape' /\ OnlyOf(c) /\ \E s : Answering(c, s)
        /\ UNCHANGED <<manager, notes, server>> /\ thread'[c] = "wait"
    BY <1>1, <1>4, ProcessTyped
  <2>2. UNCHANGED <<mEvents, mEventsSet>> /\ \A d \in Conn : thread'[d] = "gone" => thread[d] = "gone"
    BY <2>1 DEF OnlyOf, manager
  <2>3. Held'
    BY <1>1, <1>2, <2>2, HeldFrame
  <2> QED BY <2>1, <2>3, OwnStep
<1>5. ASSUME Crash PROVE IInv'
  <2>1. TypeOK' /\ Shape' /\ OnlyOf(c) /\ Silent(c)
    BY <1>1, <1>5, CrashTyped
  <2>2. ~Running'
    BY <1>5 DEF Crash, Running
  <2> QED BY <2>1, <2>2, OwnStep
<1>6. CASE processCreateEvent(c)
  <2>1. CASE server = "stopped"
    BY <1>5, <1>6, <2>1 DEF processCreateEvent, NoManager, Crash
  <2>2. CASE server # "stopped"
    <3> DEFINE e == mLastEventId + 1
    <3>1. /\ TypeOK' /\ Shape' /\ OnlyOf(c) /\ \E s : Answering(c, s)
          /\ thread[c] = "run" /\ thread'[c] = "wait"
          /\ mEvents' = [mEvents EXCEPT ![e] = c]
          /\ mEventsSet' = [mEventsSet EXCEPT ![c] = @ \cup {e}]
          /\ e \in EventId
      BY <1>1, <1>6, <2>2, CreateEventTyped
    <3> HIDE DEF e
    <3>2. \A d \in Conn : thread'[d] = "gone" => thread[d] = "gone"
      BY <3>1 DEF OnlyOf
    <3>3. ASSUME NEW f \in EventId, mEvents'[f] # Null
          PROVE  thread'[mEvents'[f]] # "gone" /\ f \in mEventsSet'[mEvents'[f]]
      <4>1. CASE f = e
        BY <1>1, <3>1, <4>1 DEF TypeOK
      <4>2. CASE f # e
        <5>1. mEvents'[f] = mEvents[f] /\ mEvents[f] \in Conn
          BY <1>1, <3>1, <3>3, <4>2 DEF TypeOK
        <5>2. thread[mEvents[f]] # "gone" /\ f \in mEventsSet[mEvents[f]]
          BY <1>1, <1>2, <3>3, <5>1 DEF Held
        <5> QED BY <1>1, <3>1, <3>2, <5>1, <5>2 DEF TypeOK
      <4> QED BY <4>1, <4>2
    <3>4. Held'
      BY <3>3 DEF Held
    <3> QED BY <3>1, <3>4, OwnStep
  <2> QED BY <2>1, <2>2
<1>7. ASSUME NEW e \in EventId,
             \/ thread[c] = "run" /\ Answerable(cmd[c]) /\ DestroyCall(c, e, "destroy")
             \/ thread[c] = "close" /\ DestroyCall(c, e, "closing")
      PROVE  IInv'
  <2>1. CASE e \in nulls
    BY <1>5, <1>7, <2>1 DEF DestroyCall, Crash
  <2>2. CASE e \notin nulls
    <3>1. \/ thread[c] = "run" /\ Answerable(cmd[c]) /\ Begun(c, e, "destroy")
          \/ thread[c] = "close" /\ Begun(c, e, "closing")
      BY <1>7, <2>2 DEF DestroyCall, Begun
    <3>2. TypeOK' /\ Shape' /\ OnlyOf(c) /\ Silent(c)
      BY <1>1, <3>1, BegunTyped
    <3>3. UNCHANGED <<mEvents, mEventsSet>> /\ \A d \in Conn : thread'[d] = "gone" => thread[d] = "gone"
      BY <1>1, <3>1 DEF Begun, TypeOK
    <3>4. Held'
      BY <1>1, <1>2, <3>3, HeldFrame
    <3> QED BY <3>2, <3>4, OwnStep
  <2> QED BY <2>1, <2>2
<1>8. CASE processDestroyEvent(c)
  <2>1. /\ thread[c] = "run" /\ cmd[c] \in Command(c) /\ cmd[c].event \in EventId
        /\ Answerable(cmd[c])
    BY <1>1, <1>8, CommandFacts DEF processDestroyEvent, Runs, Shape, Answerable
  <2>2. CASE NoManager(c)
    BY <1>5, <2>2 DEF NoManager, Crash
  <2>3. CASE DestroyCall(c, cmd[c].event, "destroy")
    BY <1>7, <2>1, <2>3
  <2>4. CASE /\ Write(c, <<Header("destroyEvent", cmd[c].id, "fail", <<>>)>>)
             /\ thread' = [thread EXCEPT ![c] = "wait"]
             /\ UNCHANGED <<sent, late, input, framed, cmd, manager, notes, server>>
    <3>1. TypeOK' /\ Shape' /\ OnlyOf(c) /\ \E s : Answering(c, s)
      BY <1>1, <2>1, <2>4, NoSuchEventTyped
    <3>2. UNCHANGED <<mEvents, mEventsSet>> /\ \A d \in Conn : thread'[d] = "gone" => thread[d] = "gone"
      BY <1>1, <2>4 DEF TypeOK, manager
    <3>3. Held'
      BY <1>1, <1>2, <3>2, HeldFrame
    <3> QED BY <3>1, <3>3, OwnStep
  <2> QED BY <1>8, <2>2, <2>3, <2>4 DEF processDestroyEvent
<1>9. CASE Destroyed(c)
  <2>1. /\ TypeOK' /\ Shape' /\ OnlyOf(c) /\ (Silent(c) \/ \E s : Answering(c, s))
        /\ thread'[c] # "gone"
    BY <1>1, <1>9, DestroyedTyped
  <2>2. /\ mEvents' = [mEvents EXCEPT ![target] = Null]
        /\ mEventsSet' = mEventsSet \/ mEventsSet' = [mEventsSet EXCEPT ![c] = @ \ {target}]
    BY <1>9 DEF Destroyed
  <2>3. \A d \in Conn : thread'[d] = "gone" => thread[d] = "gone"
    BY <2>1 DEF OnlyOf
  <2>4. ASSUME NEW f \in EventId, mEvents'[f] # Null
        PROVE  thread'[mEvents'[f]] # "gone" /\ f \in mEventsSet'[mEvents'[f]]
    <3>1. f # target /\ mEvents'[f] = mEvents[f] /\ mEvents[f] \in Conn
      BY <1>1, <2>2, <2>4 DEF TypeOK
    <3>2. thread[mEvents[f]] # "gone" /\ f \in mEventsSet[mEvents[f]]
      BY <1>1, <1>2, <2>4, <3>1 DEF Held
    <3> QED BY <1>1, <2>2, <2>3, <3>1, <3>2 DEF TypeOK
  <2>5. Held'
    BY <2>4 DEF Held
  <2> QED BY <2>1, <2>5, OwnStep
<1>10. CASE processEmitEvent(c)
  <2>1. /\ TypeOK' /\ Shape' /\ OnlyOf(c) /\ \E s : Answering(c, s)
        /\ UNCHANGED manager /\ thread'[c] # "gone"
    BY <1>1, <1>10, EmitEventTyped
  <2>2. UNCHANGED <<mEvents, mEventsSet>> /\ \A d \in Conn : thread'[d] = "gone" => thread[d] = "gone"
    BY <2>1 DEF OnlyOf, manager
  <2>3. Held'
    BY <1>1, <1>2, <2>2, HeldFrame
  <2> QED BY <2>1, <2>3, OwnStep
<1>11. CASE Close(c)
  <2>1. thread[c] = "close"
    BY <1>11 DEF Close
  <2>2. CASE /\ mEventsSet[c] = {} /\ thread' = [thread EXCEPT ![c] = "gone"]
             /\ UNCHANGED <<sent, late, input, framed, cmd, out, manager, notes, server>>
    <3>1. TypeOK' /\ Shape' /\ OnlyOf(c) /\ Silent(c)
      BY <1>1, <2>1, <2>2, CloseTyped DEF manager
    <3>2. ASSUME NEW f \in EventId, mEvents'[f] # Null
          PROVE  thread'[mEvents'[f]] # "gone" /\ f \in mEventsSet'[mEvents'[f]]
      <4>1. mEvents'[f] = mEvents[f] /\ mEvents[f] \in Conn /\ mEventsSet' = mEventsSet
        BY <1>1, <2>2, <3>2 DEF TypeOK, manager
      <4>2. thread[mEvents[f]] # "gone" /\ f \in mEventsSet[mEvents[f]]
        BY <1>1, <1>2, <3>2, <4>1 DEF Held
      <4>3. mEvents[f] # c
        BY <2>2, <4>2
      <4> QED BY <1>1, <2>2, <4>1, <4>2, <4>3 DEF TypeOK
    <3>3. Held'
      BY <3>2 DEF Held
    <3> QED BY <3>1, <3>3, OwnStep
  <2>3. ASSUME NEW e \in mEventsSet[c],
               \/ NoManager(c)
               \/ server # "stopped" /\ mEvents[e] # Null /\ DestroyCall(c, e, "closing")
               \/ /\ server # "stopped" /\ mEvents[e] = Null
                  /\ mEventsSet' = [mEventsSet EXCEPT ![c] = @ \ {e}]
                  /\ UNCHANGED <<conns, mEvents, nulls, live, doomed, table, mLastEventId,
                                 mEventsMutex, target, notes, server>>
        PROVE  IInv'
    <3>1. e \in EventId
      BY <1>1 DEF TypeOK
    <3>2. CASE NoManager(c)
      BY <1>5, <3>2 DEF NoManager, Crash
    <3>3. CASE DestroyCall(c, e, "closing")
      BY <1>7, <2>1, <3>1, <3>3
    <3>4. CASE /\ mEvents[e] = Null /\ mEventsSet' = [mEventsSet EXCEPT ![c] = @ \ {e}]
               /\ UNCHANGED <<conns, mEvents, nulls, live, doomed, table, mLastEventId,
                              mEventsMutex, target, notes, server>>
      <4>1. UNCHANGED <<sent, late, input, framed, thread, cmd, out>>
        BY <3>4 DEF conns
      <4>2. TypeOK' /\ Shape' /\ OnlyOf(c) /\ Silent(c)
        BY <1>1, <2>1, <3>1, <3>4, <4>1, CloseTyped
      <4>3. ASSUME NEW f \in EventId, mEvents'[f] # Null
            PROVE  thread'[mEvents'[f]] # "gone" /\ f \in mEventsSet'[mEvents'[f]]
        <5>1. mEvents'[f] = mEvents[f] /\ mEvents[f] \in Conn /\ f # e
          BY <1>1, <3>4, <4>3 DEF TypeOK
        <5>2. thread[mEvents[f]] # "gone" /\ f \in mEventsSet[mEvents[f]]
          BY <1>1, <1>2, <4>3, <5>1 DEF Held
        <5> QED BY <1>1, <3>4, <4>1, <5>1, <5>2 DEF TypeOK
      <4>4. Held'
        BY <4>3 DEF Held
      <4> QED BY <4>2, <4>4, OwnStep
    <3> QED BY <2>3, <3>2, <3>3, <3>4
  <2> QED BY <1>11, <2>2, <2>3 DEF Close
<1> QED BY <1>3, <1>4, <1>6, <1>8, <1>9, <1>10, <1>11 DEF Serve

\* So do events in memory, their callbacks and the stop of the server.
LEMMA OtherStep ==
  ASSUME IInv,
         \/ \E e \in EventId : EventOccurs(e)
         \/ Occurrence \/ Detach \/ CallBack
         \/ Stop \/ StopDestroys \/ Stopped \/ Exit
  PROVE  IInv'
<1>1. TypeOK /\ Shape /\ (\A d \in Conn : Ordered(d)) /\ (Running => Held)
  BY DEF IInv, NoDanglingCommand, OrderInv, Held
<1>2. TypeOK' /\ Shape' /\ UNCHANGED <<sent, late, input, framed, thread, cmd, out>>
  BY <1>1, OtherTyped DEF conns
<1>3. \A d \in Conn : Ordered(d)'
  BY <1>1, <1>2, OrderFrame
<1>4. Running' => Running
  BY DEF Running, EventOccurs, Occurrence, Emit, ElementDeleted, Detach, CallBack, TakeJob,
     EventsCallback, Stop, StopDestroys, Stopped, Exit
<1>5. /\ mEventsSet' = mEventsSet
      /\ mEvents' = mEvents \/ \E e \in EventId : mEvents' = [mEvents EXCEPT ![e] = Null]
  BY DEF EventOccurs, Occurrence, Emit, ElementDeleted, Detach, CallBack, TakeJob, EventsCallback,
     Stop, StopDestroys, Stopped, Exit, manager
<1>6. Running' => Held'
  BY <1>1, <1>2, <1>4, <1>5, HeldFrame, HeldLess
<1> QED BY <1>2, <1>3, <1>6 DEF IInv, NoDanglingCommand, OrderInv, Held

\* The invariant holds at the start.
LEMMA InitInvariant == Init => IInv
<1> SUFFICES ASSUME Init PROVE IInv
  OBVIOUS
<1>1. TypeOK /\ Shape
  <2>1. \A c \in Conn : /\ sent[c] = <<>> /\ input[c] = <<>> /\ out[c] = <<>>
                        /\ late[c] = Null /\ cmd[c] = Null /\ thread[c] = "none"
    BY DEF Init
  <2>2. \A c \in Conn : /\ sent[c] \in Seq(Command(c)) /\ input[c] \in Seq(Piece(c))
                        /\ out[c] \in Seq(Answers)
    <3>1. \A S : <<>> \in Seq(S)
      OBVIOUS
    <3> QED BY <2>1, <3>1
  <2>3. mSendData \in [Conn -> Seq(Note)]
    BY DEF Init
  <2>4. emits \in [EventId -> 0..MaxEmits] /\ mLastEventId \in 0..MaxEvents
    BY BoundFacts DEF Init
  <2>5. /\ framed \in [Conn -> BOOLEAN] /\ thread \in [Conn -> Threads]
        /\ mEvents \in [EventId -> Conn \cup {Null}] /\ mEventsSet \in [Conn -> SUBSET EventId]
    BY DEF Init, Threads
  <2>6. TypeOK
    BY <2>1, <2>2, <2>3, <2>4, <2>5 DEF TypeOK, Init
  <2>7. Shape
    BY <2>1, <2>2 DEF Shape, Init
  <2> QED BY <2>6, <2>7
<1>2. Running => Held
  BY DEF Init, Held
<1>3. ASSUME NEW c \in Conn PROVE Ordered(c)
  <2>1. /\ sent[c] = <<>> /\ input[c] = <<>> /\ out[c] = <<>>
        /\ late[c] = Null /\ cmd[c] = Null
    BY DEF Init
  <2>2. Len(sent[c]) = 0 /\ Len(input[c]) = 0 /\ Len(out[c]) = 0
    BY <2>1
  <2>3. Dealt(c) = 0 /\ Expected(c) = <<"header", 1>> /\ Pending(c) = <<"header", 1>>
    BY <2>1, <2>2 DEF Dealt, Expected, Pending
  <2>4. Numbered(c)
    BY <2>1, <2>2 DEF Numbered
  <2>5. Fed(c)
    BY <2>1, <2>2, <2>3 DEF Fed
  <2>6. Answered(c)
    BY <2>2, <2>3 DEF Answered
  <2> QED BY <2>4, <2>5, <2>6 DEF Ordered
<1> QED BY <1>1, <1>2, <1>3 DEF IInv, NoDanglingCommand, OrderInv, Held

\* It is inductive.
LEMMA NextInvariant == IInv /\ [Next]_vars => IInv'
<1> SUFFICES ASSUME IInv, [Next]_vars PROVE IInv'
  OBVIOUS
<1>1. CASE Next
  BY <1>1, ConnectionStep, OtherStep DEF Next
<1>2. CASE UNCHANGED vars
  <2>1. TypeOK' /\ Shape' /\ Running' = Running /\ (Running => Held')
    BY <1>2 DEF IInv, NoDanglingCommand, TypeOK, Shape, Running, Held, vars, conns, manager, notes
  <2>2. \A d \in Conn : Ordered(d)'
    BY <1>2, OrderFrame DEF IInv, OrderInv, vars, conns
  <2> QED BY <2>1, <2>2 DEF IInv, NoDanglingCommand, OrderInv, Held
<1> QED BY <1>1, <1>2

\* The pointers of the manager are good, the pieces in every socket that is in
\* frame are the ones the server expects, in order, and the results follow.
THEOREM SctpInvariance == Spec => []IInv
BY InitInvariant, NextInvariant, PTL DEF Spec

\* The manager's pointers to connections never dangle, for any number of
\* connections, commands and subscriptions.
THEOREM NoDanglingCommandHolds == Spec => []NoDanglingCommand
<1>1. IInv => NoDanglingCommand
  BY DEF IInv
<1> QED BY <1>1, SctpInvariance, PTL

\* Results come in the order of the commands; each answerable command has one (an
\* iterate perhaps two), and the others have none.
THEOREM InOrderHolds == Spec => []InOrder
<1>1. IInv => InOrder
  BY DEF IInv, OrderInv, Ordered, Answered, InOrder
<1> QED BY <1>1, SctpInvariance, PTL

-----------------------------------------------------------------------------
\* Notifications.

\* A subscription with a callback has an owner; every id that is in use was given
\* out, and there were no events of the others.
Owners ==
  /\ \A e \in live : mEvents[e] # Null
  /\ \A e \in EventId : mEvents[e] # Null => e <= mLastEventId
  /\ \A e \in EventId : e > mLastEventId => emits[e] = 0

\* A notification of an event that has not happened is nowhere.
Fresh ==
  \A e \in EventId : \A k \in 1..MaxEmits : k > emits[e] =>
    /\ Underway(jobs, <<e, k>>) = {}
    /\ \A c \in Conn : Reached(mSendData[c], out[c], <<e, k>>) = {}

OnceInv == Owners /\ Fresh /\ ExactlyOnce

\* What it is to be in such a place.
LEMMA ReachedMembers ==
  ASSUME NEW data, NEW results, NEW note
  PROVE  \A p : p \in Reached(data, results, note) <=>
           \/ \E i \in 1..Len(data) : data[i] = note /\ p = <<"held", 0, i>>
           \/ \E n \in 1..Len(results) : \E i \in 1..Len(results[n].body) :
                /\ results[n].code = "emitEvent" /\ results[n].body[i] = note
                /\ p = <<"sent", n, i>>
BY DEF Reached

\* What it is to be on the way.
LEMMA UnderwayMembers ==
  ASSUME NEW calls, NEW note
  PROVE  \A p : p \in Underway(calls, note) <=> \E j \in calls : j.note = note /\ p = <<j.pc, 0, 0>>
BY DEF Underway

\* Results that carry no notifications.
LEMMA ReachedPlain ==
  ASSUME NEW data, NEW results \in Seq(Answers), NEW s \in Seq(Answers), NEW note,
         \A n \in 1..Len(s) : s[n].code # "emitEvent"
  PROVE  Reached(data, results \o s, note) = Reached(data, results, note)
<1> DEFINE t == results \o s
<1>1. Len(results) \in Nat /\ Len(s) \in Nat /\ Len(t) = Len(results) + Len(s)
  OBVIOUS
<1>2. \A n \in 1..Len(results) : n \in 1..Len(t) /\ t[n] = results[n]
  BY <1>1
<1>3. \A n \in 1..Len(t) : n \notin 1..Len(results) => t[n].code # "emitEvent"
  <2> SUFFICES ASSUME NEW n \in 1..Len(t), n \notin 1..Len(results) PROVE t[n].code # "emitEvent"
    OBVIOUS
  <2>1. n - Len(results) \in 1..Len(s) /\ t[n] = s[n - Len(results)]
    BY <1>1
  <2> QED BY <2>1
<1> HIDE DEF t
<1>4. \A p : p \in Reached(data, t, note) <=> p \in Reached(data, results, note)
  BY <1>2, <1>3, ReachedMembers
<1>5. Reached(data, t, note) = Reached(data, results, note)
  BY <1>4
<1> QED BY <1>5 DEF t

\* One more notification is collected.
LEMMA ReachedAppend ==
  ASSUME NEW data \in Seq(Note), NEW results, NEW note, NEW x \in Note
  PROVE  Reached(Append(data, x), results, note) =
           Reached(data, results, note) \cup (IF x = note THEN {<<"held", 0, Len(data) + 1>>} ELSE {})
<1> DEFINE t == Append(data, x)
<1>1. /\ Len(data) \in Nat /\ Len(t) = Len(data) + 1 /\ t[Len(data) + 1] = x
      /\ \A n \in 1..Len(data) : t[n] = data[n]
  OBVIOUS
<1> HIDE DEF t
<1>2. \A n : n \in 1..Len(t) <=> n \in 1..Len(data) \/ n = Len(data) + 1
  BY <1>1
<1>3. \A p : p \in Reached(t, results, note) <=>
        p \in Reached(data, results, note) \/ (x = note /\ p = <<"held", 0, Len(data) + 1>>)
  BY <1>1, <1>2, ReachedMembers
<1>4. Reached(t, results, note) =
        Reached(data, results, note) \cup (IF x = note THEN {<<"held", 0, Len(data) + 1>>} ELSE {})
  BY <1>3
<1> QED BY <1>4 DEF t

\* There are as many places of a notification as before, as long as there is at
\* most one.
Moved(old, new) == (old = {} => new = {}) /\ \A p : old = {p} => \E q : new = {q}

\* What was collected is sent: each notification moves to a place of its own.
LEMMA ReachedSent ==
  ASSUME NEW h \in Answers, h.code = "emitEvent", NEW data \in Seq(Note), h.body = data,
         NEW results \in Seq(Answers), NEW note, NEW none, none = <<>>
  PROVE  Moved(Reached(data, results, note), Reached(none, results \o <<h>>, note))
<1> DEFINE t == results \o <<h>>
           L == Len(results) + 1
           old == Reached(data, results, note)
           new == Reached(none, t, note)
<1>1. <<h>> \in Seq(Answers) /\ Len(<<h>>) = 1 /\ <<h>>[1] = h
  OBVIOUS
<1>2. /\ Len(results) \in Nat /\ Len(t) = L /\ t[L] = h /\ Len(none) = 0
      /\ \A n \in 1..Len(results) : t[n] = results[n]
  BY <1>1
<1>3. \A n : n \in 1..Len(t) <=> n \in 1..Len(results) \/ n = L
  BY <1>2
<1> HIDE DEF t, L
<1>4. \A p : p \in new <=>
        \/ \E n \in 1..Len(results) : \E i \in 1..Len(results[n].body) :
             /\ results[n].code = "emitEvent" /\ results[n].body[i] = note
             /\ p = <<"sent", n, i>>
        \/ \E i \in 1..Len(data) : data[i] = note /\ p = <<"sent", L, i>>
  <2>1. \A n \in 1..Len(none) : FALSE
    BY <1>2
  <2> DEFINE In(q, m, p) == \E n \in 1..m : \E i \in 1..Len(q[n].body) :
               q[n].code = "emitEvent" /\ q[n].body[i] = note /\ p = <<"sent", n, i>>
             Last(p) == \E i \in 1..Len(data) : data[i] = note /\ p = <<"sent", L, i>>
  <2>2. \A p : p \in new <=> In(t, Len(t), p)
    BY <2>1, ReachedMembers
  <2> HIDE DEF new
  <2>3. t[L].code = "emitEvent" /\ t[L].body = data
    BY <1>2
  <2>4. ASSUME NEW p PROVE In(t, Len(t), p) <=> In(t, Len(results), p) \/ Last(p)
    BY <1>3, <2>3
  <2>5. ASSUME NEW p PROVE In(t, Len(results), p) <=> In(results, Len(results), p)
    BY <1>2
  <2> HIDE DEF In, Last
  <2>6. \A p : p \in new <=> In(results, Len(results), p) \/ Last(p)
    BY <2>2, <2>4, <2>5
  <2> QED BY <2>6 DEF In, Last
<1>5. \A p : p \in old <=>
        \/ \E i \in 1..Len(data) : data[i] = note /\ p = <<"held", 0, i>>
        \/ \E n \in 1..Len(results) : \E i \in 1..Len(results[n].body) :
             /\ results[n].code = "emitEvent" /\ results[n].body[i] = note
             /\ p = <<"sent", n, i>>
  BY ReachedMembers
<1> HIDE DEF old, new
<1>6. old = {} => new = {}
  BY <1>4, <1>5
<1>7. ASSUME NEW p, old = {p} PROVE \E q : new = {q}
  <2>1. CASE \E i \in 1..Len(data) : data[i] = note /\ p = <<"held", 0, i>>
    <3>1. PICK i \in 1..Len(data) : data[i] = note /\ p = <<"held", 0, i>>
      BY <2>1
    <3>2. \A k \in 1..Len(data) : data[k] = note => k = i
      <4> SUFFICES ASSUME NEW k \in 1..Len(data), data[k] = note PROVE k = i
        OBVIOUS
      <4>1. <<"held", 0, k>> \in old
        BY <1>5
      <4>2. <<"held", 0, k>> = <<"held", 0, i>>
        BY <1>7, <3>1, <4>1
      <4> QED BY <4>2
    <3>3. ASSUME NEW n \in 1..Len(results), NEW k \in 1..Len(results[n].body),
                 results[n].code = "emitEvent", results[n].body[k] = note
          PROVE  FALSE
      <4>1. <<"sent", n, k>> \in old
        BY <1>5, <3>3
      <4>2. <<"sent", n, k>> = <<"held", 0, i>>
        BY <1>7, <3>1, <4>1
      <4> QED BY <4>2
    <3>4. \A q : q \in new <=> q = <<"sent", L, i>>
      BY <1>4, <3>1, <3>2, <3>3
    <3>5. new = {<<"sent", L, i>>}
      BY <3>4
    <3> QED BY <3>5
  <2>2. CASE ~\E i \in 1..Len(data) : data[i] = note
    <3>1. \A q : q \in new <=> q \in old
      BY <1>4, <1>5, <2>2
    <3>2. new = {p}
      BY <1>7, <3>1
    <3> QED BY <3>2
  <2>3. CASE \E i \in 1..Len(data) : data[i] = note /\ p # <<"held", 0, i>>
    <3>1. PICK i \in 1..Len(data) : data[i] = note /\ p # <<"held", 0, i>>
      BY <2>3
    <3>2. <<"held", 0, i>> \in old
      BY <1>5, <3>1
    <3> QED BY <1>7, <3>1, <3>2
  <2> QED BY <2>1, <2>2, <2>3
<1>8. Moved(old, new)
  BY <1>6, <1>7 DEF Moved
<1> QED BY <1>8 DEF t, old, new

\* A place at a client is not one on the way.
LEMMA PlacesDisjoint ==
  ASSUME NEW data, NEW results, NEW note, NEW calls, \A j \in calls : j.pc \in {"queued", "called"}
  PROVE  \A q \in Reached(data, results, note) : q \notin Underway(calls, note)
<1> SUFFICES ASSUME NEW q \in Reached(data, results, note), q \in Underway(calls, note) PROVE FALSE
  OBVIOUS
<1>1. PICK j \in calls : q = <<j.pc, 0, 0>>
  BY UnderwayMembers
<1>2. q[1] \in {"queued", "called"}
  BY <1>1
<1>3. q[1] \in {"held", "sent"}
  BY ReachedMembers
<1> QED BY <1>2, <1>3

\* A subscription loses its callback, and perhaps its owner.
Loses(e) ==
  live' = live \ {e} /\ (mEvents' = mEvents \/ mEvents' = [mEvents EXCEPT ![e] = Null])

\* At most one subscription changes, in that way.
Unsubscribing == mLastEventId' = mLastEventId /\ (UNCHANGED <<mEvents, live>> \/ \E e : Loses(e))

\* No notification comes to a client, and none gets lost.
SameReached ==
  \A c \in Conn : \A note : Reached(mSendData'[c], out'[c], note) = Reached(mSendData[c], out[c], note)

\* Destroying a subscription keeps what is said of ids and callbacks, and leaves
\* the owners of the others alone.
LEMMA UnsubscribingOwners ==
  ASSUME TypeOK, Owners, Unsubscribing, emits' = emits
  PROVE  Owners' /\ live' \subseteq live /\ \A e \in live' : mEvents'[e] = mEvents[e]
<1>1. live \subseteq EventId
  BY DEF TypeOK
<1>2. CASE UNCHANGED <<mEvents, live>>
  BY <1>1, <1>2 DEF Owners, Unsubscribing
<1>3. ASSUME NEW e, live' = live \ {e},
             mEvents' = mEvents \/ mEvents' = [mEvents EXCEPT ![e] = Null]
      PROVE  Owners' /\ live' \subseteq live /\ \A f \in live' : mEvents'[f] = mEvents[f]
  <2>1. \A f \in EventId : mEvents'[f] \in {mEvents[f], Null} /\ (f # e => mEvents'[f] = mEvents[f])
    BY <1>3 DEF TypeOK
  <2> QED BY <1>1, <1>3, <2>1 DEF Owners, Unsubscribing
<1>4. ASSUME ~UNCHANGED <<mEvents, live>>
      PROVE  Owners' /\ live' \subseteq live /\ \A e \in live' : mEvents'[e] = mEvents[e]
  <2>1. PICK e : Loses(e)
    BY <1>4 DEF Unsubscribing
  <2> QED BY <1>3, <2>1 DEF Loses
<1> QED BY <1>2, <1>4

\* A step that moves no notification.
LEMMA QuietOnce ==
  ASSUME TypeOK, OnceInv, Unsubscribing, UNCHANGED <<emits, jobs>>, SameReached
  PROVE  OnceInv'
<1>1. Owners' /\ live' \subseteq live /\ \A e \in live' : mEvents'[e] = mEvents[e]
  BY UnsubscribingOwners DEF OnceInv
<1>2. Fresh'
  BY DEF OnceInv, Fresh, SameReached
<1>3. ExactlyOnce'
  BY <1>1 DEF OnceInv, ExactlyOnce, SameReached
<1> QED BY <1>1, <1>2, <1>3 DEF OnceInv

\* A new subscription has had no events.
LEMMA CreateOnce ==
  ASSUME TypeOK, Shape, OnceInv, UNCHANGED <<emits, jobs>>, SameReached,
         NEW c \in Conn, NEW e \in EventId, e = mLastEventId + 1, mLastEventId' = e,
         mEvents' = [mEvents EXCEPT ![e] = c],
         live' = live \cup {e} \/ live' = live
  PROVE  OnceInv'
<1>1. /\ Null \notin EventId /\ Null \notin Conn /\ live \subseteq EventId /\ e \in Nat
      /\ mLastEventId \in Nat /\ e > mLastEventId /\ EventId \subseteq Nat
  BY SctpAssumption DEF TypeOK, EventId
<1>2. /\ \A f \in EventId : f # e => mEvents'[f] = mEvents[f]
      /\ mEvents'[e] = c
  BY DEF TypeOK
<1>3. /\ \A f \in live : mEvents[f] # Null /\ f \in Nat /\ f <= mLastEventId
      /\ \A f \in EventId : (mEvents[f] # Null => f <= mLastEventId) /\ (f > mLastEventId => emits[f] = 0)
  BY <1>1 DEF OnceInv, Owners, Shape
<1>4. \A f \in live : f # e
  BY <1>1, <1>3
<1>5. Owners'
  <2>1. \A f \in live' : mEvents'[f] # Null
    BY <1>1, <1>2, <1>3, <1>4
  <2>2. \A f \in EventId : mEvents'[f] # Null => f <= mLastEventId'
    BY <1>1, <1>2, <1>3
  <2>4. \A f \in EventId : f > mLastEventId' => emits'[f] = 0
    BY <1>1, <1>3
  <2> QED BY <1>3, <2>1, <2>2, <2>4 DEF Owners
<1>6. Fresh'
  BY DEF OnceInv, Fresh, SameReached
<1>7. ExactlyOnce'
  <2>1. emits[e] = 0 /\ \A k \in 1..emits[e] : FALSE
    BY <1>1, <1>3
  <2>2. \A f \in live' : f # e => f \in live /\ mEvents'[f] = mEvents[f]
    BY <1>1, <1>2
  <2> QED BY <2>1, <2>2 DEF OnceInv, ExactlyOnce, SameReached
<1> QED BY <1>5, <1>6, <1>7 DEF OnceInv

\* processEmitEvent sends what was collected and clears it, in one step.
LEMMA EmitOnce ==
  ASSUME TypeOK, Shape, OnceInv, NEW c \in Conn, processEmitEvent(c)
  PROVE  OnceInv'
<1> DEFINE h == Header("emitEvent", cmd[c].id, "ok", mSendData[c])
<1>1. /\ Running /\ thread[c] = "run"
      /\ out' = [out EXCEPT ![c] = out[c] \o <<h>>]
      /\ mSendData' = [mSendData EXCEPT ![c] = <<>>]
      /\ UNCHANGED <<mEvents, live, mLastEventId, target, emits, jobs>>
  BY DEF processEmitEvent, Runs, ClearedData, manager, Write
<1>2. h \in Answers /\ h.code = "emitEvent" /\ h.body = mSendData[c]
  <2>1. cmd[c].id \in Nat
    BY <1>1, CommandFacts DEF Shape
  <2>2. mSendData[c] \in Bodies
    BY DEF Bodies, TypeOK
  <2> QED BY <2>1, <2>2 DEF Header, Answers, EventCodes
<1> HIDE DEF h
<1>3. /\ mSendData[c] \in Seq(Note) /\ out[c] \in Seq(Answers)
      /\ mSendData'[c] = <<>> /\ out'[c] = out[c] \o <<h>>
      /\ \A d \in Conn \ {c} : mSendData'[d] = mSendData[d] /\ out'[d] = out[d]
  BY <1>1 DEF TypeOK, Shape
<1>4. ASSUME NEW d \in Conn, NEW note
      PROVE  /\ Reached(mSendData[d], out[d], note) = {} => Reached(mSendData'[d], out'[d], note) = {}
             /\ \A p : Reached(mSendData[d], out[d], note) = {p} =>
                  \E q : Reached(mSendData'[d], out'[d], note) = {q}
  <2>1. CASE d = c
    <3>1. Moved(Reached(mSendData[c], out[c], note), Reached(mSendData'[c], out[c] \o <<h>>, note))
      BY <1>2, <1>3, ReachedSent
    <3> QED BY <1>3, <2>1, <3>1 DEF Moved
  <2>2. CASE d # c
    BY <1>3, <2>2
  <2> QED BY <2>1, <2>2
<1>5. Owners'
  BY <1>1 DEF OnceInv, Owners
<1>6. Fresh'
  BY <1>1, <1>4 DEF OnceInv, Fresh
<1>7. ASSUME NEW e \in live, NEW k \in 1..emits[e], NEW d \in Conn
      PROVE  Once(mEvents[e] = d, Reached(mSendData'[d], out'[d], <<e, k>>), Underway(jobs, <<e, k>>))
  <2> DEFINE R == Reached(mSendData[d], out[d], <<e, k>>)
             S == Reached(mSendData'[d], out'[d], <<e, k>>)
             U == Underway(jobs, <<e, k>>)
  <2>1. CASE mEvents[e] # d
    BY <1>4, <2>1 DEF OnceInv, ExactlyOnce, Once
  <2>2. CASE mEvents[e] = d
    <3>1. PICK p : R \cup U = {p}
      BY <2>2 DEF OnceInv, ExactlyOnce, Once
    <3>2. \A j \in jobs : j.pc \in {"queued", "called"}
      BY DEF TypeOK
    <3>3. (R = {p} /\ U = {}) \/ (R = {} /\ U = {p})
      <4>1. \A q \in R : q \notin U
        BY <3>2, PlacesDisjoint
      <4> HIDE DEF R, U
      <4> QED BY <3>1, <4>1
    <3>4. (R = {} => S = {}) /\ (R = {p} => \E q : S = {q})
      BY <1>4
    <3> HIDE DEF R, S, U
    <3>5. \E q \in S \cup U : S \cup U = {q}
      BY <3>3, <3>4
    <3> QED BY <2>2, <3>5 DEF S, U, Once
  <2> QED BY <2>1, <2>2
<1>8. ExactlyOnce'
  BY <1>1, <1>7 DEF ExactlyOnce
<1> QED BY <1>5, <1>6, <1>8 DEF OnceInv

\* An event in memory: its notification is queued, and is nowhere else.
LEMMA OccursOnce ==
  ASSUME TypeOK, OnceInv, NEW e \in EventId, Emit(e), Shape
  PROVE  OnceInv'
<1> DEFINE k == emits[e] + 1
           j == [note |-> <<e, k>>, pc |-> "queued"]
<1>1. /\ e \in live /\ emits[e] < MaxEmits /\ emits' = [emits EXCEPT ![e] = k]
      /\ jobs' = jobs \cup {j}
      /\ UNCHANGED <<out, mEvents, live, mLastEventId, mSendData>>
  BY DEF Emit, conns, InTable
<1>2. /\ emits[e] \in Nat /\ k \in 1..MaxEmits /\ emits'[e] = k
      /\ \A f \in EventId : f # e => emits'[f] = emits[f]
  BY <1>1, BoundFacts DEF TypeOK
<1>3. j.note = <<e, k>> /\ j.pc = "queued"
  OBVIOUS
<1> HIDE DEF j
<1>4. /\ \A note : note # <<e, k>> => Underway(jobs', note) = Underway(jobs, note)
      /\ Underway(jobs', <<e, k>>) = Underway(jobs, <<e, k>>) \cup {<<"queued", 0, 0>>}
  <2>1. ASSUME NEW note, NEW p
        PROVE  p \in Underway(jobs', note) <=>
                 p \in Underway(jobs, note) \/ (note = <<e, k>> /\ p = <<"queued", 0, 0>>)
    <3>1. p \in Underway(jobs', note) <=> \E i \in jobs \cup {j} : i.note = note /\ p = <<i.pc, 0, 0>>
      BY <1>1, UnderwayMembers
    <3>2. p \in Underway(jobs, note) <=> \E i \in jobs : i.note = note /\ p = <<i.pc, 0, 0>>
      BY UnderwayMembers
    <3> QED BY <1>3, <3>1, <3>2
  <2>2. ASSUME NEW note, note # <<e, k>> PROVE Underway(jobs', note) = Underway(jobs, note)
    <3>1. \A p : p \in Underway(jobs', note) <=> p \in Underway(jobs, note)
      BY <2>1, <2>2
    <3> QED BY <3>1
  <2>3. Underway(jobs', <<e, k>>) = Underway(jobs, <<e, k>>) \cup {<<"queued", 0, 0>>}
    BY <2>1
  <2> QED BY <2>2, <2>3
<1>5. /\ Underway(jobs, <<e, k>>) = {}
      /\ \A c \in Conn : Reached(mSendData[c], out[c], <<e, k>>) = {}
  <2>1. k > emits[e] /\ k \in 1..MaxEmits
    BY <1>2
  <2>2. Fresh
    BY DEF OnceInv
  <2> HIDE DEF k, OnceInv, TypeOK, Shape, Emit, Underway, Reached, EventId
  <2> QED BY ONLY <2>1, <2>2, e \in EventId, Zenon DEF Fresh
<1>6. Owners'
  <2>1. e <= mLastEventId
    BY <1>1 DEF Shape
  <2>2. EventId \subseteq Nat /\ mLastEventId \in Nat
    BY DEF EventId, TypeOK
  <2> QED BY <1>1, <1>2, <2>1, <2>2 DEF OnceInv, Owners
<1>7. Fresh'
  <2> SUFFICES ASSUME NEW f \in EventId, NEW i \in 1..MaxEmits, i > emits'[f]
               PROVE  /\ Underway(jobs', <<f, i>>) = {}
                      /\ \A c \in Conn : Reached(mSendData[c], out[c], <<f, i>>) = {}
    BY <1>1 DEF Fresh
  <2>1. i > emits[f] /\ <<f, i>> # <<e, k>>
    <3>1. CASE f = e
      BY <1>2, <3>1
    <3>2. CASE f # e
      BY <1>2, <3>2
    <3> QED BY <3>1, <3>2
  <2> QED BY <1>4, <2>1 DEF OnceInv, Fresh
<1>8. ASSUME NEW f \in live, NEW i \in 1..emits'[f], NEW d \in Conn
      PROVE  Once(mEvents[f] = d, Reached(mSendData[d], out[d], <<f, i>>), Underway(jobs', <<f, i>>))
  <2>1. CASE f = e /\ i = k
    BY <1>4, <1>5, <2>1 DEF Once
  <2>2. CASE ~(f = e /\ i = k)
    <3>1. i \in 1..emits[f] /\ <<f, i>> # <<e, k>>
      <4>1. f \in EventId
        BY DEF TypeOK
      <4> QED BY <1>2, <2>2, <4>1
    <3> QED BY <1>4, <3>1 DEF OnceInv, ExactlyOnce
  <2> QED BY <2>1, <2>2
<1>9. ExactlyOnce'
  BY <1>1, <1>8 DEF ExactlyOnce
<1> QED BY <1>6, <1>7, <1>9 DEF OnceInv

\* Places on the way after a job is taken out, and another is put in its place.
LEMMA UnderwayReplaced ==
  ASSUME NEW calls, NEW j \in calls, NEW note, j.note # note, NEW new, \A i \in new : i.note = j.note
  PROVE  Underway((calls \ {j}) \cup new, note) = Underway(calls, note)
<1> DEFINE S == (calls \ {j}) \cup new
<1>1. ASSUME NEW p PROVE p \in Underway(S, note) <=> p \in Underway(calls, note)
  <2>1. p \in Underway(S, note) <=> \E i \in S : i.note = note /\ p = <<i.pc, 0, 0>>
    BY UnderwayMembers
  <2>2. p \in Underway(calls, note) <=> \E i \in calls : i.note = note /\ p = <<i.pc, 0, 0>>
    BY UnderwayMembers
  <2>3. \A i : i.note = note => (i \in S <=> i \in calls)
    OBVIOUS
  <2> QED BY <2>1, <2>2, <2>3
<1> HIDE DEF S
<1>2. Underway(S, note) = Underway(calls, note)
  BY <1>1
<1> QED BY <1>2 DEF S

\* The only job of a notification.
LEMMA UnderwayOnly ==
  ASSUME NEW calls, calls \subseteq [note : Note, pc : {"queued", "called"}], NEW j \in calls,
         NEW p, Underway(calls, j.note) = {p}
  PROVE  \A x \in calls : x.note = j.note => x = j
<1> SUFFICES ASSUME NEW x \in calls, x.note = j.note PROVE x = j
  OBVIOUS
<1>1. <<x.pc, 0, 0>> \in Underway(calls, j.note) /\ <<j.pc, 0, 0>> \in Underway(calls, j.note)
  BY UnderwayMembers
<1>2. <<x.pc, 0, 0>> = <<j.pc, 0, 0>>
  BY <1>1
<1>3. x.pc = j.pc
  BY <1>2
<1> QED BY <1>3

\* What becomes of its place.
LEMMA UnderwayMoved ==
  ASSUME NEW calls, NEW j \in calls, \A x \in calls : x.note = j.note => x = j,
         NEW i, i.note = j.note
  PROVE  /\ Underway(calls \ {j}, j.note) = {}
         /\ Underway((calls \ {j}) \cup {i}, j.note) = {<<i.pc, 0, 0>>}
<1>1. \A q : q \notin Underway(calls \ {j}, j.note)
  BY UnderwayMembers
<1>2. \A q : q \in Underway((calls \ {j}) \cup {i}, j.note) <=>
        \E a \in (calls \ {j}) \cup {i} : a.note = j.note /\ q = <<a.pc, 0, 0>>
  BY UnderwayMembers
<1>3. \A q : q \in Underway((calls \ {j}) \cup {i}, j.note) <=> q = <<i.pc, 0, 0>>
  BY <1>2
<1> QED BY <1>1, <1>3

\* Where the notification of a job is: nowhere but with the job.
LEMMA JobOnce ==
  ASSUME TypeOK, OnceInv, NEW j \in jobs, NEW e, NEW k, j.note = <<e, k>>
  PROVE  /\ e \in EventId /\ k \in 1..emits[e]
         /\ e \in live => /\ \A x \in jobs : x.note = j.note => x = j
                          /\ \A c \in Conn : Reached(mSendData[c], out[c], j.note) = {}
<1>1. /\ jobs \subseteq [note : Note, pc : {"queued", "called"}]
      /\ j.note \in Note /\ \A i \in jobs : i.pc \in {"queued", "called"}
  BY DEF TypeOK
<1>2. e \in EventId /\ k \in 1..MaxEmits
  BY <1>1 DEF Note
<1>3. <<j.pc, 0, 0>> \in Underway(jobs, <<e, k>>)
  BY UnderwayMembers
<1>4. k \in 1..emits[e]
  <2>1. ~(k > emits[e])
    BY <1>2, <1>3 DEF OnceInv, Fresh
  <2>2. emits[e] \in Nat
    BY <1>2 DEF TypeOK
  <2> QED BY <1>2, <2>1, <2>2
<1>5. ASSUME e \in live
      PROVE  /\ \A x \in jobs : x.note = j.note => x = j
             /\ \A c \in Conn : Reached(mSendData[c], out[c], j.note) = {}
  <2>1. mEvents[e] \in Conn
    BY <1>2, <1>5 DEF TypeOK, OnceInv, Owners
  <2> DEFINE o == mEvents[e]
             R(c) == Reached(mSendData[c], out[c], <<e, k>>)
             U == Underway(jobs, <<e, k>>)
  <2>2. \A c \in Conn : Once(o = c, R(c), U)
    BY <1>4, <1>5 DEF OnceInv, ExactlyOnce
  <2>3. \A c \in Conn : \A q \in R(c) : q \notin U
    BY <1>1, PlacesDisjoint
  <2> HIDE DEF U, R, o
  <2>4. PICK p : R(o) \cup U = {p}
    BY <2>1, <2>2 DEF Once, o
  <2>5. R(o) = {} /\ U = {<<j.pc, 0, 0>>}
    BY <1>3, <2>1, <2>3, <2>4 DEF U, o
  <2>6. \A c \in Conn : R(c) = {}
    BY <2>2, <2>5 DEF Once
  <2>7. \A x \in jobs : x.note = j.note => x = j
    <3>1. Underway(jobs, j.note) = {p}
      BY <2>4, <2>5 DEF U
    <3> QED BY <1>1, <3>1, UnderwayOnly
  <2> QED BY <2>6, <2>7 DEF R
<1> QED BY <1>2, <1>4, <1>5

\* A job is called, or dropped when the callback was taken away.
LEMMA TakeOnce ==
  ASSUME TypeOK, OnceInv, NEW j \in jobs, TakeJob(j)
  PROVE  OnceInv'
<1>1. /\ UNCHANGED <<out, mEvents, live, mLastEventId, target, mSendData, emits>>
      /\ jobs' = (jobs \ {j}) \cup (IF j.note[1] \in live THEN {[j EXCEPT !.pc = "called"]} ELSE {})
  BY DEF TakeJob, conns, manager
<1>2. j \in [note : Note, pc : {"queued", "called"}]
  BY DEF TypeOK
<1>3. PICK e \in EventId, k \in 1..MaxEmits : j.note = <<e, k>>
  BY <1>2 DEF Note
<1> DEFINE i == [j EXCEPT !.pc = "called"]
<1>4. i.note = j.note /\ i.pc = "called" /\ j.note[1] = e
  BY <1>2, <1>3
<1> HIDE DEF i
<1>5. jobs' = (jobs \ {j}) \cup (IF e \in live THEN {i} ELSE {})
  BY <1>1, <1>4 DEF i
<1>6. k \in 1..emits[e]
  BY <1>3, JobOnce
<1>7. ASSUME NEW note, note # j.note PROVE Underway(jobs', note) = Underway(jobs, note)
  <2>1. ASSUME NEW new, new = IF e \in live THEN {i} ELSE {}
        PROVE  Underway((jobs \ {j}) \cup new, note) = Underway(jobs, note)
    <3>1. \A x \in new : x.note = j.note
      BY <1>4, <2>1
    <3> QED BY <1>7, <3>1, UnderwayReplaced
  <2> QED BY <1>5, <2>1
<1>8. e \in live => /\ Underway(jobs', j.note) = {<<"called", 0, 0>>}
                    /\ \A c \in Conn : Reached(mSendData[c], out[c], j.note) = {}
  <2>1. ASSUME e \in live PROVE Underway(jobs', j.note) = {<<"called", 0, 0>>}
    <3>1. \A x \in jobs : x.note = j.note => x = j
      BY <1>3, <2>1, JobOnce
    <3>2. Underway((jobs \ {j}) \cup {i}, j.note) = {<<i.pc, 0, 0>>}
      BY <1>4, <3>1, UnderwayMoved
    <3> QED BY <1>4, <1>5, <2>1, <3>2
  <2>2. e \in live => \A c \in Conn : Reached(mSendData[c], out[c], j.note) = {}
    BY <1>3, JobOnce
  <2> QED BY <2>1, <2>2
<1>9. Owners'
  BY <1>1 DEF OnceInv, Owners
<1>10. Fresh'
  <2> SUFFICES ASSUME NEW f \in EventId, NEW n \in 1..MaxEmits, n > emits[f]
               PROVE  /\ Underway(jobs', <<f, n>>) = {}
                      /\ \A c \in Conn : Reached(mSendData[c], out[c], <<f, n>>) = {}
    BY <1>1 DEF Fresh
  <2>1. <<f, n>> # j.note
    <3>1. f = e => n # k
      BY <1>6 DEF TypeOK
    <3> QED BY <1>3, <3>1
  <2> QED BY <1>7, <2>1 DEF OnceInv, Fresh
<1>11. ASSUME NEW f \in live, NEW n \in 1..emits[f], NEW d \in Conn
       PROVE  Once(mEvents[f] = d, Reached(mSendData[d], out[d], <<f, n>>), Underway(jobs', <<f, n>>))
  <2>1. CASE <<f, n>> = j.note
    <3>1. f = e
      BY <1>3, <2>1
    <3> QED BY <1>8, <2>1, <3>1 DEF Once
  <2>2. CASE <<f, n>> # j.note
    BY <1>7, <2>2 DEF OnceInv, ExactlyOnce
  <2> QED BY <2>1, <2>2
<1>12. ExactlyOnce'
  BY <1>1, <1>11 DEF ExactlyOnce
<1> QED BY <1>9, <1>10, <1>12 DEF OnceInv

\* _eventsCallback: the notification is collected for the owner, and the job ends.
LEMMA CallbackOnce ==
  ASSUME TypeOK, OnceInv, NEW j \in jobs, EventsCallback(j), server # "stopped"
  PROVE  OnceInv'
<1>1. j \in [note : Note, pc : {"queued", "called"}] /\ j.note \in Note
  BY DEF TypeOK
<1>2. PICK e \in EventId, k \in 1..MaxEmits : j.note = <<e, k>>
  BY <1>1 DEF Note
<1>3. /\ UNCHANGED <<out, mEvents, live, mLastEventId, target, emits>>
      /\ jobs' = jobs \ {j} /\ mSendData' = Notified(e, j.note)
  BY <1>2 DEF EventsCallback, conns, manager
<1>4. /\ \A c \in Conn : mSendData[c] \in Seq(Note)
      /\ \A c \in Conn : mEvents[e] = c => mSendData'[c] = Append(mSendData[c], j.note)
      /\ \A c \in Conn : mEvents[e] # c => mSendData'[c] = mSendData[c]
  BY <1>3 DEF Notified, TypeOK
<1>5. k \in 1..emits[e]
  BY <1>2, JobOnce
<1>6. ASSUME NEW note, note # j.note
      PROVE  /\ Underway(jobs', note) = Underway(jobs, note)
             /\ \A c \in Conn : Reached(mSendData'[c], out[c], note) = Reached(mSendData[c], out[c], note)
  <2>1. ASSUME NEW new, new = {} PROVE Underway((jobs \ {j}) \cup new, note) = Underway(jobs, note)
    BY <1>6, <2>1, UnderwayReplaced
  <2>2. jobs' = (jobs \ {j}) \cup {}
    BY <1>3
  <2>3. ASSUME NEW c \in Conn
        PROVE  Reached(mSendData'[c], out[c], note) = Reached(mSendData[c], out[c], note)
    <3>1. CASE mEvents[e] = c
      <4>1. Reached(Append(mSendData[c], j.note), out[c], note) =
              Reached(mSendData[c], out[c], note)
                \cup (IF j.note = note THEN {<<"held", 0, Len(mSendData[c]) + 1>>} ELSE {})
        BY <1>1, <1>4, ReachedAppend
      <4> QED BY <1>4, <1>6, <3>1, <4>1
    <3>2. CASE mEvents[e] # c
      BY <1>4, <3>2
    <3> QED BY <3>1, <3>2
  <2> QED BY <2>1, <2>2, <2>3
<1>7. ASSUME e \in live
      PROVE  /\ Underway(jobs', j.note) = {}
             /\ \A c \in Conn : Reached(mSendData'[c], out[c], j.note) =
                  IF mEvents[e] = c THEN {<<"held", 0, Len(mSendData[c]) + 1>>} ELSE {}
  <2>1. /\ \A x \in jobs : x.note = j.note => x = j
        /\ \A c \in Conn : Reached(mSendData[c], out[c], j.note) = {}
    BY <1>2, <1>7, JobOnce
  <2>2. Underway(jobs', j.note) = {}
    BY <1>3, <2>1, UnderwayMoved
  <2>3. ASSUME NEW c \in Conn
        PROVE  Reached(mSendData'[c], out[c], j.note) =
                 IF mEvents[e] = c THEN {<<"held", 0, Len(mSendData[c]) + 1>>} ELSE {}
    <3>1. CASE mEvents[e] = c
      <4>1. Reached(Append(mSendData[c], j.note), out[c], j.note) =
              Reached(mSendData[c], out[c], j.note)
                \cup (IF j.note = j.note THEN {<<"held", 0, Len(mSendData[c]) + 1>>} ELSE {})
        BY <1>1, <1>4, ReachedAppend
      <4> QED BY <1>4, <2>1, <3>1, <4>1
    <3>2. CASE mEvents[e] # c
      BY <1>4, <2>1, <3>2
    <3> QED BY <3>1, <3>2
  <2> QED BY <2>2, <2>3
<1>8. Owners'
  BY <1>3 DEF OnceInv, Owners
<1>9. Fresh'
  <2> SUFFICES ASSUME NEW f \in EventId, NEW n \in 1..MaxEmits, n > emits[f]
               PROVE  /\ Underway(jobs', <<f, n>>) = {}
                      /\ \A c \in Conn : Reached(mSendData'[c], out[c], <<f, n>>) = {}
    BY <1>3 DEF Fresh
  <2>1. <<f, n>> # j.note
    <3>1. f = e => n # k
      BY <1>5 DEF TypeOK
    <3> QED BY <1>2, <3>1
  <2> QED BY <1>6, <2>1 DEF OnceInv, Fresh
<1>10. ASSUME NEW f \in live, NEW n \in 1..emits[f], NEW d \in Conn
       PROVE  Once(mEvents[f] = d, Reached(mSendData'[d], out[d], <<f, n>>), Underway(jobs', <<f, n>>))
  <2>1. CASE <<f, n>> = j.note
    <3>1. f = e
      BY <1>2, <2>1
    <3> QED BY <1>7, <2>1, <3>1 DEF Once
  <2>2. CASE <<f, n>> # j.note
    BY <1>6, <2>2 DEF OnceInv, ExactlyOnce
  <2> QED BY <2>1, <2>2
<1>11. ExactlyOnce'
  BY <1>3, <1>10 DEF ExactlyOnce
<1> QED BY <1>8, <1>9, <1>11 DEF OnceInv

\* The results that are written carry no notifications, except those of
\* processEmitEvent.
LEMMA OneReached ==
  ASSUME TypeOK, Shape, NEW c \in Conn, mSendData' = mSendData,
         NEW s \in Seq(Answers), \A n \in 1..Len(s) : s[n].code # "emitEvent",
         out' = [out EXCEPT ![c] = out[c] \o s]
  PROVE  SameReached
<1>1. out[c] \in Seq(Answers) /\ out'[c] = out[c] \o s /\ \A d \in Conn \ {c} : out'[d] = out[d]
  BY DEF Shape
<1>2. \A note : Reached(mSendData[c], out[c] \o s, note) = Reached(mSendData[c], out[c], note)
  BY <1>1, ReachedPlain
<1> QED BY <1>1, <1>2 DEF SameReached

\* The results of subscribing and unsubscribing carry no notifications.
LEMMA HeaderReached ==
  ASSUME TypeOK, Shape, NEW c \in Conn, mSendData' = mSendData, thread[c] \in Busy,
         NEW code \in {"createEvent", "destroyEvent"}, NEW r \in {"ok", "fail"}, NEW b \in Bodies,
         Write(c, <<Header(code, cmd[c].id, r, b)>>)
  PROVE  SameReached
<1> DEFINE h == Header(code, cmd[c].id, r, b)
<1>1. cmd[c].id \in Nat
  BY CommandFacts DEF Shape, Busy
<1>2. h \in Answers /\ h.code # "emitEvent"
  BY <1>1 DEF Header, Answers, EventCodes
<1>3. out' = [out EXCEPT ![c] = out[c] \o <<h>>]
  BY DEF Write
<1> HIDE DEF h
<1>4. <<h>> \in Seq(Answers) /\ \A n \in 1..Len(<<h>>) : <<h>>[n].code # "emitEvent"
  BY <1>2
<1> QED BY <1>3, <1>4, OneReached

\* No step loses a notification, or makes a second one.
LEMMA OnceStep ==
  ASSUME TypeOK, Shape, OnceInv, Next
  PROVE  OnceInv'
<1> USE DEF manager, notes, conns
<1>1. ASSUME UNCHANGED <<out, mSendData>> PROVE SameReached
  BY <1>1 DEF SameReached
<1>2. ASSUME Crash PROVE OnceInv'
  BY <1>1, <1>2, QuietOnce DEF Crash, Unsubscribing
<1>3. ASSUME NEW c \in Conn,
             \/ Accept(c) \/ Ask(c) \/ SendArgs(c) \/ ReadHeader(c) \/ ReadArgs(c)
             \/ ArgsTimeout(c) \/ TooShort(c) \/ Disconnect(c)
      PROVE  OnceInv'
  <2>1. UNCHANGED <<out, mSendData, emits, jobs, mEvents, live, target, mLastEventId>>
    BY <1>3 DEF Accept, Ask, SendArgs, ReadHeader, ReadArgs, ArgsTimeout, TooShort, Disconnect
  <2> QED BY <1>1, <2>1, QuietOnce DEF Unsubscribing
<1>4. ASSUME NEW c \in Conn, Process(c) PROVE OnceInv'
  <2>1. /\ thread[c] = "run" /\ cmd[c].code \in PlainCodes
        /\ UNCHANGED <<mSendData, emits, jobs, mEvents, live, target, mLastEventId>>
    BY <1>4 DEF Process, Runs
  <2>2. PICK r \in {"ok", "fail"} : Write(c, processCommand(cmd[c].code, cmd[c].id, cmd[c].valid, r))
    BY <1>4 DEF Process
  <2> DEFINE s == processCommand(cmd[c].code, cmd[c].id, cmd[c].valid, r)
  <2>3. cmd[c].id \in Nat /\ cmd[c].valid \in BOOLEAN
    BY <2>1, CommandFacts DEF Shape
  <2>4. s \in Seq(Answers) /\ \A n \in 1..Len(s) : s[n].code \in PlainCodes
    BY <2>1, <2>3, ProcessFacts
  <2>5. out' = [out EXCEPT ![c] = out[c] \o s]
    BY <2>2 DEF Write
  <2> HIDE DEF s
  <2>6. \A n \in 1..Len(s) : s[n].code # "emitEvent"
    BY <2>4 DEF PlainCodes
  <2>7. SameReached
    BY <2>1, <2>4, <2>5, <2>6, OneReached
  <2> QED BY <2>1, <2>7, QuietOnce DEF Unsubscribing
<1>5. ASSUME NEW c \in Conn, processCreateEvent(c) PROVE OnceInv'
  <2>1. CASE server = "stopped"
    BY <1>2, <1>5, <2>1 DEF processCreateEvent, NoManager, Crash
  <2>2. CASE server # "stopped"
    <3> DEFINE e == mLastEventId + 1
    <3>1. /\ thread[c] = "run" /\ mLastEventId < MaxEvents
          /\ UNCHANGED <<mSendData, emits, jobs, target>>
          /\ mLastEventId' = e /\ mEvents' = [mEvents EXCEPT ![e] = c]
          /\ live' = live \cup {e} \/ live' = live
          /\ Write(c, <<Header("createEvent", cmd[c].id, "ok", <<e>>)>>)
      BY <1>5, <2>2 DEF processCreateEvent, Runs, NoManager, NextId, createEvent
    <3>2. e \in EventId
      BY <3>1, BoundFacts DEF TypeOK, EventId
    <3> HIDE DEF e
    <3>3. <<e>> \in Bodies
      BY <3>2 DEF Bodies
    <3>4. SameReached
      BY <3>1, <3>3, HeaderReached DEF Busy
    <3> QED BY <3>1, <3>2, <3>4, CreateOnce DEF e
  <2> QED BY <2>1, <2>2
<1>6. ASSUME NEW c \in Conn, NEW e \in EventId, NEW next, mEvents[e] # Null, DestroyCall(c, e, next)
      PROVE  OnceInv'
  <2>1. CASE e \in nulls
    BY <1>2, <1>6, <2>1 DEF DestroyCall, Crash
  <2>2. CASE e \notin nulls
    <3>1. UNCHANGED <<out, mSendData, emits, jobs, mEvents, live, mLastEventId>>
      BY <1>6, <2>2 DEF DestroyCall
    <3>2. Unsubscribing
      BY <1>6, <3>1 DEF Unsubscribing
    <3> QED BY <1>1, <3>1, <3>2, QuietOnce
  <2> QED BY <2>1, <2>2
<1>7. ASSUME NEW c \in Conn, processDestroyEvent(c) PROVE OnceInv'
  <2>1. thread[c] = "run" /\ cmd[c].event \in EventId
    BY <1>7, CommandFacts DEF processDestroyEvent, Runs, Shape
  <2>2. CASE NoManager(c)
    BY <1>2, <2>2 DEF NoManager, Crash
  <2>3. CASE mEvents[cmd[c].event] # Null /\ DestroyCall(c, cmd[c].event, "destroy")
    BY <1>6, <2>1, <2>3
  <2>4. CASE /\ Write(c, <<Header("destroyEvent", cmd[c].id, "fail", <<>>)>>)
             /\ UNCHANGED <<sent, late, input, framed, cmd, manager, notes, server>>
    <3>1. <<>> \in Bodies
      BY DEF Bodies
    <3>2. SameReached
      BY <2>1, <2>4, <3>1, HeaderReached DEF Busy
    <3> QED BY <2>4, <3>2, QuietOnce DEF Unsubscribing
  <2> QED BY <1>7, <2>2, <2>3, <2>4 DEF processDestroyEvent
<1>8. ASSUME NEW c \in Conn, Destroyed(c) PROVE OnceInv'
  <2>1. /\ mEvents' = [mEvents EXCEPT ![target] = Null] /\ live' = live \ {target}
        /\ UNCHANGED <<mLastEventId, mSendData, emits, jobs>>
    BY <1>8 DEF Destroyed
  <2>2. SameReached
    <3>1. CASE thread[c] = "destroy"
      <4>1. Write(c, <<Header("destroyEvent", cmd[c].id, "ok", <<target>>)>>)
        BY <1>8, <3>1 DEF Destroyed
      <4>2. <<target>> \in Bodies
        BY DEF Bodies, TypeOK
      <4> QED BY <2>1, <3>1, <4>1, <4>2, HeaderReached DEF Busy
    <3>2. CASE thread[c] # "destroy"
      BY <1>1, <1>8, <2>1, <3>2 DEF Destroyed
    <3> QED BY <3>1, <3>2
  <2> QED BY <2>1, <2>2, QuietOnce DEF Unsubscribing, Loses
<1>9. ASSUME NEW c \in Conn, Close(c) PROVE OnceInv'
  <2>1. CASE UNCHANGED <<out, mSendData, emits, jobs, mEvents, live, target, mLastEventId>>
    BY <1>1, <2>1, QuietOnce DEF Unsubscribing
  <2>2. CASE NoManager(c)
    BY <1>2, <2>2 DEF NoManager, Crash
  <2>3. ASSUME NEW e \in mEventsSet[c], mEvents[e] # Null, DestroyCall(c, e, "closing")
        PROVE  OnceInv'
    <3>1. e \in EventId
      BY DEF TypeOK
    <3> QED BY <1>6, <2>3, <3>1
  <2> QED BY <1>9, <2>1, <2>2, <2>3 DEF Close
<1>10. ASSUME NEW j \in jobs, EventsCallback(j) PROVE OnceInv'
  <2>1. CASE server = "stopped"
    <3>1. UNCHANGED <<out, mSendData, emits, jobs, mEvents, live, target, mLastEventId>>
      BY <1>10, <2>1 DEF EventsCallback
    <3> QED BY <1>1, <3>1, QuietOnce DEF Unsubscribing
  <2>2. CASE server # "stopped"
    BY <1>10, <2>2, CallbackOnce
  <2> QED BY <2>1, <2>2
<1>11. ASSUME \/ Detach \/ Stop \/ StopDestroys \/ Stopped \/ Exit
              \/ \E e \in EventId : EventOccurs(e) \/ ElementDeleted(e)
       PROVE  OnceInv'
  <2>1. UNCHANGED <<out, mSendData, emits, jobs>>
    BY <1>11 DEF Detach, EventOccurs, ElementDeleted, Stop, StopDestroys, Stopped, Exit
  <2>2. Unsubscribing
    BY <1>11 DEF Detach, EventOccurs, ElementDeleted, Stop, StopDestroys, Stopped, Exit,
       Unsubscribing, Loses
  <2> QED BY <1>1, <2>1, <2>2, QuietOnce
<1> QED
  BY <1>3, <1>4, <1>5, <1>7, <1>8, <1>9, <1>10, <1>11, EmitOnce, OccursOnce, TakeOnce
     DEF Next, Serve, CallBack, Occurrence

\* At the start there are none.
LEMMA OnceInit == Init => OnceInv
<1> SUFFICES ASSUME Init PROVE OnceInv
  OBVIOUS
<1>1. Owners
  BY SctpAssumption DEF Init, Owners
<1>2. ExactlyOnce
  BY DEF Init, ExactlyOnce
<1>3. ASSUME NEW note, NEW c \in Conn PROVE Reached(mSendData[c], out[c], note) = {}
  <2>1. mSendData[c] = <<>> /\ out[c] = <<>>
    BY DEF Init
  <2>2. Len(mSendData[c]) = 0 /\ Len(out[c]) = 0
    BY <2>1
  <2>3. \A p : p \notin Reached(mSendData[c], out[c], note)
    BY <2>2, ReachedMembers
  <2> QED BY <2>3
<1>4. ASSUME NEW note PROVE Underway(jobs, note) = {}
  BY UnderwayMembers DEF Init
<1>5. Fresh
  BY <1>3, <1>4 DEF Fresh
<1> QED BY <1>1, <1>2, <1>5 DEF OnceInv

\* Every event of a subscription reaches the client that made it, once.
THEOREM ExactlyOnceHolds == Spec => []ExactlyOnce
<1>1. IInv /\ OnceInv /\ [Next]_vars => OnceInv'
  <2> SUFFICES ASSUME IInv, OnceInv, [Next]_vars PROVE OnceInv'
    OBVIOUS
  <2>1. TypeOK /\ Shape
    BY DEF IInv, NoDanglingCommand
  <2>2. CASE Next
    BY <2>1, <2>2, OnceStep
  <2>3. CASE UNCHANGED vars
    <3>1. /\ UNCHANGED <<out, mSendData, emits, jobs>> /\ Unsubscribing
      BY <2>3 DEF vars, conns, manager, notes, Unsubscribing
    <3>2. SameReached
      BY <3>1 DEF SameReached
    <3> QED BY <2>1, <3>1, <3>2, QuietOnce
  <2> QED BY <2>2, <2>3
<1>2. OnceInv => ExactlyOnce
  BY DEF OnceInv
<1> QED BY <1>1, <1>2, OnceInit, SctpInvariance, PTL DEF Spec

=============================================================================
