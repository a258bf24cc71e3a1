------------------------------- MODULE MCSctp -------------------------------
(* Two clients for TLC: one that subscribes and asks for its notifications,  *)
(* one that destroys what is not its own and sends arguments of any length.  *)
EXTENDS Sctp

CONSTANTS c1, c2

MCConn == {c1, c2}

Req(code, full, valid) == [code |-> code, full |-> full, valid |-> valid, event |-> 1]

MCSends ==
  [c \in MCConn |->
     IF c = c1 THEN {Req("createEvent", TRUE, TRUE), Req("emitEvent", TRUE, TRUE)}
     ELSE {Req("destroyEvent", TRUE, TRUE), Req("iterate", TRUE, TRUE), Req("iterate", TRUE, FALSE),
           Req("iterate", FALSE, TRUE), Req("construct", FALSE, TRUE)}]

MCGarbage == {Req("destroyEvent", TRUE, TRUE)}

MCCmds == [c \in MCConn |-> IF c = c1 THEN 2 ELSE 1]
=============================================================================
