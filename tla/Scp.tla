-------------------------------- MODULE Scp --------------------------------
(***************************************************************************)
(* The interpreter of scp-programs (sc-kpm/scp).                           *)
(*                                                                         *)
(* A program is a graph of operators joined by arcs of three relations:    *)
(* goto, then and else.  A question asks for its interpretation; a process *)
(* is a copy of the program made for one question.  Nothing else drives    *)
(* it: an arc from active_scp_operator to an operator starts the agent of  *)
(* its type, which erases the arc, does the work and marks the operator as *)
(* executed; the arc that marks it starts the synchronizer, which          *)
(* activates the operators that follow.  Every arc is an event, and every  *)
(* event a job of the pool: jobs run at the same time and in any order, so *)
(* what one of them has read another may have changed.                     *)
(*                                                                         *)
(* An operator's own work (search, generation, arithmetic, strings) is its *)
(* result, which depends on the memory and is any that its type can have.  *)
(* Variables are told apart by the number of values they have.             *)
(***************************************************************************)
EXTENDS Integers, FiniteSets

CONSTANTS Quest,    \* questions; a process has the name of its question
          Op,       \* operators of a program
          Var,      \* variables of all processes
          Systems,  \* what each question asks for: functions from Quest to programs
          Roots,    \* questions that a client asks with run_scp_program
          MaxArcs   \* bound: arcs of one kind at one operator at one time

VARIABLES prog,     \* the program of each question: never changes
          quest,    \* the node of a question
          proc,     \* the process of a question
          ops,      \* the operators of each process that exist
          live,     \* the variables that exist
          value,    \* the number of values of each variable
          active,   \* arcs from active_scp_operator
          marks,    \* arcs from the three nodes of executed operators
          jobs      \* callbacks that are waiting for a thread, or run

vars == <<prog, quest, proc, ops, live, value, active, marks, jobs>>

Rel == {"goto", "then", "else"}
Edge == Op \X Rel \X Op
MarkKind == {"executed", "success", "unsuccess"}
ActiveArc == Quest \X Op \X (1..MaxArcs)
Mark == Quest \X Op \X MarkKind \X (1..MaxArcs)

-----------------------------------------------------------------------------
\* What an agent does with the result of its operator: yes, no and error are
\* SCP_RESULT_TRUE, SCP_RESULT_FALSE and SCP_RESULT_ERROR.  after says which mark
\* a result leaves; a result outside of it leaves none, and the process stands
\* still there.  assigns are the results that give ASSIGN operands their
\* values, crash those that end the process.

Conditional == [after |-> [yes |-> "success", no |-> "unsuccess"],
                assigns |-> {"yes"}, crash |-> {}]

Unconditional == [after |-> [yes |-> "executed"], assigns |-> {"yes"}, crash |-> {}]

\* There is no result that the agent looks at.
Always == [after |-> [yes |-> "executed", no |-> "executed", error |-> "executed"],
           assigns |-> {}, crash |-> {}]

SearchElements == [o \in {"searchElStr3", "searchElStr5"} |-> Conditional]

SearchSets == [o \in {"searchSetStr3", "searchSetStr5"} |-> Conditional]

Generation == [o \in {"genEl", "genElStr3", "genElStr5"} |-> Unconditional]

\* Only eraseEl ends its process when it fails.
ErasingElements ==
  [o \in {"eraseEl", "eraseElStr3", "eraseElStr5"} |->
     [Unconditional EXCEPT !.assigns = {},
                           !.crash = IF o = "eraseEl" THEN {"no", "error"} ELSE {}]]

ErasingSets ==
  [o \in {"eraseSetStr3", "eraseSetStr5"} |-> [Unconditional EXCEPT !.assigns = {}]]

Arithmetic == [o \in {"contAdd", "contSub", "contMult", "contDiv"} |-> Unconditional]

Powers == [o \in {"contDivInt", "contDivRem", "contPow", "contLn"} |-> Unconditional]

Trigonometry == [o \in {"contSin", "contCos", "contTg"} |-> Unconditional]

InverseTrigonometry == [o \in {"contASin", "contACos", "contATg"} |-> Unconditional]

Comparison == [o \in {"ifEq", "ifGr"} |-> [Conditional EXCEPT !.assigns = {}]]

StringComparison ==
  [o \in {"stringIfEq", "stringIfGr"} |-> [Conditional EXCEPT !.assigns = {}]]

\* stringSub and these set their operands when the answer is no as well.
StringEnds ==
  [o \in {"stringStartsWith", "stringEndsWith"} |->
     [Conditional EXCEPT !.assigns = {"yes", "no"}]]

StringParts ==
  [o \in {"stringSplit", "stringLen", "stringSub", "stringSlice"} |->
     IF o = "stringSub" THEN [Conditional EXCEPT !.assigns = {"yes", "no"}]
     ELSE Unconditional]

StringConcat == [o \in {"contStringConcat"} |-> Unconditional]

StringChange ==
  [o \in {"stringReplace", "stringToUpperCase", "stringToLowerCase"} |-> Unconditional]

Tests == [o \in {"ifFormCont", "ifType", "ifCoin"} |-> [Conditional EXCEPT !.assigns = {}]]

Assignments ==
  [o \in {"varAssign", "contAssign", "contErase"} |->
     IF o = "contErase" THEN [Unconditional EXCEPT !.assigns = {}] ELSE Unconditional]

Printing == [o \in {"print", "printNl", "printEl"} |-> Always]

Syncronizing == [o \in {"syncronize"} |-> Always]

SystemSearch == [o \in {"sys_search"} |-> Conditional]

SystemGeneration == [o \in {"sys_gen"} |-> Conditional]

Family == {SearchElements, SearchSets, Generation, ErasingElements, ErasingSets, Arithmetic,
           Powers, Trigonometry, InverseTrigonometry, Comparison, StringComparison,
           StringEnds, StringParts, StringConcat, StringChange, Tests, Assignments,
           Printing, Syncronizing, SystemSearch, SystemGeneration}

\* Operators that an agent does not simply call: each has actions of its own.
Special == {"call", "waitReturn", "waitReturnSet", "return", "ifVarAssign", "sys_wait"}

Types == Special \cup UNION {DOMAIN f : f \in Family}

AgentOf(type) == (CHOOSE f \in Family : type \in DOMAIN f)[type]

\* A program: type names the type of each operator, init the operators marked
\* rrel_init, order the arcs, afterAll those that start after all previous
\* ones; fixed and assign the variables of an operator with those modifiers,
\* waits the questions an operator calls or waits for; own the variables
\* copied for a process, params those its call passes, and complete whether
\* the call passes all of them.
Program ==
  [type : [Op -> Types \cup {"none"}], init : SUBSET Op, order : SUBSET Edge, afterAll : SUBSET Op,
   fixed : [Op -> SUBSET Var], assign : [Op -> SUBSET Var], waits : [Op -> SUBSET Quest],
   own : SUBSET Var, params : SUBSET Var, complete : BOOLEAN]

ASSUME ScpAssumption ==
  /\ Systems \subseteq [Quest -> Program] /\ Systems # {}
  /\ Roots \subseteq Quest
  /\ MaxArcs \in Nat \ {0}
  /\ IsFiniteSet(Op)

-----------------------------------------------------------------------------
\* A callback: what happened, and how far its work has come; and, as "waits", the
\* subscriptions of sys_wait in scp_wait_event_table.
Jobs ==
  [on : {"initiated"}, quest : Quest, pc : {"new", "init"}, todo : SUBSET Op]
  \cup [on : {"active"}, arc : ActiveArc, pc : {"new", "body", "returned", "called", "collect"}]
  \cup [on : {"mark"}, mark : Mark, pc : {"new", "walk", "start"}, todo : SUBSET Edge,
        next : SUBSET Op]
  \cup [on : {"waits"}, arc : ActiveArc]
  \cup [on : {"event"}, arc : ActiveArc, pc : {"new", "destroy"}, n : 1..MaxArcs]
  \cup [on : {"finished"}, quest : Quest, pc : {"new", "collect"}, waiter : SUBSET ActiveArc]
  \cup [on : {"useless"}, quest : Quest, pc : {"new", "load", "erase"},
        found : BOOLEAN, keep : SUBSET Var]

TypeOK ==
  /\ prog \in Systems
  /\ quest \in [Quest -> {"none", "open", "finished", "erased"}]
  /\ proc \in [Quest -> {"none", "run", "gone"}]
  /\ ops \in [Quest -> SUBSET Op]
  /\ live \subseteq Var
  /\ value \in [Var -> Nat]
  /\ active \subseteq ActiveArc
  /\ marks \subseteq Mark
  /\ jobs \subseteq Jobs

Init ==
  /\ prog \in Systems
  /\ quest = [q \in Quest |-> "none"]
  /\ proc = [q \in Quest |-> "none"]
  /\ ops = [q \in Quest |-> {}]
  /\ live = {}
  /\ value = [v \in Var |-> 0]
  /\ active = {} /\ marks = {} /\ jobs = {}

Asked(q) == [on |-> "initiated", quest |-> q, pc |-> "new", todo |-> {}]
Activated(a) == [on |-> "active", arc |-> a, pc |-> "new"]
Marked(k) == [on |-> "mark", mark |-> k, pc |-> "new", todo |-> {}, next |-> {}]
Finished(q) == [on |-> "finished", quest |-> q, pc |-> "new", waiter |-> {}]
Useless(q) == [on |-> "useless", quest |-> q, pc |-> "new", found |-> FALSE, keep |-> {}]

Replace(j, k) == (jobs \ {j}) \cup {k}

\* The number of a new arc: one that no arc and no callback uses.
UnusedArc(q, o) ==
  {n \in 1..MaxArcs : /\ <<q, o, n>> \notin active
                      /\ \A j \in jobs : j.on = "active" => j.arc # <<q, o, n>>}

UnusedMark(q, o, k) ==
  {n \in 1..MaxArcs : /\ <<q, o, k, n>> \notin marks
                      /\ \A j \in jobs : j.on = "mark" => j.mark # <<q, o, k, n>>}

Least(S) == CHOOSE n \in S : \A m \in S : n <= m

\* set_active_operator: an arc to an operator that exists, and its event.
\* rest is what remains of the jobs.
Activate(q, o, rest) ==
  IF o \in ops[q]
  THEN /\ UnusedArc(q, o) # {}
       /\ LET a == <<q, o, Least(UnusedArc(q, o))>>
          IN active' = active \cup {a} /\ jobs' = rest \cup {Activated(a)}
  ELSE active' = active /\ jobs' = rest

\* goto_unconditional, goto_conditional_success, goto_conditional_unsuccess
Goto(q, o, kind, rest) ==
  IF o \in ops[q]
  THEN /\ UnusedMark(q, o, kind) # {}
       /\ LET k == <<q, o, kind, Least(UnusedMark(q, o, kind))>>
          IN marks' = marks \cup {k} /\ jobs' = rest \cup {Marked(k)}
  ELSE marks' = marks /\ jobs' = rest

\* operator_interpreting_crash, through mark_scp_process_as_useless; when the
\* process is gone, it marks a node made for the purpose.
Crash(q) == IF proc[q] = "run" THEN {Useless(q)} ELSE {}

-----------------------------------------------------------------------------
\* run_scp_program
RunProgram(q) ==
  /\ q \in Roots /\ quest[q] = "none"
  /\ quest' = [quest EXCEPT ![q] = "open"]
  /\ jobs' = jobs \cup {Asked(q)}
  /\ UNCHANGED <<prog, proc, ops, live, value, active, marks>>

\* create_scp_process copies the program and its variables for the question.
\* A call that misses a parameter is dropped.
CreateProcess(j) ==
  /\ j.on = "initiated" /\ j.pc = "new"
  /\ IF prog[j.quest].complete
     THEN /\ proc' = [proc EXCEPT ![j.quest] = "run"]
          /\ ops' = [ops EXCEPT ![j.quest] = {o \in Op : prog[j.quest].type[o] # "none"}]
          /\ live' = live \cup prog[j.quest].own
          /\ jobs' = Replace(j, [j EXCEPT !.pc = "init", !.todo = prog[j.quest].init])
     ELSE jobs' = jobs \ {j} /\ UNCHANGED <<proc, ops, live>>
  /\ UNCHANGED <<prog, quest, value, active, marks>>

\* Its last loop starts the initial operators one by one; the first of them
\* may be done before the next starts.
StartInitial(j) ==
  /\ j.on = "initiated" /\ j.pc = "init"
  /\ \/ \E o \in j.todo :
          LET rest == jobs \ {j}
              left == j.todo \ {o}
          IN Activate(j.quest, o,
                      IF left = {} THEN rest ELSE rest \cup {[j EXCEPT !.todo = left]})
     \/ /\ prog[j.quest].init = {}
        /\ jobs' = (jobs \ {j}) \cup {Useless(j.quest)}
        /\ UNCHANGED active
  /\ UNCHANGED <<prog, quest, proc, ops, live, value, marks>>

-----------------------------------------------------------------------------
\* The agents of operators.  Each begins with the test that the arc which
\* started it is still there, and leaves when it is not.

Fixed(q, o) == prog[q].fixed[o]
Assign(q, o) == prog[q].assign[o]

\* get_operands_values: erases one value of an ASSIGN operand.
OneErased(S) == [v \in Var |-> IF v \in S /\ value[v] > 0 THEN value[v] - 1 ELSE value[v]]

ArcGone(j) ==
  /\ j.on = "active" /\ j.pc = "new" /\ j.arc \notin active
  /\ jobs' = jobs \ {j}
  /\ UNCHANGED <<prog, quest, proc, ops, live, value, active, marks>>

\* The job's operator o of process q is about to start.
Starts(j, q, o, types) ==
  /\ j.on = "active" /\ j.pc = "new" /\ j.arc \in active
  /\ q = j.arc[1] /\ o = j.arc[2]
  /\ prog[q].type[o] \in types

NoValue(q, o) == {v \in Fixed(q, o) : v \notin live \/ value[v] = 0}

\* An operator erases its arc and reads its operands.  A FIXED variable
\* without a value ends the process; the operands before it are done by then.
ReadOperands(j) ==
  \E q \in Quest, o \in Op :
    /\ Starts(j, q, o, Types \ Special)
    /\ active' = active \ {j.arc}
    /\ IF NoValue(q, o) = {}
       THEN /\ value' = OneErased(Assign(q, o))
            /\ jobs' = Replace(j, [j EXCEPT !.pc = "body"])
       ELSE /\ \E S \in SUBSET Assign(q, o) : value' = OneErased(S)
            /\ jobs' = (jobs \ {j}) \cup Crash(q)
    /\ UNCHANGED <<prog, quest, proc, ops, live, marks>>

\* set_operands_values
Assigned(S) == [v \in Var |-> IF v \in S \cap live THEN value[v] + 1 ELSE value[v]]

\* The operator has worked, and its agent acts on the result r.
Work(j, r) ==
  /\ j.on = "active" /\ j.pc = "body"
  /\ LET q == j.arc[1]
         o == j.arc[2]
         agent == AgentOf(prog[q].type[o])
         rest == jobs \ {j}
     IN /\ value' = IF r \in agent.assigns THEN Assigned(Assign(q, o)) ELSE value
        /\ IF r \in DOMAIN agent.after THEN Goto(q, o, agent.after[r], rest)
           ELSE /\ jobs' = rest \cup (IF r \in agent.crash THEN Crash(q) ELSE {})
                /\ UNCHANGED marks
  /\ UNCHANGED <<prog, quest, proc, ops, live, active>>

\* Mutant: the arc that started the operator is left in place.
IfVarAssignKeeps(j) ==
  \E q \in Quest, o \in Op :
    /\ Starts(j, q, o, {"ifVarAssign"})
    /\ LET tested == Fixed(q, o) \cup Assign(q, o)
       IN Goto(q, o, IF \A v \in tested : v \in live /\ value[v] > 0
                     THEN "success" ELSE "unsuccess", jobs \ {j})
    /\ UNCHANGED <<prog, quest, proc, ops, live, value, active>>

\* The operator ifVarAssign looks for a value and does without operands.
IfVarAssign(j) ==
  \E q \in Quest, o \in Op :
    /\ Starts(j, q, o, {"ifVarAssign"})
    /\ active' = active \ {j.arc}
    /\ value' = OneErased(Assign(q, o))
    /\ LET tested == Fixed(q, o) \cup Assign(q, o)
       IN Goto(q, o, IF \A v \in tested : v \in live /\ value[v] > 0
                     THEN "success" ELSE "unsuccess", jobs \ {j})
    /\ UNCHANGED <<prog, quest, proc, ops, live>>

\* The operator return finishes the question, and then gives up the process.
Return(j) ==
  \E q \in Quest, o \in Op :
    /\ Starts(j, q, o, {"return"})
    /\ active' = active \ {j.arc}
    /\ IF quest[q] = "erased"
       THEN /\ jobs' = Replace(j, [j EXCEPT !.pc = "returned"])
            /\ UNCHANGED quest
       ELSE /\ jobs' = Replace(j, [j EXCEPT !.pc = "returned"]) \cup {Finished(q)}
            /\ quest' = [quest EXCEPT ![q] = "finished"]
    /\ UNCHANGED <<prog, proc, ops, live, value, marks>>

GiveUp(j) ==
  /\ j.on = "active" /\ j.pc = "returned"
  /\ jobs' = (jobs \ {j}) \cup Crash(j.arc[1])
  /\ UNCHANGED <<prog, quest, proc, ops, live, value, active, marks>>

\* The operator call makes a question of the values and variables it passes,
\* and then marks itself.  Of an out-parameter it erases one value, or none when a
\* value passed before it is still what eraseElStr5 looks for, or a parameter after
\* it has none (erase_var_set_values looks for arcs that are no values').
Call(j) ==
  \E q \in Quest, o \in Op :
    /\ Starts(j, q, o, {"call"})
    /\ active' = active \ {j.arc}
    /\ \E S \in SUBSET Assign(q, o) :
         (Fixed(q, o) = {} => S = Assign(q, o)) /\ value' = OneErased(S)
    /\ \E c \in prog[q].waits[o] :
         /\ quest[c] = "none"
         /\ IF NoValue(q, o) = {}
            THEN /\ quest' = [quest EXCEPT ![c] = "open"]
                 /\ jobs' = Replace(j, [j EXCEPT !.pc = "called"]) \cup {Asked(c)}
            ELSE /\ jobs' = (jobs \ {j}) \cup Crash(q)
                 /\ UNCHANGED quest
    /\ UNCHANGED <<prog, proc, ops, live, marks>>

Called(j) ==
  /\ j.on = "active" /\ j.pc = "called"
  /\ Goto(j.arc[1], j.arc[2], "executed", jobs \ {j})
  /\ UNCHANGED <<prog, quest, proc, ops, live, value, active>>

-----------------------------------------------------------------------------
\* Waiting for a question to be finished.  Two callbacks can end it: the agent
\* of waitReturn, which finds the question finished when it starts, and the
\* one that runs when a question is finished, and finds an operator waiting.

\* Mutant: waiting is left to the callback of the finished question.
WaitReturnOnly(j) ==
  \E q \in Quest, o \in Op :
    /\ Starts(j, q, o, {"waitReturn"})
    /\ jobs' = jobs \ {j}
    /\ UNCHANGED <<prog, quest, proc, ops, live, value, active, marks>>

\* The agent of waitReturn leaves its arc in place when it is too early.
WaitReturn(j) ==
  \E q \in Quest, o \in Op :
    /\ Starts(j, q, o, {"waitReturn"})
    /\ \E c \in prog[q].waits[o] :
         jobs' = IF quest[c] = "finished" THEN Replace(j, [j EXCEPT !.pc = "collect"])
                 ELSE jobs \ {j}
    /\ UNCHANGED <<prog, quest, proc, ops, live, value, active, marks>>

\* The question, its parameters and authors are erased, the operator goes on.
Collect(j, arc, S) ==
  /\ quest' = [c \in Quest |-> IF c \in S THEN "erased" ELSE quest[c]]
  /\ active' = active \ {arc}
  /\ Goto(arc[1], arc[2], "executed", jobs \ {j})
  /\ UNCHANGED <<prog, proc, ops, live, value>>

WaitCollects(j) ==
  /\ j.on = "active" /\ j.pc = "collect"
  /\ Collect(j, j.arc, prog[j.arc[1]].waits[j.arc[2]])

\* waitReturnSet looks for questions among the elements of its variable, not
\* of the variable's value: it finds none, erases the variable and goes on.
WaitReturnSet(j) ==
  \E q \in Quest, o \in Op :
    /\ Starts(j, q, o, {"waitReturnSet"})
    /\ live' = live \ Fixed(q, o)
    /\ active' = active \ {j.arc}
    /\ Goto(q, o, "executed", jobs \ {j})
    /\ UNCHANGED <<prog, quest, proc, ops, value>>

\* Operators that wait for question c and are active but not executed.
Waiting(c) ==
  {a \in active : /\ prog[a[1]].type[a[2]] \in {"waitReturn", "waitReturnSet"}
                  /\ c \in prog[a[1]].waits[a[2]]
                  /\ \A n \in 1..MaxArcs : <<a[1], a[2], "executed", n>> \notin marks}

\* interpreting_question_finished_successfully
QuestionFinished(j) ==
  /\ j.on = "finished" /\ j.pc = "new"
  /\ IF quest[j.quest] = "finished" /\ Waiting(j.quest) # {}
     THEN \E a \in Waiting(j.quest) :
            jobs' = Replace(j, [j EXCEPT !.pc = "collect", !.waiter = {a}])
     ELSE jobs' = jobs \ {j}
  /\ UNCHANGED <<prog, quest, proc, ops, live, value, active, marks>>

\* An operator that waits for a set of questions goes on with the last one.
FinishedCollects(j) ==
  /\ j.on = "finished" /\ j.pc = "collect"
  /\ \E a \in j.waiter :
       IF \A c \in prog[a[1]].waits[a[2]] \ {j.quest} : quest[c] \in {"none", "erased"}
       THEN Collect(j, a, {j.quest})
       ELSE /\ quest' = [quest EXCEPT ![j.quest] = "erased"]
            /\ jobs' = jobs \ {j}
            /\ UNCHANGED <<prog, proc, ops, live, value, active, marks>>

-----------------------------------------------------------------------------
\* sys_wait subscribes to an event, and leaves its arc in place; nothing goes
\* on when the event type is unknown.
SysWait(j) ==
  \E q \in Quest, o \in Op :
    /\ Starts(j, q, o, {"sys_wait"})
    /\ jobs' \in {jobs \ {j}, Replace(j, [on |-> "waits", arc |-> j.arc])}
    /\ value' = OneErased(Assign(q, o))
    /\ UNCHANGED <<prog, quest, proc, ops, live, active, marks>>

\* The event occurs, and may occur again while its callback runs.
EventOccurs(j) ==
  /\ j.on = "waits"
  /\ \E n \in 1..MaxArcs :
       LET e == [on |-> "event", arc |-> j.arc, pc |-> "new", n |-> n]
       IN e \notin jobs /\ jobs' = jobs \cup {e}
  /\ UNCHANGED <<prog, quest, proc, ops, live, value, active, marks>>

\* sys_wait_processor: the first callback destroys its own subscription, for
\* whose callbacks sc_event_destroy waits: it never gets any further.  Only a
\* second one, which runs already, finds the subscription gone and goes on.
SysWaitProcessor(j) ==
  /\ j.on = "event" /\ j.pc = "new"
  /\ \E sub \in {[on |-> "waits", arc |-> j.arc]} :
       IF j.arc \in active /\ sub \in jobs
       THEN /\ jobs' = Replace(j, [j EXCEPT !.pc = "destroy"]) \ {sub}
            /\ UNCHANGED <<active, marks>>
       ELSE \/ /\ j.arc \in active
               /\ active' = active \ {j.arc}
               /\ Goto(j.arc[1], j.arc[2], "executed", jobs \ {j})
            \/ jobs' = jobs \ {j} /\ UNCHANGED <<active, marks>>
  /\ UNCHANGED <<prog, quest, proc, ops, live, value>>

-----------------------------------------------------------------------------
\* syncronize_scp_operator: a mark starts the operators behind.

MarkGone(j) ==
  /\ j.on = "mark" /\ j.pc = "new" /\ j.mark \notin marks
  /\ jobs' = jobs \ {j}
  /\ UNCHANGED <<prog, quest, proc, ops, live, value, active, marks>>

\* The relations that a mark follows.
Follows(kind) ==
  {"goto"} \cup (CASE kind = "success" -> {"then"}
                   [] kind = "unsuccess" -> {"else"}
                   [] OTHER -> {})

\* Mutant: goto asks for success as then does.
SatisfiesSuccess(kind, rel) == kind = IF rel = "else" THEN "unsuccess" ELSE "success"

\* The marks that satisfy a relation.
Satisfies(kind, rel) == rel \in Follows(kind)

\* The job goes on with the arcs in S, and ends when there are none.
WalkOn(j, S) ==
  (jobs \ {j}) \cup (IF S = {} THEN {}
                    ELSE {[j EXCEPT !.pc = "walk", !.todo = S, !.next = {}]})

Behind(q, o, kind) == {e \in prog[q].order : e[1] = o /\ e[2] \in Follows(kind)}

Syncronize(j) ==
  /\ j.on = "mark" /\ j.pc = "new" /\ j.mark \in marks
  /\ jobs' = WalkOn(j, Behind(j.mark[1], j.mark[2], j.mark[3]))
  /\ UNCHANGED <<prog, quest, proc, ops, live, value, active, marks>>

IsActive(q, o) == \E n \in 1..MaxArcs : <<q, o, n>> \in active

\* Operators that come before an operator that waits for all of them.
Others(q, e) ==
  IF e[3] \in prog[q].afterAll
  THEN {d \in prog[q].order : d[3] = e[3] /\ d # e /\ d[1] \in ops[q]}
  ELSE {}

MarksOf(q, o) == {k \in marks : k[1] = q /\ k[2] = o}

\* Mutant: any mark will do.
SuitsAny(q, e) == \A d \in Others(q, e) : MarksOf(q, d[1]) # {}

\* start_next_operator: each of the others has a mark that suits its arc.  The
\* first mark that it meets decides, so an operator with two may go either way.
Suits(q, e) == \A d \in Others(q, e) : \E k \in MarksOf(q, d[1]) : Satisfies(k[3], d[2])

Refuses(q, e) ==
  \E d \in Others(q, e) : \/ MarksOf(q, d[1]) = {}
                          \/ \E k \in MarksOf(q, d[1]) : ~Satisfies(k[3], d[2])

\* One turn of the loop over the arcs from the operator: what is behind an arc
\* is to start unless it is active already, or not all before it are done.
Walk(j) ==
  /\ j.on = "mark" /\ j.pc = "walk"
  /\ \E q \in {j.mark[1]}, e \in j.todo :
       \/ /\ {e[1], e[3]} \subseteq ops[q]
          /\ ~IsActive(q, e[3]) /\ Suits(q, e)
          /\ jobs' = Replace(j, [j EXCEPT !.pc = "start", !.todo = @ \ {e}, !.next = {e[3]}])
       \/ /\ \/ ~({e[1], e[3]} \subseteq ops[q])
             \/ IsActive(q, e[3]) \/ Refuses(q, e)
          /\ jobs' = WalkOn(j, j.todo \ {e})
  /\ UNCHANGED <<prog, quest, proc, ops, live, value, active, marks>>

\* erase_executed_mark: an operator loses one mark, that of its last execution.
EraseExecutedMark(q, o) ==
  IF MarksOf(q, o) = {} THEN UNCHANGED marks
  ELSE \E k \in MarksOf(q, o) : marks' = marks \ {k}

\* The end of start_next_operator.
StartNext(j) ==
  /\ j.on = "mark" /\ j.pc = "start"
  /\ \E q \in {j.mark[1]}, o \in j.next :
       /\ EraseExecutedMark(q, o)
       /\ Activate(q, o, WalkOn(j, j.todo))
  /\ UNCHANGED <<prog, quest, proc, ops, live, value>>

-----------------------------------------------------------------------------
\* destroy_scp_process

\* Mutant: a process without a question is left alone.
FindParametersOrLeave(j) ==
  /\ j.on = "useless" /\ j.pc = "new"
  /\ jobs' = IF proc[j.quest] = "run" /\ quest[j.quest] # "erased"
             THEN Replace(j, [j EXCEPT !.pc = "load", !.found = TRUE])
             ELSE jobs \ {j}
  /\ UNCHANGED <<prog, quest, proc, ops, live, value, active, marks>>

\* It looks for the question and the parameters of its call.
FindParameters(j) ==
  /\ j.on = "useless" /\ j.pc = "new"
  /\ jobs' = IF proc[j.quest] = "run"
             THEN Replace(j, [j EXCEPT !.pc = "load", !.found = quest[j.quest] # "erased"])
             ELSE jobs \ {j}
  /\ UNCHANGED <<prog, quest, proc, ops, live, value, active, marks>>

\* Then it lists the parameters, which are not to be erased; the list is empty
\* when the caller has collected the question in between.
LoadParameters(j) ==
  /\ j.on = "useless" /\ j.pc = "load"
  /\ jobs' = Replace(j, [j EXCEPT !.pc = "erase",
                !.keep = IF j.found /\ quest[j.quest] # "erased"
                         THEN prog[j.quest].params ELSE {}])
  /\ UNCHANGED <<prog, quest, proc, ops, live, value, active, marks>>

\* Mutant: the list of parameters is not looked at.
ErasableAll(j, o) ==
  IF j.found THEN Fixed(j.quest, o) \cup Assign(j.quest, o) ELSE {}

\* delete_vars_from_set: the variables of an operator that are no parameters;
\* none at all when there is no list.
Erasable(j, o) ==
  IF j.found THEN (Fixed(j.quest, o) \cup Assign(j.quest, o)) \ j.keep ELSE {}

EraseOperator(j, o) ==
  /\ j.on = "useless" /\ j.pc = "erase" /\ o \in ops[j.quest]
  /\ ops' = [ops EXCEPT ![j.quest] = @ \ {o}]
  /\ live' = live \ Erasable(j, o)
  /\ value' = [v \in Var |-> IF v \in Erasable(j, o) THEN 0 ELSE value[v]]
  /\ active' = {a \in active : a[1] # j.quest \/ a[2] # o}
  /\ marks' = marks \ MarksOf(j.quest, o)
  /\ UNCHANGED <<prog, quest, proc, jobs>>

EraseProcess(j) ==
  /\ j.on = "useless" /\ j.pc = "erase" /\ ops[j.quest] = {}
  /\ proc' = [proc EXCEPT ![j.quest] = "gone"]
  /\ jobs' = jobs \ {j}
  /\ UNCHANGED <<prog, quest, ops, live, value, active, marks>>

-----------------------------------------------------------------------------
Results == {"yes", "no", "error"}

\* A thread of the pool takes job j one step further.
Step(j) ==
  \/ CreateProcess(j) \/ StartInitial(j)
  \/ ArcGone(j) \/ ReadOperands(j) \/ (\E r \in Results : Work(j, r)) \/ IfVarAssign(j)
  \/ Return(j) \/ GiveUp(j) \/ Call(j) \/ Called(j)
  \/ WaitReturn(j) \/ WaitCollects(j) \/ WaitReturnSet(j)
  \/ QuestionFinished(j) \/ FinishedCollects(j) \/ SysWait(j) \/ SysWaitProcessor(j)
  \/ MarkGone(j) \/ Syncronize(j) \/ Walk(j) \/ StartNext(j)
  \/ FindParameters(j) \/ LoadParameters(j)
  \/ (\E o \in Op : EraseOperator(j, o)) \/ EraseProcess(j)

Next ==
  \/ \E q \in Quest : RunProgram(q)
  \/ \E j \in jobs : Step(j) \/ EventOccurs(j)

\* Threads of the pool are never idle while jobs wait: each job is taken, and
\* runs to its end.
Spec == Init /\ [][Next]_vars /\ WF_vars(\E j \in jobs : Step(j))

-----------------------------------------------------------------------------
\* Programs of which the properties speak.

WaitTypes == {"waitReturn", "waitReturnSet", "sys_wait"}

\* Programs without a fork, and without operators that wait: one initial
\* operator, one way on from each mark.
Straight(P) ==
  /\ Cardinality(P.init) = 1
  /\ \A o \in Op :
       /\ P.type[o] \notin WaitTypes
       /\ \A k \in MarkKind : Cardinality({e \in P.order : e[1] = o /\ e[2] \in Follows(k)}) <= 1

\* No operator in S is started twice: it is initial, or one arc leads to it,
\* from an operator in S that does not wait (one that does may be marked twice).
StartedOnce(P, S) ==
  \A d \in P.order : d[3] \in S =>
    /\ d[3] \notin P.init
    /\ d[1] \in S /\ P.type[d[1]] \notin WaitTypes
    /\ \A e \in P.order : e[3] = d[3] => e = d

Once(P) == UNION {S \in SUBSET Op : StartedOnce(P, S)}

\* The operators before a join are executed once: there is no way back to them.
Orderly(P) ==
  \A d \in P.order : d[3] \in P.afterAll => d[1] \in Once(P) /\ d[3] \notin P.init

\* Operator o of program P assigns v when it has worked.
Writes(P, o, v) == P.type[o] \in Types \ Special /\ v \in P.assign[o]

\* Operators that assign one variable are never at work at the same time.
OneWriter(s, v) ==
  \A p, q \in Quest, a, b \in Op : Writes(s[p], a, v) /\ Writes(s[q], b, v) =>
    p = q /\ (Straight(s[p]) \/ (a = b /\ a \in Once(s[p])))

\* Processes share no variables but those passed, each to one call; all that a
\* process owns occurs in its operators; what a set of questions is waited for
\* in is not passed.
Tidy(s) ==
  /\ \A p, q \in Quest : p # q => s[p].own \cap s[q].own = {} /\ s[p].params \cap s[q].params = {}
  /\ \A q \in Quest :
       /\ s[q].own \cap s[q].params = {}
       /\ \A o \in Op : s[q].fixed[o] \cup s[q].assign[o] \subseteq s[q].own \cup s[q].params
       /\ \A v \in s[q].own : \E o \in Op : s[q].type[o] # "none" /\ v \in s[q].fixed[o] \cup s[q].assign[o]
       /\ \A o \in Op, p \in Quest : s[q].type[o] = "waitReturnSet" => s[q].fixed[o] \cap s[p].params = {}
  /\ \A v \in Var : OneWriter(s, v)

-----------------------------------------------------------------------------
\* Properties.

\* An operator that waits for all the operators before it is active only when
\* each of them has been executed with the result that its arc asks for,
\* whatever order their marks were processed in.  (An operator that is
\* executed again loses its mark: the property is about programs that are
\* Orderly.)
JoinWaits ==
  \A a \in active : \A d \in prog[a[1]].order :
    a[2] \in prog[a[1]].afterAll /\ d[3] = a[2] /\ d[1] \in ops[a[1]] =>
      \E k \in MarksOf(a[1], d[1]) : Satisfies(k[3], d[2])

Sequential(q) == Straight(prog[q])

\* Where control is in process q: arcs that were not taken up yet, operators at
\* work, marks that were not followed yet.
Control(q) ==
  Cardinality({a \in active : a[1] = q})
  + Cardinality({j \in jobs : j.on = "active" /\ j.arc[1] = q /\ j.pc # "new"})
  + Cardinality({j \in jobs : j.on = "mark" /\ j.mark \in marks /\ j.mark[1] = q})

\* A sequential program is executed sequentially, although an arc activates
\* its operator, a job takes it up, another follows the mark and all of them
\* may be delayed: never are two of its operators at work, or one twice.
\* (After waitReturn two may be: see QuestionFinished.)
OneControl == TypeOK /\ \A q \in Quest : Sequential(q) => Control(q) <= 1

Sound(q) == proc[q] = "run" /\ \A j \in jobs : j.on = "useless" => j.quest # q

\* As long as the caller has not collected the question, the end of a process
\* erases all of its variables and none of those its caller has passed to it,
\* also when it ended in the midst of its work; and an operator that assigns a
\* variable again, in a loop say, first erases the value it had.  (The property
\* is about systems that are Tidy.)
ErasesOwn ==
  /\ \A q \in Quest : proc[q] = "gone" /\ quest[q] # "erased" =>
       /\ prog[q].own \cap live = {}
       /\ \A p \in Quest : Sound(p) => prog[q].params \cap prog[p].own \subseteq live
  /\ \A v \in Var : value[v] <= 1

\* No answer is lost: when a question is finished and an operator waits for
\* it, one of the two callbacks that may find out lets the operator go on,
\* whichever of the operator and the answer came first.
Answered == {c \in Quest : quest[c] = "finished" /\ Waiting(c) # {}}

NoLostAnswer == Answered # {} ~> Answered = {}

\* Programs of operators that cannot fail, without operands and calls.
Reliable(q) ==
  \A o \in Op : /\ prog[q].type[o] \in DOMAIN Printing \cup {"syncronize", "return", "none"}
                /\ Fixed(q, o) = {}

ReliableRuns == {q \in Quest : proc[q] = "run" /\ Reliable(q)}

\* Nothing is lost between operators: a process whose operators cannot fail
\* comes to its end and is erased; its forks are joined although every
\* predecessor tests the marks of the others while they are being set.
ReliableEnds == ReliableRuns # {} ~> ReliableRuns = {}

\* A process that has answered its question is erased in the end, also when
\* the caller has collected the question before, and when it is given up twice.
Returned == {q \in Quest : proc[q] = "run" /\ quest[q] \in {"finished", "erased"}}

ReturnedEnds == Returned # {} ~> Returned = {}
=============================================================================
