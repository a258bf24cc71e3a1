------------------------------- MODULE MCScp -------------------------------
(* Programs for TLC: a fork that is joined, a loop that ends when a search   *)
(* finds nothing, a call that is waited for, and a call that goes wrong.     *)
EXTENDS Scp

MCQuest == {"main", "sub", "other"}
MCOp == {"a", "b", "c", "d", "e"}
MCVar == {"x", "y", "z"}

\* A program of operators ops of the given types and order.
Plain(types, order) ==
  [type |-> [o \in MCOp |-> IF o \in DOMAIN types THEN types[o] ELSE "none"],
   init |-> {"a"}, order |-> order, afterAll |-> {},
   fixed |-> [o \in MCOp |-> {}], assign |-> [o \in MCOp |-> {}],
   waits |-> [o \in MCOp |-> {}], own |-> {}, params |-> {}, complete |-> TRUE]

Nothing == Plain([a |-> "return"], {})

\* A fork of two operators that cannot fail, and its join.
ForkJoin ==
  [Plain([a |-> "printNl", b |-> "printEl", c |-> "print", d |-> "syncronize", e |-> "return"],
         {<<"a", "goto", "b">>, <<"a", "goto", "c">>, <<"b", "goto", "d">>,
          <<"c", "goto", "d">>, <<"d", "goto", "e">>})
   EXCEPT !.afterAll = {"d"}]

\* A join that wants one branch to succeed and the other to fail.
ChoiceJoin ==
  [Plain([a |-> "searchElStr3", b |-> "ifCoin", c |-> "genEl", d |-> "return"],
         {<<"a", "then", "c">>, <<"b", "else", "c">>, <<"c", "goto", "d">>})
   EXCEPT !.init = {"a", "b"}, !.afterAll = {"c"}, !.own = {"x"},
          !.assign["a"] = {"x"}, !.fixed["d"] = {"x"}]

\* A loop that ends when its search finds nothing.
Loop ==
  [Plain([a |-> "searchElStr3", b |-> "ifVarAssign", c |-> "eraseEl", d |-> "return"],
         {<<"a", "then", "b">>, <<"b", "then", "c">>, <<"c", "goto", "a">>,
          <<"a", "else", "d">>, <<"b", "else", "d">>})
   EXCEPT !.own = {"x"}, !.assign["a"] = {"x"}, !.fixed["b"] = {"x"}, !.fixed["c"] = {"x"}]

\* The process returns while one of its branches is at work.
EarlyReturn ==
  [Plain([a |-> "genEl", b |-> "return", c |-> "stringSub", d |-> "printEl"],
         {<<"a", "goto", "b">>, <<"a", "goto", "c">>, <<"c", "else", "d">>})
   EXCEPT !.own = {"x", "y"}, !.assign["a"] = {"x"}, !.fixed["c"] = {"x"},
          !.assign["c"] = {"y"}, !.fixed["d"] = {"x", "y"}]

Caller ==
  [Plain([a |-> "call", b |-> "waitReturn", c |-> "printEl", d |-> "return"],
         {<<"a", "goto", "b">>, <<"b", "goto", "c">>, <<"c", "goto", "d">>})
   EXCEPT !.own = {"y"}, !.assign["a"] = {"y"}, !.fixed["c"] = {"y"},
          !.waits["a"] = {"sub"}, !.waits["b"] = {"sub"}]

\* The variable passed has no value, or has lost it, or the callee is not given
\* all it needs.
BadCaller ==
  [Plain([a |-> "genEl", b |-> "call", c |-> "waitReturn", d |-> "return"],
         {<<"a", "goto", "b">>, <<"b", "goto", "c">>, <<"c", "goto", "d">>})
   EXCEPT !.own = {"x", "y"}, !.init = {"a", "b"}, !.assign["a"] = {"x"}, !.fixed["b"] = {"x"},
          !.assign["b"] = {"y"}, !.waits["b"] = {"sub"}, !.waits["c"] = {"sub"}]

Callee ==
  [Plain([a |-> "genEl", b |-> "varAssign", c |-> "return"],
         {<<"a", "goto", "b">>, <<"b", "goto", "c">>})
   EXCEPT !.own = {"z"}, !.params = {"y"}, !.assign["a"] = {"z"},
          !.fixed["b"] = {"z"}, !.assign["b"] = {"y"}]

\* Two calls, one of a program without an initial operator, and a wait for both.
SetCaller ==
  [Plain([a |-> "call", b |-> "call", c |-> "waitReturnSet", d |-> "return"],
         {<<"a", "goto", "b">>, <<"b", "goto", "c">>, <<"c", "goto", "d">>})
   EXCEPT !.own = {"x"}, !.waits["a"] = {"sub"}, !.waits["b"] = {"other"},
          !.waits["c"] = {"sub", "other"}, !.fixed["c"] = {"x"}]

\* A wait for an event.
EventWaiter ==
  Plain([a |-> "sys_wait", b |-> "return"], {<<"a", "goto", "b">>})

MCSystems ==
  {[main |-> EventWaiter, sub |-> Nothing, other |-> Nothing],
   [main |-> ForkJoin, sub |-> Nothing, other |-> Nothing],
   [main |-> ChoiceJoin, sub |-> Nothing, other |-> Nothing],
   [main |-> Loop, sub |-> Nothing, other |-> Nothing],
   [main |-> EarlyReturn, sub |-> Nothing, other |-> Nothing],
   [main |-> Caller, sub |-> Callee, other |-> Nothing],
   [main |-> BadCaller, sub |-> [Callee EXCEPT !.complete = FALSE], other |-> Nothing],
   [main |-> SetCaller, sub |-> Nothing, other |-> [Nothing EXCEPT !.init = {}]]}

\* What the theorems on JoinWaits and ErasesOwn ask of programs, these have.
ASSUME MCSystemsAssumption ==
  \A s \in MCSystems : Tidy(s) /\ \A q \in MCQuest : Orderly(s[q])
=============================================================================
