----------------------------- MODULE ScpProofs -----------------------------
(***************************************************************************)
(* Proofs about the interpreter of scp-programs, for any questions and any *)
(* programs: a sequential program is executed sequentially (OneControl),   *)
(* a join waits for all that is before it (JoinWaits), and a process       *)
(* erases what is its own and nothing else (ErasesOwn).                    *)
(*                                                                         *)
(* The control of a process is passed on from arc to job to mark.  IInv    *)
(* says for a sequential program that it is in one place at most, also in  *)
(* those that OneControl does not count: a process that is about to start, *)
(* and a mark that was erased while it is being followed.  StartInv says   *)
(* the same of one operator, if it is one that is executed once, in a      *)
(* program of any kind.  VarInv is about the variables; that no two        *)
(* operators at work assign the same one follows from the first two.       *)
(***************************************************************************)
EXTENDS Scp, FiniteSetTheorems, WellFoundedInduction, TLAPS

\* The kinds of jobs.
InitiatedJob == [on : {"initiated"}, quest : Quest, pc : {"new", "init"}, todo : SUBSET Op]
ActiveJob == [on : {"active"}, arc : ActiveArc, pc : {"new", "body", "returned", "called", "collect"}]
MarkJob == [on : {"mark"}, mark : Mark, pc : {"new", "walk", "start"}, todo : SUBSET Edge, next : SUBSET Op]
WaitsJob == [on : {"waits"}, arc : ActiveArc]
EventJob == [on : {"event"}, arc : ActiveArc, pc : {"new", "destroy"}, n : 1..MaxArcs]
FinishedJob == [on : {"finished"}, quest : Quest, pc : {"new", "collect"}, waiter : SUBSET ActiveArc]
UselessJob == [on : {"useless"}, quest : Quest, pc : {"new", "load", "erase"}, found : BOOLEAN, keep : SUBSET Var]

\* The type of the operator that an arc activates.
TypeOf(a) == prog[a[1]].type[a[2]]

\* Arcs and jobs are of questions that were asked.
AskedJob(j) ==
  /\ j.on = "initiated" => quest[j.quest] # "none"
  /\ j.on \in {"active", "waits", "event"} => quest[j.arc[1]] # "none"
  /\ j.on = "mark" => quest[j.mark[1]] # "none"
  /\ j.on = "finished" => \A a \in j.waiter : quest[a[1]] # "none"

AskedInv == (\A a \in active : quest[a[1]] # "none") /\ \A j \in jobs : AskedJob(j)

\* Jobs in the midst of their work are of operators of the type that it is for.
WorkJob(j) ==
  /\ j.on = "initiated" => j.todo \subseteq prog[j.quest].init
  /\ j.on = "active" /\ j.pc = "body" => TypeOf(j.arc) \in Types \ Special
  /\ j.on = "active" /\ j.pc = "collect" => TypeOf(j.arc) = "waitReturn"
  /\ j.on \in {"waits", "event"} => TypeOf(j.arc) = "sys_wait"
  /\ j.on = "finished" => \A a \in j.waiter : TypeOf(a) \in {"waitReturn", "waitReturnSet"}

WorkInv == \A j \in jobs : WorkJob(j)

\* A job has the control of process q.
Holds(j, M, q) ==
  \/ j.on = "initiated" /\ j.quest = q
  \/ j.on = "active" /\ j.arc[1] = q /\ j.pc # "new"
  \/ j.on = "mark" /\ j.mark[1] = q /\ (j.pc # "new" \/ j.mark \in M)

\* Control is in one place at most.
One(A, M, J, q) ==
  /\ \A a, b \in A : a[1] = q /\ b[1] = q => a = b
  /\ \A i, j \in J : Holds(i, M, q) /\ Holds(j, M, q) => i = j
  /\ \A a \in A, j \in J : ~(a[1] = q /\ Holds(j, M, q))

\* There is one way on from each mark of a sequential program.
OneWay(j) ==
  j.on = "mark" => /\ j.pc = "new" => j.todo = {}
                   /\ j.pc = "start" => j.todo = {}
                   /\ \A d, e \in j.todo : d = e

ControlInv ==
  \A q \in Quest : Sequential(q) =>
    /\ One(active, marks, jobs, q)
    /\ \A j \in jobs : j.on = "mark" /\ j.mark[1] = q => OneWay(j)

\* The inductive invariant.
IInv == TypeOK /\ AskedInv /\ WorkInv /\ ControlInv

-----------------------------------------------------------------------------
\* Jobs and programs.

LEMMA JobKinds ==
  ASSUME NEW j \in Jobs
  PROVE  /\ j.on \in {"initiated", "active", "mark", "waits", "event", "finished", "useless"}
         /\ j.on = "initiated" => j \in InitiatedJob
         /\ j.on = "active" => j \in ActiveJob
         /\ j.on = "mark" => j \in MarkJob
         /\ j.on = "waits" => j \in WaitsJob
         /\ j.on = "event" => j \in EventJob
         /\ j.on = "finished" => j \in FinishedJob
         /\ j.on = "useless" => j \in UselessJob
<1>1. \/ j \in InitiatedJob \/ j \in ActiveJob \/ j \in MarkJob \/ j \in WaitsJob \/ j \in EventJob
      \/ j \in FinishedJob \/ j \in UselessJob
  BY DEF Jobs, InitiatedJob, ActiveJob, MarkJob, WaitsJob, EventJob, FinishedJob, UselessJob
<1>2. /\ j \in InitiatedJob => j.on = "initiated"
      /\ j \in ActiveJob => j.on = "active"
      /\ j \in MarkJob => j.on = "mark"
      /\ j \in WaitsJob => j.on = "waits"
      /\ j \in EventJob => j.on = "event"
      /\ j \in FinishedJob => j.on = "finished"
      /\ j \in UselessJob => j.on = "useless"
  BY DEF InitiatedJob, ActiveJob, MarkJob, WaitsJob, EventJob, FinishedJob, UselessJob
<1> QED BY <1>1, <1>2

LEMMA JobsAre ==
  /\ InitiatedJob \subseteq Jobs /\ ActiveJob \subseteq Jobs /\ MarkJob \subseteq Jobs /\ WaitsJob \subseteq Jobs
  /\ EventJob \subseteq Jobs /\ FinishedJob \subseteq Jobs /\ UselessJob \subseteq Jobs
BY DEF Jobs, InitiatedJob, ActiveJob, MarkJob, WaitsJob, EventJob, FinishedJob, UselessJob

\* Arcs and marks name a question and an operator.
LEMMA ArcParts ==
  ASSUME NEW a \in ActiveArc
  PROVE  a[1] \in Quest /\ a[2] \in Op /\ a[3] \in 1..MaxArcs /\ a = <<a[1], a[2], a[3]>>
BY DEF ActiveArc

LEMMA MarkParts ==
  ASSUME NEW k \in Mark
  PROVE  k[1] \in Quest /\ k[2] \in Op /\ k[3] \in MarkKind /\ k[4] \in 1..MaxArcs /\ k = <<k[1], k[2], k[3], k[4]>>
BY DEF Mark

\* The parts of programs.
LEMMA Programs ==
  ASSUME TypeOK, NEW q \in Quest
  PROVE  /\ prog[q] \in Program /\ prog[q].init \subseteq Op /\ prog[q].order \subseteq Edge
         /\ prog[q].own \subseteq Var /\ prog[q].params \subseteq Var
         /\ \A o \in Op : /\ Fixed(q, o) \subseteq Var /\ Assign(q, o) \subseteq Var
                          /\ prog[q].waits[o] \subseteq Quest
                          /\ prog[q].type[o] \in Types \cup {"none"}
<1>1. prog \in [Quest -> Program]
  BY ScpAssumption DEF TypeOK
<1>2. prog[q] \in Program
  BY <1>1
<1> QED BY <1>2 DEF Program, Fixed, Assign

\* The least number of a set.
LEMMA LeastIn ==
  ASSUME NEW S \in SUBSET (1..MaxArcs), S # {}
  PROVE  Least(S) \in S
<1> DEFINE R == {ij \in Nat \X Nat : ij[1] < ij[2]}
<1>1. IsWellFoundedOn(R, Nat)
  BY NatLessThanWellFounded DEF OpToRel
<1>2. S \subseteq Nat
  BY ScpAssumption
<1>3. PICK k \in S : \A m \in S : ~(<<m, k>> \in R)
  <2> HIDE DEF R
  <2> QED BY <1>1, <1>2, WFMin
<1>4. \A m \in S : k <= m
  <2> SUFFICES ASSUME NEW m \in S PROVE k <= m
    OBVIOUS
  <2>1. k \in Nat /\ m \in Nat
    BY <1>2
  <2>2. m < k => <<m, k>> \in R
    BY <2>1
  <2> QED BY <1>3, <2>1, <2>2
<1> QED BY <1>4 DEF Least

\* A new job of each kind.
LEMMA NewJobs ==
  /\ \A q \in Quest : /\ Asked(q) \in Jobs /\ Asked(q).on = "initiated" /\ Asked(q).quest = q /\ Asked(q).todo = {}
                      /\ Finished(q) \in Jobs /\ Finished(q).on = "finished" /\ Finished(q).waiter = {}
                      /\ Useless(q) \in Jobs /\ Useless(q).on = "useless"
  /\ \A a \in ActiveArc : Activated(a) \in Jobs /\ Activated(a).on = "active" /\ Activated(a).arc = a /\ Activated(a).pc = "new"
  /\ \A k \in Mark : /\ Marked(k) \in Jobs /\ Marked(k).on = "mark" /\ Marked(k).mark = k /\ Marked(k).pc = "new"
                     /\ Marked(k).todo = {} /\ Marked(k).next = {}
<1>1. ASSUME NEW q \in Quest
      PROVE  /\ Asked(q) \in InitiatedJob /\ Asked(q).on = "initiated" /\ Asked(q).quest = q /\ Asked(q).todo = {}
             /\ Finished(q) \in FinishedJob /\ Finished(q).on = "finished" /\ Finished(q).waiter = {}
             /\ Useless(q) \in UselessJob /\ Useless(q).on = "useless"
  BY DEF Asked, Finished, Useless, InitiatedJob, FinishedJob, UselessJob
<1>2. ASSUME NEW a \in ActiveArc
      PROVE  Activated(a) \in ActiveJob /\ Activated(a).on = "active" /\ Activated(a).arc = a /\ Activated(a).pc = "new"
  BY DEF Activated, ActiveJob
<1>3. ASSUME NEW k \in Mark
      PROVE  /\ Marked(k) \in MarkJob /\ Marked(k).on = "mark" /\ Marked(k).mark = k /\ Marked(k).pc = "new"
             /\ Marked(k).todo = {} /\ Marked(k).next = {}
  BY DEF Marked, MarkJob
<1> QED BY <1>1, <1>2, <1>3, JobsAre

\* Jobs that go on.
LEMMA ActiveGoes ==
  ASSUME NEW j \in Jobs, j.on = "active", NEW x \in {"new", "body", "returned", "called", "collect"}
  PROVE  LET k == [j EXCEPT !.pc = x] IN k \in Jobs /\ k.on = "active" /\ k.arc = j.arc /\ k.pc = x
<1>1. j \in ActiveJob
  BY JobKinds
<1> DEFINE k == [j EXCEPT !.pc = x]
<1>2. k \in ActiveJob /\ k.on = "active" /\ k.arc = j.arc /\ k.pc = x
  BY <1>1 DEF ActiveJob
<1> QED BY <1>2, JobsAre

-----------------------------------------------------------------------------
\* What passes control on.

\* set_active_operator
LEMMA ActivateFacts ==
  ASSUME TypeOK, NEW q \in Quest, NEW o \in Op, NEW rest, Activate(q, o, rest)
  PROVE  \/ active' = active /\ jobs' = rest
         \/ \E a \in ActiveArc : a[1] = q /\ a[2] = o /\ active' = active \cup {a} /\ jobs' = rest \cup {Activated(a)}
<1>1. CASE o \in ops[q]
  <2>1. UnusedArc(q, o) # {} /\ UnusedArc(q, o) \in SUBSET (1..MaxArcs)
    BY <1>1 DEF Activate, UnusedArc
  <2> DEFINE n == Least(UnusedArc(q, o))
             a == <<q, o, n>>
  <2>2. n \in 1..MaxArcs
    BY <2>1, LeastIn
  <2>3. a \in ActiveArc /\ a[1] = q /\ a[2] = o
    BY <2>2 DEF ActiveArc
  <2>4. active' = active \cup {a} /\ jobs' = rest \cup {Activated(a)}
    BY <1>1 DEF Activate
  <2> QED BY <2>3, <2>4
<1>2. CASE o \notin ops[q]
  BY <1>2 DEF Activate
<1> QED BY <1>1, <1>2

\* goto_unconditional and its like: the mark is new, and no job follows it.
LEMMA GotoFacts ==
  ASSUME TypeOK, NEW q \in Quest, NEW o \in Op, NEW kind \in MarkKind, NEW rest, Goto(q, o, kind, rest)
  PROVE  \/ marks' = marks /\ jobs' = rest
         \/ \E k \in Mark : /\ k[1] = q /\ k[2] = o /\ o \in ops[q] /\ marks' = marks \cup {k} /\ jobs' = rest \cup {Marked(k)}
                            /\ \A j \in jobs : j.on = "mark" => j.mark # k
<1>1. CASE o \in ops[q]
  <2>1. UnusedMark(q, o, kind) # {} /\ UnusedMark(q, o, kind) \in SUBSET (1..MaxArcs)
    BY <1>1 DEF Goto, UnusedMark
  <2> DEFINE n == Least(UnusedMark(q, o, kind))
             k == <<q, o, kind, n>>
  <2>2. n \in UnusedMark(q, o, kind)
    BY <2>1, LeastIn
  <2>3. n \in 1..MaxArcs /\ \A j \in jobs : j.on = "mark" => j.mark # k
    BY <2>2 DEF UnusedMark
  <2>4. k \in Mark /\ k[1] = q /\ k[2] = o
    BY <2>3 DEF Mark
  <2>5. marks' = marks \cup {k} /\ jobs' = rest \cup {Marked(k)}
    BY <1>1 DEF Goto
  <2> QED BY <1>1, <2>3, <2>4, <2>5
<1>2. CASE o \notin ops[q]
  BY <1>2 DEF Goto
<1> QED BY <1>1, <1>2

\* Where control is in one place, it is in no other.
LEMMA FromArc ==
  ASSUME ControlInv, NEW q \in Quest, Sequential(q), NEW a \in active, a[1] = q
  PROVE  (\A b \in active : b[1] = q => b = a) /\ \A i \in jobs : ~Holds(i, marks, q)
<1> HIDE DEF Holds, Sequential
<1> QED BY DEF ControlInv, One

LEMMA FromJob ==
  ASSUME ControlInv, NEW q \in Quest, Sequential(q), NEW j \in jobs, Holds(j, marks, q)
  PROVE  (\A b \in active : b[1] # q) /\ \A i \in jobs : Holds(i, marks, q) => i = j
<1> HIDE DEF Holds, Sequential
<1> QED BY DEF ControlInv, One

LEMMA FromNone ==
  ASSUME AskedInv, NEW q \in Quest, quest[q] = "none"
  PROVE  (\A b \in active : b[1] # q) /\ \A i \in jobs : ~Holds(i, marks, q)
BY DEF AskedInv, AskedJob, Holds

\* What is to be shown of a step: what it adds to arcs and jobs (N) is of
\* questions that were asked and does what its operator is for, and control is
\* not where it was not, or in one place only.
Still(q) ==
  /\ \A a \in active' : a[1] = q => a \in active
  /\ \A i \in jobs' : Holds(i, marks', q) => i \in jobs /\ Holds(i, marks, q)

ByJob(q, n) ==
  /\ \A a \in active' : a[1] # q
  /\ \A i \in jobs' : Holds(i, marks', q) => i = n

ByArc(q, b) ==
  /\ \A a \in active' : a[1] = q => a = b
  /\ \A i \in jobs' : ~Holds(i, marks', q)

LEMMA StepInv ==
  ASSUME AskedInv, WorkInv, ControlInv, prog' = prog, NEW N,
         \A q \in Quest : quest[q] # "none" => quest'[q] # "none",
         TypeOK, TypeOK',
         \A a \in active' : a \in active \/ quest'[a[1]] # "none",
         jobs' \subseteq jobs \cup N,
         \A n \in N : AskedJob(n)' /\ WorkJob(n)' /\ (n.on = "mark" /\ Sequential(n.mark[1]) => OneWay(n)),
         \A q \in Quest : Sequential(q) => Still(q) \/ (\E n : ByJob(q, n)) \/ \E b : ByArc(q, b)
  PROVE  AskedInv' /\ WorkInv' /\ ControlInv'
<1>1. AskedInv'
  <2>1. ASSUME NEW a \in active' PROVE quest'[a[1]] # "none"
    <3>1. a \in ActiveArc
      BY DEF TypeOK
    <3> QED BY <3>1, ArcParts DEF AskedInv
  <2>2. ASSUME NEW j \in jobs' PROVE AskedJob(j)'
    <3>1. CASE j \in jobs
      <4>1. j \in Jobs /\ AskedJob(j)
        BY <3>1 DEF TypeOK, AskedInv
      <4>2. /\ j.on = "initiated" => j.quest \in Quest
            /\ j.on \in {"active", "waits", "event"} => j.arc \in ActiveArc
            /\ j.on = "mark" => j.mark \in Mark
            /\ j.on = "finished" => j.waiter \subseteq ActiveArc
        BY <4>1, JobKinds DEF InitiatedJob, ActiveJob, WaitsJob, EventJob, MarkJob, FinishedJob
      <4> QED BY <4>1, <4>2, ArcParts, MarkParts DEF AskedJob
    <3>2. CASE j \in N
      BY <3>2
    <3> QED BY <3>1, <3>2
  <2> QED BY <2>1, <2>2 DEF AskedInv
<1>2. WorkInv'
  <2>1. ASSUME NEW j \in jobs PROVE WorkJob(j)'
    BY DEF WorkInv, WorkJob, TypeOf
  <2> QED BY <2>1 DEF WorkInv
<1>3. ControlInv'
  <2>1. \A q : Sequential(q)' = Sequential(q)
    BY DEF Sequential
  <2> HIDE DEF Sequential, Holds
  <2>2. ASSUME NEW q \in Quest, Sequential(q) PROVE One(active', marks', jobs', q)
    <3>1. One(active, marks, jobs, q)
      BY <2>2 DEF ControlInv
    <3>2. CASE Still(q)
      BY <3>1, <3>2 DEF Still, One
    <3>3. CASE \E n : ByJob(q, n)
      BY <3>3 DEF ByJob, One
    <3>4. CASE \E b : ByArc(q, b)
      BY <3>4 DEF ByArc, One
    <3> QED BY <2>2, <3>2, <3>3, <3>4
  <2>3. ASSUME NEW q \in Quest, Sequential(q), NEW j \in jobs', j.on = "mark", j.mark[1] = q PROVE OneWay(j)
    BY <2>3 DEF ControlInv
  <2> QED BY <2>1, <2>2, <2>3 DEF ControlInv
<1> QED BY <1>1, <1>2, <1>3

\* Steps that add no arc and no mark, and jobs (N) that have no control.
LEMMA PlainStep ==
  ASSUME TypeOK, AskedInv, WorkInv, ControlInv, TypeOK', prog' = prog, NEW N,
         \A q \in Quest : quest[q] # "none" => quest'[q] # "none",
         active' \subseteq active, marks' \subseteq marks, jobs' \subseteq jobs \cup N,
         \A n \in N : AskedJob(n)' /\ WorkJob(n)' /\ n.on # "mark" /\ \A q \in Quest : Sequential(q) => ~Holds(n, marks', q)
  PROVE  AskedInv' /\ WorkInv' /\ ControlInv'
<1>1. ASSUME NEW q \in Quest, Sequential(q) PROVE Still(q)
  <2>1. \A i : Holds(i, marks', q) => Holds(i, marks, q)
    BY DEF Holds
  <2> HIDE DEF Holds, Sequential
  <2> QED BY <1>1, <2>1 DEF Still
<1> HIDE DEF Holds, Sequential
<1> QED BY <1>1, StepInv

\* Job j marks operator o of process p, and ends.  The control of a sequential
\* process was with the job, or with an arc that it has erased.
LEMMA GotoStep ==
  ASSUME TypeOK, AskedInv, WorkInv, ControlInv, NEW j \in jobs, NEW p \in Quest, NEW o \in Op, NEW kind \in MarkKind,
         Goto(p, o, kind, jobs \ {j}), prog' = prog, quest[p] # "none",
         \A q \in Quest : quest[q] # "none" => quest'[q] # "none",
         active' \subseteq active, quest' \in [Quest -> {"none", "open", "finished", "erased"}],
         proc' = proc, ops' = ops, live' \subseteq Var, value' \in [Var -> Nat],
         Sequential(p) => (\A a \in active' : a[1] # p) /\ \A i \in jobs \ {j} : ~Holds(i, marks, p)
  PROVE  TypeOK' /\ AskedInv' /\ WorkInv' /\ ControlInv'
<1>1. CASE marks' = marks /\ jobs' = jobs \ {j}
  <2>1. TypeOK'
    BY <1>1 DEF TypeOK
  <2> DEFINE N == {}
  <2>2. jobs' \subseteq jobs \cup N /\ marks' \subseteq marks
    BY <1>1
  <2>3. \A n \in N : AskedJob(n)' /\ WorkJob(n)' /\ n.on # "mark" /\ \A q \in Quest : Sequential(q) => ~Holds(n, marks', q)
    OBVIOUS
  <2> HIDE DEF N, Holds, Sequential, AskedJob, WorkJob, TypeOK, AskedInv, WorkInv, ControlInv
  <2> QED BY <2>1, <2>2, <2>3, PlainStep
<1>2. CASE \E k \in Mark : /\ k[1] = p /\ marks' = marks \cup {k} /\ jobs' = (jobs \ {j}) \cup {Marked(k)}
                           /\ \A i \in jobs : i.on = "mark" => i.mark # k
  <2>1. PICK k \in Mark : /\ k[1] = p /\ marks' = marks \cup {k} /\ jobs' = (jobs \ {j}) \cup {Marked(k)}
                          /\ \A i \in jobs : i.on = "mark" => i.mark # k
    BY <1>2
  <2>2. /\ Marked(k) \in Jobs /\ Marked(k).on = "mark" /\ Marked(k).mark = k /\ Marked(k).pc = "new"
        /\ Marked(k).todo = {} /\ Marked(k).next = {}
    BY NewJobs
  <2>3. TypeOK'
    BY <2>1, <2>2 DEF TypeOK
  <2>4. \A i \in jobs, q \in Quest : Holds(i, marks', q) <=> Holds(i, marks, q)
    BY <2>1 DEF Holds
  <2>5. \A q \in Quest \ {p} : ~Holds(Marked(k), marks', q)
    BY <2>1, <2>2 DEF Holds
  <2>6. AskedJob(Marked(k))' /\ WorkJob(Marked(k))' /\ OneWay(Marked(k))
    BY <2>1, <2>2 DEF AskedJob, WorkJob, OneWay
  <2> HIDE DEF Holds, Sequential, Marked
  <2>7. ASSUME NEW q \in Quest, Sequential(q) PROVE Still(q) \/ \E n : ByJob(q, n)
    <3>1. CASE q # p
      BY <2>1, <2>4, <2>5, <3>1 DEF Still
    <3>2. CASE q = p
      <4>1. ByJob(p, Marked(k))
        BY <2>1, <2>4, <2>7, <3>2 DEF ByJob
      <4> QED BY <3>2, <4>1
    <3> QED BY <3>1, <3>2
  <2> DEFINE N == {Marked(k)}
  <2>8. jobs' \subseteq jobs \cup N
    BY <2>1
  <2>9. \A n \in N : AskedJob(n)' /\ WorkJob(n)' /\ (n.on = "mark" /\ Sequential(n.mark[1]) => OneWay(n))
    BY <2>6
  <2>10. \A a \in active' : a \in active \/ quest'[a[1]] # "none"
    OBVIOUS
  <2>11. \A q \in Quest : Sequential(q) => Still(q) \/ (\E n : ByJob(q, n)) \/ \E b : ByArc(q, b)
    BY <2>7
  <2> HIDE DEF N, AskedJob, WorkJob, OneWay, Still, ByJob, ByArc, TypeOK, AskedInv, WorkInv, ControlInv
  <2> QED BY <2>3, <2>8, <2>9, <2>10, <2>11, StepInv
<1> QED BY <1>1, <1>2, GotoFacts

-----------------------------------------------------------------------------
\* The jobs of operators.

\* An operator that begins: its arc, and where its control is.
LEMMA StartsFacts ==
  ASSUME TypeOK, AskedInv, ControlInv, NEW j \in jobs, NEW q \in Quest, NEW o \in Op, NEW types, Starts(j, q, o, types)
  PROVE  /\ j.on = "active" /\ j.pc = "new" /\ j.arc \in active /\ j.arc \in ActiveArc
         /\ q = j.arc[1] /\ o = j.arc[2] /\ TypeOf(j.arc) \in types /\ quest[q] # "none"
         /\ Sequential(q) => /\ \A a \in active \ {j.arc} : a[1] # q
                             /\ \A i \in jobs : ~Holds(i, marks, q)
<1>1. /\ j.on = "active" /\ j.pc = "new" /\ j.arc \in active /\ q = j.arc[1] /\ o = j.arc[2]
      /\ TypeOf(j.arc) \in types
  BY DEF Starts, TypeOf
<1>2. j.arc \in ActiveArc /\ quest[q] # "none"
  BY <1>1 DEF TypeOK, AskedInv
<1> HIDE DEF Sequential, Holds
<1>3. Sequential(q) => (\A b \in active : b[1] = q => b = j.arc) /\ \A i \in jobs : ~Holds(i, marks, q)
  BY <1>1, FromArc
<1> QED BY <1>1, <1>2, <1>3

\* The values of variables are numbers.
LEMMA ErasedType == ASSUME TypeOK, NEW S PROVE OneErased(S) \in [Var -> Nat]
BY DEF TypeOK, OneErased

LEMMA AssignedType == ASSUME TypeOK, NEW S PROVE Assigned(S) \in [Var -> Nat]
BY DEF TypeOK, Assigned

\* The end of a process: a job without control.
LEMMA CrashJobs ==
  ASSUME NEW q \in Quest
  PROVE  \A n \in Crash(q) : /\ n \in Jobs /\ n.on = "useless" /\ AskedJob(n)' /\ WorkJob(n)'
                             /\ \A p \in Quest : ~Holds(n, marks', p)
<1>1. \A n \in Crash(q) : n = Useless(q)
  BY DEF Crash
<1>2. Useless(q) \in Jobs /\ Useless(q).on = "useless"
  BY NewJobs
<1> HIDE DEF Crash, Useless
<1> QED BY <1>1, <1>2 DEF AskedJob, WorkJob, Holds

\* An operator that is at work has taken the control of its arc.
LEMMA TakeStep ==
  ASSUME TypeOK, AskedInv, WorkInv, ControlInv, NEW j \in jobs, NEW q \in Quest, NEW o \in Op, NEW types,
         Starts(j, q, o, types), NEW x \in {"body", "returned", "called"}, x = "body" => types = Types \ Special,
         NEW N, \A n \in N : /\ n \in Jobs /\ AskedJob(n)' /\ WorkJob(n)' /\ n.on # "mark"
                             /\ \A p \in Quest : Sequential(p) /\ Holds(n, marks', p) =>
                                  quest[p] = "none" /\ \A m \in N : Holds(m, marks', p) => m = n,
         jobs' \subseteq (jobs \ {j}) \cup {[j EXCEPT !.pc = x]} \cup N,
         active' = active \ {j.arc}, marks' = marks, prog' = prog, TypeOK',
         \A p \in Quest : quest[p] # "none" => quest'[p] # "none"
  PROVE  AskedInv' /\ WorkInv' /\ ControlInv'
<1>1. /\ j.on = "active" /\ j.pc = "new" /\ j.arc \in active /\ j.arc \in ActiveArc
      /\ q = j.arc[1] /\ o = j.arc[2] /\ TypeOf(j.arc) \in types /\ quest[q] # "none"
      /\ Sequential(q) => /\ \A a \in active \ {j.arc} : a[1] # q
                          /\ \A i \in jobs : ~Holds(i, marks, q)
  BY StartsFacts
<1> DEFINE k == [j EXCEPT !.pc = x]
<1>2. k \in Jobs /\ k.on = "active" /\ k.arc = j.arc /\ k.pc = x
  <2>1. j \in Jobs /\ x \in {"new", "body", "returned", "called", "collect"}
    BY DEF TypeOK
  <2> QED BY <1>1, <2>1, ActiveGoes
<1> HIDE DEF k
<1>3. AskedJob(k)' /\ WorkJob(k)'
  BY <1>1, <1>2 DEF AskedJob, WorkJob, TypeOf
<1>4. \A p \in Quest \ {q} : ~Holds(k, marks', p)
  BY <1>1, <1>2 DEF Holds
<1> HIDE DEF Holds, Sequential
<1>5. ASSUME NEW p \in Quest, Sequential(p) PROVE Still(p) \/ \E n : ByJob(p, n)
  <2>1. CASE p = q
    <3>1. \A n \in N : ~Holds(n, marks', q)
      BY <1>1, <1>5, <2>1
    <3>2. ByJob(q, k)
      BY <1>1, <1>5, <2>1, <3>1 DEF ByJob, k
    <3> QED BY <2>1, <3>2
  <2>2. CASE p # q /\ \A n \in N : ~Holds(n, marks', p)
    <3>1. Still(p)
      BY <1>4, <2>2 DEF Still, k
    <3> QED BY <3>1
  <2>3. CASE p # q /\ \E n \in N : Holds(n, marks', p)
    <3>1. PICK n \in N : Holds(n, marks', p)
      BY <2>3
    <3>2. (\A b \in active : b[1] # p) /\ \A i \in jobs : ~Holds(i, marks, p)
      BY <1>5, <3>1, FromNone
    <3>3. \A i \in N : Holds(i, marks', p) => i = n
      BY <1>5, <3>1
    <3>4. \A i \in jobs' : Holds(i, marks', p) => i = n
      <4>1. jobs' \subseteq jobs \cup {k} \cup N
        BY DEF k
      <4> QED BY <1>4, <2>3, <3>2, <3>3, <4>1
    <3>5. ByJob(p, n)
      BY <3>2, <3>4 DEF ByJob
    <3> QED BY <3>5
  <2> QED BY <2>1, <2>2, <2>3
<1>6. jobs' \subseteq jobs \cup (N \cup {k})
  BY DEF k
<1>7. \A n \in N \cup {k} : AskedJob(n)' /\ WorkJob(n)' /\ n.on # "mark"
  BY <1>2, <1>3
<1>8. \A a \in active' : a \in active
  OBVIOUS
<1> QED BY <1>5, <1>6, <1>7, <1>8, StepInv

-----------------------------------------------------------------------------
\* Three kinds of steps more.

\* A step that adds nothing.
LEMMA QuietStep ==
  ASSUME IInv, TypeOK', prog' = prog, \A q \in Quest : quest[q] # "none" => quest'[q] # "none",
         active' \subseteq active, marks' \subseteq marks, jobs' \subseteq jobs
  PROVE  IInv'
<1> DEFINE N == {}
<1>1. jobs' \subseteq jobs \cup N
  OBVIOUS
<1>2. \A n \in N : AskedJob(n)' /\ WorkJob(n)' /\ n.on # "mark" /\ \A q \in Quest : Sequential(q) => ~Holds(n, marks', q)
  OBVIOUS
<1>3. TypeOK /\ AskedInv /\ WorkInv /\ ControlInv
  BY DEF IInv
<1> HIDE DEF N, Holds, Sequential, AskedJob, WorkJob, TypeOK, AskedInv, WorkInv, ControlInv
<1>4. AskedInv' /\ WorkInv' /\ ControlInv'
  BY <1>1, <1>2, <1>3, PlainStep
<1> QED BY <1>4 DEF IInv

\* A job goes on as k, in the same process.
LEMMA JobStep ==
  ASSUME IInv, TypeOK', prog' = prog, quest' = quest, active' = active, marks' = marks,
         NEW j \in jobs, NEW k, jobs' \subseteq (jobs \ {j}) \cup {k},
         AskedJob(k)', WorkJob(k)', k.on = "mark" /\ Sequential(k.mark[1]) => OneWay(k),
         \A q \in Quest : Sequential(q) /\ Holds(k, marks', q) => Holds(j, marks, q)
  PROVE  IInv'
<1>1. TypeOK /\ AskedInv /\ WorkInv /\ ControlInv
  BY DEF IInv
<1> DEFINE N == {k}
<1>2. jobs' \subseteq jobs \cup N
  OBVIOUS
<1>3. \A n \in N : AskedJob(n)' /\ WorkJob(n)' /\ (n.on = "mark" /\ Sequential(n.mark[1]) => OneWay(n))
  OBVIOUS
<1> HIDE DEF Holds, Sequential, AskedJob, WorkJob, OneWay, TypeOK, AskedInv, WorkInv, ControlInv
<1>4. \A a \in active' : a \in active \/ quest'[a[1]] # "none"
  OBVIOUS
<1>5. ASSUME NEW q \in Quest, Sequential(q) PROVE Still(q) \/ \E n : ByJob(q, n)
  <2>1. CASE Holds(k, marks', q)
    <3>1. (\A b \in active : b[1] # q) /\ \A i \in jobs : Holds(i, marks, q) => i = j
      BY <1>1, <1>5, <2>1, FromJob
    <3>2. ByJob(q, k)
      BY <3>1 DEF ByJob
    <3> QED BY <3>2
  <2>2. CASE ~Holds(k, marks', q)
    <3>1. Still(q)
      BY <2>2 DEF Still
    <3> QED BY <3>1
  <2> QED BY <2>1, <2>2
<1>6. \A q \in Quest : Sequential(q) => Still(q) \/ (\E n : ByJob(q, n)) \/ \E b : ByArc(q, b)
  BY <1>5
<1>7. \A q \in Quest : quest[q] # "none" => quest'[q] # "none"
  OBVIOUS
<1> HIDE DEF N, Still, ByJob, ByArc
<1>8. AskedInv' /\ WorkInv' /\ ControlInv'
  BY <1>1, <1>2, <1>3, <1>4, <1>6, <1>7, StepInv
<1> QED BY <1>8 DEF IInv

\* Job j activates operator o of process p, and goes on (N) unless the process
\* is sequential.
LEMMA ActivateStep ==
  ASSUME IInv, NEW j \in jobs, NEW p \in Quest, NEW o \in Op, NEW N, NEW rest, Activate(p, o, rest),
         UNCHANGED <<prog, quest, proc, ops, live, value>>, marks' \subseteq marks,
         quest[p] # "none", rest \subseteq (jobs \ {j}) \cup N,
         \A n \in N : n \in Jobs /\ AskedJob(n)' /\ WorkJob(n)' /\ (n.on = "mark" /\ Sequential(n.mark[1]) => OneWay(n)),
         \A n \in N, q \in Quest : Sequential(q) => ~Holds(n, marks', q),
         Sequential(p) => Holds(j, marks, p)
  PROVE  IInv'
<1>1. TypeOK /\ AskedInv /\ WorkInv /\ ControlInv
  BY DEF IInv
<1>2. \A i, q : Holds(i, marks', q) => Holds(i, marks, q)
  BY DEF Holds
<1>3. CASE active' = active /\ jobs' = rest
  <2>1. TypeOK'
    BY <1>1, <1>3 DEF TypeOK
  <2>2. ASSUME NEW q \in Quest, Sequential(q) PROVE Still(q)
    <3> HIDE DEF Holds, Sequential
    <3> QED BY <1>2, <1>3, <2>2 DEF Still
  <2>3. jobs' \subseteq jobs \cup N
    BY <1>3
  <2>4. \A a \in active' : a \in active \/ quest'[a[1]] # "none"
    BY <1>3
  <2>5. \A q \in Quest : Sequential(q) => Still(q) \/ (\E n : ByJob(q, n)) \/ \E b : ByArc(q, b)
    BY <2>2
  <2>6. prog' = prog /\ \A q \in Quest : quest[q] # "none" => quest'[q] # "none"
    OBVIOUS
  <2>7. \A n \in N : AskedJob(n)' /\ WorkJob(n)' /\ (n.on = "mark" /\ Sequential(n.mark[1]) => OneWay(n))
    OBVIOUS
  <2> HIDE DEF AskedJob, WorkJob, OneWay, Sequential, Still, ByJob, ByArc, TypeOK, AskedInv, WorkInv, ControlInv
  <2>8. AskedInv' /\ WorkInv' /\ ControlInv'
    BY <1>1, <2>1, <2>3, <2>4, <2>5, <2>6, <2>7, StepInv
  <2> QED BY <2>1, <2>8 DEF IInv
<1>4. CASE \E a \in ActiveArc : a[1] = p /\ active' = active \cup {a} /\ jobs' = rest \cup {Activated(a)}
  <2>1. PICK a \in ActiveArc : a[1] = p /\ active' = active \cup {a} /\ jobs' = rest \cup {Activated(a)}
    BY <1>4
  <2>2. Activated(a) \in Jobs /\ Activated(a).on = "active" /\ Activated(a).arc = a /\ Activated(a).pc = "new"
    BY NewJobs
  <2>3. TypeOK'
    BY <1>1, <2>1, <2>2 DEF TypeOK
  <2>4. AskedJob(Activated(a))' /\ WorkJob(Activated(a))' /\ \A q \in Quest : ~Holds(Activated(a), marks', q)
    BY <2>1, <2>2 DEF AskedJob, WorkJob, Holds
  <2> HIDE DEF Holds, Sequential, Activated, AskedJob, WorkJob, OneWay
  <2>5. ASSUME NEW q \in Quest, Sequential(q) PROVE Still(q) \/ \E b : ByArc(q, b)
    <3>1. CASE q # p
      <4>1. Still(q)
        BY <1>2, <2>1, <2>4, <2>5, <3>1 DEF Still
      <4> QED BY <4>1
    <3>2. CASE q = p
      <4>1. (\A b \in active : b[1] # p) /\ \A i \in jobs : Holds(i, marks, p) => i = j
        BY <1>1, <2>5, <3>2, FromJob
      <4>2. ByArc(p, a)
        BY <1>2, <2>1, <2>4, <2>5, <3>2, <4>1 DEF ByArc
      <4> QED BY <3>2, <4>2
    <3> QED BY <3>1, <3>2
  <2> DEFINE M == N \cup {Activated(a)}
  <2>6. jobs' \subseteq jobs \cup M
    BY <2>1
  <2>7. \A n \in M : AskedJob(n)' /\ WorkJob(n)' /\ (n.on = "mark" /\ Sequential(n.mark[1]) => OneWay(n))
    BY <2>2, <2>4
  <2>8. \A b \in active' : b \in active \/ quest'[b[1]] # "none"
    BY <2>1
  <2>9. \A q \in Quest : Sequential(q) => Still(q) \/ (\E n : ByJob(q, n)) \/ \E b : ByArc(q, b)
    BY <2>5
  <2>10. prog' = prog /\ \A q \in Quest : quest[q] # "none" => quest'[q] # "none"
    OBVIOUS
  <2> HIDE DEF M, Still, ByJob, ByArc, TypeOK, AskedInv, WorkInv, ControlInv
  <2>11. AskedInv' /\ WorkInv' /\ ControlInv'
    BY <1>1, <2>3, <2>6, <2>7, <2>8, <2>9, <2>10, StepInv
  <2> QED BY <2>3, <2>11 DEF IInv
<1> QED BY <1>1, <1>3, <1>4, ActivateFacts

-----------------------------------------------------------------------------
\* Sequential programs and the agents of operators.

LEMMA FiniteEdges == IsFiniteSet(Edge)
<1> DEFINE S == (Op \X Rel) \X Op
           f == [x \in S |-> <<x[1][1], x[1][2], x[2]>>]
<1>1. IsFiniteSet(Rel)
  <2>1. IsFiniteSet({"goto"})
    BY FS_Singleton
  <2>2. IsFiniteSet({"goto"} \cup {"then"})
    BY <2>1, FS_AddElement
  <2>3. IsFiniteSet(({"goto"} \cup {"then"}) \cup {"else"})
    BY <2>2, FS_AddElement
  <2>4. ({"goto"} \cup {"then"}) \cup {"else"} = Rel
    BY DEF Rel
  <2> QED BY <2>3, <2>4
<1>2. IsFiniteSet(S)
  <2>1. IsFiniteSet(Op \X Rel)
    BY <1>1, ScpAssumption, FS_Product
  <2> QED BY <2>1, ScpAssumption, FS_Product
<1>3. f \in [S -> Edge]
  BY DEF Edge
<1>4. ASSUME NEW e \in Edge PROVE \E x \in S : f[x] = e
  <2>1. PICK o \in Op, r \in Rel, p \in Op : e = <<o, r, p>>
    BY DEF Edge
  <2>2. <<<<o, r>>, p>> \in S /\ f[<<<<o, r>>, p>>] = e
    BY <2>1
  <2> QED BY <2>2
<1>5. f \in Surjection(S, Edge)
  <2> HIDE DEF f, S
  <2> QED BY <1>3, <1>4 DEF Surjection
<1> HIDE DEF f, S
<1> QED BY <1>2, <1>5, FS_Surjection

LEMMA AtMostOne ==
  ASSUME NEW S, IsFiniteSet(S), Cardinality(S) <= 1
  PROVE  \A d, e \in S : d = e
<1>1. Cardinality(S) \in Nat
  BY FS_CardinalityType
<1>2. Cardinality(S) = 0 \/ Cardinality(S) = 1
  BY <1>1
<1>3. CASE Cardinality(S) = 0
  BY <1>3, FS_EmptySet
<1>4. CASE Cardinality(S) = 1
  BY <1>4, FS_Singleton
<1> QED BY <1>2, <1>3, <1>4

LEMMA SequentialFacts ==
  ASSUME TypeOK, NEW q \in Quest, Sequential(q)
  PROVE  /\ \A o, p \in prog[q].init : o = p
         /\ prog[q].init # {}
         /\ \A o \in Op : prog[q].type[o] \notin {"waitReturn", "waitReturnSet", "sys_wait"}
         /\ \A o \in Op, k \in MarkKind : \A d, e \in Behind(q, o, k) : d = e
<1>1. prog[q].init \subseteq Op /\ prog[q].order \subseteq Edge
  BY Programs
<1>2. IsFiniteSet(prog[q].init)
  BY <1>1, ScpAssumption, FS_Subset
<1>3. Cardinality(prog[q].init) = 1
  BY DEF Sequential, Straight
<1>4. \A o, p \in prog[q].init : o = p
  BY <1>2, <1>3, AtMostOne
<1>5. prog[q].init # {}
  BY <1>2, <1>3, FS_EmptySet
<1>6. ASSUME NEW o \in Op, NEW k \in MarkKind PROVE \A d, e \in Behind(q, o, k) : d = e
  <2>1. Cardinality(Behind(q, o, k)) <= 1
    BY DEF Sequential, Straight, Behind
  <2>2. Behind(q, o, k) \in SUBSET Edge
    BY <1>1 DEF Behind
  <2>3. IsFiniteSet(Behind(q, o, k))
    BY <2>2, FiniteEdges, FS_Subset
  <2> HIDE DEF Behind
  <2> QED BY <2>1, <2>3, AtMostOne
<1> QED BY <1>4, <1>5, <1>6 DEF Sequential, Straight, WaitTypes

\* What every agent does with a result is set a mark.
LEMMA Agents ==
  ASSUME NEW type \in Types \ Special, NEW r \in DOMAIN AgentOf(type).after
  PROVE  AgentOf(type).after[r] \in MarkKind
<1> DEFINE Marking(g) == \A x \in DOMAIN g.after : g.after[x] \in MarkKind
<1>1. Marking(Conditional) /\ Marking(Unconditional) /\ Marking(Always)
  BY DEF Conditional, Unconditional, Always, MarkKind
<1> DEFINE After == {Conditional.after, Unconditional.after, Always.after}
           Sets(f) == \A o \in DOMAIN f : f[o].after \in After
<1>2. \A f \in Family : Sets(f)
  <2>1. /\ Sets(SearchElements) /\ Sets(SearchSets) /\ Sets(Generation) /\ Sets(Arithmetic)
      /\ Sets(Powers) /\ Sets(Trigonometry) /\ Sets(InverseTrigonometry) /\ Sets(StringConcat)
      /\ Sets(StringChange) /\ Sets(Printing) /\ Sets(Syncronizing) /\ Sets(SystemSearch)
      /\ Sets(SystemGeneration)
    BY DEF
       SearchElements, SearchSets, Generation, Arithmetic, Powers, Trigonometry, InverseTrigonometry,
       StringConcat, StringChange, Printing, Syncronizing, SystemSearch, SystemGeneration
  <2>2. ASSUME NEW S, NEW C PROVE [Unconditional EXCEPT !.assigns = S, !.crash = C].after \in After
    BY DEF Unconditional
  <2>3. ASSUME NEW S
        PROVE  [Conditional EXCEPT !.assigns = S].after \in After /\ [Unconditional EXCEPT !.assigns = S].after \in After
    BY DEF Conditional, Unconditional
  <2> HIDE DEF After
  <2>4. Sets(ErasingElements)
    BY <2>2 DEF ErasingElements
  <2>5. Sets(ErasingSets) /\ Sets(Comparison) /\ Sets(StringComparison) /\ Sets(StringEnds) /\ Sets(Tests)
    BY <2>3 DEF ErasingSets, Comparison, StringComparison, StringEnds, Tests
  <2>6. Sets(StringParts) /\ Sets(Assignments)
    <3>1. Unconditional.after \in After
      BY DEF After
    <3> QED BY <2>3, <3>1 DEF StringParts, Assignments
  <2> HIDE DEF Sets
  <2> QED BY <2>1, <2>4, <2>5, <2>6 DEF Family
<1>3. \E f \in Family : type \in DOMAIN f
  BY DEF Types
<1>4. AgentOf(type).after \in {Conditional.after, Unconditional.after, Always.after}
  <2> DEFINE f == CHOOSE f \in Family : type \in DOMAIN f
  <2>1. f \in Family /\ type \in DOMAIN f
    BY <1>3
  <2>2. AgentOf(type) = f[type]
    BY DEF AgentOf
  <2>3. f[type].after \in After
    <3> HIDE DEF f, Family, After
    <3> QED BY <1>2, <2>1
  <2> QED BY <2>2, <2>3
<1> HIDE DEF AgentOf, Conditional, Unconditional, Always
<1> QED BY <1>1, <1>4

-----------------------------------------------------------------------------
\* The start of a process.

LEMMA InvParts == ASSUME IInv PROVE TypeOK /\ AskedInv /\ WorkInv /\ ControlInv
BY DEF IInv

LEMMA RunProgramInv == ASSUME IInv, NEW q \in Quest, RunProgram(q) PROVE IInv'
<1>1. TypeOK /\ AskedInv /\ WorkInv /\ ControlInv
  BY DEF IInv
<1>2. Asked(q) \in Jobs /\ Asked(q).on = "initiated" /\ Asked(q).quest = q /\ Asked(q).todo = {}
  BY NewJobs
<1>3. /\ quest[q] = "none" /\ quest' = [quest EXCEPT ![q] = "open"] /\ jobs' = jobs \cup {Asked(q)}
      /\ UNCHANGED <<prog, proc, ops, live, value, active, marks>>
  BY DEF RunProgram
<1>4. TypeOK'
  BY <1>1, <1>2, <1>3 DEF TypeOK
<1>5. AskedJob(Asked(q))' /\ WorkJob(Asked(q))' /\ \A p \in Quest \ {q} : ~Holds(Asked(q), marks', p)
  BY <1>1, <1>2, <1>3 DEF AskedJob, WorkJob, Holds, TypeOK
<1>6. (\A b \in active : b[1] # q) /\ \A i \in jobs : ~Holds(i, marks, q)
  BY <1>1, <1>3, FromNone
<1> HIDE DEF Holds, Sequential, Asked, AskedJob, WorkJob, OneWay
<1>7. ASSUME NEW p \in Quest PROVE Still(p) \/ \E n : ByJob(p, n)
  <2>1. CASE p # q
    BY <1>3, <1>5, <2>1 DEF Still
  <2>2. CASE p = q
    <3>1. ByJob(q, Asked(q))
      BY <1>3, <1>6 DEF ByJob
    <3> QED BY <2>2, <3>1
  <2> QED BY <2>1, <2>2
<1> DEFINE N == {Asked(q)}
<1>8. jobs' \subseteq jobs \cup N /\ prog' = prog
  BY <1>3
<1>9. \A n \in N : AskedJob(n)' /\ WorkJob(n)' /\ (n.on = "mark" /\ Sequential(n.mark[1]) => OneWay(n))
  BY <1>2, <1>5
<1>10. \A b \in active' : b \in active \/ quest'[b[1]] # "none"
  BY <1>3
<1>11. \A p \in Quest : Sequential(p) => Still(p) \/ (\E n : ByJob(p, n)) \/ \E b : ByArc(p, b)
  BY <1>7
<1>12. \A p \in Quest : quest[p] # "none" => quest'[p] # "none"
  BY <1>1, <1>3 DEF TypeOK
<1> HIDE DEF N, Still, ByJob, ByArc, TypeOK, AskedInv, WorkInv, ControlInv
<1>13. AskedInv' /\ WorkInv' /\ ControlInv'
  BY <1>1, <1>4, <1>8, <1>9, <1>10, <1>11, <1>12, StepInv
<1> QED BY <1>4, <1>13 DEF IInv

LEMMA CreateProcessInv == ASSUME IInv, NEW j \in jobs, CreateProcess(j) PROVE IInv'
<1>1. TypeOK /\ AskedInv /\ WorkInv /\ ControlInv
  BY DEF IInv
<1>2. j \in InitiatedJob /\ j.on = "initiated" /\ j.quest \in Quest /\ quest[j.quest] # "none"
  <2>1. j \in Jobs /\ j.on = "initiated" /\ AskedJob(j)
    BY <1>1 DEF TypeOK, AskedInv, CreateProcess
  <2>2. j \in InitiatedJob
    BY <2>1, JobKinds
  <2> QED BY <2>1, <2>2 DEF AskedJob, InitiatedJob
<1>3. prog[j.quest].init \subseteq Op /\ prog[j.quest].own \subseteq Var
  BY <1>1, <1>2, Programs
<1>4. UNCHANGED <<prog, quest, value, active, marks>>
  BY DEF CreateProcess
<1>5. CASE prog[j.quest].complete
  <2>0. PICK k : k = [j EXCEPT !.pc = "init", !.todo = prog[j.quest].init]
    OBVIOUS
  <2>1. k \in InitiatedJob /\ k.on = "initiated" /\ k.quest = j.quest /\ k.todo = prog[j.quest].init
    BY <1>2, <1>3, <2>0 DEF InitiatedJob
  <2>2. k \in Jobs
    BY <2>1, JobsAre
  <2>3. /\ proc' = [proc EXCEPT ![j.quest] = "run"]
        /\ ops' = [ops EXCEPT ![j.quest] = {o \in Op : prog[j.quest].type[o] # "none"}]
        /\ live' = live \cup prog[j.quest].own
        /\ jobs' = (jobs \ {j}) \cup {k}
    BY <1>5, <2>0 DEF CreateProcess, Replace
  <2>4. TypeOK'
    BY <1>1, <1>3, <1>4, <2>2, <2>3 DEF TypeOK
  <2>5. AskedJob(k)' /\ WorkJob(k)' /\ (k.on = "mark" /\ Sequential(k.mark[1]) => OneWay(k))
    BY <1>2, <1>4, <2>1 DEF AskedJob, WorkJob
  <2>6. \A q \in Quest : Sequential(q) /\ Holds(k, marks', q) => Holds(j, marks, q)
    BY <1>2, <2>1 DEF Holds
  <2> HIDE DEF Holds, Sequential, AskedJob, WorkJob, OneWay, IInv, TypeOK
  <2>7. jobs' \subseteq (jobs \ {j}) \cup {k}
    BY <2>3
  <2> QED BY <1>4, <2>4, <2>5, <2>6, <2>7, JobStep
<1>6. CASE ~prog[j.quest].complete
  <2>1. jobs' = jobs \ {j} /\ UNCHANGED <<proc, ops, live>>
    BY <1>6 DEF CreateProcess
  <2>2. TypeOK'
    BY <1>1, <1>4, <2>1 DEF TypeOK
  <2> HIDE DEF IInv, TypeOK
  <2> QED BY <1>4, <2>1, <2>2, QuietStep
<1> QED BY <1>5, <1>6

LEMMA StartInitialInv == ASSUME IInv, NEW j \in jobs, StartInitial(j) PROVE IInv'
<1>1. TypeOK /\ AskedInv /\ WorkInv /\ ControlInv
  BY DEF IInv
<1>2. /\ j \in InitiatedJob /\ j.on = "initiated" /\ j.quest \in Quest /\ quest[j.quest] # "none" /\ j.pc = "init"
      /\ j.todo \subseteq prog[j.quest].init /\ j.todo \subseteq Op
  <2>1. j \in Jobs /\ j.on = "initiated" /\ j.pc = "init" /\ AskedJob(j) /\ WorkJob(j)
    BY <1>1 DEF TypeOK, AskedInv, WorkInv, StartInitial
  <2>2. j \in InitiatedJob
    BY <2>1, JobKinds
  <2> QED BY <2>1, <2>2 DEF AskedJob, WorkJob, InitiatedJob
<1>3. UNCHANGED <<prog, quest, proc, ops, live, value, marks>>
  BY DEF StartInitial
<1>4. ASSUME NEW o \in j.todo, NEW left, NEW rest, left = j.todo \ {o},
             rest = (IF left = {} THEN jobs \ {j} ELSE (jobs \ {j}) \cup {[j EXCEPT !.todo = left]}),
             Activate(j.quest, o, rest)
      PROVE  IInv'
  <2> DEFINE k == [j EXCEPT !.todo = left]
             N == IF left = {} THEN {} ELSE {k}
  <2>1. k \in InitiatedJob /\ k.on = "initiated" /\ k.quest = j.quest /\ k.todo = left
    BY <1>2, <1>4 DEF InitiatedJob
  <2>2. k \in Jobs
    BY <2>1, JobsAre
  <2> HIDE DEF k
  <2>3. AskedJob(k)' /\ WorkJob(k)' /\ (k.on = "mark" /\ Sequential(k.mark[1]) => OneWay(k))
    BY <1>2, <1>3, <1>4, <2>1 DEF AskedJob, WorkJob
  <2>4. ASSUME NEW q \in Quest, Sequential(q), Holds(k, marks', q) PROVE left = {}
    <3>1. q = j.quest
      BY <2>1, <2>4 DEF Holds
    <3>2. \A e, p \in prog[j.quest].init : e = p
      BY <1>1, <2>4, <3>1, SequentialFacts
    <3> QED BY <1>2, <1>4, <3>2
  <2>5. Holds(j, marks, j.quest)
    BY <1>2 DEF Holds
  <2> HIDE DEF Holds, Sequential, AskedJob, WorkJob, OneWay
  <2>6. \A n \in N : n \in Jobs /\ AskedJob(n)' /\ WorkJob(n)' /\ (n.on = "mark" /\ Sequential(n.mark[1]) => OneWay(n))
    BY <2>2, <2>3
  <2>7. \A n \in N, q \in Quest : Sequential(q) => ~Holds(n, marks', q)
    BY <2>4
  <2>8. rest \subseteq (jobs \ {j}) \cup N
    BY <1>4 DEF k
  <2> HIDE DEF N, IInv, Activate
  <2>9. PICK p \in Quest : p = j.quest
    BY <1>2
  <2>10. Activate(p, o, rest) /\ o \in Op /\ quest[p] # "none" /\ Holds(j, marks, p)
    BY <1>2, <1>4, <2>5, <2>9
  <2>11. UNCHANGED <<prog, quest, proc, ops, live, value>> /\ marks' \subseteq marks
    BY <1>3
  <2> QED BY <2>6, <2>7, <2>8, <2>10, <2>11, ActivateStep
<1>5. CASE /\ prog[j.quest].init = {}
           /\ jobs' = (jobs \ {j}) \cup {Useless(j.quest)}
           /\ UNCHANGED active
  <2>1. Useless(j.quest) \in Jobs /\ Useless(j.quest).on = "useless"
    BY <1>2, NewJobs
  <2> HIDE DEF Useless
  <2>2. TypeOK'
    BY <1>1, <1>3, <1>5, <2>1 DEF TypeOK
  <2> DEFINE N == {Useless(j.quest)}
  <2>3. \A n \in N : AskedJob(n)' /\ WorkJob(n)' /\ n.on # "mark" /\ \A q \in Quest : Sequential(q) => ~Holds(n, marks', q)
    BY <2>1 DEF AskedJob, WorkJob, Holds
  <2>4. jobs' \subseteq jobs \cup N
    BY <1>5
  <2> HIDE DEF N, Holds, Sequential, AskedJob, WorkJob, TypeOK, AskedInv, WorkInv, ControlInv
  <2>5. active' \subseteq active /\ marks' \subseteq marks /\ prog' = prog
    BY <1>3, <1>5
  <2>6. \A q \in Quest : quest[q] # "none" => quest'[q] # "none"
    BY <1>3
  <2>7. AskedInv' /\ WorkInv' /\ ControlInv'
    BY <1>1, <2>2, <2>3, <2>4, <2>5, <2>6, PlainStep
  <2> QED BY <2>2, <2>7 DEF IInv
<1> QED BY <1>4, <1>5 DEF StartInitial

-----------------------------------------------------------------------------
\* The agents of operators.

\* Jobs without control are added (N), and marked jobs are not among them.
LEMMA AddStep ==
  ASSUME IInv, TypeOK', prog' = prog, NEW N, \A q \in Quest : quest[q] # "none" => quest'[q] # "none",
         active' \subseteq active, marks' \subseteq marks, jobs' \subseteq jobs \cup N,
         \A n \in N : AskedJob(n)' /\ WorkJob(n)' /\ n.on # "mark" /\ \A q \in Quest : Sequential(q) => ~Holds(n, marks', q)
  PROVE  IInv'
<1>1. TypeOK /\ AskedInv /\ WorkInv /\ ControlInv
  BY DEF IInv
<1> HIDE DEF Holds, Sequential, AskedJob, WorkJob, TypeOK, AskedInv, WorkInv, ControlInv
<1>2. AskedInv' /\ WorkInv' /\ ControlInv'
  BY <1>1, PlainStep
<1> QED BY <1>2 DEF IInv

\* A process is given up, by a job that ends.
LEMMA CrashStep ==
  ASSUME IInv, NEW j \in jobs, NEW q \in Quest, jobs' \subseteq (jobs \ {j}) \cup Crash(q),
         prog' = prog, quest' = quest, proc' = proc, ops' = ops, live' = live, marks' = marks,
         active' \subseteq active, value' \in [Var -> Nat]
  PROVE  IInv'
<1>1. PICK N : N = Crash(q)
  OBVIOUS
<1>2. \A n \in N : /\ n \in Jobs /\ n.on = "useless" /\ AskedJob(n)' /\ WorkJob(n)'
                   /\ \A p \in Quest : ~Holds(n, marks', p)
  BY <1>1, CrashJobs
<1> HIDE DEF Crash, Holds, AskedJob, WorkJob, Sequential
<1>3. TypeOK'
  BY <1>1, <1>2, InvParts DEF TypeOK
<1>4. jobs' \subseteq jobs \cup N /\ marks' \subseteq marks
  BY <1>1
<1>5. \A n \in N : AskedJob(n)' /\ WorkJob(n)' /\ n.on # "mark" /\ \A p \in Quest : Sequential(p) => ~Holds(n, marks', p)
  BY <1>2
<1> HIDE DEF IInv, TypeOK
<1>6. \A p \in Quest : quest[p] # "none" => quest'[p] # "none"
  OBVIOUS
<1> QED BY <1>3, <1>4, <1>5, <1>6, AddStep

LEMMA ArcGoneInv == ASSUME IInv, NEW j \in jobs, ArcGone(j) PROVE IInv'
<1>1. jobs' = jobs \ {j} /\ UNCHANGED <<prog, quest, proc, ops, live, value, active, marks>>
  BY DEF ArcGone
<1>2. TypeOK'
  BY <1>1, InvParts DEF TypeOK
<1> HIDE DEF IInv, TypeOK
<1> QED BY <1>1, <1>2, QuietStep

LEMMA ReadOperandsInv == ASSUME IInv, NEW j \in jobs, ReadOperands(j) PROVE IInv'
<1>1. TypeOK /\ AskedInv /\ WorkInv /\ ControlInv
  BY DEF IInv
<1>2. PICK q \in Quest, o \in Op :
        /\ Starts(j, q, o, Types \ Special)
        /\ active' = active \ {j.arc}
        /\ IF NoValue(q, o) = {}
           THEN /\ value' = OneErased(Assign(q, o))
                /\ jobs' = Replace(j, [j EXCEPT !.pc = "body"])
           ELSE /\ \E S \in SUBSET Assign(q, o) : value' = OneErased(S)
                /\ jobs' = (jobs \ {j}) \cup Crash(q)
        /\ UNCHANGED <<prog, quest, proc, ops, live, marks>>
  BY DEF ReadOperands
<1>3. value' \in [Var -> Nat]
  BY <1>1, <1>2, ErasedType
<1>4. CASE NoValue(q, o) = {}
  <2>1. PICK k : k = [j EXCEPT !.pc = "body"]
    OBVIOUS
  <2>2. jobs' = (jobs \ {j}) \cup {k}
    BY <1>2, <1>4, <2>1 DEF Replace
  <2>3. k \in Jobs
    <3>1. j \in Jobs /\ j.on = "active"
      BY <1>1, <1>2 DEF TypeOK, Starts
    <3> QED BY <2>1, <3>1, ActiveGoes
  <2>4. TypeOK'
    BY <1>1, <1>2, <1>3, <2>2, <2>3 DEF TypeOK
  <2> DEFINE N == {}
  <2>5. \A n \in N : /\ n \in Jobs /\ AskedJob(n)' /\ WorkJob(n)' /\ n.on # "mark"
                     /\ \A p \in Quest : Sequential(p) /\ Holds(n, marks', p) =>
                          quest[p] = "none" /\ \A m \in N : Holds(m, marks', p) => m = n
    OBVIOUS
  <2>6. jobs' \subseteq (jobs \ {j}) \cup {[j EXCEPT !.pc = "body"]} \cup N
    BY <2>1, <2>2
  <2>7. /\ Starts(j, q, o, Types \ Special) /\ active' = active \ {j.arc} /\ marks' = marks /\ prog' = prog
        /\ \A p \in Quest : quest[p] # "none" => quest'[p] # "none"
    BY <1>2
  <2> HIDE DEF N, Starts, Holds, Sequential, AskedJob, WorkJob, TypeOK, AskedInv, WorkInv, ControlInv, Types, Special
  <2>8. AskedInv' /\ WorkInv' /\ ControlInv'
    BY <1>1, <2>4, <2>5, <2>6, <2>7, TakeStep
  <2> QED BY <2>4, <2>8 DEF IInv
<1>5. CASE NoValue(q, o) # {}
  <2> HIDE DEF IInv, Crash, Starts
  <2> QED BY <1>2, <1>3, <1>5, CrashStep
<1> QED BY <1>4, <1>5

\* The job of an operator that is at work.
LEMMA AtWork ==
  ASSUME IInv, NEW j \in jobs, j.on = "active", j.pc # "new"
  PROVE  /\ j \in Jobs /\ j.arc \in ActiveArc /\ j.arc[1] \in Quest /\ j.arc[2] \in Op /\ quest[j.arc[1]] # "none"
         /\ Sequential(j.arc[1]) => /\ \A a \in active : a[1] # j.arc[1]
                                    /\ \A i \in jobs \ {j} : ~Holds(i, marks, j.arc[1])
<1>1. j \in Jobs /\ AskedJob(j)
  BY InvParts DEF TypeOK, AskedInv
<1>2. j \in ActiveJob
  BY <1>1, JobKinds
<1>3. j.arc \in ActiveArc
  BY <1>2 DEF ActiveJob
<1>4. j.arc[1] \in Quest /\ j.arc[2] \in Op
  BY <1>3, ArcParts
<1>5. PICK q \in Quest : q = j.arc[1]
  BY <1>4
<1>6. Holds(j, marks, q)
  BY <1>5 DEF Holds
<1>7. quest[q] # "none"
  BY <1>1, <1>5 DEF AskedJob
<1> HIDE DEF Holds, Sequential
<1>8. Sequential(q) => (\A b \in active : b[1] # q) /\ \A i \in jobs : Holds(i, marks, q) => i = j
  BY <1>6, InvParts, FromJob
<1> QED BY <1>1, <1>3, <1>4, <1>5, <1>7, <1>8

LEMMA WorkStepInv == ASSUME IInv, NEW j \in jobs, NEW r \in Results, Work(j, r) PROVE IInv'
<1>1. TypeOK /\ AskedInv /\ WorkInv /\ ControlInv
  BY DEF IInv
<1>2. j.on = "active" /\ j.pc = "body" /\ UNCHANGED <<prog, quest, proc, ops, live, active>>
  BY DEF Work
<1>3. PICK q, o : q = j.arc[1] /\ o = j.arc[2]
  OBVIOUS
<1>4. /\ q \in Quest /\ o \in Op /\ quest[q] # "none"
      /\ Sequential(q) => (\A a \in active : a[1] # q) /\ \A i \in jobs \ {j} : ~Holds(i, marks, q)
  BY <1>2, <1>3, AtWork
<1>5. prog[q].type[o] \in Types \ Special
  BY <1>1, <1>2, <1>3 DEF WorkInv, WorkJob, TypeOf
<1>6. PICK agent : agent = AgentOf(prog[q].type[o])
  OBVIOUS
<1>7. /\ value' = (IF r \in agent.assigns THEN Assigned(Assign(q, o)) ELSE value)
      /\ IF r \in DOMAIN agent.after THEN Goto(q, o, agent.after[r], jobs \ {j})
         ELSE /\ jobs' = (jobs \ {j}) \cup (IF r \in agent.crash THEN Crash(q) ELSE {})
              /\ UNCHANGED marks
  BY <1>3, <1>6 DEF Work
<1>8. value' \in [Var -> Nat]
  <2>1. Assigned(Assign(q, o)) \in [Var -> Nat] /\ value \in [Var -> Nat]
    BY <1>1, AssignedType DEF TypeOK
  <2> HIDE DEF Assigned
  <2> QED BY <1>7, <2>1
<1>9. CASE r \in DOMAIN agent.after
  <2>1. PICK kind \in MarkKind : kind = agent.after[r]
    BY <1>5, <1>6, <1>9, Agents
  <2>2. Goto(q, o, kind, jobs \ {j})
    BY <1>7, <1>9, <2>1
  <2>3. /\ live' \subseteq Var /\ quest' \in [Quest -> {"none", "open", "finished", "erased"}]
        /\ proc' = proc /\ ops' = ops /\ prog' = prog /\ active' \subseteq active
        /\ \A p \in Quest : quest[p] # "none" => quest'[p] # "none"
    BY <1>1, <1>2 DEF TypeOK
  <2>4. Sequential(q) => (\A a \in active' : a[1] # q) /\ \A i \in jobs \ {j} : ~Holds(i, marks, q)
    BY <1>2, <1>4
  <2> HIDE DEF Goto, Holds, Sequential, TypeOK, AskedInv, WorkInv, ControlInv
  <2>5. TypeOK' /\ AskedInv' /\ WorkInv' /\ ControlInv'
    BY <1>1, <1>4, <1>8, <2>2, <2>3, <2>4, GotoStep
  <2> QED BY <2>5 DEF IInv
<1>10. CASE r \notin DOMAIN agent.after
  <2>1. jobs' \subseteq (jobs \ {j}) \cup Crash(q) /\ UNCHANGED marks
    <3> HIDE DEF Crash
    <3> QED BY <1>7, <1>10
  <2> HIDE DEF IInv, Crash
  <2> QED BY <1>2, <1>4, <1>8, <2>1, CrashStep
<1> QED BY <1>9, <1>10

LEMMA IfVarAssignInv == ASSUME IInv, NEW j \in jobs, IfVarAssign(j) PROVE IInv'
<1>1. TypeOK /\ AskedInv /\ WorkInv /\ ControlInv
  BY DEF IInv
<1>2. PICK q \in Quest, o \in Op :
        /\ Starts(j, q, o, {"ifVarAssign"})
        /\ active' = active \ {j.arc}
        /\ value' = OneErased(Assign(q, o))
        /\ Goto(q, o, IF \A v \in Fixed(q, o) \cup Assign(q, o) : v \in live /\ value[v] > 0
                      THEN "success" ELSE "unsuccess", jobs \ {j})
        /\ UNCHANGED <<prog, quest, proc, ops, live>>
  BY DEF IfVarAssign
<1>3. PICK kind \in MarkKind : Goto(q, o, kind, jobs \ {j})
  <2>1. CASE \A v \in Fixed(q, o) \cup Assign(q, o) : v \in live /\ value[v] > 0
    <3>1. Goto(q, o, "success", jobs \ {j})
      BY <1>2, <2>1
    <3> QED BY <3>1 DEF MarkKind
  <2>2. CASE ~ \A v \in Fixed(q, o) \cup Assign(q, o) : v \in live /\ value[v] > 0
    <3>1. Goto(q, o, "unsuccess", jobs \ {j})
      BY <1>2, <2>2
    <3> QED BY <3>1 DEF MarkKind
  <2> QED BY <2>1, <2>2
<1>4. value' \in [Var -> Nat]
  BY <1>1, <1>2, ErasedType
<1>5. /\ quest[q] # "none"
      /\ Sequential(q) => (\A a \in active' : a[1] # q) /\ \A i \in jobs \ {j} : ~Holds(i, marks, q)
  BY <1>1, <1>2, StartsFacts
<1>6. /\ live' \subseteq Var /\ quest' \in [Quest -> {"none", "open", "finished", "erased"}]
      /\ proc' = proc /\ ops' = ops /\ prog' = prog /\ active' \subseteq active
      /\ \A p \in Quest : quest[p] # "none" => quest'[p] # "none"
  BY <1>1, <1>2 DEF TypeOK
<1> HIDE DEF Goto, Holds, Sequential, TypeOK, AskedInv, WorkInv, ControlInv
<1>7. TypeOK' /\ AskedInv' /\ WorkInv' /\ ControlInv'
  BY <1>1, <1>3, <1>4, <1>5, <1>6, GotoStep
<1> QED BY <1>7 DEF IInv

LEMMA GiveUpInv == ASSUME IInv, NEW j \in jobs, GiveUp(j) PROVE IInv'
<1>1. j.on = "active" /\ j.pc # "new" /\ UNCHANGED <<prog, quest, proc, ops, live, value, active, marks>>
  BY DEF GiveUp
<1>2. PICK q \in Quest : q = j.arc[1]
  BY <1>1, AtWork
<1>3. jobs' \subseteq (jobs \ {j}) \cup Crash(q)
  BY <1>2 DEF GiveUp
<1>4. value' \in [Var -> Nat]
  BY <1>1, InvParts DEF TypeOK
<1> HIDE DEF IInv, Crash
<1> QED BY <1>1, <1>3, <1>4, CrashStep

LEMMA CalledInv == ASSUME IInv, NEW j \in jobs, Called(j) PROVE IInv'
<1>1. TypeOK /\ AskedInv /\ WorkInv /\ ControlInv
  BY DEF IInv
<1>2. j.on = "active" /\ j.pc # "new" /\ UNCHANGED <<prog, quest, proc, ops, live, value, active>>
  BY DEF Called
<1>3. PICK q, o : q = j.arc[1] /\ o = j.arc[2]
  OBVIOUS
<1>4. /\ q \in Quest /\ o \in Op /\ quest[q] # "none"
      /\ Sequential(q) => (\A a \in active' : a[1] # q) /\ \A i \in jobs \ {j} : ~Holds(i, marks, q)
  BY <1>2, <1>3, AtWork
<1>5. PICK kind \in MarkKind : Goto(q, o, kind, jobs \ {j})
  BY <1>3 DEF Called, MarkKind
<1>6. /\ live' \subseteq Var /\ quest' \in [Quest -> {"none", "open", "finished", "erased"}]
      /\ proc' = proc /\ ops' = ops /\ prog' = prog /\ active' \subseteq active /\ value' \in [Var -> Nat]
      /\ \A p \in Quest : quest[p] # "none" => quest'[p] # "none"
  BY <1>1, <1>2 DEF TypeOK
<1> HIDE DEF Goto, Holds, Sequential, TypeOK, AskedInv, WorkInv, ControlInv
<1>7. TypeOK' /\ AskedInv' /\ WorkInv' /\ ControlInv'
  BY <1>1, <1>4, <1>5, <1>6, GotoStep
<1> QED BY <1>7 DEF IInv

LEMMA ReturnInv == ASSUME IInv, NEW j \in jobs, Return(j) PROVE IInv'
<1>1. TypeOK /\ AskedInv /\ WorkInv /\ ControlInv
  BY DEF IInv
<1>2. PICK q \in Quest, o \in Op :
        /\ Starts(j, q, o, {"return"})
        /\ active' = active \ {j.arc}
        /\ IF quest[q] = "erased"
           THEN /\ jobs' = Replace(j, [j EXCEPT !.pc = "returned"])
                /\ UNCHANGED quest
           ELSE /\ jobs' = Replace(j, [j EXCEPT !.pc = "returned"]) \cup {Finished(q)}
                /\ quest' = [quest EXCEPT ![q] = "finished"]
        /\ UNCHANGED <<prog, proc, ops, live, value, marks>>
  BY DEF Return
<1>3. PICK k : k = [j EXCEPT !.pc = "returned"]
  OBVIOUS
<1>4. k \in Jobs
  <2>1. j \in Jobs /\ j.on = "active"
    BY <1>1, <1>2 DEF TypeOK, Starts
  <2> QED BY <1>3, <2>1, ActiveGoes
<1>5. Finished(q) \in Jobs /\ Finished(q).on = "finished" /\ Finished(q).waiter = {}
  BY NewJobs
<1> HIDE DEF Finished
<1>6. jobs' \subseteq (jobs \ {j}) \cup {k} \cup {Finished(q)}
  BY <1>2, <1>3 DEF Replace
<1>7. quest' \in [Quest -> {"none", "open", "finished", "erased"}] /\ \A p \in Quest : quest[p] # "none" => quest'[p] # "none"
  BY <1>1, <1>2 DEF TypeOK
<1>8. TypeOK'
  BY <1>1, <1>2, <1>4, <1>5, <1>6, <1>7 DEF TypeOK
<1> DEFINE N == {Finished(q)}
<1>9. \A n \in N : /\ n \in Jobs /\ AskedJob(n)' /\ WorkJob(n)' /\ n.on # "mark"
                   /\ \A p \in Quest : Sequential(p) /\ Holds(n, marks', p) =>
                        quest[p] = "none" /\ \A m \in N : Holds(m, marks', p) => m = n
  BY <1>5 DEF AskedJob, WorkJob, Holds
<1>10. jobs' \subseteq (jobs \ {j}) \cup {[j EXCEPT !.pc = "returned"]} \cup N
  BY <1>3, <1>6
<1>11. Starts(j, q, o, {"return"}) /\ active' = active \ {j.arc} /\ marks' = marks /\ prog' = prog
  BY <1>2
<1> HIDE DEF N, Starts, Holds, Sequential, AskedJob, WorkJob, TypeOK, AskedInv, WorkInv, ControlInv, Types, Special
<1>12. AskedInv' /\ WorkInv' /\ ControlInv'
  BY <1>1, <1>7, <1>8, <1>9, <1>10, <1>11, TakeStep
<1> QED BY <1>8, <1>12 DEF IInv

LEMMA CallInv == ASSUME IInv, NEW j \in jobs, Call(j) PROVE IInv'
<1>1. TypeOK /\ AskedInv /\ WorkInv /\ ControlInv
  BY DEF IInv
<1>2. PICK q \in Quest, o \in Op :
        /\ Starts(j, q, o, {"call"})
        /\ active' = active \ {j.arc}
        /\ \E S : value' = OneErased(S)
        /\ \E c \in prog[q].waits[o] :
             /\ quest[c] = "none"
             /\ IF NoValue(q, o) = {}
                THEN /\ quest' = [quest EXCEPT ![c] = "open"]
                     /\ jobs' = Replace(j, [j EXCEPT !.pc = "called"]) \cup {Asked(c)}
                ELSE /\ jobs' = (jobs \ {j}) \cup Crash(q)
                     /\ UNCHANGED quest
        /\ UNCHANGED <<prog, proc, ops, live, marks>>
  BY DEF Call
<1>3. value' \in [Var -> Nat]
  BY <1>1, <1>2 DEF TypeOK, OneErased
<1>4. PICK c \in prog[q].waits[o] :
        /\ quest[c] = "none"
        /\ IF NoValue(q, o) = {}
           THEN /\ quest' = [quest EXCEPT ![c] = "open"]
                /\ jobs' = Replace(j, [j EXCEPT !.pc = "called"]) \cup {Asked(c)}
           ELSE /\ jobs' = (jobs \ {j}) \cup Crash(q)
                /\ UNCHANGED quest
  BY <1>2
<1>5. c \in Quest
  BY <1>1, Programs
<1>6. CASE NoValue(q, o) = {}
  <2>1. PICK k : k = [j EXCEPT !.pc = "called"]
    OBVIOUS
  <2>2. k \in Jobs
    <3>1. j \in Jobs /\ j.on = "active"
      BY <1>1, <1>2 DEF TypeOK, Starts
    <3> QED BY <2>1, <3>1, ActiveGoes
  <2>3. Asked(c) \in Jobs /\ Asked(c).on = "initiated" /\ Asked(c).quest = c /\ Asked(c).todo = {}
    BY <1>5, NewJobs
  <2> HIDE DEF Asked
  <2>4. jobs' \subseteq (jobs \ {j}) \cup {k} \cup {Asked(c)}
    BY <1>4, <1>6, <2>1 DEF Replace
  <2>5. quest' = [quest EXCEPT ![c] = "open"]
    BY <1>4, <1>6
  <2>6. /\ quest' \in [Quest -> {"none", "open", "finished", "erased"}] /\ quest'[c] = "open"
        /\ \A p \in Quest : quest[p] # "none" => quest'[p] # "none"
    BY <1>1, <1>5, <2>5 DEF TypeOK
  <2>7. TypeOK'
    BY <1>1, <1>2, <1>3, <2>2, <2>3, <2>4, <2>6 DEF TypeOK
  <2> DEFINE N == {Asked(c)}
  <2>8. \A n \in N : /\ n \in Jobs /\ AskedJob(n)' /\ WorkJob(n)' /\ n.on # "mark"
                     /\ \A p \in Quest : Sequential(p) /\ Holds(n, marks', p) =>
                          quest[p] = "none" /\ \A m \in N : Holds(m, marks', p) => m = n
    <3>1. AskedJob(Asked(c))' /\ WorkJob(Asked(c))'
      BY <2>3, <2>6 DEF AskedJob, WorkJob
    <3>2. \A p \in Quest : Holds(Asked(c), marks', p) => p = c
      BY <2>3 DEF Holds
    <3> HIDE DEF Holds, Sequential, AskedJob, WorkJob
    <3> QED BY <1>4, <2>3, <3>1, <3>2
  <2>9. jobs' \subseteq (jobs \ {j}) \cup {[j EXCEPT !.pc = "called"]} \cup N
    BY <2>1, <2>4
  <2>10. Starts(j, q, o, {"call"}) /\ active' = active \ {j.arc} /\ marks' = marks /\ prog' = prog
    BY <1>2
  <2> HIDE DEF N, Starts, Holds, Sequential, AskedJob, WorkJob, TypeOK, AskedInv, WorkInv, ControlInv, Types, Special
  <2>11. AskedInv' /\ WorkInv' /\ ControlInv'
    BY <1>1, <2>6, <2>7, <2>8, <2>9, <2>10, TakeStep
  <2> QED BY <2>7, <2>11 DEF IInv
<1>7. CASE NoValue(q, o) # {}
  <2>1. jobs' \subseteq (jobs \ {j}) \cup Crash(q) /\ UNCHANGED quest
    BY <1>4, <1>7
  <2>2. active' \subseteq active /\ UNCHANGED <<prog, proc, ops, live, marks>>
    BY <1>2
  <2> HIDE DEF IInv, Crash
  <2> QED BY <1>3, <2>1, <2>2, CrashStep
<1> QED BY <1>6, <1>7

-----------------------------------------------------------------------------
\* Operators that wait: no sequential program has any.

LEMMA NotSequential ==
  ASSUME TypeOK, NEW q \in Quest, NEW o \in Op, prog[q].type[o] \in {"waitReturn", "waitReturnSet", "sys_wait"}
  PROVE  ~Sequential(q)
BY DEF Sequential, Straight, WaitTypes

\* A job ends with the mark of an operator that was waiting.
LEMMA WaiterGoesOn ==
  ASSUME IInv, NEW j \in jobs, NEW a \in ActiveArc, TypeOf(a) \in {"waitReturn", "waitReturnSet", "sys_wait"},
         quest[a[1]] # "none", Goto(a[1], a[2], "executed", jobs \ {j}), prog' = prog, proc' = proc, ops' = ops,
         live' \subseteq live, value' = value, active' \subseteq active,
         quest' \in [Quest -> {"none", "open", "finished", "erased"}],
         \A q \in Quest : quest[q] # "none" => quest'[q] # "none"
  PROVE  IInv'
<1>1. TypeOK /\ AskedInv /\ WorkInv /\ ControlInv
  BY DEF IInv
<1>2. PICK q \in Quest, o \in Op : q = a[1] /\ o = a[2]
  BY ArcParts
<1>3. ~Sequential(q)
  BY <1>1, <1>2, NotSequential DEF TypeOf
<1>4. PICK kind \in MarkKind : Goto(q, o, kind, jobs \ {j})
  BY <1>2 DEF MarkKind
<1>5. live' \subseteq Var /\ value' \in [Var -> Nat]
  BY <1>1 DEF TypeOK
<1>6. quest[q] # "none"
  BY <1>2
<1> HIDE DEF Goto, Holds, Sequential, TypeOK, AskedInv, WorkInv, ControlInv
<1>7. TypeOK' /\ AskedInv' /\ WorkInv' /\ ControlInv'
  BY <1>1, <1>3, <1>4, <1>5, <1>6, GotoStep
<1> QED BY <1>7 DEF IInv

LEMMA WaitReturnInv == ASSUME IInv, NEW j \in jobs, WaitReturn(j) PROVE IInv'
<1>1. TypeOK /\ AskedInv /\ WorkInv /\ ControlInv
  BY DEF IInv
<1>2. PICK q \in Quest, o \in Op :
        /\ Starts(j, q, o, {"waitReturn"})
        /\ \E c \in prog[q].waits[o] :
             jobs' = IF quest[c] = "finished" THEN Replace(j, [j EXCEPT !.pc = "collect"])
                     ELSE jobs \ {j}
        /\ UNCHANGED <<prog, quest, proc, ops, live, value, active, marks>>
  BY DEF WaitReturn
<1>3. PICK k : k = [j EXCEPT !.pc = "collect"]
  OBVIOUS
<1>4. /\ j \in Jobs /\ j.on = "active" /\ q = j.arc[1] /\ TypeOf(j.arc) = "waitReturn" /\ quest[q] # "none"
      /\ prog[q].type[o] = "waitReturn"
  <2>1. j.on = "active" /\ q = j.arc[1] /\ o = j.arc[2] /\ TypeOf(j.arc) \in {"waitReturn"} /\ quest[q] # "none"
    BY <1>1, <1>2, StartsFacts
  <2> QED BY <1>1, <2>1 DEF TypeOK, TypeOf
<1>5. k \in Jobs /\ k.on = "active" /\ k.arc = j.arc /\ k.pc = "collect"
  BY <1>3, <1>4, ActiveGoes
<1>6. jobs' \subseteq (jobs \ {j}) \cup {k}
  BY <1>2, <1>3 DEF Replace
<1>7. TypeOK'
  BY <1>1, <1>2, <1>5, <1>6 DEF TypeOK
<1>8. AskedJob(k)' /\ WorkJob(k)'
  BY <1>2, <1>4, <1>5 DEF AskedJob, WorkJob, TypeOf
<1>9. \A p \in Quest : Holds(k, marks', p) => p = q
  BY <1>4, <1>5 DEF Holds
<1>10. ~Sequential(q)
  BY <1>1, <1>4, NotSequential
<1> HIDE DEF Holds, Sequential, AskedJob, WorkJob
<1> DEFINE N == {k}
<1>11. \A n \in N : AskedJob(n)' /\ WorkJob(n)' /\ n.on # "mark" /\ \A p \in Quest : Sequential(p) => ~Holds(n, marks', p)
  BY <1>5, <1>8, <1>9, <1>10
<1>12. /\ jobs' \subseteq jobs \cup N /\ active' \subseteq active /\ marks' \subseteq marks /\ prog' = prog
       /\ \A p \in Quest : quest[p] # "none" => quest'[p] # "none"
  BY <1>2, <1>6
<1> HIDE DEF N, IInv, TypeOK
<1> QED BY <1>7, <1>11, <1>12, AddStep

\* Erasing questions leaves them asked.
LEMMA ErasedQuestions ==
  ASSUME TypeOK, NEW S, quest' = [c \in Quest |-> IF c \in S THEN "erased" ELSE quest[c]]
  PROVE  /\ quest' \in [Quest -> {"none", "open", "finished", "erased"}]
         /\ \A q \in Quest : quest[q] # "none" => quest'[q] # "none"
BY DEF TypeOK

LEMMA WaitCollectsInv == ASSUME IInv, NEW j \in jobs, WaitCollects(j) PROVE IInv'
<1>1. TypeOK /\ AskedInv /\ WorkInv /\ ControlInv
  BY DEF IInv
<1>2. /\ j.on = "active" /\ j.pc = "collect" /\ UNCHANGED <<prog, proc, ops, live, value>>
      /\ active' = active \ {j.arc} /\ Goto(j.arc[1], j.arc[2], "executed", jobs \ {j})
  BY DEF WaitCollects, Collect
<1>3. PICK S : quest' = [c \in Quest |-> IF c \in S THEN "erased" ELSE quest[c]]
  BY DEF WaitCollects, Collect
<1>4. j.arc \in ActiveArc /\ quest[j.arc[1]] # "none"
  BY <1>2, AtWork
<1>5. TypeOf(j.arc) = "waitReturn"
  BY <1>1, <1>2 DEF WorkInv, WorkJob
<1>6. /\ quest' \in [Quest -> {"none", "open", "finished", "erased"}]
      /\ \A q \in Quest : quest[q] # "none" => quest'[q] # "none"
  BY <1>1, <1>3, ErasedQuestions
<1>7. PICK a \in ActiveArc : a = j.arc
  BY <1>4
<1>8. /\ TypeOf(a) \in {"waitReturn", "waitReturnSet", "sys_wait"} /\ quest[a[1]] # "none"
      /\ Goto(a[1], a[2], "executed", jobs \ {j}) /\ live' \subseteq live /\ active' \subseteq active
  BY <1>2, <1>4, <1>5, <1>7
<1> HIDE DEF IInv, Goto, TypeOf
<1> QED BY <1>2, <1>6, <1>8, WaiterGoesOn

LEMMA WaitReturnSetInv == ASSUME IInv, NEW j \in jobs, WaitReturnSet(j) PROVE IInv'
<1>1. TypeOK /\ AskedInv /\ WorkInv /\ ControlInv
  BY DEF IInv
<1>2. PICK q \in Quest, o \in Op :
        /\ Starts(j, q, o, {"waitReturnSet"})
        /\ live' = live \ Fixed(q, o)
        /\ active' = active \ {j.arc}
        /\ Goto(q, o, "executed", jobs \ {j})
        /\ UNCHANGED <<prog, quest, proc, ops, value>>
  BY DEF WaitReturnSet
<1>3. PICK a \in ActiveArc : a = j.arc /\ q = a[1] /\ o = a[2] /\ TypeOf(a) \in {"waitReturnSet"} /\ quest[q] # "none"
  BY <1>1, <1>2, StartsFacts
<1>4. /\ TypeOf(a) \in {"waitReturn", "waitReturnSet", "sys_wait"} /\ quest[a[1]] # "none"
      /\ Goto(a[1], a[2], "executed", jobs \ {j}) /\ live' \subseteq live /\ active' \subseteq active
  BY <1>2, <1>3
<1>5. /\ quest' \in [Quest -> {"none", "open", "finished", "erased"}]
      /\ \A p \in Quest : quest[p] # "none" => quest'[p] # "none"
  BY <1>1, <1>2 DEF TypeOK
<1> HIDE DEF IInv, Goto, TypeOf
<1> QED BY <1>2, <1>4, <1>5, WaiterGoesOn

LEMMA QuestionFinishedInv == ASSUME IInv, NEW j \in jobs, QuestionFinished(j) PROVE IInv'
<1>1. TypeOK /\ AskedInv /\ WorkInv /\ ControlInv
  BY DEF IInv
<1>2. j.on = "finished" /\ UNCHANGED <<prog, quest, proc, ops, live, value, active, marks>>
  BY DEF QuestionFinished
<1>3. j \in FinishedJob
  <2>1. j \in Jobs
    BY <1>1 DEF TypeOK
  <2> QED BY <1>2, <2>1, JobKinds
<1>4. CASE jobs' = jobs \ {j}
  <2>1. TypeOK'
    BY <1>1, <1>2, <1>4 DEF TypeOK
  <2> HIDE DEF IInv, TypeOK
  <2> QED BY <1>2, <1>4, <2>1, QuietStep
<1>5. ASSUME NEW a \in Waiting(j.quest), jobs' = Replace(j, [j EXCEPT !.pc = "collect", !.waiter = {a}])
      PROVE  IInv'
  <2>1. a \in active /\ a \in ActiveArc /\ TypeOf(a) \in {"waitReturn", "waitReturnSet"} /\ quest[a[1]] # "none"
    BY <1>1 DEF Waiting, TypeOf, TypeOK, AskedInv
  <2>2. PICK k : k = [j EXCEPT !.pc = "collect", !.waiter = {a}]
    OBVIOUS
  <2>3. k \in FinishedJob /\ k.on = "finished" /\ k.waiter = {a}
    BY <1>3, <2>1, <2>2 DEF FinishedJob
  <2>4. jobs' = (jobs \ {j}) \cup {k}
    BY <1>5, <2>2 DEF Replace
  <2>5. TypeOK'
    BY <1>1, <1>2, <2>3, <2>4, JobsAre DEF TypeOK
  <2> DEFINE N == {k}
  <2>6. AskedJob(k)' /\ WorkJob(k)' /\ \A p \in Quest : ~Holds(k, marks', p)
    BY <1>2, <2>1, <2>3 DEF AskedJob, WorkJob, TypeOf, Holds
  <2> HIDE DEF Holds, Sequential, AskedJob, WorkJob, IInv, TypeOK
  <2>7. \A n \in N : AskedJob(n)' /\ WorkJob(n)' /\ n.on # "mark" /\ \A p \in Quest : Sequential(p) => ~Holds(n, marks', p)
    BY <2>3, <2>6
  <2>8. /\ jobs' \subseteq jobs \cup N /\ active' \subseteq active /\ marks' \subseteq marks /\ prog' = prog
        /\ \A p \in Quest : quest[p] # "none" => quest'[p] # "none"
    BY <1>2, <2>4
  <2> HIDE DEF N
  <2> QED BY <2>5, <2>7, <2>8, AddStep
<1> QED BY <1>4, <1>5 DEF QuestionFinished

LEMMA FinishedCollectsInv == ASSUME IInv, NEW j \in jobs, FinishedCollects(j) PROVE IInv'
<1>1. TypeOK /\ AskedInv /\ WorkInv /\ ControlInv
  BY DEF IInv
<1>2. PICK a \in j.waiter :
       IF \A c \in prog[a[1]].waits[a[2]] \ {j.quest} : quest[c] \in {"none", "erased"}
       THEN Collect(j, a, {j.quest})
       ELSE /\ quest' = [quest EXCEPT ![j.quest] = "erased"]
            /\ jobs' = jobs \ {j}
            /\ UNCHANGED <<prog, proc, ops, live, value, active, marks>>
  BY DEF FinishedCollects
<1>3. /\ j.on = "finished" /\ j.quest \in Quest /\ a \in ActiveArc /\ quest[a[1]] # "none"
      /\ TypeOf(a) \in {"waitReturn", "waitReturnSet"}
  <2>1. j \in Jobs /\ j.on = "finished" /\ AskedJob(j) /\ WorkJob(j)
    BY <1>1 DEF TypeOK, AskedInv, WorkInv, FinishedCollects
  <2>2. j \in FinishedJob
    BY <2>1, JobKinds
  <2> QED BY <2>1, <2>2 DEF FinishedJob, AskedJob, WorkJob
<1>4. CASE Collect(j, a, {j.quest})
  <2>1. /\ UNCHANGED <<prog, proc, ops, live, value>> /\ active' \subseteq active /\ live' \subseteq live
        /\ Goto(a[1], a[2], "executed", jobs \ {j})
    BY <1>4 DEF Collect
  <2>2. PICK S : quest' = [c \in Quest |-> IF c \in S THEN "erased" ELSE quest[c]]
    BY <1>4 DEF Collect
  <2>3. /\ quest' \in [Quest -> {"none", "open", "finished", "erased"}]
        /\ \A q \in Quest : quest[q] # "none" => quest'[q] # "none"
    BY <1>1, <2>2, ErasedQuestions
  <2>4. TypeOf(a) \in {"waitReturn", "waitReturnSet", "sys_wait"}
    BY <1>3
  <2> HIDE DEF IInv, Goto, TypeOf
  <2> QED BY <1>3, <2>1, <2>3, <2>4, WaiterGoesOn
<1>5. CASE /\ quest' = [quest EXCEPT ![j.quest] = "erased"]
           /\ jobs' = jobs \ {j}
           /\ UNCHANGED <<prog, proc, ops, live, value, active, marks>>
  <2>1. TypeOK' /\ \A q \in Quest : quest[q] # "none" => quest'[q] # "none"
    BY <1>1, <1>3, <1>5 DEF TypeOK
  <2> HIDE DEF IInv, TypeOK
  <2> QED BY <1>5, <2>1, QuietStep
<1> QED BY <1>2, <1>4, <1>5

LEMMA SysWaitInv == ASSUME IInv, NEW j \in jobs, SysWait(j) PROVE IInv'
<1>1. TypeOK /\ AskedInv /\ WorkInv /\ ControlInv
  BY DEF IInv
<1>2. PICK q \in Quest, o \in Op :
        /\ Starts(j, q, o, {"sys_wait"})
        /\ jobs' \in {jobs \ {j}, Replace(j, [on |-> "waits", arc |-> j.arc])}
        /\ value' = OneErased(Assign(q, o))
        /\ UNCHANGED <<prog, quest, proc, ops, live, active, marks>>
  BY DEF SysWait
<1>3. j.arc \in ActiveArc /\ q = j.arc[1] /\ TypeOf(j.arc) \in {"sys_wait"} /\ quest[q] # "none"
  BY <1>1, <1>2, StartsFacts
<1>4. value' \in [Var -> Nat]
  BY <1>1, <1>2, ErasedType
<1>5. PICK k : k = [on |-> "waits", arc |-> j.arc]
  OBVIOUS
<1>6. k \in WaitsJob /\ k.on = "waits" /\ k.arc = j.arc
  BY <1>3, <1>5 DEF WaitsJob
<1>7. jobs' \subseteq (jobs \ {j}) \cup {k}
  BY <1>2, <1>5 DEF Replace
<1>8. TypeOK'
  BY <1>1, <1>2, <1>4, <1>6, <1>7, JobsAre DEF TypeOK
<1>9. AskedJob(k)' /\ WorkJob(k)' /\ \A p \in Quest : ~Holds(k, marks', p)
  BY <1>2, <1>3, <1>6 DEF AskedJob, WorkJob, TypeOf, Holds
<1> DEFINE N == {k}
<1> HIDE DEF Holds, Sequential, AskedJob, WorkJob, IInv, TypeOK
<1>10. \A n \in N : AskedJob(n)' /\ WorkJob(n)' /\ n.on # "mark" /\ \A p \in Quest : Sequential(p) => ~Holds(n, marks', p)
  BY <1>6, <1>9
<1>11. /\ jobs' \subseteq jobs \cup N /\ active' \subseteq active /\ marks' \subseteq marks /\ prog' = prog
       /\ \A p \in Quest : quest[p] # "none" => quest'[p] # "none"
  BY <1>2, <1>7
<1> HIDE DEF N
<1> QED BY <1>8, <1>10, <1>11, AddStep

\* A subscription or an event of sys_wait.
LEMMA OfSysWait ==
  ASSUME IInv, NEW j \in jobs, j.on \in {"waits", "event"}
  PROVE  j \in Jobs /\ j.arc \in ActiveArc /\ quest[j.arc[1]] # "none" /\ TypeOf(j.arc) = "sys_wait"
<1>1. j \in Jobs /\ AskedJob(j) /\ WorkJob(j)
  BY InvParts DEF TypeOK, AskedInv, WorkInv
<1>2. j \in WaitsJob \/ j \in EventJob
  BY <1>1, JobKinds
<1>3. j.arc \in ActiveArc
  BY <1>2 DEF WaitsJob, EventJob
<1> QED BY <1>1, <1>3 DEF AskedJob, WorkJob

\* An event of sys_wait occurs, or goes on.
LEMMA EventStep ==
  ASSUME IInv, NEW j \in jobs, j.on \in {"waits", "event"}, NEW k \in EventJob, k.arc = j.arc,
         jobs' \subseteq jobs \cup {k}, UNCHANGED <<prog, quest, proc, ops, live, value, active, marks>>
  PROVE  IInv'
<1>1. j.arc \in ActiveArc /\ quest[j.arc[1]] # "none" /\ TypeOf(j.arc) = "sys_wait"
  BY OfSysWait
<1>2. k.on = "event"
  BY DEF EventJob
<1>3. TypeOK'
  BY InvParts, JobsAre DEF TypeOK
<1>4. AskedJob(k)' /\ WorkJob(k)' /\ \A p \in Quest : ~Holds(k, marks', p)
  BY <1>1, <1>2 DEF AskedJob, WorkJob, TypeOf, Holds
<1> DEFINE N == {k}
<1> HIDE DEF Holds, Sequential, AskedJob, WorkJob, IInv, TypeOK
<1>5. \A n \in N : AskedJob(n)' /\ WorkJob(n)' /\ n.on # "mark" /\ \A p \in Quest : Sequential(p) => ~Holds(n, marks', p)
  BY <1>2, <1>4
<1>6. jobs' \subseteq jobs \cup N /\ active' \subseteq active /\ marks' \subseteq marks
  OBVIOUS
<1> HIDE DEF N
<1>7. \A p \in Quest : quest[p] # "none" => quest'[p] # "none"
  OBVIOUS
<1> QED BY <1>3, <1>5, <1>6, <1>7, AddStep

LEMMA EventOccursInv == ASSUME IInv, NEW j \in jobs, EventOccurs(j) PROVE IInv'
<1>1. j.on \in {"waits", "event"} /\ UNCHANGED <<prog, quest, proc, ops, live, value, active, marks>>
  BY DEF EventOccurs
<1>2. PICK n \in 1..MaxArcs : jobs' = jobs \cup {[on |-> "event", arc |-> j.arc, pc |-> "new", n |-> n]}
  BY DEF EventOccurs
<1>3. j.arc \in ActiveArc
  BY <1>1, OfSysWait
<1>4. PICK k : k = [on |-> "event", arc |-> j.arc, pc |-> "new", n |-> n]
  OBVIOUS
<1>5. k \in EventJob /\ k.arc = j.arc
  BY <1>3, <1>4 DEF EventJob
<1>6. jobs' \subseteq jobs \cup {k}
  BY <1>2, <1>4
<1> HIDE DEF IInv
<1> QED BY <1>1, <1>5, <1>6, EventStep

LEMMA SysWaitProcessorInv == ASSUME IInv, NEW j \in jobs, SysWaitProcessor(j) PROVE IInv'
<1>1. j.on \in {"waits", "event"} /\ j.on = "event" /\ UNCHANGED <<prog, quest, proc, ops, live, value>>
  BY DEF SysWaitProcessor
<1>2. j \in Jobs /\ j.arc \in ActiveArc /\ quest[j.arc[1]] # "none" /\ TypeOf(j.arc) = "sys_wait"
  BY <1>1, OfSysWait
<1>3. CASE jobs' \subseteq Replace(j, [j EXCEPT !.pc = "destroy"]) /\ UNCHANGED <<active, marks>>
  <2>1. PICK k : k = [j EXCEPT !.pc = "destroy"]
    OBVIOUS
  <2>2. j \in EventJob
    BY <1>1, <1>2, JobKinds
  <2>3. k \in EventJob /\ k.arc = j.arc
    BY <2>1, <2>2 DEF EventJob
  <2>4. jobs' \subseteq jobs \cup {k}
    BY <1>3, <2>1 DEF Replace
  <2> HIDE DEF IInv
  <2> QED BY <1>1, <1>3, <2>3, <2>4, EventStep
<1>4. CASE active' = active \ {j.arc} /\ Goto(j.arc[1], j.arc[2], "executed", jobs \ {j})
  <2>1. PICK a \in ActiveArc : a = j.arc
    BY <1>2
  <2>2. /\ TypeOf(a) \in {"waitReturn", "waitReturnSet", "sys_wait"} /\ quest[a[1]] # "none"
        /\ Goto(a[1], a[2], "executed", jobs \ {j}) /\ live' \subseteq live /\ active' \subseteq active
    BY <1>1, <1>2, <1>4, <2>1
  <2>3. /\ quest' \in [Quest -> {"none", "open", "finished", "erased"}]
        /\ \A p \in Quest : quest[p] # "none" => quest'[p] # "none"
    BY <1>1, InvParts DEF TypeOK
  <2> HIDE DEF IInv, Goto, TypeOf
  <2> QED BY <1>1, <2>2, <2>3, WaiterGoesOn
<1>5. CASE jobs' = jobs \ {j} /\ UNCHANGED <<active, marks>>
  <2>1. TypeOK'
    BY <1>1, <1>5, InvParts DEF TypeOK
  <2> HIDE DEF IInv, TypeOK
  <2> QED BY <1>1, <1>5, <2>1, QuietStep
<1>6. \/ jobs' \subseteq Replace(j, [j EXCEPT !.pc = "destroy"]) /\ UNCHANGED <<active, marks>>
      \/ active' = active \ {j.arc} /\ Goto(j.arc[1], j.arc[2], "executed", jobs \ {j})
      \/ jobs' = jobs \ {j} /\ UNCHANGED <<active, marks>>
  <2> HIDE DEF Goto, Replace
  <2> QED BY DEF SysWaitProcessor
<1> QED BY <1>3, <1>4, <1>5, <1>6

-----------------------------------------------------------------------------
\* The synchronizer.

\* The job of a mark.
LEMMA OfMark ==
  ASSUME IInv, NEW j \in jobs, j.on = "mark"
  PROVE  /\ j \in Jobs /\ j \in MarkJob /\ j.mark \in Mark /\ j.todo \subseteq Edge /\ j.next \subseteq Op
         /\ j.mark[1] \in Quest /\ j.mark[2] \in Op /\ j.mark[3] \in MarkKind /\ quest[j.mark[1]] # "none"
         /\ Sequential(j.mark[1]) => OneWay(j)
<1>1. j \in Jobs /\ AskedJob(j)
  BY InvParts DEF TypeOK, AskedInv
<1>2. j \in MarkJob
  BY <1>1, JobKinds
<1>3. j.mark \in Mark /\ j.todo \subseteq Edge /\ j.next \subseteq Op
  BY <1>2 DEF MarkJob
<1>4. j.mark[1] \in Quest /\ j.mark[2] \in Op /\ j.mark[3] \in MarkKind
  BY <1>3, MarkParts
<1>5. quest[j.mark[1]] # "none"
  BY <1>1 DEF AskedJob
<1>6. Sequential(j.mark[1]) => OneWay(j)
  BY <1>4, InvParts DEF ControlInv
<1> QED BY <1>1, <1>2, <1>3, <1>4, <1>5, <1>6

\* The job of a mark that has control goes on as k.
LEMMA MarkStep ==
  ASSUME IInv, NEW j \in jobs, j.on = "mark", Holds(j, marks, j.mark[1]), NEW k \in Jobs, k.on = "mark", k.mark = j.mark,
         Sequential(j.mark[1]) => OneWay(k), jobs' \subseteq (jobs \ {j}) \cup {k},
         UNCHANGED <<prog, quest, proc, ops, live, value, active, marks>>
  PROVE  IInv'
<1>1. j.mark[1] \in Quest /\ quest[j.mark[1]] # "none"
  BY OfMark
<1>2. TypeOK'
  BY InvParts DEF TypeOK
<1>3. AskedJob(k)' /\ WorkJob(k)' /\ (k.on = "mark" /\ Sequential(k.mark[1]) => OneWay(k))
  BY <1>1 DEF AskedJob, WorkJob
<1>4. \A q \in Quest : Holds(k, marks', q) => q = j.mark[1]
  BY DEF Holds
<1> HIDE DEF Holds, Sequential, AskedJob, WorkJob, OneWay, IInv, TypeOK
<1>5. \A q \in Quest : Sequential(q) /\ Holds(k, marks', q) => Holds(j, marks, q)
  BY <1>4
<1> QED BY <1>2, <1>3, <1>5, JobStep

\* The job of a mark that has control follows the arcs in S.
LEMMA WalkStep ==
  ASSUME IInv, NEW j \in jobs, j.on = "mark", Holds(j, marks, j.mark[1]), NEW S \in SUBSET Edge,
         Sequential(j.mark[1]) => \A d, e \in S : d = e,
         jobs' = WalkOn(j, S), UNCHANGED <<prog, quest, proc, ops, live, value, active, marks>>
  PROVE  IInv'
<1>1. PICK k : k = [j EXCEPT !.pc = "walk", !.todo = S, !.next = {}]
  OBVIOUS
<1>2. k \in Jobs /\ k.on = "mark" /\ k.mark = j.mark /\ k.pc = "walk" /\ k.todo = S
  <2>1. j \in MarkJob
    BY OfMark
  <2>2. k \in MarkJob /\ k.on = "mark" /\ k.mark = j.mark /\ k.pc = "walk" /\ k.todo = S
    BY <1>1, <2>1 DEF MarkJob
  <2> QED BY <2>2, JobsAre
<1>3. Sequential(j.mark[1]) => OneWay(k)
  BY <1>2 DEF OneWay
<1>4. jobs' \subseteq (jobs \ {j}) \cup {k}
  BY <1>1 DEF WalkOn
<1> HIDE DEF Holds, Sequential, OneWay, IInv
<1> QED BY <1>2, <1>3, <1>4, MarkStep

LEMMA MarkGoneInv == ASSUME IInv, NEW j \in jobs, MarkGone(j) PROVE IInv'
<1>1. jobs' = jobs \ {j} /\ UNCHANGED <<prog, quest, proc, ops, live, value, active, marks>>
  BY DEF MarkGone
<1>2. TypeOK'
  BY <1>1, InvParts DEF TypeOK
<1> HIDE DEF IInv, TypeOK
<1> QED BY <1>1, <1>2, QuietStep

LEMMA SyncronizeInv == ASSUME IInv, NEW j \in jobs, Syncronize(j) PROVE IInv'
<1>1. /\ j.on = "mark" /\ j.mark \in marks /\ jobs' = WalkOn(j, Behind(j.mark[1], j.mark[2], j.mark[3]))
      /\ UNCHANGED <<prog, quest, proc, ops, live, value, active, marks>>
  BY DEF Syncronize
<1>2. Holds(j, marks, j.mark[1])
  BY <1>1 DEF Holds
<1>3. PICK q \in Quest, o \in Op, kind \in MarkKind : q = j.mark[1] /\ o = j.mark[2] /\ kind = j.mark[3]
  BY <1>1, OfMark
<1>4. PICK S : S = Behind(q, o, kind)
  OBVIOUS
<1>5. S \in SUBSET Edge
  BY <1>4, InvParts, Programs DEF Behind
<1>6. Sequential(q) => \A d, e \in S : d = e
  BY <1>4, InvParts, SequentialFacts
<1> HIDE DEF Holds, Sequential, Behind, WalkOn, IInv
<1> QED BY <1>1, <1>2, <1>3, <1>4, <1>5, <1>6, WalkStep

LEMMA WalkInv == ASSUME IInv, NEW j \in jobs, Walk(j) PROVE IInv'
<1>1. j.on = "mark" /\ j.pc = "walk" /\ UNCHANGED <<prog, quest, proc, ops, live, value, active, marks>>
  BY DEF Walk
<1>2. /\ j \in Jobs /\ j \in MarkJob /\ j.todo \subseteq Edge
      /\ Sequential(j.mark[1]) => OneWay(j)
  BY <1>1, OfMark
<1>3. Holds(j, marks, j.mark[1])
  BY <1>1 DEF Holds
<1>4. PICK e \in j.todo : \/ jobs' = Replace(j, [j EXCEPT !.pc = "start", !.todo = @ \ {e}, !.next = {e[3]}])
                          \/ jobs' = WalkOn(j, j.todo \ {e})
  BY DEF Walk
<1>5. CASE jobs' = Replace(j, [j EXCEPT !.pc = "start", !.todo = @ \ {e}, !.next = {e[3]}])
  <2>1. PICK k : k = [j EXCEPT !.pc = "start", !.todo = @ \ {e}, !.next = {e[3]}]
    OBVIOUS
  <2>2. k \in MarkJob /\ k.on = "mark" /\ k.mark = j.mark /\ k.pc = "start" /\ k.todo = j.todo \ {e}
    <3>1. e[3] \in Op
      BY <1>2 DEF Edge
    <3> QED BY <1>2, <2>1, <3>1 DEF MarkJob
  <2>3. k \in Jobs
    BY <2>2, JobsAre
  <2>4. Sequential(j.mark[1]) => OneWay(k)
    BY <1>1, <1>2, <2>2 DEF OneWay
  <2>5. jobs' \subseteq (jobs \ {j}) \cup {k}
    BY <1>5, <2>1 DEF Replace
  <2> HIDE DEF Holds, Sequential, OneWay, IInv
  <2> QED BY <1>1, <1>3, <2>2, <2>3, <2>4, <2>5, MarkStep
<1>6. CASE jobs' = WalkOn(j, j.todo \ {e})
  <2>1. PICK S \in SUBSET Edge : S = j.todo \ {e}
    BY <1>2
  <2>2. Sequential(j.mark[1]) => \A c, d \in S : c = d
    BY <1>1, <1>2, <2>1 DEF OneWay
  <2> HIDE DEF Holds, Sequential, OneWay, WalkOn, IInv
  <2> QED BY <1>1, <1>3, <1>6, <2>1, <2>2, WalkStep
<1> QED BY <1>4, <1>5, <1>6

LEMMA StartNextInv == ASSUME IInv, NEW j \in jobs, StartNext(j) PROVE IInv'
<1>1. j.on = "mark" /\ j.pc = "start" /\ UNCHANGED <<prog, quest, proc, ops, live, value>>
  BY DEF StartNext
<1>2. /\ j \in MarkJob /\ j.next \subseteq Op
      /\ j.mark[1] \in Quest /\ quest[j.mark[1]] # "none"
      /\ Sequential(j.mark[1]) => OneWay(j)
  BY <1>1, OfMark
<1>3. PICK p \in Quest : p = j.mark[1]
  BY <1>2
<1>4. PICK o \in j.next : /\ IF MarksOf(p, o) = {} THEN UNCHANGED marks
                             ELSE \E k \in MarksOf(p, o) : marks' = marks \ {k}
                          /\ Activate(p, o, WalkOn(j, j.todo))
  BY <1>3 DEF StartNext, EraseExecutedMark
<1>5. marks' \subseteq marks
  BY <1>4
<1>6. PICK rest : rest = WalkOn(j, j.todo)
  OBVIOUS
<1>7. PICK k : k = [j EXCEPT !.pc = "walk", !.todo = j.todo, !.next = {}]
  OBVIOUS
<1>8. k \in Jobs /\ k.on = "mark" /\ k.mark = j.mark /\ k.pc = "walk" /\ k.todo = j.todo
  <2>1. k \in MarkJob /\ k.on = "mark" /\ k.mark = j.mark /\ k.pc = "walk" /\ k.todo = j.todo
    BY <1>2, <1>7 DEF MarkJob
  <2> QED BY <2>1, JobsAre
<1> DEFINE N == IF j.todo = {} THEN {} ELSE {k}
<1>9. rest \subseteq (jobs \ {j}) \cup N
  BY <1>6, <1>7 DEF WalkOn
<1>10. Sequential(p) => j.todo = {}
  BY <1>1, <1>2, <1>3 DEF OneWay
<1>11. AskedJob(k)' /\ WorkJob(k)' /\ \A q \in Quest : Holds(k, marks', q) => q = p
  BY <1>1, <1>2, <1>3, <1>8 DEF AskedJob, WorkJob, Holds
<1>12. Holds(j, marks, p)
  BY <1>1, <1>3 DEF Holds
<1> HIDE DEF Holds, Sequential, AskedJob, WorkJob, OneWay
<1>13. \A n \in N : n \in Jobs /\ AskedJob(n)' /\ WorkJob(n)' /\ (n.on = "mark" /\ Sequential(n.mark[1]) => OneWay(n))
  BY <1>3, <1>8, <1>10, <1>11
<1>14. \A n \in N, q \in Quest : Sequential(q) => ~Holds(n, marks', q)
  BY <1>10, <1>11
<1>15. o \in Op /\ Activate(p, o, rest) /\ quest[p] # "none"
  BY <1>2, <1>3, <1>4, <1>6
<1> HIDE DEF N, IInv, Activate, WalkOn
<1> QED BY <1>1, <1>5, <1>9, <1>12, <1>13, <1>14, <1>15, ActivateStep

-----------------------------------------------------------------------------
\* The end of a process.

\* The job that erases a process goes on as k.
LEMMA UselessStep ==
  ASSUME IInv, NEW k \in UselessJob, jobs' \subseteq jobs \cup {k},
         UNCHANGED <<prog, quest, proc, ops, live, value, active, marks>>
  PROVE  IInv'
<1>1. k.on = "useless"
  BY DEF UselessJob
<1>2. TypeOK'
  BY InvParts, JobsAre DEF TypeOK
<1>3. AskedJob(k)' /\ WorkJob(k)' /\ \A p \in Quest : ~Holds(k, marks', p)
  BY <1>1 DEF AskedJob, WorkJob, Holds
<1> DEFINE N == {k}
<1> HIDE DEF Holds, Sequential, AskedJob, WorkJob, IInv, TypeOK
<1>4. \A n \in N : AskedJob(n)' /\ WorkJob(n)' /\ n.on # "mark" /\ \A p \in Quest : Sequential(p) => ~Holds(n, marks', p)
  BY <1>1, <1>3
<1>5. /\ jobs' \subseteq jobs \cup N /\ active' \subseteq active /\ marks' \subseteq marks
      /\ \A p \in Quest : quest[p] # "none" => quest'[p] # "none"
  OBVIOUS
<1> HIDE DEF N
<1> QED BY <1>2, <1>4, <1>5, AddStep

LEMMA OfUseless ==
  ASSUME IInv, NEW j \in jobs, j.on = "useless" PROVE j \in UselessJob /\ j.quest \in Quest
<1>1. j \in Jobs
  BY InvParts DEF TypeOK
<1>2. j \in UselessJob
  BY <1>1, JobKinds
<1> QED BY <1>2 DEF UselessJob

LEMMA FindParametersInv == ASSUME IInv, NEW j \in jobs, FindParameters(j) PROVE IInv'
<1>1. j.on = "useless" /\ UNCHANGED <<prog, quest, proc, ops, live, value, active, marks>>
  BY DEF FindParameters
<1>2. PICK found \in BOOLEAN : found = (quest[j.quest] # "erased")
  OBVIOUS
<1>3. PICK k : k = [j EXCEPT !.pc = "load", !.found = found]
  OBVIOUS
<1>4. k \in UselessJob
  BY <1>1, <1>3, OfUseless DEF UselessJob
<1>5. jobs' \subseteq jobs \cup {k}
  BY <1>2, <1>3 DEF FindParameters, Replace
<1> HIDE DEF IInv
<1> QED BY <1>1, <1>4, <1>5, UselessStep

LEMMA LoadParametersInv == ASSUME IInv, NEW j \in jobs, LoadParameters(j) PROVE IInv'
<1>1. j.on = "useless" /\ UNCHANGED <<prog, quest, proc, ops, live, value, active, marks>>
  BY DEF LoadParameters
<1>2. j \in UselessJob /\ prog[j.quest].params \subseteq Var
  BY <1>1, OfUseless, InvParts, Programs
<1>3. PICK keep : keep = IF j.found /\ quest[j.quest] # "erased" THEN prog[j.quest].params ELSE {}
  OBVIOUS
<1>4. keep \in SUBSET Var
  BY <1>2, <1>3
<1>5. PICK k : k = [j EXCEPT !.pc = "erase", !.keep = keep]
  OBVIOUS
<1>6. k \in UselessJob
  BY <1>2, <1>4, <1>5 DEF UselessJob
<1>7. jobs' \subseteq jobs \cup {k}
  BY <1>3, <1>5 DEF LoadParameters, Replace
<1> HIDE DEF IInv
<1> QED BY <1>1, <1>6, <1>7, UselessStep

LEMMA EraseOperatorInv == ASSUME IInv, NEW j \in jobs, NEW o \in Op, EraseOperator(j, o) PROVE IInv'
<1>1. TypeOK'
  <2>1. j.quest \in Quest
    BY OfUseless DEF EraseOperator
  <2>2. value' \in [Var -> Nat]
    BY InvParts DEF EraseOperator, TypeOK
  <2>3. ops' \in [Quest -> SUBSET Op]
    BY <2>1, InvParts DEF EraseOperator, TypeOK
  <2>4. live' \subseteq live /\ active' \subseteq active /\ marks' \subseteq marks /\ UNCHANGED <<prog, quest, proc, jobs>>
    BY DEF EraseOperator
  <2> QED BY <2>2, <2>3, <2>4, InvParts DEF TypeOK
<1>2. active' \subseteq active /\ marks' \subseteq marks /\ UNCHANGED <<prog, quest, jobs>>
  BY DEF EraseOperator
<1> HIDE DEF IInv, TypeOK
<1> QED BY <1>1, <1>2, QuietStep

LEMMA EraseProcessInv == ASSUME IInv, NEW j \in jobs, EraseProcess(j) PROVE IInv'
<1>1. TypeOK'
  <2>1. j.quest \in Quest
    BY OfUseless DEF EraseProcess
  <2> QED BY <2>1, InvParts DEF EraseProcess, TypeOK
<1>2. jobs' \subseteq jobs /\ UNCHANGED <<prog, quest, active, marks>>
  BY DEF EraseProcess
<1> HIDE DEF IInv, TypeOK
<1> QED BY <1>1, <1>2, QuietStep

-----------------------------------------------------------------------------
LEMMA InitInv == Init => IInv
<1> SUFFICES ASSUME Init PROVE IInv
  OBVIOUS
<1>1. TypeOK
  BY DEF Init, TypeOK
<1>2. AskedInv /\ WorkInv
  BY DEF Init, AskedInv, WorkInv
<1>3. ControlInv
  BY DEF Init, ControlInv, One
<1> QED BY <1>1, <1>2, <1>3 DEF IInv

LEMMA StutterInv == IInv /\ UNCHANGED vars => IInv'
<1> SUFFICES ASSUME IInv, UNCHANGED vars PROVE IInv'
  OBVIOUS
<1>1. UNCHANGED <<prog, quest, proc, ops, live, value, active, marks, jobs>>
  BY DEF vars
<1>2. TypeOK'
  BY <1>1, InvParts DEF TypeOK
<1> HIDE DEF IInv, TypeOK
<1> QED BY <1>1, <1>2, QuietStep

LEMMA NextInv == IInv /\ Next => IInv'
<1> SUFFICES ASSUME IInv, Next PROVE IInv'
  OBVIOUS
<1>1. CASE \E q \in Quest : RunProgram(q)
  BY <1>1, RunProgramInv
<1>2. ASSUME NEW j \in jobs, Step(j) \/ EventOccurs(j) PROVE IInv'
  <2> HIDE DEF IInv
  <2>1. ASSUME CreateProcess(j) \/ StartInitial(j) PROVE IInv'
    BY <2>1, CreateProcessInv, StartInitialInv
  <2>2. ASSUME ArcGone(j) \/ ReadOperands(j) \/ (\E r \in Results : Work(j, r)) \/ IfVarAssign(j) PROVE IInv'
    BY <2>2, ArcGoneInv, ReadOperandsInv, WorkStepInv, IfVarAssignInv
  <2>3. ASSUME Return(j) \/ GiveUp(j) \/ Call(j) \/ Called(j) PROVE IInv'
    BY <2>3, ReturnInv, GiveUpInv, CallInv, CalledInv
  <2>4. ASSUME WaitReturn(j) \/ WaitCollects(j) \/ WaitReturnSet(j) \/ QuestionFinished(j) \/ FinishedCollects(j) PROVE IInv'
    BY <2>4, WaitReturnInv, WaitCollectsInv, WaitReturnSetInv, QuestionFinishedInv, FinishedCollectsInv
  <2>5. ASSUME SysWait(j) \/ SysWaitProcessor(j) \/ EventOccurs(j) PROVE IInv'
    BY <2>5, SysWaitInv, SysWaitProcessorInv, EventOccursInv
  <2>6. ASSUME MarkGone(j) \/ Syncronize(j) \/ Walk(j) \/ StartNext(j) PROVE IInv'
    BY <2>6, MarkGoneInv, SyncronizeInv, WalkInv, StartNextInv
  <2>7. ASSUME FindParameters(j) \/ LoadParameters(j) \/ (\E o \in Op : EraseOperator(j, o)) \/ EraseProcess(j) PROVE IInv'
    BY <2>7, FindParametersInv, LoadParametersInv, EraseOperatorInv, EraseProcessInv
  <2> QED BY <1>2, <2>1, <2>2, <2>3, <2>4, <2>5, <2>6, <2>7 DEF Step
<1> QED BY <1>1, <1>2 DEF Next

\* The inductive invariant: arcs and jobs are of questions that were asked, a
\* job does what the type of its operator calls for, and the control of a
\* sequential program is with one arc, one job or one mark, or nowhere.
THEOREM ScpInvariance == Spec => []IInv
<1>1. IInv /\ [Next]_vars => IInv'
  BY NextInv, StutterInv
<1> QED BY InitInv, <1>1, PTL DEF Spec

\* Control in one place at most, counted.
LEMMA CountOne ==
  ASSUME NEW S, \A d, e \in S : d = e
  PROVE  Cardinality(S) \in {0, 1} /\ (Cardinality(S) = 1 => S # {})
<1>1. CASE S = {}
  BY <1>1, FS_EmptySet
<1>2. CASE S # {}
  <2>1. PICK x : S = {x}
    BY <1>2
  <2> QED BY <2>1, FS_Singleton
<1> QED BY <1>1, <1>2

LEMMA InvImpliesOneControl == IInv => OneControl
<1> SUFFICES ASSUME IInv, NEW q \in Quest, Sequential(q) PROVE Control(q) <= 1
  BY DEF OneControl, IInv
<1> DEFINE A == {a \in active : a[1] = q}
           B == {j \in jobs : j.on = "active" /\ j.arc[1] = q /\ j.pc # "new"}
           C == {j \in jobs : j.on = "mark" /\ j.mark \in marks /\ j.mark[1] = q}
<1>1. One(active, marks, jobs, q)
  BY DEF IInv, ControlInv
<1>2. \A j \in B \cup C : j \in jobs /\ Holds(j, marks, q)
  BY DEF Holds
<1>3. \A j \in B : j \notin C
  OBVIOUS
<1>4. /\ \A d, e \in A : d = e
      /\ \A d, e \in B \cup C : d = e
      /\ A = {} \/ B \cup C = {}
  <2> HIDE DEF Holds, B, C
  <2> QED BY <1>1, <1>2 DEF One
<1> HIDE DEF A, B, C
<1>5. (A = {} \/ B = {}) /\ (A = {} \/ C = {}) /\ (B = {} \/ C = {})
  BY <1>3, <1>4
<1>6. /\ Cardinality(A) \in {0, 1} /\ (Cardinality(A) = 1 => A # {})
      /\ Cardinality(B) \in {0, 1} /\ (Cardinality(B) = 1 => B # {})
      /\ Cardinality(C) \in {0, 1} /\ (Cardinality(C) = 1 => C # {})
  BY <1>4, CountOne
<1>7. Control(q) = Cardinality(A) + Cardinality(B) + Cardinality(C)
  BY DEF Control, A, B, C
<1> QED BY <1>5, <1>6, <1>7

\* A sequential program is executed sequentially: never are two of its
\* operators at work or one twice, however the callbacks of arcs and marks are
\* delayed, for any programs, any number of questions and any bound on arcs.
THEOREM OneControlHolds == Spec => []OneControl
BY ScpInvariance, InvImpliesOneControl, PTL

-----------------------------------------------------------------------------
\* Operators that are executed once.

At(x, q, o) == x[1] = q /\ x[2] = o

\* The job of a process that is not created yet.
Fresh(j) == j.on = "initiated" /\ j.pc = "new"

\* Job j is about to start operator o of process q, of program P.
Starting(P, j, q, o) ==
  \/ j.on = "initiated" /\ j.quest = q /\ o \in (IF j.pc = "new" THEN P.init ELSE j.todo)
  \/ j.on = "mark" /\ j.mark[1] = q /\
       \/ o \in j.next
       \/ j.pc = "new" /\ \E e \in P.order : e[1] = j.mark[2] /\ e[2] \in Follows(j.mark[3]) /\ e[3] = o
       \/ j.pc # "new" /\ \E e \in j.todo : e[3] = o

\* Job j is of an arc to operator o, or of a wait of it.
OfOp(j, q, o) ==
  \/ j.on \in {"active", "waits", "event"} /\ At(j.arc, q, o)
  \/ j.on = "finished" /\ \E a \in j.waiter : At(a, q, o)

\* Job j is the operator at work.
Working(j, q, o) == j.on = "active" /\ j.pc # "new" /\ At(j.arc, q, o)

Started(A, M, J, q, o) ==
  (\E a \in A : At(a, q, o)) \/ (\E j \in J : OfOp(j, q, o)) \/ \E k \in M : At(k, q, o)

\* Operator o is to be started, or active, or at work, or marked, and not
\* twice; one that waits is not started again.
OnceAt(P, A, M, J, q, o) ==
  /\ \A i, j \in J : Starting(P, i, q, o) /\ Starting(P, j, q, o) => i = j
  /\ \A j \in J : Starting(P, j, q, o) => ~Started(A, M, J, q, o)
  /\ P.type[o] \notin WaitTypes =>
       /\ \A a, b \in A : At(a, q, o) /\ At(b, q, o) => a = b
       /\ \A i, j \in J : Working(i, q, o) /\ Working(j, q, o) => i = j
       /\ \A a \in A, j \in J : ~(At(a, q, o) /\ Working(j, q, o))
       /\ \A k \in M, a \in A : ~(At(k, q, o) /\ At(a, q, o))
       /\ \A k \in M, j \in J : ~(At(k, q, o) /\ Working(j, q, o))

\* What is behind arc e is to be started only when the operator before it is done.
Touched(P, A, M, J, q, o) == Started(A, M, J, q, o) \/ \E j \in J : Starting(P, j, q, o)

Done(M, O, q, o) == (\E k \in M : At(k, q, o)) \/ o \notin O[q]

OnceInv ==
  \A q \in Quest : \A o \in Once(prog[q]) :
    /\ OnceAt(prog[q], active, marks, jobs, q, o)
    /\ \A e \in prog[q].order : e[3] = o /\ Touched(prog[q], active, marks, jobs, q, o) => Done(marks, ops, q, e[1])

\* Job j is of process q.
OfProcess(j, q) ==
  \/ j.on = "initiated" /\ j.quest = q
  \/ j.on \in {"active", "waits", "event"} /\ j.arc[1] = q
  \/ j.on = "mark" /\ j.mark[1] = q
  \/ j.on = "finished" /\ \E a \in j.waiter : a[1] = q

\* There is nothing of a process before it is created.
FreshInv ==
  /\ \A k \in marks : quest[k[1]] # "none"
  /\ \A j \in jobs : Fresh(j) =>
       /\ \A a \in active : a[1] # j.quest
       /\ \A k \in marks : k[1] # j.quest
       /\ \A i \in jobs : OfProcess(i, j.quest) => i = j

\* The job of a mark goes along arcs of the program that fit the mark.
FollowsJob(j) ==
  j.on = "mark" /\ j.pc # "new" =>
    /\ \A e \in j.todo :
         /\ e \in prog[j.mark[1]].order /\ e[1] = j.mark[2] /\ e[2] \in Follows(j.mark[3])
         /\ e[3] \in Once(prog[j.mark[1]]) => e[3] \notin j.next
    /\ j.mark[2] \in Once(prog[j.mark[1]]) => j.mark \in marks \/ j.mark[2] \notin ops[j.mark[1]]

FollowsInv == \A j \in jobs : FollowsJob(j)

\* What JoinWaits says of operator o.
Backed(q, o) ==
  \A d \in prog[q].order : o \in prog[q].afterAll /\ d[3] = o /\ d[1] \in ops[q] =>
    \E k \in MarksOf(q, d[1]) : Satisfies(k[3], d[2])

JoinInv ==
  \A q \in Quest : Orderly(prog[q]) =>
    /\ \A a \in active : a[1] = q => Backed(q, a[2])
    /\ \A j \in jobs : j.on = "mark" /\ j.pc = "start" /\ j.mark[1] = q => \A o \in j.next : Backed(q, o)

\* The invariant of starts.
StartInv == FreshInv /\ FollowsInv /\ OnceInv /\ JoinInv

-----------------------------------------------------------------------------
\* Operators that are executed once are closed under going back.
LEMMA OnceFacts ==
  ASSUME NEW P
  PROVE  Once(P) \subseteq Op /\ StartedOnce(P, Once(P))
<1>1. Once(P) \subseteq Op
  BY DEF Once
<1>2. ASSUME NEW d \in P.order, d[3] \in Once(P)
      PROVE  /\ d[3] \notin P.init
             /\ d[1] \in Once(P) /\ P.type[d[1]] \notin WaitTypes
             /\ \A e \in P.order : e[3] = d[3] => e = d
  <2>1. PICK S \in SUBSET Op : StartedOnce(P, S) /\ d[3] \in S
    BY <1>2 DEF Once
  <2>2. /\ d[3] \notin P.init
        /\ d[1] \in S /\ P.type[d[1]] \notin WaitTypes
        /\ \A e \in P.order : e[3] = d[3] => e = d
    BY <1>2, <2>1 DEF StartedOnce
  <2> QED BY <2>1, <2>2 DEF Once
<1> QED BY <1>1, <1>2 DEF StartedOnce

\* Nothing but an operator that is erased loses its marks.
Kept ==
  /\ \A q \in Quest : ops'[q] \subseteq ops[q]
  /\ \A k \in marks : k[2] \in Once(prog[k[1]]) => k \in marks' \/ k[2] \notin ops'[k[1]]

LEMMA DoneKept ==
  ASSUME Kept, NEW q \in Quest, NEW o \in Once(prog[q]), Done(marks, ops, q, o)
  PROVE  Done(marks', ops', q, o)
BY DEF Kept, Done, At

LEMMA BackedKept ==
  ASSUME Kept, prog' = prog, NEW q \in Quest, Orderly(prog[q]), NEW o, Backed(q, o)
  PROVE  Backed(q, o)'
<1> SUFFICES ASSUME NEW d \in prog[q].order, o \in prog[q].afterAll, d[3] = o, d[1] \in ops'[q]
             PROVE  \E k \in MarksOf(q, d[1])' : Satisfies(k[3], d[2])
  BY DEF Backed, Satisfies
<1>1. PICK k \in MarksOf(q, d[1]) : Satisfies(k[3], d[2])
  BY DEF Backed, Kept
<1>2. d[1] \in Once(prog[q])
  BY DEF Orderly
<1>3. k \in marks'
  BY <1>1, <1>2 DEF Kept, MarksOf
<1> QED BY <1>1, <1>3 DEF MarksOf

LEMMA FollowsKept ==
  ASSUME Kept, prog' = prog, NEW j \in Jobs, FollowsJob(j)
  PROVE  FollowsJob(j)'
<1>1. SUFFICES ASSUME j.on = "mark", j.pc # "new" PROVE FollowsJob(j)'
  BY DEF FollowsJob
<1>2. j.mark[1] \in Quest
  <2>1. j \in MarkJob
    BY <1>1, JobKinds
  <2> QED BY <2>1, MarkParts DEF MarkJob
<1>3. j.mark[2] \in Once(prog[j.mark[1]]) => j.mark \in marks' \/ j.mark[2] \notin ops'[j.mark[1]]
  BY <1>1, <1>2 DEF FollowsJob, Kept
<1> QED BY <1>1, <1>3 DEF FollowsJob

\* How an operator that is executed once goes on.  It stays as it was.
LEMMA OnceStill ==
  ASSUME NEW P, NEW A, NEW M, NEW J, NEW B, NEW N, NEW K, NEW q, NEW o, OnceAt(P, A, M, J, q, o),
         \A j \in K : Starting(P, j, q, o) => j \in J,
         Started(B, N, K, q, o) => Started(A, M, J, q, o),
         P.type[o] \notin WaitTypes => /\ \A a \in B : At(a, q, o) => a \in A
                                       /\ \A j \in K : Working(j, q, o) => j \in J
                                       /\ \A k \in N : At(k, q, o) => k \in M
  PROVE  OnceAt(P, B, N, K, q, o)
<1> HIDE DEF Starting, Started, Working, At, WaitTypes
<1> QED BY DEF OnceAt

\* It is started, at work or marked, and was elsewhere before.
LEMMA OnceMoves ==
  ASSUME NEW P, NEW B, NEW N, NEW K, NEW q, NEW o, NEW x,
         \/ /\ ~Started(B, N, K, q, o)
            /\ \A j \in K : Starting(P, j, q, o) => j = x
         \/ /\ \A j \in K : ~Starting(P, j, q, o)
            /\ P.type[o] \notin WaitTypes =>
                 \/ /\ \A a \in B : At(a, q, o) => a = x
                    /\ \A j \in K : ~Working(j, q, o)
                    /\ \A k \in N : ~At(k, q, o)
                 \/ /\ \A a \in B : ~At(a, q, o)
                    /\ \A j \in K : Working(j, q, o) => j = x
                    /\ \A k \in N : ~At(k, q, o)
                 \/ /\ \A a \in B : ~At(a, q, o)
                    /\ \A j \in K : ~Working(j, q, o)
  PROVE  OnceAt(P, B, N, K, q, o)
<1>1. CASE /\ ~Started(B, N, K, q, o)
           /\ \A j \in K : Starting(P, j, q, o) => j = x
  <2>1. /\ \A a \in B : ~At(a, q, o)
        /\ \A j \in K : ~Working(j, q, o)
        /\ \A k \in N : ~At(k, q, o)
    BY <1>1 DEF Started, OfOp, Working
  <2> HIDE DEF Starting, Started, Working, At, WaitTypes
  <2> QED BY <1>1, <2>1 DEF OnceAt
<1>2. CASE ~(/\ ~Started(B, N, K, q, o)
             /\ \A j \in K : Starting(P, j, q, o) => j = x)
  <2> HIDE DEF Starting, Started, Working, At, WaitTypes
  <2> QED BY <1>2 DEF OnceAt
<1> QED BY <1>1, <1>2

\* No job of process q is one that has still to create it.
Created(q) == \A i \in jobs' : Fresh(i) => i.quest # q

\* What is to be shown of a step that adds jobs N.
LEMMA StartStep ==
  ASSUME TypeOK, StartInv, TypeOK', prog' = prog, Kept, NEW N, N \subseteq Jobs, jobs' \subseteq jobs \cup N,
         AskedInv, \A q \in Quest : quest[q] # "none" => quest'[q] # "none",
         \A a \in active' : a \in active \/ Created(a[1]),
         \A k \in marks' : k \in marks \/ (Created(k[1]) /\ quest[k[1]] # "none"),
         \A n \in N : FollowsJob(n),
         \A n \in N, q \in Quest : OfProcess(n, q) =>
           \/ Created(q)
           \/ Fresh(n) /\ quest[q] = "none" /\ \A m \in N : OfProcess(m, q) => m = n,
         \A q \in Quest : \A o \in Once(prog[q]) :
           /\ OnceAt(prog[q], active', marks', jobs', q, o)
           /\ Touched(prog[q], active', marks', jobs', q, o) =>
                \/ Touched(prog[q], active, marks, jobs, q, o)
                \/ \A e \in prog[q].order : e[3] = o => Done(marks', ops', q, e[1]),
         \A q \in Quest : Orderly(prog[q]) =>
           /\ \A a \in active' : a[1] = q => a \in active \/ Backed(q, a[2])
           /\ \A n \in N : n.on = "mark" /\ n.pc = "start" /\ n.mark[1] = q => \A o \in n.next : Backed(q, o)
  PROVE  StartInv'
<1>0. FreshInv /\ FollowsInv /\ OnceInv /\ JoinInv
  BY DEF StartInv
<1>1. FreshInv'
  <2>1. ASSUME NEW k \in marks' PROVE quest'[k[1]] # "none"
    <3>1. k[1] \in Quest
      BY MarkParts DEF TypeOK
    <3> QED BY <1>0, <3>1 DEF FreshInv
  <2>2. ASSUME NEW j \in jobs', Fresh(j)
        PROVE  /\ \A a \in active' : a[1] # j.quest
               /\ \A k \in marks' : k[1] # j.quest
               /\ \A i \in jobs' : OfProcess(i, j.quest) => i = j
    <3>1. j \in Jobs /\ j.on = "initiated"
      BY <2>2 DEF TypeOK, Fresh
    <3>2. PICK q \in Quest : q = j.quest
      BY <3>1, JobKinds DEF InitiatedJob
    <3>3. OfProcess(j, q) /\ ~Created(q)
      BY <2>2, <3>1, <3>2 DEF OfProcess, Created
    <3>4. CASE j \in jobs
      <4>1. /\ \A a \in active : a[1] # q
            /\ \A k \in marks : k[1] # q
            /\ \A i \in jobs : OfProcess(i, q) => i = j
            /\ quest[q] # "none"
        BY <1>0, <2>2, <3>1, <3>2, <3>4 DEF FreshInv, AskedInv, AskedJob
      <4> HIDE DEF OfProcess, Fresh, Created
      <4>2. \A n \in N : ~OfProcess(n, q)
        BY <3>3, <4>1
      <4> QED BY <3>2, <3>3, <4>1, <4>2
    <3>5. CASE j \in N
      <4>1. quest[q] = "none" /\ \A m \in N : OfProcess(m, q) => m = j
        <5> HIDE DEF OfProcess, Fresh, Created
        <5> QED BY <3>3, <3>5
      <4>2. /\ \A a \in active : a[1] # q
            /\ \A i \in jobs : ~OfProcess(i, q)
        BY <4>1 DEF AskedInv, AskedJob, OfProcess
      <4>3. \A k \in marks : k[1] # q
        BY <1>0, <4>1 DEF FreshInv
      <4> HIDE DEF OfProcess, Fresh, Created
      <4> QED BY <3>2, <3>3, <4>1, <4>2, <4>3
    <3> QED BY <3>4, <3>5
  <2> HIDE DEF Fresh, OfProcess
  <2> QED BY <2>1, <2>2 DEF FreshInv
<1>2. FollowsInv'
  <2>1. ASSUME NEW j \in jobs' PROVE FollowsJob(j)'
    <3>1. j \in Jobs /\ FollowsJob(j)
      BY <1>0 DEF TypeOK, FollowsInv
    <3> HIDE DEF FollowsJob, Kept
    <3> QED BY <3>1, FollowsKept
  <2> QED BY <2>1 DEF FollowsInv
<1>3. OnceInv'
  <2>1. ASSUME NEW q \in Quest, NEW o \in Once(prog[q]), NEW e \in prog[q].order, e[3] = o,
               Touched(prog[q], active', marks', jobs', q, o)
        PROVE  Done(marks', ops', q, e[1])
    <3>1. CASE Touched(prog[q], active, marks, jobs, q, o)
      <4>1. Done(marks, ops, q, e[1])
        <5> HIDE DEF Touched, Done, OnceAt
        <5> QED BY <1>0, <2>1, <3>1 DEF OnceInv
      <4>2. e[1] \in Once(prog[q])
        BY <2>1, OnceFacts DEF StartedOnce
      <4> HIDE DEF Done, Kept
      <4> QED BY <4>1, <4>2, DoneKept
    <3>2. CASE \A d \in prog[q].order : d[3] = o => Done(marks', ops', q, d[1])
      BY <2>1, <3>2
    <3> HIDE DEF Touched, Done, OnceAt
    <3> QED BY <2>1, <3>1, <3>2
  <2> HIDE DEF Touched, Done, OnceAt
  <2> QED BY <2>1 DEF OnceInv
<1>4. JoinInv'
  <2>1. ASSUME NEW q \in Quest, Orderly(prog[q]), NEW a \in active', a[1] = q PROVE Backed(q, a[2])'
    <3>1. PICK o : o = a[2]
      OBVIOUS
    <3>2. Backed(q, o)
      <4> HIDE DEF Backed
      <4> QED BY <1>0, <2>1, <3>1 DEF JoinInv
    <3> HIDE DEF Backed, Kept
    <3>3. Backed(q, o)'
      BY <2>1, <3>2, BackedKept
    <3> QED BY <3>1, <3>3
  <2>2. ASSUME NEW q \in Quest, Orderly(prog[q]), NEW j \in jobs', j.on = "mark", j.pc = "start", j.mark[1] = q, NEW o \in j.next
        PROVE  Backed(q, o)'
    <3>1. Backed(q, o)
      <4> HIDE DEF Backed
      <4> QED BY <1>0, <2>2 DEF JoinInv
    <3> HIDE DEF Backed, Kept
    <3> QED BY <2>2, <3>1, BackedKept
  <2> HIDE DEF Backed, Orderly
  <2> QED BY <2>1, <2>2 DEF JoinInv
<1> QED BY <1>1, <1>2, <1>3, <1>4 DEF StartInv

-----------------------------------------------------------------------------
\* The kinds of steps.

\* Nothing is started: jobs end or go on, operators are erased.
Fades(N) ==
  /\ prog' = prog /\ \A q \in Quest : quest[q] # "none" => quest'[q] # "none"
  /\ active' \subseteq active /\ marks' \subseteq marks /\ jobs' \subseteq jobs \cup N /\ N \subseteq Jobs
  /\ \A q \in Quest : ops'[q] \subseteq ops[q]
  /\ \A k \in marks : k \in marks' \/ k[2] \notin ops'[k[1]]
  /\ \A n \in N : n.on \notin {"initiated", "mark"}
  /\ \A n \in N, q \in Quest, o \in Op : OfOp(n, q, o) => Started(active, marks, jobs, q, o)
  /\ \A n \in N, q \in Quest, o \in Op : Working(n, q, o) => prog[q].type[o] \in WaitTypes

\* What has begun has no job that has still to create its process.
LEMMA StartedCreated ==
  ASSUME FreshInv, NEW q, NEW o, Started(active, marks, jobs, q, o), NEW j \in jobs, Fresh(j)
  PROVE  j.quest # q
<1>1. CASE \E a \in active : At(a, q, o)
  BY <1>1 DEF FreshInv, At
<1>2. CASE \E k \in marks : At(k, q, o)
  BY <1>2 DEF FreshInv, At
<1>3. CASE \E i \in jobs : OfOp(i, q, o)
  <2>1. PICK i \in jobs : OfOp(i, q, o)
    BY <1>3
  <2>2. OfProcess(i, q) /\ i.on # "initiated"
    BY <2>1 DEF OfOp, OfProcess, At
  <2> QED BY <2>1, <2>2 DEF FreshInv, Fresh
<1> QED BY <1>1, <1>2, <1>3 DEF Started

\* The operators of a job.
LEMMA JobOps ==
  ASSUME NEW n \in Jobs, n.on \notin {"initiated", "mark"}, NEW q, OfProcess(n, q)
  PROVE  q \in Quest /\ \E o \in Op : OfOp(n, q, o)
<1>1. CASE n.on \in {"active", "waits", "event"}
  <2>1. n.arc \in ActiveArc
    BY <1>1, JobKinds DEF ActiveJob, WaitsJob, EventJob
  <2>2. n.arc[2] \in Op /\ n.arc[1] = q /\ q \in Quest
    BY <1>1, <2>1, ArcParts DEF OfProcess
  <2> QED BY <1>1, <2>2 DEF OfOp, At
<1>2. CASE n.on = "finished"
  <2>1. n.waiter \subseteq ActiveArc
    BY <1>2, JobKinds DEF FinishedJob
  <2>2. PICK a \in n.waiter : a[1] = q
    BY <1>2 DEF OfProcess
  <2>3. a[2] \in Op /\ q \in Quest
    BY <2>1, <2>2, ArcParts
  <2> QED BY <1>2, <2>2, <2>3 DEF OfOp, At
<1> QED BY <1>1, <1>2 DEF OfProcess

LEMMA FadeStep ==
  ASSUME IInv, StartInv, TypeOK', NEW N, Fades(N)
  PROVE  StartInv'
<1>1. TypeOK /\ AskedInv /\ FreshInv /\ OnceInv
  BY InvParts DEF StartInv
<1>2. Kept
  BY DEF Fades, Kept
<1>3. \A n \in N : FollowsJob(n)
  BY DEF Fades, FollowsJob
<1>4. ASSUME NEW n \in N, NEW q \in Quest, OfProcess(n, q) PROVE Created(q)
  <2>1. n \in Jobs /\ n.on \notin {"initiated", "mark"}
    BY DEF Fades
  <2>2. PICK o \in Op : OfOp(n, q, o)
    BY <1>4, <2>1, JobOps
  <2>3. Started(active, marks, jobs, q, o)
    BY <2>2 DEF Fades
  <2>4. \A j \in jobs : Fresh(j) => j.quest # q
    BY <1>1, <2>3, StartedCreated
  <2>5. \A j \in jobs' : Fresh(j) => j \in jobs
    BY DEF Fades, Fresh
  <2> QED BY <2>4, <2>5 DEF Created
<1>5. ASSUME NEW q \in Quest, NEW o \in Once(prog[q])
      PROVE  /\ OnceAt(prog[q], active', marks', jobs', q, o)
             /\ Touched(prog[q], active', marks', jobs', q, o) => Touched(prog[q], active, marks, jobs, q, o)
  <2>1. OnceAt(prog[q], active, marks, jobs, q, o) /\ o \in Op
    BY <1>1, OnceFacts DEF OnceInv
  <2>2. \A j \in jobs' : Starting(prog[q], j, q, o) => j \in jobs
    BY DEF Fades, Starting
  <2>3. Started(active', marks', jobs', q, o) => Started(active, marks, jobs, q, o)
    <3> HIDE DEF OfOp, At
    <3> QED BY <2>1 DEF Fades, Started
  <2>4. prog[q].type[o] \notin WaitTypes => /\ \A a \in active' : At(a, q, o) => a \in active
                                            /\ \A j \in jobs' : Working(j, q, o) => j \in jobs
                                            /\ \A k \in marks' : At(k, q, o) => k \in marks
    <3> HIDE DEF OfOp, At, Working
    <3> QED BY <2>1 DEF Fades
  <2> HIDE DEF OnceAt, Started, Starting, Working, At, WaitTypes
  <2>5. OnceAt(prog[q], active', marks', jobs', q, o)
    BY <2>1, <2>2, <2>3, <2>4, OnceStill
  <2> QED BY <2>2, <2>3, <2>5 DEF Touched
<1>6. /\ prog' = prog /\ N \subseteq Jobs /\ jobs' \subseteq jobs \cup N
      /\ \A q \in Quest : quest[q] # "none" => quest'[q] # "none"
      /\ \A a \in active' : a \in active
      /\ \A k \in marks' : k \in marks
      /\ \A n \in N : n.on # "mark"
  BY DEF Fades
<1>7. \A q \in Quest : Orderly(prog[q]) =>
           /\ \A a \in active' : a[1] = q => a \in active \/ Backed(q, a[2])
           /\ \A n \in N : n.on = "mark" /\ n.pc = "start" /\ n.mark[1] = q => \A o \in n.next : Backed(q, o)
  BY <1>6
<1> HIDE DEF Fades, Kept, TypeOK, AskedInv, StartInv, FollowsJob, OfProcess, Created, OnceAt, Touched, Done, Fresh, Orderly, Backed
<1> QED BY <1>1, <1>2, <1>3, <1>4, <1>5, <1>6, <1>7, StartStep

\* An operator is taken up, at its arc; a question is asked.
Takes(N) ==
  /\ prog' = prog /\ \A q \in Quest : quest[q] # "none" => quest'[q] # "none"
  /\ ops' = ops /\ marks' = marks /\ active' \subseteq active /\ jobs' \subseteq jobs \cup N /\ N \subseteq Jobs
  /\ \A n \in N :
       \/ n.on = "useless" \/ (n.on = "finished" /\ n.waiter = {})
       \/ n.on = "active" /\ n.arc \in active /\ n.arc \notin active' /\ \A m \in N : m.on = "active" => m = n
       \/ Fresh(n) /\ quest[n.quest] = "none" /\ \A m \in N : m.on = "initiated" => m = n

LEMMA TakesStep ==
  ASSUME IInv, StartInv, TypeOK', NEW N, Takes(N)
  PROVE  StartInv'
<1>1. TypeOK /\ AskedInv /\ FreshInv /\ OnceInv
  BY InvParts DEF StartInv
<1>2. Kept
  BY DEF Takes, Kept
<1>3. \A n \in N : FollowsJob(n) /\ n.on # "mark"
  BY DEF Takes, FollowsJob, Fresh
<1>4. ASSUME NEW n \in N, NEW q \in Quest, OfProcess(n, q)
      PROVE  Created(q) \/ (Fresh(n) /\ quest[q] = "none" /\ \A m \in N : OfProcess(m, q) => m = n)
  <2>1. CASE n.on = "active"
    <3>1. n.arc \in active /\ n.arc[1] = q
      BY <1>4, <2>1 DEF Takes, OfProcess, Fresh
    <3>2. \A j \in jobs : Fresh(j) => j.quest # q
      BY <1>1, <3>1 DEF FreshInv
    <3>3. quest[q] # "none"
      BY <1>1, <3>1 DEF AskedInv
    <3>4. \A j \in N : Fresh(j) => j.quest # q
      BY <3>3 DEF Takes, Fresh
    <3> QED BY <3>2, <3>4 DEF Takes, Created
  <2>2. CASE n.on # "active"
    <3>1. Fresh(n) /\ quest[n.quest] = "none" /\ n.quest = q
      BY <1>4, <2>2 DEF Takes, Fresh, OfProcess
    <3>2. ASSUME NEW m \in N, OfProcess(m, q) PROVE m = n
      <4>1. m.on # "active"
        BY <1>1, <3>1, <3>2 DEF Takes, OfProcess, AskedInv, Fresh
      <4>2. m.on = "initiated"
        BY <3>2, <4>1 DEF Takes, OfProcess, Fresh
      <4> QED BY <3>1, <4>2 DEF Takes, Fresh
    <3> QED BY <3>1, <3>2
  <2> QED BY <2>1, <2>2
<1>5. ASSUME NEW q \in Quest, NEW o \in Once(prog[q])
      PROVE  /\ OnceAt(prog[q], active', marks', jobs', q, o)
             /\ Touched(prog[q], active', marks', jobs', q, o) =>
                  \/ Touched(prog[q], active, marks, jobs, q, o)
                  \/ \A e \in prog[q].order : e[3] = o => Done(marks', ops', q, e[1])
  <2>1. OnceAt(prog[q], active, marks, jobs, q, o) /\ o \in Op
    BY <1>1, OnceFacts DEF OnceInv
  <2>2. CASE \E n \in N : Fresh(n) /\ n.quest = q
    <3>1. PICK n \in N : Fresh(n) /\ n.quest = q
      BY <2>2
    <3>2. quest[q] = "none" /\ \A m \in N : m.on = "initiated" => m = n
      BY <3>1 DEF Takes, Fresh
    <3>3. /\ \A a \in active : ~At(a, q, o)
          /\ \A k \in marks : ~At(k, q, o)
          /\ \A j \in jobs : ~OfOp(j, q, o) /\ ~Starting(prog[q], j, q, o)
      <4>1. \A k \in marks : ~At(k, q, o)
        BY <1>1, <3>2 DEF FreshInv, At
      <4>2. (\A a \in active : a[1] # q) /\ \A j \in jobs : AskedJob(j)
        BY <1>1, <3>2 DEF AskedInv
      <4>3. ASSUME NEW j \in jobs, AskedJob(j) PROVE ~OfOp(j, q, o) /\ ~Starting(prog[q], j, q, o)
        BY <3>2, <4>3 DEF AskedJob, OfOp, At, Starting
      <4> QED BY <4>1, <4>2, <4>3 DEF At
    <3>4. \A m \in N : ~OfOp(m, q, o) /\ (Starting(prog[q], m, q, o) => m = n)
      <4>1. ASSUME NEW m \in N, OfOp(m, q, o) PROVE FALSE
        BY <3>3, <4>1 DEF Takes, OfOp, Fresh
      <4>2. ASSUME NEW m \in N, Starting(prog[q], m, q, o) PROVE m.on = "initiated"
        BY <1>3, <4>2 DEF Starting
      <4> QED BY <3>2, <4>1, <4>2
    <3>5. ~Started(active', marks', jobs', q, o)
      <4> HIDE DEF OfOp, At
      <4> QED BY <3>3, <3>4 DEF Takes, Started
    <3>6. \A j \in jobs' : Starting(prog[q], j, q, o) => j = n
      <4> HIDE DEF Starting
      <4> QED BY <3>3, <3>4 DEF Takes
    <3>7. ASSUME NEW e \in prog[q].order, e[3] = o PROVE \A j \in jobs' : ~Starting(prog[q], j, q, o)
      <4>1. o \notin prog[q].init
        BY <3>7, OnceFacts DEF StartedOnce
      <4>2. ~Starting(prog[q], n, q, o)
        BY <3>1, <4>1 DEF Starting, Fresh
      <4> QED BY <3>6, <4>2
    <3> HIDE DEF OnceAt, Started, Starting, Working, At, WaitTypes
    <3>8. OnceAt(prog[q], active', marks', jobs', q, o)
      BY <3>5, <3>6, OnceMoves
    <3> QED BY <3>5, <3>7, <3>8 DEF Touched
  <2>3. CASE ~(\E n \in N : Fresh(n) /\ n.quest = q) /\ ~\E n \in N : n.on = "active" /\ At(n.arc, q, o)
    <3>1. ASSUME NEW m \in N PROVE ~OfOp(m, q, o) /\ ~Starting(prog[q], m, q, o) /\ ~Working(m, q, o)
      BY <2>3 DEF Takes, OfOp, Starting, Working, Fresh
    <3>2. \A j \in jobs' : Starting(prog[q], j, q, o) => j \in jobs
      BY <3>1 DEF Takes
    <3>3. Started(active', marks', jobs', q, o) => Started(active, marks, jobs, q, o)
      <4> HIDE DEF OfOp, At
      <4> QED BY <3>1 DEF Takes, Started
    <3>4. /\ \A a \in active' : At(a, q, o) => a \in active
          /\ \A j \in jobs' : Working(j, q, o) => j \in jobs
          /\ \A k \in marks' : At(k, q, o) => k \in marks
      BY <3>1 DEF Takes
    <3> HIDE DEF OnceAt, Started, Starting, Working, At, WaitTypes
    <3>5. OnceAt(prog[q], active', marks', jobs', q, o)
      BY <2>1, <3>2, <3>3, <3>4, OnceStill
    <3> QED BY <3>2, <3>3, <3>5 DEF Touched
  <2>4. CASE ~(\E n \in N : Fresh(n) /\ n.quest = q) /\ \E n \in N : n.on = "active" /\ At(n.arc, q, o)
    <3>1. PICK n \in N : n.on = "active" /\ At(n.arc, q, o)
      BY <2>4
    <3>2. n.arc \in active /\ n.arc \notin active' /\ \A m \in N : m.on = "active" => m = n
      BY <3>1 DEF Takes, Fresh
    <3>3. Started(active, marks, jobs, q, o)
      BY <3>1, <3>2 DEF Started
    <3>4. \A j \in jobs : ~Starting(prog[q], j, q, o)
      <4> HIDE DEF Starting, Started
      <4> QED BY <2>1, <3>3 DEF OnceAt
    <3>5. \A j \in N : ~Starting(prog[q], j, q, o)
      BY <2>4 DEF Takes, Starting, Fresh
    <3>6. \A j \in jobs' : ~Starting(prog[q], j, q, o)
      BY <3>4, <3>5 DEF Takes
    <3>7. ASSUME prog[q].type[o] \notin WaitTypes
          PROVE  /\ \A a \in active' : ~At(a, q, o)
                 /\ \A j \in jobs' : Working(j, q, o) => j = n
                 /\ \A k \in marks' : ~At(k, q, o)
      <4>1. /\ \A a \in active : At(a, q, o) => a = n.arc
            /\ \A j \in jobs : ~Working(j, q, o)
            /\ \A k \in marks : ~At(k, q, o)
        <5> HIDE DEF Starting, Started, At, Working
        <5> QED BY <2>1, <3>1, <3>2, <3>7 DEF OnceAt
      <4>2. \A j \in N : Working(j, q, o) => j = n
        BY <3>2 DEF Working
      <4> HIDE DEF Working, At
      <4> QED BY <3>2, <4>1, <4>2 DEF Takes
    <3> HIDE DEF OnceAt, Started, Starting, Working, At, WaitTypes
    <3>8. OnceAt(prog[q], active', marks', jobs', q, o)
      BY <3>6, <3>7, OnceMoves
    <3> QED BY <3>3, <3>8 DEF Touched
  <2> QED BY <2>2, <2>3, <2>4
<1>6. /\ prog' = prog /\ N \subseteq Jobs /\ jobs' \subseteq jobs \cup N
      /\ \A q \in Quest : quest[q] # "none" => quest'[q] # "none"
      /\ \A a \in active' : a \in active
      /\ \A k \in marks' : k \in marks
  BY DEF Takes
<1>7. \A q \in Quest : Orderly(prog[q]) =>
           /\ \A a \in active' : a[1] = q => a \in active \/ Backed(q, a[2])
           /\ \A n \in N : n.on = "mark" /\ n.pc = "start" /\ n.mark[1] = q => \A o \in n.next : Backed(q, o)
  BY <1>3, <1>6
<1> HIDE DEF Takes, Kept, TypeOK, AskedInv, StartInv, FollowsJob, OfProcess, Created, OnceAt, Touched, Done, Fresh, Orderly, Backed
<1> QED BY <1>1, <1>2, <1>3, <1>4, <1>5, <1>6, <1>7, StartStep

\* Job j ends with mark k, of an operator that was at work, active or waiting.
Marking(j, k) ==
  /\ prog' = prog /\ \A q \in Quest : quest[q] # "none" => quest'[q] # "none"
  /\ ops' = ops /\ marks' = marks \cup {k} /\ active' \subseteq active /\ jobs' \subseteq (jobs \ {j}) \cup {Marked(k)}
  /\ j \in jobs /\ k \in Mark /\ k[2] \in ops[k[1]] /\ quest[k[1]] # "none"
  /\ Started(active, marks, jobs, k[1], k[2])
  /\ prog[k[1]].type[k[2]] \notin WaitTypes =>
       \/ Working(j, k[1], k[2])
       \/ \E a \in active : a \notin active' /\ At(a, k[1], k[2])

\* The mark is the first one of an operator that is executed once, and it is done.
LEMMA FirstMark ==
  ASSUME OnceInv, NEW j, NEW k, Marking(j, k), NEW q \in Quest, NEW o \in Once(prog[q]), At(k, q, o),
         prog[q].type[o] \notin WaitTypes
  PROVE  /\ \A m \in marks : ~At(m, q, o)
         /\ \A a \in active' : ~At(a, q, o)
         /\ \A i \in jobs \ {j} : ~Working(i, q, o)
<1>1. k[1] = q /\ k[2] = o
  BY DEF At
<1>2. OnceAt(prog[q], active, marks, jobs, q, o)
  BY DEF OnceInv
<1>3. j \in jobs /\ active' \subseteq active
  BY DEF Marking
<1>4. CASE Working(j, q, o)
  <2> HIDE DEF Working, At, Starting, Started
  <2> QED BY <1>2, <1>3, <1>4 DEF OnceAt
<1>5. CASE \E a \in active : a \notin active' /\ At(a, q, o)
  <2> HIDE DEF Working, At, Starting, Started
  <2> QED BY <1>2, <1>3, <1>5 DEF OnceAt
<1> QED BY <1>1, <1>4, <1>5 DEF Marking

LEMMA MarkingStep ==
  ASSUME IInv, StartInv, TypeOK', NEW j, NEW k, Marking(j, k)
  PROVE  StartInv'
<1>1. TypeOK /\ AskedInv /\ FreshInv /\ OnceInv
  BY InvParts DEF StartInv
<1>2. k \in Mark /\ k[1] \in Quest /\ k[2] \in Op
  BY MarkParts DEF Marking
<1>3. /\ Marked(k) \in Jobs /\ Marked(k).on = "mark" /\ Marked(k).mark = k /\ Marked(k).pc = "new"
      /\ Marked(k).todo = {} /\ Marked(k).next = {}
  BY <1>2, NewJobs
<1> DEFINE N == {Marked(k)}
<1> HIDE DEF Marked
<1>4. Kept
  BY DEF Marking, Kept
<1>5. \A n \in N : FollowsJob(n) /\ n.pc # "start" /\ ~Fresh(n)
  BY <1>3 DEF FollowsJob, Fresh
<1>6. Created(k[1])
  <2>1. \A i \in jobs : Fresh(i) => i.quest # k[1]
    BY <1>1, StartedCreated DEF Marking
  <2> QED BY <1>5, <2>1 DEF Created, Marking
<1>7. \A n \in N, q \in Quest : OfProcess(n, q) => Created(q)
  BY <1>3, <1>6 DEF OfProcess
<1>8. ASSUME NEW q \in Quest, NEW o \in Once(prog[q])
      PROVE  /\ OnceAt(prog[q], active', marks', jobs', q, o)
             /\ Touched(prog[q], active', marks', jobs', q, o) =>
                  \/ Touched(prog[q], active, marks, jobs, q, o)
                  \/ \A e \in prog[q].order : e[3] = o => Done(marks', ops', q, e[1])
  <2>1. OnceAt(prog[q], active, marks, jobs, q, o) /\ o \in Op
    BY <1>1, OnceFacts DEF OnceInv
  <2>2. ~OfOp(Marked(k), q, o) /\ ~Working(Marked(k), q, o)
    BY <1>3 DEF OfOp, Working
  \* Behind the mark is what was not touched before.
  <2>3. ASSUME Starting(prog[q], Marked(k), q, o)
        PROVE  /\ ~Touched(prog[q], active, marks, jobs, q, o)
               /\ \A e \in prog[q].order : e[3] = o => Done(marks', ops', q, e[1])
    <3>1. PICK e \in prog[q].order : e[1] = k[2] /\ e[3] = o /\ k[1] = q
      BY <1>3, <2>3 DEF Starting
    <3>2. e[1] \in Once(prog[q]) /\ prog[q].type[e[1]] \notin WaitTypes /\ \A d \in prog[q].order : d[3] = o => d = e
      BY <3>1, OnceFacts DEF StartedOnce
    <3>3. At(k, q, e[1])
      BY <3>1 DEF At
    <3>4. \A m \in marks : ~At(m, q, e[1])
      <4> HIDE DEF At, Working, Marking, OnceInv
      <4> QED BY <1>1, <3>2, <3>3, FirstMark
    <3>5. ~Done(marks, ops, q, e[1])
      BY <3>1, <3>4 DEF Done, Marking
    <3>6. ~Touched(prog[q], active, marks, jobs, q, o)
      <4> HIDE DEF Touched, Done, OnceAt
      <4> QED BY <1>1, <3>1, <3>5 DEF OnceInv
    <3>7. Done(marks', ops', q, e[1])
      BY <3>3 DEF Done, Marking
    <3> QED BY <3>2, <3>6, <3>7
  <2>4. CASE At(k, q, o)
    <3>1. Started(active, marks, jobs, q, o)
      BY <2>4 DEF Marking, At
    <3>2. ~Starting(prog[q], Marked(k), q, o)
      <4> HIDE DEF Starting, Started
      <4> QED BY <2>3, <3>1 DEF Touched
    <3>3. \A i \in jobs' : ~Starting(prog[q], i, q, o)
      <4> HIDE DEF Starting, Started
      <4> QED BY <2>1, <3>1, <3>2 DEF OnceAt, Marking
    <3>4. ASSUME prog[q].type[o] \notin WaitTypes
          PROVE  (\A a \in active' : ~At(a, q, o)) /\ \A i \in jobs' : ~Working(i, q, o)
      <4>1. (\A a \in active' : ~At(a, q, o)) /\ \A i \in jobs \ {j} : ~Working(i, q, o)
        <5> HIDE DEF At, Working, Marking, OnceInv
        <5> QED BY <1>1, <2>4, <3>4, FirstMark
      <4> HIDE DEF Working
      <4> QED BY <2>2, <4>1 DEF Marking
    <3> HIDE DEF OnceAt, Started, Starting, Working, At, WaitTypes
    <3>5. OnceAt(prog[q], active', marks', jobs', q, o)
      BY <3>3, <3>4, OnceMoves
    <3> QED BY <3>1, <3>5 DEF Touched
  <2>5. CASE ~At(k, q, o) /\ Starting(prog[q], Marked(k), q, o)
    <3>1. ~Touched(prog[q], active, marks, jobs, q, o)
      BY <2>3, <2>5
    <3>2. \A i \in jobs' : Starting(prog[q], i, q, o) => i = Marked(k)
      <4> HIDE DEF Starting
      <4> QED BY <3>1 DEF Touched, Marking
    <3>3. ~Started(active', marks', jobs', q, o)
      <4> HIDE DEF OfOp, At
      <4> QED BY <2>2, <2>5, <3>1 DEF Touched, Started, Marking
    <3> HIDE DEF OnceAt, Started, Starting, Working, At, WaitTypes
    <3>4. OnceAt(prog[q], active', marks', jobs', q, o)
      BY <3>2, <3>3, OnceMoves
    <3> QED BY <2>3, <2>5, <3>4
  <2>6. CASE ~At(k, q, o) /\ ~Starting(prog[q], Marked(k), q, o)
    <3>1. \A i \in jobs' : Starting(prog[q], i, q, o) => i \in jobs
      BY <2>6 DEF Marking
    <3>2. Started(active', marks', jobs', q, o) => Started(active, marks, jobs, q, o)
      <4> HIDE DEF OfOp, At
      <4> QED BY <2>2, <2>6 DEF Started, Marking
    <3>3. /\ \A a \in active' : At(a, q, o) => a \in active
          /\ \A i \in jobs' : Working(i, q, o) => i \in jobs
          /\ \A m \in marks' : At(m, q, o) => m \in marks
      <4> HIDE DEF Working, At
      <4> QED BY <2>2, <2>6 DEF Marking
    <3> HIDE DEF OnceAt, Started, Starting, Working, At, WaitTypes
    <3>4. OnceAt(prog[q], active', marks', jobs', q, o)
      BY <2>1, <3>1, <3>2, <3>3, OnceStill
    <3> QED BY <3>1, <3>2, <3>4 DEF Touched
  <2> QED BY <2>4, <2>5, <2>6
<1>9. /\ prog' = prog /\ N \subseteq Jobs /\ jobs' \subseteq jobs \cup N
      /\ \A q \in Quest : quest[q] # "none" => quest'[q] # "none"
      /\ \A a \in active' : a \in active
      /\ \A m \in marks' : m \in marks \/ (Created(m[1]) /\ quest[m[1]] # "none")
  BY <1>3, <1>6 DEF Marking
<1>10. \A q \in Quest : Orderly(prog[q]) =>
           /\ \A a \in active' : a[1] = q => a \in active \/ Backed(q, a[2])
           /\ \A n \in N : n.on = "mark" /\ n.pc = "start" /\ n.mark[1] = q => \A o \in n.next : Backed(q, o)
  BY <1>5, <1>9
<1> HIDE DEF N, Marking, Kept, TypeOK, AskedInv, StartInv, FollowsJob, OfProcess, Created, OnceAt, Touched, Done, Fresh, Orderly, Backed
<1> QED BY <1>1, <1>4, <1>5, <1>7, <1>8, <1>9, <1>10, StartStep

\* Job j starts operator o of process p, and may go on as a job in K.
Launches(j, p, o, K) ==
  /\ prog' = prog /\ quest' = quest /\ ops' = ops /\ p \in Quest /\ o \in Op /\ j \in jobs
  /\ ~Fresh(j) /\ OfProcess(j, p) /\ Starting(prog[p], j, p, o)
  /\ marks' \subseteq marks /\ \A k \in marks : k \in marks' \/ At(k, p, o)
  /\ \E a \in ActiveArc : /\ At(a, p, o) /\ active' \subseteq active \cup {a}
                          /\ jobs' \subseteq (jobs \ {j}) \cup K \cup {Activated(a)}
  /\ K \subseteq Jobs /\ \A m, n \in K : m = n
  /\ \A k \in K : /\ FollowsJob(k) /\ ~Fresh(k) /\ k.on \in {"initiated", "mark"} /\ (k.on = "mark" => k.pc # "start")
                  /\ \A q \in Quest : OfProcess(k, q) => q = p
                  /\ \A q \in Quest : \A x \in Once(prog[q]) : Starting(prog[q], k, q, x) =>
                       Starting(prog[q], j, q, x) /\ ~(q = p /\ x = o)
  /\ Orderly(prog[p]) => Backed(p, o)

LEMMA LaunchStep ==
  ASSUME IInv, StartInv, TypeOK', NEW j, NEW p, NEW o, NEW K, Launches(j, p, o, K)
  PROVE  StartInv'
<1>1. TypeOK /\ AskedInv /\ FreshInv /\ OnceInv
  BY InvParts DEF StartInv
<1>2. PICK a \in ActiveArc : /\ At(a, p, o) /\ active' \subseteq active \cup {a}
                             /\ jobs' \subseteq (jobs \ {j}) \cup K \cup {Activated(a)}
  BY DEF Launches
<1>3. Activated(a) \in Jobs /\ Activated(a).on = "active" /\ Activated(a).arc = a /\ Activated(a).pc = "new"
  BY NewJobs
<1> DEFINE N == K \cup {Activated(a)}
<1> HIDE DEF Activated
<1>4. p \in Quest /\ j \in jobs /\ Starting(prog[p], j, p, o)
  BY DEF Launches
<1>5. o \in Once(prog[p]) => ~Started(active, marks, jobs, p, o) /\ \A i \in jobs : Starting(prog[p], i, p, o) => i = j
  <2> HIDE DEF Starting, Started
  <2> QED BY <1>1, <1>4 DEF OnceInv, OnceAt
<1>6. Kept
  <2>1. ASSUME NEW k \in marks, k[2] \in Once(prog[k[1]]) PROVE k \in marks'
    <3>1. CASE At(k, p, o)
      BY <1>5, <2>1, <3>1 DEF Started, At
    <3> QED BY <3>1 DEF Launches
  <2>2. ops' = ops
    BY DEF Launches
  <2> QED BY <2>1, <2>2 DEF Kept
<1>7. \A n \in N : FollowsJob(n) /\ ~Fresh(n) /\ (n.on = "mark" => n.pc # "start")
  <2>1. FollowsJob(Activated(a)) /\ ~Fresh(Activated(a))
    BY <1>3 DEF FollowsJob, Fresh
  <2> HIDE DEF FollowsJob, Fresh
  <2> QED BY <1>3, <2>1 DEF Launches
<1>8. Created(p)
  <2>1. \A i \in jobs : Fresh(i) => i.quest # p
    <3> HIDE DEF OfProcess, Fresh
    <3> QED BY <1>1 DEF FreshInv, Launches
  <2> HIDE DEF Fresh
  <2> QED BY <1>2, <1>7, <2>1 DEF Created
<1>9. \A n \in N, q \in Quest : OfProcess(n, q) => Created(q)
  <2>1. \A q \in Quest : OfProcess(Activated(a), q) => q = p
    BY <1>2, <1>3 DEF OfProcess, At
  <2> HIDE DEF OfProcess, Created
  <2> QED BY <1>8, <2>1 DEF Launches
<1>10. ASSUME NEW q \in Quest, NEW x \in Once(prog[q])
      PROVE  /\ OnceAt(prog[q], active', marks', jobs', q, x)
             /\ Touched(prog[q], active', marks', jobs', q, x) => Touched(prog[q], active, marks, jobs, q, x)
  <2>1. OnceAt(prog[q], active, marks, jobs, q, x)
    BY <1>1 DEF OnceInv
  <2>2. /\ ~Starting(prog[q], Activated(a), q, x) /\ ~Working(Activated(a), q, x)
        /\ OfOp(Activated(a), q, x) => q = p /\ x = o
        /\ At(a, q, x) => q = p /\ x = o
    BY <1>2, <1>3 DEF Starting, Working, OfOp, At
  <2>3. ASSUME NEW k \in K PROVE ~OfOp(k, q, x) /\ ~Working(k, q, x)
    BY DEF Launches, OfOp, Working
  <2>4. CASE q = p /\ x = o
    <3>1. ~Started(active, marks, jobs, q, x) /\ \A i \in jobs : Starting(prog[q], i, q, x) => i = j
      BY <1>5, <2>4
    <3>2. \A i \in jobs' : ~Starting(prog[q], i, q, x)
      <4>1. \A k \in K : ~Starting(prog[q], k, q, x)
        <5> HIDE DEF Starting
        <5> QED BY <2>4 DEF Launches
      <4> HIDE DEF Starting
      <4> QED BY <1>2, <2>2, <3>1, <4>1
    <3>3. /\ \A b \in active' : At(b, q, x) => b = a
          /\ \A i \in jobs' : ~Working(i, q, x)
          /\ \A k \in marks' : ~At(k, q, x)
      <4>1. (\A b \in active : ~At(b, q, x)) /\ (\A i \in jobs : ~Working(i, q, x)) /\ \A k \in marks : ~At(k, q, x)
        BY <3>1 DEF Started, OfOp, Working
      <4> HIDE DEF At, Working
      <4> QED BY <1>2, <2>2, <2>3, <4>1 DEF Launches
    <3>4. Touched(prog[q], active, marks, jobs, q, x)
      BY <1>4, <2>4 DEF Touched
    <3> HIDE DEF OnceAt, Started, Starting, Working, At, WaitTypes
    <3>5. OnceAt(prog[q], active', marks', jobs', q, x)
      BY <3>2, <3>3, OnceMoves
    <3> QED BY <3>4, <3>5
  <2>5. CASE ~(q = p /\ x = o)
    <3>1. Started(active', marks', jobs', q, x) => Started(active, marks, jobs, q, x)
      <4> HIDE DEF OfOp, At
      <4> QED BY <1>2, <2>2, <2>3, <2>5 DEF Started, Launches
    <3>2. \A k \in K : Starting(prog[q], k, q, x) => Starting(prog[q], j, q, x)
      <4> HIDE DEF Starting
      <4> QED BY DEF Launches
    <3>3. CASE \E k \in K : Starting(prog[q], k, q, x)
      <4>1. PICK k \in K : Starting(prog[q], k, q, x)
        BY <3>3
      <4>2. Starting(prog[q], j, q, x)
        BY <3>2, <4>1
      <4>3. ~Started(active, marks, jobs, q, x) /\ \A i \in jobs : Starting(prog[q], i, q, x) => i = j
        <5> HIDE DEF Starting, Started
        <5> QED BY <1>4, <2>1, <4>2 DEF OnceAt
      <4>4. \A i \in jobs' : Starting(prog[q], i, q, x) => i = k
        <5> HIDE DEF Starting
        <5> QED BY <1>2, <2>2, <4>1, <4>3 DEF Launches
      <4> HIDE DEF OnceAt, Started, Starting, Working, At, WaitTypes
      <4>5. OnceAt(prog[q], active', marks', jobs', q, x)
        BY <3>1, <4>3, <4>4, OnceMoves
      <4> QED BY <1>4, <4>2, <4>5 DEF Touched
    <3>4. CASE ~\E k \in K : Starting(prog[q], k, q, x)
      <4>1. \A i \in jobs' : Starting(prog[q], i, q, x) => i \in jobs
        BY <1>2, <2>2, <3>4
      <4>2. /\ \A b \in active' : At(b, q, x) => b \in active
            /\ \A i \in jobs' : Working(i, q, x) => i \in jobs
            /\ \A m \in marks' : At(m, q, x) => m \in marks
        <5> HIDE DEF Working, At
        <5> QED BY <1>2, <2>2, <2>3, <2>5 DEF Launches
      <4> HIDE DEF OnceAt, Started, Starting, Working, At, WaitTypes
      <4>3. OnceAt(prog[q], active', marks', jobs', q, x)
        BY <2>1, <3>1, <4>1, <4>2, OnceStill
      <4> QED BY <3>1, <4>1, <4>3 DEF Touched
    <3> QED BY <3>3, <3>4
  <2> QED BY <2>4, <2>5
<1>11. /\ prog' = prog /\ N \subseteq Jobs /\ jobs' \subseteq jobs \cup N
       /\ \A q \in Quest : quest[q] # "none" => quest'[q] # "none"
       /\ \A m \in marks' : m \in marks
  BY <1>2, <1>3 DEF Launches
<1>12. \A b \in active' : b \in active \/ Created(b[1])
  BY <1>2, <1>8 DEF At
<1>13. \A q \in Quest : Orderly(prog[q]) =>
           /\ \A b \in active' : b[1] = q => b \in active \/ Backed(q, b[2])
           /\ \A n \in N : n.on = "mark" /\ n.pc = "start" /\ n.mark[1] = q => \A x \in n.next : Backed(q, x)
  <2>1. Orderly(prog[p]) => Backed(p, o)
    BY DEF Launches
  <2>2. a[1] = p /\ a[2] = o
    BY <1>2 DEF At
  <2> HIDE DEF Orderly, Backed, N
  <2> QED BY <1>2, <1>7, <2>1, <2>2
<1> HIDE DEF N, Launches, Kept, TypeOK, AskedInv, StartInv, FollowsJob, OfProcess, Created, OnceAt, Touched, Done, Fresh, Orderly, Backed
<1> QED BY <1>1, <1>6, <1>7, <1>9, <1>10, <1>11, <1>12, <1>13, StartStep

\* The job of a mark goes on as k.
Goes(j, k) ==
  /\ UNCHANGED <<prog, quest, ops, active, marks>> /\ j \in jobs /\ j.on = "mark"
  /\ k \in Jobs /\ k.on = "mark" /\ k.mark[1] = j.mark[1] /\ jobs' \subseteq (jobs \ {j}) \cup {k}
  /\ FollowsJob(k)
  /\ \A q \in Quest, x \in Op : Starting(prog[q], k, q, x) => Starting(prog[q], j, q, x)
  /\ k.pc = "start" /\ Orderly(prog[k.mark[1]]) => \A o \in k.next : Backed(k.mark[1], o)

LEMMA GoStep ==
  ASSUME IInv, StartInv, TypeOK', NEW j, NEW k, Goes(j, k)
  PROVE  StartInv'
<1>1. TypeOK /\ AskedInv /\ FreshInv /\ OnceInv
  BY InvParts DEF StartInv
<1> DEFINE N == {k}
<1>2. Kept
  BY DEF Goes, Kept
<1>3. \A n \in N : FollowsJob(n)
  BY DEF Goes
<1>4. ASSUME NEW n \in N, NEW q \in Quest, OfProcess(n, q) PROVE Created(q)
  <2>1. OfProcess(j, q) /\ ~Fresh(j) /\ ~Fresh(k) /\ j \in jobs
    BY <1>4 DEF Goes, OfProcess, Fresh
  <2>2. \A i \in jobs : Fresh(i) => i.quest # q
    <3> HIDE DEF OfProcess, Fresh
    <3> QED BY <1>1, <2>1 DEF FreshInv
  <2> QED BY <2>1, <2>2 DEF Created, Goes
<1>5. ASSUME NEW q \in Quest, NEW x \in Once(prog[q])
      PROVE  /\ OnceAt(prog[q], active', marks', jobs', q, x)
             /\ Touched(prog[q], active', marks', jobs', q, x) => Touched(prog[q], active, marks, jobs, q, x)
  <2>1. OnceAt(prog[q], active, marks, jobs, q, x) /\ x \in Op
    BY <1>1, OnceFacts DEF OnceInv
  <2>2. ~OfOp(k, q, x) /\ ~Working(k, q, x)
    BY DEF Goes, OfOp, Working
  <2>3. Started(active', marks', jobs', q, x) => Started(active, marks, jobs, q, x)
    <3> HIDE DEF OfOp, At
    <3> QED BY <2>2 DEF Started, Goes
  <2>4. CASE Starting(prog[q], k, q, x)
    <3>1. j \in jobs /\ Starting(prog[q], j, q, x)
      <4> HIDE DEF Starting
      <4> QED BY <2>1, <2>4 DEF Goes
    <3>2. ~Started(active, marks, jobs, q, x) /\ \A i \in jobs : Starting(prog[q], i, q, x) => i = j
      <4> HIDE DEF Starting, Started
      <4> QED BY <2>1, <3>1 DEF OnceAt
    <3>3. \A i \in jobs' : Starting(prog[q], i, q, x) => i = k
      <4> HIDE DEF Starting
      <4> QED BY <3>2 DEF Goes
    <3> HIDE DEF OnceAt, Started, Starting, Working, At, WaitTypes
    <3>4. OnceAt(prog[q], active', marks', jobs', q, x)
      BY <2>3, <3>2, <3>3, OnceMoves
    <3> QED BY <3>1, <3>4 DEF Touched
  <2>5. CASE ~Starting(prog[q], k, q, x)
    <3>1. \A i \in jobs' : Starting(prog[q], i, q, x) => i \in jobs
      BY <2>5 DEF Goes
    <3>2. /\ \A b \in active' : At(b, q, x) => b \in active
          /\ \A i \in jobs' : Working(i, q, x) => i \in jobs
          /\ \A m \in marks' : At(m, q, x) => m \in marks
      <4> HIDE DEF Working, At
      <4> QED BY <2>2 DEF Goes
    <3> HIDE DEF OnceAt, Started, Starting, Working, At, WaitTypes
    <3>3. OnceAt(prog[q], active', marks', jobs', q, x)
      BY <2>1, <2>3, <3>1, <3>2, OnceStill
    <3> QED BY <2>3, <3>1, <3>3 DEF Touched
  <2> QED BY <2>4, <2>5
<1>6. /\ prog' = prog /\ N \subseteq Jobs /\ jobs' \subseteq jobs \cup N
      /\ \A q \in Quest : quest[q] # "none" => quest'[q] # "none"
      /\ \A a \in active' : a \in active
      /\ \A m \in marks' : m \in marks
  BY DEF Goes
<1>7. \A q \in Quest : Orderly(prog[q]) =>
           /\ \A a \in active' : a[1] = q => a \in active \/ Backed(q, a[2])
           /\ \A n \in N : n.on = "mark" /\ n.pc = "start" /\ n.mark[1] = q => \A o \in n.next : Backed(q, o)
  <2> HIDE DEF Orderly, Backed
  <2> QED BY <1>6 DEF Goes
<1> HIDE DEF N, Goes, Kept, TypeOK, AskedInv, StartInv, FollowsJob, OfProcess, Created, OnceAt, Touched, Done, Fresh, Orderly, Backed
<1> QED BY <1>1, <1>2, <1>3, <1>4, <1>5, <1>6, <1>7, StartStep

-----------------------------------------------------------------------------
\* Jobs that mark an operator, or end a process.

\* The result of an operator is marked, if the operator exists.
LEMMA GotoKind ==
  ASSUME IInv, StartInv, TypeOK', NEW j \in jobs, NEW p \in Quest, NEW o \in Op, NEW kind \in MarkKind,
         Goto(p, o, kind, jobs \ {j}), prog' = prog, ops' = ops, active' \subseteq active,
         \A q \in Quest : quest[q] # "none" => quest'[q] # "none", quest[p] # "none",
         Started(active, marks, jobs, p, o),
         prog[p].type[o] \notin WaitTypes =>
           Working(j, p, o) \/ \E a \in active : a \notin active' /\ At(a, p, o)
  PROVE  StartInv'
<1>1. CASE marks' = marks /\ jobs' = jobs \ {j}
  <2>1. Fades({})
    BY <1>1 DEF Fades
  <2> HIDE DEF Fades, IInv, StartInv, TypeOK
  <2> QED BY <2>1, FadeStep
<1>2. ASSUME NEW k \in Mark, k[1] = p, k[2] = o, o \in ops[p], marks' = marks \cup {k},
             jobs' = (jobs \ {j}) \cup {Marked(k)}
      PROVE  StartInv'
  <2>1. Marking(j, k)
    <3> HIDE DEF Started, Working, At, WaitTypes
    <3> QED BY <1>2 DEF Marking
  <2> HIDE DEF Marking, IInv, StartInv, TypeOK
  <2> QED BY <2>1, MarkingStep
<1>3. TypeOK
  BY InvParts
<1> HIDE DEF IInv, StartInv, TypeOK, Goto, Started, Working, At, WaitTypes, Marked
<1> QED BY <1>1, <1>2, <1>3, GotoFacts

\* A job goes on as one in N, of what has begun, or none.
LEMMA FadeKind ==
  ASSUME IInv, StartInv, TypeOK', NEW N, N \subseteq Jobs, jobs' \subseteq jobs \cup N,
         prog' = prog, ops' = ops, marks' = marks, active' \subseteq active,
         \A q \in Quest : quest[q] # "none" => quest'[q] # "none",
         \A n \in N : /\ n.on \notin {"initiated", "mark"}
                      /\ \A q \in Quest, o \in Op : OfOp(n, q, o) => Started(active, marks, jobs, q, o)
                      /\ \A q \in Quest, o \in Op : Working(n, q, o) => prog[q].type[o] \in WaitTypes
  PROVE  StartInv'
<1>1. Fades(N)
  <2> HIDE DEF OfOp, Started, Working, WaitTypes
  <2> QED BY DEF Fades
<1> HIDE DEF Fades, IInv, StartInv, TypeOK
<1> QED BY <1>1, FadeStep

LEMMA EndKind ==
  ASSUME IInv, StartInv, TypeOK', jobs' \subseteq jobs,
         prog' = prog, ops' = ops, marks' = marks, active' \subseteq active,
         \A q \in Quest : quest[q] # "none" => quest'[q] # "none"
  PROVE  StartInv'
<1>1. Fades({})
  BY DEF Fades
<1> HIDE DEF Fades, IInv, StartInv, TypeOK
<1> QED BY <1>1, FadeStep

\* The process is given up.
LEMMA CrashKind ==
  ASSUME IInv, StartInv, TypeOK', NEW p \in Quest, jobs' \subseteq jobs \cup Crash(p),
         prog' = prog, ops' = ops, marks' = marks, active' \subseteq active,
         \A q \in Quest : quest[q] # "none" => quest'[q] # "none"
  PROVE  StartInv'
<1>1. PICK N : N = Crash(p)
  OBVIOUS
<1>2. \A n \in N : n \in Jobs /\ n.on = "useless"
  BY <1>1, CrashJobs
<1>3. /\ N \subseteq Jobs /\ jobs' \subseteq jobs \cup N
      /\ \A n \in N : /\ n.on \notin {"initiated", "mark"}
                      /\ \A q \in Quest, o \in Op : OfOp(n, q, o) => Started(active, marks, jobs, q, o)
                      /\ \A q \in Quest, o \in Op : Working(n, q, o) => prog[q].type[o] \in WaitTypes
  BY <1>1, <1>2 DEF OfOp, Working
<1> HIDE DEF IInv, StartInv, TypeOK, OfOp, Working, Started, WaitTypes, Crash
<1> QED BY <1>3, FadeKind

-----------------------------------------------------------------------------
\* Each step starts operators in turn.

LEMMA RunProgramStarts ==
  ASSUME IInv, StartInv, TypeOK', NEW q \in Quest, RunProgram(q) PROVE StartInv'
<1>1. Asked(q) \in Jobs /\ Fresh(Asked(q)) /\ Asked(q).quest = q /\ Asked(q).on = "initiated"
  BY NewJobs DEF Asked, Fresh
<1> DEFINE N == {Asked(q)}
<1> HIDE DEF Asked
<1>2. \A p \in Quest : quest[p] # "none" => quest'[p] # "none"
  BY InvParts DEF RunProgram, TypeOK
<1>3. Takes(N)
  <2> HIDE DEF Fresh
  <2> QED BY <1>1, <1>2 DEF Takes, RunProgram
<1> HIDE DEF N, Takes, IInv, StartInv, TypeOK
<1> QED BY <1>3, TakesStep

LEMMA CreateProcessStarts ==
  ASSUME IInv, StartInv, TypeOK', NEW j \in jobs, CreateProcess(j) PROVE StartInv'
<1>1. TypeOK /\ AskedInv /\ FreshInv /\ FollowsInv /\ OnceInv /\ JoinInv
  BY InvParts DEF StartInv
<1>2. j \in InitiatedJob /\ Fresh(j) /\ j.on = "initiated" /\ j.pc = "new"
  BY <1>1, JobKinds DEF TypeOK, CreateProcess, Fresh
<1>3. UNCHANGED <<prog, quest, active, marks>>
  BY DEF CreateProcess
<1>4. CASE ~prog[j.quest].complete
  <2>1. jobs' \subseteq jobs /\ ops' = ops
    BY <1>4 DEF CreateProcess
  <2> HIDE DEF IInv, StartInv, TypeOK
  <2> QED BY <1>3, <2>1, EndKind
<1>5. CASE prog[j.quest].complete
  <2>0. PICK p \in Quest : p = j.quest
    BY <1>2 DEF InitiatedJob
  <2>1. PICK k : k = [j EXCEPT !.pc = "init", !.todo = prog[p].init]
    OBVIOUS
  <2>2. k.on = "initiated" /\ k.quest = p /\ k.pc = "init" /\ k.todo = prog[p].init
    BY <1>2, <2>0, <2>1 DEF InitiatedJob
  <2>3. jobs' = (jobs \ {j}) \cup {k}
    BY <1>5, <2>0, <2>1 DEF CreateProcess, Replace
  <2>4. \A q \in Quest : q # p => ops'[q] = ops[q]
    BY <1>1, <1>5, <2>0 DEF CreateProcess, TypeOK
  <2>5. /\ \A a \in active : a[1] # p
        /\ \A m \in marks : m[1] # p
        /\ \A i \in jobs : OfProcess(i, p) => i = j
    <3> HIDE DEF OfProcess, Fresh
    <3> QED BY <1>1, <1>2, <2>0 DEF FreshInv
  <2>6. FreshInv'
    <3>1. ASSUME NEW i \in jobs', Fresh(i)
          PROVE  /\ i \in jobs /\ i.quest # p
                 /\ \A h \in jobs' : OfProcess(h, i.quest) => h = i
      <4>1. i # k /\ i \in jobs /\ i # j
        BY <2>2, <2>3, <3>1 DEF Fresh
      <4>2. i.quest # p
        BY <2>5, <3>1, <4>1 DEF OfProcess, Fresh
      <4>3. ~OfProcess(k, i.quest)
        BY <2>2, <4>2 DEF OfProcess
      <4>4. \A h \in jobs : OfProcess(h, i.quest) => h = i
        <5> HIDE DEF OfProcess, Fresh
        <5> QED BY <1>1, <3>1, <4>1 DEF FreshInv
      <4> QED BY <2>3, <4>1, <4>2, <4>3, <4>4
    <3> HIDE DEF OfProcess, Fresh
    <3> QED BY <1>1, <1>3, <3>1 DEF FreshInv
  <2>7. FollowsInv'
    <3>1. FollowsJob(k)'
      BY <2>2 DEF FollowsJob
    <3>2. ASSUME NEW i \in jobs, i.on = "mark" PROVE i.mark[1] \in Quest /\ i.mark[1] # p
      BY <1>2, <2>5, <3>2, OfMark DEF OfProcess
    <3>3. ASSUME NEW i \in jobs PROVE FollowsJob(i)'
      BY <1>1, <1>3, <2>4, <3>2 DEF FollowsInv, FollowsJob
    <3> QED BY <2>3, <3>1, <3>3 DEF FollowsInv
  <2>8. OnceInv'
    <3>1. ASSUME NEW q \in Quest, NEW o \in Once(prog[q]), q # p
          PROVE  /\ OnceAt(prog[q], active, marks, jobs', q, o)
                 /\ Touched(prog[q], active, marks, jobs', q, o) => Touched(prog[q], active, marks, jobs, q, o)
      <4>1. OnceAt(prog[q], active, marks, jobs, q, o)
        BY <1>1 DEF OnceInv
      <4>2. ~Starting(prog[q], k, q, o) /\ ~OfOp(k, q, o) /\ ~Working(k, q, o)
        BY <2>2, <3>1 DEF Starting, OfOp, Working
      <4>3. \A i \in jobs' : Starting(prog[q], i, q, o) => i \in jobs
        BY <2>3, <4>2
      <4>4. Started(active, marks, jobs', q, o) => Started(active, marks, jobs, q, o)
        <5> HIDE DEF OfOp, At
        <5> QED BY <2>3, <4>2 DEF Started
      <4>5. \A i \in jobs' : Working(i, q, o) => i \in jobs
        BY <2>3, <4>2
      <4> HIDE DEF OnceAt, Started, Starting, Working, At, WaitTypes
      <4>6. OnceAt(prog[q], active, marks, jobs', q, o)
        BY <4>1, <4>3, <4>4, <4>5, OnceStill
      <4> QED BY <4>3, <4>4, <4>6 DEF Touched
    <3>2. ASSUME NEW o
          PROVE  /\ ~Started(active, marks, jobs', p, o)
                 /\ \A i \in jobs' : Starting(prog[p], i, p, o) => i = k
      <4>1. ASSUME NEW i \in jobs' PROVE ~OfOp(i, p, o) /\ (Starting(prog[p], i, p, o) => i = k)
        <5>1. CASE i = k
          BY <2>2, <5>1 DEF OfOp
        <5>2. CASE i # k
          <6>1. ~OfProcess(i, p)
            BY <2>3, <2>5, <5>2
          <6> QED BY <6>1 DEF OfProcess, OfOp, Starting, At
        <5> QED BY <5>1, <5>2
      <4>2. (\A a \in active : ~At(a, p, o)) /\ \A m \in marks : ~At(m, p, o)
        BY <2>5 DEF At
      <4> HIDE DEF Starting, OfOp, At
      <4> QED BY <4>1, <4>2 DEF Started
    <3>3. ASSUME NEW o \in Once(prog[p])
          PROVE  /\ OnceAt(prog[p], active, marks, jobs', p, o)
                 /\ \A e \in prog[p].order : e[3] = o => ~Touched(prog[p], active, marks, jobs', p, o)
      <4>1. OnceAt(prog[p], active, marks, jobs', p, o)
        <5> HIDE DEF OnceAt, Started, Starting, Working, At, WaitTypes
        <5> QED BY <3>2, OnceMoves
      <4>2. ASSUME NEW e \in prog[p].order, e[3] = o PROVE ~Starting(prog[p], k, p, o)
        <5>1. o \notin prog[p].init
          BY <4>2, OnceFacts DEF StartedOnce
        <5> QED BY <2>2, <5>1 DEF Starting
      <4> HIDE DEF Started, Starting
      <4> QED BY <3>2, <4>1, <4>2 DEF Touched
    <3>4. ASSUME NEW q \in Quest, NEW o \in Once(prog[q])
          PROVE  /\ OnceAt(prog[q], active, marks, jobs', q, o)
                 /\ \A e \in prog[q].order : e[3] = o /\ Touched(prog[q], active, marks, jobs', q, o) =>
                      Done(marks, ops', q, e[1])
      <4>1. CASE q = p
        BY <3>3, <4>1
      <4>2. CASE q # p
        <5>1. \A e \in prog[q].order : e[3] = o /\ Touched(prog[q], active, marks, jobs, q, o) => Done(marks, ops, q, e[1])
          <6> HIDE DEF OnceAt, Touched, Done
          <6> QED BY <1>1 DEF OnceInv
        <5>2. ops'[q] = ops[q]
          BY <2>4, <4>2
        <5>3. \A x : Done(marks, ops', q, x) <=> Done(marks, ops, q, x)
          BY <5>2 DEF Done
        <5> HIDE DEF OnceAt, Touched, Done
        <5> QED BY <3>1, <4>2, <5>1, <5>3
      <4> QED BY <4>1, <4>2
    <3> HIDE DEF OnceAt, Touched, Done
    <3> QED BY <1>3, <3>4 DEF OnceInv
  <2>9. JoinInv'
    <3>1. ASSUME NEW q \in Quest, q # p, NEW o, Backed(q, o) PROVE Backed(q, o)'
      BY <1>3, <2>4, <3>1 DEF Backed, MarksOf, Satisfies
    <3>2. ASSUME NEW q \in Quest, Orderly(prog[q]), NEW a \in active, a[1] = q PROVE Backed(q, a[2])'
      <4>1. PICK o : o = a[2]
        OBVIOUS
      <4>2. q # p /\ Backed(q, o)
        <5> HIDE DEF Backed, Orderly
        <5> QED BY <1>1, <2>5, <3>2, <4>1 DEF JoinInv
      <4>3. Backed(q, o)'
        <5> HIDE DEF Backed
        <5> QED BY <3>1, <4>2
      <4> QED BY <4>1, <4>3
    <3>3. ASSUME NEW q \in Quest, Orderly(prog[q]), NEW i \in jobs', i.on = "mark", i.pc = "start", i.mark[1] = q, NEW o \in i.next
          PROVE  Backed(q, o)'
      <4>1. i \in jobs /\ i # j
        BY <2>2, <2>3, <3>3
      <4>2. q # p
        BY <1>2, <2>5, <3>3, <4>1 DEF OfProcess
      <4>3. Backed(q, o)
        <5> HIDE DEF Backed, Orderly
        <5> QED BY <1>1, <3>3, <4>1 DEF JoinInv
      <4> HIDE DEF Backed
      <4> QED BY <3>1, <4>2, <4>3
    <3> HIDE DEF Backed, Orderly
    <3> QED BY <1>3, <3>2, <3>3 DEF JoinInv
  <2> QED BY <2>6, <2>7, <2>8, <2>9 DEF StartInv
<1> QED BY <1>4, <1>5

LEMMA StartInitialStarts ==
  ASSUME IInv, StartInv, TypeOK', NEW j \in jobs, StartInitial(j) PROVE StartInv'
<1>1. TypeOK /\ WorkInv
  BY InvParts
<1>2. /\ j \in InitiatedJob /\ j.on = "initiated" /\ j.pc = "init" /\ j.quest \in Quest /\ j.todo \subseteq Op
      /\ j.todo \subseteq prog[j.quest].init
  <2>1. j \in Jobs /\ j.on = "initiated" /\ j.pc = "init" /\ WorkJob(j)
    BY <1>1 DEF TypeOK, WorkInv, StartInitial
  <2>2. j \in InitiatedJob
    BY <2>1, JobKinds
  <2> QED BY <2>1, <2>2 DEF WorkJob, InitiatedJob
<1>3. UNCHANGED <<prog, quest, ops, marks>>
  BY DEF StartInitial
<1>4. PICK p \in Quest : p = j.quest
  BY <1>2
<1>5. ASSUME NEW o \in j.todo, NEW left, NEW rest, left = j.todo \ {o},
             rest = (IF left = {} THEN jobs \ {j} ELSE (jobs \ {j}) \cup {[j EXCEPT !.todo = left]}),
             Activate(j.quest, o, rest)
      PROVE  StartInv'
  <2>1. PICK k : k = [j EXCEPT !.todo = left]
    OBVIOUS
  <2>2. k \in InitiatedJob /\ k.on = "initiated" /\ k.quest = p /\ k.pc = "init" /\ k.todo = left
    BY <1>2, <1>4, <1>5, <2>1 DEF InitiatedJob
  <2> DEFINE K == {k}
  <2>3. rest \subseteq (jobs \ {j}) \cup K /\ K \subseteq Jobs
    BY <1>5, <2>1, <2>2, JobsAre
  <2>4. ~Fresh(j) /\ OfProcess(j, p) /\ Starting(prog[p], j, p, o)
    BY <1>2, <1>4 DEF Fresh, OfProcess, Starting
  <2>5. PICK a \in ActiveArc : /\ At(a, p, o) /\ active' \subseteq active \cup {a}
                               /\ jobs' \subseteq (jobs \ {j}) \cup K \cup {Activated(a)}
    <3>1. CASE active' = active /\ jobs' = rest
      <4>1. PICK a : a = <<p, o, 1>>
        OBVIOUS
      <4>2. a \in ActiveArc /\ At(a, p, o)
        BY <1>2, <1>4, <4>1, ScpAssumption DEF ActiveArc, At
      <4> QED BY <2>3, <3>1, <4>2
    <3>2. CASE \E a \in ActiveArc : a[1] = p /\ a[2] = o /\ active' = active \cup {a} /\ jobs' = rest \cup {Activated(a)}
      BY <2>3, <3>2 DEF At
    <3>3. o \in Op /\ Activate(p, o, rest)
      BY <1>2, <1>4, <1>5
    <3> HIDE DEF Activate, TypeOK, Activated
    <3> QED BY <1>1, <3>1, <3>2, <3>3, ActivateFacts
  <2>6. FollowsJob(k) /\ ~Fresh(k) /\ k.on # "mark" /\ \A q \in Quest : OfProcess(k, q) => q = p
    BY <2>2 DEF FollowsJob, Fresh, OfProcess
  <2>7. ASSUME NEW q \in Quest, NEW x, Starting(prog[q], k, q, x)
        PROVE  Starting(prog[q], j, q, x) /\ ~(q = p /\ x = o)
    <3>1. q = p /\ x \in left
      BY <2>2, <2>7 DEF Starting
    <3> QED BY <1>2, <1>4, <1>5, <3>1 DEF Starting
  <2>8. Orderly(prog[p]) => Backed(p, o)
    BY <1>2, <1>4 DEF Orderly, Backed
  <2>9. o \in Op /\ \A m \in marks : m \in marks'
    BY <1>2, <1>3
  <2>10. Launches(j, p, o, K)
    <3>1. \A m, n \in K : m = n
      OBVIOUS
    <3>2. \A n \in K : /\ FollowsJob(n) /\ ~Fresh(n) /\ n.on \in {"initiated", "mark"} /\ (n.on = "mark" => n.pc # "start")
                       /\ \A q \in Quest : OfProcess(n, q) => q = p
                       /\ \A q \in Quest : \A x \in Once(prog[q]) : Starting(prog[q], n, q, x) =>
                            Starting(prog[q], j, q, x) /\ ~(q = p /\ x = o)
      <4> HIDE DEF FollowsJob, Fresh, OfProcess, Starting
      <4> QED BY <2>2, <2>6, <2>7
    <3> HIDE DEF K, FollowsJob, Fresh, OfProcess, Starting, At, Orderly, Backed, Activated
    <3> QED BY <1>3, <2>3, <2>4, <2>5, <2>8, <2>9, <3>1, <3>2 DEF Launches
  <2> HIDE DEF K, Launches, IInv, StartInv, TypeOK
  <2> QED BY <2>10, LaunchStep
<1>6. CASE /\ prog[j.quest].init = {}
           /\ jobs' = (jobs \ {j}) \cup {Useless(j.quest)}
           /\ UNCHANGED active
  <2>1. Useless(j.quest) \in Jobs /\ Useless(j.quest).on = "useless"
    BY <1>2, NewJobs
  <2> DEFINE N == {Useless(j.quest)}
  <2> HIDE DEF Useless
  <2>2. /\ N \subseteq Jobs /\ jobs' \subseteq jobs \cup N
        /\ \A n \in N : /\ n.on \notin {"initiated", "mark"}
                        /\ \A q \in Quest, o \in Op : OfOp(n, q, o) => Started(active, marks, jobs, q, o)
                        /\ \A q \in Quest, o \in Op : Working(n, q, o) => prog[q].type[o] \in WaitTypes
    BY <1>6, <2>1 DEF OfOp, Working
  <2>3. active' \subseteq active /\ \A q \in Quest : quest[q] # "none" => quest'[q] # "none"
    BY <1>3, <1>6
  <2> HIDE DEF N, IInv, StartInv, TypeOK, OfOp, Working, Started, WaitTypes
  <2> QED BY <1>3, <2>2, <2>3, FadeKind
<1> QED BY <1>5, <1>6 DEF StartInitial

\* An operator that begins has been started.
LEMMA BeginsStarted ==
  ASSUME IInv, NEW j \in jobs, NEW q \in Quest, NEW o \in Op, NEW types, Starts(j, q, o, types)
  PROVE  /\ j \in Jobs /\ j.on = "active" /\ j.pc = "new" /\ j.arc \in active /\ At(j.arc, q, o) /\ prog[q].type[o] \in types
         /\ quest[q] # "none" /\ Started(active, marks, jobs, q, o)
BY InvParts DEF Starts, At, Started, TypeOK, AskedInv

LEMMA ArcGoneStarts == ASSUME IInv, StartInv, TypeOK', NEW j \in jobs, ArcGone(j) PROVE StartInv'
<1>1. /\ jobs' \subseteq jobs /\ UNCHANGED <<prog, ops, marks>> /\ active' \subseteq active
      /\ \A q \in Quest : quest[q] # "none" => quest'[q] # "none"
  BY DEF ArcGone
<1> HIDE DEF IInv, StartInv, TypeOK
<1> QED BY <1>1, EndKind

\* The job of an arc goes on as n, and N are the other jobs of the step.
LEMMA TakeKind ==
  ASSUME IInv, StartInv, TypeOK', NEW j \in jobs, NEW q \in Quest, NEW o \in Op, NEW types, Starts(j, q, o, types),
         NEW x \in {"body", "returned", "called"}, NEW N, N \subseteq Jobs,
         \A n \in N : \/ n.on = "useless" \/ (n.on = "finished" /\ n.waiter = {})
                      \/ Fresh(n) /\ quest[n.quest] = "none" /\ \A m \in N : m.on = "initiated" => m = n,
         jobs' \subseteq (jobs \ {j}) \cup {[j EXCEPT !.pc = x]} \cup N,
         active' = active \ {j.arc}, marks' = marks, prog' = prog, ops' = ops,
         \A p \in Quest : quest[p] # "none" => quest'[p] # "none"
  PROVE  StartInv'
<1>1. j \in Jobs /\ j.on = "active" /\ j.arc \in active
  BY BeginsStarted
<1>2. PICK k : k = [j EXCEPT !.pc = x]
  OBVIOUS
<1>3. k \in Jobs /\ k.on = "active" /\ k.arc = j.arc
  <2>1. x \in {"new", "body", "returned", "called", "collect"}
    OBVIOUS
  <2> QED BY <1>1, <1>2, <2>1, ActiveGoes
<1> DEFINE M == N \cup {k}
<1>4. \A n \in N : n.on # "active"
  BY DEF Fresh
<1>5. Takes(M)
  <2>1. jobs' \subseteq jobs \cup M /\ M \subseteq Jobs
    BY <1>2, <1>3
  <2>2. ASSUME NEW n \in M
        PROVE  \/ n.on = "useless" \/ (n.on = "finished" /\ n.waiter = {})
               \/ n.on = "active" /\ n.arc \in active /\ n.arc \notin active' /\ \A m \in M : m.on = "active" => m = n
               \/ Fresh(n) /\ quest[n.quest] = "none" /\ \A m \in M : m.on = "initiated" => m = n
    <3>1. CASE n = k
      BY <1>1, <1>3, <1>4, <3>1
    <3>2. CASE n \in N
      <4> HIDE DEF Fresh
      <4> QED BY <1>3, <3>2
    <3> QED BY <3>1, <3>2
  <2> HIDE DEF M, Fresh
  <2> QED BY <2>1, <2>2 DEF Takes
<1> HIDE DEF M, Takes, IInv, StartInv, TypeOK
<1> QED BY <1>5, TakesStep

LEMMA ReadOperandsStarts == ASSUME IInv, StartInv, TypeOK', NEW j \in jobs, ReadOperands(j) PROVE StartInv'
<1>1. PICK q \in Quest, o \in Op :
        /\ Starts(j, q, o, Types \ Special)
        /\ active' = active \ {j.arc}
        /\ IF NoValue(q, o) = {}
           THEN /\ value' = OneErased(Assign(q, o))
                /\ jobs' = Replace(j, [j EXCEPT !.pc = "body"])
           ELSE /\ \E S \in SUBSET Assign(q, o) : value' = OneErased(S)
                /\ jobs' = (jobs \ {j}) \cup Crash(q)
        /\ UNCHANGED <<prog, quest, proc, ops, live, marks>>
  BY DEF ReadOperands
<1>2. CASE NoValue(q, o) = {}
  <2> DEFINE N == {}
  <2>1. jobs' \subseteq (jobs \ {j}) \cup {[j EXCEPT !.pc = "body"]} \cup N
    BY <1>1, <1>2 DEF Replace
  <2>2. /\ N \subseteq Jobs
        /\ \A n \in N : \/ n.on = "useless" \/ (n.on = "finished" /\ n.waiter = {})
                        \/ Fresh(n) /\ quest[n.quest] = "none" /\ \A m \in N : m.on = "initiated" => m = n
        /\ \A p \in Quest : quest[p] # "none" => quest'[p] # "none"
    BY <1>1
  <2> HIDE DEF N, IInv, StartInv, TypeOK, Starts, Fresh
  <2> QED BY <1>1, <2>1, <2>2, TakeKind
<1>3. CASE NoValue(q, o) # {}
  <2>1. /\ jobs' \subseteq jobs \cup Crash(q) /\ active' \subseteq active
        /\ \A p \in Quest : quest[p] # "none" => quest'[p] # "none"
    BY <1>1, <1>3
  <2> HIDE DEF IInv, StartInv, TypeOK, Crash
  <2> QED BY <1>1, <2>1, CrashKind
<1> QED BY <1>2, <1>3

\* An operator at work has been started.
LEMMA WorkStarted ==
  ASSUME IInv, NEW j \in jobs, j.on = "active", j.pc # "new", NEW q, NEW o, q = j.arc[1], o = j.arc[2]
  PROVE  q \in Quest /\ o \in Op /\ quest[q] # "none" /\ Working(j, q, o) /\ Started(active, marks, jobs, q, o)
<1>1. q \in Quest /\ o \in Op /\ quest[q] # "none"
  BY AtWork
<1>2. Working(j, q, o) /\ OfOp(j, q, o)
  BY DEF Working, OfOp, At
<1> QED BY <1>1, <1>2 DEF Started

LEMMA WorkStarts == ASSUME IInv, StartInv, TypeOK', NEW j \in jobs, NEW r \in Results, Work(j, r) PROVE StartInv'
<1>1. j.on = "active" /\ j.pc = "body" /\ UNCHANGED <<prog, quest, proc, ops, live, active>>
  BY DEF Work
<1>2. PICK q, o : q = j.arc[1] /\ o = j.arc[2]
  OBVIOUS
<1>3. q \in Quest /\ o \in Op /\ quest[q] # "none" /\ Working(j, q, o) /\ Started(active, marks, jobs, q, o)
  BY <1>1, <1>2, WorkStarted
<1>4. prog[q].type[o] \in Types \ Special
  BY <1>1, <1>2, InvParts DEF WorkInv, WorkJob, TypeOf
<1>5. PICK agent : agent = AgentOf(prog[q].type[o])
  OBVIOUS
<1>6. IF r \in DOMAIN agent.after THEN Goto(q, o, agent.after[r], jobs \ {j})
      ELSE /\ jobs' = (jobs \ {j}) \cup (IF r \in agent.crash THEN Crash(q) ELSE {})
           /\ UNCHANGED marks
  BY <1>2, <1>5 DEF Work
<1>7. active' \subseteq active /\ \A p \in Quest : quest[p] # "none" => quest'[p] # "none"
  BY <1>1
<1>8. CASE r \in DOMAIN agent.after
  <2>1. PICK kind \in MarkKind : kind = agent.after[r]
    BY <1>4, <1>5, <1>8, Agents
  <2>2. Goto(q, o, kind, jobs \ {j})
    BY <1>6, <1>8, <2>1
  <2> HIDE DEF Goto, IInv, StartInv, TypeOK, Working, Started, At, WaitTypes
  <2> QED BY <1>1, <1>3, <1>7, <2>2, GotoKind
<1>9. CASE r \notin DOMAIN agent.after
  <2>1. jobs' \subseteq jobs \cup Crash(q) /\ UNCHANGED marks
    <3> HIDE DEF Crash
    <3> QED BY <1>6, <1>9
  <2> HIDE DEF IInv, StartInv, TypeOK, Crash
  <2> QED BY <1>1, <1>3, <1>7, <2>1, CrashKind
<1> QED BY <1>8, <1>9

LEMMA CalledStarts == ASSUME IInv, StartInv, TypeOK', NEW j \in jobs, Called(j) PROVE StartInv'
<1>1. j.on = "active" /\ j.pc # "new" /\ UNCHANGED <<prog, quest, proc, ops, live, value, active>>
  BY DEF Called
<1>2. PICK q, o : q = j.arc[1] /\ o = j.arc[2]
  OBVIOUS
<1>3. q \in Quest /\ o \in Op /\ quest[q] # "none" /\ Working(j, q, o) /\ Started(active, marks, jobs, q, o)
  BY <1>1, <1>2, WorkStarted
<1>4. PICK kind \in MarkKind : Goto(q, o, kind, jobs \ {j})
  BY <1>2 DEF Called, MarkKind
<1>5. active' \subseteq active /\ \A p \in Quest : quest[p] # "none" => quest'[p] # "none"
  BY <1>1
<1> HIDE DEF Goto, IInv, StartInv, TypeOK, Working, Started, At, WaitTypes
<1> QED BY <1>1, <1>3, <1>4, <1>5, GotoKind

LEMMA IfVarAssignStarts == ASSUME IInv, StartInv, TypeOK', NEW j \in jobs, IfVarAssign(j) PROVE StartInv'
<1>1. PICK q \in Quest, o \in Op :
        /\ Starts(j, q, o, {"ifVarAssign"})
        /\ active' = active \ {j.arc}
        /\ Goto(q, o, IF \A v \in Fixed(q, o) \cup Assign(q, o) : v \in live /\ value[v] > 0
                      THEN "success" ELSE "unsuccess", jobs \ {j})
        /\ UNCHANGED <<prog, quest, proc, ops, live>>
  BY DEF IfVarAssign
<1>2. PICK kind : kind = IF \A v \in Fixed(q, o) \cup Assign(q, o) : v \in live /\ value[v] > 0
                         THEN "success" ELSE "unsuccess"
  OBVIOUS
<1>3. kind \in MarkKind /\ Goto(q, o, kind, jobs \ {j})
  <2>1. kind \in MarkKind
    BY <1>2 DEF MarkKind
  <2> QED BY <1>1, <1>2, <2>1
<1>4. /\ j.arc \in active /\ At(j.arc, q, o) /\ quest[q] # "none" /\ Started(active, marks, jobs, q, o)
  BY <1>1, BeginsStarted
<1>5. /\ active' \subseteq active /\ \A p \in Quest : quest[p] # "none" => quest'[p] # "none"
      /\ \E a \in active : a \notin active' /\ At(a, q, o)
  BY <1>1, <1>4
<1> HIDE DEF Goto, IInv, StartInv, TypeOK, Working, Started, At, WaitTypes
<1> QED BY <1>1, <1>3, <1>4, <1>5, GotoKind

LEMMA ReturnStarts == ASSUME IInv, StartInv, TypeOK', NEW j \in jobs, Return(j) PROVE StartInv'
<1>1. PICK q \in Quest, o \in Op :
        /\ Starts(j, q, o, {"return"})
        /\ active' = active \ {j.arc}
        /\ IF quest[q] = "erased"
           THEN /\ jobs' = Replace(j, [j EXCEPT !.pc = "returned"])
                /\ UNCHANGED quest
           ELSE /\ jobs' = Replace(j, [j EXCEPT !.pc = "returned"]) \cup {Finished(q)}
                /\ quest' = [quest EXCEPT ![q] = "finished"]
        /\ UNCHANGED <<prog, proc, ops, live, value, marks>>
  BY DEF Return
<1>2. Finished(q) \in Jobs /\ Finished(q).on = "finished" /\ Finished(q).waiter = {}
  BY NewJobs
<1> DEFINE N == {Finished(q)}
<1> HIDE DEF Finished
<1>3. jobs' \subseteq (jobs \ {j}) \cup {[j EXCEPT !.pc = "returned"]} \cup N
  BY <1>1 DEF Replace
<1>4. /\ N \subseteq Jobs
      /\ \A n \in N : \/ n.on = "useless" \/ (n.on = "finished" /\ n.waiter = {})
                      \/ Fresh(n) /\ quest[n.quest] = "none" /\ \A m \in N : m.on = "initiated" => m = n
  BY <1>2
<1>5. \A p \in Quest : quest[p] # "none" => quest'[p] # "none"
  BY <1>1, InvParts DEF TypeOK
<1> HIDE DEF N, IInv, StartInv, TypeOK, Starts, Fresh
<1> QED BY <1>1, <1>3, <1>4, <1>5, TakeKind

LEMMA GiveUpStarts == ASSUME IInv, StartInv, TypeOK', NEW j \in jobs, GiveUp(j) PROVE StartInv'
<1>1. j.on = "active" /\ j.pc # "new" /\ UNCHANGED <<prog, quest, proc, ops, live, value, active, marks>>
  BY DEF GiveUp
<1>2. PICK q \in Quest : q = j.arc[1]
  BY <1>1, AtWork
<1>3. /\ jobs' \subseteq jobs \cup Crash(q) /\ active' \subseteq active
      /\ \A p \in Quest : quest[p] # "none" => quest'[p] # "none"
  BY <1>1, <1>2 DEF GiveUp
<1> HIDE DEF IInv, StartInv, TypeOK, Crash
<1> QED BY <1>1, <1>3, CrashKind

LEMMA CallStarts == ASSUME IInv, StartInv, TypeOK', NEW j \in jobs, Call(j) PROVE StartInv'
<1>1. PICK q \in Quest, o \in Op :
        /\ Starts(j, q, o, {"call"})
        /\ active' = active \ {j.arc}
        /\ \E c \in prog[q].waits[o] :
             /\ quest[c] = "none"
             /\ IF NoValue(q, o) = {}
                THEN /\ quest' = [quest EXCEPT ![c] = "open"]
                     /\ jobs' = Replace(j, [j EXCEPT !.pc = "called"]) \cup {Asked(c)}
                ELSE /\ jobs' = (jobs \ {j}) \cup Crash(q)
                     /\ UNCHANGED quest
        /\ UNCHANGED <<prog, proc, ops, live, marks>>
  BY DEF Call
<1>2. PICK c \in prog[q].waits[o] :
        /\ quest[c] = "none"
        /\ IF NoValue(q, o) = {}
           THEN /\ quest' = [quest EXCEPT ![c] = "open"]
                /\ jobs' = Replace(j, [j EXCEPT !.pc = "called"]) \cup {Asked(c)}
           ELSE /\ jobs' = (jobs \ {j}) \cup Crash(q)
                /\ UNCHANGED quest
  BY <1>1
<1>3. c \in Quest
  BY InvParts, Programs
<1>4. CASE NoValue(q, o) = {}
  <2>1. Asked(c) \in Jobs /\ Fresh(Asked(c)) /\ Asked(c).quest = c
    BY <1>3, NewJobs DEF Asked, Fresh
  <2> DEFINE N == {Asked(c)}
  <2> HIDE DEF Asked
  <2>2. jobs' \subseteq (jobs \ {j}) \cup {[j EXCEPT !.pc = "called"]} \cup N
    BY <1>2, <1>4 DEF Replace
  <2>3. /\ N \subseteq Jobs
        /\ \A n \in N : \/ n.on = "useless" \/ (n.on = "finished" /\ n.waiter = {})
                        \/ Fresh(n) /\ quest[n.quest] = "none" /\ \A m \in N : m.on = "initiated" => m = n
    BY <1>2, <2>1
  <2>4. \A p \in Quest : quest[p] # "none" => quest'[p] # "none"
    BY <1>2, <1>4, InvParts DEF TypeOK
  <2> HIDE DEF N, IInv, StartInv, TypeOK, Starts, Fresh
  <2> QED BY <1>1, <2>2, <2>3, <2>4, TakeKind
<1>5. CASE NoValue(q, o) # {}
  <2>1. /\ jobs' \subseteq jobs \cup Crash(q) /\ active' \subseteq active
        /\ \A p \in Quest : quest[p] # "none" => quest'[p] # "none"
    BY <1>1, <1>2, <1>5
  <2> HIDE DEF IInv, StartInv, TypeOK, Crash
  <2> QED BY <1>1, <2>1, CrashKind
<1> QED BY <1>4, <1>5

\* A job ends, and the operator that was waiting goes on.
LEMMA WaiterKind ==
  ASSUME IInv, StartInv, TypeOK', NEW j \in jobs, NEW a \in ActiveArc, TypeOf(a) \in WaitTypes, quest[a[1]] # "none",
         Goto(a[1], a[2], "executed", jobs \ {j}), prog' = prog, ops' = ops, active' \subseteq active,
         \A q \in Quest : quest[q] # "none" => quest'[q] # "none",
         Started(active, marks, jobs, a[1], a[2])
  PROVE  StartInv'
<1>1. PICK q \in Quest, o \in Op : q = a[1] /\ o = a[2]
  BY ArcParts
<1>2. PICK kind \in MarkKind : Goto(q, o, kind, jobs \ {j})
  BY <1>1 DEF MarkKind
<1>3. quest[q] # "none" /\ Started(active, marks, jobs, q, o) /\ prog[q].type[o] \in WaitTypes
  BY <1>1 DEF TypeOf
<1> HIDE DEF Goto, IInv, StartInv, TypeOK, Working, Started, At, WaitTypes
<1> QED BY <1>2, <1>3, GotoKind

LEMMA WaitReturnStarts == ASSUME IInv, StartInv, TypeOK', NEW j \in jobs, WaitReturn(j) PROVE StartInv'
<1>1. PICK q \in Quest, o \in Op :
        /\ Starts(j, q, o, {"waitReturn"})
        /\ \E c \in prog[q].waits[o] :
             jobs' = IF quest[c] = "finished" THEN Replace(j, [j EXCEPT !.pc = "collect"])
                     ELSE jobs \ {j}
        /\ UNCHANGED <<prog, quest, proc, ops, live, value, active, marks>>
  BY DEF WaitReturn
<1>2. /\ j \in Jobs /\ j.on = "active" /\ At(j.arc, q, o) /\ prog[q].type[o] = "waitReturn"
      /\ Started(active, marks, jobs, q, o)
  BY <1>1, BeginsStarted
<1>3. PICK k : k = [j EXCEPT !.pc = "collect"]
  OBVIOUS
<1>4. k \in Jobs /\ k.on = "active" /\ k.arc = j.arc
  BY <1>2, <1>3, ActiveGoes
<1> DEFINE N == {k}
<1>5. /\ N \subseteq Jobs /\ jobs' \subseteq jobs \cup N /\ active' \subseteq active
      /\ \A p \in Quest : quest[p] # "none" => quest'[p] # "none"
  BY <1>1, <1>3, <1>4 DEF Replace
<1>6. \A p, x : OfOp(k, p, x) \/ Working(k, p, x) => p = q /\ x = o
  BY <1>2, <1>4 DEF OfOp, Working, At
<1>7. \A n \in N : /\ n.on \notin {"initiated", "mark"}
                   /\ \A p \in Quest, x \in Op : OfOp(n, p, x) => Started(active, marks, jobs, p, x)
                   /\ \A p \in Quest, x \in Op : Working(n, p, x) => prog[p].type[x] \in WaitTypes
  <2>1. prog[q].type[o] \in WaitTypes
    BY <1>2 DEF WaitTypes
  <2> HIDE DEF OfOp, Started, Working, WaitTypes
  <2> QED BY <1>2, <1>4, <1>6, <2>1
<1> HIDE DEF N, IInv, StartInv, TypeOK, OfOp, Working, Started, WaitTypes
<1> QED BY <1>1, <1>5, <1>7, FadeKind

LEMMA WaitCollectsStarts == ASSUME IInv, StartInv, TypeOK', NEW j \in jobs, WaitCollects(j) PROVE StartInv'
<1>1. /\ j.on = "active" /\ j.pc = "collect" /\ UNCHANGED <<prog, ops>> /\ active' \subseteq active
      /\ Goto(j.arc[1], j.arc[2], "executed", jobs \ {j})
  BY DEF WaitCollects, Collect
<1>2. PICK S : quest' = [c \in Quest |-> IF c \in S THEN "erased" ELSE quest[c]]
  BY DEF WaitCollects, Collect
<1>3. PICK a \in ActiveArc : a = j.arc
  BY <1>1, AtWork
<1>4. quest[a[1]] # "none" /\ Started(active, marks, jobs, a[1], a[2])
  <2>1. PICK q, o : q = j.arc[1] /\ o = j.arc[2]
    OBVIOUS
  <2> QED BY <1>1, <1>3, <2>1, WorkStarted
<1>5. TypeOf(a) \in WaitTypes
  BY <1>1, <1>3, InvParts DEF WorkInv, WorkJob, WaitTypes
<1>6. \A q \in Quest : quest[q] # "none" => quest'[q] # "none"
  BY <1>2, InvParts, ErasedQuestions
<1> HIDE DEF Goto, IInv, StartInv, TypeOK, Started, WaitTypes, TypeOf
<1> QED BY <1>1, <1>3, <1>4, <1>5, <1>6, WaiterKind

LEMMA WaitReturnSetStarts == ASSUME IInv, StartInv, TypeOK', NEW j \in jobs, WaitReturnSet(j) PROVE StartInv'
<1>1. PICK q \in Quest, o \in Op :
        /\ Starts(j, q, o, {"waitReturnSet"})
        /\ active' = active \ {j.arc}
        /\ Goto(q, o, "executed", jobs \ {j})
        /\ UNCHANGED <<prog, quest, proc, ops, value>>
  BY DEF WaitReturnSet
<1>2. quest[q] # "none" /\ Started(active, marks, jobs, q, o) /\ prog[q].type[o] \in WaitTypes
  BY <1>1, BeginsStarted DEF WaitTypes
<1>3. PICK kind \in MarkKind : Goto(q, o, kind, jobs \ {j})
  BY <1>1 DEF MarkKind
<1>4. active' \subseteq active /\ \A p \in Quest : quest[p] # "none" => quest'[p] # "none"
  BY <1>1
<1> HIDE DEF Goto, IInv, StartInv, TypeOK, Working, Started, At, WaitTypes
<1> QED BY <1>1, <1>2, <1>3, <1>4, GotoKind

LEMMA QuestionFinishedStarts == ASSUME IInv, StartInv, TypeOK', NEW j \in jobs, QuestionFinished(j) PROVE StartInv'
<1>1. /\ j.on = "finished" /\ UNCHANGED <<prog, quest, proc, ops, live, value, active, marks>> /\ active' \subseteq active
      /\ \A q \in Quest : quest[q] # "none" => quest'[q] # "none"
  BY DEF QuestionFinished
<1>2. j \in FinishedJob
  BY <1>1, JobKinds, InvParts DEF TypeOK
<1>3. CASE jobs' = jobs \ {j}
  <2>1. jobs' \subseteq jobs
    BY <1>3
  <2> HIDE DEF IInv, StartInv, TypeOK
  <2> QED BY <1>1, <2>1, EndKind
<1>4. ASSUME NEW a \in Waiting(j.quest), jobs' = Replace(j, [j EXCEPT !.pc = "collect", !.waiter = {a}])
      PROVE  StartInv'
  <2>1. a \in active /\ a \in ActiveArc
    BY InvParts DEF Waiting, TypeOK
  <2>2. PICK k : k = [j EXCEPT !.pc = "collect", !.waiter = {a}]
    OBVIOUS
  <2>3. k \in FinishedJob /\ k.on = "finished" /\ k.waiter = {a}
    BY <1>2, <2>1, <2>2 DEF FinishedJob
  <2> DEFINE N == {k}
  <2>4. N \subseteq Jobs /\ jobs' \subseteq jobs \cup N
    BY <1>4, <2>2, <2>3, JobsAre DEF Replace
  <2>5. \A p, x : OfOp(k, p, x) => Started(active, marks, jobs, p, x)
    BY <2>1, <2>3 DEF OfOp, Started
  <2>6. \A p, x : ~Working(k, p, x)
    BY <2>3 DEF Working
  <2>7. \A n \in N : /\ n.on \notin {"initiated", "mark"}
                     /\ \A p \in Quest, x \in Op : OfOp(n, p, x) => Started(active, marks, jobs, p, x)
                     /\ \A p \in Quest, x \in Op : Working(n, p, x) => prog[p].type[x] \in WaitTypes
    <3> HIDE DEF OfOp, Started, Working, WaitTypes
    <3> QED BY <2>3, <2>5, <2>6
  <2> HIDE DEF N, IInv, StartInv, TypeOK, OfOp, Working, Started, WaitTypes
  <2> QED BY <1>1, <2>4, <2>7, FadeKind
<1> QED BY <1>3, <1>4 DEF QuestionFinished

LEMMA FinishedCollectsStarts == ASSUME IInv, StartInv, TypeOK', NEW j \in jobs, FinishedCollects(j) PROVE StartInv'
<1>1. PICK a \in j.waiter :
       IF \A c \in prog[a[1]].waits[a[2]] \ {j.quest} : quest[c] \in {"none", "erased"}
       THEN Collect(j, a, {j.quest})
       ELSE /\ quest' = [quest EXCEPT ![j.quest] = "erased"]
            /\ jobs' = jobs \ {j}
            /\ UNCHANGED <<prog, proc, ops, live, value, active, marks>>
  BY DEF FinishedCollects
<1>2. /\ j.on = "finished" /\ j.quest \in Quest /\ a \in ActiveArc /\ quest[a[1]] # "none"
      /\ TypeOf(a) \in {"waitReturn", "waitReturnSet"}
  <2>1. j \in Jobs /\ j.on = "finished" /\ AskedJob(j) /\ WorkJob(j)
    BY InvParts DEF TypeOK, AskedInv, WorkInv, FinishedCollects
  <2>2. j \in FinishedJob
    BY <2>1, JobKinds
  <2> QED BY <2>1, <2>2 DEF FinishedJob, AskedJob, WorkJob
<1>3. CASE Collect(j, a, {j.quest})
  <2>1. /\ UNCHANGED <<prog, ops>> /\ active' \subseteq active
        /\ Goto(a[1], a[2], "executed", jobs \ {j})
    BY <1>3 DEF Collect
  <2>2. PICK S : quest' = [c \in Quest |-> IF c \in S THEN "erased" ELSE quest[c]]
    BY <1>3 DEF Collect
  <2>3. \A q \in Quest : quest[q] # "none" => quest'[q] # "none"
    BY <2>2, InvParts, ErasedQuestions
  <2>4. TypeOf(a) \in WaitTypes /\ Started(active, marks, jobs, a[1], a[2])
    <3>1. OfOp(j, a[1], a[2])
      BY <1>2 DEF OfOp, At
    <3> QED BY <1>2, <3>1 DEF WaitTypes, Started
  <2> HIDE DEF Goto, IInv, StartInv, TypeOK, Started, WaitTypes, TypeOf
  <2> QED BY <1>2, <2>1, <2>3, <2>4, WaiterKind
<1>4. CASE /\ quest' = [quest EXCEPT ![j.quest] = "erased"]
           /\ jobs' = jobs \ {j}
           /\ UNCHANGED <<prog, proc, ops, live, value, active, marks>>
  <2>1. \A q \in Quest : quest[q] # "none" => quest'[q] # "none"
    BY <1>2, <1>4, InvParts DEF TypeOK
  <2>2. jobs' \subseteq jobs /\ active' \subseteq active /\ UNCHANGED <<prog, ops, marks>>
    BY <1>4
  <2> HIDE DEF IInv, StartInv, TypeOK
  <2> QED BY <2>1, <2>2, EndKind
<1> QED BY <1>1, <1>3, <1>4

\* A subscription or an event of an operator that has been started.
LEMMA WaitsKind ==
  ASSUME IInv, StartInv, TypeOK', NEW k \in Jobs, k.on \in {"waits", "event"}, jobs' \subseteq jobs \cup {k},
         Started(active, marks, jobs, k.arc[1], k.arc[2]),
         UNCHANGED <<prog, quest, ops, active, marks>>
  PROVE  StartInv'
<1> DEFINE N == {k}
<1>1. \A p, x : ~Working(k, p, x) /\ (OfOp(k, p, x) => p = k.arc[1] /\ x = k.arc[2])
  BY DEF OfOp, Working, At
<1>2. /\ N \subseteq Jobs /\ jobs' \subseteq jobs \cup N /\ active' \subseteq active
      /\ \A q \in Quest : quest[q] # "none" => quest'[q] # "none"
  OBVIOUS
<1>3. \A n \in N : /\ n.on \notin {"initiated", "mark"}
                   /\ \A p \in Quest, x \in Op : OfOp(n, p, x) => Started(active, marks, jobs, p, x)
                   /\ \A p \in Quest, x \in Op : Working(n, p, x) => prog[p].type[x] \in WaitTypes
  <2> HIDE DEF OfOp, Started, Working, WaitTypes
  <2> QED BY <1>1
<1> HIDE DEF N, IInv, StartInv, TypeOK, OfOp, Working, Started, WaitTypes
<1> QED BY <1>2, <1>3, FadeKind

LEMMA SysWaitStarts == ASSUME IInv, StartInv, TypeOK', NEW j \in jobs, SysWait(j) PROVE StartInv'
<1>1. PICK q \in Quest, o \in Op :
        /\ Starts(j, q, o, {"sys_wait"})
        /\ jobs' \in {jobs \ {j}, Replace(j, [on |-> "waits", arc |-> j.arc])}
        /\ UNCHANGED <<prog, quest, proc, ops, live, active, marks>>
  BY DEF SysWait
<1>2. j.arc \in ActiveArc /\ At(j.arc, q, o) /\ Started(active, marks, jobs, q, o)
  BY <1>1, BeginsStarted, InvParts DEF TypeOK
<1>3. PICK k : k = [on |-> "waits", arc |-> j.arc]
  OBVIOUS
<1>4. k \in WaitsJob /\ k.on = "waits" /\ k.arc = j.arc
  BY <1>2, <1>3 DEF WaitsJob
<1>5. jobs' \subseteq jobs \cup {k} /\ k \in Jobs
  BY <1>1, <1>3, <1>4, JobsAre DEF Replace
<1>6. Started(active, marks, jobs, k.arc[1], k.arc[2])
  BY <1>2, <1>4 DEF At
<1> HIDE DEF IInv, StartInv, TypeOK, Started
<1> QED BY <1>1, <1>4, <1>5, <1>6, WaitsKind

\* A subscription or an event is of an operator that has been started.
LEMMA WaitsStarted ==
  ASSUME NEW j \in jobs, j.on \in {"waits", "event"}
  PROVE  Started(active, marks, jobs, j.arc[1], j.arc[2])
<1>1. OfOp(j, j.arc[1], j.arc[2])
  BY DEF OfOp, At
<1> QED BY <1>1 DEF Started

LEMMA EventOccursStarts == ASSUME IInv, StartInv, TypeOK', NEW j \in jobs, EventOccurs(j) PROVE StartInv'
<1>1. j.on \in {"waits", "event"} /\ UNCHANGED <<prog, quest, proc, ops, live, value, active, marks>>
  BY DEF EventOccurs
<1>2. PICK n \in 1..MaxArcs : jobs' = jobs \cup {[on |-> "event", arc |-> j.arc, pc |-> "new", n |-> n]}
  BY DEF EventOccurs
<1>3. j.arc \in ActiveArc
  BY <1>1, OfSysWait
<1>4. PICK k : k = [on |-> "event", arc |-> j.arc, pc |-> "new", n |-> n]
  OBVIOUS
<1>5. k \in EventJob /\ k.on = "event" /\ k.arc = j.arc
  BY <1>3, <1>4 DEF EventJob
<1>6. jobs' \subseteq jobs \cup {k} /\ k \in Jobs
  BY <1>2, <1>4, <1>5, JobsAre
<1>7. Started(active, marks, jobs, k.arc[1], k.arc[2])
  BY <1>1, <1>5, WaitsStarted
<1> HIDE DEF IInv, StartInv, TypeOK, Started
<1> QED BY <1>1, <1>5, <1>6, <1>7, WaitsKind

LEMMA SysWaitProcessorStarts == ASSUME IInv, StartInv, TypeOK', NEW j \in jobs, SysWaitProcessor(j) PROVE StartInv'
<1>1. j.on \in {"waits", "event"} /\ j.on = "event" /\ UNCHANGED <<prog, quest, proc, ops, live, value>>
  BY DEF SysWaitProcessor
<1>2. j \in Jobs /\ j.arc \in ActiveArc /\ quest[j.arc[1]] # "none" /\ TypeOf(j.arc) = "sys_wait"
  BY <1>1, OfSysWait
<1>3. Started(active, marks, jobs, j.arc[1], j.arc[2])
  BY <1>1, WaitsStarted
<1>4. CASE jobs' \subseteq Replace(j, [j EXCEPT !.pc = "destroy"]) /\ UNCHANGED <<active, marks>>
  <2>1. PICK k : k = [j EXCEPT !.pc = "destroy"]
    OBVIOUS
  <2>2. j \in EventJob
    BY <1>1, <1>2, JobKinds
  <2>3. k \in EventJob /\ k.on = "event" /\ k.arc = j.arc
    BY <2>1, <2>2 DEF EventJob
  <2>4. jobs' \subseteq jobs \cup {k} /\ k \in Jobs
    BY <1>4, <2>1, <2>3, JobsAre DEF Replace
  <2> HIDE DEF IInv, StartInv, TypeOK, Started
  <2> QED BY <1>1, <1>3, <1>4, <2>3, <2>4, WaitsKind
<1>5. CASE active' = active \ {j.arc} /\ Goto(j.arc[1], j.arc[2], "executed", jobs \ {j})
  <2>1. PICK a \in ActiveArc : a = j.arc
    BY <1>2
  <2>2. /\ TypeOf(a) \in WaitTypes /\ quest[a[1]] # "none" /\ Started(active, marks, jobs, a[1], a[2])
        /\ Goto(a[1], a[2], "executed", jobs \ {j}) /\ active' \subseteq active
        /\ \A p \in Quest : quest[p] # "none" => quest'[p] # "none"
    BY <1>1, <1>2, <1>3, <1>5, <2>1 DEF WaitTypes
  <2> HIDE DEF Goto, IInv, StartInv, TypeOK, Started, WaitTypes, TypeOf
  <2> QED BY <1>1, <2>2, WaiterKind
<1>6. CASE jobs' = jobs \ {j} /\ UNCHANGED <<active, marks>>
  <2>1. /\ jobs' \subseteq jobs /\ active' \subseteq active /\ UNCHANGED <<prog, ops, marks>>
        /\ \A p \in Quest : quest[p] # "none" => quest'[p] # "none"
    BY <1>1, <1>6
  <2> HIDE DEF IInv, StartInv, TypeOK
  <2> QED BY <2>1, EndKind
<1>7. \/ jobs' \subseteq Replace(j, [j EXCEPT !.pc = "destroy"]) /\ UNCHANGED <<active, marks>>
      \/ active' = active \ {j.arc} /\ Goto(j.arc[1], j.arc[2], "executed", jobs \ {j})
      \/ jobs' = jobs \ {j} /\ UNCHANGED <<active, marks>>
  <2> HIDE DEF Goto, Replace
  <2> QED BY DEF SysWaitProcessor
<1> QED BY <1>4, <1>5, <1>6, <1>7

LEMMA MarkGoneStarts == ASSUME IInv, StartInv, TypeOK', NEW j \in jobs, MarkGone(j) PROVE StartInv'
<1>1. /\ jobs' \subseteq jobs /\ UNCHANGED <<prog, ops, marks>> /\ active' \subseteq active
      /\ \A q \in Quest : quest[q] # "none" => quest'[q] # "none"
  BY DEF MarkGone
<1> HIDE DEF IInv, StartInv, TypeOK
<1> QED BY <1>1, EndKind

\* The job of a mark goes on along the arcs in S.
LEMMA WalkKind ==
  ASSUME IInv, StartInv, TypeOK', NEW j \in jobs, j.on = "mark", NEW S \in SUBSET Edge,
         jobs' = WalkOn(j, S), UNCHANGED <<prog, quest, ops, active, marks>>,
         \A e \in S : e \in prog[j.mark[1]].order /\ e[1] = j.mark[2] /\ e[2] \in Follows(j.mark[3]),
         j.pc = "new" \/ S \subseteq j.todo,
         j.mark[2] \in Once(prog[j.mark[1]]) => j.mark \in marks \/ j.mark[2] \notin ops[j.mark[1]]
  PROVE  StartInv'
<1>1. PICK k : k = [j EXCEPT !.pc = "walk", !.todo = S, !.next = {}]
  OBVIOUS
<1>2. k \in Jobs /\ k.on = "mark" /\ k.mark = j.mark /\ k.pc = "walk" /\ k.todo = S /\ k.next = {}
  <2>1. j \in MarkJob
    BY OfMark
  <2>2. k \in MarkJob /\ k.on = "mark" /\ k.mark = j.mark /\ k.pc = "walk" /\ k.todo = S /\ k.next = {}
    BY <1>1, <2>1 DEF MarkJob
  <2> QED BY <2>2, JobsAre
<1>3. jobs' \subseteq (jobs \ {j}) \cup {k}
  BY <1>1 DEF WalkOn
<1>4. FollowsJob(k)
  BY <1>2 DEF FollowsJob
<1>5. ASSUME NEW q \in Quest, NEW x, Starting(prog[q], k, q, x) PROVE Starting(prog[q], j, q, x)
  <2>1. PICK e \in S : e[3] = x /\ q = j.mark[1]
    BY <1>2, <1>5 DEF Starting
  <2> QED BY <2>1 DEF Starting
<1>6. Goes(j, k)
  <2> HIDE DEF FollowsJob, Starting
  <2> QED BY <1>2, <1>3, <1>4, <1>5 DEF Goes
<1> HIDE DEF Goes, IInv, StartInv, TypeOK
<1> QED BY <1>6, GoStep

LEMMA SyncronizeStarts == ASSUME IInv, StartInv, TypeOK', NEW j \in jobs, Syncronize(j) PROVE StartInv'
<1>1. /\ j.on = "mark" /\ j.pc = "new" /\ j.mark \in marks
      /\ jobs' = WalkOn(j, Behind(j.mark[1], j.mark[2], j.mark[3]))
      /\ UNCHANGED <<prog, quest, ops, active, marks>>
  BY DEF Syncronize
<1>2. PICK S : S = Behind(j.mark[1], j.mark[2], j.mark[3])
  OBVIOUS
<1>3. S \in SUBSET Edge
  <2>1. j.mark[1] \in Quest
    BY <1>1, OfMark
  <2> QED BY <1>2, <2>1, InvParts, Programs DEF Behind
<1>4. \A e \in S : e \in prog[j.mark[1]].order /\ e[1] = j.mark[2] /\ e[2] \in Follows(j.mark[3])
  BY <1>2 DEF Behind
<1> HIDE DEF IInv, StartInv, TypeOK, WalkOn, Follows
<1> QED BY <1>1, <1>2, <1>3, <1>4, WalkKind

\* An operator that waits for all before it is started when they are done.
LEMMA WalkBacked ==
  ASSUME FollowsInv, NEW j \in jobs, j.on = "mark", j.pc # "new", NEW e \in j.todo, NEW q, q = j.mark[1],
         {e[1], e[3]} \subseteq ops[q], Suits(q, e), Orderly(prog[q])
  PROVE  Backed(q, e[3])
<1>1. /\ e \in prog[q].order /\ e[1] = j.mark[2] /\ e[2] \in Follows(j.mark[3])
      /\ j.mark[2] \in Once(prog[q]) => j.mark \in marks \/ j.mark[2] \notin ops[q]
  BY DEF FollowsInv, FollowsJob
<1> SUFFICES ASSUME NEW d \in prog[q].order, e[3] \in prog[q].afterAll, d[3] = e[3], d[1] \in ops[q]
             PROVE  \E k \in MarksOf(q, d[1]) : Satisfies(k[3], d[2])
  BY DEF Backed
<1>2. CASE d = e
  <2>1. j.mark \in marks
    BY <1>1 DEF Orderly
  <2>2. j.mark \in MarksOf(q, d[1])
    BY <1>1, <1>2, <2>1 DEF MarksOf
  <2> QED BY <1>1, <1>2, <2>2 DEF Satisfies
<1>3. CASE d # e
  <2>1. d \in Others(q, e)
    BY <1>3 DEF Others
  <2> QED BY <2>1 DEF Suits
<1> QED BY <1>2, <1>3

LEMMA WalkStarts == ASSUME IInv, StartInv, TypeOK', NEW j \in jobs, Walk(j) PROVE StartInv'
<1>1. j.on = "mark" /\ j.pc = "walk" /\ UNCHANGED <<prog, quest, ops, active, marks>>
  BY DEF Walk
<1>2. j \in MarkJob /\ j.todo \subseteq Edge /\ j.mark[1] \in Quest
  BY <1>1, OfMark
<1>3. FollowsInv /\ FollowsJob(j)
  BY DEF StartInv, FollowsInv
<1>4. PICK q, e : /\ q = j.mark[1] /\ e \in j.todo
                  /\ \/ /\ {e[1], e[3]} \subseteq ops[q] /\ Suits(q, e)
                        /\ jobs' = Replace(j, [j EXCEPT !.pc = "start", !.todo = @ \ {e}, !.next = {e[3]}])
                     \/ jobs' = WalkOn(j, j.todo \ {e})
  BY DEF Walk
<1>5. CASE /\ {e[1], e[3]} \subseteq ops[q] /\ Suits(q, e)
           /\ jobs' = Replace(j, [j EXCEPT !.pc = "start", !.todo = @ \ {e}, !.next = {e[3]}])
  <2>1. PICK k : k = [j EXCEPT !.pc = "start", !.todo = @ \ {e}, !.next = {e[3]}]
    OBVIOUS
  <2>2. /\ k \in MarkJob /\ k.on = "mark" /\ k.mark = j.mark /\ k.pc = "start" /\ k.todo = j.todo \ {e}
        /\ k.next = {e[3]}
    <3>1. e[3] \in Op
      BY <1>2, <1>4 DEF Edge
    <3> QED BY <1>2, <2>1, <3>1 DEF MarkJob
  <2>3. k \in Jobs /\ jobs' \subseteq (jobs \ {j}) \cup {k}
    BY <1>5, <2>1, <2>2, JobsAre DEF Replace
  <2>4. FollowsJob(k)
    <3>1. ASSUME NEW d \in j.todo, d # e, d[3] \in Once(prog[q]) PROVE d[3] # e[3]
      <4>1. d \in prog[q].order /\ e \in prog[q].order
        BY <1>1, <1>3, <1>4 DEF FollowsJob
      <4> QED BY <3>1, <4>1, OnceFacts DEF StartedOnce
    <3> QED BY <1>1, <1>3, <1>4, <2>2, <3>1 DEF FollowsJob
  <2>5. ASSUME NEW p \in Quest, NEW x, Starting(prog[p], k, p, x) PROVE Starting(prog[p], j, p, x)
    BY <1>1, <1>4, <2>2, <2>5 DEF Starting
  <2>6. Orderly(prog[q]) => Backed(q, e[3])
    <3> HIDE DEF Suits, Orderly, Backed, FollowsInv
    <3> QED BY <1>1, <1>3, <1>4, <1>5, WalkBacked
  <2>7. Goes(j, k)
    <3> HIDE DEF FollowsJob, Starting, Orderly, Backed
    <3> QED BY <1>1, <1>4, <2>2, <2>3, <2>4, <2>5, <2>6 DEF Goes
  <2> HIDE DEF Goes, IInv, StartInv, TypeOK
  <2> QED BY <2>7, GoStep
<1>6. CASE jobs' = WalkOn(j, j.todo \ {e})
  <2>1. PICK S \in SUBSET Edge : S = j.todo \ {e}
    BY <1>2
  <2>2. \A d \in S : d \in prog[j.mark[1]].order /\ d[1] = j.mark[2] /\ d[2] \in Follows(j.mark[3])
    BY <1>1, <1>3, <2>1 DEF FollowsJob
  <2>3. j.mark[2] \in Once(prog[j.mark[1]]) => j.mark \in marks \/ j.mark[2] \notin ops[j.mark[1]]
    BY <1>1, <1>3 DEF FollowsJob
  <2>4. S \subseteq j.todo
    BY <2>1
  <2> HIDE DEF IInv, StartInv, TypeOK, WalkOn, Follows
  <2> QED BY <1>1, <1>6, <2>1, <2>2, <2>3, <2>4, WalkKind
<1> QED BY <1>4, <1>5, <1>6

LEMMA StartNextStarts == ASSUME IInv, StartInv, TypeOK', NEW j \in jobs, StartNext(j) PROVE StartInv'
<1>1. j.on = "mark" /\ j.pc = "start" /\ UNCHANGED <<prog, quest, ops>>
  BY DEF StartNext
<1>2. j \in MarkJob /\ j.next \subseteq Op /\ j.mark[1] \in Quest
  BY <1>1, OfMark
<1>3. PICK p \in Quest : p = j.mark[1]
  BY <1>2
<1>4. PICK o \in j.next : /\ IF MarksOf(p, o) = {} THEN UNCHANGED marks
                             ELSE \E k \in MarksOf(p, o) : marks' = marks \ {k}
                          /\ Activate(p, o, WalkOn(j, j.todo))
  BY <1>3 DEF StartNext, EraseExecutedMark
<1>5. marks' \subseteq marks /\ \A k \in marks : k \in marks' \/ At(k, p, o)
  BY <1>4 DEF MarksOf, At
<1>6. PICK k : k = [j EXCEPT !.pc = "walk", !.todo = j.todo, !.next = {}]
  OBVIOUS
<1>7. k \in MarkJob /\ k.on = "mark" /\ k.mark = j.mark /\ k.pc = "walk" /\ k.todo = j.todo /\ k.next = {}
  BY <1>2, <1>6 DEF MarkJob
<1> DEFINE K == {k}
<1>8. PICK rest : rest = WalkOn(j, j.todo)
  OBVIOUS
<1>9. rest \subseteq (jobs \ {j}) \cup K /\ K \subseteq Jobs
  BY <1>6, <1>7, <1>8, JobsAre DEF WalkOn
<1>10. ~Fresh(j) /\ OfProcess(j, p) /\ Starting(prog[p], j, p, o)
  BY <1>1, <1>3 DEF Fresh, OfProcess, Starting
<1>11. PICK a \in ActiveArc : /\ At(a, p, o) /\ active' \subseteq active \cup {a}
                              /\ jobs' \subseteq (jobs \ {j}) \cup K \cup {Activated(a)}
  <2>1. CASE active' = active /\ jobs' = rest
    <3>1. PICK a : a = <<p, o, 1>>
      OBVIOUS
    <3>2. a \in ActiveArc /\ At(a, p, o)
      BY <1>2, <3>1, ScpAssumption DEF ActiveArc, At
    <3> QED BY <1>9, <2>1, <3>2
  <2>2. CASE \E a \in ActiveArc : a[1] = p /\ a[2] = o /\ active' = active \cup {a} /\ jobs' = rest \cup {Activated(a)}
    BY <1>9, <2>2 DEF At
  <2>3. o \in Op /\ Activate(p, o, rest) /\ TypeOK
    BY <1>2, <1>4, <1>8, InvParts
  <2> HIDE DEF Activate, TypeOK, Activated
  <2> QED BY <2>1, <2>2, <2>3, ActivateFacts
<1>12. FollowsJob(j)
  BY DEF StartInv, FollowsInv
<1>13. FollowsJob(k) /\ ~Fresh(k) /\ \A q \in Quest : OfProcess(k, q) => q = p
  BY <1>1, <1>3, <1>7, <1>12 DEF FollowsJob, Fresh, OfProcess
<1>14. ASSUME NEW q \in Quest, NEW x \in Once(prog[q]), Starting(prog[q], k, q, x)
       PROVE  Starting(prog[q], j, q, x) /\ ~(q = p /\ x = o)
  <2>1. PICK e \in j.todo : e[3] = x /\ q = p
    BY <1>3, <1>7, <1>14 DEF Starting
  <2>2. x \notin j.next
    BY <1>1, <1>3, <1>12, <1>14, <2>1 DEF FollowsJob
  <2> QED BY <1>1, <1>3, <1>4, <2>1, <2>2 DEF Starting
<1>15. Orderly(prog[p]) => Backed(p, o)
  <2> HIDE DEF Orderly, Backed
  <2> QED BY <1>1, <1>3 DEF StartInv, JoinInv
<1>16. Launches(j, p, o, K)
  <2>1. \A m, n \in K : m = n
    OBVIOUS
  <2>2. \A n \in K : /\ FollowsJob(n) /\ ~Fresh(n) /\ n.on \in {"initiated", "mark"} /\ (n.on = "mark" => n.pc # "start")
                     /\ \A q \in Quest : OfProcess(n, q) => q = p
                     /\ \A q \in Quest : \A x \in Once(prog[q]) : Starting(prog[q], n, q, x) =>
                          Starting(prog[q], j, q, x) /\ ~(q = p /\ x = o)
    <3> HIDE DEF FollowsJob, Fresh, OfProcess, Starting
    <3> QED BY <1>7, <1>13, <1>14
  <2>3. o \in Op
    BY <1>2
  <2> HIDE DEF K, FollowsJob, Fresh, OfProcess, Starting, At, Orderly, Backed, Activated
  <2> QED BY <1>1, <1>5, <1>9, <1>10, <1>11, <1>15, <2>1, <2>2, <2>3 DEF Launches
<1> HIDE DEF K, Launches, IInv, StartInv, TypeOK
<1> QED BY <1>16, LaunchStep

\* The job that erases a process goes on as k.
LEMMA UselessKind ==
  ASSUME IInv, StartInv, TypeOK', NEW k \in UselessJob, jobs' \subseteq jobs \cup {k},
         UNCHANGED <<prog, quest, ops, active, marks>>
  PROVE  StartInv'
<1> DEFINE N == {k}
<1>1. k.on = "useless" /\ k \in Jobs
  BY JobsAre DEF UselessJob
<1>2. /\ N \subseteq Jobs /\ jobs' \subseteq jobs \cup N /\ active' \subseteq active
      /\ \A n \in N : /\ n.on \notin {"initiated", "mark"}
                      /\ \A q \in Quest, o \in Op : OfOp(n, q, o) => Started(active, marks, jobs, q, o)
                      /\ \A q \in Quest, o \in Op : Working(n, q, o) => prog[q].type[o] \in WaitTypes
      /\ \A q \in Quest : quest[q] # "none" => quest'[q] # "none"
  BY <1>1 DEF OfOp, Working
<1> HIDE DEF N, IInv, StartInv, TypeOK, OfOp, Working, Started, WaitTypes
<1> QED BY <1>2, FadeKind

LEMMA FindParametersStarts == ASSUME IInv, StartInv, TypeOK', NEW j \in jobs, FindParameters(j) PROVE StartInv'
<1>1. j.on = "useless" /\ UNCHANGED <<prog, quest, proc, ops, live, value, active, marks>>
  BY DEF FindParameters
<1>2. PICK found \in BOOLEAN : found = (quest[j.quest] # "erased")
  OBVIOUS
<1>3. PICK k : k = [j EXCEPT !.pc = "load", !.found = found]
  OBVIOUS
<1>4. k \in UselessJob
  BY <1>1, <1>3, OfUseless DEF UselessJob
<1>5. jobs' \subseteq jobs \cup {k}
  BY <1>2, <1>3 DEF FindParameters, Replace
<1> HIDE DEF IInv, StartInv, TypeOK
<1> QED BY <1>1, <1>4, <1>5, UselessKind

LEMMA LoadParametersStarts == ASSUME IInv, StartInv, TypeOK', NEW j \in jobs, LoadParameters(j) PROVE StartInv'
<1>1. j.on = "useless" /\ UNCHANGED <<prog, quest, proc, ops, live, value, active, marks>>
  BY DEF LoadParameters
<1>2. j \in UselessJob /\ prog[j.quest].params \subseteq Var
  BY <1>1, OfUseless, InvParts, Programs
<1>3. PICK keep \in SUBSET Var : keep = IF j.found /\ quest[j.quest] # "erased" THEN prog[j.quest].params ELSE {}
  BY <1>2
<1>4. PICK k : k = [j EXCEPT !.pc = "erase", !.keep = keep]
  OBVIOUS
<1>5. k \in UselessJob
  BY <1>2, <1>4 DEF UselessJob
<1>6. jobs' \subseteq jobs \cup {k}
  BY <1>3, <1>4 DEF LoadParameters, Replace
<1> HIDE DEF IInv, StartInv, TypeOK
<1> QED BY <1>1, <1>5, <1>6, UselessKind

LEMMA EraseOperatorStarts ==
  ASSUME IInv, StartInv, TypeOK', NEW j \in jobs, NEW o \in Op, EraseOperator(j, o) PROVE StartInv'
<1>1. j.quest \in Quest
  BY OfUseless DEF EraseOperator
<1>2. /\ active' \subseteq active /\ marks' = marks \ MarksOf(j.quest, o) /\ UNCHANGED <<prog, quest, jobs>>
      /\ ops' = [ops EXCEPT ![j.quest] = @ \ {o}]
  BY DEF EraseOperator
<1>3. (\A q \in Quest : ops'[q] \subseteq ops[q]) /\ o \notin ops'[j.quest]
  BY <1>1, <1>2, InvParts DEF TypeOK
<1>4. Fades({})
  BY <1>2, <1>3 DEF Fades, MarksOf
<1> HIDE DEF Fades, IInv, StartInv, TypeOK
<1> QED BY <1>4, FadeStep

LEMMA EraseProcessStarts == ASSUME IInv, StartInv, TypeOK', NEW j \in jobs, EraseProcess(j) PROVE StartInv'
<1>1. /\ jobs' \subseteq jobs /\ UNCHANGED <<prog, ops, marks>> /\ active' \subseteq active
      /\ \A q \in Quest : quest[q] # "none" => quest'[q] # "none"
  BY DEF EraseProcess
<1> HIDE DEF IInv, StartInv, TypeOK
<1> QED BY <1>1, EndKind

-----------------------------------------------------------------------------
LEMMA InitStarts == Init => StartInv
<1> SUFFICES ASSUME Init PROVE StartInv
  OBVIOUS
<1>1. FreshInv /\ FollowsInv /\ JoinInv
  BY DEF Init, FreshInv, FollowsInv, JoinInv
<1>2. OnceInv
  BY DEF Init, OnceInv, OnceAt, Touched, Started
<1> QED BY <1>1, <1>2 DEF StartInv

LEMMA StutterStarts == IInv /\ StartInv /\ IInv' /\ UNCHANGED vars => StartInv'
<1> SUFFICES ASSUME IInv, StartInv, IInv', UNCHANGED vars PROVE StartInv'
  OBVIOUS
<1>1. /\ jobs' \subseteq jobs /\ UNCHANGED <<prog, ops, marks>> /\ active' \subseteq active
      /\ \A q \in Quest : quest[q] # "none" => quest'[q] # "none"
  BY DEF vars
<1>2. TypeOK'
  BY DEF IInv
<1> HIDE DEF IInv, StartInv, TypeOK
<1> QED BY <1>1, <1>2, EndKind

LEMMA NextStarts == IInv /\ StartInv /\ IInv' /\ Next => StartInv'
<1> SUFFICES ASSUME IInv, StartInv, IInv', Next PROVE StartInv'
  OBVIOUS
<1>0. TypeOK'
  BY DEF IInv
<1> HIDE DEF IInv, StartInv, TypeOK
<1>1. CASE \E q \in Quest : RunProgram(q)
  BY <1>0, <1>1, RunProgramStarts
<1>2. ASSUME NEW j \in jobs, Step(j) \/ EventOccurs(j) PROVE StartInv'
  <2>1. ASSUME CreateProcess(j) \/ StartInitial(j) PROVE StartInv'
    BY <1>0, <2>1, CreateProcessStarts, StartInitialStarts
  <2>2. ASSUME ArcGone(j) \/ ReadOperands(j) \/ (\E r \in Results : Work(j, r)) \/ IfVarAssign(j) PROVE StartInv'
    BY <1>0, <2>2, ArcGoneStarts, ReadOperandsStarts, WorkStarts, IfVarAssignStarts
  <2>3. ASSUME Return(j) \/ GiveUp(j) \/ Call(j) \/ Called(j) PROVE StartInv'
    BY <1>0, <2>3, ReturnStarts, GiveUpStarts, CallStarts, CalledStarts
  <2>4. ASSUME WaitReturn(j) \/ WaitCollects(j) \/ WaitReturnSet(j) \/ QuestionFinished(j) \/ FinishedCollects(j) PROVE StartInv'
    BY <1>0, <2>4, WaitReturnStarts, WaitCollectsStarts, WaitReturnSetStarts, QuestionFinishedStarts, FinishedCollectsStarts
  <2>5. ASSUME SysWait(j) \/ SysWaitProcessor(j) \/ EventOccurs(j) PROVE StartInv'
    BY <1>0, <2>5, SysWaitStarts, SysWaitProcessorStarts, EventOccursStarts
  <2>6. ASSUME MarkGone(j) \/ Syncronize(j) \/ Walk(j) \/ StartNext(j) PROVE StartInv'
    BY <1>0, <2>6, MarkGoneStarts, SyncronizeStarts, WalkStarts, StartNextStarts
  <2>7. ASSUME FindParameters(j) \/ LoadParameters(j) \/ (\E o \in Op : EraseOperator(j, o)) \/ EraseProcess(j) PROVE StartInv'
    BY <1>0, <2>7, FindParametersStarts, LoadParametersStarts, EraseOperatorStarts, EraseProcessStarts
  <2> QED BY <1>2, <2>1, <2>2, <2>3, <2>4, <2>5, <2>6, <2>7 DEF Step
<1> QED BY <1>1, <1>2 DEF Next

\* The invariant of starts, of any programs: there is nothing of a process before
\* it is created; an operator in Once is to be started, active, at work or
\* marked, and not twice, and only after the one before it; and what is started
\* behind a join whose predecessors are in Once has their marks.
THEOREM StartInvariance == Spec => []StartInv
<1>1. IInv /\ StartInv /\ IInv' /\ [Next]_vars => StartInv'
  BY NextStarts, StutterStarts
<1> QED BY InitStarts, ScpInvariance, <1>1, PTL DEF Spec

LEMMA StartImpliesJoin ==
  ASSUME TypeOK, StartInv, \A q \in Quest : Orderly(prog[q])
  PROVE  JoinWaits
<1> SUFFICES ASSUME NEW a \in active, NEW d \in prog[a[1]].order,
                    a[2] \in prog[a[1]].afterAll, d[3] = a[2], d[1] \in ops[a[1]]
             PROVE  \E k \in MarksOf(a[1], d[1]) : Satisfies(k[3], d[2])
  BY DEF JoinWaits
<1>1. a[1] \in Quest
  BY ArcParts DEF TypeOK
<1>2. Backed(a[1], a[2])
  <2> HIDE DEF Orderly, Backed
  <2> QED BY <1>1 DEF StartInv, JoinInv
<1> QED BY <1>2 DEF Backed

\* An operator that waits for all before it is active only when each of them
\* has been executed with the result that its arc asks for, for any programs in
\* which what is before a join is executed once.
THEOREM JoinWaitsHolds ==
  ASSUME \A s \in Systems, q \in Quest : Orderly(s[q])
  PROVE  Spec => []JoinWaits
<1>1. IInv /\ StartInv => JoinWaits
  <2> SUFFICES ASSUME IInv, StartInv PROVE JoinWaits
    OBVIOUS
  <2>1. TypeOK
    BY InvParts
  <2>2. \A q \in Quest : Orderly(prog[q])
    <3>1. prog \in Systems
      BY <2>1 DEF TypeOK
    <3> HIDE DEF Orderly
    <3> QED BY <3>1
  <2> HIDE DEF Orderly, TypeOK, StartInv
  <2> QED BY <2>1, <2>2, StartImpliesJoin
<1> QED BY ScpInvariance, StartInvariance, <1>1, PTL

-----------------------------------------------------------------------------
\* Variables.

Operands(q, o) == Fixed(q, o) \cup Assign(q, o)

\* Until the question is collected, all who erase a process know its parameters.
ListInv ==
  \A j \in jobs : j.on = "useless" /\ quest[j.quest] # "erased" =>
    /\ j.pc = "load" => j.found
    /\ j.pc = "erase" => j.found /\ j.keep = prog[j.quest].params

\* A variable of a process is there only while an operator has it.
OwnInv ==
  /\ \A q \in Quest : quest[q] # "erased" =>
       \A v \in prog[q].own \cap live : \E o \in ops[q] : v \in Operands(q, o)
  /\ \A q \in Quest : proc[q] = "gone" => ops[q] = {}

\* What a process has passed is there until the call is collected.
PassedInv ==
  \A p, q \in Quest : Sound(p) /\ quest[q] # "erased" =>
    prog[q].params \cap prog[p].own \subseteq live

\* An operator that is at work has erased the values of what it will assign.
ValueInv ==
  /\ \A v \in Var : value[v] <= 1
  /\ \A j \in jobs : j.on = "active" /\ j.pc = "body" =>
       \A v \in Assign(j.arc[1], j.arc[2]) : value[v] = 0

\* The invariant of variables.
VarInv == Tidy(prog) => ListInv /\ OwnInv /\ PassedInv /\ ValueInv

\* An operator at work assigns variables.
LEMMA AssignVars ==
  ASSUME TypeOK, NEW j \in jobs, j.on = "active", NEW v \in Assign(j.arc[1], j.arc[2])
  PROVE  j.arc[1] \in Quest /\ j.arc[2] \in Op /\ v \in Var
<1>1. j \in ActiveJob
  BY JobKinds DEF TypeOK
<1>2. j.arc[1] \in Quest /\ j.arc[2] \in Op
  BY <1>1, ArcParts DEF ActiveJob
<1> QED BY <1>2, Programs

\* What keeps each part of the invariant.
LEMMA ListKept ==
  ASSUME TypeOK', ListInv, prog' = prog, \A q \in Quest : quest'[q] # "erased" => quest[q] # "erased",
         \A j \in jobs' : j \in jobs \/ (j.on = "useless" => j.pc = "new")
  PROVE  ListInv'
<1>1. \A j \in jobs' : j.on = "useless" => j.quest \in Quest
  <2> SUFFICES ASSUME NEW j \in jobs', j.on = "useless" PROVE j.quest \in Quest
    OBVIOUS
  <2>1. j \in Jobs
    BY DEF TypeOK
  <2>2. j \in UselessJob
    BY <2>1, JobKinds
  <2> QED BY <2>2 DEF UselessJob
<1> QED BY <1>1 DEF ListInv

LEMMA OwnKept ==
  ASSUME OwnInv, UNCHANGED <<prog, proc, ops>>, live' \subseteq live,
         \A q \in Quest : quest'[q] # "erased" => quest[q] # "erased"
  PROVE  OwnInv'
<1>1. \A q, o : Operands(q, o)' = Operands(q, o)
  BY DEF Operands, Fixed, Assign
<1> QED BY <1>1 DEF OwnInv

LEMMA PassedKept ==
  ASSUME PassedInv, prog' = prog, \A p \in Quest : Sound(p)' => Sound(p),
         \A q \in Quest : prog[q].params \cap live \subseteq live',
         \A q \in Quest : quest'[q] # "erased" => quest[q] # "erased"
  PROVE  PassedInv'
<1> HIDE DEF Sound
<1> QED BY DEF PassedInv

LEMMA ValueKept ==
  ASSUME TypeOK, TypeOK', ValueInv, prog' = prog, \A v \in Var : value'[v] <= value[v],
         \A j \in jobs' : j \in jobs \/ (j.on = "active" => j.pc # "body")
  PROVE  ValueInv'
<1>1. value \in [Var -> Nat] /\ value' \in [Var -> Nat]
  BY DEF TypeOK
<1>2. \A v \in Var : value'[v] <= 1
  BY <1>1 DEF ValueInv
<1>3. ASSUME NEW j \in jobs', j.on = "active", j.pc = "body", NEW v \in Assign(j.arc[1], j.arc[2])' PROVE value'[v] = 0
  <2>1. j \in jobs /\ v \in Assign(j.arc[1], j.arc[2])
    BY <1>3 DEF Assign
  <2>2. value[v] = 0
    BY <1>3, <2>1 DEF ValueInv
  <2>3. v \in Var
    BY <1>3, <2>1, AssignVars
  <2> QED BY <1>1, <2>2, <2>3
<1> QED BY <1>2, <1>3 DEF ValueInv

\* Steps that neither begin nor end the erasing of a process, and assign nothing.
QuietJobs ==
  /\ \A j \in jobs' : j \in jobs \/ ((j.on = "useless" => j.pc = "new") /\ (j.on = "active" => j.pc # "body"))
  /\ \A j \in jobs : j.on = "useless" => j \in jobs'

QuietState ==
  /\ UNCHANGED <<prog, proc, ops>> /\ live' \subseteq live
  /\ Tidy(prog) => \A q \in Quest : prog[q].params \cap live \subseteq live'
  /\ \A q \in Quest : quest'[q] # "erased" => quest[q] # "erased"
  /\ \A v \in Var : value'[v] <= value[v]

LEMMA QuietVars == ASSUME TypeOK, TypeOK', VarInv, QuietJobs, QuietState PROVE VarInv'
<1> SUFFICES ASSUME Tidy(prog) PROVE (ListInv /\ OwnInv /\ PassedInv /\ ValueInv)'
  BY DEF VarInv, QuietState
<1>1. ListInv /\ OwnInv /\ PassedInv /\ ValueInv
  BY DEF VarInv
<1>2. /\ UNCHANGED <<prog, proc, ops>> /\ prog' = prog /\ proc' = proc /\ live' \subseteq live
      /\ \A q \in Quest : prog[q].params \cap live \subseteq live'
      /\ \A q \in Quest : quest'[q] # "erased" => quest[q] # "erased"
      /\ \A v \in Var : value'[v] <= value[v]
  BY DEF QuietState
<1>3. /\ \A j \in jobs' : j \in jobs \/ (j.on = "useless" => j.pc = "new")
      /\ \A j \in jobs' : j \in jobs \/ (j.on = "active" => j.pc # "body")
      /\ \A j \in jobs : j.on = "useless" => j \in jobs'
  BY DEF QuietJobs
<1>4. \A p \in Quest : Sound(p)' => Sound(p)
  BY <1>2, <1>3 DEF Sound
<1> HIDE DEF TypeOK, Sound, ListInv, OwnInv, PassedInv, ValueInv
<1> QED BY <1>1, <1>2, <1>3, <1>4, ListKept, OwnKept, PassedKept, ValueKept

-----------------------------------------------------------------------------
\* What the values of variables become.
LEMMA ErasedLess == ASSUME TypeOK, NEW S, value' = OneErased(S) PROVE \A v \in Var : value'[v] <= value[v]
BY DEF TypeOK, OneErased

LEMMA SameValues == ASSUME TypeOK, value' = value PROVE \A v \in Var : value'[v] <= value[v]
BY DEF TypeOK

\* An operator that goes on leaves the processes that are being erased alone.
LEMMA GotoQuiet ==
  ASSUME TypeOK, NEW j \in jobs, j.on # "useless", NEW q \in Quest, NEW o \in Op, NEW kind \in MarkKind,
         Goto(q, o, kind, jobs \ {j})
  PROVE  QuietJobs
<1> HIDE DEF Goto
<1>1. CASE jobs' = jobs \ {j}
  BY <1>1 DEF QuietJobs
<1>2. CASE \E k \in Mark : jobs' = (jobs \ {j}) \cup {Marked(k)}
  <2>1. PICK k \in Mark : jobs' = (jobs \ {j}) \cup {Marked(k)}
    BY <1>2
  <2>2. Marked(k).on = "mark"
    BY NewJobs
  <2> HIDE DEF Marked
  <2> QED BY <2>1, <2>2 DEF QuietJobs
<1> QED BY <1>1, <1>2, GotoFacts

\* So does one that ends its process.
LEMMA CrashQuiet ==
  ASSUME NEW j \in jobs, j.on # "useless", NEW q \in Quest,
         jobs \ {j} \subseteq jobs', jobs' \subseteq (jobs \ {j}) \cup Crash(q)
  PROVE  QuietJobs
<1>1. \A n \in Crash(q) : n.on = "useless" /\ n.pc = "new"
  BY DEF Crash, Useless
<1> HIDE DEF Crash
<1> QED BY <1>1 DEF QuietJobs

\* And one that is replaced by jobs that have not begun.
LEMMA PlainQuiet ==
  ASSUME NEW j \in jobs, j.on # "useless", NEW N, jobs \ {j} \subseteq jobs', jobs' \subseteq jobs \cup N,
         \A n \in N : n.on # "useless" /\ (n.on = "active" => n.pc # "body")
  PROVE  QuietJobs
BY DEF QuietJobs

-----------------------------------------------------------------------------
\* The actions.

LEMMA RunProgramVars == ASSUME IInv, TypeOK', VarInv, NEW q \in Quest, RunProgram(q) PROVE VarInv'
<1>1. /\ quest[q] = "none" /\ quest' = [quest EXCEPT ![q] = "open"] /\ jobs' = jobs \cup {Asked(q)}
      /\ UNCHANGED <<prog, proc, ops, live, value>>
  BY DEF RunProgram
<1>2. TypeOK
  BY InvParts
<1>3. QuietJobs
  <2>1. Asked(q).on = "initiated"
    BY NewJobs
  <2> HIDE DEF Asked
  <2> QED BY <1>1, <2>1 DEF QuietJobs
<1>4. QuietState
  <2>1. \A v \in Var : value'[v] <= value[v]
    BY <1>1, <1>2, SameValues
  <2>2. \A p \in Quest : quest'[p] # "erased" => quest[p] # "erased"
    BY <1>1, <1>2 DEF TypeOK
  <2> QED BY <1>1, <2>1, <2>2 DEF QuietState
<1> HIDE DEF TypeOK, VarInv, QuietJobs, QuietState
<1> QED BY <1>2, <1>3, <1>4, QuietVars

\* Steps that change arcs, marks and jobs only.
LEMMA JobsOnly ==
  ASSUME IInv, TypeOK', VarInv, QuietJobs, UNCHANGED <<prog, quest, proc, ops, live, value>>
  PROVE  VarInv'
<1>1. TypeOK
  BY InvParts
<1>2. QuietState
  <2>1. \A v \in Var : value'[v] <= value[v]
    BY <1>1, SameValues
  <2> QED BY <2>1 DEF QuietState
<1> HIDE DEF TypeOK, VarInv, QuietJobs, QuietState
<1> QED BY <1>1, <1>2, QuietVars

LEMMA StartInitialVars == ASSUME IInv, TypeOK', VarInv, NEW j \in jobs, StartInitial(j) PROVE VarInv'
<1>1. j.on = "initiated" /\ j.pc = "init" /\ UNCHANGED <<prog, quest, proc, ops, live, value>>
  BY DEF StartInitial
<1>2. TypeOK
  BY InvParts
<1>3. j \in InitiatedJob
  BY <1>1, <1>2, JobKinds DEF TypeOK
<1>4. j.quest \in Quest /\ j.todo \subseteq Op
  BY <1>3 DEF InitiatedJob
<1>5. ASSUME NEW o \in j.todo, NEW left, left = j.todo \ {o}, NEW k, k = [j EXCEPT !.todo = left],
             Activate(j.quest, o, IF left = {} THEN jobs \ {j} ELSE (jobs \ {j}) \cup {k})
      PROVE  QuietJobs
  <2>1. PICK rest : rest = IF left = {} THEN jobs \ {j} ELSE (jobs \ {j}) \cup {k}
    OBVIOUS
  <2>2. Activate(j.quest, o, rest)
    BY <1>5, <2>1
  <2>3. jobs' = rest \/ \E a \in ActiveArc : jobs' = rest \cup {Activated(a)}
    <3> HIDE DEF Activate
    <3> QED BY <1>2, <1>4, <2>2, ActivateFacts
  <2>4. k.on = "initiated"
    BY <1>3, <1>5 DEF InitiatedJob
  <2>5. \A a \in ActiveArc : Activated(a).on = "active" /\ Activated(a).pc = "new"
    BY NewJobs
  <2>6. jobs \ {j} \subseteq rest /\ rest \subseteq jobs \cup {k}
    BY <2>1
  <2> HIDE DEF Activated
  <2>7. CASE jobs' = rest
    BY <1>1, <2>4, <2>6, <2>7 DEF QuietJobs
  <2>8. ASSUME NEW a \in ActiveArc, jobs' = rest \cup {Activated(a)} PROVE QuietJobs
    BY <1>1, <2>4, <2>5, <2>6, <2>8 DEF QuietJobs
  <2> QED BY <2>3, <2>7, <2>8
<1>6. ASSUME \E o \in j.todo :
               LET rest == jobs \ {j}
                   left == j.todo \ {o}
               IN Activate(j.quest, o, IF left = {} THEN rest ELSE rest \cup {[j EXCEPT !.todo = left]})
      PROVE  QuietJobs
  <2>1. PICK o \in j.todo : Activate(j.quest, o, IF j.todo \ {o} = {} THEN jobs \ {j}
                                                 ELSE (jobs \ {j}) \cup {[j EXCEPT !.todo = j.todo \ {o}]})
    BY <1>6
  <2>2. PICK left : left = j.todo \ {o}
    OBVIOUS
  <2>3. PICK k : k = [j EXCEPT !.todo = left]
    OBVIOUS
  <2>4. Activate(j.quest, o, IF left = {} THEN jobs \ {j} ELSE (jobs \ {j}) \cup {k})
    BY <2>1, <2>2, <2>3
  <2> HIDE DEF Activate, QuietJobs
  <2> QED BY <1>5, <2>2, <2>3, <2>4
<1>7. ASSUME jobs' = (jobs \ {j}) \cup {Useless(j.quest)} PROVE QuietJobs
  <2>1. Useless(j.quest).on = "useless" /\ Useless(j.quest).pc = "new"
    BY DEF Useless
  <2> HIDE DEF Useless
  <2> QED BY <1>1, <1>7, <2>1 DEF QuietJobs
<1>8. QuietJobs
  <2> HIDE DEF QuietJobs, Activate, Useless
  <2> QED BY <1>6, <1>7 DEF StartInitial
<1> HIDE DEF IInv, TypeOK, VarInv, QuietJobs
<1> QED BY <1>1, <1>8, JobsOnly

LEMMA ArcGoneVars == ASSUME IInv, TypeOK', VarInv, NEW j \in jobs, ArcGone(j) PROVE VarInv'
<1>1. j.on = "active" /\ jobs' = jobs \ {j} /\ UNCHANGED <<prog, quest, proc, ops, live, value>>
  BY DEF ArcGone
<1>2. QuietJobs
  BY <1>1 DEF QuietJobs
<1> HIDE DEF IInv, TypeOK, VarInv, QuietJobs
<1> QED BY <1>1, <1>2, JobsOnly

LEMMA GiveUpVars == ASSUME IInv, TypeOK', VarInv, NEW j \in jobs, GiveUp(j) PROVE VarInv'
<1>1. j.on = "active" /\ j.pc = "returned" /\ UNCHANGED <<prog, quest, proc, ops, live, value>>
  BY DEF GiveUp
<1>2. PICK q : q = j.arc[1]
  OBVIOUS
<1>3. q \in Quest
  BY <1>1, <1>2, AtWork
<1>4. jobs \ {j} \subseteq jobs' /\ jobs' \subseteq (jobs \ {j}) \cup Crash(q)
  <2> HIDE DEF Crash
  <2> QED BY <1>2 DEF GiveUp
<1>5. QuietJobs
  <2> HIDE DEF Crash, QuietJobs
  <2> QED BY <1>1, <1>3, <1>4, CrashQuiet
<1> HIDE DEF IInv, TypeOK, VarInv, QuietJobs
<1> QED BY <1>1, <1>5, JobsOnly

LEMMA CalledVars == ASSUME IInv, TypeOK', VarInv, NEW j \in jobs, Called(j) PROVE VarInv'
<1>1. j.on = "active" /\ j.pc # "new" /\ UNCHANGED <<prog, quest, proc, ops, live, value>>
  BY DEF Called
<1>2. PICK q, o : q = j.arc[1] /\ o = j.arc[2]
  OBVIOUS
<1>3. q \in Quest /\ o \in Op
  BY <1>1, <1>2, AtWork
<1>4. PICK kind \in MarkKind : Goto(q, o, kind, jobs \ {j})
  BY <1>2 DEF Called, MarkKind
<1>5. QuietJobs
  <2> HIDE DEF Goto, QuietJobs, TypeOK
  <2> QED BY <1>1, <1>3, <1>4, InvParts, GotoQuiet
<1> HIDE DEF IInv, TypeOK, VarInv, QuietJobs
<1> QED BY <1>1, <1>5, JobsOnly

LEMMA IfVarAssignVars == ASSUME IInv, TypeOK', VarInv, NEW j \in jobs, IfVarAssign(j) PROVE VarInv'
<1>1. PICK q \in Quest, o \in Op :
        /\ Starts(j, q, o, {"ifVarAssign"})
        /\ value' = OneErased(Assign(q, o))
        /\ Goto(q, o, IF \A v \in Fixed(q, o) \cup Assign(q, o) : v \in live /\ value[v] > 0
                      THEN "success" ELSE "unsuccess", jobs \ {j})
        /\ UNCHANGED <<prog, quest, proc, ops, live>>
  BY DEF IfVarAssign
<1>2. PICK kind : kind = IF \A v \in Fixed(q, o) \cup Assign(q, o) : v \in live /\ value[v] > 0
                         THEN "success" ELSE "unsuccess"
  OBVIOUS
<1>3. kind \in MarkKind /\ Goto(q, o, kind, jobs \ {j})
  <2>1. kind \in MarkKind
    BY <1>2 DEF MarkKind
  <2> QED BY <1>1, <1>2, <2>1
<1>4. j.on = "active" /\ TypeOK
  BY <1>1, InvParts DEF Starts
<1>5. QuietJobs
  <2> HIDE DEF Goto, QuietJobs, TypeOK
  <2> QED BY <1>3, <1>4, GotoQuiet
<1>6. QuietState
  <2>1. \A v \in Var : value'[v] <= value[v]
    <3> HIDE DEF OneErased, TypeOK
    <3> QED BY <1>1, <1>4, ErasedLess
  <2> QED BY <1>1, <2>1 DEF QuietState
<1> HIDE DEF TypeOK, VarInv, QuietJobs, QuietState
<1> QED BY <1>4, <1>5, <1>6, QuietVars

LEMMA ReturnVars == ASSUME IInv, TypeOK', VarInv, NEW j \in jobs, Return(j) PROVE VarInv'
<1>1. PICK q \in Quest, o \in Op :
        /\ Starts(j, q, o, {"return"})
        /\ IF quest[q] = "erased"
           THEN /\ jobs' = Replace(j, [j EXCEPT !.pc = "returned"])
                /\ UNCHANGED quest
           ELSE /\ jobs' = Replace(j, [j EXCEPT !.pc = "returned"]) \cup {Finished(q)}
                /\ quest' = [quest EXCEPT ![q] = "finished"]
        /\ UNCHANGED <<prog, proc, ops, live, value>>
  BY DEF Return
<1>2. j \in Jobs /\ j.on = "active" /\ TypeOK
  BY <1>1, InvParts DEF Starts, TypeOK
<1>3. PICK k : k = [j EXCEPT !.pc = "returned"]
  OBVIOUS
<1>4. k.on = "active" /\ k.pc = "returned"
  BY <1>2, <1>3, ActiveGoes
<1> DEFINE N == {k, Finished(q)}
<1>5. \A n \in N : n.on # "useless" /\ (n.on = "active" => n.pc # "body")
  <2>1. Finished(q).on = "finished"
    BY NewJobs
  <2> HIDE DEF Finished
  <2> QED BY <1>4, <2>1
<1>6. jobs \ {j} \subseteq jobs' /\ jobs' \subseteq jobs \cup N
  <2> HIDE DEF Finished
  <2> QED BY <1>1, <1>3 DEF Replace
<1>7. QuietJobs
  <2> HIDE DEF N, QuietJobs
  <2> QED BY <1>2, <1>5, <1>6, PlainQuiet
<1>8. QuietState
  <2>1. \A v \in Var : value'[v] <= value[v]
    BY <1>1, <1>2, SameValues
  <2>2. \A p \in Quest : quest'[p] # "erased" => quest[p] # "erased"
    BY <1>1, <1>2 DEF TypeOK
  <2> QED BY <1>1, <2>1, <2>2 DEF QuietState
<1> HIDE DEF TypeOK, VarInv, QuietJobs, QuietState, N
<1> QED BY <1>2, <1>7, <1>8, QuietVars

LEMMA CallVars == ASSUME IInv, TypeOK', VarInv, NEW j \in jobs, Call(j) PROVE VarInv'
<1>1. PICK q \in Quest, o \in Op :
        /\ Starts(j, q, o, {"call"})
        /\ \E S : value' = OneErased(S)
        /\ \E c \in prog[q].waits[o] :
             /\ quest[c] = "none"
             /\ IF NoValue(q, o) = {}
                THEN /\ quest' = [quest EXCEPT ![c] = "open"]
                     /\ jobs' = Replace(j, [j EXCEPT !.pc = "called"]) \cup {Asked(c)}
                ELSE /\ jobs' = (jobs \ {j}) \cup Crash(q)
                     /\ UNCHANGED quest
        /\ UNCHANGED <<prog, proc, ops, live>>
  BY DEF Call
<1>2. j \in Jobs /\ j.on = "active" /\ TypeOK
  BY <1>1, InvParts DEF Starts, TypeOK
<1>3. PICK c \in Quest :
        /\ quest[c] = "none"
        /\ \/ /\ quest' = [quest EXCEPT ![c] = "open"]
              /\ jobs' = Replace(j, [j EXCEPT !.pc = "called"]) \cup {Asked(c)}
           \/ /\ jobs' = (jobs \ {j}) \cup Crash(q)
              /\ UNCHANGED quest
  <2>1. prog[q].waits[o] \subseteq Quest
    BY <1>2, Programs
  <2> HIDE DEF NoValue, Crash, Asked
  <2> QED BY <1>1, <2>1
<1>4. QuietJobs
  <2>1. CASE jobs' = (jobs \ {j}) \cup Crash(q)
    <3> HIDE DEF Crash, QuietJobs
    <3> QED BY <1>2, <2>1, CrashQuiet
  <2>2. CASE jobs' = Replace(j, [j EXCEPT !.pc = "called"]) \cup {Asked(c)}
    <3>1. PICK k : k = [j EXCEPT !.pc = "called"]
      OBVIOUS
    <3>2. k.on = "active" /\ k.pc = "called"
      BY <1>2, <3>1, ActiveGoes
    <3> DEFINE N == {k, Asked(c)}
    <3>3. \A n \in N : n.on # "useless" /\ (n.on = "active" => n.pc # "body")
      <4>1. Asked(c).on = "initiated"
        BY NewJobs
      <4> HIDE DEF Asked
      <4> QED BY <3>2, <4>1
    <3>4. jobs \ {j} \subseteq jobs' /\ jobs' \subseteq jobs \cup N
      <4> HIDE DEF Asked
      <4> QED BY <2>2, <3>1 DEF Replace
    <3> HIDE DEF N, QuietJobs
    <3> QED BY <1>2, <3>3, <3>4, PlainQuiet
  <2> HIDE DEF Crash, Asked, QuietJobs
  <2> QED BY <1>3, <2>1, <2>2
<1>5. QuietState
  <2>1. \A v \in Var : value'[v] <= value[v]
    <3> HIDE DEF TypeOK, OneErased
    <3> QED BY <1>1, <1>2, ErasedLess
  <2>2. \A p \in Quest : quest'[p] # "erased" => quest[p] # "erased"
    BY <1>2, <1>3 DEF TypeOK
  <2> QED BY <1>1, <2>1, <2>2 DEF QuietState
<1> HIDE DEF TypeOK, VarInv, QuietJobs, QuietState
<1> QED BY <1>2, <1>4, <1>5, QuietVars

\* The job of an operator that waits, or of a mark, goes on as k.
LEMMA GoesQuiet ==
  ASSUME NEW j \in jobs, j.on # "useless", NEW k, k.on # "useless", k.on = "active" => k.pc # "body",
         jobs' \subseteq jobs \cup {k}, jobs \ {j} \subseteq jobs'
  PROVE  QuietJobs
BY DEF QuietJobs

LEMMA WaitReturnVars == ASSUME IInv, TypeOK', VarInv, NEW j \in jobs, WaitReturn(j) PROVE VarInv'
<1>1. j.on = "active" /\ UNCHANGED <<prog, quest, proc, ops, live, value>>
  BY DEF WaitReturn, Starts
<1>2. j \in Jobs
  BY InvParts DEF TypeOK
<1>3. PICK k : k = [j EXCEPT !.pc = "collect"]
  OBVIOUS
<1>4. k.on = "active" /\ k.pc = "collect"
  BY <1>1, <1>2, <1>3, ActiveGoes
<1>5. jobs' \subseteq jobs \cup {k} /\ jobs \ {j} \subseteq jobs'
  BY <1>3 DEF WaitReturn, Replace
<1>6. QuietJobs
  BY <1>1, <1>4, <1>5, GoesQuiet
<1> HIDE DEF IInv, TypeOK, VarInv, QuietJobs
<1> QED BY <1>1, <1>6, JobsOnly

\* Questions that are erased stay so.
LEMMA CollectVars ==
  ASSUME IInv, TypeOK', VarInv, NEW j \in jobs, j.on # "useless", NEW a \in ActiveArc, NEW S, Collect(j, a, S)
  PROVE  VarInv'
<1>1. /\ UNCHANGED <<prog, proc, ops, live, value>> /\ Goto(a[1], a[2], "executed", jobs \ {j})
      /\ quest' = [c \in Quest |-> IF c \in S THEN "erased" ELSE quest[c]]
  BY DEF Collect
<1>2. TypeOK
  BY InvParts
<1>3. PICK q \in Quest, o \in Op, kind \in MarkKind : Goto(q, o, kind, jobs \ {j})
  <2>1. a[1] \in Quest /\ a[2] \in Op /\ "executed" \in MarkKind
    BY ArcParts DEF MarkKind
  <2> HIDE DEF Goto
  <2> QED BY <1>1, <2>1
<1>4. QuietJobs
  <2> HIDE DEF Goto, QuietJobs, TypeOK
  <2> QED BY <1>2, <1>3, GotoQuiet
<1>5. QuietState
  <2>1. \A v \in Var : value'[v] <= value[v]
    BY <1>1, <1>2, SameValues
  <2>2. \A p \in Quest : quest'[p] # "erased" => quest[p] # "erased"
    BY <1>1
  <2> QED BY <1>1, <2>1, <2>2 DEF QuietState
<1> HIDE DEF TypeOK, VarInv, QuietJobs, QuietState
<1> QED BY <1>2, <1>4, <1>5, QuietVars

LEMMA WaitCollectsVars == ASSUME IInv, TypeOK', VarInv, NEW j \in jobs, WaitCollects(j) PROVE VarInv'
<1>1. PICK S : j.on = "active" /\ j.pc = "collect" /\ Collect(j, j.arc, S)
  BY DEF WaitCollects
<1>2. PICK a \in ActiveArc : a = j.arc
  BY <1>1, AtWork
<1>3. Collect(j, a, S)
  BY <1>1, <1>2
<1> HIDE DEF IInv, TypeOK, VarInv, Collect
<1> QED BY <1>1, <1>3, CollectVars

LEMMA WaitReturnSetVars == ASSUME IInv, TypeOK', VarInv, NEW j \in jobs, WaitReturnSet(j) PROVE VarInv'
<1>1. PICK q \in Quest, o \in Op :
        /\ Starts(j, q, o, {"waitReturnSet"})
        /\ live' = live \ Fixed(q, o)
        /\ Goto(q, o, "executed", jobs \ {j})
        /\ UNCHANGED <<prog, quest, proc, ops, value>>
  BY DEF WaitReturnSet
<1>2. TypeOK /\ j.on = "active" /\ prog[q].type[o] = "waitReturnSet"
  BY <1>1, InvParts DEF Starts
<1>3. PICK kind \in MarkKind : Goto(q, o, kind, jobs \ {j})
  BY <1>1 DEF MarkKind
<1>4. QuietJobs
  <2> HIDE DEF Goto, QuietJobs, TypeOK
  <2> QED BY <1>2, <1>3, GotoQuiet
<1>5. Tidy(prog) => \A p \in Quest : prog[p].params \cap live \subseteq live'
  BY <1>1, <1>2 DEF Tidy, Fixed
<1>6. QuietState
  <2>1. \A v \in Var : value'[v] <= value[v]
    BY <1>1, <1>2, SameValues
  <2> HIDE DEF Tidy
  <2> QED BY <1>1, <1>5, <2>1 DEF QuietState
<1> HIDE DEF TypeOK, VarInv, QuietJobs, QuietState
<1> QED BY <1>2, <1>4, <1>6, QuietVars

LEMMA QuestionFinishedVars == ASSUME IInv, TypeOK', VarInv, NEW j \in jobs, QuestionFinished(j) PROVE VarInv'
<1>1. j.on = "finished" /\ UNCHANGED <<prog, quest, proc, ops, live, value>>
  BY DEF QuestionFinished
<1>2. j \in FinishedJob
  BY <1>1, JobKinds, InvParts DEF TypeOK
<1>3. ASSUME NEW a, jobs' = Replace(j, [j EXCEPT !.pc = "collect", !.waiter = {a}]) PROVE QuietJobs
  <2>1. PICK k : k = [j EXCEPT !.pc = "collect", !.waiter = {a}]
    OBVIOUS
  <2>2. k.on = "finished"
    BY <1>2, <2>1 DEF FinishedJob
  <2>3. jobs' \subseteq jobs \cup {k} /\ jobs \ {j} \subseteq jobs'
    BY <1>3, <2>1 DEF Replace
  <2> QED BY <1>1, <2>2, <2>3, GoesQuiet
<1>4. ASSUME jobs' = jobs \ {j} PROVE QuietJobs
  BY <1>1, <1>4 DEF QuietJobs
<1>5. QuietJobs
  <2> HIDE DEF QuietJobs, Waiting
  <2> QED BY <1>3, <1>4 DEF QuestionFinished
<1> HIDE DEF IInv, TypeOK, VarInv, QuietJobs
<1> QED BY <1>1, <1>5, JobsOnly

LEMMA FinishedCollectsVars == ASSUME IInv, TypeOK', VarInv, NEW j \in jobs, FinishedCollects(j) PROVE VarInv'
<1>1. PICK a \in j.waiter :
        \/ Collect(j, a, {j.quest})
        \/ /\ quest' = [quest EXCEPT ![j.quest] = "erased"]
           /\ jobs' = jobs \ {j}
           /\ UNCHANGED <<prog, proc, ops, live, value>>
  <2> HIDE DEF Collect
  <2> QED BY DEF FinishedCollects
<1>2. j.on = "finished" /\ j.quest \in Quest /\ a \in ActiveArc /\ TypeOK
  <2>1. j \in FinishedJob
    BY JobKinds, InvParts DEF TypeOK, FinishedCollects
  <2> QED BY <2>1, InvParts DEF FinishedJob
<1>3. CASE Collect(j, a, {j.quest})
  <2>1. PICK S : Collect(j, a, S)
    BY <1>3
  <2> HIDE DEF IInv, TypeOK, VarInv, Collect
  <2> QED BY <1>2, <2>1, CollectVars
<1>4. CASE /\ quest' = [quest EXCEPT ![j.quest] = "erased"]
           /\ jobs' = jobs \ {j}
           /\ UNCHANGED <<prog, proc, ops, live, value>>
  <2>1. QuietJobs
    BY <1>2, <1>4 DEF QuietJobs
  <2>2. QuietState
    <3>1. \A v \in Var : value'[v] <= value[v]
      BY <1>2, <1>4, SameValues
    <3>2. \A p \in Quest : quest'[p] # "erased" => quest[p] # "erased"
      BY <1>2, <1>4 DEF TypeOK
    <3> QED BY <1>4, <3>1, <3>2 DEF QuietState
  <2> HIDE DEF TypeOK, VarInv, QuietJobs, QuietState
  <2> QED BY <1>2, <2>1, <2>2, QuietVars
<1> QED BY <1>1, <1>3, <1>4

LEMMA SysWaitVars == ASSUME IInv, TypeOK', VarInv, NEW j \in jobs, SysWait(j) PROVE VarInv'
<1>1. PICK q \in Quest, o \in Op :
        /\ Starts(j, q, o, {"sys_wait"})
        /\ jobs' \in {jobs \ {j}, Replace(j, [on |-> "waits", arc |-> j.arc])}
        /\ value' = OneErased(Assign(q, o))
        /\ UNCHANGED <<prog, quest, proc, ops, live>>
  BY DEF SysWait
<1>2. TypeOK /\ j.on = "active"
  BY <1>1, InvParts DEF Starts
<1>3. PICK k : k = [on |-> "waits", arc |-> j.arc]
  OBVIOUS
<1>4. k.on = "waits"
  BY <1>3
<1>5. jobs' \subseteq jobs \cup {k} /\ jobs \ {j} \subseteq jobs'
  BY <1>1, <1>3 DEF Replace
<1>6. QuietJobs
  BY <1>2, <1>4, <1>5, GoesQuiet
<1>7. QuietState
  <2>1. \A v \in Var : value'[v] <= value[v]
    <3> HIDE DEF OneErased, TypeOK
    <3> QED BY <1>1, <1>2, ErasedLess
  <2> QED BY <1>1, <2>1 DEF QuietState
<1> HIDE DEF TypeOK, VarInv, QuietJobs, QuietState
<1> QED BY <1>2, <1>6, <1>7, QuietVars

LEMMA EventOccursVars == ASSUME IInv, TypeOK', VarInv, NEW j \in jobs, EventOccurs(j) PROVE VarInv'
<1>1. j.on = "waits" /\ UNCHANGED <<prog, quest, proc, ops, live, value>>
  BY DEF EventOccurs
<1>2. PICK n \in 1..MaxArcs : jobs' = jobs \cup {[on |-> "event", arc |-> j.arc, pc |-> "new", n |-> n]}
  BY DEF EventOccurs
<1>3. PICK k : k = [on |-> "event", arc |-> j.arc, pc |-> "new", n |-> n]
  OBVIOUS
<1>4. k.on = "event"
  BY <1>3
<1>5. jobs' \subseteq jobs \cup {k} /\ jobs \ {j} \subseteq jobs'
  BY <1>2, <1>3
<1>6. QuietJobs
  BY <1>1, <1>4, <1>5, GoesQuiet
<1> HIDE DEF IInv, TypeOK, VarInv, QuietJobs
<1> QED BY <1>1, <1>6, JobsOnly

LEMMA SysWaitProcessorVars == ASSUME IInv, TypeOK', VarInv, NEW j \in jobs, SysWaitProcessor(j) PROVE VarInv'
<1>1. j.on \in {"waits", "event"} /\ j.on = "event" /\ UNCHANGED <<prog, quest, proc, ops, live, value>>
  BY DEF SysWaitProcessor
<1>2. j \in Jobs /\ j.arc \in ActiveArc /\ TypeOK
  BY <1>1, OfSysWait, InvParts
<1>3. \/ jobs' = Replace(j, [j EXCEPT !.pc = "destroy"]) \ {[on |-> "waits", arc |-> j.arc]}
      \/ Goto(j.arc[1], j.arc[2], "executed", jobs \ {j})
      \/ jobs' = jobs \ {j}
  <2> HIDE DEF Goto, Replace
  <2> QED BY DEF SysWaitProcessor
<1>4. ASSUME jobs' = Replace(j, [j EXCEPT !.pc = "destroy"]) \ {[on |-> "waits", arc |-> j.arc]} PROVE QuietJobs
  <2>1. PICK k, s : k = [j EXCEPT !.pc = "destroy"] /\ s = [on |-> "waits", arc |-> j.arc]
    OBVIOUS
  <2>2. j \in EventJob
    BY <1>1, <1>2, JobKinds
  <2>3. k.on = "event" /\ s.on = "waits"
    BY <2>1, <2>2 DEF EventJob
  <2>4. jobs' = ((jobs \ {j}) \cup {k}) \ {s}
    BY <1>4, <2>1 DEF Replace
  <2> QED BY <1>1, <2>3, <2>4 DEF QuietJobs
<1>5. ASSUME Goto(j.arc[1], j.arc[2], "executed", jobs \ {j}) PROVE QuietJobs
  <2>1. PICK q \in Quest, o \in Op, kind \in MarkKind : Goto(q, o, kind, jobs \ {j})
    <3>1. j.arc[1] \in Quest /\ j.arc[2] \in Op /\ "executed" \in MarkKind
      BY <1>2, ArcParts DEF MarkKind
    <3> HIDE DEF Goto
    <3> QED BY <1>5, <3>1
  <2> HIDE DEF Goto, QuietJobs, TypeOK
  <2> QED BY <1>1, <1>2, <2>1, GotoQuiet
<1>6. ASSUME jobs' = jobs \ {j} PROVE QuietJobs
  BY <1>1, <1>6 DEF QuietJobs
<1> HIDE DEF IInv, TypeOK, VarInv, QuietJobs, Goto, Replace
<1> QED BY <1>1, <1>3, <1>4, <1>5, <1>6, JobsOnly

LEMMA MarkGoneVars == ASSUME IInv, TypeOK', VarInv, NEW j \in jobs, MarkGone(j) PROVE VarInv'
<1>1. j.on = "mark" /\ jobs' = jobs \ {j} /\ UNCHANGED <<prog, quest, proc, ops, live, value>>
  BY DEF MarkGone
<1>2. QuietJobs
  BY <1>1 DEF QuietJobs
<1> HIDE DEF IInv, TypeOK, VarInv, QuietJobs
<1> QED BY <1>1, <1>2, JobsOnly

LEMMA WalkOnFacts ==
  ASSUME IInv, NEW j \in jobs, j.on = "mark", NEW S \in SUBSET Edge
  PROVE  \E k : k.on = "mark" /\ WalkOn(j, S) \subseteq jobs \cup {k} /\ jobs \ {j} \subseteq WalkOn(j, S)
<1>1. PICK k : k = [j EXCEPT !.pc = "walk", !.todo = S, !.next = {}]
  OBVIOUS
<1>2. k.on = "mark"
  <2>1. j \in MarkJob
    BY OfMark
  <2> QED BY <1>1, <2>1 DEF MarkJob
<1>3. WalkOn(j, S) \subseteq jobs \cup {k} /\ jobs \ {j} \subseteq WalkOn(j, S)
  BY <1>1 DEF WalkOn
<1> QED BY <1>2, <1>3

LEMMA SyncronizeVars == ASSUME IInv, TypeOK', VarInv, NEW j \in jobs, Syncronize(j) PROVE VarInv'
<1>1. j.on = "mark" /\ UNCHANGED <<prog, quest, proc, ops, live, value>>
  BY DEF Syncronize
<1>2. PICK S : S = Behind(j.mark[1], j.mark[2], j.mark[3])
  OBVIOUS
<1>3. S \in SUBSET Edge
  <2>1. j.mark[1] \in Quest
    BY <1>1, OfMark
  <2> QED BY <1>2, <2>1, InvParts, Programs DEF Behind
<1>4. jobs' = WalkOn(j, S)
  BY <1>2 DEF Syncronize
<1>5. PICK k : k.on = "mark" /\ WalkOn(j, S) \subseteq jobs \cup {k} /\ jobs \ {j} \subseteq WalkOn(j, S)
  BY <1>1, <1>3, WalkOnFacts
<1>6. QuietJobs
  <2> HIDE DEF WalkOn
  <2> QED BY <1>1, <1>4, <1>5, GoesQuiet
<1> HIDE DEF IInv, TypeOK, VarInv, QuietJobs
<1> QED BY <1>1, <1>6, JobsOnly

LEMMA WalkVars == ASSUME IInv, TypeOK', VarInv, NEW j \in jobs, Walk(j) PROVE VarInv'
<1>1. j.on = "mark" /\ UNCHANGED <<prog, quest, proc, ops, live, value>>
  BY DEF Walk
<1>2. j \in MarkJob /\ j.todo \subseteq Edge
  BY <1>1, OfMark
<1>3. PICK e : \/ jobs' = Replace(j, [j EXCEPT !.pc = "start", !.todo = @ \ {e}, !.next = {e[3]}])
               \/ jobs' = WalkOn(j, j.todo \ {e})
  <2> HIDE DEF WalkOn, Replace, IsActive, Suits, Refuses
  <2> QED BY DEF Walk
<1>4. ASSUME jobs' = Replace(j, [j EXCEPT !.pc = "start", !.todo = @ \ {e}, !.next = {e[3]}]) PROVE QuietJobs
  <2>1. PICK k : k = [j EXCEPT !.pc = "start", !.todo = @ \ {e}, !.next = {e[3]}]
    OBVIOUS
  <2>2. k.on = "mark"
    BY <1>2, <2>1 DEF MarkJob
  <2>3. jobs' \subseteq jobs \cup {k} /\ jobs \ {j} \subseteq jobs'
    BY <1>4, <2>1 DEF Replace
  <2> QED BY <1>1, <2>2, <2>3, GoesQuiet
<1>5. ASSUME jobs' = WalkOn(j, j.todo \ {e}) PROVE QuietJobs
  <2>1. PICK S \in SUBSET Edge : S = j.todo \ {e}
    BY <1>2
  <2>2. PICK k : k.on = "mark" /\ WalkOn(j, S) \subseteq jobs \cup {k} /\ jobs \ {j} \subseteq WalkOn(j, S)
    BY <1>1, WalkOnFacts
  <2> HIDE DEF WalkOn
  <2> QED BY <1>1, <1>5, <2>1, <2>2, GoesQuiet
<1> HIDE DEF IInv, TypeOK, VarInv, QuietJobs, WalkOn, Replace
<1> QED BY <1>1, <1>3, <1>4, <1>5, JobsOnly

LEMMA StartNextVars == ASSUME IInv, TypeOK', VarInv, NEW j \in jobs, StartNext(j) PROVE VarInv'
<1>1. j.on = "mark" /\ UNCHANGED <<prog, quest, proc, ops, live, value>>
  BY DEF StartNext
<1>2. j.todo \in SUBSET Edge /\ j.next \subseteq Op /\ j.mark[1] \in Quest
  BY <1>1, OfMark
<1>3. PICK q \in Quest, o \in Op : Activate(q, o, WalkOn(j, j.todo))
  BY <1>2 DEF StartNext
<1>4. PICK k : k.on = "mark" /\ WalkOn(j, j.todo) \subseteq jobs \cup {k} /\ jobs \ {j} \subseteq WalkOn(j, j.todo)
  BY <1>1, <1>2, WalkOnFacts
<1>5. PICK rest : rest = WalkOn(j, j.todo)
  OBVIOUS
<1>6. jobs' = rest \/ \E a \in ActiveArc : jobs' = rest \cup {Activated(a)}
  <2>1. TypeOK /\ Activate(q, o, rest)
    BY <1>3, <1>5, InvParts
  <2> HIDE DEF Activate, TypeOK
  <2> QED BY <2>1, ActivateFacts
<1>7. \A a \in ActiveArc : Activated(a).on = "active" /\ Activated(a).pc = "new"
  BY NewJobs
<1>8. QuietJobs
  <2> HIDE DEF Activated, WalkOn
  <2>1. CASE jobs' = rest
    BY <1>1, <1>4, <1>5, <2>1 DEF QuietJobs
  <2>2. ASSUME NEW a \in ActiveArc, jobs' = rest \cup {Activated(a)} PROVE QuietJobs
    BY <1>1, <1>4, <1>5, <1>7, <2>2 DEF QuietJobs
  <2> QED BY <1>6, <2>1, <2>2
<1> HIDE DEF IInv, TypeOK, VarInv, QuietJobs
<1> QED BY <1>1, <1>8, JobsOnly

-----------------------------------------------------------------------------
\* Actions on the variables of a process.

\* A new process: all of its variables are there, and its operators have them.
LEMMA CreateProcessVars == ASSUME IInv, TypeOK', VarInv, NEW j \in jobs, CreateProcess(j) PROVE VarInv'
<1>1. j.on = "initiated" /\ UNCHANGED <<prog, quest, value>>
  BY DEF CreateProcess
<1>2. TypeOK
  BY InvParts
<1>3. j \in InitiatedJob
  BY <1>1, <1>2, JobKinds DEF TypeOK
<1>4. PICK r \in Quest : r = j.quest
  BY <1>3 DEF InitiatedJob
<1>5. CASE jobs' = jobs \ {j} /\ UNCHANGED <<proc, ops, live>>
  <2>1. QuietJobs
    BY <1>1, <1>5 DEF QuietJobs
  <2> HIDE DEF IInv, TypeOK, VarInv, QuietJobs
  <2> QED BY <1>1, <1>5, <2>1, JobsOnly
<1>6. CASE /\ proc' = [proc EXCEPT ![r] = "run"]
           /\ ops' = [ops EXCEPT ![r] = {o \in Op : prog[r].type[o] # "none"}]
           /\ live' = live \cup prog[r].own
           /\ jobs' = Replace(j, [j EXCEPT !.pc = "init", !.todo = prog[r].init])
  <2> SUFFICES ASSUME Tidy(prog) PROVE (ListInv /\ OwnInv /\ PassedInv /\ ValueInv)'
    BY <1>1 DEF VarInv
  <2>1. ListInv /\ OwnInv /\ PassedInv /\ ValueInv
    BY DEF VarInv
  <2>2. PICK k : k = [j EXCEPT !.pc = "init", !.todo = prog[r].init]
    OBVIOUS
  <2>3. k.on = "initiated" /\ jobs' = (jobs \ {j}) \cup {k}
    BY <1>3, <1>6, <2>2 DEF InitiatedJob, Replace
  <2>4. /\ \A i \in jobs' : i \in jobs \/ (i.on = "useless" => i.pc = "new")
        /\ \A i \in jobs' : i \in jobs \/ (i.on = "active" => i.pc # "body")
        /\ \A i \in jobs : i.on = "useless" => i \in jobs'
        /\ \A q \in Quest : quest'[q] # "erased" => quest[q] # "erased"
    BY <1>1, <2>3
  <2>5. /\ \A p \in Quest : p # r => proc'[p] = proc[p] /\ ops'[p] = ops[p]
        /\ proc'[r] = "run" /\ ops'[r] = {o \in Op : prog[r].type[o] # "none"}
    BY <1>2, <1>6 DEF TypeOK
  <2>6. OwnInv'
    <3>1. \A q, o : Operands(q, o)' = Operands(q, o)
      BY <1>1 DEF Operands, Fixed, Assign
    <3>2. ASSUME NEW q \in Quest, quest[q] # "erased", NEW v \in prog[q].own \cap live'
          PROVE  \E o \in ops'[q] : v \in Operands(q, o)
      <4>1. CASE q = r
        <5>1. PICK o \in Op : prog[r].type[o] # "none" /\ v \in prog[r].fixed[o] \cup prog[r].assign[o]
          BY <3>2, <4>1 DEF Tidy
        <5> QED BY <2>5, <4>1, <5>1 DEF Operands, Fixed, Assign
      <4>2. CASE q # r
        <5>1. prog[q].own \cap prog[r].own = {}
          BY <4>2 DEF Tidy
        <5>2. v \in live
          BY <1>6, <3>2, <5>1
        <5> QED BY <2>1, <2>5, <3>2, <4>2, <5>2 DEF OwnInv
      <4> QED BY <4>1, <4>2
    <3>3. \A q \in Quest : proc'[q] = "gone" => ops'[q] = {}
      BY <2>1, <2>5 DEF OwnInv
    <3> QED BY <1>1, <3>1, <3>2, <3>3 DEF OwnInv
  <2>7. PassedInv'
    <3>1. ASSUME NEW p \in Quest, p # r, Sound(p)' PROVE Sound(p)
      BY <2>4, <2>5, <3>1 DEF Sound
    <3>2. ASSUME NEW p \in Quest, NEW q \in Quest, Sound(p)', quest[q] # "erased"
          PROVE  prog[q].params \cap prog[p].own \subseteq live'
      <4>1. CASE p = r
        BY <1>6, <4>1
      <4>2. CASE p # r
        <5> HIDE DEF Sound
        <5> QED BY <1>6, <2>1, <3>1, <3>2, <4>2 DEF PassedInv
      <4> QED BY <4>1, <4>2
    <3> HIDE DEF Sound
    <3> QED BY <1>1, <3>2 DEF PassedInv
  <2>8. \A v \in Var : value'[v] <= value[v]
    BY <1>1, <1>2, SameValues
  <2>9. ListInv' /\ ValueInv'
    <3> HIDE DEF TypeOK, ListInv, ValueInv
    <3> QED BY <1>1, <1>2, <2>1, <2>4, <2>8, ListKept, ValueKept
  <2> QED BY <2>6, <2>7, <2>9
<1> HIDE DEF Replace
<1> QED BY <1>4, <1>5, <1>6 DEF CreateProcess

\* The job that erases a process goes on: as k, or not at all.
LEMMA UselessVars ==
  ASSUME IInv, TypeOK', VarInv, NEW j \in jobs, j.on = "useless", NEW k \in UselessJob, k.quest = j.quest,
         jobs' = Replace(j, k) \/ (jobs' = jobs \ {j} /\ proc[j.quest] # "run"),
         UNCHANGED <<prog, quest, proc, ops, live, value>>,
         ListInv => (quest[k.quest] # "erased" => /\ k.pc = "load" => k.found
                                                  /\ k.pc = "erase" => k.found /\ k.keep = prog[k.quest].params)
  PROVE  VarInv'
<1> SUFFICES ASSUME Tidy(prog) PROVE (ListInv /\ OwnInv /\ PassedInv /\ ValueInv)'
  BY DEF VarInv
<1>1. ListInv /\ OwnInv /\ PassedInv /\ ValueInv
  BY DEF VarInv
<1>2. TypeOK
  BY InvParts
<1>3. k.on = "useless"
  BY DEF UselessJob
<1>4. ListInv'
  <2>1. \A i \in jobs' : i \in jobs \/ i = k
    BY DEF Replace
  <2> QED BY <1>1, <2>1 DEF ListInv
<1>5. /\ \A i \in jobs' : i \in jobs \/ (i.on = "active" => i.pc # "body")
      /\ \A q \in Quest : quest'[q] # "erased" => quest[q] # "erased"
      /\ live' \subseteq live /\ \A q \in Quest : prog[q].params \cap live \subseteq live'
  BY <1>3 DEF Replace
<1>6. \A p \in Quest : Sound(p)' => Sound(p)
  BY <1>3 DEF Sound, Replace
<1>7. \A v \in Var : value'[v] <= value[v]
  BY <1>2, SameValues
<1> HIDE DEF TypeOK, Sound, ListInv, OwnInv, PassedInv, ValueInv
<1> QED BY <1>1, <1>2, <1>4, <1>5, <1>6, <1>7, OwnKept, PassedKept, ValueKept

LEMMA FindParametersVars == ASSUME IInv, TypeOK', VarInv, NEW j \in jobs, FindParameters(j) PROVE VarInv'
<1>1. j.on = "useless" /\ UNCHANGED <<prog, quest, proc, ops, live, value>>
  BY DEF FindParameters
<1>2. PICK found \in BOOLEAN : found = (quest[j.quest] # "erased")
  OBVIOUS
<1>3. PICK k : k = [j EXCEPT !.pc = "load", !.found = found]
  OBVIOUS
<1>4. k \in UselessJob /\ k.quest = j.quest /\ k.pc = "load" /\ k.found = found
  BY <1>1, <1>3, OfUseless DEF UselessJob
<1>5. jobs' = Replace(j, k) \/ (jobs' = jobs \ {j} /\ proc[j.quest] # "run")
  <2> HIDE DEF Replace
  <2> QED BY <1>2, <1>3 DEF FindParameters
<1>6. quest[k.quest] # "erased" => /\ k.pc = "load" => k.found
                                   /\ k.pc = "erase" => k.found /\ k.keep = prog[k.quest].params
  BY <1>2, <1>4
<1> HIDE DEF IInv, TypeOK, VarInv, ListInv, Replace
<1> QED BY <1>1, <1>4, <1>5, <1>6, UselessVars

LEMMA LoadParametersVars == ASSUME IInv, TypeOK', VarInv, NEW j \in jobs, LoadParameters(j) PROVE VarInv'
<1>1. j.on = "useless" /\ j.pc = "load" /\ UNCHANGED <<prog, quest, proc, ops, live, value>>
  BY DEF LoadParameters
<1>2. j \in UselessJob /\ prog[j.quest].params \subseteq Var
  BY <1>1, OfUseless, InvParts, Programs
<1>3. PICK keep : keep = IF j.found /\ quest[j.quest] # "erased" THEN prog[j.quest].params ELSE {}
  OBVIOUS
<1>4. keep \in SUBSET Var
  BY <1>2, <1>3
<1>5. PICK k : k = [j EXCEPT !.pc = "erase", !.keep = keep]
  OBVIOUS
<1>6. k \in UselessJob /\ k.quest = j.quest /\ k.pc = "erase" /\ k.found = j.found /\ k.keep = keep
  BY <1>2, <1>4, <1>5 DEF UselessJob
<1>7. jobs' = Replace(j, k)
  BY <1>3, <1>5 DEF LoadParameters
<1>8. ListInv => (quest[k.quest] # "erased" => /\ k.pc = "load" => k.found
                                               /\ k.pc = "erase" => k.found /\ k.keep = prog[k.quest].params)
  <2> SUFFICES ASSUME ListInv, quest[j.quest] # "erased" PROVE j.found /\ keep = prog[j.quest].params
    BY <1>6
  <2>1. j.found
    BY <1>1 DEF ListInv
  <2> QED BY <1>3, <2>1
<1> HIDE DEF IInv, TypeOK, VarInv, ListInv, Replace
<1> QED BY <1>1, <1>6, <1>7, <1>8, UselessVars

\* An operator is erased, with those of its variables that are not passed.
LEMMA EraseOperatorVars == ASSUME IInv, TypeOK', VarInv, NEW j \in jobs, NEW o \in Op, EraseOperator(j, o) PROVE VarInv'
<1>1. /\ j.on = "useless" /\ j.pc = "erase" /\ UNCHANGED <<prog, quest, proc, jobs>>
      /\ ops' = [ops EXCEPT ![j.quest] = @ \ {o}]
      /\ live' = live \ Erasable(j, o)
      /\ value' = [v \in Var |-> IF v \in Erasable(j, o) THEN 0 ELSE value[v]]
  BY DEF EraseOperator
<1> SUFFICES ASSUME Tidy(prog) PROVE (ListInv /\ OwnInv /\ PassedInv /\ ValueInv)'
  BY <1>1 DEF VarInv
<1>2. ListInv /\ OwnInv /\ PassedInv /\ ValueInv
  BY DEF VarInv
<1>3. TypeOK
  BY InvParts
<1>4. PICK r \in Quest : r = j.quest
  BY <1>1, OfUseless
<1>5. quest[r] # "erased" => Erasable(j, o) = Operands(r, o) \ prog[r].params
  BY <1>1, <1>2, <1>4 DEF ListInv, Erasable, Operands
<1>6. Erasable(j, o) \subseteq Operands(r, o)
  BY <1>4 DEF Erasable, Operands
<1>7. Operands(r, o) \subseteq prog[r].own \cup prog[r].params
  BY DEF Tidy, Operands, Fixed, Assign
<1>8. ops'[r] = ops[r] \ {o} /\ \A q \in Quest : q # r => ops'[q] = ops[q]
  BY <1>1, <1>3, <1>4 DEF TypeOK
<1>9. OwnInv'
  <2>1. \A q, x : Operands(q, x)' = Operands(q, x)
    BY <1>1 DEF Operands, Fixed, Assign
  <2>2. ASSUME NEW q \in Quest, quest[q] # "erased", NEW v \in prog[q].own \cap live'
        PROVE  \E x \in ops'[q] : v \in Operands(q, x)
    <3>1. PICK x \in ops[q] : v \in Operands(q, x)
      BY <1>1, <1>2, <2>2 DEF OwnInv
    <3>2. CASE q = r
      <4>1. v \notin Erasable(j, o)
        BY <1>1, <2>2
      <4>2. v \notin prog[r].params
        BY <2>2, <3>2 DEF Tidy
      <4>3. x # o
        BY <1>5, <2>2, <3>1, <3>2, <4>1, <4>2
      <4> QED BY <1>8, <3>1, <3>2, <4>3
    <3>3. CASE q # r
      BY <1>8, <3>1, <3>3
    <3> QED BY <3>2, <3>3
  <2>3. \A q \in Quest : proc[q] = "gone" => ops'[q] = {}
    BY <1>2, <1>8 DEF OwnInv
  <2> QED BY <1>1, <2>1, <2>2, <2>3 DEF OwnInv
<1>10. PassedInv'
  <2>1. \A p \in Quest : Sound(p)' => Sound(p) /\ p # r
    BY <1>1, <1>4 DEF Sound
  <2>2. ASSUME NEW p \in Quest, NEW q \in Quest, Sound(p), p # r, quest[q] # "erased",
               NEW v \in prog[q].params \cap prog[p].own
        PROVE  v \in live'
    <3>1. v \in live
      <4> HIDE DEF Sound
      <4> QED BY <1>2, <2>2 DEF PassedInv
    <3>2. v \notin prog[r].own
      BY <2>2 DEF Tidy
    <3>3. v \notin Erasable(j, o)
      <4>1. CASE q = r
        BY <1>5, <2>2, <4>1
      <4>2. CASE q # r
        <5>1. v \notin prog[r].params
          BY <2>2, <4>2 DEF Tidy
        <5> QED BY <1>6, <1>7, <3>2, <5>1
      <4> QED BY <4>1, <4>2
    <3> QED BY <1>1, <3>1, <3>3
  <2> HIDE DEF Sound
  <2> QED BY <1>1, <2>1, <2>2 DEF PassedInv
<1>11. /\ \A v \in Var : value'[v] <= value[v]
       /\ \A q \in Quest : quest'[q] # "erased" => quest[q] # "erased"
       /\ \A i \in jobs' : i \in jobs \/ (i.on = "useless" => i.pc = "new")
       /\ \A i \in jobs' : i \in jobs \/ (i.on = "active" => i.pc # "body")
  BY <1>1, <1>3 DEF TypeOK
<1>12. ListInv' /\ ValueInv'
  <2> HIDE DEF TypeOK, ListInv, ValueInv
  <2> QED BY <1>1, <1>2, <1>3, <1>11, ListKept, ValueKept
<1> QED BY <1>9, <1>10, <1>12

LEMMA EraseProcessVars == ASSUME IInv, TypeOK', VarInv, NEW j \in jobs, EraseProcess(j) PROVE VarInv'
<1>1. /\ j.on = "useless" /\ ops[j.quest] = {} /\ UNCHANGED <<prog, quest, ops, live, value>>
      /\ proc' = [proc EXCEPT ![j.quest] = "gone"] /\ jobs' = jobs \ {j}
  BY DEF EraseProcess
<1> SUFFICES ASSUME Tidy(prog) PROVE (ListInv /\ OwnInv /\ PassedInv /\ ValueInv)'
  BY <1>1 DEF VarInv
<1>2. ListInv /\ OwnInv /\ PassedInv /\ ValueInv
  BY DEF VarInv
<1>3. TypeOK
  BY InvParts
<1>4. PICK r \in Quest : r = j.quest
  BY <1>1, OfUseless
<1>5. proc'[r] = "gone" /\ \A q \in Quest : q # r => proc'[q] = proc[q]
  BY <1>1, <1>3, <1>4 DEF TypeOK
<1>6. OwnInv'
  <2>1. \A q, o : Operands(q, o)' = Operands(q, o)
    BY <1>1 DEF Operands, Fixed, Assign
  <2> QED BY <1>1, <1>2, <1>4, <1>5, <2>1 DEF OwnInv
<1>7. \A p \in Quest : Sound(p)' => Sound(p)
  BY <1>1, <1>4, <1>5 DEF Sound
<1>8. /\ \A q \in Quest : quest'[q] # "erased" => quest[q] # "erased"
      /\ \A q \in Quest : prog[q].params \cap live \subseteq live'
      /\ \A i \in jobs' : i \in jobs \/ (i.on = "useless" => i.pc = "new")
      /\ \A i \in jobs' : i \in jobs \/ (i.on = "active" => i.pc # "body")
  BY <1>1
<1>9. \A v \in Var : value'[v] <= value[v]
  BY <1>1, <1>3, SameValues
<1> HIDE DEF TypeOK, Sound, ListInv, OwnInv, PassedInv, ValueInv
<1> QED BY <1>1, <1>2, <1>3, <1>6, <1>7, <1>8, <1>9, ListKept, PassedKept, ValueKept

-----------------------------------------------------------------------------
\* Actions on values.

LEMMA ReadOperandsVars == ASSUME IInv, TypeOK', VarInv, NEW j \in jobs, ReadOperands(j) PROVE VarInv'
<1>1. PICK q \in Quest, o \in Op :
        /\ Starts(j, q, o, Types \ Special)
        /\ IF NoValue(q, o) = {}
           THEN /\ value' = OneErased(Assign(q, o))
                /\ jobs' = Replace(j, [j EXCEPT !.pc = "body"])
           ELSE /\ \E S \in SUBSET Assign(q, o) : value' = OneErased(S)
                /\ jobs' = (jobs \ {j}) \cup Crash(q)
        /\ UNCHANGED <<prog, quest, proc, ops, live>>
  BY DEF ReadOperands
<1>2. j \in Jobs /\ j.on = "active" /\ q = j.arc[1] /\ o = j.arc[2] /\ TypeOK
  BY <1>1, InvParts DEF Starts, TypeOK
<1>3. CASE NoValue(q, o) # {}
  <2>1. QuietJobs
    <3>1. jobs \ {j} \subseteq jobs' /\ jobs' \subseteq (jobs \ {j}) \cup Crash(q)
      <4> HIDE DEF Crash, NoValue
      <4> QED BY <1>1, <1>3
    <3> HIDE DEF Crash, QuietJobs
    <3> QED BY <1>2, <3>1, CrashQuiet
  <2>2. QuietState
    <3>1. PICK S : value' = OneErased(S)
      <4> HIDE DEF NoValue
      <4> QED BY <1>1, <1>3
    <3>2. \A v \in Var : value'[v] <= value[v]
      <4> HIDE DEF OneErased, TypeOK
      <4> QED BY <1>2, <3>1, ErasedLess
    <3> QED BY <1>1, <3>2 DEF QuietState
  <2> HIDE DEF TypeOK, VarInv, QuietJobs, QuietState
  <2> QED BY <1>2, <2>1, <2>2, QuietVars
<1>4. CASE NoValue(q, o) = {}
  <2> SUFFICES ASSUME Tidy(prog) PROVE (ListInv /\ OwnInv /\ PassedInv /\ ValueInv)'
    BY <1>1 DEF VarInv
  <2>1. ListInv /\ OwnInv /\ PassedInv /\ ValueInv
    BY DEF VarInv
  <2>2. PICK k : k = [j EXCEPT !.pc = "body"]
    OBVIOUS
  <2>3. k.on = "active" /\ k.arc = j.arc
    BY <1>2, <2>2, ActiveGoes
  <2>4. jobs' = (jobs \ {j}) \cup {k} /\ value' = OneErased(Assign(q, o)) /\ UNCHANGED <<prog, quest, proc, ops, live>>
    <3> HIDE DEF NoValue
    <3> QED BY <1>1, <1>4, <2>2 DEF Replace
  <2>5. /\ \A i \in jobs' : i \in jobs \/ (i.on = "useless" => i.pc = "new")
        /\ \A i \in jobs : i.on = "useless" => i \in jobs'
        /\ \A p \in Quest : quest'[p] # "erased" => quest[p] # "erased"
        /\ live' \subseteq live /\ \A p \in Quest : prog[p].params \cap live \subseteq live'
    BY <1>2, <2>3, <2>4
  <2>6. \A p \in Quest : Sound(p)' => Sound(p)
    BY <2>4, <2>5 DEF Sound
  <2>7. ListInv' /\ OwnInv' /\ PassedInv'
    <3> HIDE DEF TypeOK, Sound, ListInv, OwnInv, PassedInv
    <3> QED BY <2>1, <2>4, <2>5, <2>6, ListKept, OwnKept, PassedKept
  <2>8. value \in [Var -> Nat] /\ \A v \in Var : value[v] <= 1
    BY <1>2, <2>1 DEF TypeOK, ValueInv
  <2>9. \A v \in Var : value'[v] <= 1 /\ (value[v] = 0 => value'[v] = 0) /\ (v \in Assign(q, o) => value'[v] = 0)
    BY <2>4, <2>8 DEF OneErased
  <2>10. ASSUME NEW i \in jobs', i.on = "active", i.pc = "body", NEW v \in Assign(i.arc[1], i.arc[2])' PROVE value'[v] = 0
    <3>1. v \in Assign(i.arc[1], i.arc[2])
      BY <2>4, <2>10 DEF Assign
    <3>2. CASE i = k
      <4>1. v \in Assign(q, o)
        BY <1>2, <2>3, <3>1, <3>2
      <4>2. v \in Var
        BY <1>2, <4>1, Programs
      <4> QED BY <2>9, <4>1, <4>2
    <3>3. CASE i \in jobs
      <4>1. value[v] = 0
        BY <2>1, <2>10, <3>1, <3>3 DEF ValueInv
      <4>2. v \in Var
        BY <1>2, <2>10, <3>1, <3>3, AssignVars
      <4> QED BY <2>9, <4>1, <4>2
    <3> QED BY <2>4, <3>2, <3>3
  <2>11. ValueInv'
    BY <2>9, <2>10 DEF ValueInv
  <2> QED BY <2>7, <2>11
<1> QED BY <1>3, <1>4

\* Of operators at work, no two assign one variable.
LEMMA OneAssigns ==
  ASSUME IInv, StartInv, Tidy(prog), NEW i \in jobs, NEW j \in jobs,
         i.on = "active", i.pc = "body", j.on = "active", j.pc = "body",
         NEW v \in Assign(i.arc[1], i.arc[2]), v \in Assign(j.arc[1], j.arc[2])
  PROVE  i = j
<1>1. TypeOK /\ WorkInv
  BY InvParts
<1>2. PICK p \in Quest, q \in Quest, a \in Op, b \in Op : p = i.arc[1] /\ a = i.arc[2] /\ q = j.arc[1] /\ b = j.arc[2]
  BY <1>1, AssignVars
<1>3. v \in Var
  BY <1>1, AssignVars
<1>4. prog[p].type[a] \in Types \ Special /\ prog[q].type[b] \in Types \ Special
  BY <1>1, <1>2 DEF WorkInv, WorkJob, TypeOf
<1>5. Writes(prog[p], a, v) /\ Writes(prog[q], b, v)
  BY <1>2, <1>4 DEF Writes, Assign
<1>6. p = q /\ (Straight(prog[p]) \/ (a = b /\ a \in Once(prog[p])))
  <2>1. OneWriter(prog, v)
    BY <1>3 DEF Tidy
  <2> HIDE DEF Writes, Straight, Once
  <2> QED BY <1>5, <2>1 DEF OneWriter
<1>7. CASE Straight(prog[p])
  <2>1. Holds(i, marks, j.arc[1])
    BY <1>2, <1>6 DEF Holds
  <2>2. Sequential(j.arc[1])
    <3> HIDE DEF Straight
    <3> QED BY <1>2, <1>6, <1>7 DEF Sequential
  <2>3. \A n \in jobs \ {j} : ~Holds(n, marks, j.arc[1])
    <3> HIDE DEF Holds, Sequential, IInv
    <3> QED BY <2>2, AtWork
  <2> HIDE DEF Holds
  <2> QED BY <2>1, <2>3
<1>8. CASE a = b /\ a \in Once(prog[p])
  <2>1. Working(i, p, a) /\ Working(j, p, a)
    BY <1>2, <1>6, <1>8 DEF Working, At
  <2>2. prog[p].type[a] \notin WaitTypes
    BY <1>4 DEF WaitTypes, Special
  <2>3. OnceAt(prog[p], active, marks, jobs, p, a)
    <3> HIDE DEF OnceAt, Touched, Done, Once
    <3> QED BY <1>8 DEF StartInv, OnceInv
  <2> HIDE DEF Working, WaitTypes
  <2> QED BY <2>1, <2>2, <2>3 DEF OnceAt
<1> QED BY <1>6, <1>7, <1>8

LEMMA WorkVars == ASSUME IInv, StartInv, TypeOK', VarInv, NEW j \in jobs, NEW r \in Results, Work(j, r) PROVE VarInv'
<1>1. j.on = "active" /\ j.pc = "body" /\ UNCHANGED <<prog, quest, proc, ops, live>>
  BY DEF Work
<1>2. PICK q, o : q = j.arc[1] /\ o = j.arc[2]
  OBVIOUS
<1>3. q \in Quest /\ o \in Op /\ TypeOK
  BY <1>1, <1>2, AtWork, InvParts
<1>4. prog[q].type[o] \in Types \ Special
  BY <1>1, <1>2, InvParts DEF WorkInv, WorkJob, TypeOf
<1>5. PICK agent : agent = AgentOf(prog[q].type[o])
  OBVIOUS
<1>6. /\ value' = (IF r \in agent.assigns THEN Assigned(Assign(q, o)) ELSE value)
      /\ IF r \in DOMAIN agent.after THEN Goto(q, o, agent.after[r], jobs \ {j})
         ELSE /\ jobs' = (jobs \ {j}) \cup (IF r \in agent.crash THEN Crash(q) ELSE {})
              /\ UNCHANGED marks
  BY <1>2, <1>5 DEF Work
\* The job ends; it is followed by a mark or by the end of the process.
<1>7. QuietJobs /\ \A i \in jobs' : i.on = "active" => i \in jobs \ {j}
  <2>1. CASE r \in DOMAIN agent.after
    <3>1. PICK kind \in MarkKind : kind = agent.after[r]
      BY <1>4, <1>5, <2>1, Agents
    <3>2. Goto(q, o, kind, jobs \ {j})
      BY <1>6, <2>1, <3>1
    <3>3. QuietJobs
      <4> HIDE DEF Goto, QuietJobs, TypeOK
      <4> QED BY <1>1, <1>3, <3>2, GotoQuiet
    <3>4. PICK rest : rest = jobs \ {j}
      OBVIOUS
    <3>5. jobs' = rest \/ \E k \in Mark : jobs' = rest \cup {Marked(k)}
      <4> HIDE DEF Goto, TypeOK, Marked
      <4> QED BY <1>3, <3>2, <3>4, GotoFacts
    <3>6. \A k \in Mark : Marked(k).on = "mark"
      BY NewJobs
    <3> HIDE DEF Marked, QuietJobs
    <3> QED BY <3>3, <3>4, <3>5, <3>6
  <2>2. CASE r \notin DOMAIN agent.after
    <3>1. jobs \ {j} \subseteq jobs' /\ jobs' \subseteq (jobs \ {j}) \cup Crash(q)
      <4> HIDE DEF Crash
      <4> QED BY <1>6, <2>2
    <3>2. \A n \in Crash(q) : n.on = "useless"
      BY DEF Crash, Useless
    <3> HIDE DEF Crash, QuietJobs
    <3> QED BY <1>1, <1>3, <3>1, <3>2, CrashQuiet
  <2> QED BY <2>1, <2>2
<1>8. CASE r \notin agent.assigns
  <2>1. UNCHANGED <<prog, quest, proc, ops, live, value>>
    BY <1>1, <1>6, <1>8
  <2> HIDE DEF IInv, TypeOK, VarInv, QuietJobs
  <2> QED BY <1>7, <2>1, JobsOnly
<1>9. CASE r \in agent.assigns
  <2> SUFFICES ASSUME Tidy(prog) PROVE (ListInv /\ OwnInv /\ PassedInv /\ ValueInv)'
    BY <1>1 DEF VarInv
  <2>1. ListInv /\ OwnInv /\ PassedInv /\ ValueInv
    BY DEF VarInv
  <2>2. /\ \A i \in jobs' : i \in jobs \/ (i.on = "useless" => i.pc = "new")
        /\ \A i \in jobs : i.on = "useless" => i \in jobs'
    BY <1>7 DEF QuietJobs
  <2>3. /\ \A p \in Quest : quest'[p] # "erased" => quest[p] # "erased"
        /\ live' \subseteq live /\ \A p \in Quest : prog[p].params \cap live \subseteq live'
    BY <1>1
  <2>4. \A p \in Quest : Sound(p)' => Sound(p)
    BY <1>1, <2>2 DEF Sound
  <2>5. ListInv' /\ OwnInv' /\ PassedInv'
    <3> HIDE DEF TypeOK, Sound, ListInv, OwnInv, PassedInv
    <3> QED BY <1>1, <2>1, <2>2, <2>3, <2>4, ListKept, OwnKept, PassedKept
  <2>6. value \in [Var -> Nat] /\ value' = Assigned(Assign(q, o))
    BY <1>3, <1>6, <1>9 DEF TypeOK
  <2>7. \A v \in Var : v \in Assign(q, o) => value[v] = 0
    BY <1>1, <1>2, <2>1 DEF ValueInv
  <2>8. \A v \in Var : value[v] <= 1
    BY <2>1 DEF ValueInv
  <2>9. \A v \in Var : value'[v] <= 1 /\ (v \notin Assign(q, o) => value'[v] = value[v])
    BY <2>6, <2>7, <2>8 DEF Assigned
  <2>10. ASSUME NEW i \in jobs', i.on = "active", i.pc = "body", NEW v \in Assign(i.arc[1], i.arc[2])' PROVE value'[v] = 0
    <3>1. v \in Assign(i.arc[1], i.arc[2]) /\ i \in jobs /\ i # j
      BY <1>1, <1>7, <2>10 DEF Assign
    <3>2. v \notin Assign(q, o)
      <4> HIDE DEF IInv, StartInv, Tidy, Assign
      <4> QED BY <1>1, <1>2, <2>10, <3>1, OneAssigns
    <3>3. v \in Var
      BY <1>3, <2>10, <3>1, AssignVars
    <3>4. value[v] = 0
      BY <2>1, <2>10, <3>1 DEF ValueInv
    <3> QED BY <2>9, <3>2, <3>3, <3>4
  <2>11. ValueInv'
    BY <2>9, <2>10 DEF ValueInv
  <2> QED BY <2>5, <2>11
<1> QED BY <1>8, <1>9

-----------------------------------------------------------------------------
LEMMA InitVars == Init => VarInv
<1> SUFFICES ASSUME Init PROVE ListInv /\ OwnInv /\ PassedInv /\ ValueInv
  BY DEF VarInv
<1>1. ListInv /\ ValueInv
  BY DEF Init, ListInv, ValueInv
<1>2. OwnInv /\ PassedInv
  BY DEF Init, OwnInv, PassedInv, Sound
<1> QED BY <1>1, <1>2

LEMMA StutterVars == IInv /\ VarInv /\ IInv' /\ UNCHANGED vars => VarInv'
<1> SUFFICES ASSUME IInv, VarInv, IInv', UNCHANGED vars PROVE VarInv'
  OBVIOUS
<1>1. QuietJobs /\ UNCHANGED <<prog, quest, proc, ops, live, value>>
  BY DEF vars, QuietJobs
<1>2. TypeOK'
  BY DEF IInv
<1> HIDE DEF IInv, TypeOK, VarInv, QuietJobs
<1> QED BY <1>1, <1>2, JobsOnly

LEMMA NextVars == IInv /\ StartInv /\ VarInv /\ IInv' /\ Next => VarInv'
<1> SUFFICES ASSUME IInv, StartInv, VarInv, IInv', Next PROVE VarInv'
  OBVIOUS
<1>0. TypeOK'
  BY DEF IInv
<1> HIDE DEF IInv, StartInv, VarInv, TypeOK
<1>1. CASE \E q \in Quest : RunProgram(q)
  BY <1>0, <1>1, RunProgramVars
<1>2. ASSUME NEW j \in jobs, Step(j) \/ EventOccurs(j) PROVE VarInv'
  <2>1. ASSUME CreateProcess(j) \/ StartInitial(j) PROVE VarInv'
    BY <1>0, <2>1, CreateProcessVars, StartInitialVars
  <2>2. ASSUME ArcGone(j) \/ ReadOperands(j) \/ (\E r \in Results : Work(j, r)) \/ IfVarAssign(j) PROVE VarInv'
    BY <1>0, <2>2, ArcGoneVars, ReadOperandsVars, WorkVars, IfVarAssignVars
  <2>3. ASSUME Return(j) \/ GiveUp(j) \/ Call(j) \/ Called(j) PROVE VarInv'
    BY <1>0, <2>3, ReturnVars, GiveUpVars, CallVars, CalledVars
  <2>4. ASSUME WaitReturn(j) \/ WaitCollects(j) \/ WaitReturnSet(j) \/ QuestionFinished(j) \/ FinishedCollects(j) PROVE VarInv'
    BY <1>0, <2>4, WaitReturnVars, WaitCollectsVars, WaitReturnSetVars, QuestionFinishedVars, FinishedCollectsVars
  <2>5. ASSUME SysWait(j) \/ SysWaitProcessor(j) \/ EventOccurs(j) PROVE VarInv'
    BY <1>0, <2>5, SysWaitVars, SysWaitProcessorVars, EventOccursVars
  <2>6. ASSUME MarkGone(j) \/ Syncronize(j) \/ Walk(j) \/ StartNext(j) PROVE VarInv'
    BY <1>0, <2>6, MarkGoneVars, SyncronizeVars, WalkVars, StartNextVars
  <2>7. ASSUME FindParameters(j) \/ LoadParameters(j) \/ (\E o \in Op : EraseOperator(j, o)) \/ EraseProcess(j) PROVE VarInv'
    BY <1>0, <2>7, FindParametersVars, LoadParametersVars, EraseOperatorVars, EraseProcessVars
  <2> QED BY <1>2, <2>1, <2>2, <2>3, <2>4, <2>5, <2>6, <2>7 DEF Step
<1> QED BY <1>1, <1>2 DEF Next

\* The invariant of variables, of any programs: in a system that is Tidy, who
\* erases a process whose question was not collected knows its parameters, a
\* variable is there only while an operator has it, and no two operators at
\* work assign the same one.
THEOREM VarInvariance == Spec => []VarInv
<1>1. IInv /\ StartInv /\ VarInv /\ IInv' /\ [Next]_vars => VarInv'
  BY NextVars, StutterVars
<1> QED BY InitVars, ScpInvariance, StartInvariance, <1>1, PTL DEF Spec

\* The end of a process erases all of its variables and none of those passed
\* to it, unless its question was collected before, and no variable ever has two
\* values, for any programs that share no variables but those passed and in
\* which operators that assign a variable are not at work at the same time.
THEOREM ErasesOwnHolds ==
  ASSUME \A s \in Systems : Tidy(s)
  PROVE  Spec => []ErasesOwn
<1>1. IInv /\ VarInv => ErasesOwn
  <2> SUFFICES ASSUME IInv, VarInv PROVE ErasesOwn
    OBVIOUS
  <2>1. Tidy(prog)
    <3>1. prog \in Systems
      BY InvParts DEF TypeOK
    <3> HIDE DEF Tidy
    <3> QED BY <3>1
  <2>2. OwnInv /\ PassedInv /\ ValueInv
    <3> HIDE DEF Tidy
    <3> QED BY <2>1 DEF VarInv
  <2>3. ASSUME NEW q \in Quest, proc[q] = "gone", quest[q] # "erased" PROVE prog[q].own \cap live = {}
    BY <2>2, <2>3 DEF OwnInv
  <2>4. ASSUME NEW q \in Quest, quest[q] # "erased", NEW p \in Quest, Sound(p) PROVE prog[q].params \cap prog[p].own \subseteq live
    <3> HIDE DEF Sound
    <3> QED BY <2>2, <2>4 DEF PassedInv
  <2>5. \A v \in Var : value[v] <= 1
    BY <2>2 DEF ValueInv
  <2> HIDE DEF Sound
  <2> QED BY <2>3, <2>4, <2>5 DEF ErasesOwn
<1> QED BY ScpInvariance, VarInvariance, <1>1, PTL
=============================================================================
