---------------------------- MODULE EventsProofs ----------------------------
(***************************************************************************)
(* Proofs about subscriptions and the event queue, for any threads,        *)
(* sc_events and elements: what sc_event_destroy frees is used by nobody   *)
(* (NoUseAfterFree), the references of an sc_event account for those who   *)
(* hold them (RefsAccounted), and emissions meet only live sc_events       *)
(* (EmissionsSeeLive).                                                     *)
(*                                                                         *)
(* The inductive invariant IInv relates the calls of the threads to the    *)
(* locks (CallInv), to the sc_events they are about (SubInv), and to the   *)
(* lists of the table (TableInv); says that jobs are about live sc_events  *)
(* (JobInv); and counts the references to elements (ElementInv), without   *)
(* which ref_count could fall below zero.                                  *)
(***************************************************************************)
EXTENDS Events, FunctionTheorems, FiniteSetTheorems, TLAPS

\* The points of a call at which a thread has the table's mutex, those of an
\* emission, those between a reference and its job, those of a creation and
\* those of a destruction.
Listing == {"emit", "append", "emit_deleted", "append_deleted", "flag"}
Emitting == {"emit", "append", "emit_deleted", "append_deleted"}
Appending == {"append", "append_deleted"}
Creating == {"ref", "insert"}
Destroying == {"remove", "unref", "wait"}

\* No sc_event is in a list twice.
Distinct(s) == \A m, n \in DOMAIN s : s[m] = s[n] => m = n

\* The calls of the threads: only the thread that has the mutex goes through a
\* list, and at most one is about a given sc_event.
CallInv ==
  \A t \in Threads :
    /\ op[t].pc \in Listing <=> mutex = t
    /\ op[t].pc \notin Listing => op[t].rest = <<>>
    /\ op[t].pc \in Creating \cup Destroying <=> op[t].sub \in Subs
    /\ op[t].pc \in Appending => op[t].rest # <<>>
    /\ op[t].pc \in Emitting \cup {"deleted", "notify", "flag"} => op[t].el \in Elements
    /\ \A u \in Threads : op[t].sub \in Subs /\ op[u].sub = op[t].sub => t = u

\* The sc_events they are about.
SubInv ==
  \A t \in Threads :
    /\ op[t].pc \in Creating => evt[op[t].sub].state = "none"
    /\ op[t].pc \in Destroying => evt[op[t].sub].state = "live" /\ evt[op[t].sub].doomed
    /\ op[t].pc = "remove" => evt[op[t].sub].lock = t /\ ~evt[op[t].sub].flag
    /\ op[t].pc \in {"unref", "wait"} => evt[op[t].sub].flag
    /\ \A e \in Subs : evt[e].lock = t => op[t].pc = "remove" /\ op[t].sub = e

\* What an emission may refer to.
Live(r) == r.state = "live" /\ r.callback /\ ~r.flag

\* The lists of the table, and what is left of the one a thread goes through.
TableInv ==
  /\ \A x \in Elements : /\ Distinct(table[x])
                         /\ \A e \in ToSet(table[x]) : Element[e] = x /\ Live(evt[e])
  /\ \A t \in Threads :
       /\ Distinct(op[t].rest)
       /\ op[t].pc \in Emitting => ToSet(op[t].rest) \subseteq ToSet(table[op[t].el])
       /\ op[t].pc = "flag" => \A e \in ToSet(op[t].rest) :
            Live(evt[e]) /\ \A x \in Elements : e \notin ToSet(table[x])
  /\ \A e \in Subs : evt[e].state = "live" /\ ~evt[e].flag =>
       \/ e \in ToSet(table[Element[e]])
       \/ \E t \in Threads : op[t].pc = "flag" /\ e \in ToSet(op[t].rest)

\* The jobs, queued and running, are about live sc_events.
JobInv ==
  /\ \A e \in ToSet(queue) : evt[e].state = "live"
  /\ \A w \in Workers : /\ job[w].pc = "idle" <=> job[w] = NoJob
                        /\ job[w].pc # "idle" => job[w].sub \in Subs /\ evt[job[w].sub].state = "live"

\* The references that the storage counts: that of the element's existence and
\* those of the sc_events that listen to it.
Listeners(x) ==
  {e \in Subs : /\ Element[e] = x
                /\ \/ evt[e].state = "live"
                   \/ \E t \in Threads : op[t].pc = "insert" /\ op[t].sub = e}

\* ref_count is their number.
ElementInv ==
  \A x \in Elements :
    /\ IsFiniteSet(Listeners(x))
    /\ ref_count[x] = Cardinality(Listeners(x)) + (IF x \in alive THEN 1 ELSE 0)

\* The inductive invariant.
IInv == RefsAccounted /\ CallInv /\ SubInv /\ TableInv /\ JobInv /\ ElementInv

-----------------------------------------------------------------------------
\* Lists.

\* The empty list.
LEMMA EmptyList == Distinct(<<>>) /\ ToSet(<<>>) = {}
BY DEF Distinct, ToSet

\* The members of a list are sc_events.
LEMMA ListMembers == ASSUME NEW s \in Seq(Subs) PROVE ToSet(s) \subseteq Subs
BY DEF ToSet

\* g_slist_append: one more member.
LEMMA AppendList ==
  ASSUME NEW s \in Seq(Subs), NEW e \in Subs
  PROVE  /\ Append(s, e) \in Seq(Subs) /\ ToSet(Append(s, e)) = ToSet(s) \cup {e}
         /\ Distinct(s) /\ e \notin ToSet(s) => Distinct(Append(s, e))
<1> DEFINE t == Append(s, e)
<1>1. /\ t \in Seq(Subs) /\ DOMAIN t = 1..(Len(s) + 1) /\ DOMAIN s = 1..Len(s) /\ Len(s) \in Nat
      /\ t[Len(s) + 1] = e /\ \A n \in 1..Len(s) : t[n] = s[n]
  OBVIOUS
<1> HIDE DEF t
<1>2. \A n \in DOMAIN t : n \in DOMAIN s \/ n = Len(s) + 1
  BY <1>1
<1>3. ToSet(t) = ToSet(s) \cup {e}
  BY <1>1, <1>2 DEF ToSet
<1>4. ASSUME Distinct(s), e \notin ToSet(s) PROVE Distinct(t)
  <2>1. \A n \in DOMAIN s : s[n] # e
    BY <1>4 DEF ToSet
  <2> QED BY <1>1, <1>2, <1>4, <2>1 DEF Distinct
<1> QED BY <1>1, <1>3, <1>4 DEF t

\* The rest of a list, without its first member.
LEMMA TailList ==
  ASSUME NEW s \in Seq(Subs), s # <<>>
  PROVE  /\ Tail(s) \in Seq(Subs) /\ Head(s) \in Subs /\ Head(s) \in ToSet(s)
         /\ ToSet(Tail(s)) \subseteq ToSet(s)
         /\ ToSet(s) = ToSet(Tail(s)) \cup {Head(s)}
         /\ Distinct(s) => Distinct(Tail(s)) /\ Head(s) \notin ToSet(Tail(s))
<1> DEFINE t == Tail(s)
<1>1. /\ t \in Seq(Subs) /\ Len(s) \in Nat /\ Len(s) > 0
      /\ DOMAIN t = 1..(Len(s) - 1) /\ DOMAIN s = 1..Len(s)
      /\ Head(s) = s[1] /\ \A n \in 1..(Len(s) - 1) : t[n] = s[n + 1]
  OBVIOUS
<1> HIDE DEF t
<1>2. 1 \in DOMAIN s /\ s[1] \in Subs /\ \A n \in DOMAIN t : n + 1 \in DOMAIN s /\ n + 1 # 1
  BY <1>1
<1>3. \A n \in DOMAIN s : n = 1 \/ (n - 1 \in DOMAIN t /\ t[n - 1] = s[n])
  BY <1>1
<1>4. s[1] \in ToSet(s) /\ ToSet(t) \subseteq ToSet(s)
  BY <1>1, <1>2 DEF ToSet
<1>5. ToSet(s) = ToSet(t) \cup {s[1]}
  <2>1. ASSUME NEW x \in ToSet(s) PROVE x \in ToSet(t) \cup {s[1]}
    <3>1. PICK n \in DOMAIN s : s[n] = x
      BY DEF ToSet
    <3>2. CASE n = 1
      BY <3>1, <3>2
    <3>3. CASE n # 1
      BY <1>3, <3>1, <3>3 DEF ToSet
    <3> QED BY <3>2, <3>3
  <2> QED BY <1>4, <2>1
<1>6. ASSUME Distinct(s) PROVE Distinct(t) /\ s[1] \notin ToSet(t)
  <2>1. ASSUME NEW m \in DOMAIN t, NEW n \in DOMAIN t, t[m] = t[n] PROVE m = n
    <3>1. s[m + 1] = s[n + 1]
      BY <1>1, <2>1
    <3>2. m + 1 = n + 1
      BY <1>2, <1>6, <3>1 DEF Distinct
    <3> QED BY <1>1, <3>2
  <2>2. \A n \in DOMAIN t : t[n] # s[1]
    BY <1>1, <1>2, <1>6 DEF Distinct
  <2> QED BY <2>1, <2>2 DEF Distinct, ToSet
<1> QED BY <1>1, <1>2, <1>4, <1>5, <1>6 DEF t

\* g_slist_remove from a list without repetitions: exactly that member goes.
LEMMA UnlistedList ==
  ASSUME NEW s \in Seq(Subs), NEW e \in ToSet(s), Distinct(s)
  PROVE  /\ Unlisted(s, e) \in Seq(Subs) /\ Distinct(Unlisted(s, e))
         /\ ToSet(Unlisted(s, e)) = ToSet(s) \ {e}
<1> DEFINE at == {n \in DOMAIN s : s[n] = e}
<1>1. DOMAIN s = 1..Len(s) /\ Len(s) \in Nat
  OBVIOUS
<1>2. PICK k \in DOMAIN s : s[k] = e
  BY DEF ToSet
<1>3. at = {k}
  BY <1>2 DEF Distinct
<1>4. (CHOOSE n \in at : \A m \in at : n <= m) = k
  BY <1>1, <1>2, <1>3
<1>5. Unlisted(s, e) = RemoveAt(s, k)
  BY <1>3, <1>4 DEF Unlisted
<1> DEFINE a == SubSeq(s, 1, k - 1)
           b == SubSeq(s, k + 1, Len(s))
           t == a \o b
<1>6. k \in 1..Len(s)
  BY <1>1
<1>7. /\ a \in Seq(Subs) /\ Len(a) = k - 1 /\ \A n \in 1..(k - 1) : a[n] = s[n]
  BY <1>1, <1>6
<1>8. /\ b \in Seq(Subs) /\ Len(b) = Len(s) - k /\ \A n \in 1..(Len(s) - k) : b[n] = s[n + k]
  BY <1>1, <1>6
<1> HIDE DEF a, b
<1>9. /\ t \in Seq(Subs) /\ Len(t) = Len(s) - 1 /\ DOMAIN t = 1..(Len(s) - 1)
      /\ \A n \in 1..(Len(s) - 1) : t[n] = IF n < k THEN s[n] ELSE s[n + 1]
  <2>1. t \in Seq(Subs) /\ Len(t) = Len(a) + Len(b)
    <3>1. a \in Seq(Subs) /\ b \in Seq(Subs)
      BY <1>7, <1>8
    <3>2. a \o b \in Seq(Subs)
      BY <3>1
    <3>3. Len(a \o b) = Len(a) + Len(b)
      BY <3>1
    <3> QED BY <3>2, <3>3
  <2>2. \A n \in 1..Len(t) : t[n] = IF n <= Len(a) THEN a[n] ELSE b[n - Len(a)]
    BY <1>7, <1>8
  <2>3. Len(t) = Len(s) - 1
    BY <1>1, <1>6, <1>7, <1>8, <2>1
  <2>4. ASSUME NEW n \in 1..(Len(s) - 1) PROVE t[n] = IF n < k THEN s[n] ELSE s[n + 1]
    <3>1. CASE n < k
      BY <1>1, <1>6, <1>7, <2>2, <2>3, <3>1
    <3>2. CASE ~(n < k)
      <4>1. n - (k - 1) \in 1..(Len(s) - k) /\ (n - (k - 1)) + k = n + 1
        BY <1>1, <1>6, <3>2
      <4>2. t[n] = b[n - (k - 1)]
        BY <1>1, <1>6, <1>7, <2>2, <2>3, <3>2
      <4> QED BY <1>8, <3>2, <4>1, <4>2
    <3> QED BY <3>1, <3>2
  <2> QED BY <2>1, <2>3, <2>4
<1> HIDE DEF t
<1>10. Distinct(t)
  <2>1. ASSUME NEW m \in DOMAIN t, NEW n \in DOMAIN t, t[m] = t[n] PROVE m = n
    <3> DEFINE i == IF m < k THEN m ELSE m + 1
               j == IF n < k THEN n ELSE n + 1
    <3>1. i \in DOMAIN s /\ j \in DOMAIN s /\ s[i] = s[j]
      BY <1>1, <1>6, <1>9, <2>1
    <3>2. i = j
      BY <3>1 DEF Distinct
    <3> QED BY <1>1, <1>6, <1>9, <3>2
  <2> QED BY <2>1 DEF Distinct
<1>11. \A n \in DOMAIN t : t[n] \in ToSet(s) /\ t[n] # e
  <2> SUFFICES ASSUME NEW n \in DOMAIN t PROVE t[n] \in ToSet(s) /\ t[n] # e
    OBVIOUS
  <2> DEFINE i == IF n < k THEN n ELSE n + 1
  <2>1. i \in DOMAIN s /\ t[n] = s[i] /\ i # k
    BY <1>1, <1>6, <1>9
  <2> QED BY <1>2, <2>1 DEF Distinct, ToSet
<1>12. \A n \in DOMAIN s : s[n] # e => s[n] \in ToSet(t)
  <2> SUFFICES ASSUME NEW n \in DOMAIN s, s[n] # e PROVE s[n] \in ToSet(t)
    OBVIOUS
  <2> DEFINE i == IF n < k THEN n ELSE n - 1
  <2>1. i \in DOMAIN t /\ t[i] = s[n]
    BY <1>1, <1>2, <1>6, <1>9
  <2> QED BY <2>1 DEF ToSet
<1>13. ToSet(t) = ToSet(s) \ {e}
  BY <1>11, <1>12 DEF ToSet
<1>14. Unlisted(s, e) = t
  BY <1>5 DEF RemoveAt, a, b, t
<1> QED BY <1>9, <1>10, <1>13, <1>14

-----------------------------------------------------------------------------
\* The references to an sc_event, counted from the calls, the queue and the jobs.

Waited(o, e) == \E t \in Threads : o[t].pc = "wait" /\ o[t].sub = e
Appends(o, e) == \E t \in Threads : o[t].pc \in Appending /\ Head(o[t].rest) = e
Places(q, e) == {n \in DOMAIN q : q[n] = e}
Running(j, e) == {w \in Workers : j[w].sub = e}

One(b) == IF b THEN 1 ELSE 0
Same(a, b) == IF a = b THEN 1 ELSE 0
Queued(q, e) == Cardinality(Places(q, e))
Worked(j, e) == Cardinality(Running(j, e))

Counted(o, q, j, e) ==
  One(~Waited(o, e)) + Queued(q, e) + Worked(j, e) + One(Appends(o, e))

\* The references of an sc_event against their count.
Agrees(r, runs, n) == r.state = "live" => r.refs >= n /\ (runs => r.refs = n)

\* At most the thread with the mutex is between a reference and its job.
LEMMA OneAppends ==
  ASSUME NEW o, NEW m, NEW e, \A t \in Threads : o[t].pc \in Listing => t = m
  PROVE  Cardinality({t \in Threads : /\ o[t].pc \in {"append", "append_deleted"}
                                      /\ Head(o[t].rest) = e}) = One(Appends(o, e))
<1> DEFINE A == {t \in Threads : o[t].pc \in {"append", "append_deleted"} /\ Head(o[t].rest) = e}
<1>1. CASE Appends(o, e)
  <2>1. A = {m}
    BY <1>1 DEF Appends, Appending, Listing
  <2> QED BY <1>1, <2>1, FS_Singleton DEF One, Same
<1>2. CASE ~Appends(o, e)
  <2>1. A = {}
    BY <1>2 DEF Appends, Appending
  <2> QED BY <1>2, <2>1, FS_EmptySet DEF One, Same
<1> QED BY <1>1, <1>2

\* Holders, counted in the four parts ...
LEMMA HoldersCounted ==
  ASSUME CallInv, NEW e
  PROVE  Holders(e) = Counted(op, queue, job, e)
<1>1. \A t \in Threads : op[t].pc \in Listing => t = mutex
  BY DEF CallInv
<1>2. (IF \E t \in Threads : op[t].pc = "wait" /\ op[t].sub = e THEN 0 ELSE 1) = One(~Waited(op, e))
  BY DEF One, Same, Waited
<1>3. Cardinality({t \in Threads : /\ op[t].pc \in {"append", "append_deleted"}
                                   /\ Head(op[t].rest) = e}) = One(Appends(op, e))
  BY <1>1, OneAppends
<1> QED BY <1>2, <1>3 DEF Holders, Counted, Queued, Worked, Places, Running

\* ... and after a step.
LEMMA HoldersCountedNext ==
  ASSUME CallInv', NEW e
  PROVE  Holders(e)' = Counted(op', queue', job', e)
<1>1. \A t \in Threads : op'[t].pc \in Listing => t = mutex'
  BY DEF CallInv
<1>2. (IF \E t \in Threads : op'[t].pc = "wait" /\ op'[t].sub = e THEN 0 ELSE 1) = One(~Waited(op', e))
  BY DEF One, Same, Waited
<1>3. Cardinality({t \in Threads : /\ op'[t].pc \in {"append", "append_deleted"}
                                   /\ Head(op'[t].rest) = e}) = One(Appends(op', e))
  BY <1>1, OneAppends
<1> QED BY <1>2, <1>3 DEF Holders, Counted, Queued, Worked, Places, Running

\* RefsAccounted in terms of the count ...
LEMMA RefsCounted ==
  ASSUME CallInv
  PROVE  RefsAccounted <=>
           (TypeOK /\ \A e \in Subs : Agrees(evt[e], running, Counted(op, queue, job, e)))
BY HoldersCounted DEF RefsAccounted, Agrees

\* ... and after a step.
LEMMA RefsCountedNext ==
  ASSUME CallInv', TypeOK',
         \A e \in Subs : Agrees(evt'[e], running', Counted(op', queue', job', e))
  PROVE  RefsAccounted'
BY HoldersCountedNext DEF RefsAccounted, Agrees

\* The entries of the queue for an sc_event: finitely many, and none if there is no entry.
LEMMA QueuedType ==
  ASSUME NEW q \in Seq(Subs), NEW e
  PROVE  /\ IsFiniteSet(Places(q, e)) /\ Queued(q, e) \in Nat
         /\ Queued(q, e) = 0 => e \notin ToSet(q)
<1>1. IsFiniteSet(DOMAIN q)
  <2>1. DOMAIN q = 1..Len(q) /\ Len(q) \in Int
    OBVIOUS
  <2> QED BY <2>1, FS_Interval
<1>2. IsFiniteSet(Places(q, e))
  BY <1>1, FS_Subset DEF Places
<1>3. Queued(q, e) = 0 => Places(q, e) = {}
  BY <1>2, FS_EmptySet DEF Queued
<1> QED BY <1>2, <1>3, FS_CardinalityType DEF Queued, Places, ToSet

\* The same of the workers, of which there are finitely many.
LEMMA WorkedType ==
  ASSUME NEW j, NEW e
  PROVE  /\ IsFiniteSet(Running(j, e)) /\ Worked(j, e) \in Nat
         /\ Worked(j, e) = 0 => \A w \in Workers : j[w].sub # e
<1>1. IsFiniteSet(Running(j, e))
  BY EventsAssumption, FS_Subset DEF Running
<1>2. Worked(j, e) = 0 => Running(j, e) = {}
  BY <1>1, FS_EmptySet DEF Worked
<1> QED BY <1>1, <1>2, FS_CardinalityType DEF Worked, Running

\* The count is a number.
LEMMA CountedType ==
  ASSUME NEW o, NEW q \in Seq(Subs), NEW j, NEW e
  PROVE  Counted(o, q, j, e) \in Nat
BY QueuedType, WorkedType DEF Counted, One, Same

\* A job that is appended ...
LEMMA QueuedAppend ==
  ASSUME NEW q \in Seq(Subs), NEW f \in Subs, NEW e
  PROVE  Queued(Append(q, f), e) = Queued(q, e) + Same(e, f)
<1> DEFINE p == Append(q, f)
<1>1. /\ DOMAIN p = 1..(Len(q) + 1) /\ DOMAIN q = 1..Len(q) /\ Len(q) \in Nat
      /\ p[Len(q) + 1] = f /\ \A n \in 1..Len(q) : p[n] = q[n]
  OBVIOUS
<1> HIDE DEF p
<1>2. Places(p, e) = Places(q, e) \cup (IF e = f THEN {Len(q) + 1} ELSE {})
  <2>1. \A n \in DOMAIN p : n \in DOMAIN q \/ n = Len(q) + 1
    BY <1>1
  <2>2. DOMAIN q \subseteq DOMAIN p /\ Len(q) + 1 \in DOMAIN p
    BY <1>1
  <2> QED BY <1>1, <2>1, <2>2 DEF Places
<1>3. Len(q) + 1 \notin Places(q, e)
  BY <1>1 DEF Places
<1>4. CASE e = f
  BY <1>2, <1>3, <1>4, QueuedType, FS_AddElement DEF Queued, One, Same, p
<1>5. CASE e # f
  <2>1. Places(p, e) = Places(q, e)
    BY <1>2, <1>5
  <2> QED BY <1>5, <2>1, QueuedType DEF Queued, One, Same, p
<1> QED BY <1>4, <1>5

\* ... and one that is taken count once.
LEMMA QueuedTail ==
  ASSUME NEW q \in Seq(Subs), q # <<>>, NEW e
  PROVE  Queued(q, e) = Queued(Tail(q), e) + Same(e, Head(q))
<1> DEFINE p == Tail(q)
           f == [n \in Places(p, e) |-> n + 1]
<1>1. /\ p \in Seq(Subs) /\ Len(q) \in Nat /\ Len(q) > 0
      /\ DOMAIN p = 1..(Len(q) - 1) /\ DOMAIN q = 1..Len(q)
      /\ Head(q) = q[1] /\ \A n \in 1..(Len(q) - 1) : p[n] = q[n + 1]
  OBVIOUS
<1> HIDE DEF p
<1>2. f \in Bijection(Places(p, e), Places(q, e) \ {1})
  <2>1. \A n \in Places(p, e) : n \in Nat /\ n + 1 \in Places(q, e) \ {1}
    BY <1>1 DEF Places
  <2>2. \A n \in Places(q, e) \ {1} : n - 1 \in Places(p, e) /\ (n - 1) + 1 = n
    BY <1>1 DEF Places
  <2>3. f \in [Places(p, e) -> Places(q, e) \ {1}]
    BY <2>1
  <2>4. \A m, n \in Places(p, e) : f[m] = f[n] => m = n
    BY <2>1
  <2>5. \A n \in Places(q, e) \ {1} : \E m \in Places(p, e) : f[m] = n
    BY <2>2
  <2> QED BY <2>3, <2>4, <2>5, Fun_IsBij
<1>3. Cardinality(Places(q, e) \ {1}) = Queued(p, e)
  BY <1>1, <1>2, QueuedType, FS_Bijection, Fun_ExistsBij DEF Queued
<1>4. Cardinality(Places(q, e) \ {1}) = IF 1 \in Places(q, e) THEN Queued(q, e) - 1 ELSE Queued(q, e)
  BY QueuedType, FS_RemoveElement DEF Queued
<1>5. 1 \in Places(q, e) <=> e = Head(q)
  BY <1>1 DEF Places
<1>6. Queued(q, e) \in Nat /\ Queued(p, e) \in Nat
  BY <1>1, QueuedType
<1> QED BY <1>3, <1>4, <1>5, <1>6 DEF One, Same, p

\* The jobs when one worker starts or ends one.
LEMMA WorkedMoved ==
  ASSUME NEW j, NEW k, NEW w \in Workers, NEW e, NEW a, NEW b, j[w].sub = a, k[w].sub = b,
         \A v \in Workers : v # w => k[v].sub = j[v].sub
  PROVE  Worked(k, e) + Same(a, e) = Worked(j, e) + Same(b, e)
<1> DEFINE K == Running(k, e)
           J == Running(j, e)
<1>1. K \ {w} = J \ {w}
  BY DEF Running
<1>2. Same(b, e) = (IF w \in K THEN 1 ELSE 0) /\ Same(a, e) = (IF w \in J THEN 1 ELSE 0)
  BY DEF Running, Same
<1>3. IsFiniteSet(K) /\ Cardinality(K) \in Nat /\ IsFiniteSet(J) /\ Cardinality(J) \in Nat
  BY WorkedType DEF Worked
<1> HIDE DEF K, J
<1>4. Cardinality(K \ {w}) = IF w \in K THEN Cardinality(K) - 1 ELSE Cardinality(K)
  BY <1>3, FS_RemoveElement
<1>5. Cardinality(J \ {w}) = IF w \in J THEN Cardinality(J) - 1 ELSE Cardinality(J)
  BY <1>3, FS_RemoveElement
<1>6. Cardinality(K \ {w}) = Cardinality(J \ {w})
  BY <1>1, Zenon
<1>7. Cardinality(K) + Same(a, e) = Cardinality(J) + Same(b, e)
  BY <1>2, <1>3, <1>4, <1>5, <1>6
<1> QED BY <1>7 DEF Worked, K, J

\* The jobs when no worker starts or ends one.
LEMMA WorkedSame ==
  ASSUME NEW j, NEW k, NEW e, \A w \in Workers : k[w].sub = j[w].sub
  PROVE  Worked(k, e) = Worked(j, e)
<1>1. Running(k, e) = Running(j, e)
  BY DEF Running
<1> QED BY <1>1 DEF Worked

-----------------------------------------------------------------------------
\* What a step of thread t leaves as it is.

Others(t) == \A u \in Threads : u # t => op'[u] = op[u]

\* An sc_event that must be in a list.
Open(r) == r.state = "live" /\ ~r.flag

\* A step that leaves the table and what it says of the sc_events alone, by a
\* thread that at most goes on in an emission.
LEMMA TableKept ==
  ASSUME TypeOK, TypeOK', TableInv, NEW t \in Threads, Others(t), table' = table,
         \A e \in Subs : Live(evt'[e]) = Live(evt[e]) /\ Open(evt'[e]) = Open(evt[e]),
         \/ op'[t] = op[t]
         \/ /\ op[t].pc # "flag" /\ op'[t].pc # "flag" /\ Distinct(op'[t].rest)
            /\ op'[t].pc \in Emitting => ToSet(op'[t].rest) \subseteq ToSet(table[op'[t].el])
  PROVE  TableInv'
<1>1. \A x \in Elements : ToSet(table[x]) \subseteq Subs
  BY ListMembers DEF TypeOK
<1>2. \A u \in Threads : ToSet(op[u].rest) \subseteq Subs
  BY ListMembers DEF TypeOK
<1>3. ASSUME NEW x \in Elements
      PROVE  Distinct(table'[x]) /\ \A e \in ToSet(table'[x]) : Element[e] = x /\ Live(evt'[e])
  BY <1>1 DEF TableInv
<1>4. ASSUME NEW u \in Threads
      PROVE  /\ Distinct(op'[u].rest)
             /\ op'[u].pc \in Emitting => ToSet(op'[u].rest) \subseteq ToSet(table'[op'[u].el])
             /\ op'[u].pc = "flag" => \A e \in ToSet(op'[u].rest) :
                  Live(evt'[e]) /\ \A x \in Elements : e \notin ToSet(table'[x])
  <2>1. CASE op'[u] = op[u]
    BY <1>2, <2>1 DEF TableInv
  <2>2. CASE op'[u] # op[u]
    BY <2>2 DEF Others
  <2> QED BY <2>1, <2>2
<1>5. ASSUME NEW e \in Subs, Open(evt'[e])
      PROVE  \/ e \in ToSet(table'[Element[e]])
             \/ \E u \in Threads : op'[u].pc = "flag" /\ e \in ToSet(op'[u].rest)
  <2>1. CASE e \in ToSet(table[Element[e]])
    BY <2>1
  <2>2. CASE e \notin ToSet(table[Element[e]])
    <3>1. PICK u \in Threads : op[u].pc = "flag" /\ e \in ToSet(op[u].rest)
      BY <1>5, <2>2 DEF TableInv, Open
    <3>2. op'[u] = op[u]
      BY <3>1 DEF Others
    <3> QED BY <3>1, <3>2
  <2> QED BY <2>1, <2>2
<1> QED BY <1>3, <1>4, <1>5 DEF TableInv, Open

\* A thread that neither appends nor waits does not change the count.
LEMMA OpCountKept ==
  ASSUME NEW t \in Threads, Others(t), NEW e,
         \/ op'[t] = op[t]
         \/ /\ op[t].pc \notin Appending \cup {"wait"}
            /\ op'[t].pc \notin Appending \cup {"wait"}
  PROVE  /\ One(~Waited(op', e)) = One(~Waited(op, e))
         /\ One(Appends(op', e)) = One(Appends(op, e))
<1>1. Waited(op', e) <=> Waited(op, e)
  BY DEF Others, Waited
<1>2. Appends(op', e) <=> Appends(op, e)
  BY DEF Others, Appends
<1> QED BY <1>1, <1>2 DEF One, Same

\* The references when no sc_event, no queue and no job changes.
LEMMA RefsKept ==
  ASSUME RefsAccounted, CallInv, CallInv', TypeOK', NEW t \in Threads, Others(t),
         \A e \in Subs : evt'[e].refs = evt[e].refs /\ (evt'[e].state = "live" => evt[e].state = "live"),
         queue' = queue, \A w \in Workers : job'[w].sub = job[w].sub,
         running' => running,
         \/ op'[t] = op[t]
         \/ /\ op[t].pc \notin Appending \cup {"wait"}
            /\ op'[t].pc \notin Appending \cup {"wait"}
  PROVE  RefsAccounted'
<1>1. ASSUME NEW e \in Subs PROVE Agrees(evt'[e], running', Counted(op', queue', job', e))
  <2>1. Counted(op', queue', job', e) = Counted(op, queue, job, e)
    BY OpCountKept, WorkedSame DEF Counted
  <2>2. Agrees(evt[e], running, Counted(op, queue, job, e))
    BY RefsCounted
  <2> QED BY <2>1, <2>2 DEF Agrees
<1> QED BY <1>1, RefsCountedNext

\* The references to elements when the listeners stay the same.
LEMMA ElementKept ==
  ASSUME ElementInv, NEW t \in Threads, Others(t),
         \A e \in Subs : (evt'[e].state = "live") = (evt[e].state = "live"),
         alive' = alive, ref_count' = ref_count,
         op'[t] = op[t] \/ (op[t].pc # "insert" /\ op'[t].pc # "insert")
  PROVE  ElementInv'
<1>1. \A x \in Elements : Listeners(x)' = Listeners(x)
  BY DEF Listeners, Others
<1> QED BY <1>1 DEF ElementInv

-----------------------------------------------------------------------------
\* What a step makes of the call of thread t and of an sc_event.

OpType == [pc : OpPoints, sub : Subs \cup {NoSub}, el : Elements \cup {NoSub}, rest : Seq(Subs)]

EvtType == [state : {"none", "live", "freed"}, flag : BOOLEAN, refs : Nat,
            callback : BOOLEAN, lock : Threads \cup {NoThread}, doomed : BOOLEAN]

Moved(t, p, s, x, r) ==
  /\ op' \in [Threads -> OpType]
  /\ op'[t].pc = p /\ op'[t].sub = s /\ op'[t].el = x /\ op'[t].rest = r
  /\ Others(t)

Changed(e, st, fl, rf, cb, lk, dm) ==
  /\ evt' \in [Subs -> EvtType]
  /\ evt'[e].state = st /\ evt'[e].flag = fl /\ evt'[e].refs = rf
  /\ evt'[e].callback = cb /\ evt'[e].lock = lk /\ evt'[e].doomed = dm
  /\ \A f \in Subs : f # e => evt'[f] = evt[f]

\* The call of a thread ...
LEMMA OpTyped ==
  ASSUME TypeOK, NEW t \in Threads
  PROVE  /\ op \in [Threads -> OpType]
         /\ op[t] \in OpType /\ op[t].pc \in OpPoints /\ op[t].sub \in Subs \cup {NoSub}
         /\ op[t].el \in Elements \cup {NoSub} /\ op[t].rest \in Seq(Subs)
         /\ op[t] = [pc |-> op[t].pc, sub |-> op[t].sub, el |-> op[t].el, rest |-> op[t].rest]
BY DEF TypeOK, OpType

\* ... and an sc_event have their types.
LEMMA EvtTyped ==
  ASSUME TypeOK, NEW e \in Subs
  PROVE  /\ evt \in [Subs -> EvtType]
         /\ evt[e] \in EvtType /\ evt[e].state \in {"none", "live", "freed"}
         /\ evt[e].flag \in BOOLEAN /\ evt[e].refs \in Nat /\ evt[e].callback \in BOOLEAN
         /\ evt[e].lock \in Threads \cup {NoThread} /\ evt[e].doomed \in BOOLEAN
         /\ evt[e] = [state |-> evt[e].state, flag |-> evt[e].flag, refs |-> evt[e].refs,
                      callback |-> evt[e].callback, lock |-> evt[e].lock, doomed |-> evt[e].doomed]
BY DEF TypeOK, EvtType

\* A new call.
LEMMA CallMoved ==
  ASSUME TypeOK, NEW t \in Threads, NEW p \in OpPoints, NEW s \in Subs \cup {NoSub},
         NEW x \in Elements \cup {NoSub}, NEW r \in Seq(Subs),
         op' = [op EXCEPT ![t] = [pc |-> p, sub |-> s, el |-> x, rest |-> r]]
  PROVE  Moved(t, p, s, x, r)
<1>1. [pc |-> p, sub |-> s, el |-> x, rest |-> r] \in OpType
  BY DEF OpType
<1> QED BY <1>1, OpTyped DEF Moved, Others

\* A call given as a whole.
LEMMA ValueMoved ==
  ASSUME TypeOK, NEW t \in Threads, NEW v \in OpType, op' = [op EXCEPT ![t] = v]
  PROVE  Moved(t, v.pc, v.sub, v.el, v.rest)
BY OpTyped DEF Moved, Others

\* A call that goes on.
LEMMA PcMoved ==
  ASSUME TypeOK, NEW t \in Threads, NEW p \in OpPoints, op' = [op EXCEPT ![t].pc = p]
  PROVE  Moved(t, p, op[t].sub, op[t].el, op[t].rest)
<1>1. [op[t] EXCEPT !.pc = p] \in OpType
  BY OpTyped DEF OpType
<1>2. op' = [op EXCEPT ![t] = [op[t] EXCEPT !.pc = p]]
  OBVIOUS
<1>3. op' \in [Threads -> OpType]
  BY <1>1, <1>2, OpTyped
<1> QED BY <1>3 DEF Moved, Others, TypeOK

\* The next point of its list ...
LEMMA RestMoved ==
  ASSUME TypeOK, NEW t \in Threads, NEW r \in Seq(Subs), op' = [op EXCEPT ![t].rest = r]
  PROVE  Moved(t, op[t].pc, op[t].sub, op[t].el, r)
<1>1. [op[t] EXCEPT !.rest = r] \in OpType
  BY OpTyped DEF OpType
<1>2. op' = [op EXCEPT ![t] = [op[t] EXCEPT !.rest = r]]
  OBVIOUS
<1>3. op' \in [Threads -> OpType]
  BY <1>1, <1>2, OpTyped
<1> QED BY <1>3 DEF Moved, Others, TypeOK

\* ... and both.
LEMMA PcRestMoved ==
  ASSUME TypeOK, NEW t \in Threads, NEW p \in OpPoints, NEW r \in Seq(Subs),
         \/ op' = [op EXCEPT ![t].pc = p, ![t].rest = r]
         \/ op' = [op EXCEPT ![t].rest = r, ![t].pc = p]
  PROVE  Moved(t, p, op[t].sub, op[t].el, r)
<1> DEFINE v == [pc |-> p, sub |-> op[t].sub, el |-> op[t].el, rest |-> r]
<1>1. op' = [op EXCEPT ![t] = v]
  BY OpTyped
<1> HIDE DEF v
<1> QED BY <1>1, OpTyped, CallMoved DEF v

\* An sc_event.
LEMMA ValueChanged ==
  ASSUME TypeOK, NEW e \in Subs, NEW v \in EvtType, evt' = [evt EXCEPT ![e] = v]
  PROVE  Changed(e, v.state, v.flag, v.refs, v.callback, v.lock, v.doomed)
BY EvtTyped DEF Changed

\* Its references, ...
LEMMA RefsChanged ==
  ASSUME TypeOK, NEW e \in Subs, NEW n \in Nat, evt' = [evt EXCEPT ![e].refs = n]
  PROVE  Changed(e, evt[e].state, evt[e].flag, n, evt[e].callback, evt[e].lock, evt[e].doomed)
<1>1. [evt[e] EXCEPT !.refs = n] \in EvtType
  BY EvtTyped DEF EvtType
<1>2. evt' = [evt EXCEPT ![e] = [evt[e] EXCEPT !.refs = n]]
  OBVIOUS
<1>3. evt' \in [Subs -> EvtType]
  BY <1>1, <1>2, EvtTyped
<1> QED BY <1>3 DEF Changed, TypeOK

\* ... its state ...
LEMMA StateChanged ==
  ASSUME TypeOK, NEW e \in Subs, NEW st \in {"none", "live", "freed"}, evt' = [evt EXCEPT ![e].state = st]
  PROVE  Changed(e, st, evt[e].flag, evt[e].refs, evt[e].callback, evt[e].lock, evt[e].doomed)
<1>1. [evt[e] EXCEPT !.state = st] \in EvtType
  BY EvtTyped DEF EvtType
<1>2. evt' = [evt EXCEPT ![e] = [evt[e] EXCEPT !.state = st]]
  OBVIOUS
<1>3. evt' \in [Subs -> EvtType]
  BY <1>1, <1>2, EvtTyped
<1> QED BY <1>3 DEF Changed, TypeOK

\* ... and its flag.
LEMMA FlagChanged ==
  ASSUME TypeOK, NEW e \in Subs, NEW b \in BOOLEAN, evt' = [evt EXCEPT ![e].flag = b]
  PROVE  Changed(e, evt[e].state, b, evt[e].refs, evt[e].callback, evt[e].lock, evt[e].doomed)
<1>1. [evt[e] EXCEPT !.flag = b] \in EvtType
  BY EvtTyped DEF EvtType
<1>2. evt' = [evt EXCEPT ![e] = [evt[e] EXCEPT !.flag = b]]
  OBVIOUS
<1>3. evt' \in [Subs -> EvtType]
  BY <1>1, <1>2, EvtTyped
<1> QED BY <1>3 DEF Changed, TypeOK

-----------------------------------------------------------------------------
\* Lists of the threads.

\* No thread goes through a list while the mutex is free ...
LEMMA NoLists ==
  ASSUME CallInv, MutexFree
  PROVE  \A u \in Threads : op[u].pc \notin Listing /\ op[u].rest = <<>>
BY EventsAssumption DEF CallInv, MutexFree, Threads

\* ... and only one does while it is taken.
LEMMA OneList ==
  ASSUME CallInv, NEW t \in Threads, op[t].pc \in Listing
  PROVE  mutex = t /\ \A u \in Threads : u # t => op[u].pc \notin Listing /\ op[u].rest = <<>>
BY DEF CallInv

\* The sc_event it visits.
LEMMA Visited ==
  ASSUME TypeOK, TableInv, NEW t \in Threads, op[t].pc \in Listing, op[t].rest # <<>>,
         op[t].pc \in Emitting => op[t].el \in Elements
  PROVE  /\ Head(op[t].rest) \in Subs /\ Head(op[t].rest) \in ToSet(op[t].rest)
         /\ Tail(op[t].rest) \in Seq(Subs) /\ Distinct(Tail(op[t].rest))
         /\ ToSet(Tail(op[t].rest)) \subseteq ToSet(op[t].rest)
         /\ Head(op[t].rest) \notin ToSet(Tail(op[t].rest))
         /\ ToSet(op[t].rest) = ToSet(Tail(op[t].rest)) \cup {Head(op[t].rest)}
         /\ \A e \in ToSet(op[t].rest) : Live(evt[e])
<1>1. op[t].rest \in Seq(Subs) /\ Distinct(op[t].rest)
  BY DEF TypeOK, TableInv
<1>2. \A e \in ToSet(op[t].rest) : Live(evt[e])
  <2>1. CASE op[t].pc \in Emitting
    BY <2>1 DEF TableInv
  <2>2. CASE op[t].pc = "flag"
    BY <2>2 DEF TableInv
  <2> QED BY <2>1, <2>2 DEF Listing, Emitting
<1> QED BY <1>1, <1>2, TailList

\* Who appends, seen from the only thread that goes through a list.
LEMMA AppendsOne ==
  ASSUME NEW o, NEW t \in Threads, NEW e, \A u \in Threads : o[u].pc \in Listing => u = t
  PROVE  Appends(o, e) <=> (o[t].pc \in Appending /\ Head(o[t].rest) = e)
BY DEF Appends, Appending, Listing

\* Who waits ...
LEMMA WaitKept ==
  ASSUME NEW t \in Threads, Others(t), NEW e,
         op[t].pc = "wait" => op[t].sub # e,
         op'[t].pc = "wait" => op'[t].sub # e
  PROVE  Waited(op', e) <=> Waited(op, e)
BY DEF Others, Waited

\* ... and who appends, when thread t does neither.
LEMMA AppendsKept ==
  ASSUME NEW t \in Threads, Others(t), NEW e,
         op[t].pc \notin Appending, op'[t].pc \notin Appending
  PROVE  Appends(op', e) <=> Appends(op, e)
BY DEF Others, Appends

\* What is not in the queue ...
LEMMA Unqueued ==
  ASSUME NEW q, NEW e, e \notin ToSet(q)
  PROVE  Queued(q, e) = 0
<1>1. Places(q, e) = {}
  BY DEF Places, ToSet
<1> QED BY <1>1, FS_EmptySet DEF Queued

\* ... or in a job is not counted there.
LEMMA Unworked ==
  ASSUME NEW j, NEW e, \A w \in Workers : j[w].sub # e
  PROVE  Worked(j, e) = 0
<1>1. Running(j, e) = {}
  BY DEF Running
<1> QED BY <1>1, FS_EmptySet DEF Worked

\* What changes for one sc_event changes nothing for the references of others.
LEMMA ListenersKept ==
  ASSUME NEW t \in Threads, Others(t), NEW f \in Subs, NEW y \in Elements,
         (evt'[f].state = "live") = (evt[f].state = "live"),
         op[t].pc = "insert" => op[t].sub # f,
         op'[t].pc = "insert" => op'[t].sub # f
  PROVE  f \in Listeners(y)' <=> f \in Listeners(y)
BY DEF Listeners, Others

\* The process ends.
LEMMA CrashStep ==
  ASSUME IInv, crashed' \in {"no", "null_callback", "assert"},
         UNCHANGED <<evt, table, mutex, queue, running, pool, alive, ref_count, op, job, emits>>
  PROVE  IInv'
<1>1. RefsAccounted'
  BY DEF IInv, RefsAccounted, TypeOK, Holders
<1>2. CallInv' /\ SubInv' /\ TableInv' /\ JobInv'
  BY DEF IInv, CallInv, SubInv, TableInv, JobInv
<1>3. ElementInv'
  BY DEF IInv, ElementInv, Listeners
<1> QED BY <1>1, <1>2, <1>3 DEF IInv

-----------------------------------------------------------------------------
\* Every step preserves the invariant.

\* sc_event_new: the call begins with an sc_event that nothing knows.
LEMMA NewStep ==
  ASSUME IInv, NEW t \in Threads, NEW e \in Subs, New(t, e)
  PROVE  IInv'
<1>0. TypeOK /\ RefsAccounted /\ CallInv /\ SubInv /\ TableInv /\ JobInv /\ ElementInv
  BY DEF IInv, RefsAccounted
<1>1. Moved(t, "ref", e, NoSub, <<>>) /\ t \in Threads
  <2> DEFINE v == [NoOp EXCEPT !.pc = "ref", !.sub = e]
  <2>0. <<>> \in Seq(Subs)
    OBVIOUS
  <2>1. v.pc = "ref" /\ v.sub = e /\ v.el = NoSub /\ v.rest = <<>>
    BY DEF NoOp
  <2>2. v \in OpType
    BY <1>0, <2>0 DEF NoOp, OpType, OpPoints
  <2>3. op' = [op EXCEPT ![t] = v] /\ t \in Threads
    BY DEF New, CanCall, Threads
  <2> HIDE DEF v
  <2> QED BY <1>0, <2>1, <2>2, <2>3, ValueMoved
<1>2. evt' = evt
  BY DEF New, CanCall
<1>3. TypeOK'
  BY <1>0, <1>1, <1>2, EventsAssumption DEF New, CanCall, TypeOK, OpType, Moved, Others
<1>4. CallInv'
  BY <1>0, <1>1, <1>3, EventsAssumption DEF New, CanCall, CallInv, TypeOK, Moved, Others, NoOp, Listing, Emitting, Appending, Creating, Destroying
<1>5. SubInv'
  BY <1>0, <1>1, <1>2, <1>3, EventsAssumption DEF New, CanCall, SubInv, CallInv, TypeOK, Moved, Others, NoOp, Listing, Emitting, Appending, Creating, Destroying
<1>6. TableInv'
  <2>1. \/ op'[t] = op[t]
        \/ /\ op[t].pc # "flag" /\ op'[t].pc # "flag" /\ Distinct(op'[t].rest)
           /\ op'[t].pc \in Emitting => ToSet(op'[t].rest) \subseteq ToSet(table[op'[t].el])
    BY <1>0, <1>1, EmptyList DEF New, CanCall, CallInv, TableInv, Moved, NoOp, Listing, Emitting
  <2>2. \A f \in Subs : Live(evt'[f]) = Live(evt[f]) /\ Open(evt'[f]) = Open(evt[f])
    BY <1>2
  <2>3. table' = table /\ Others(t)
    BY <1>1 DEF New, CanCall, Moved, Others
  <2> QED BY <1>0, <1>1, <1>3, <2>1, <2>2, <2>3, TableKept
<1>7. JobInv'
  BY <1>0, <1>1, <1>2, <1>3, EventsAssumption DEF New, CanCall, JobInv, SubInv, TypeOK, NoJob, Listing, Emitting, Appending, Creating, Destroying
<1>8. RefsAccounted'
  <2>1. /\ \A f \in Subs : evt'[f].refs = evt[f].refs /\ (evt'[f].state = "live" => evt[f].state = "live")
        /\ \/ op'[t] = op[t]
           \/ /\ op[t].pc \notin Appending \cup {"wait"}
              /\ op'[t].pc \notin Appending \cup {"wait"}
    BY <1>0, <1>1, <1>2 DEF New, CanCall, Moved, Others, Appending, NoOp
  <2>2. queue' = queue /\ (running' => running) /\ Others(t) /\ \A v \in Workers : job'[v].sub = job[v].sub
    BY <1>0, <1>1 DEF New, CanCall, TypeOK, Moved, Others
  <2> QED BY <1>0, <1>1, <1>3, <1>4, <2>1, <2>2, RefsKept
<1>9. ElementInv'
  <2>1. /\ \A f \in Subs : (evt'[f].state = "live") = (evt[f].state = "live")
        /\ op'[t] = op[t] \/ (op[t].pc # "insert" /\ op'[t].pc # "insert")
    BY <1>0, <1>1, <1>2 DEF New, CanCall, Moved, Others, NoOp
  <2>2. alive' = alive /\ ref_count' = ref_count /\ Others(t)
    BY <1>1 DEF New, CanCall, Moved, Others
  <2> QED BY <1>0, <1>1, <2>1, <2>2, ElementKept
<1> QED BY <1>4, <1>5, <1>6, <1>7, <1>8, <1>9 DEF IInv

\* sc_storage_element_ref: the sc_event becomes one of the element's listeners.
LEMMA RefElementStep ==
  ASSUME IInv, NEW t \in Threads, RefElement(t),
         ref_count[Element[op[t].sub]] > 0, op' = [op EXCEPT ![t].pc = "insert"], crashed' = crashed,
         ref_count' = Refed(Element[op[t].sub])
  PROVE  IInv'
<1>0. TypeOK /\ RefsAccounted /\ CallInv /\ SubInv /\ TableInv /\ JobInv /\ ElementInv
  BY DEF IInv, RefsAccounted
<1> DEFINE e == op[t].sub
           x == Element[e]
<1>a. e \in Subs /\ x \in Elements /\ op[t].pc = "ref"
  BY <1>0, EventsAssumption DEF RefElement, CallInv, Creating
<1>b. evt[e].state = "none" /\ \A u \in Threads : op[u].sub = e => u = t
  BY <1>0, <1>a DEF CallInv, SubInv, Creating
<1>c. ref_count' \in [Elements -> Nat] /\ ref_count'[x] = ref_count[x] + 1
      /\ \A y \in Elements : y # x => ref_count'[y] = ref_count[y]
  BY <1>0, <1>a DEF TypeOK, Refed
<1>1. Moved(t, "insert", e, op[t].el, op[t].rest) /\ t \in Threads
  BY <1>0, PcMoved DEF OpPoints
<1>2. evt' = evt
  BY DEF RefElement, Refed
<1>3. TypeOK'
  BY <1>0, <1>1, <1>2, <1>c DEF RefElement, TypeOK, OpType, Moved
<1>4. CallInv'
  <2>1. op[t].pc = "ref" /\ mutex' = mutex
    BY DEF RefElement
  <2> QED BY <1>0, <1>1, <2>1 DEF CallInv, Moved, Others, Listing, Emitting, Appending, Creating, Destroying
<1>5. SubInv'
  BY <1>0, <1>1, <1>2, <1>3, EventsAssumption DEF RefElement, Refed, SubInv, CallInv, TypeOK, Moved, Others, NoOp, Listing, Emitting, Appending, Creating, Destroying
<1>6. TableInv'
  <2>1. \/ op'[t] = op[t]
        \/ /\ op[t].pc # "flag" /\ op'[t].pc # "flag" /\ Distinct(op'[t].rest)
           /\ op'[t].pc \in Emitting => ToSet(op'[t].rest) \subseteq ToSet(table[op'[t].el])
    BY <1>0, <1>1, EmptyList DEF RefElement, Refed, CallInv, TableInv, Moved, NoOp, Listing, Emitting
  <2>2. \A f \in Subs : Live(evt'[f]) = Live(evt[f]) /\ Open(evt'[f]) = Open(evt[f])
    BY <1>2
  <2>3. table' = table /\ Others(t)
    BY <1>1 DEF RefElement, Refed, Moved, Others
  <2> QED BY <1>0, <1>1, <1>3, <2>1, <2>2, <2>3, TableKept
<1>7. JobInv'
  BY <1>0, <1>1, <1>2, <1>3, EventsAssumption DEF RefElement, Refed, JobInv, SubInv, TypeOK, NoJob, Listing, Emitting, Appending, Creating, Destroying
<1>8. RefsAccounted'
  <2>1. /\ \A f \in Subs : evt'[f].refs = evt[f].refs /\ (evt'[f].state = "live" => evt[f].state = "live")
        /\ \/ op'[t] = op[t]
           \/ /\ op[t].pc \notin Appending \cup {"wait"}
              /\ op'[t].pc \notin Appending \cup {"wait"}
    BY <1>0, <1>1, <1>2 DEF RefElement, Refed, Moved, Others, Appending, NoOp
  <2>2. queue' = queue /\ (running' => running) /\ Others(t) /\ \A v \in Workers : job'[v].sub = job[v].sub
    BY <1>0, <1>1 DEF RefElement, Refed, TypeOK, Moved, Others
  <2> QED BY <1>0, <1>1, <1>3, <1>4, <2>1, <2>2, RefsKept
<1>9. ElementInv'
  <2>1. \A f \in Subs, y \in Elements : f # e => (f \in Listeners(y)' <=> f \in Listeners(y))
    BY <1>1, <1>2, <1>a, ListenersKept DEF Moved
  <2>2. e \in Listeners(x)' /\ e \notin Listeners(x) /\ \A y \in Elements : y # x => e \notin Listeners(y)' /\ e \notin Listeners(y)
    BY <1>1, <1>a, <1>b DEF Listeners, Moved
  <2>3. Listeners(x)' = Listeners(x) \cup {e}
    BY <1>a, <2>1, <2>2 DEF Listeners
  <2>4. \A y \in Elements : y # x => Listeners(y)' = Listeners(y)
    BY <2>1, <2>2 DEF Listeners
  <2>5. IsFiniteSet(Listeners(x)') /\ Cardinality(Listeners(x)') = Cardinality(Listeners(x)) + 1
    <3>1. IsFiniteSet(Listeners(x))
      BY <1>0, <1>a DEF ElementInv
    <3>2. /\ IsFiniteSet(Listeners(x) \cup {e})
          /\ Cardinality(Listeners(x) \cup {e}) = Cardinality(Listeners(x)) + 1
      BY <2>2, <3>1, FS_AddElement
    <3> QED BY <2>3, <3>2
  <2>6. Cardinality(Listeners(x)) \in Nat
    BY <1>0, <1>a, FS_CardinalityType DEF ElementInv
  <2>7. alive' = alive
    BY DEF RefElement
  <2> QED BY <1>0, <1>a, <1>c, <2>4, <2>5, <2>6, <2>7 DEF ElementInv
<1> QED BY <1>4, <1>5, <1>6, <1>7, <1>8, <1>9 DEF IInv

\* insert_event_into_table: a new sc_event, at the end of its element's list,
\* with the reference of its owner.
LEMMA InsertStep ==
  ASSUME IInv, NEW t \in Threads, Insert(t)
  PROVE  IInv'
<1>0. TypeOK /\ RefsAccounted /\ CallInv /\ SubInv /\ TableInv /\ JobInv /\ ElementInv
  BY DEF IInv, RefsAccounted
<1> DEFINE e == op[t].sub
           x == Element[e]
<1>a. e \in Subs /\ x \in Elements /\ op[t].pc = "insert"
  BY <1>0, EventsAssumption DEF Insert, CallInv, Creating
<1>b. evt[e].state = "none" /\ \A u \in Threads : op[u].sub = e => u = t
  BY <1>0, <1>a DEF CallInv, SubInv, Creating
<1>c. \A u \in Threads : op[u].pc \notin Listing /\ op[u].rest = <<>>
  BY <1>0, NoLists DEF Insert
<1>d. table[x] \in Seq(Subs) /\ e \notin ToSet(table[x]) /\ Distinct(table[x])
  BY <1>0, <1>a, <1>b DEF TypeOK, TableInv, Live
<1>e. table' = [table EXCEPT ![x] = Append(table[x], e)] /\ table' \in [Elements -> Seq(Subs)]
  BY <1>0, <1>a, <1>d, AppendList DEF Insert, TypeOK
<1>1. Moved(t, "idle", NoSub, NoSub, <<>>) /\ t \in Threads
  <2>1. NoOp.pc = "idle" /\ NoOp.sub = NoSub /\ NoOp.el = NoSub /\ NoOp.rest = <<>>
    BY DEF NoOp
  <2>2. <<>> \in Seq(Subs)
    OBVIOUS
  <2>3. NoOp \in OpType
    BY <2>2 DEF NoOp, OpType, OpPoints
  <2>4. op' = [op EXCEPT ![t] = NoOp]
    BY DEF Insert
  <2> QED BY <1>0, <2>1, <2>3, <2>4, ValueMoved
<1>2. Changed(e, "live", FALSE, 1, TRUE, NoThread, FALSE)
  <2> DEFINE v == [NewSub EXCEPT !.state = "live", !.refs = 1, !.callback = TRUE]
  <2>1. /\ v.state = "live" /\ v.flag = FALSE /\ v.refs = 1 /\ v.callback = TRUE
        /\ v.lock = NoThread /\ v.doomed = FALSE
    BY DEF NewSub
  <2>2. v \in EvtType
    BY DEF NewSub, EvtType
  <2>3. evt' = [evt EXCEPT ![e] = v]
    BY DEF Insert
  <2> HIDE DEF v
  <2> QED BY <1>0, <1>a, <2>1, <2>2, <2>3, ValueChanged
<1>3. TypeOK'
  BY <1>0, <1>1, <1>2, <1>e DEF Insert, TypeOK, OpType, EvtType, Moved, Changed
<1>4. CallInv'
  <2>1. \A u \in Threads : mutex' # u
    BY EventsAssumption DEF Insert, MutexFree, Threads
  <2>2. \A u \in Threads : u # t => op'[u] = op[u]
    BY <1>1 DEF Moved, Others
  <2>3. op'[t].pc = "idle" /\ op'[t].sub \notin Subs /\ op'[t].rest = <<>>
    BY <1>1, EventsAssumption DEF Moved
  <2>4. \A u \in Threads : op'[u].pc \notin Listing
    BY <1>c, <2>2, <2>3 DEF Listing
  <2> QED BY <1>0, <2>1, <2>2, <2>3, <2>4 DEF CallInv, Listing, Emitting, Appending, Creating, Destroying
<1>5. SubInv'
  BY <1>0, <1>1, <1>2, <1>3, EventsAssumption DEF Insert, MutexFree, NewSub, SubInv, CallInv, TypeOK, Moved, Others, Changed, NoOp, Listing, Emitting, Appending, Creating, Destroying
<1>6. TableInv'
  <2>1. \A y \in Elements : table'[y] = IF y = x THEN Append(table[x], e) ELSE table[y]
    BY <1>0, <1>a, <1>e DEF TypeOK
  <2>2. ToSet(table'[x]) = ToSet(table[x]) \cup {e} /\ Distinct(table'[x])
    BY <1>a, <1>d, <2>1, AppendList
  <2>3. Live(evt'[e]) /\ \A f \in Subs : f # e => evt'[f] = evt[f]
    BY <1>2 DEF Changed, Live
  <2>4. \A y \in Elements : ToSet(table[y]) \subseteq Subs
    BY <1>0, ListMembers DEF TypeOK
  <2>5. \A y \in Elements : e \notin ToSet(table[y])
    BY <1>0, <1>b DEF TableInv, Live
  <2>6. \A u \in Threads : op'[u].pc \notin Listing /\ op'[u].rest = <<>>
    BY <1>1, <1>c DEF Moved, Others, Listing
  <2>7. ASSUME NEW y \in Elements
        PROVE  Distinct(table'[y]) /\ \A f \in ToSet(table'[y]) : Element[f] = y /\ Live(evt'[f])
    <3>1. CASE y = x
      BY <1>0, <1>a, <2>2, <2>3, <2>4, <2>5, <3>1 DEF TableInv
    <3>2. CASE y # x
      BY <1>0, <2>1, <2>3, <2>4, <2>5, <3>2 DEF TableInv
    <3> QED BY <3>1, <3>2
  <2>8. ASSUME NEW f \in Subs, evt'[f].state = "live", ~evt'[f].flag
        PROVE  f \in ToSet(table'[Element[f]])
    <3>1. CASE f = e
      BY <2>2, <3>1
    <3>2. CASE f # e
      <4>1. f \in ToSet(table[Element[f]])
        BY <1>0, <1>c, <2>3, <2>8, <3>2 DEF TableInv, Listing
      <4> QED BY <1>a, <2>1, <2>2, <4>1, EventsAssumption
    <3> QED BY <3>1, <3>2
  <2> QED BY <2>6, <2>7, <2>8, EmptyList DEF TableInv, Listing, Emitting
<1>7. JobInv'
  BY <1>0, <1>1, <1>2, <1>3, EventsAssumption DEF Insert, MutexFree, NewSub, JobInv, SubInv, TypeOK, Changed, NoJob, Listing, Emitting, Appending, Creating, Destroying
<1>8. RefsAccounted'
  <2> SUFFICES ASSUME NEW f \in Subs PROVE Agrees(evt'[f], running', Counted(op', queue', job', f))
    BY <1>3, <1>4, RefsCountedNext
  <2>1. queue' = queue /\ job' = job /\ running' = running /\ Others(t)
    BY <1>1 DEF Insert, Moved
  <2>2. CASE f = e
    <3>1. ~Waited(op', e)
      <4>1. \A u \in Threads : u # t => op'[u].sub # e
        BY <1>b, <2>1 DEF Others
      <4> QED BY <1>1, <4>1 DEF Moved, Waited
    <3>2. ~Appends(op', e)
      BY <1>1, <1>c DEF Moved, Others, Appends, Appending, Listing
    <3>3. Queued(queue, e) = 0
      BY <1>0, <1>b, Unqueued DEF JobInv
    <3>4. Worked(job, e) = 0
      <4>1. \A w \in Workers : job[w].sub # e
        BY <1>0, <1>a, <1>b, EventsAssumption DEF JobInv, NoJob
      <4> QED BY <4>1, Unworked
    <3>5. Counted(op', queue', job', e) = 1
      BY <2>1, <3>1, <3>2, <3>3, <3>4 DEF Counted, One, Same
    <3> QED BY <1>2, <2>2, <3>5 DEF Agrees, Changed
  <2>3. CASE f # e
    <3>1. Counted(op', queue', job', f) = Counted(op, queue, job, f)
      BY <1>1, <1>a, <2>1, OpCountKept DEF Counted, Moved, Appending
    <3>2. Agrees(evt[f], running, Counted(op, queue, job, f))
      BY <1>0, RefsCounted
    <3> QED BY <1>2, <2>1, <2>3, <3>1, <3>2 DEF Changed
  <2> QED BY <2>2, <2>3
<1>9. ElementInv'
  <2>1. \A f \in Subs, y \in Elements : f # e => (f \in Listeners(y)' <=> f \in Listeners(y))
    BY <1>1, <1>2, <1>a, ListenersKept DEF Moved, Changed
  <2>2. \A y \in Elements : e \in Listeners(y)' <=> e \in Listeners(y)
    BY <1>1, <1>2, <1>a DEF Listeners, Changed
  <2>3. \A y \in Elements : Listeners(y)' = Listeners(y)
    BY <2>1, <2>2 DEF Listeners
  <2>4. alive' = alive /\ ref_count' = ref_count
    BY DEF Insert
  <2> QED BY <1>0, <2>3, <2>4 DEF ElementInv
<1> QED BY <1>4, <1>5, <1>6, <1>7, <1>8, <1>9 DEF IInv

\* sc_event_emit_impl takes the mutex and goes through the element's list.
LEMMA EmitStep ==
  ASSUME IInv, NEW t \in Threads, NEW x \in Elements, Emit(t, x)
  PROVE  IInv'
<1>0. TypeOK /\ RefsAccounted /\ CallInv /\ SubInv /\ TableInv /\ JobInv /\ ElementInv
  BY DEF IInv, RefsAccounted
<1>1. Moved(t, "emit", NoSub, x, table[x]) /\ t \in Threads
  <2> DEFINE v == [NoOp EXCEPT !.pc = "emit", !.el = x, !.rest = table[x]]
  <2>0. table[x] \in Seq(Subs)
    BY <1>0 DEF TypeOK
  <2>1. v.pc = "emit" /\ v.sub = NoSub /\ v.el = x /\ v.rest = table[x]
    BY DEF NoOp
  <2>2. v \in OpType
    BY <1>0, <2>0 DEF NoOp, OpType, OpPoints
  <2>3. op' = [op EXCEPT ![t] = v] /\ t \in Threads
    BY DEF Emit, CanCall, TakeMutex, MutexFree, Threads
  <2> HIDE DEF v
  <2> QED BY <1>0, <2>1, <2>2, <2>3, ValueMoved
<1>2. evt' = evt
  BY DEF Emit, CanCall, TakeMutex, MutexFree
<1>3. TypeOK'
  BY <1>0, <1>1, <1>2, EventsAssumption DEF Emit, CanCall, TakeMutex, MutexFree, TypeOK, OpType, Moved, Others
<1>4. CallInv'
  <2>1. mutex' = t /\ \A u \in Threads : op[u].pc \notin Listing
    BY <1>0, EventsAssumption DEF Emit, CanCall, TakeMutex, MutexFree, CallInv, Threads
  <2>2. \A u \in Threads : u # t => op'[u] = op[u]
    BY <1>1 DEF Moved, Others
  <2>3. op'[t].pc \in Emitting /\ op'[t].pc \notin Appending \cup Creating \cup Destroying /\ op'[t].sub \notin Subs /\ op'[t].el \in Elements
    BY <1>0, <1>1, EventsAssumption DEF Moved, Emit, CanCall, TakeMutex, MutexFree, CallInv, NoOp, Listing, Emitting, Appending, Creating, Destroying
  <2>4. op'[t].pc \in Listing
    BY <2>3 DEF Emitting, Listing
  <2> QED BY <1>0, <2>1, <2>2, <2>3, <2>4 DEF CallInv
<1>5. SubInv'
  BY <1>0, <1>1, <1>2, <1>3, EventsAssumption DEF Emit, CanCall, TakeMutex, MutexFree, SubInv, CallInv, TypeOK, Moved, Others, NoOp, Listing, Emitting, Appending, Creating, Destroying
<1>6. TableInv'
  <2>1. \/ op'[t] = op[t]
        \/ /\ op[t].pc # "flag" /\ op'[t].pc # "flag" /\ Distinct(op'[t].rest)
           /\ op'[t].pc \in Emitting => ToSet(op'[t].rest) \subseteq ToSet(table[op'[t].el])
    BY <1>0, <1>1, EmptyList DEF Emit, CanCall, TakeMutex, MutexFree, CallInv, TableInv, Moved, NoOp, Listing, Emitting
  <2>2. \A f \in Subs : Live(evt'[f]) = Live(evt[f]) /\ Open(evt'[f]) = Open(evt[f])
    BY <1>2
  <2>3. table' = table /\ Others(t)
    BY <1>1 DEF Emit, CanCall, TakeMutex, MutexFree, Moved, Others
  <2> QED BY <1>0, <1>1, <1>3, <2>1, <2>2, <2>3, TableKept
<1>7. JobInv'
  BY <1>0, <1>1, <1>2, <1>3, EventsAssumption DEF Emit, CanCall, TakeMutex, MutexFree, JobInv, SubInv, TypeOK, NoJob, Listing, Emitting, Appending, Creating, Destroying
<1>8. RefsAccounted'
  <2>1. /\ \A f \in Subs : evt'[f].refs = evt[f].refs /\ (evt'[f].state = "live" => evt[f].state = "live")
        /\ \/ op'[t] = op[t]
           \/ /\ op[t].pc \notin Appending \cup {"wait"}
              /\ op'[t].pc \notin Appending \cup {"wait"}
    BY <1>0, <1>1, <1>2 DEF Emit, CanCall, TakeMutex, MutexFree, Moved, Others, Appending, NoOp
  <2>2. queue' = queue /\ (running' => running) /\ Others(t) /\ \A v \in Workers : job'[v].sub = job[v].sub
    BY <1>0, <1>1 DEF Emit, CanCall, TakeMutex, MutexFree, TypeOK, Moved, Others
  <2> QED BY <1>0, <1>1, <1>3, <1>4, <2>1, <2>2, RefsKept
<1>9. ElementInv'
  <2>1. /\ \A f \in Subs : (evt'[f].state = "live") = (evt[f].state = "live")
        /\ op'[t] = op[t] \/ (op[t].pc # "insert" /\ op'[t].pc # "insert")
    BY <1>0, <1>1, <1>2 DEF Emit, CanCall, TakeMutex, MutexFree, Moved, Others, NoOp
  <2>2. alive' = alive /\ ref_count' = ref_count /\ Others(t)
    BY <1>1 DEF Emit, CanCall, TakeMutex, MutexFree, Moved, Others
  <2> QED BY <1>0, <1>1, <2>1, <2>2, ElementKept
<1> QED BY <1>4, <1>5, <1>6, <1>7, <1>8, <1>9 DEF IInv

\* sc_storage_element_free: the element gives back the reference of its existence.
LEMMA DeleteStep ==
  ASSUME IInv, NEW t \in Threads, NEW x \in Elements, Delete(t, x)
  PROVE  IInv'
<1>0. TypeOK /\ RefsAccounted /\ CallInv /\ SubInv /\ TableInv /\ JobInv /\ ElementInv
  BY DEF IInv, RefsAccounted
<1>a. ref_count[x] = Cardinality(Listeners(x)) + 1 /\ Cardinality(Listeners(x)) \in Nat
  BY <1>0, FS_CardinalityType DEF ElementInv, Delete
<1>1. Moved(t, "deleted", NoSub, x, <<>>) /\ t \in Threads
  <2> DEFINE v == [NoOp EXCEPT !.pc = "deleted", !.el = x]
  <2>0. <<>> \in Seq(Subs)
    OBVIOUS
  <2>1. v.pc = "deleted" /\ v.sub = NoSub /\ v.el = x /\ v.rest = <<>>
    BY DEF NoOp
  <2>2. v \in OpType
    BY <1>0, <2>0 DEF NoOp, OpType, OpPoints
  <2>3. op' = [op EXCEPT ![t] = v] /\ t \in Threads
    BY DEF Delete, CanCall, Threads
  <2> HIDE DEF v
  <2> QED BY <1>0, <2>1, <2>2, <2>3, ValueMoved
<1>2. evt' = evt
  BY DEF Delete, CanCall
<1>3. TypeOK'
  <2>1. ref_count' \in [Elements -> Nat] /\ alive' \subseteq Elements
    BY <1>0, <1>a DEF Delete, TypeOK
  <2> QED BY <1>0, <1>1, <1>2, <2>1 DEF Delete, TypeOK, OpType, Moved
<1>4. CallInv'
  BY <1>0, <1>1, <1>3, EventsAssumption DEF Delete, CanCall, CallInv, TypeOK, Moved, Others, NoOp, Listing, Emitting, Appending, Creating, Destroying
<1>5. SubInv'
  BY <1>0, <1>1, <1>2, <1>3, EventsAssumption DEF Delete, CanCall, SubInv, CallInv, TypeOK, Moved, Others, NoOp, Listing, Emitting, Appending, Creating, Destroying
<1>6. TableInv'
  <2>1. \/ op'[t] = op[t]
        \/ /\ op[t].pc # "flag" /\ op'[t].pc # "flag" /\ Distinct(op'[t].rest)
           /\ op'[t].pc \in Emitting => ToSet(op'[t].rest) \subseteq ToSet(table[op'[t].el])
    BY <1>0, <1>1, EmptyList DEF Delete, CanCall, CallInv, TableInv, Moved, NoOp, Listing, Emitting
  <2>2. \A f \in Subs : Live(evt'[f]) = Live(evt[f]) /\ Open(evt'[f]) = Open(evt[f])
    BY <1>2
  <2>3. table' = table /\ Others(t)
    BY <1>1 DEF Delete, CanCall, Moved, Others
  <2> QED BY <1>0, <1>1, <1>3, <2>1, <2>2, <2>3, TableKept
<1>7. JobInv'
  BY <1>0, <1>1, <1>2, <1>3, EventsAssumption DEF Delete, CanCall, JobInv, SubInv, TypeOK, NoJob, Listing, Emitting, Appending, Creating, Destroying
<1>8. RefsAccounted'
  <2>1. /\ \A f \in Subs : evt'[f].refs = evt[f].refs /\ (evt'[f].state = "live" => evt[f].state = "live")
        /\ \/ op'[t] = op[t]
           \/ /\ op[t].pc \notin Appending \cup {"wait"}
              /\ op'[t].pc \notin Appending \cup {"wait"}
    BY <1>0, <1>1, <1>2 DEF Delete, CanCall, Moved, Others, Appending, NoOp
  <2>2. queue' = queue /\ (running' => running) /\ Others(t) /\ \A v \in Workers : job'[v].sub = job[v].sub
    BY <1>0, <1>1 DEF Delete, CanCall, TypeOK, Moved, Others
  <2> QED BY <1>0, <1>1, <1>3, <1>4, <2>1, <2>2, RefsKept
<1>9. ElementInv'
  <2>1. \A y \in Elements : Listeners(y)' = Listeners(y)
    <3>1. \A f \in Subs, y \in Elements : f \in Listeners(y)' <=> f \in Listeners(y)
      BY <1>0, <1>1, <1>2, ListenersKept DEF Moved, Delete, CanCall, NoOp
    <3> QED BY <3>1 DEF Listeners
  <2>2. \A y \in Elements : IF y = x THEN ref_count'[y] = ref_count[y] - 1 /\ y \in alive /\ y \notin alive'
                                     ELSE ref_count'[y] = ref_count[y] /\ (y \in alive' <=> y \in alive)
    BY <1>0 DEF Delete, TypeOK
  <2> QED BY <1>0, <1>a, <2>1, <2>2 DEF ElementInv
<1> QED BY <1>4, <1>5, <1>6, <1>7, <1>8, <1>9 DEF IInv

\* The deletion emits as well.
LEMMA EmitDeletedStep ==
  ASSUME IInv, NEW t \in Threads, EmitDeleted(t)
  PROVE  IInv'
<1>0. TypeOK /\ RefsAccounted /\ CallInv /\ SubInv /\ TableInv /\ JobInv /\ ElementInv
  BY DEF IInv, RefsAccounted
<1>a. op[t].el \in Elements /\ table[op[t].el] \in Seq(Subs)
  BY <1>0 DEF EmitDeleted, TypeOK, CallInv
<1>1. Moved(t, "emit_deleted", op[t].sub, op[t].el, table[op[t].el]) /\ t \in Threads
  BY <1>0, <1>a, PcRestMoved DEF EmitDeleted, OpPoints
<1>2. evt' = evt
  BY DEF EmitDeleted, TakeMutex, MutexFree
<1>3. TypeOK'
  BY <1>0, <1>1, <1>2, EventsAssumption DEF EmitDeleted, TakeMutex, MutexFree, TypeOK, OpType, Moved, Others
<1>4. CallInv'
  <2>1. mutex' = t /\ \A u \in Threads : op[u].pc \notin Listing
    BY <1>0, EventsAssumption DEF EmitDeleted, TakeMutex, MutexFree, CallInv, Threads
  <2>2. \A u \in Threads : u # t => op'[u] = op[u]
    BY <1>1 DEF Moved, Others
  <2>3. op'[t].pc \in Emitting /\ op'[t].pc \notin Appending \cup Creating \cup Destroying /\ op'[t].sub \notin Subs /\ op'[t].el \in Elements
    BY <1>0, <1>1, EventsAssumption DEF Moved, EmitDeleted, TakeMutex, MutexFree, CallInv, NoOp, Listing, Emitting, Appending, Creating, Destroying
  <2>4. op'[t].pc \in Listing
    BY <2>3 DEF Emitting, Listing
  <2> QED BY <1>0, <2>1, <2>2, <2>3, <2>4 DEF CallInv
<1>5. SubInv'
  BY <1>0, <1>1, <1>2, <1>3, EventsAssumption DEF EmitDeleted, TakeMutex, MutexFree, SubInv, CallInv, TypeOK, Moved, Others, NoOp, Listing, Emitting, Appending, Creating, Destroying
<1>6. TableInv'
  <2>1. \/ op'[t] = op[t]
        \/ /\ op[t].pc # "flag" /\ op'[t].pc # "flag" /\ Distinct(op'[t].rest)
           /\ op'[t].pc \in Emitting => ToSet(op'[t].rest) \subseteq ToSet(table[op'[t].el])
    BY <1>0, <1>1, EmptyList DEF EmitDeleted, TakeMutex, MutexFree, CallInv, TableInv, Moved, NoOp, Listing, Emitting
  <2>2. \A f \in Subs : Live(evt'[f]) = Live(evt[f]) /\ Open(evt'[f]) = Open(evt[f])
    BY <1>2
  <2>3. table' = table /\ Others(t)
    BY <1>1 DEF EmitDeleted, TakeMutex, MutexFree, Moved, Others
  <2> QED BY <1>0, <1>1, <1>3, <2>1, <2>2, <2>3, TableKept
<1>7. JobInv'
  BY <1>0, <1>1, <1>2, <1>3, EventsAssumption DEF EmitDeleted, TakeMutex, MutexFree, JobInv, SubInv, TypeOK, NoJob, Listing, Emitting, Appending, Creating, Destroying
<1>8. RefsAccounted'
  <2>1. /\ \A f \in Subs : evt'[f].refs = evt[f].refs /\ (evt'[f].state = "live" => evt[f].state = "live")
        /\ \/ op'[t] = op[t]
           \/ /\ op[t].pc \notin Appending \cup {"wait"}
              /\ op'[t].pc \notin Appending \cup {"wait"}
    BY <1>0, <1>1, <1>2 DEF EmitDeleted, TakeMutex, MutexFree, Moved, Others, Appending, NoOp
  <2>2. queue' = queue /\ (running' => running) /\ Others(t) /\ \A v \in Workers : job'[v].sub = job[v].sub
    BY <1>0, <1>1 DEF EmitDeleted, TakeMutex, MutexFree, TypeOK, Moved, Others
  <2> QED BY <1>0, <1>1, <1>3, <1>4, <2>1, <2>2, RefsKept
<1>9. ElementInv'
  <2>1. /\ \A f \in Subs : (evt'[f].state = "live") = (evt[f].state = "live")
        /\ op'[t] = op[t] \/ (op[t].pc # "insert" /\ op'[t].pc # "insert")
    BY <1>0, <1>1, <1>2 DEF EmitDeleted, TakeMutex, MutexFree, Moved, Others, NoOp
  <2>2. alive' = alive /\ ref_count' = ref_count /\ Others(t)
    BY <1>1 DEF EmitDeleted, TakeMutex, MutexFree, Moved, Others
  <2> QED BY <1>0, <1>1, <2>1, <2>2, ElementKept
<1> QED BY <1>4, <1>5, <1>6, <1>7, <1>8, <1>9 DEF IInv

\* _sc_event_try_emit: the sc_event it visits is live, and gets one more reference.
LEMMA TryEmitStep ==
  ASSUME IInv, NEW t \in Threads, TryEmit(t)
  PROVE  IInv'
<1>0. TypeOK /\ RefsAccounted /\ CallInv /\ SubInv /\ TableInv /\ JobInv /\ ElementInv
  BY DEF IInv, RefsAccounted
<1>a. /\ op[t].pc \in {"emit", "emit_deleted"} /\ op[t].pc \in Listing /\ op[t].pc \in Emitting /\ op[t].el \in Elements
      /\ op[t].sub \notin Subs
  BY <1>0 DEF TryEmit, CallInv, Listing, Emitting, Creating, Destroying
<1>b. mutex = t /\ \A u \in Threads : u # t => op[u].pc \notin Listing /\ op[u].rest = <<>>
  BY <1>0, <1>a, OneList
<1> DEFINE e == Head(op[t].rest)
           p == IF op[t].pc = "emit" THEN "append" ELSE "append_deleted"
<1>c. e \in Subs /\ e \in ToSet(op[t].rest) /\ op[t].rest # <<>> /\ Live(evt[e])
  BY <1>0, <1>a, Visited DEF TryEmit
<1>d. op' = [op EXCEPT ![t].pc = p] /\ evt' = [evt EXCEPT ![e].refs = evt[e].refs + 1]
  BY <1>0, <1>c DEF TryEmit, Live, TypeOK
<1>e. evt[e].refs + 1 \in Nat
  <2>1. evt[e].refs \in Nat
    BY <1>0, <1>c, EvtTyped
  <2> QED BY <2>1
<1>1. Moved(t, p, op[t].sub, op[t].el, op[t].rest) /\ t \in Threads
  BY <1>0, <1>d, PcMoved DEF OpPoints
<1>2. Changed(e, evt[e].state, evt[e].flag, evt[e].refs + 1, evt[e].callback, evt[e].lock, evt[e].doomed)
  BY <1>0, <1>c, <1>d, <1>e, RefsChanged
<1>3. TypeOK'
  BY <1>0, <1>1, <1>2, EventsAssumption DEF TryEmit, Unlocked, TypeOK, OpType, EvtType, Moved, Others, Changed
<1>4. CallInv'
  <2>1. \A u \in Threads : u # t => op'[u] = op[u]
    BY <1>1 DEF Moved, Others
  <2>2. mutex' = mutex
    BY DEF TryEmit
  <2>3. op'[t].pc \in Listing /\ op'[t].pc \notin Creating \cup Destroying /\ op'[t].sub \notin Subs /\ op'[t].el \in Elements
    BY <1>1, <1>a DEF Moved, Listing, Creating, Destroying
  <2>4. op'[t].pc \in Appending => op'[t].rest # <<>>
    BY <1>1, <1>c DEF Moved, Appending, TryEmit
  <2> QED BY <1>0, <1>b, <2>1, <2>2, <2>3, <2>4 DEF CallInv
<1>5. SubInv'
  <2>1. \A u \in Threads : u # t => op'[u] = op[u]
    BY <1>1 DEF Moved, Others
  <2>2. op[t].pc \notin Creating \cup Destroying /\ op'[t].pc \notin Creating \cup Destroying
    BY <1>1, <1>a DEF Moved, Creating, Destroying
  <2>3. \A f \in Subs : /\ evt'[f].state = evt[f].state /\ evt'[f].doomed = evt[f].doomed
                       /\ evt'[f].lock = evt[f].lock /\ evt'[f].flag = evt[f].flag
    BY <1>2 DEF Changed
  <2>4. \A u \in Threads : op[u].pc \in Creating \cup Destroying => op[u].sub \in Subs
    BY <1>0 DEF CallInv
  <2> QED BY <1>0, <2>1, <2>2, <2>3, <2>4 DEF SubInv, Creating, Destroying
<1>6. TableInv'
  <2>1. /\ op[t].pc # "flag" /\ op'[t].pc # "flag" /\ Distinct(op'[t].rest)
        /\ ToSet(op'[t].rest) \subseteq ToSet(table[op'[t].el])
    BY <1>0, <1>1, <1>a DEF TableInv, Moved
  <2>2. \A f \in Subs : Live(evt'[f]) = Live(evt[f]) /\ Open(evt'[f]) = Open(evt[f])
    BY <1>2 DEF Changed, Live, Open
  <2>3. table' = table /\ Others(t)
    BY <1>1 DEF TryEmit, Moved
  <2> QED BY <1>0, <1>1, <1>3, <2>1, <2>2, <2>3, TableKept
<1>7. JobInv'
  <2>1. queue' = queue /\ job' = job
    BY DEF TryEmit
  <2>2. \A f \in Subs : evt'[f].state = evt[f].state
    BY <1>2 DEF Changed
  <2>3. ToSet(queue) \subseteq Subs
    BY <1>0, ListMembers DEF TypeOK
  <2> QED BY <1>0, <2>1, <2>2, <2>3 DEF JobInv
<1>8. RefsAccounted'
  <2> SUFFICES ASSUME NEW f \in Subs PROVE Agrees(evt'[f], running', Counted(op', queue', job', f))
    BY <1>3, <1>4, RefsCountedNext
  <2>1. queue' = queue /\ job' = job /\ running' = running /\ Others(t)
    BY <1>1 DEF TryEmit, Moved
  <2>2. Waited(op', f) <=> Waited(op, f)
    BY <1>1, <1>a, <2>1, WaitKept DEF Moved
  <2>3. ~Appends(op, f)
    BY <1>a, <1>b, AppendsOne DEF Appending
  <2>4. Appends(op', f) <=> e = f
    <3>1. \A u \in Threads : op'[u].pc \in Listing => u = t
      BY <1>b, <2>1 DEF Others
    <3>2. op'[t].pc \in Appending /\ Head(op'[t].rest) = e
      BY <1>1 DEF Moved, Appending
    <3> QED BY <3>1, <3>2, AppendsOne
  <2>5. Counted(op', queue', job', f) = Counted(op, queue, job, f) + Same(e, f)
    <3>1. Queued(queue, f) \in Nat /\ Worked(job, f) \in Nat
      BY <1>0, QueuedType, WorkedType DEF TypeOK
    <3>2. One(~Waited(op', f)) = One(~Waited(op, f)) /\ One(~Waited(op, f)) \in Nat
      BY <2>2 DEF One, Same
    <3>3. One(Appends(op', f)) = Same(e, f) /\ One(Appends(op, f)) = 0 /\ Same(e, f) \in Nat
      BY <2>3, <2>4 DEF One, Same
    <3> QED BY <2>1, <3>1, <3>2, <3>3 DEF Counted
  <2>6. Agrees(evt[f], running, Counted(op, queue, job, f)) /\ Counted(op, queue, job, f) \in Nat
    BY <1>0, RefsCounted, CountedType DEF TypeOK
  <2>7. evt'[f].state = evt[f].state /\ evt'[f].refs = evt[f].refs + Same(e, f) /\ evt[f].refs \in Nat
    <3>1. evt[f].refs \in Nat
      BY <1>0, EvtTyped
    <3>2. CASE e = f
      BY <1>2, <3>1, <3>2 DEF Changed, One, Same
    <3>3. CASE e # f
      BY <1>2, <3>1, <3>3 DEF Changed, One, Same
    <3> QED BY <3>2, <3>3
  <2>8. Same(e, f) \in Nat
    BY DEF One, Same
  <2> QED BY <2>1, <2>5, <2>6, <2>7, <2>8 DEF Agrees
<1>9. ElementInv'
  <2>1. /\ \A f \in Subs : (evt'[f].state = "live") = (evt[f].state = "live")
        /\ op'[t] = op[t] \/ (op[t].pc # "insert" /\ op'[t].pc # "insert")
    BY <1>0, <1>1, <1>2 DEF TryEmit, Unlocked, Moved, Others, Changed, NoOp
  <2>2. alive' = alive /\ ref_count' = ref_count /\ Others(t)
    BY <1>1 DEF TryEmit, Unlocked, Moved, Others
  <2> QED BY <1>0, <1>1, <2>1, <2>2, ElementKept
<1> QED BY <1>4, <1>5, <1>6, <1>7, <1>8, <1>9 DEF IInv

\* sc_event_queue_append: the reference of the emission becomes that of the job;
\* a stopped queue leaves it behind.
LEMMA AppendJobStep ==
  ASSUME IInv, NEW t \in Threads, AppendJob(t)
  PROVE  IInv'
<1>0. TypeOK /\ RefsAccounted /\ CallInv /\ SubInv /\ TableInv /\ JobInv /\ ElementInv
  BY DEF IInv, RefsAccounted
<1> DEFINE e == Head(op[t].rest)
           p == IF op[t].pc = "append" THEN "emit" ELSE "emit_deleted"
<1>a. /\ op[t].pc \in Appending /\ op[t].pc \in Listing /\ op[t].pc \in Emitting /\ op[t].el \in Elements
      /\ op[t].sub \notin Subs /\ op[t].rest # <<>>
  BY <1>0 DEF AppendJob, CallInv, Listing, Emitting, Appending, Creating, Destroying
<1>b. mutex = t /\ \A u \in Threads : u # t => op[u].pc \notin Listing /\ op[u].rest = <<>>
  BY <1>0, <1>a, OneList
<1>c. /\ e \in Subs /\ e \in ToSet(op[t].rest) /\ Live(evt[e]) /\ Tail(op[t].rest) \in Seq(Subs)
      /\ Distinct(Tail(op[t].rest)) /\ ToSet(Tail(op[t].rest)) \subseteq ToSet(op[t].rest)
  BY <1>0, <1>a, Visited
<1>d. op' = [op EXCEPT ![t].rest = Tail(op[t].rest), ![t].pc = p]
  BY <1>0 DEF AppendJob, TypeOK
<1>e. queue' \in Seq(Subs) /\ \A f \in Subs : f \in ToSet(queue') => f \in ToSet(queue) \/ f = e
  BY <1>0, <1>c, AppendList DEF AppendJob, TypeOK
<1>1. Moved(t, p, op[t].sub, op[t].el, Tail(op[t].rest)) /\ t \in Threads
  <2>1. p \in OpPoints
    BY DEF OpPoints
  <2> QED BY <1>0, <1>c, <1>d, <2>1, PcRestMoved
<1>2. evt' = evt
  BY DEF AppendJob
<1>3. TypeOK'
  BY <1>0, <1>1, <1>2, <1>e DEF AppendJob, TypeOK, OpType, Moved
<1>4. CallInv'
  <2>1. \A u \in Threads : u # t => op'[u] = op[u]
    BY <1>1 DEF Moved, Others
  <2>2. mutex' = mutex
    BY DEF AppendJob
  <2>3. op'[t].pc \in Listing /\ op'[t].pc \notin Creating \cup Destroying /\ op'[t].sub \notin Subs /\ op'[t].el \in Elements
    BY <1>1, <1>a DEF Moved, Listing, Creating, Destroying
  <2>4. op'[t].pc \in Appending => op'[t].rest # <<>>
    BY <1>1, <1>c DEF Moved, Appending, AppendJob
  <2> QED BY <1>0, <1>b, <2>1, <2>2, <2>3, <2>4 DEF CallInv
<1>5. SubInv'
  <2>1. \A u \in Threads : u # t => op'[u] = op[u]
    BY <1>1 DEF Moved, Others
  <2>2. op[t].pc \notin Creating \cup Destroying /\ op'[t].pc \notin Creating \cup Destroying
    BY <1>1, <1>a DEF Moved, Appending, Creating, Destroying
  <2>3. \A f \in Subs : /\ evt'[f].state = evt[f].state /\ evt'[f].doomed = evt[f].doomed
                       /\ evt'[f].lock = evt[f].lock /\ evt'[f].flag = evt[f].flag
    BY <1>2
  <2>4. \A u \in Threads : op[u].pc \in Creating \cup Destroying => op[u].sub \in Subs
    BY <1>0 DEF CallInv
  <2> QED BY <1>0, <2>1, <2>2, <2>3, <2>4 DEF SubInv, Creating, Destroying
<1>6. TableInv'
  <2>1. /\ op[t].pc # "flag" /\ op'[t].pc # "flag" /\ Distinct(op'[t].rest)
        /\ ToSet(op'[t].rest) \subseteq ToSet(table[op'[t].el])
    BY <1>0, <1>1, <1>a, <1>c DEF TableInv, Moved, Appending
  <2>2. \A f \in Subs : Live(evt'[f]) = Live(evt[f]) /\ Open(evt'[f]) = Open(evt[f])
    BY <1>2
  <2>3. table' = table /\ Others(t)
    BY <1>1 DEF AppendJob, Moved
  <2> QED BY <1>0, <1>1, <1>3, <2>1, <2>2, <2>3, TableKept
<1>7. JobInv'
  <2>1. job' = job
    BY DEF AppendJob
  <2>2. ToSet(queue') \subseteq Subs
    BY <1>e, ListMembers
  <2> QED BY <1>0, <1>2, <1>c, <1>e, <2>1, <2>2 DEF JobInv, Live
<1>8. RefsAccounted'
  <2> SUFFICES ASSUME NEW f \in Subs PROVE Agrees(evt'[f], running', Counted(op', queue', job', f))
    BY <1>3, <1>4, RefsCountedNext
  <2>1. evt' = evt /\ job' = job /\ running' = running /\ Others(t)
    BY <1>1 DEF AppendJob, Moved
  <2>2. Waited(op', f) <=> Waited(op, f)
    BY <1>1, <1>a, <2>1, WaitKept DEF Moved, Appending
  <2>3. Appends(op, f) <=> e = f
    BY <1>a, <1>b, AppendsOne
  <2>4. ~Appends(op', f)
    <3>1. \A u \in Threads : op'[u].pc \in Listing => u = t
      BY <1>b, <2>1 DEF Others
    <3>2. op'[t].pc \notin Appending
      BY <1>1 DEF Moved, Appending
    <3> QED BY <3>1, <3>2, AppendsOne
  <2>5. One(~Waited(op', f)) = One(~Waited(op, f)) /\ One(~Waited(op, f)) \in Nat
    BY <2>2 DEF One, Same
  <2>6. One(Appends(op, f)) = Same(f, e) /\ One(Appends(op', f)) = 0 /\ Same(f, e) \in Nat
    BY <2>3, <2>4 DEF One, Same
  <2>7. Queued(queue, f) \in Nat /\ Worked(job, f) \in Nat /\ queue \in Seq(Subs)
    BY <1>0, QueuedType, WorkedType DEF TypeOK
  <2>8. Agrees(evt[f], running, Counted(op, queue, job, f)) /\ evt[f].refs \in Nat
    BY <1>0, RefsCounted, EvtTyped
  <2>9. CASE running
    <3>1. queue' = Append(queue, e)
      BY <2>9 DEF AppendJob
    <3>2. Queued(queue', f) = Queued(queue, f) + Same(f, e)
      BY <1>c, <2>7, <3>1, QueuedAppend
    <3>3. Counted(op', queue', job', f) = Counted(op, queue, job, f)
      BY <2>1, <2>5, <2>6, <2>7, <3>2 DEF Counted
    <3> QED BY <2>1, <2>8, <3>3
  <2>10. CASE ~running
    <3>1. queue' = queue
      BY <2>10 DEF AppendJob
    <3>2. Counted(op', queue', job', f) + Same(f, e) = Counted(op, queue, job, f)
      BY <2>1, <2>5, <2>6, <2>7, <3>1 DEF Counted
    <3>3. Counted(op', queue', job', f) \in Nat /\ Counted(op, queue, job, f) \in Nat
      BY <1>e, <2>7, CountedType
    <3> QED BY <2>1, <2>6, <2>8, <2>10, <3>2, <3>3 DEF Agrees
  <2> QED BY <2>9, <2>10
<1>9. ElementInv'
  <2>1. /\ \A f \in Subs : (evt'[f].state = "live") = (evt[f].state = "live")
        /\ op'[t] = op[t] \/ (op[t].pc # "insert" /\ op'[t].pc # "insert")
    BY <1>0, <1>1, <1>2 DEF AppendJob, Moved, Others, NoOp
  <2>2. alive' = alive /\ ref_count' = ref_count /\ Others(t)
    BY <1>1 DEF AppendJob, Moved, Others
  <2> QED BY <1>0, <1>1, <2>1, <2>2, ElementKept
<1> QED BY <1>4, <1>5, <1>6, <1>7, <1>8, <1>9 DEF IInv

\* The list ends and the mutex is free.
LEMMA EmittedStep ==
  ASSUME IInv, NEW t \in Threads, Emitted(t)
  PROVE  IInv'
<1>0. TypeOK /\ RefsAccounted /\ CallInv /\ SubInv /\ TableInv /\ JobInv /\ ElementInv
  BY DEF IInv, RefsAccounted
<1>a. /\ op[t].pc \in {"emit", "emit_deleted"} /\ op[t].pc \in Listing /\ op[t].pc \in Emitting /\ op[t].el \in Elements
      /\ op[t].sub \notin Subs
  BY <1>0 DEF Emitted, CallInv, Listing, Emitting, Creating, Destroying
<1>b. mutex = t /\ \A u \in Threads : u # t => op[u].pc \notin Listing /\ op[u].rest = <<>>
  BY <1>0, <1>a, OneList
<1> DEFINE p == IF op[t].pc = "emit" THEN "idle" ELSE "notify"
           x == IF op[t].pc = "emit" THEN NoSub ELSE op[t].el
<1>c. op[t].rest = <<>> /\ mutex' = NoThread
  BY DEF Emitted
<1>d. op[t].sub = NoSub
  BY <1>0, <1>a, OpTyped
<1>1. Moved(t, p, NoSub, x, <<>>) /\ t \in Threads
  <2>0. <<>> \in Seq(Subs)
    OBVIOUS
  <2>1. CASE op[t].pc = "emit"
    <3>1. NoOp.pc = "idle" /\ NoOp.sub = NoSub /\ NoOp.el = NoSub /\ NoOp.rest = <<>>
      BY DEF NoOp
    <3>2. NoOp \in OpType
      BY <2>0 DEF NoOp, OpType, OpPoints
    <3>3. op' = [op EXCEPT ![t] = NoOp]
      BY <2>1 DEF Emitted
    <3> QED BY <1>0, <2>1, <3>1, <3>2, <3>3, ValueMoved
  <2>2. CASE op[t].pc # "emit"
    <3>1. op' = [op EXCEPT ![t].pc = "notify"]
      BY <2>2 DEF Emitted
    <3> QED BY <1>0, <1>c, <1>d, <2>2, <3>1, PcMoved DEF OpPoints
  <2> QED BY <2>1, <2>2
<1>2. evt' = evt
  BY DEF Emitted
<1>3. TypeOK'
  BY <1>0, <1>1, <1>2, EventsAssumption DEF Emitted, TypeOK, OpType, Moved, Others
<1>4. CallInv'
  <2>1. \A u \in Threads : u # t => op'[u] = op[u]
    BY <1>1 DEF Moved, Others
  <2>2. \A u \in Threads : mutex' # u
    BY <1>c, EventsAssumption DEF Threads
  <2>3. /\ op'[t].pc \notin Listing \cup Emitting \cup Creating \cup Destroying \cup Appending
        /\ op'[t].sub \notin Subs /\ op'[t].rest = <<>>
    BY <1>1, EventsAssumption DEF Moved, Listing, Emitting, Creating, Destroying, Appending
  <2>4. op'[t].pc \in {"deleted", "notify", "flag"} => op'[t].el \in Elements
    BY <1>1, <1>a DEF Moved
  <2> QED BY <1>0, <1>b, <2>1, <2>2, <2>3, <2>4 DEF CallInv
<1>5. SubInv'
  <2>1. \A u \in Threads : u # t => op'[u] = op[u]
    BY <1>1 DEF Moved, Others
  <2>2. op[t].pc \notin Creating \cup Destroying /\ op'[t].pc \notin Creating \cup Destroying
    BY <1>1, <1>a DEF Moved, Creating, Destroying
  <2>3. \A f \in Subs : /\ evt'[f].state = evt[f].state /\ evt'[f].doomed = evt[f].doomed
                       /\ evt'[f].lock = evt[f].lock /\ evt'[f].flag = evt[f].flag
    BY <1>2
  <2>4. \A u \in Threads : op[u].pc \in Creating \cup Destroying => op[u].sub \in Subs
    BY <1>0 DEF CallInv
  <2> QED BY <1>0, <2>1, <2>2, <2>3, <2>4 DEF SubInv, Creating, Destroying
<1>6. TableInv'
  <2>1. \/ op'[t] = op[t]
        \/ /\ op[t].pc # "flag" /\ op'[t].pc # "flag" /\ Distinct(op'[t].rest)
           /\ op'[t].pc \in Emitting => ToSet(op'[t].rest) \subseteq ToSet(table[op'[t].el])
    BY <1>0, <1>1, EmptyList DEF Emitted, CallInv, TableInv, Moved, NoOp, Listing, Emitting
  <2>2. \A f \in Subs : Live(evt'[f]) = Live(evt[f]) /\ Open(evt'[f]) = Open(evt[f])
    BY <1>2
  <2>3. table' = table /\ Others(t)
    BY <1>1 DEF Emitted, Moved, Others
  <2> QED BY <1>0, <1>1, <1>3, <2>1, <2>2, <2>3, TableKept
<1>7. JobInv'
  BY <1>0, <1>1, <1>2, <1>3, EventsAssumption DEF Emitted, JobInv, SubInv, TypeOK, NoJob, Listing, Emitting, Appending, Creating, Destroying
<1>8. RefsAccounted'
  <2>1. /\ \A f \in Subs : evt'[f].refs = evt[f].refs /\ (evt'[f].state = "live" => evt[f].state = "live")
        /\ \/ op'[t] = op[t]
           \/ /\ op[t].pc \notin Appending \cup {"wait"}
              /\ op'[t].pc \notin Appending \cup {"wait"}
    BY <1>0, <1>1, <1>2 DEF Emitted, Moved, Others, Appending, NoOp
  <2>2. queue' = queue /\ (running' => running) /\ Others(t) /\ \A v \in Workers : job'[v].sub = job[v].sub
    BY <1>0, <1>1 DEF Emitted, TypeOK, Moved, Others
  <2> QED BY <1>0, <1>1, <1>3, <1>4, <2>1, <2>2, RefsKept
<1>9. ElementInv'
  <2>1. /\ \A f \in Subs : (evt'[f].state = "live") = (evt[f].state = "live")
        /\ op'[t] = op[t] \/ (op[t].pc # "insert" /\ op'[t].pc # "insert")
    BY <1>0, <1>1, <1>2 DEF Emitted, Moved, Others, NoOp
  <2>2. alive' = alive /\ ref_count' = ref_count /\ Others(t)
    BY <1>1 DEF Emitted, Moved, Others
  <2> QED BY <1>0, <1>1, <2>1, <2>2, ElementKept
<1> QED BY <1>4, <1>5, <1>6, <1>7, <1>8, <1>9 DEF IInv

\* sc_event_notify_element_deleted takes the element's list out of the table.
LEMMA NotifyStep ==
  ASSUME IInv, NEW t \in Threads, Notify(t)
  PROVE  IInv'
<1>0. TypeOK /\ RefsAccounted /\ CallInv /\ SubInv /\ TableInv /\ JobInv /\ ElementInv
  BY DEF IInv, RefsAccounted
<1> DEFINE x == op[t].el
<1>a. op[t].pc = "notify" /\ x \in Elements /\ op[t].sub \notin Subs /\ mutex' = t
  BY <1>0 DEF Notify, CallInv, Creating, Destroying
<1>b. mutex = NoThread /\ \A u \in Threads : op[u].pc \notin Listing /\ op[u].rest = <<>>
  BY <1>0, NoLists DEF Notify, MutexFree
<1>c. table[x] \in Seq(Subs) /\ ToSet(table[x]) \subseteq Subs
  BY <1>0, <1>a, ListMembers DEF TypeOK
<1>d. /\ table' \in [Elements -> Seq(Subs)] /\ table'[x] = <<>>
      /\ \A y \in Elements : y # x => table'[y] = table[y]
  <2>1. <<>> \in Seq(Subs)
    OBVIOUS
  <2> QED BY <1>0, <1>a, <2>1 DEF Notify, TypeOK
<1>1. Moved(t, "flag", op[t].sub, x, table[x]) /\ t \in Threads
  BY <1>0, <1>c, PcRestMoved DEF Notify, OpPoints
<1>2. evt' = evt
  BY DEF Notify, MutexFree
<1>3. TypeOK'
  BY <1>0, <1>1, <1>2, <1>d DEF Notify, TypeOK, OpType, Moved
<1>4. CallInv'
  <2>1. \A u \in Threads : u # t => op'[u] = op[u]
    BY <1>1 DEF Moved, Others
  <2>2. /\ op'[t].pc = "flag" /\ op'[t].pc \in Listing
        /\ op'[t].pc \notin Creating \cup Destroying \cup Appending
        /\ op'[t].sub \notin Subs /\ op'[t].el \in Elements
    BY <1>1, <1>a DEF Moved, Listing, Creating, Destroying, Appending
  <2> QED BY <1>0, <1>a, <1>b, <2>1, <2>2 DEF CallInv
<1>5. SubInv'
  <2>1. \A u \in Threads : u # t => op'[u] = op[u]
    BY <1>1 DEF Moved, Others
  <2>2. op[t].pc \notin Creating \cup Destroying /\ op'[t].pc \notin Creating \cup Destroying
    BY <1>1, <1>a DEF Moved, Creating, Destroying
  <2>3. \A f \in Subs : /\ evt'[f].state = evt[f].state /\ evt'[f].doomed = evt[f].doomed
                       /\ evt'[f].lock = evt[f].lock /\ evt'[f].flag = evt[f].flag
    BY <1>2
  <2>4. \A u \in Threads : op[u].pc \in Creating \cup Destroying => op[u].sub \in Subs
    BY <1>0 DEF CallInv
  <2> QED BY <1>0, <2>1, <2>2, <2>3, <2>4 DEF SubInv, Creating, Destroying
<1>6. TableInv'
  <2>1. \A u \in Threads : u # t => op'[u].pc \notin Listing /\ op'[u].rest = <<>>
    BY <1>1, <1>b DEF Moved, Others
  <2>2. \A y \in Elements : \A e \in ToSet(table[y]) : Element[e] = y /\ Live(evt[e])
    BY <1>0 DEF TableInv
  <2>3. ASSUME NEW y \in Elements
        PROVE  Distinct(table'[y]) /\ \A e \in ToSet(table'[y]) : Element[e] = y /\ Live(evt'[e])
    BY <1>0, <1>2, <1>d, EmptyList DEF TableInv
  <2>4. \A e \in ToSet(table[x]) : Live(evt'[e]) /\ \A y \in Elements : e \notin ToSet(table'[y])
    <3> SUFFICES ASSUME NEW e \in ToSet(table[x]), NEW y \in Elements
                 PROVE  Live(evt'[e]) /\ e \notin ToSet(table'[y])
      BY <1>a DEF TableInv
    <3>1. Element[e] = x /\ Live(evt'[e])
      BY <1>2, <1>a, <2>2
    <3>2. CASE y = x
      BY <1>d, <3>1, <3>2, EmptyList
    <3>3. CASE y # x
      BY <1>d, <2>2, <3>1, <3>3
    <3> QED BY <3>2, <3>3
  <2>5. ASSUME NEW u \in Threads
        PROVE  /\ Distinct(op'[u].rest)
               /\ op'[u].pc \in Emitting => ToSet(op'[u].rest) \subseteq ToSet(table'[op'[u].el])
               /\ op'[u].pc = "flag" => \A e \in ToSet(op'[u].rest) :
                    Live(evt'[e]) /\ \A y \in Elements : e \notin ToSet(table'[y])
    <3>1. CASE u = t
      BY <1>0, <1>1, <1>a, <2>4, <3>1 DEF Moved, Emitting, TableInv
    <3>2. CASE u # t
      BY <2>1, <3>2, EmptyList DEF Listing, Emitting
    <3> QED BY <3>1, <3>2
  <2>6. ASSUME NEW e \in Subs, evt'[e].state = "live", ~evt'[e].flag
        PROVE  \/ e \in ToSet(table'[Element[e]])
               \/ \E u \in Threads : op'[u].pc = "flag" /\ e \in ToSet(op'[u].rest)
    <3>1. e \in ToSet(table[Element[e]])
      BY <1>0, <1>2, <1>b, <2>6 DEF TableInv, Listing
    <3>2. CASE Element[e] = x
      BY <1>1, <3>1, <3>2 DEF Moved
    <3>3. CASE Element[e] # x
      BY <1>d, <3>1, <3>3, EventsAssumption
    <3> QED BY <3>2, <3>3
  <2> QED BY <2>3, <2>5, <2>6 DEF TableInv
<1>7. JobInv'
  BY <1>0, <1>1, <1>2, <1>3, EventsAssumption DEF Notify, MutexFree, JobInv, SubInv, TypeOK, NoJob, Listing, Emitting, Appending, Creating, Destroying
<1>8. RefsAccounted'
  <2>1. /\ \A f \in Subs : evt'[f].refs = evt[f].refs /\ (evt'[f].state = "live" => evt[f].state = "live")
        /\ \/ op'[t] = op[t]
           \/ /\ op[t].pc \notin Appending \cup {"wait"}
              /\ op'[t].pc \notin Appending \cup {"wait"}
    BY <1>0, <1>1, <1>2 DEF Notify, MutexFree, Moved, Others, Appending, NoOp
  <2>2. queue' = queue /\ (running' => running) /\ Others(t) /\ \A v \in Workers : job'[v].sub = job[v].sub
    BY <1>0, <1>1 DEF Notify, MutexFree, TypeOK, Moved, Others
  <2> QED BY <1>0, <1>1, <1>3, <1>4, <2>1, <2>2, RefsKept
<1>9. ElementInv'
  <2>1. /\ \A f \in Subs : (evt'[f].state = "live") = (evt[f].state = "live")
        /\ op'[t] = op[t] \/ (op[t].pc # "insert" /\ op'[t].pc # "insert")
    BY <1>0, <1>1, <1>2 DEF Notify, MutexFree, Moved, Others, NoOp
  <2>2. alive' = alive /\ ref_count' = ref_count /\ Others(t)
    BY <1>1 DEF Notify, MutexFree, Moved, Others
  <2> QED BY <1>0, <1>1, <2>1, <2>2, ElementKept
<1> QED BY <1>4, <1>5, <1>6, <1>7, <1>8, <1>9 DEF IInv

\* It flags each sc_event of that list.
LEMMA FlagStep ==
  ASSUME IInv, NEW t \in Threads, Flag(t)
  PROVE  IInv'
<1>0. TypeOK /\ RefsAccounted /\ CallInv /\ SubInv /\ TableInv /\ JobInv /\ ElementInv
  BY DEF IInv, RefsAccounted
<1>a. /\ op[t].pc = "flag" /\ op[t].pc \in Listing /\ op[t].pc \notin Emitting /\ op[t].el \in Elements
      /\ op[t].sub \notin Subs
  BY <1>0 DEF Flag, CallInv, Listing, Emitting, Creating, Destroying
<1>b. mutex = t /\ \A u \in Threads : u # t => op[u].pc \notin Listing /\ op[u].rest = <<>>
  BY <1>0, <1>a, OneList
<1> DEFINE e == Head(op[t].rest)
           r == Tail(op[t].rest)
<1>c. /\ e \in Subs /\ e \in ToSet(op[t].rest) /\ Live(evt[e]) /\ r \in Seq(Subs)
      /\ Distinct(r) /\ e \notin ToSet(r) /\ ToSet(op[t].rest) = ToSet(r) \cup {e}
      /\ \A f \in ToSet(op[t].rest) : Live(evt[f])
  BY <1>0, <1>a, Visited DEF Flag
<1>d. op' = [op EXCEPT ![t].rest = r] /\ evt' = [evt EXCEPT ![e].flag = TRUE] /\ evt[e].lock = NoThread
  BY DEF Flag, Unlocked
<1>1. Moved(t, op[t].pc, op[t].sub, op[t].el, r) /\ t \in Threads
  BY <1>0, <1>c, <1>d, RestMoved
<1>2. Changed(e, evt[e].state, TRUE, evt[e].refs, evt[e].callback, evt[e].lock, evt[e].doomed)
  BY <1>0, <1>c, <1>d, FlagChanged
<1>3. TypeOK'
  BY <1>0, <1>1, <1>2, EventsAssumption DEF Flag, Unlocked, TypeOK, OpType, EvtType, Moved, Others, Changed
<1>4. CallInv'
  <2>1. \A u \in Threads : u # t => op'[u] = op[u]
    BY <1>1 DEF Moved, Others
  <2>2. mutex' = mutex
    BY DEF Flag
  <2>3. op'[t].pc \in Listing /\ op'[t].pc \notin Creating \cup Destroying /\ op'[t].sub \notin Subs /\ op'[t].el \in Elements
    BY <1>1, <1>a DEF Moved, Listing, Creating, Destroying
  <2>4. op'[t].pc \in Appending => op'[t].rest # <<>>
    BY <1>1, <1>c DEF Moved, Appending, Flag
  <2> QED BY <1>0, <1>b, <2>1, <2>2, <2>3, <2>4 DEF CallInv
<1>5. SubInv'
  <2>1. \A u \in Threads : u # t => op'[u] = op[u]
    BY <1>1 DEF Moved, Others
  <2>2. op[t].pc \notin Creating \cup Destroying /\ op'[t].pc \notin Creating \cup Destroying
    BY <1>1, <1>a DEF Moved, Creating, Destroying
  <2>3. \A f \in Subs : /\ evt'[f].state = evt[f].state /\ evt'[f].doomed = evt[f].doomed
                       /\ evt'[f].lock = evt[f].lock /\ (evt[f].flag => evt'[f].flag)
                       /\ (f # e => evt'[f].flag = evt[f].flag)
    BY <1>2 DEF Changed
  <2>4. \A u \in Threads : op[u].pc \in Creating \cup Destroying => op[u].sub \in Subs
    BY <1>0 DEF CallInv
  <2>5. \A u \in Threads : op[u].pc = "remove" => op[u].sub # e
    BY <1>0, <1>d, EventsAssumption DEF SubInv, Threads
  <2>6. ASSUME NEW u \in Threads, u # t
        PROVE  /\ op'[u].pc \in Creating => evt'[op'[u].sub].state = "none"
               /\ op'[u].pc \in Destroying => evt'[op'[u].sub].state = "live" /\ evt'[op'[u].sub].doomed
               /\ op'[u].pc = "remove" => evt'[op'[u].sub].lock = u /\ ~evt'[op'[u].sub].flag
               /\ op'[u].pc \in {"unref", "wait"} => evt'[op'[u].sub].flag
               /\ \A f \in Subs : evt'[f].lock = u => op'[u].pc = "remove" /\ op'[u].sub = f
    <3>1. op'[u] = op[u]
      BY <2>1, <2>6
    <3>2. op[u].pc \in Creating => evt'[op[u].sub].state = "none"
      BY <1>0, <2>3, <2>4 DEF SubInv
    <3>3. op[u].pc \in Destroying => evt'[op[u].sub].state = "live" /\ evt'[op[u].sub].doomed
      BY <1>0, <2>3, <2>4 DEF SubInv
    <3>4. op[u].pc = "remove" => evt'[op[u].sub].lock = u /\ ~evt'[op[u].sub].flag
      BY <1>0, <2>3, <2>4, <2>5 DEF SubInv, Destroying
    <3>5. op[u].pc \in {"unref", "wait"} => evt'[op[u].sub].flag
      BY <1>0, <2>3, <2>4 DEF SubInv, Destroying
    <3> QED BY <1>0, <2>3, <3>1, <3>2, <3>3, <3>4, <3>5 DEF SubInv
  <2>7. \A f \in Subs : evt'[f].lock # t
    BY <1>0, <1>a, <2>3 DEF SubInv
  <2> QED BY <2>2, <2>6, <2>7 DEF SubInv, Creating, Destroying
<1>6. TableInv'
  <2>0. table' = table
    BY DEF Flag
  <2>1. \A u \in Threads : u # t => op'[u].pc \notin Listing /\ op'[u].rest = <<>>
    BY <1>1, <1>b DEF Moved, Others
  <2>2. \A y \in Elements : e \notin ToSet(table[y]) /\ ToSet(table[y]) \subseteq Subs
    BY <1>0, <1>a, <1>c, ListMembers DEF TableInv, TypeOK
  <2>3. \A f \in Subs : f # e => evt'[f] = evt[f]
    BY <1>2 DEF Changed
  <2>4. ASSUME NEW y \in Elements
        PROVE  Distinct(table'[y]) /\ \A f \in ToSet(table'[y]) : Element[f] = y /\ Live(evt'[f])
    BY <1>0, <2>0, <2>2, <2>3 DEF TableInv
  <2>5. ToSet(r) \subseteq Subs
    BY <1>c, ListMembers
  <2>6. ASSUME NEW u \in Threads
        PROVE  /\ Distinct(op'[u].rest)
               /\ op'[u].pc \in Emitting => ToSet(op'[u].rest) \subseteq ToSet(table'[op'[u].el])
               /\ op'[u].pc = "flag" => \A f \in ToSet(op'[u].rest) :
                    Live(evt'[f]) /\ \A y \in Elements : f \notin ToSet(table'[y])
    <3>1. CASE u = t
      <4>1. op'[t].rest = r /\ op'[t].pc \notin Emitting
        BY <1>1, <1>a DEF Moved
      <4>2. \A f \in ToSet(r) : f # e /\ f \in ToSet(op[t].rest) /\ evt'[f] = evt[f]
        BY <1>c, <2>3, <2>5
      <4>3. \A f \in ToSet(op[t].rest) : Live(evt[f]) /\ \A y \in Elements : f \notin ToSet(table[y])
        BY <1>0, <1>a DEF TableInv
      <4> QED BY <1>c, <2>0, <3>1, <4>1, <4>2, <4>3
    <3>2. CASE u # t
      BY <2>1, <3>2, EmptyList DEF Listing, Emitting
    <3> QED BY <3>1, <3>2
  <2>7. ASSUME NEW f \in Subs, evt'[f].state = "live", ~evt'[f].flag
        PROVE  \/ f \in ToSet(table'[Element[f]])
               \/ \E u \in Threads : op'[u].pc = "flag" /\ f \in ToSet(op'[u].rest)
    <3>1. f # e /\ evt'[f] = evt[f]
      BY <1>2, <2>7 DEF Changed
    <3>2. f \in ToSet(table[Element[f]]) \/ f \in ToSet(op[t].rest)
      BY <1>0, <1>b, <2>7, <3>1 DEF TableInv, Listing
    <3>3. f \in ToSet(op[t].rest) => f \in ToSet(r)
      BY <1>c, <3>1
    <3> QED BY <1>1, <1>a, <2>0, <3>2, <3>3 DEF Moved
  <2> QED BY <2>4, <2>6, <2>7 DEF TableInv
<1>7. JobInv'
  <2>1. queue' = queue /\ job' = job
    BY DEF Flag
  <2>2. \A f \in Subs : evt'[f].state = evt[f].state
    BY <1>2 DEF Changed
  <2>3. ToSet(queue) \subseteq Subs
    BY <1>0, ListMembers DEF TypeOK
  <2> QED BY <1>0, <2>1, <2>2, <2>3 DEF JobInv
<1>8. RefsAccounted'
  <2>1. /\ \A f \in Subs : evt'[f].refs = evt[f].refs /\ (evt'[f].state = "live" => evt[f].state = "live")
        /\ \/ op'[t] = op[t]
           \/ /\ op[t].pc \notin Appending \cup {"wait"}
              /\ op'[t].pc \notin Appending \cup {"wait"}
    BY <1>0, <1>1, <1>2 DEF Flag, Unlocked, Moved, Others, Changed, Appending, NoOp
  <2>2. queue' = queue /\ (running' => running) /\ Others(t) /\ \A v \in Workers : job'[v].sub = job[v].sub
    BY <1>0, <1>1 DEF Flag, Unlocked, TypeOK, Moved, Others
  <2> QED BY <1>0, <1>1, <1>3, <1>4, <2>1, <2>2, RefsKept
<1>9. ElementInv'
  <2>1. /\ \A f \in Subs : (evt'[f].state = "live") = (evt[f].state = "live")
        /\ op'[t] = op[t] \/ (op[t].pc # "insert" /\ op'[t].pc # "insert")
    BY <1>0, <1>1, <1>2 DEF Flag, Unlocked, Moved, Others, Changed, NoOp
  <2>2. alive' = alive /\ ref_count' = ref_count /\ Others(t)
    BY <1>1 DEF Flag, Unlocked, Moved, Others
  <2> QED BY <1>0, <1>1, <2>1, <2>2, ElementKept
<1> QED BY <1>4, <1>5, <1>6, <1>7, <1>8, <1>9 DEF IInv

\* The list ends and the mutex is free.
LEMMA NotifiedStep ==
  ASSUME IInv, NEW t \in Threads, Notified(t)
  PROVE  IInv'
<1>0. TypeOK /\ RefsAccounted /\ CallInv /\ SubInv /\ TableInv /\ JobInv /\ ElementInv
  BY DEF IInv, RefsAccounted
<1>a. /\ op[t].pc = "flag" /\ op[t].pc \in Listing /\ op[t].pc \notin Emitting /\ op[t].el \in Elements
      /\ op[t].sub \notin Subs
  BY <1>0 DEF Notified, CallInv, Listing, Emitting, Creating, Destroying
<1>b. mutex = t /\ \A u \in Threads : u # t => op[u].pc \notin Listing /\ op[u].rest = <<>>
  BY <1>0, <1>a, OneList
<1>c. op[t].rest = <<>> /\ mutex' = NoThread /\ table' = table
  BY DEF Notified
<1>1. Moved(t, "idle", NoSub, NoSub, <<>>) /\ t \in Threads
  <2>1. NoOp.pc = "idle" /\ NoOp.sub = NoSub /\ NoOp.el = NoSub /\ NoOp.rest = <<>>
    BY DEF NoOp
  <2>2. <<>> \in Seq(Subs)
    OBVIOUS
  <2>3. NoOp \in OpType
    BY <2>2 DEF NoOp, OpType, OpPoints
  <2>4. op' = [op EXCEPT ![t] = NoOp]
    BY DEF Notified
  <2> QED BY <1>0, <2>1, <2>3, <2>4, ValueMoved
<1>2. evt' = evt
  BY DEF Notified
<1>3. TypeOK'
  BY <1>0, <1>1, <1>2, EventsAssumption DEF Notified, TypeOK, OpType, Moved, Others
<1>4. CallInv'
  <2>1. \A u \in Threads : u # t => op'[u] = op[u]
    BY <1>1 DEF Moved, Others
  <2>2. \A u \in Threads : mutex' # u
    BY <1>c, EventsAssumption DEF Threads
  <2>3. /\ op'[t].pc \notin Listing \cup Emitting \cup Creating \cup Destroying \cup Appending
        /\ op'[t].sub \notin Subs /\ op'[t].rest = <<>>
    BY <1>1, EventsAssumption DEF Moved, Listing, Emitting, Creating, Destroying, Appending
  <2>4. op'[t].pc \in {"deleted", "notify", "flag"} => op'[t].el \in Elements
    BY <1>1, <1>a DEF Moved
  <2> QED BY <1>0, <1>b, <2>1, <2>2, <2>3, <2>4 DEF CallInv
<1>5. SubInv'
  <2>1. \A u \in Threads : u # t => op'[u] = op[u]
    BY <1>1 DEF Moved, Others
  <2>2. op[t].pc \notin Creating \cup Destroying /\ op'[t].pc \notin Creating \cup Destroying
    BY <1>1, <1>a DEF Moved, Creating, Destroying
  <2>3. \A f \in Subs : /\ evt'[f].state = evt[f].state /\ evt'[f].doomed = evt[f].doomed
                       /\ evt'[f].lock = evt[f].lock /\ evt'[f].flag = evt[f].flag
    BY <1>2
  <2>4. \A u \in Threads : op[u].pc \in Creating \cup Destroying => op[u].sub \in Subs
    BY <1>0 DEF CallInv
  <2> QED BY <1>0, <2>1, <2>2, <2>3, <2>4 DEF SubInv, Creating, Destroying
<1>6. TableInv'
  <2>1. \A u \in Threads : op'[u].pc \notin Listing /\ op'[u].rest = <<>>
    BY <1>1, <1>b DEF Moved, Others, Listing
  <2>2. ASSUME NEW f \in Subs, evt'[f].state = "live", ~evt'[f].flag
        PROVE  f \in ToSet(table'[Element[f]])
    <3>1. f \notin ToSet(op[t].rest)
      BY <1>c, EmptyList
    <3> QED BY <1>0, <1>2, <1>b, <1>c, <2>2, <3>1 DEF TableInv, Listing
  <2> QED BY <1>0, <1>2, <1>c, <2>1, <2>2, EmptyList DEF TableInv, Listing, Emitting
<1>7. JobInv'
  BY <1>0, <1>1, <1>2, <1>3, EventsAssumption DEF Notified, JobInv, SubInv, TypeOK, NoJob, Listing, Emitting, Appending, Creating, Destroying
<1>8. RefsAccounted'
  <2>1. /\ \A f \in Subs : evt'[f].refs = evt[f].refs /\ (evt'[f].state = "live" => evt[f].state = "live")
        /\ \/ op'[t] = op[t]
           \/ /\ op[t].pc \notin Appending \cup {"wait"}
              /\ op'[t].pc \notin Appending \cup {"wait"}
    BY <1>0, <1>1, <1>2 DEF Notified, Moved, Others, Appending, NoOp
  <2>2. queue' = queue /\ (running' => running) /\ Others(t) /\ \A v \in Workers : job'[v].sub = job[v].sub
    BY <1>0, <1>1 DEF Notified, TypeOK, Moved, Others
  <2> QED BY <1>0, <1>1, <1>3, <1>4, <2>1, <2>2, RefsKept
<1>9. ElementInv'
  <2>1. /\ \A f \in Subs : (evt'[f].state = "live") = (evt[f].state = "live")
        /\ op'[t] = op[t] \/ (op[t].pc # "insert" /\ op'[t].pc # "insert")
    BY <1>0, <1>1, <1>2 DEF Notified, Moved, Others, NoOp
  <2>2. alive' = alive /\ ref_count' = ref_count /\ Others(t)
    BY <1>1 DEF Notified, Moved, Others
  <2> QED BY <1>0, <1>1, <2>1, <2>2, ElementKept
<1> QED BY <1>4, <1>5, <1>6, <1>7, <1>8, <1>9 DEF IInv

\* sc_event_destroy locks the sc_event, unless it is flagged.
LEMMA DestroyStep ==
  ASSUME IInv, NEW t \in Threads, NEW e \in Subs, Destroy(t, e)
  PROVE  IInv'
<1>0. TypeOK /\ RefsAccounted /\ CallInv /\ SubInv /\ TableInv /\ JobInv /\ ElementInv
  BY DEF IInv, RefsAccounted
<1> DEFINE lk == IF evt[e].flag THEN NoThread ELSE t
           p == IF evt[e].flag THEN "unref" ELSE "remove"
<1>a. /\ evt[e].state = "live" /\ ~evt[e].doomed /\ evt[e].lock = NoThread
      /\ op[t].pc = "idle" /\ op[t].sub = NoSub /\ op[t].rest = <<>>
  BY DEF Destroy, Unlocked, CanCall, NoOp
<1>b. \A u \in Threads : op[u].sub # e /\ mutex # t
  <2>1. \A u \in Threads : op[u].sub = e => op[u].pc \in Creating \cup Destroying
    BY <1>0 DEF CallInv
  <2>2. mutex # t
    BY <1>0, <1>a DEF CallInv, Listing
  <2> QED BY <1>0, <1>a, <2>1, <2>2 DEF SubInv, Creating, Destroying
<1>1. Moved(t, p, e, NoSub, <<>>) /\ t \in Threads
  <2> DEFINE v == [NoOp EXCEPT !.pc = p, !.sub = e]
  <2>0. <<>> \in Seq(Subs)
    OBVIOUS
  <2>1. v.pc = p /\ v.sub = e /\ v.el = NoSub /\ v.rest = <<>>
    BY DEF NoOp
  <2>2. v \in OpType
    BY <2>0 DEF NoOp, OpType, OpPoints
  <2>3. op' = [op EXCEPT ![t] = v]
    BY DEF Destroy
  <2> HIDE DEF v, p
  <2> QED BY <1>0, <2>1, <2>2, <2>3, ValueMoved
<1>2. Changed(e, "live", evt[e].flag, evt[e].refs, evt[e].callback, lk, TRUE)
  <2> DEFINE v == [[evt[e] EXCEPT !.doomed = TRUE] EXCEPT !.lock = lk]
  <2>1. /\ v.state = "live" /\ v.flag = evt[e].flag /\ v.refs = evt[e].refs
        /\ v.callback = evt[e].callback /\ v.lock = lk /\ v.doomed = TRUE
    BY <1>0, <1>a, EvtTyped DEF EvtType
  <2>2. v \in EvtType
    BY <1>0, EvtTyped DEF EvtType
  <2>3. evt' = [evt EXCEPT ![e] = v]
    BY <1>0, EvtTyped DEF Destroy
  <2> HIDE DEF v, lk
  <2> QED BY <1>0, <2>1, <2>2, <2>3, ValueChanged
<1>3. TypeOK'
  BY <1>0, <1>1, <1>2, EventsAssumption DEF Destroy, CanCall, Unlocked, TypeOK, OpType, EvtType, Moved, Others, Changed
<1>4. CallInv'
  <2>1. \A u \in Threads : u # t => op'[u] = op[u]
    BY <1>1 DEF Moved, Others
  <2>2. /\ op'[t].pc \in Destroying /\ op'[t].pc \in Creating \cup Destroying /\ op'[t].sub = e
        /\ op'[t].pc \notin Listing \cup Emitting \cup Appending \cup {"deleted", "notify", "flag"}
        /\ op'[t].rest = <<>>
    BY <1>1 DEF Moved, Creating, Destroying, Listing, Emitting, Appending
  <2>3. mutex' = mutex
    BY DEF Destroy
  <2> QED BY <1>0, <1>b, <2>1, <2>2, <2>3 DEF CallInv
<1>5. SubInv'
  <2>1. \A u \in Threads : u # t => op'[u] = op[u] /\ op[u].sub # e
    BY <1>1, <1>b DEF Moved, Others
  <2>2. \A f \in Subs : f # e => evt'[f] = evt[f]
    BY <1>2 DEF Changed
  <2>3. \A u \in Threads : op[u].pc \in Creating \cup Destroying => op[u].sub \in Subs
    BY <1>0 DEF CallInv
  <2>4. ASSUME NEW u \in Threads, u # t
        PROVE  /\ op'[u].pc \in Creating => evt'[op'[u].sub].state = "none"
               /\ op'[u].pc \in Destroying => evt'[op'[u].sub].state = "live" /\ evt'[op'[u].sub].doomed
               /\ op'[u].pc = "remove" => evt'[op'[u].sub].lock = u /\ ~evt'[op'[u].sub].flag
               /\ op'[u].pc \in {"unref", "wait"} => evt'[op'[u].sub].flag
               /\ \A f \in Subs : evt'[f].lock = u => op'[u].pc = "remove" /\ op'[u].sub = f
    <3>1. op[u].pc \in Creating \cup Destroying => evt'[op[u].sub] = evt[op[u].sub]
      BY <2>1, <2>2, <2>3, <2>4
    <3>2. \A f \in Subs : evt'[f].lock = u => evt[f].lock = u
      BY <1>2, <2>2, <2>4, EventsAssumption DEF Changed, Threads
    <3> QED BY <1>0, <2>1, <2>4, <3>1, <3>2 DEF SubInv, Creating, Destroying
  <2>5. /\ evt'[e].state = "live" /\ evt'[e].doomed /\ op'[t].sub = e /\ op'[t].pc = p
        /\ evt'[e].flag = evt[e].flag /\ evt'[e].lock = lk
    BY <1>1, <1>2 DEF Moved, Changed
  <2>6. \A f \in Subs : evt'[f].lock = t => f = e /\ ~evt[e].flag
    <3>1. \A f \in Subs : evt[f].lock # t
      BY <1>0, <1>a DEF SubInv
    <3> QED BY <2>2, <2>5, <3>1, EventsAssumption DEF Threads
  <2> QED BY <2>4, <2>5, <2>6 DEF SubInv, Creating, Destroying
<1>6. TableInv'
  <2>1. \/ op'[t] = op[t]
        \/ /\ op[t].pc # "flag" /\ op'[t].pc # "flag" /\ Distinct(op'[t].rest)
           /\ op'[t].pc \in Emitting => ToSet(op'[t].rest) \subseteq ToSet(table[op'[t].el])
    BY <1>0, <1>1, EmptyList DEF Destroy, CanCall, Unlocked, CallInv, TableInv, Moved, NoOp, Listing, Emitting
  <2>2. \A f \in Subs : Live(evt'[f]) = Live(evt[f]) /\ Open(evt'[f]) = Open(evt[f])
    BY <1>0, <1>2 DEF Destroy, CanCall, Unlocked, Changed, Live, Open
  <2>3. table' = table /\ Others(t)
    BY <1>1 DEF Destroy, CanCall, Unlocked, Moved, Others
  <2> QED BY <1>0, <1>1, <1>3, <2>1, <2>2, <2>3, TableKept
<1>7. JobInv'
  <2>1. queue' = queue /\ job' = job
    BY DEF Destroy
  <2>2. \A f \in Subs : evt'[f].state = evt[f].state
    BY <1>2, <1>a DEF Changed
  <2>3. ToSet(queue) \subseteq Subs
    BY <1>0, ListMembers DEF TypeOK
  <2> QED BY <1>0, <2>1, <2>2, <2>3 DEF JobInv
<1>8. RefsAccounted'
  <2>1. /\ \A f \in Subs : evt'[f].refs = evt[f].refs /\ (evt'[f].state = "live" => evt[f].state = "live")
        /\ \/ op'[t] = op[t]
           \/ /\ op[t].pc \notin Appending \cup {"wait"}
              /\ op'[t].pc \notin Appending \cup {"wait"}
    BY <1>0, <1>1, <1>2 DEF Destroy, CanCall, Unlocked, Moved, Others, Changed, Appending, NoOp
  <2>2. queue' = queue /\ (running' => running) /\ Others(t) /\ \A v \in Workers : job'[v].sub = job[v].sub
    BY <1>0, <1>1 DEF Destroy, CanCall, Unlocked, TypeOK, Moved, Others
  <2> QED BY <1>0, <1>1, <1>3, <1>4, <2>1, <2>2, RefsKept
<1>9. ElementInv'
  <2>1. /\ \A f \in Subs : (evt'[f].state = "live") = (evt[f].state = "live")
        /\ op'[t] = op[t] \/ (op[t].pc # "insert" /\ op'[t].pc # "insert")
    BY <1>0, <1>1, <1>2 DEF Destroy, CanCall, Unlocked, Moved, Others, Changed, NoOp
  <2>2. alive' = alive /\ ref_count' = ref_count /\ Others(t)
    BY <1>1 DEF Destroy, CanCall, Unlocked, Moved, Others
  <2> QED BY <1>0, <1>1, <2>1, <2>2, ElementKept
<1> QED BY <1>4, <1>5, <1>6, <1>7, <1>8, <1>9 DEF IInv

\* remove_event_from_table: the sc_event is in its element's list, since it is
\* live, not flagged, and no thread has the mutex.
LEMMA RemoveFromTableStep ==
  ASSUME IInv, NEW t \in Threads, RemoveFromTable(t)
  PROVE  IInv'
<1>0. TypeOK /\ RefsAccounted /\ CallInv /\ SubInv /\ TableInv /\ JobInv /\ ElementInv
  BY DEF IInv, RefsAccounted
<1> DEFINE e == op[t].sub
           x == Element[e]
<1>a. /\ op[t].pc = "remove" /\ e \in Subs /\ x \in Elements /\ op[t].rest = <<>>
      /\ evt[e].state = "live" /\ evt[e].doomed /\ evt[e].lock = t /\ ~evt[e].flag
      /\ \A u \in Threads : op[u].sub = e => u = t
  BY <1>0, EventsAssumption DEF RemoveFromTable, CallInv, SubInv, Destroying, Listing
<1>b. mutex = NoThread /\ \A u \in Threads : op[u].pc \notin Listing /\ op[u].rest = <<>>
  BY <1>0, NoLists DEF RemoveFromTable, MutexFree
<1>c. table[x] \in Seq(Subs) /\ e \in ToSet(table[x]) /\ Distinct(table[x])
  BY <1>0, <1>a, <1>b DEF TypeOK, TableInv, Listing
<1>d. table[x] # <<>>
  BY <1>c, EmptyList
<1>e. /\ table' \in [Elements -> Seq(Subs)] /\ table'[x] = Unlisted(table[x], e)
      /\ \A y \in Elements : y # x => table'[y] = table[y]
  BY <1>0, <1>a, <1>c, UnlistedList DEF RemoveFromTable, TypeOK
<1>f. ToSet(table'[x]) = ToSet(table[x]) \ {e} /\ Distinct(table'[x])
  BY <1>c, <1>e, UnlistedList
<1>1. Moved(t, "unref", e, op[t].el, <<>>) /\ t \in Threads
  <2>1. op' = [op EXCEPT ![t].pc = "unref"]
    BY <1>d DEF RemoveFromTable
  <2> QED BY <1>0, <1>a, <2>1, PcMoved DEF OpPoints
<1>2. Changed(e, "live", TRUE, evt[e].refs, FALSE, NoThread, TRUE)
  <2> DEFINE v == [[[evt[e] EXCEPT !.lock = NoThread] EXCEPT !.flag = TRUE] EXCEPT !.callback = FALSE]
  <2>1. /\ v.state = "live" /\ v.flag = TRUE /\ v.refs = evt[e].refs
        /\ v.callback = FALSE /\ v.lock = NoThread /\ v.doomed = TRUE
    BY <1>0, <1>a, EvtTyped DEF EvtType
  <2>2. v \in EvtType
    BY <1>0, <1>a, EvtTyped DEF EvtType
  <2>3. evt' = [evt EXCEPT ![e] = v]
    BY <1>0, <1>a, <1>d, EvtTyped DEF RemoveFromTable
  <2> HIDE DEF v
  <2> QED BY <1>0, <1>a, <2>1, <2>2, <2>3, ValueChanged
<1>3. TypeOK'
  BY <1>0, <1>1, <1>2, <1>e DEF RemoveFromTable, TypeOK, OpType, EvtType, Moved, Changed
<1>4. CallInv'
  <2>1. \A u \in Threads : u # t => op'[u] = op[u]
    BY <1>1 DEF Moved, Others
  <2>2. /\ op'[t].pc = "unref" /\ op'[t].pc \in Creating \cup Destroying /\ op'[t].sub = e
        /\ op'[t].pc \notin Listing \cup Emitting \cup Appending \cup {"deleted", "notify", "flag"}
        /\ op'[t].rest = <<>>
    BY <1>1 DEF Moved, Creating, Destroying, Listing, Emitting, Appending
  <2>3. mutex' = mutex /\ mutex # t
    BY <1>b, EventsAssumption DEF RemoveFromTable, Threads
  <2> QED BY <1>0, <1>a, <2>1, <2>2, <2>3 DEF CallInv
<1>5. SubInv'
  <2>1. \A u \in Threads : u # t => op'[u] = op[u] /\ op[u].sub # e
    BY <1>1, <1>a DEF Moved, Others
  <2>2. \A f \in Subs : f # e => evt'[f] = evt[f]
    BY <1>2 DEF Changed
  <2>3. \A u \in Threads : op[u].pc \in Creating \cup Destroying => op[u].sub \in Subs
    BY <1>0 DEF CallInv
  <2>4. ASSUME NEW u \in Threads, u # t
        PROVE  /\ op'[u].pc \in Creating => evt'[op'[u].sub].state = "none"
               /\ op'[u].pc \in Destroying => evt'[op'[u].sub].state = "live" /\ evt'[op'[u].sub].doomed
               /\ op'[u].pc = "remove" => evt'[op'[u].sub].lock = u /\ ~evt'[op'[u].sub].flag
               /\ op'[u].pc \in {"unref", "wait"} => evt'[op'[u].sub].flag
               /\ \A f \in Subs : evt'[f].lock = u => op'[u].pc = "remove" /\ op'[u].sub = f
    <3>1. op[u].pc \in Creating \cup Destroying => evt'[op[u].sub] = evt[op[u].sub]
      BY <2>1, <2>2, <2>3, <2>4
    <3>2. \A f \in Subs : evt'[f].lock = u => evt[f].lock = u
      BY <1>2, <2>2, <2>4, EventsAssumption DEF Changed, Threads
    <3> QED BY <1>0, <2>1, <2>4, <3>1, <3>2 DEF SubInv, Creating, Destroying
  <2>5. /\ evt'[e].state = "live" /\ evt'[e].doomed /\ op'[t].sub = e /\ op'[t].pc = "unref"
        /\ evt'[e].flag /\ evt'[e].lock = NoThread
    BY <1>1, <1>2 DEF Moved, Changed
  <2>6. \A f \in Subs : evt'[f].lock # t
    <3>1. \A f \in Subs : f # e => evt[f].lock # t
      BY <1>0 DEF SubInv
    <3> QED BY <2>2, <2>5, <3>1, EventsAssumption DEF Threads
  <2> QED BY <2>4, <2>5, <2>6 DEF SubInv, Creating, Destroying
<1>6. TableInv'
  <2>1. \A u \in Threads : op'[u].pc \notin Listing /\ op'[u].rest = <<>>
    BY <1>1, <1>b DEF Moved, Others, Listing
  <2>2. \A f \in Subs : f # e => evt'[f] = evt[f]
    BY <1>2 DEF Changed
  <2>3. ASSUME NEW y \in Elements
        PROVE  Distinct(table'[y]) /\ \A f \in ToSet(table'[y]) : Element[f] = y /\ Live(evt'[f])
    <3>1. ToSet(table[y]) \subseteq Subs
      BY <1>0, ListMembers DEF TypeOK
    <3>2. CASE y = x
      BY <1>0, <1>f, <2>2, <3>1, <3>2 DEF TableInv
    <3>3. CASE y # x
      <4>1. e \notin ToSet(table[y])
        BY <1>0, <3>3 DEF TableInv
      <4> QED BY <1>0, <1>e, <2>2, <3>1, <3>3, <4>1 DEF TableInv
    <3> QED BY <3>2, <3>3
  <2>4. ASSUME NEW f \in Subs, evt'[f].state = "live", ~evt'[f].flag
        PROVE  f \in ToSet(table'[Element[f]])
    <3>1. f # e /\ evt'[f] = evt[f]
      BY <1>2, <2>4 DEF Changed
    <3>2. f \in ToSet(table[Element[f]])
      BY <1>0, <1>b, <2>4, <3>1 DEF TableInv, Listing
    <3> QED BY <1>e, <1>f, <3>1, <3>2, EventsAssumption
  <2> QED BY <2>1, <2>3, <2>4, EmptyList DEF TableInv, Listing, Emitting
<1>7. JobInv'
  <2>1. queue' = queue /\ job' = job
    BY DEF RemoveFromTable
  <2>2. \A f \in Subs : evt'[f].state = evt[f].state
    BY <1>2, <1>a DEF Changed
  <2>3. ToSet(queue) \subseteq Subs
    BY <1>0, ListMembers DEF TypeOK
  <2> QED BY <1>0, <2>1, <2>2, <2>3 DEF JobInv
<1>8. RefsAccounted'
  <2>1. /\ \A f \in Subs : evt'[f].refs = evt[f].refs /\ (evt'[f].state = "live" => evt[f].state = "live")
        /\ \/ op'[t] = op[t]
           \/ /\ op[t].pc \notin Appending \cup {"wait"}
              /\ op'[t].pc \notin Appending \cup {"wait"}
    BY <1>0, <1>1, <1>2, <1>a DEF RemoveFromTable, MutexFree, Moved, Others, Changed, Appending, NoOp
  <2>2. queue' = queue /\ (running' => running) /\ Others(t) /\ \A v \in Workers : job'[v].sub = job[v].sub
    BY <1>0, <1>1 DEF RemoveFromTable, MutexFree, TypeOK, Moved, Others
  <2> QED BY <1>0, <1>1, <1>3, <1>4, <2>1, <2>2, RefsKept
<1>9. ElementInv'
  <2>1. /\ \A f \in Subs : (evt'[f].state = "live") = (evt[f].state = "live")
        /\ op'[t] = op[t] \/ (op[t].pc # "insert" /\ op'[t].pc # "insert")
    BY <1>0, <1>1, <1>2, <1>a DEF RemoveFromTable, MutexFree, Moved, Others, Changed, NoOp
  <2>2. alive' = alive /\ ref_count' = ref_count /\ Others(t)
    BY <1>1 DEF RemoveFromTable, MutexFree, Moved, Others
  <2> QED BY <1>0, <1>1, <2>1, <2>2, ElementKept
<1> QED BY <1>4, <1>5, <1>6, <1>7, <1>8, <1>9 DEF IInv

\* The owner gives its reference back.
LEMMA UnrefStep ==
  ASSUME IInv, NEW t \in Threads, Unref(t)
  PROVE  IInv'
<1>0. TypeOK /\ RefsAccounted /\ CallInv /\ SubInv /\ TableInv /\ JobInv /\ ElementInv
  BY DEF IInv, RefsAccounted
<1> DEFINE e == op[t].sub
<1>a. /\ op[t].pc = "unref" /\ e \in Subs /\ op[t].rest = <<>>
      /\ evt[e].state = "live" /\ evt[e].doomed /\ evt[e].flag /\ evt[e].lock = NoThread
      /\ \A u \in Threads : op[u].sub = e => u = t
  BY <1>0 DEF Unref, Unlocked, CallInv, SubInv, Destroying, Listing
<1>b. ~Waited(op, e)
  BY <1>a DEF Waited
<1>c. /\ Counted(op, queue, job, e) \in Nat /\ Counted(op, queue, job, e) >= 1
      /\ \A f \in Subs : Agrees(evt[f], running, Counted(op, queue, job, f))
  <2>1. Queued(queue, e) \in Nat /\ Worked(job, e) \in Nat
    BY <1>0, QueuedType, WorkedType DEF TypeOK
  <2>2. One(~Waited(op, e)) = 1 /\ One(Appends(op, e)) \in Nat
    BY <1>b DEF One, Same
  <2>3. \A f \in Subs : Agrees(evt[f], running, Counted(op, queue, job, f))
    BY <1>0, RefsCounted
  <2> QED BY <2>1, <2>2, <2>3 DEF Counted
<1>d. evt[e].refs \in Nat /\ evt[e].refs - 1 \in Nat
  <2>1. evt[e].refs \in Nat
    BY <1>0, <1>a, EvtTyped
  <2>2. evt[e].refs >= Counted(op, queue, job, e)
    BY <1>a, <1>c DEF Agrees
  <2> QED BY <1>c, <2>1, <2>2
<1>1. Moved(t, "wait", e, op[t].el, <<>>) /\ t \in Threads
  <2>1. op' = [op EXCEPT ![t].pc = "wait"]
    BY DEF Unref
  <2> QED BY <1>0, <1>a, <2>1, PcMoved DEF OpPoints
<1>2. Changed(e, evt[e].state, evt[e].flag, evt[e].refs - 1, evt[e].callback, evt[e].lock, evt[e].doomed)
  <2>1. evt' = [evt EXCEPT ![e].refs = evt[e].refs - 1]
    BY <1>0, <1>a DEF Unref, TypeOK
  <2> QED BY <1>0, <1>a, <1>d, <2>1, RefsChanged
<1>3. TypeOK'
  BY <1>0, <1>1, <1>2, EventsAssumption DEF Unref, Unlocked, TypeOK, OpType, EvtType, Moved, Others, Changed
<1>4. CallInv'
  <2>1. \A u \in Threads : u # t => op'[u] = op[u]
    BY <1>1 DEF Moved, Others
  <2>2. /\ op'[t].pc \in Creating \cup Destroying /\ op'[t].sub = e
        /\ op'[t].pc \notin Listing \cup Emitting \cup Appending \cup {"deleted", "notify", "flag"}
        /\ op'[t].rest = <<>>
    BY <1>1, <1>a DEF Moved, Creating, Destroying, Listing, Emitting, Appending
  <2>3. mutex' = mutex /\ mutex # t
    BY <1>0, <1>a DEF Unref, CallInv, Listing
  <2> QED BY <1>0, <1>a, <2>1, <2>2, <2>3 DEF CallInv
<1>5. SubInv'
  <2>1. \A u \in Threads : u # t => op'[u] = op[u]
    BY <1>1 DEF Moved, Others
  <2>2. \A f \in Subs : /\ evt'[f].state = evt[f].state /\ evt'[f].doomed = evt[f].doomed
                       /\ evt'[f].lock = evt[f].lock /\ evt'[f].flag = evt[f].flag
    BY <1>2 DEF Changed
  <2>3. \A u \in Threads : op[u].pc \in Creating \cup Destroying => op[u].sub \in Subs
    BY <1>0 DEF CallInv
  <2>4. op'[t].pc = "wait" /\ op'[t].sub = e
    BY <1>1 DEF Moved
  <2> QED BY <1>0, <1>a, <2>1, <2>2, <2>3, <2>4 DEF SubInv, Creating, Destroying
<1>6. TableInv'
  <2>1. \/ op'[t] = op[t]
        \/ /\ op[t].pc # "flag" /\ op'[t].pc # "flag" /\ Distinct(op'[t].rest)
           /\ op'[t].pc \in Emitting => ToSet(op'[t].rest) \subseteq ToSet(table[op'[t].el])
    BY <1>0, <1>1, EmptyList DEF Unref, Unlocked, CallInv, TableInv, Moved, NoOp, Listing, Emitting
  <2>2. \A f \in Subs : Live(evt'[f]) = Live(evt[f]) /\ Open(evt'[f]) = Open(evt[f])
    BY <1>0, <1>2 DEF Unref, Unlocked, Changed, Live, Open
  <2>3. table' = table /\ Others(t)
    BY <1>1 DEF Unref, Unlocked, Moved, Others
  <2> QED BY <1>0, <1>1, <1>3, <2>1, <2>2, <2>3, TableKept
<1>7. JobInv'
  <2>1. queue' = queue /\ job' = job
    BY DEF Unref
  <2>2. \A f \in Subs : evt'[f].state = evt[f].state
    BY <1>2, <1>a DEF Changed
  <2>3. ToSet(queue) \subseteq Subs
    BY <1>0, ListMembers DEF TypeOK
  <2> QED BY <1>0, <2>1, <2>2, <2>3 DEF JobInv
<1>8. RefsAccounted'
  <2> SUFFICES ASSUME NEW f \in Subs PROVE Agrees(evt'[f], running', Counted(op', queue', job', f))
    BY <1>3, <1>4, RefsCountedNext
  <2>1. queue' = queue /\ job' = job /\ running' = running /\ Others(t)
    BY <1>1 DEF Unref, Moved
  <2>2. Appends(op', f) <=> Appends(op, f)
    BY <1>1, <1>a, <2>1, AppendsKept DEF Moved, Appending
  <2>3. Queued(queue, f) \in Nat /\ Worked(job, f) \in Nat
    BY <1>0, QueuedType, WorkedType DEF TypeOK
  <2>4. One(Appends(op', f)) = One(Appends(op, f)) /\ One(Appends(op, f)) \in Nat
    BY <2>2 DEF One, Same
  <2>5. CASE f = e
    <3>1. Waited(op', e)
      BY <1>1 DEF Moved, Waited
    <3>2. One(~Waited(op', e)) = 0 /\ One(~Waited(op, e)) = 1
      BY <1>b, <3>1 DEF One, Same
    <3>3. Counted(op', queue', job', e) = Counted(op, queue, job, e) - 1
      BY <2>1, <2>3, <2>4, <2>5, <3>2 DEF Counted
    <3>4. evt'[e].refs = evt[e].refs - 1
      BY <1>2 DEF Changed
    <3> QED BY <1>a, <1>c, <1>d, <2>1, <2>5, <3>3, <3>4 DEF Agrees
  <2>6. CASE f # e
    <3>1. Waited(op', f) <=> Waited(op, f)
      BY <1>1, <1>a, <2>1, <2>6, WaitKept DEF Moved
    <3>2. One(~Waited(op', f)) = One(~Waited(op, f))
      BY <3>1 DEF One, Same
    <3>3. Counted(op', queue', job', f) = Counted(op, queue, job, f)
      BY <2>1, <2>4, <3>2 DEF Counted
    <3> QED BY <1>2, <1>c, <2>1, <2>6, <3>3 DEF Changed
  <2> QED BY <2>5, <2>6
<1>9. ElementInv'
  <2>1. /\ \A f \in Subs : (evt'[f].state = "live") = (evt[f].state = "live")
        /\ op'[t] = op[t] \/ (op[t].pc # "insert" /\ op'[t].pc # "insert")
    BY <1>0, <1>1, <1>2, <1>a DEF Unref, Unlocked, Moved, Others, Changed, NoOp
  <2>2. alive' = alive /\ ref_count' = ref_count /\ Others(t)
    BY <1>1 DEF Unref, Unlocked, Moved, Others
  <2> QED BY <1>0, <1>1, <2>1, <2>2, ElementKept
<1> QED BY <1>4, <1>5, <1>6, <1>7, <1>8, <1>9 DEF IInv

\* g_free: no reference is left, so the queue and the jobs do not know the sc_event.
LEMMA FreeSubStep ==
  ASSUME IInv, NEW t \in Threads, FreeSub(t)
  PROVE  IInv'
<1>0. TypeOK /\ RefsAccounted /\ CallInv /\ SubInv /\ TableInv /\ JobInv /\ ElementInv
  BY DEF IInv, RefsAccounted
<1> DEFINE e == op[t].sub
<1>x. PICK x \in Elements : x = Element[e]
  BY <1>0, EventsAssumption DEF FreeSub, CallInv, Destroying
<1>a. /\ op[t].pc = "wait" /\ e \in Subs /\ op[t].rest = <<>>
      /\ evt[e].state = "live" /\ evt[e].flag /\ evt[e].lock = NoThread /\ evt[e].refs = 0
      /\ \A u \in Threads : op[u].sub = e => u = t
  BY <1>0, EventsAssumption DEF FreeSub, Unlocked, NoRefs, CallInv, SubInv, Destroying, Listing
<1>b. e \notin ToSet(queue) /\ \A w \in Workers : job[w].sub # e
  <2>1. Queued(queue, e) \in Nat /\ Worked(job, e) \in Nat
    BY <1>0, QueuedType, WorkedType DEF TypeOK
  <2>2. One(~Waited(op, e)) \in Nat /\ One(Appends(op, e)) \in Nat
    BY DEF One, Same
  <2>3. 0 >= Counted(op, queue, job, e)
    BY <1>0, <1>a, RefsCounted DEF Agrees
  <2>4. Queued(queue, e) = 0 /\ Worked(job, e) = 0
    BY <2>1, <2>2, <2>3 DEF Counted
  <2> QED BY <1>0, <2>4, QueuedType, WorkedType DEF TypeOK
<1>c. /\ IsFiniteSet(Listeners(x)) /\ Cardinality(Listeners(x)) \in Nat
      /\ Cardinality(Listeners(x)) > 0 /\ e \in Listeners(x)
  <2>1. IsFiniteSet(Listeners(x))
    BY <1>0, <1>a DEF ElementInv
  <2>2. e \in Listeners(x)
    BY <1>a, <1>x DEF Listeners
  <2>3. Cardinality(Listeners(x)) \in Nat /\ Cardinality(Listeners(x)) # 0
    BY <2>1, <2>2, FS_EmptySet, FS_CardinalityType
  <2> QED BY <2>1, <2>2, <2>3
<1>d. /\ ref_count' \in [Elements -> Nat] /\ ref_count'[x] = ref_count[x] - 1
      /\ \A y \in Elements : y # x => ref_count'[y] = ref_count[y]
  <2>1. ref_count[x] \in Nat /\ ref_count[x] > 0
    BY <1>0, <1>a, <1>c DEF ElementInv
  <2>2. ref_count[x] - 1 \in Nat
    BY <2>1
  <2> QED BY <1>0, <1>x, <2>2 DEF FreeSub, TypeOK
<1>1. Moved(t, "idle", NoSub, NoSub, <<>>) /\ t \in Threads
  <2>1. NoOp.pc = "idle" /\ NoOp.sub = NoSub /\ NoOp.el = NoSub /\ NoOp.rest = <<>>
    BY DEF NoOp
  <2>2. <<>> \in Seq(Subs)
    OBVIOUS
  <2>3. NoOp \in OpType
    BY <2>2 DEF NoOp, OpType, OpPoints
  <2>4. op' = [op EXCEPT ![t] = NoOp]
    BY DEF FreeSub
  <2> QED BY <1>0, <2>1, <2>3, <2>4, ValueMoved
<1>2. Changed(e, "freed", evt[e].flag, evt[e].refs, evt[e].callback, evt[e].lock, evt[e].doomed)
  <2>1. evt' = [evt EXCEPT ![e].state = "freed"]
    BY DEF FreeSub
  <2> QED BY <1>0, <1>a, <2>1, StateChanged
<1>3. TypeOK'
  BY <1>0, <1>1, <1>2, <1>d DEF FreeSub, TypeOK, OpType, EvtType, Moved, Changed
<1>4. CallInv'
  <2>1. \A u \in Threads : u # t => op'[u] = op[u]
    BY <1>1 DEF Moved, Others
  <2>2. /\ op'[t].pc \notin Creating \cup Destroying /\ op'[t].sub \notin Subs
        /\ op'[t].pc \notin Listing \cup Emitting \cup Appending \cup {"deleted", "notify", "flag"}
        /\ op'[t].rest = <<>>
    BY <1>1, EventsAssumption DEF Moved, Creating, Destroying, Listing, Emitting, Appending
  <2>3. mutex' = mutex /\ mutex # t
    BY <1>0, <1>a DEF FreeSub, CallInv, Listing
  <2> QED BY <1>0, <2>1, <2>2, <2>3 DEF CallInv
<1>5. SubInv'
  <2>1. \A u \in Threads : u # t => op'[u] = op[u] /\ op[u].sub # e
    BY <1>1, <1>a DEF Moved, Others
  <2>2. \A f \in Subs : f # e => evt'[f] = evt[f]
    BY <1>2 DEF Changed
  <2>3. \A u \in Threads : op[u].pc \in Creating \cup Destroying => op[u].sub \in Subs
    BY <1>0 DEF CallInv
  <2>4. \A f \in Subs : evt'[f].lock = evt[f].lock
    BY <1>2 DEF Changed
  <2>5. op'[t].pc = "idle" /\ \A f \in Subs : evt[f].lock # t
    BY <1>0, <1>1, <1>a DEF Moved, SubInv
  <2>6. ASSUME NEW u \in Threads, u # t
        PROVE  /\ op'[u].pc \in Creating => evt'[op'[u].sub].state = "none"
               /\ op'[u].pc \in Destroying => evt'[op'[u].sub].state = "live" /\ evt'[op'[u].sub].doomed
               /\ op'[u].pc = "remove" => evt'[op'[u].sub].lock = u /\ ~evt'[op'[u].sub].flag
               /\ op'[u].pc \in {"unref", "wait"} => evt'[op'[u].sub].flag
               /\ \A f \in Subs : evt'[f].lock = u => op'[u].pc = "remove" /\ op'[u].sub = f
    <3>1. op[u].pc \in Creating \cup Destroying => evt'[op[u].sub] = evt[op[u].sub]
      BY <2>1, <2>2, <2>3, <2>6
    <3> QED BY <1>0, <2>1, <2>4, <2>6, <3>1 DEF SubInv, Creating, Destroying
  <2> QED BY <2>4, <2>5, <2>6 DEF SubInv, Creating, Destroying
<1>6. TableInv'
  <2>1. /\ op[t].pc # "flag" /\ op'[t].pc # "flag" /\ Distinct(op'[t].rest)
        /\ op'[t].pc \notin Emitting
    BY <1>1, <1>a, EmptyList DEF Moved, Emitting
  <2>2. \A f \in Subs : Live(evt'[f]) = Live(evt[f]) /\ Open(evt'[f]) = Open(evt[f])
    BY <1>2, <1>a DEF Changed, Live, Open
  <2>3. table' = table /\ Others(t)
    BY <1>1 DEF FreeSub, Moved
  <2> QED BY <1>0, <1>1, <1>3, <2>1, <2>2, <2>3, TableKept
<1>7. JobInv'
  <2>1. queue' = queue /\ job' = job
    BY DEF FreeSub
  <2>2. \A f \in Subs : f # e => evt'[f].state = evt[f].state
    BY <1>2 DEF Changed
  <2>3. ToSet(queue) \subseteq Subs
    BY <1>0, ListMembers DEF TypeOK
  <2> QED BY <1>0, <1>b, <2>1, <2>2, <2>3 DEF JobInv
<1>8. RefsAccounted'
  <2> SUFFICES ASSUME NEW f \in Subs PROVE Agrees(evt'[f], running', Counted(op', queue', job', f))
    BY <1>3, <1>4, RefsCountedNext
  <2>1. queue' = queue /\ job' = job /\ running' = running /\ Others(t)
    BY <1>1 DEF FreeSub, Moved
  <2>2. CASE f = e
    BY <1>2, <2>2 DEF Changed, Agrees
  <2>3. CASE f # e
    <3>1. Waited(op', f) <=> Waited(op, f)
      BY <1>1, <1>a, <2>1, <2>3, WaitKept DEF Moved
    <3>2. Appends(op', f) <=> Appends(op, f)
      BY <1>1, <1>a, <2>1, AppendsKept DEF Moved, Appending
    <3>3. One(~Waited(op', f)) = One(~Waited(op, f)) /\ One(Appends(op', f)) = One(Appends(op, f))
      BY <3>1, <3>2 DEF One, Same
    <3>4. Counted(op', queue', job', f) = Counted(op, queue, job, f)
      BY <2>1, <3>3 DEF Counted
    <3>5. Agrees(evt[f], running, Counted(op, queue, job, f))
      BY <1>0, RefsCounted
    <3> QED BY <1>2, <2>1, <2>3, <3>4, <3>5 DEF Changed
  <2> QED BY <2>2, <2>3
<1>9. ElementInv'
  <2>1. \A f \in Subs, y \in Elements : f # e => (f \in Listeners(y)' <=> f \in Listeners(y))
    BY <1>1, <1>2, <1>a, ListenersKept DEF Moved, Changed
  <2>2. \A y \in Elements : e \notin Listeners(y)'
    <3>1. \A u \in Threads : op'[u].sub # e
      BY <1>1, <1>a, EventsAssumption DEF Moved, Others
    <3> QED BY <1>2, <3>1 DEF Listeners, Changed
  <2>3. Listeners(x)' = Listeners(x) \ {e}
    BY <1>a, <2>1, <2>2 DEF Listeners
  <2>4. \A y \in Elements : y # x => e \notin Listeners(y)
    BY <1>x DEF Listeners
  <2>5. \A y \in Elements : y # x => Listeners(y)' = Listeners(y)
    BY <2>1, <2>2, <2>4 DEF Listeners
  <2>6. IsFiniteSet(Listeners(x)') /\ Cardinality(Listeners(x)') = Cardinality(Listeners(x)) - 1
    <3>1. /\ IsFiniteSet(Listeners(x) \ {e})
          /\ Cardinality(Listeners(x) \ {e}) = Cardinality(Listeners(x)) - 1
      BY <1>c, FS_RemoveElement
    <3> QED BY <2>3, <3>1
  <2>7. alive' = alive
    BY DEF FreeSub
  <2>8. ref_count'[x] = Cardinality(Listeners(x)') + (IF x \in alive' THEN 1 ELSE 0)
    BY <1>0, <1>a, <1>c, <1>d, <2>6, <2>7 DEF ElementInv
  <2>9. ASSUME NEW y \in Elements, y # x
        PROVE  /\ IsFiniteSet(Listeners(y)')
               /\ ref_count'[y] = Cardinality(Listeners(y)') + (IF y \in alive' THEN 1 ELSE 0)
    BY <1>0, <1>d, <2>5, <2>7, <2>9 DEF ElementInv
  <2> QED BY <2>6, <2>8, <2>9 DEF ElementInv
<1> QED BY <1>4, <1>5, <1>6, <1>7, <1>8, <1>9 DEF IInv

\* A worker takes the first job and its reference.
LEMMA TakeJobStep ==
  ASSUME IInv, NEW w \in Workers, TakeJob(w)
  PROVE  IInv'
<1>0. TypeOK /\ RefsAccounted /\ CallInv /\ SubInv /\ TableInv /\ JobInv /\ ElementInv
  BY DEF IInv, RefsAccounted
<1> DEFINE e == Head(queue)
<1>a. /\ queue \in Seq(Subs) /\ queue # <<>> /\ e \in Subs /\ e \in ToSet(queue)
      /\ Tail(queue) \in Seq(Subs) /\ ToSet(Tail(queue)) \subseteq ToSet(queue) /\ evt[e].state = "live"
  BY <1>0, TailList DEF TakeJob, TypeOK, JobInv
<1>b. /\ queue' = Tail(queue) /\ job[w] = NoJob /\ job' = [job EXCEPT ![w] = [pc |-> "check", sub |-> e]]
  BY DEF TakeJob
<1>c. /\ job'[w].pc = "check" /\ job'[w].sub = e /\ \A v \in Workers : v # w => job'[v] = job[v]
  BY <1>0, <1>b DEF TypeOK
<1>1. op' = op /\ Others(w) /\ w \in Threads
  BY DEF TakeJob, Others, Threads
<1>2. evt' = evt
  BY DEF TakeJob
<1>3. TypeOK'
  BY <1>0, <1>1, <1>2, <1>a, <1>b DEF TakeJob, TypeOK
<1>4. CallInv'
  BY <1>0, <1>1, <1>3, EventsAssumption DEF TakeJob, CallInv, TypeOK, NoOp, Listing, Emitting, Appending, Creating, Destroying
<1>5. SubInv'
  BY <1>0, <1>1, <1>2, <1>3, EventsAssumption DEF TakeJob, SubInv, CallInv, TypeOK, NoOp, Listing, Emitting, Appending, Creating, Destroying
<1>6. TableInv'
  <2>1. op'[w] = op[w]
    BY <1>1
  <2>2. \A f \in Subs : Live(evt'[f]) = Live(evt[f]) /\ Open(evt'[f]) = Open(evt[f])
    BY <1>2
  <2>3. table' = table /\ Others(w)
    BY <1>1 DEF TakeJob
  <2> QED BY <1>0, <1>1, <1>3, <2>1, <2>2, <2>3, TableKept
<1>7. JobInv'
  <2>1. \A v \in Workers : v # w => /\ (job'[v].pc = "idle" <=> job'[v] = NoJob)
                                  /\ (job'[v].pc # "idle" => job'[v].sub \in Subs /\ evt'[job'[v].sub].state = "live")
    BY <1>0, <1>2, <1>c DEF JobInv
  <2>2. job'[w].pc # "idle" /\ job'[w] # NoJob
    BY <1>c DEF NoJob
  <2>3. \A f \in ToSet(queue') : evt'[f].state = "live"
    BY <1>0, <1>2, <1>a, <1>b DEF JobInv
  <2> QED BY <1>2, <1>a, <1>c, <2>1, <2>2, <2>3 DEF JobInv
<1>8. RefsAccounted'
  <2> SUFFICES ASSUME NEW f \in Subs PROVE Agrees(evt'[f], running', Counted(op', queue', job', f))
    BY <1>3, <1>4, RefsCountedNext
  <2>1. running' = running
    BY DEF TakeJob
  <2>2. Worked(job', f) + Same(NoSub, f) = Worked(job, f) + Same(e, f)
    <3>1. \A v \in Workers : v # w => job'[v].sub = job[v].sub
      BY <1>c
    <3>2. job[w].sub = NoSub /\ job'[w].sub = e
      BY <1>b, <1>c DEF NoJob
    <3> HIDE DEF e
    <3> QED BY ONLY <3>1, <3>2, WorkedMoved, w \in Workers
  <2>3. Queued(queue, f) = Queued(queue', f) + Same(f, e)
    BY <1>a, <1>b, QueuedTail
  <2>4. Same(NoSub, f) = 0 /\ Same(e, f) = Same(f, e) /\ Same(f, e) \in Nat
    BY EventsAssumption DEF Same
  <2>5. /\ Worked(job', f) \in Nat /\ Worked(job, f) \in Nat
        /\ Queued(queue, f) \in Nat /\ Queued(queue', f) \in Nat
    BY <1>a, <1>b, WorkedType, QueuedType
  <2>6. Queued(queue', f) + Worked(job', f) = Queued(queue, f) + Worked(job, f)
    BY <2>2, <2>3, <2>4, <2>5
  <2>7. Counted(op', queue', job', f) = Counted(op, queue, job, f)
    <3>1. One(~Waited(op, f)) \in Nat /\ One(Appends(op, f)) \in Nat
      BY DEF One, Same
    <3> QED BY <1>1, <2>5, <2>6, <3>1 DEF Counted
  <2> QED BY <1>0, <1>2, <2>1, <2>7, RefsCounted
<1>9. ElementInv'
  <2>1. /\ \A f \in Subs : (evt'[f].state = "live") = (evt[f].state = "live")
        /\ op'[w] = op[w]
    BY <1>0, <1>1, <1>2 DEF TakeJob, NoOp
  <2>2. alive' = alive /\ ref_count' = ref_count /\ Others(w)
    BY <1>1 DEF TakeJob
  <2> QED BY <1>0, <1>1, <2>1, <2>2, ElementKept
<1> QED BY <1>4, <1>5, <1>6, <1>7, <1>8, <1>9 DEF IInv

\* The worker reads the callback.
LEMMA CheckCallbackStep ==
  ASSUME IInv, NEW w \in Workers, CheckCallback(w)
  PROVE  IInv'
<1>0. TypeOK /\ RefsAccounted /\ CallInv /\ SubInv /\ TableInv /\ JobInv /\ ElementInv
  BY DEF IInv, RefsAccounted
<1>1. op' = op /\ Others(w) /\ w \in Threads
  BY DEF CheckCallback, Others, Threads
<1>2. evt' = evt
  BY DEF CheckCallback
<1>3. TypeOK'
  BY <1>0, <1>1, <1>2, EventsAssumption DEF CheckCallback, TypeOK
<1>4. CallInv'
  BY <1>0, <1>1, <1>3, EventsAssumption DEF CheckCallback, CallInv, TypeOK, NoOp, Listing, Emitting, Appending, Creating, Destroying
<1>5. SubInv'
  BY <1>0, <1>1, <1>2, <1>3, EventsAssumption DEF CheckCallback, SubInv, CallInv, TypeOK, NoOp, Listing, Emitting, Appending, Creating, Destroying
<1>6. TableInv'
  <2>1. op'[w] = op[w]
    BY <1>1
  <2>2. \A f \in Subs : Live(evt'[f]) = Live(evt[f]) /\ Open(evt'[f]) = Open(evt[f])
    BY <1>2
  <2>3. table' = table /\ Others(w)
    BY <1>1 DEF CheckCallback
  <2> QED BY <1>0, <1>1, <1>3, <2>1, <2>2, <2>3, TableKept
<1>7. JobInv'
  BY <1>0, <1>1, <1>2, <1>3, EventsAssumption DEF CheckCallback, JobInv, SubInv, TypeOK, NoJob, Listing, Emitting, Appending, Creating, Destroying
<1>8. RefsAccounted'
  <2>1. /\ \A f \in Subs : evt'[f].refs = evt[f].refs /\ (evt'[f].state = "live" => evt[f].state = "live")
        /\ op'[w] = op[w]
    BY <1>0, <1>1, <1>2 DEF CheckCallback, Appending, NoOp
  <2>2. queue' = queue /\ (running' => running) /\ Others(w) /\ \A v \in Workers : job'[v].sub = job[v].sub
    BY <1>0, <1>1 DEF CheckCallback, TypeOK
  <2> QED BY <1>0, <1>1, <1>3, <1>4, <2>1, <2>2, RefsKept
<1>9. ElementInv'
  <2>1. /\ \A f \in Subs : (evt'[f].state = "live") = (evt[f].state = "live")
        /\ op'[w] = op[w]
    BY <1>0, <1>1, <1>2 DEF CheckCallback, NoOp
  <2>2. alive' = alive /\ ref_count' = ref_count /\ Others(w)
    BY <1>1 DEF CheckCallback
  <2> QED BY <1>0, <1>1, <2>1, <2>2, ElementKept
<1> QED BY <1>4, <1>5, <1>6, <1>7, <1>8, <1>9 DEF IInv

\* It calls the callback.
LEMMA CallCallbackStep ==
  ASSUME IInv, NEW w \in Workers, CallCallback(w),
         job' = [job EXCEPT ![w].pc = "body"], UNCHANGED crashed
  PROVE  IInv'
<1>0. TypeOK /\ RefsAccounted /\ CallInv /\ SubInv /\ TableInv /\ JobInv /\ ElementInv
  BY DEF IInv, RefsAccounted
<1>1. op' = op /\ Others(w) /\ w \in Threads
  BY DEF CallCallback, Others, Threads
<1>2. evt' = evt
  BY DEF CallCallback
<1>3. TypeOK'
  BY <1>0, <1>1, <1>2, EventsAssumption DEF CallCallback, TypeOK
<1>4. CallInv'
  BY <1>0, <1>1, <1>3, EventsAssumption DEF CallCallback, CallInv, TypeOK, NoOp, Listing, Emitting, Appending, Creating, Destroying
<1>5. SubInv'
  BY <1>0, <1>1, <1>2, <1>3, EventsAssumption DEF CallCallback, SubInv, CallInv, TypeOK, NoOp, Listing, Emitting, Appending, Creating, Destroying
<1>6. TableInv'
  <2>1. op'[w] = op[w]
    BY <1>1
  <2>2. \A f \in Subs : Live(evt'[f]) = Live(evt[f]) /\ Open(evt'[f]) = Open(evt[f])
    BY <1>2
  <2>3. table' = table /\ Others(w)
    BY <1>1 DEF CallCallback
  <2> QED BY <1>0, <1>1, <1>3, <2>1, <2>2, <2>3, TableKept
<1>7. JobInv'
  BY <1>0, <1>1, <1>2, <1>3, EventsAssumption DEF CallCallback, JobInv, SubInv, TypeOK, NoJob, Listing, Emitting, Appending, Creating, Destroying
<1>8. RefsAccounted'
  <2>1. /\ \A f \in Subs : evt'[f].refs = evt[f].refs /\ (evt'[f].state = "live" => evt[f].state = "live")
        /\ op'[w] = op[w]
    BY <1>0, <1>1, <1>2 DEF CallCallback, Appending, NoOp
  <2>2. queue' = queue /\ (running' => running) /\ Others(w) /\ \A v \in Workers : job'[v].sub = job[v].sub
    BY <1>0, <1>1 DEF CallCallback, TypeOK
  <2> QED BY <1>0, <1>1, <1>3, <1>4, <2>1, <2>2, RefsKept
<1>9. ElementInv'
  <2>1. /\ \A f \in Subs : (evt'[f].state = "live") = (evt[f].state = "live")
        /\ op'[w] = op[w]
    BY <1>0, <1>1, <1>2 DEF CallCallback, NoOp
  <2>2. alive' = alive /\ ref_count' = ref_count /\ Others(w)
    BY <1>1 DEF CallCallback
  <2> QED BY <1>0, <1>1, <2>1, <2>2, ElementKept
<1> QED BY <1>4, <1>5, <1>6, <1>7, <1>8, <1>9 DEF IInv

\* The callback returns.
LEMMA CallbackReturnsStep ==
  ASSUME IInv, NEW w \in Workers, CallbackReturns(w)
  PROVE  IInv'
<1>0. TypeOK /\ RefsAccounted /\ CallInv /\ SubInv /\ TableInv /\ JobInv /\ ElementInv
  BY DEF IInv, RefsAccounted
<1>1. op' = op /\ Others(w) /\ w \in Threads
  BY DEF CallbackReturns, Others, Threads
<1>2. evt' = evt
  BY DEF CallbackReturns
<1>3. TypeOK'
  BY <1>0, <1>1, <1>2, EventsAssumption DEF CallbackReturns, TypeOK
<1>4. CallInv'
  BY <1>0, <1>1, <1>3, EventsAssumption DEF CallbackReturns, CallInv, TypeOK, NoOp, Listing, Emitting, Appending, Creating, Destroying
<1>5. SubInv'
  BY <1>0, <1>1, <1>2, <1>3, EventsAssumption DEF CallbackReturns, SubInv, CallInv, TypeOK, NoOp, Listing, Emitting, Appending, Creating, Destroying
<1>6. TableInv'
  <2>1. op'[w] = op[w]
    BY <1>1
  <2>2. \A f \in Subs : Live(evt'[f]) = Live(evt[f]) /\ Open(evt'[f]) = Open(evt[f])
    BY <1>2
  <2>3. table' = table /\ Others(w)
    BY <1>1 DEF CallbackReturns
  <2> QED BY <1>0, <1>1, <1>3, <2>1, <2>2, <2>3, TableKept
<1>7. JobInv'
  BY <1>0, <1>1, <1>2, <1>3, EventsAssumption DEF CallbackReturns, JobInv, SubInv, TypeOK, NoJob, Listing, Emitting, Appending, Creating, Destroying
<1>8. RefsAccounted'
  <2>1. /\ \A f \in Subs : evt'[f].refs = evt[f].refs /\ (evt'[f].state = "live" => evt[f].state = "live")
        /\ op'[w] = op[w]
    BY <1>0, <1>1, <1>2 DEF CallbackReturns, Appending, NoOp
  <2>2. queue' = queue /\ (running' => running) /\ Others(w) /\ \A v \in Workers : job'[v].sub = job[v].sub
    BY <1>0, <1>1 DEF CallbackReturns, TypeOK
  <2> QED BY <1>0, <1>1, <1>3, <1>4, <2>1, <2>2, RefsKept
<1>9. ElementInv'
  <2>1. /\ \A f \in Subs : (evt'[f].state = "live") = (evt[f].state = "live")
        /\ op'[w] = op[w]
    BY <1>0, <1>1, <1>2 DEF CallbackReturns, NoOp
  <2>2. alive' = alive /\ ref_count' = ref_count /\ Others(w)
    BY <1>1 DEF CallbackReturns
  <2> QED BY <1>0, <1>1, <2>1, <2>2, ElementKept
<1> QED BY <1>4, <1>5, <1>6, <1>7, <1>8, <1>9 DEF IInv

\* The job ends and gives its reference back.
LEMMA UnrefJobStep ==
  ASSUME IInv, NEW w \in Workers, UnrefJob(w)
  PROVE  IInv'
<1>0. TypeOK /\ RefsAccounted /\ CallInv /\ SubInv /\ TableInv /\ JobInv /\ ElementInv
  BY DEF IInv, RefsAccounted
<1> DEFINE e == job[w].sub
<1>a. /\ job[w].pc = "unref" /\ e \in Subs /\ evt[e].state = "live" /\ job' = [job EXCEPT ![w] = NoJob]
  BY <1>0 DEF UnrefJob, JobInv
<1>b. /\ Worked(job, e) \in Nat /\ Worked(job, e) >= 1
      /\ \A f \in Subs : Agrees(evt[f], running, Counted(op, queue, job, f))
  <2>1. Worked(job, e) \in Nat /\ Worked(job, e) # 0
    BY WorkedType
  <2> QED BY <1>0, <2>1, RefsCounted
<1>c. evt[e].refs \in Nat /\ evt[e].refs - 1 \in Nat
  <2>1. evt[e].refs \in Nat
    BY <1>0, <1>a, EvtTyped
  <2>2. evt[e].refs >= Counted(op, queue, job, e)
    BY <1>a, <1>b DEF Agrees
  <2>3. Queued(queue, e) \in Nat
    BY <1>0, QueuedType DEF TypeOK
  <2>4. One(~Waited(op, e)) \in Nat /\ One(Appends(op, e)) \in Nat
    BY DEF One, Same
  <2> QED BY <1>b, <2>1, <2>2, <2>3, <2>4 DEF Counted
<1>d. job' \in [Workers -> [pc : {"idle", "check", "call", "body", "unref"}, sub : Subs \cup {NoSub}]]
  BY <1>0, <1>a DEF TypeOK, NoJob
<1>e. job'[w] = NoJob /\ \A v \in Workers : v # w => job'[v] = job[v]
  BY <1>0, <1>a DEF TypeOK
<1>1. op' = op /\ Others(w) /\ w \in Threads
  BY DEF UnrefJob, Unlocked, Others, Threads
<1>2. Changed(e, evt[e].state, evt[e].flag, evt[e].refs - 1, evt[e].callback, evt[e].lock, evt[e].doomed)
  <2>1. evt' = [evt EXCEPT ![e].refs = evt[e].refs - 1]
    BY <1>0, <1>a DEF UnrefJob, TypeOK
  <2> QED BY <1>0, <1>a, <1>c, <2>1, RefsChanged
<1>3. TypeOK'
  BY <1>0, <1>1, <1>2, <1>d DEF UnrefJob, TypeOK, EvtType, Changed
<1>4. CallInv'
  BY <1>0, <1>1, <1>3, EventsAssumption DEF UnrefJob, Unlocked, CallInv, TypeOK, NoOp, Listing, Emitting, Appending, Creating, Destroying
<1>5. SubInv'
  <2>1. \A f \in Subs : /\ evt'[f].state = evt[f].state /\ evt'[f].doomed = evt[f].doomed
                       /\ evt'[f].lock = evt[f].lock /\ evt'[f].flag = evt[f].flag
    BY <1>2 DEF Changed
  <2>2. \A u \in Threads : op[u].pc \in Creating \cup Destroying => op[u].sub \in Subs
    BY <1>0 DEF CallInv
  <2> QED BY <1>0, <1>1, <2>1, <2>2 DEF SubInv, Creating, Destroying
<1>6. TableInv'
  <2>1. op'[w] = op[w]
    BY <1>1
  <2>2. \A f \in Subs : Live(evt'[f]) = Live(evt[f]) /\ Open(evt'[f]) = Open(evt[f])
    BY <1>0, <1>2 DEF UnrefJob, Unlocked, Changed, Live, Open
  <2>3. table' = table /\ Others(w)
    BY <1>1 DEF UnrefJob, Unlocked
  <2> QED BY <1>0, <1>1, <1>3, <2>1, <2>2, <2>3, TableKept
<1>7. JobInv'
  <2>1. queue' = queue
    BY DEF UnrefJob
  <2>2. \A f \in Subs : evt'[f].state = evt[f].state
    BY <1>2 DEF Changed
  <2>3. ToSet(queue) \subseteq Subs
    BY <1>0, ListMembers DEF TypeOK
  <2>4. NoJob.pc = "idle"
    BY DEF NoJob
  <2> QED BY <1>0, <1>e, <2>1, <2>2, <2>3, <2>4 DEF JobInv
<1>8. RefsAccounted'
  <2> SUFFICES ASSUME NEW f \in Subs PROVE Agrees(evt'[f], running', Counted(op', queue', job', f))
    BY <1>3, <1>4, RefsCountedNext
  <2>1. running' = running /\ queue' = queue
    BY DEF UnrefJob
  <2>2. Worked(job', f) + Same(e, f) = Worked(job, f) + Same(NoSub, f)
    BY <1>e, WorkedMoved DEF NoJob
  <2>3. Same(NoSub, f) = 0 /\ Same(e, f) \in Nat
    BY EventsAssumption DEF Same
  <2>4. Worked(job', f) \in Nat /\ Worked(job, f) \in Nat /\ Queued(queue, f) \in Nat
    BY <1>0, WorkedType, QueuedType DEF TypeOK
  <2>5. Counted(op', queue', job', f) + Same(e, f) = Counted(op, queue, job, f)
    <3>1. One(~Waited(op, f)) \in Nat /\ One(Appends(op, f)) \in Nat
      BY DEF One, Same
    <3> QED BY <1>1, <2>1, <2>2, <2>3, <2>4, <3>1 DEF Counted
  <2>6. Counted(op', queue', job', f) \in Nat /\ Counted(op, queue, job, f) \in Nat
    BY <1>0, <2>1, CountedType DEF TypeOK
  <2>7. evt'[f].state = evt[f].state /\ evt'[f].refs + Same(e, f) = evt[f].refs /\ evt'[f].refs \in Nat
    <3>1. evt[f].refs \in Nat
      BY <1>0, EvtTyped
    <3>2. CASE e = f
      BY <1>2, <1>c, <3>1, <3>2 DEF Changed, One, Same
    <3>3. CASE e # f
      BY <1>2, <3>1, <3>3 DEF Changed, One, Same
    <3> QED BY <3>2, <3>3
  <2>8. Agrees(evt[f], running, Counted(op, queue, job, f)) /\ Same(e, f) \in Nat
    BY <1>b, <2>3
  <2> QED BY <2>1, <2>5, <2>6, <2>7, <2>8 DEF Agrees
<1>9. ElementInv'
  <2>1. /\ \A f \in Subs : (evt'[f].state = "live") = (evt[f].state = "live")
        /\ op'[w] = op[w]
    BY <1>0, <1>1, <1>2 DEF UnrefJob, Unlocked, Changed, NoOp
  <2>2. alive' = alive /\ ref_count' = ref_count /\ Others(w)
    BY <1>1 DEF UnrefJob, Unlocked
  <2> QED BY <1>0, <1>1, <2>1, <2>2, ElementKept
<1> QED BY <1>4, <1>5, <1>6, <1>7, <1>8, <1>9 DEF IInv

\* sc_event_queue_stop_processing.
LEMMA StopStep ==
  ASSUME IInv, NEW t \in Clients, Stop(t)
  PROVE  IInv'
<1>0. TypeOK /\ RefsAccounted /\ CallInv /\ SubInv /\ TableInv /\ JobInv /\ ElementInv
  BY DEF IInv, RefsAccounted
<1>1. op' = op /\ Others(t) /\ t \in Threads
  BY DEF Stop, Others, Threads
<1>2. evt' = evt
  BY DEF Stop
<1>3. TypeOK'
  BY <1>0, <1>1, <1>2, EventsAssumption DEF Stop, TypeOK
<1>4. CallInv'
  BY <1>0, <1>1, <1>3, EventsAssumption DEF Stop, CallInv, TypeOK, NoOp, Listing, Emitting, Appending, Creating, Destroying
<1>5. SubInv'
  BY <1>0, <1>1, <1>2, <1>3, EventsAssumption DEF Stop, SubInv, CallInv, TypeOK, NoOp, Listing, Emitting, Appending, Creating, Destroying
<1>6. TableInv'
  <2>1. op'[t] = op[t]
    BY <1>1
  <2>2. \A f \in Subs : Live(evt'[f]) = Live(evt[f]) /\ Open(evt'[f]) = Open(evt[f])
    BY <1>2
  <2>3. table' = table /\ Others(t)
    BY <1>1 DEF Stop
  <2> QED BY <1>0, <1>1, <1>3, <2>1, <2>2, <2>3, TableKept
<1>7. JobInv'
  BY <1>0, <1>1, <1>2, <1>3, EventsAssumption DEF Stop, JobInv, SubInv, TypeOK, NoJob, Listing, Emitting, Appending, Creating, Destroying
<1>8. RefsAccounted'
  <2>1. /\ \A f \in Subs : evt'[f].refs = evt[f].refs /\ (evt'[f].state = "live" => evt[f].state = "live")
        /\ op'[t] = op[t]
    BY <1>0, <1>1, <1>2 DEF Stop, Appending, NoOp
  <2>2. queue' = queue /\ (running' => running) /\ Others(t) /\ \A v \in Workers : job'[v].sub = job[v].sub
    BY <1>0, <1>1 DEF Stop, TypeOK
  <2> QED BY <1>0, <1>1, <1>3, <1>4, <2>1, <2>2, RefsKept
<1>9. ElementInv'
  <2>1. /\ \A f \in Subs : (evt'[f].state = "live") = (evt[f].state = "live")
        /\ op'[t] = op[t]
    BY <1>0, <1>1, <1>2 DEF Stop, NoOp
  <2>2. alive' = alive /\ ref_count' = ref_count /\ Others(t)
    BY <1>1 DEF Stop
  <2> QED BY <1>0, <1>1, <2>1, <2>2, ElementKept
<1> QED BY <1>4, <1>5, <1>6, <1>7, <1>8, <1>9 DEF IInv

\* sc_event_queue_destroy_wait begins to wait.
LEMMA ClosePoolStep ==
  ASSUME IInv, NEW t \in Clients, ClosePool(t)
  PROVE  IInv'
<1>0. TypeOK /\ RefsAccounted /\ CallInv /\ SubInv /\ TableInv /\ JobInv /\ ElementInv
  BY DEF IInv, RefsAccounted
<1>1. Moved(t, "free_pool", NoSub, NoSub, <<>>) /\ t \in Threads
  <2> DEFINE v == [NoOp EXCEPT !.pc = "free_pool"]
  <2>0. <<>> \in Seq(Subs)
    OBVIOUS
  <2>1. v.pc = "free_pool" /\ v.sub = NoSub /\ v.el = NoSub /\ v.rest = <<>>
    BY DEF NoOp
  <2>2. v \in OpType
    BY <1>0, <2>0 DEF NoOp, OpType, OpPoints
  <2>3. op' = [op EXCEPT ![t] = v] /\ t \in Threads
    BY DEF ClosePool, Threads
  <2> HIDE DEF v
  <2> QED BY <1>0, <2>1, <2>2, <2>3, ValueMoved
<1>2. evt' = evt
  BY DEF ClosePool
<1>3. TypeOK'
  BY <1>0, <1>1, <1>2, EventsAssumption DEF ClosePool, TypeOK, OpType, Moved, Others
<1>4. CallInv'
  BY <1>0, <1>1, <1>3, EventsAssumption DEF ClosePool, CallInv, TypeOK, Moved, Others, NoOp, Listing, Emitting, Appending, Creating, Destroying
<1>5. SubInv'
  BY <1>0, <1>1, <1>2, <1>3, EventsAssumption DEF ClosePool, SubInv, CallInv, TypeOK, Moved, Others, NoOp, Listing, Emitting, Appending, Creating, Destroying
<1>6. TableInv'
  <2>1. \/ op'[t] = op[t]
        \/ /\ op[t].pc # "flag" /\ op'[t].pc # "flag" /\ Distinct(op'[t].rest)
           /\ op'[t].pc \in Emitting => ToSet(op'[t].rest) \subseteq ToSet(table[op'[t].el])
    BY <1>0, <1>1, EmptyList DEF ClosePool, CallInv, TableInv, Moved, NoOp, Listing, Emitting
  <2>2. \A f \in Subs : Live(evt'[f]) = Live(evt[f]) /\ Open(evt'[f]) = Open(evt[f])
    BY <1>2
  <2>3. table' = table /\ Others(t)
    BY <1>1 DEF ClosePool, Moved, Others
  <2> QED BY <1>0, <1>1, <1>3, <2>1, <2>2, <2>3, TableKept
<1>7. JobInv'
  BY <1>0, <1>1, <1>2, <1>3, EventsAssumption DEF ClosePool, JobInv, SubInv, TypeOK, NoJob, Listing, Emitting, Appending, Creating, Destroying
<1>8. RefsAccounted'
  <2>1. /\ \A f \in Subs : evt'[f].refs = evt[f].refs /\ (evt'[f].state = "live" => evt[f].state = "live")
        /\ \/ op'[t] = op[t]
           \/ /\ op[t].pc \notin Appending \cup {"wait"}
              /\ op'[t].pc \notin Appending \cup {"wait"}
    BY <1>0, <1>1, <1>2 DEF ClosePool, Moved, Others, Appending, NoOp
  <2>2. queue' = queue /\ (running' => running) /\ Others(t) /\ \A v \in Workers : job'[v].sub = job[v].sub
    BY <1>0, <1>1 DEF ClosePool, TypeOK, Moved, Others
  <2> QED BY <1>0, <1>1, <1>3, <1>4, <2>1, <2>2, RefsKept
<1>9. ElementInv'
  <2>1. /\ \A f \in Subs : (evt'[f].state = "live") = (evt[f].state = "live")
        /\ op'[t] = op[t] \/ (op[t].pc # "insert" /\ op'[t].pc # "insert")
    BY <1>0, <1>1, <1>2 DEF ClosePool, Moved, Others, NoOp
  <2>2. alive' = alive /\ ref_count' = ref_count /\ Others(t)
    BY <1>1 DEF ClosePool, Moved, Others
  <2> QED BY <1>0, <1>1, <2>1, <2>2, ElementKept
<1> QED BY <1>4, <1>5, <1>6, <1>7, <1>8, <1>9 DEF IInv

\* The pool is dry.
LEMMA PoolClosedStep ==
  ASSUME IInv, NEW t \in Threads, PoolClosed(t)
  PROVE  IInv'
<1>0. TypeOK /\ RefsAccounted /\ CallInv /\ SubInv /\ TableInv /\ JobInv /\ ElementInv
  BY DEF IInv, RefsAccounted
<1>1. Moved(t, "idle", NoSub, NoSub, <<>>) /\ t \in Threads
  <2> DEFINE v == NoOp
  <2>0. <<>> \in Seq(Subs)
    OBVIOUS
  <2>1. v.pc = "idle" /\ v.sub = NoSub /\ v.el = NoSub /\ v.rest = <<>>
    BY DEF NoOp
  <2>2. v \in OpType
    BY <1>0, <2>0 DEF NoOp, OpType, OpPoints
  <2>3. op' = [op EXCEPT ![t] = v] /\ t \in Threads
    BY DEF PoolClosed, Threads
  <2> HIDE DEF v
  <2> QED BY <1>0, <2>1, <2>2, <2>3, ValueMoved
<1>2. evt' = evt
  BY DEF PoolClosed
<1>3. TypeOK'
  BY <1>0, <1>1, <1>2, EventsAssumption DEF PoolClosed, TypeOK, OpType, Moved, Others
<1>4. CallInv'
  BY <1>0, <1>1, <1>3, EventsAssumption DEF PoolClosed, CallInv, TypeOK, Moved, Others, NoOp, Listing, Emitting, Appending, Creating, Destroying
<1>5. SubInv'
  BY <1>0, <1>1, <1>2, <1>3, EventsAssumption DEF PoolClosed, SubInv, CallInv, TypeOK, Moved, Others, NoOp, Listing, Emitting, Appending, Creating, Destroying
<1>6. TableInv'
  <2>1. \/ op'[t] = op[t]
        \/ /\ op[t].pc # "flag" /\ op'[t].pc # "flag" /\ Distinct(op'[t].rest)
           /\ op'[t].pc \in Emitting => ToSet(op'[t].rest) \subseteq ToSet(table[op'[t].el])
    BY <1>0, <1>1, EmptyList DEF PoolClosed, CallInv, TableInv, Moved, NoOp, Listing, Emitting
  <2>2. \A f \in Subs : Live(evt'[f]) = Live(evt[f]) /\ Open(evt'[f]) = Open(evt[f])
    BY <1>2
  <2>3. table' = table /\ Others(t)
    BY <1>1 DEF PoolClosed, Moved, Others
  <2> QED BY <1>0, <1>1, <1>3, <2>1, <2>2, <2>3, TableKept
<1>7. JobInv'
  BY <1>0, <1>1, <1>2, <1>3, EventsAssumption DEF PoolClosed, JobInv, SubInv, TypeOK, NoJob, Listing, Emitting, Appending, Creating, Destroying
<1>8. RefsAccounted'
  <2>1. /\ \A f \in Subs : evt'[f].refs = evt[f].refs /\ (evt'[f].state = "live" => evt[f].state = "live")
        /\ \/ op'[t] = op[t]
           \/ /\ op[t].pc \notin Appending \cup {"wait"}
              /\ op'[t].pc \notin Appending \cup {"wait"}
    BY <1>0, <1>1, <1>2 DEF PoolClosed, Moved, Others, Appending, NoOp
  <2>2. queue' = queue /\ (running' => running) /\ Others(t) /\ \A v \in Workers : job'[v].sub = job[v].sub
    BY <1>0, <1>1 DEF PoolClosed, TypeOK, Moved, Others
  <2> QED BY <1>0, <1>1, <1>3, <1>4, <2>1, <2>2, RefsKept
<1>9. ElementInv'
  <2>1. /\ \A f \in Subs : (evt'[f].state = "live") = (evt[f].state = "live")
        /\ op'[t] = op[t] \/ (op[t].pc # "insert" /\ op'[t].pc # "insert")
    BY <1>0, <1>1, <1>2 DEF PoolClosed, Moved, Others, NoOp
  <2>2. alive' = alive /\ ref_count' = ref_count /\ Others(t)
    BY <1>1 DEF PoolClosed, Moved, Others
  <2> QED BY <1>0, <1>1, <2>1, <2>2, ElementKept
<1> QED BY <1>4, <1>5, <1>6, <1>7, <1>8, <1>9 DEF IInv

\* Init => IInv: nothing is subscribed, queued or called.
LEMMA InitInv == Init => IInv
<1> SUFFICES ASSUME Init PROVE IInv
  OBVIOUS
<1>1. \A S : <<>> \in Seq(S)
  OBVIOUS
<1>2. TypeOK
  BY <1>1, EventsAssumption DEF Init, TypeOK, NewSub, NoOp, NoJob, OpPoints
<1>3. CallInv
  BY EventsAssumption DEF Init, CallInv, NoOp, Threads, Listing, Emitting, Appending, Creating, Destroying
<1>4. SubInv
  BY EventsAssumption DEF Init, SubInv, NewSub, NoOp, Threads, Creating, Destroying
<1>5. TableInv
  BY EmptyList DEF Init, TableInv, NewSub, NoOp, Emitting
<1>6. JobInv
  BY EmptyList DEF Init, JobInv, NoJob
<1>7. RefsAccounted
  BY <1>2 DEF Init, RefsAccounted, NewSub
<1>8. ElementInv
  <2>1. \A x \in Elements : Listeners(x) = {}
    BY DEF Init, Listeners, NewSub, NoOp
  <2>2. \A x \in Elements : IsFiniteSet(Listeners(x)) /\ Cardinality(Listeners(x)) = 0
    BY <2>1, FS_EmptySet, Zenon
  <2> QED BY <2>2 DEF Init, ElementInv
<1> QED BY <1>3, <1>4, <1>5, <1>6, <1>7, <1>8 DEF IInv

\* IInv /\ [Next]_vars => IInv'.
LEMMA NextInv == IInv /\ [Next]_vars => IInv'
<1> SUFFICES ASSUME IInv, [Next]_vars PROVE IInv'
  OBVIOUS
<1>1. CASE UNCHANGED vars
  BY <1>1, CrashStep DEF vars, IInv, RefsAccounted, TypeOK
<1>2. ASSUME NEW t \in Threads, Start(t) PROVE IInv'
  BY <1>2, NewStep, DestroyStep, EmitStep, DeleteStep DEF Start
<1>3. ASSUME NEW t \in Threads, RefElement(t) PROVE IInv'
  <2>1. CASE ref_count[Element[op[t].sub]] = 0 /\ crashed' = "assert" /\ UNCHANGED <<op, ref_count>>
    BY <1>3, <2>1, CrashStep DEF RefElement
  <2>2. CASE /\ ref_count[Element[op[t].sub]] > 0
             /\ ref_count' = Refed(Element[op[t].sub])
             /\ op' = [op EXCEPT ![t].pc = "insert"]
             /\ UNCHANGED crashed
    BY <1>3, <2>2, RefElementStep
  <2> QED BY <1>3, <2>1, <2>2 DEF RefElement
<1>4. ASSUME NEW t \in Threads, Step(t) PROVE IInv'
  BY <1>3, <1>4, InsertStep, EmitDeletedStep, TryEmitStep, AppendJobStep, EmittedStep, NotifyStep,
     FlagStep, NotifiedStep, RemoveFromTableStep, UnrefStep, FreeSubStep, PoolClosedStep DEF Step
<1>5. ASSUME NEW w \in Workers, CallCallback(w) PROVE IInv'
  <2>1. CASE job' = [job EXCEPT ![w].pc = "body"] /\ UNCHANGED crashed
    BY <1>5, <2>1, CallCallbackStep
  <2>2. CASE crashed' = "null_callback" /\ UNCHANGED job
    BY <1>5, <2>2, CrashStep DEF CallCallback
  <2> QED BY <1>5, <2>1, <2>2 DEF CallCallback
<1>6. ASSUME NEW w \in Workers, Work(w) PROVE IInv'
  BY <1>5, <1>6, TakeJobStep, CheckCallbackStep, CallbackReturnsStep, UnrefJobStep DEF Work
<1>7. ASSUME NEW c \in Clients, Stop(c) \/ ClosePool(c) PROVE IInv'
  BY <1>7, StopStep, ClosePoolStep
<1> QED BY <1>1, <1>2, <1>4, <1>6, <1>7 DEF Next

\* The calls, the sc_events, the table, the queue and the references of the
\* elements agree in every reachable state (sc_event.c, sc_event_queue.c).
THEOREM EventsInvariance == Spec => []IInv
BY InitInv, NextInv, PTL DEF Spec

\* The count of references of every live sc_event accounts for its owner, its
\* queued and running jobs and the emission that is about to append one, for any
\* number of threads and subscriptions.
THEOREM RefsAccountedHolds == Spec => []RefsAccounted
<1>1. IInv => RefsAccounted
  BY DEF IInv
<1> QED BY <1>1, EventsInvariance, PTL

\* What sc_event_destroy freed is reachable from no list, no queue and no job.
THEOREM NoUseAfterFreeHolds == Spec => []NoUseAfterFree
<1>1. ASSUME IInv PROVE NoUseAfterFree
  <2> SUFFICES ASSUME NEW e \in Subs, evt[e].state = "freed"
               PROVE  /\ e \notin ToSet(queue) /\ UsedBy(e) = {}
                      /\ \A x \in Elements : e \notin ToSet(table[x])
    BY DEF NoUseAfterFree
  <2>0. TypeOK /\ CallInv /\ TableInv /\ JobInv
    BY <1>1 DEF IInv, RefsAccounted
  <2>1. e \notin ToSet(queue) /\ \A w \in Workers : job[w].sub # e
    BY <2>0, EventsAssumption DEF JobInv, NoJob
  <2>2. \A x \in Elements : e \notin ToSet(table[x])
    BY <2>0 DEF TableInv, Live
  <2>3. \A t \in Threads : e \notin ToSet(op[t].rest)
    <3> SUFFICES ASSUME NEW t \in Threads PROVE e \notin ToSet(op[t].rest)
      OBVIOUS
    <3>1. CASE op[t].rest = <<>>
      BY <3>1, EmptyList
    <3>2. CASE op[t].rest # <<>>
      <4>1. op[t].pc \in Listing
        BY <2>0, <3>2 DEF CallInv
      <4>2. op[t].pc \in Emitting => op[t].el \in Elements
        BY <2>0 DEF CallInv
      <4> QED BY <2>0, <3>2, <4>1, <4>2, Visited DEF Live
    <3> QED BY <3>1, <3>2
  <2> QED BY <2>1, <2>2, <2>3 DEF UsedBy
<1> QED BY <1>1, EventsInvariance, PTL

\* Emissions meet only live sc_events with their callback, and a destruction
\* that reaches the table finds its sc_event there.
THEOREM EmissionsSeeLiveHolds == Spec => []EmissionsSeeLive
<1>1. ASSUME IInv PROVE EmissionsSeeLive
  <2>0. TypeOK /\ CallInv /\ SubInv /\ TableInv
    BY <1>1 DEF IInv, RefsAccounted
  <2>1. ASSUME NEW t \in Threads, op[t].pc \in Emitting, NEW e \in ToSet(op[t].rest)
        PROVE  evt[e].state = "live" /\ evt[e].callback /\ ~evt[e].flag
    BY <2>0, <2>1 DEF CallInv, TableInv, Live
  <2>2. ASSUME NEW t \in Threads, op[t].pc = "remove", MutexFree
        PROVE  op[t].sub \in ToSet(table[Element[op[t].sub]])
    <3>1. op[t].sub \in Subs /\ evt[op[t].sub].state = "live" /\ ~evt[op[t].sub].flag
      BY <2>0, <2>2 DEF CallInv, SubInv, Destroying
    <3>2. \A u \in Threads : op[u].pc # "flag"
      BY <2>0, <2>2, NoLists DEF Listing
    <3> QED BY <2>0, <3>1, <3>2 DEF TableInv
  <2> QED BY <2>1, <2>2 DEF EmissionsSeeLive, Emitting
<1> QED BY <1>1, EventsInvariance, PTL
=============================================================================
