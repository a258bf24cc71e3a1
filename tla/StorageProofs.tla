--------------------------- MODULE StorageProofs ---------------------------
(***************************************************************************)
(* Proofs about the storage of sc-elements.                                *)
(*                                                                         *)
(* The inductive invariant IInv says, besides RefsExact, that the lists    *)
(* of outgoing and of incoming arcs are chained (Chained, below) at every  *)
(* moment, also between two turns of the loop that erases; and, for the    *)
(* deletion in progress, which lists it has walked, that nobody else can   *)
(* change what it found there, and that the loop keeps everything it will  *)
(* write locked.                                                           *)
(*                                                                         *)
(* A step of another thread is reduced to Outside, all that a deletion in  *)
(* progress has to know of it.                                             *)
(***************************************************************************)
EXTENDS Storage, WellFoundedInduction, TLAPS

-----------------------------------------------------------------------------
\* Doubly linked lists of arcs, each threaded through the arcs themselves: what
\* sc_storage.c keeps twice, for the outgoing and for the incoming arcs of
\* every element.  own[a] is the element in whose list arc a is, first[x] the
\* first arc of the list of element x.  Everything is said of one arc and its
\* neighbours, except that no arcs form a ring: every set of arcs has one whose
\* predecessor is not in it.

Ringless(arcs, prev) ==
  \A S \in SUBSET arcs : S # {} => \E a \in S : prev[a] \notin S

Chained(arcs, valid, own, first, next, prev) ==
  /\ \A a \in arcs :
       /\ next[a] # NoAddr =>
            next[a] \in arcs /\ own[next[a]] = own[a] /\ prev[next[a]] = a
       /\ prev[a] # NoAddr =>
            prev[a] \in arcs /\ own[prev[a]] = own[a] /\ next[prev[a]] = a
       /\ prev[a] = NoAddr /\ own[a] \in valid => first[own[a]] = a
  /\ \A x \in valid :
       first[x] # NoAddr =>
         first[x] \in arcs /\ own[first[x]] = x /\ prev[first[x]] = NoAddr
  /\ Ringless(arcs, prev)

\* S has the first arc of x and with every arc the next one.
Closed(S, x, first, next) ==
  /\ first[x] \in S \cup {NoAddr}
  /\ \A a \in S : next[a] \in S \cup {NoAddr}

\* A walk from the first arc of an element meets all of its arcs: what is not
\* met would have a first arc, which is the first of the element or the next
\* of one that was met.
LEMMA WalkComplete ==
  ASSUME NEW arcs, NEW valid, NEW own, NEW first, NEW next, NEW prev,
         Chained(arcs, valid, own, first, next, prev), NoAddr \notin arcs,
         NEW x \in valid, NEW S, Closed(S, x, first, next)
  PROVE  \A a \in arcs : own[a] = x => a \in S
<1> DEFINE missed == {a \in arcs : own[a] = x /\ a \notin S}
<1> SUFFICES ASSUME missed # {} PROVE FALSE
  OBVIOUS
<1>1. PICK a \in missed : prev[a] \notin missed
  <2>1. missed \in SUBSET arcs
    OBVIOUS
  <2> QED BY <2>1 DEF Chained, Ringless
<1>2. CASE prev[a] = NoAddr
  BY <1>1, <1>2 DEF Chained, Closed
<1>3. CASE prev[a] # NoAddr
  <2>1. prev[a] \in arcs /\ own[prev[a]] = x /\ next[prev[a]] = a
    BY <1>1, <1>3 DEF Chained
  <2>2. prev[a] \in S
    BY <1>1, <2>1
  <2> QED BY <1>1, <2>1, <2>2 DEF Closed
<1> QED BY <1>2, <1>3

\* The arcs of an element are closed themselves: a walk meets no other.
LEMMA WalkSound ==
  ASSUME NEW arcs, NEW valid, NEW own, NEW first, NEW next, NEW prev,
         Chained(arcs, valid, own, first, next, prev), NEW x \in valid
  PROVE  Closed({a \in arcs : own[a] = x}, x, first, next)
BY DEF Chained, Closed

\* The arcs stay as they are while elements without arcs come and elements go.
LEMMA KeepChained ==
  ASSUME NEW arcs, NEW valid, NEW own, NEW first, NEW next, NEW prev,
         Chained(arcs, valid, own, first, next, prev),
         NEW valid2, NEW own2, NEW first2, NEW next2, NEW prev2,
         \A x \in arcs : own2[x] = own[x] /\ next2[x] = next[x] /\ prev2[x] = prev[x],
         \A x \in valid2 : \/ x \in valid /\ first2[x] = first[x]
                           \/ first2[x] = NoAddr /\ \A a \in arcs : own[a] # x
  PROVE  Chained(arcs, valid2, own2, first2, next2, prev2)
<1>1. Ringless(arcs, prev2)
  BY DEF Chained, Ringless
<1> QED BY <1>1 DEF Chained

\* A new arc a is put in front of the arcs of b.
LEMMA InsertChained ==
  ASSUME NEW arcs, NEW valid, NEW own, NEW first, NEW next, NEW prev,
         Chained(arcs, valid, own, first, next, prev), NoAddr \notin arcs,
         NEW a, a \notin arcs, a \notin valid, a # NoAddr, NEW b \in valid,
         \A x \in arcs : own[x] # a,
         NEW own2, NEW first2, NEW next2, NEW prev2,
         \A x \in arcs \cup {a} :
           /\ own2[x] = IF x = a THEN b ELSE own[x]
           /\ next2[x] = IF x = a THEN first[b] ELSE next[x]
           /\ prev2[x] = IF x = a THEN NoAddr ELSE IF x = first[b] THEN a ELSE prev[x],
         \A x \in valid \cup {a} :
           first2[x] = IF x = b THEN a ELSE IF x = a THEN NoAddr ELSE first[x]
  PROVE  Chained(arcs \cup {a}, valid \cup {a}, own2, first2, next2, prev2)
<1>1. ASSUME NEW x \in arcs \cup {a}
      PROVE  /\ next2[x] # NoAddr =>
                  next2[x] \in arcs \cup {a} /\ own2[next2[x]] = own2[x] /\ prev2[next2[x]] = x
             /\ prev2[x] # NoAddr =>
                  prev2[x] \in arcs \cup {a} /\ own2[prev2[x]] = own2[x] /\ next2[prev2[x]] = x
             /\ prev2[x] = NoAddr /\ own2[x] \in valid \cup {a} => first2[own2[x]] = x
  BY DEF Chained
<1>2. ASSUME NEW x \in valid \cup {a}, first2[x] # NoAddr
      PROVE  first2[x] \in arcs \cup {a} /\ own2[first2[x]] = x /\ prev2[first2[x]] = NoAddr
  BY <1>2 DEF Chained
<1>3. Ringless(arcs \cup {a}, prev2)
  <2> SUFFICES ASSUME NEW S \in SUBSET (arcs \cup {a}), S # {}
               PROVE  \E x \in S : prev2[x] \notin S
    BY DEF Ringless
  <2>1. CASE a \in S
    BY <2>1
  <2>2. CASE a \notin S
    <3>1. PICK x \in S : prev[x] \notin S
      BY <2>2 DEF Chained, Ringless
    <3> QED BY <2>2, <3>1
  <2> QED BY <2>1, <2>2
<1> QED BY <1>1, <1>2, <1>3 DEF Chained

\* Arc a is taken out; elements may become invalid at the same time.
LEMMA RemoveChained ==
  ASSUME NEW arcs, NEW valid, NEW own, NEW first, NEW next, NEW prev,
         Chained(arcs, valid, own, first, next, prev), NoAddr \notin arcs,
         NEW a \in arcs, NEW valid2, valid2 \subseteq valid,
         NEW own2, NEW first2, NEW next2, NEW prev2,
         \A x \in arcs \ {a} :
           /\ own2[x] = own[x]
           /\ next2[x] = IF x = prev[a] THEN next[a] ELSE next[x]
           /\ prev2[x] = IF x = next[a] THEN prev[a] ELSE prev[x],
         \A x \in valid2 :
           first2[x] = IF x = own[a] /\ first[x] = a THEN next[a] ELSE first[x]
  PROVE  Chained(arcs \ {a}, valid2, own2, first2, next2, prev2)
<1>0. prev[a] # a /\ next[a] # a
  <2>1. {a} \in SUBSET arcs /\ {a} # {}
    OBVIOUS
  <2>2. prev[a] \notin {a}
    BY <2>1 DEF Chained, Ringless
  <2> QED BY <2>2 DEF Chained
<1>1. ASSUME NEW x \in arcs \ {a}
      PROVE  /\ next2[x] # NoAddr =>
                  next2[x] \in arcs \ {a} /\ own2[next2[x]] = own2[x] /\ prev2[next2[x]] = x
             /\ prev2[x] # NoAddr =>
                  prev2[x] \in arcs \ {a} /\ own2[prev2[x]] = own2[x] /\ next2[prev2[x]] = x
             /\ prev2[x] = NoAddr /\ own2[x] \in valid2 => first2[own2[x]] = x
  BY <1>0 DEF Chained
<1>2. ASSUME NEW x \in valid2, first2[x] # NoAddr
      PROVE  first2[x] \in arcs \ {a} /\ own2[first2[x]] = x /\ prev2[first2[x]] = NoAddr
  BY <1>0, <1>2 DEF Chained
<1>3. Ringless(arcs \ {a}, prev2)
  <2> SUFFICES ASSUME NEW S \in SUBSET (arcs \ {a}), S # {}
               PROVE  \E x \in S : prev2[x] \notin S
    BY DEF Ringless
  <2>1. CASE next[a] \notin S
    <3>1. PICK x \in S : prev[x] \notin S
      BY DEF Chained, Ringless
    <3> QED BY <2>1, <3>1
  <2>2. CASE next[a] \in S
    <3>1. S \cup {a} \in SUBSET arcs /\ S \cup {a} # {}
      OBVIOUS
    <3>2. PICK x \in S \cup {a} : prev[x] \notin S \cup {a}
      BY <3>1 DEF Chained, Ringless
    <3>3. CASE x = a
      BY <2>2, <3>2, <3>3
    <3>4. CASE x # a
      <4>1. x # next[a]
        BY <2>2, <3>2, <3>4 DEF Chained
      <4> QED BY <3>2, <3>4, <4>1
    <3> QED BY <3>3, <3>4
  <2> QED BY <2>1, <2>2
<1> QED BY <1>1, <1>2, <1>3 DEF Chained

-----------------------------------------------------------------------------
\* The inductive invariant.

Valids == {a \in Addr : Valid(a)}

\* The two kinds of lists.
OutChained ==
  Chained(Arcs, Valids, [x \in Addr |-> el[x].begin], [x \in Addr |-> el[x].first_out],
          [x \in Addr |-> el[x].next_out], [x \in Addr |-> el[x].prev_out])

InChained ==
  Chained(Arcs, Valids, [x \in Addr |-> el[x].end], [x \in Addr |-> el[x].first_in],
          [x \in Addr |-> el[x].next_in], [x \in Addr |-> el[x].prev_in])

\* An arc has a begin and an end.
HasEnds == \A a \in Arcs : el[a].begin \in Addr /\ el[a].end \in Addr

\* The members of remove_list.
Listed == {free.list[i] : i \in 1..Len(free.list)}

\* Arc a starts or ends in x.
Touches(a, x) == el[a].begin = x \/ el[a].end = x

\* Of a collected element whose lists were walked, every arc is collected, and
\* what is linked to it is locked.
Walked(x) ==
  /\ \A a \in Arcs : Touches(a, x) => a \in free.table
  /\ Neighbours(x) \subseteq free.locked

\* While a list is walked, a set of collected arcs leads from its first arc to
\* the cursor.
WalkedTo(first, next) ==
  \E V \in SUBSET free.table :
    /\ first \in V \cup {free.cursor, NoAddr}
    /\ \A b \in V : next[b] \in V \cup {free.cursor, NoAddr}

\* While remove_table is filled.
Collecting ==
  /\ free.table \subseteq Valids
  /\ Listed \subseteq free.table
  /\ free.last \in free.table
  /\ \A x \in free.table \ Listed : x # free.last \/ free.phase = "check" => Walked(x)
  /\ \A x \in free.table \ (Listed \cup {free.last}) : free.level >= el[x].access

\* While the outgoing arcs of last are walked.
WalkingOut ==
  /\ Neighbours(free.last) \subseteq free.locked
  /\ free.cursor \in {NoAddr} \cup {a \in Arcs : el[a].begin = free.last}
  /\ WalkedTo(el[free.last].first_out, [x \in Addr |-> el[x].next_out])

\* While the incoming arcs of last are walked, its outgoing ones are collected.
WalkingIn ==
  /\ Neighbours(free.last) \subseteq free.locked
  /\ \A a \in Arcs : el[a].begin = free.last => a \in free.table
  /\ free.cursor \in {NoAddr} \cup {a \in Arcs : el[a].end = free.last}
  /\ WalkedTo(el[free.last].first_in, [x \in Addr |-> el[x].next_in])

\* S has with every element the arcs that start or end in it.
ArcClosed(S) == \A a \in Arcs : el[a].begin \in S \/ el[a].end \in S => a \in S

\* All that is collected is there because of one element.
Rooted ==
  \E r \in free.table : \A S \in SUBSET Valids :
    r \in S /\ ArcClosed(S) => free.table \subseteq S

\* While remove_table is erased: todo is what is still there of it.
Erasing ==
  /\ free.table # {}
  /\ free.todo \subseteq free.table
  /\ \A a \in free.table : Valid(a) <=> a \in free.todo
  /\ ArcClosed(free.table)
  /\ \A a \in Arcs \ free.table : Valid(el[a].begin) /\ Valid(el[a].end)
  /\ \A a \in free.todo : Neighbours(a) \subseteq free.locked
  /\ free.todo # free.table => emitted # {}

FreeInv ==
  /\ free.table \subseteq free.locked
  /\ free.phase = "none" => free = Idle
  /\ free.phase \in {"check", "out", "in"} => Collecting /\ Rooted
  /\ free.phase = "out" => WalkingOut
  /\ free.phase = "in" => WalkingIn
  /\ free.phase = "erase" => Erasing
  /\ free.phase # "erase" =>
       /\ emitted = {} /\ free.todo = {}
       /\ \A a \in Arcs : Valid(el[a].begin) /\ Valid(el[a].end)

IInv == RefsExact /\ HasEnds /\ OutChained /\ InChained /\ FreeInv

-----------------------------------------------------------------------------
\* What the operations write, field by field.

LinkFields == {"first_out", "first_in", "next_out", "prev_out", "next_in", "prev_in"}
Fields == {"type", "deleted", "access", "begin", "end"} \cup LinkFields

\* The lowest level exists: Nat is well founded.
LEMMA LowestLevel == Lowest \in Levels
<1> DEFINE less == {ss \in Nat \X Nat : ss[1] < ss[2]}
<1>1. IsWellFoundedOn(less, Nat)
  BY NatLessThanWellFounded DEF OpToRel
<1>2. PICK l \in Levels : \A k \in Levels : <<k, l>> \notin less
  <2> HIDE DEF less
  <2> QED BY <1>1, WFMin, StorageAssumption
<1>3. ASSUME NEW k \in Levels PROVE l <= k
  <2>1. k \in Nat /\ l \in Nat
    BY StorageAssumption
  <2>2. k < l => <<k, l>> \in less
    BY <2>1
  <2> QED BY <1>2, <2>1, <2>2
<1> QED BY <1>3 DEF Lowest

\* What memset leaves is an element.
LEMMA BlankElement == Blank \in Elements
BY LowestLevel DEF Blank, Elements, AddrOrNone

\* Set writes one field of one element and nothing else.
LEMMA SetWrites ==
  ASSUME NEW e \in [Addr -> Elements], NEW x \in AddrOrNone, NEW f \in LinkFields,
         NEW v \in AddrOrNone
  PROVE  /\ Set(e, x, f, v) \in [Addr -> Elements]
         /\ \A y \in Addr : \A g \in Fields :
              Set(e, x, f, v)[y][g] = IF y = x /\ g = f THEN v ELSE e[y][g]
<1>1. CASE x = NoAddr
  BY <1>1, StorageAssumption DEF Set
<1>2. CASE x # NoAddr
  <2>1. x \in Addr
    BY <1>2 DEF AddrOrNone
  <2>2. ASSUME NEW r \in Elements
        PROVE  /\ [r EXCEPT ![f] = v] \in Elements
               /\ \A g \in Fields : [r EXCEPT ![f] = v][g] = IF g = f THEN v ELSE r[g]
    BY DEF Elements, LinkFields, Fields
  <2> QED BY <1>2, <2>1, <2>2 DEF Set
<1> QED BY <1>1, <1>2

\* What sc_storage_arc_new_ext writes, field by field.
LEMMA LinkedWrites ==
  ASSUME TypeOK, NEW a \in Addr, NEW b \in Addr \ {a}, NEW e \in Addr \ {a}, NEW l \in Levels,
         el[b].first_out # a, el[e].first_in # a
  PROVE  /\ Linked(a, b, e, l) \in [Addr -> Elements]
         /\ LET new == Linked(a, b, e, l)[a] IN
              /\ new.type = "arc" /\ ~new.deleted /\ new.begin = b /\ new.end = e
              /\ new.first_out = NoAddr /\ new.next_out = el[b].first_out /\ new.prev_out = NoAddr
              /\ new.first_in = NoAddr /\ new.next_in = el[e].first_in /\ new.prev_in = NoAddr
         /\ \A y \in Addr \ {a} :
              /\ \A g \in {"type", "deleted", "access", "begin", "end", "next_out", "next_in"} :
                   Linked(a, b, e, l)[y][g] = el[y][g]
              /\ Linked(a, b, e, l)[y].prev_out =
                   IF y = el[b].first_out THEN a ELSE el[y].prev_out
              /\ Linked(a, b, e, l)[y].prev_in =
                   IF y = el[e].first_in THEN a ELSE el[y].prev_in
              /\ Linked(a, b, e, l)[y].first_out = IF y = b THEN a ELSE el[y].first_out
              /\ Linked(a, b, e, l)[y].first_in = IF y = e THEN a ELSE el[y].first_in
<1> DEFINE new == [Blank EXCEPT !.type = "arc", !.access = l, !.begin = b, !.end = e,
                           !.next_out = el[b].first_out, !.next_in = el[e].first_in]
           s1 == [el EXCEPT ![a] = new]
           s2 == Set(s1, el[b].first_out, "prev_out", a)
           s3 == Set(s2, el[e].first_in, "prev_in", a)
           s4 == Set(s3, b, "first_out", a)
           s5 == Set(s4, e, "first_in", a)
<1>0. /\ el[b].first_out \in AddrOrNone /\ el[e].first_in \in AddrOrNone
      /\ a \in AddrOrNone /\ b \in AddrOrNone /\ e \in AddrOrNone
  BY DEF TypeOK, Elements, AddrOrNone
<1>1. new \in Elements
  BY <1>0, BlankElement DEF Elements
<1>2. s1 \in [Addr -> Elements] /\ s1[a] = new /\ \A y \in Addr \ {a} : s1[y] = el[y]
  <2> HIDE DEF new
  <2> QED BY <1>1 DEF TypeOK
<1> HIDE DEF s1, s2, s3, s4, s5
<1>3. s2 \in [Addr -> Elements] /\ \A y \in Addr : \A g \in Fields :
        s2[y][g] = IF y = el[b].first_out /\ g = "prev_out" THEN a ELSE s1[y][g]
  <2>1. "prev_out" \in LinkFields
    BY DEF LinkFields
  <2> QED BY <1>0, <1>2, <2>1, SetWrites DEF s2
<1>4. s3 \in [Addr -> Elements] /\ \A y \in Addr : \A g \in Fields :
        s3[y][g] = IF y = el[e].first_in /\ g = "prev_in" THEN a ELSE s2[y][g]
  <2>1. "prev_in" \in LinkFields
    BY DEF LinkFields
  <2> QED BY <1>0, <1>3, <2>1, SetWrites DEF s3
<1>5. s4 \in [Addr -> Elements] /\ \A y \in Addr : \A g \in Fields :
        s4[y][g] = IF y = b /\ g = "first_out" THEN a ELSE s3[y][g]
  <2>1. "first_out" \in LinkFields
    BY DEF LinkFields
  <2> QED BY <1>0, <1>4, <2>1, SetWrites DEF s4
<1>6. s5 \in [Addr -> Elements] /\ \A y \in Addr : \A g \in Fields :
        s5[y][g] = IF y = e /\ g = "first_in" THEN a ELSE s4[y][g]
  <2>1. "first_in" \in LinkFields
    BY DEF LinkFields
  <2> QED BY <1>0, <1>5, <2>1, SetWrites DEF s5
<1>7. Linked(a, b, e, l) = s5
  BY DEF Linked, s1, s2, s3, s4, s5
<1>8. \A y \in Addr, g \in Fields : 
        s5[y][g] = IF y = e /\ g = "first_in" THEN a
                   ELSE IF y = b /\ g = "first_out" THEN a
                   ELSE IF y = el[e].first_in /\ g = "prev_in" THEN a
                   ELSE IF y = el[b].first_out /\ g = "prev_out" THEN a
                   ELSE s1[y][g]
  BY <1>3, <1>4, <1>5, <1>6
<1>9. \A g \in Fields : s5[a][g] = new[g]
  <2> HIDE DEF new
  <2> QED BY <1>2, <1>8
<1>10. /\ new.type = "arc" /\ ~new.deleted /\ new.begin = b /\ new.end = e
       /\ new.first_out = NoAddr /\ new.next_out = el[b].first_out /\ new.prev_out = NoAddr
       /\ new.first_in = NoAddr /\ new.next_in = el[e].first_in /\ new.prev_in = NoAddr
  BY DEF Blank
<1> HIDE DEF new
<1> QED BY <1>2, <1>6, <1>7, <1>8, <1>9, <1>10 DEF Fields, LinkFields

\* What taking an arc out of the outgoing arcs of its begin writes.
LEMMA UnlinkedOutWrites ==
  ASSUME NEW e \in [Addr -> Elements], NEW a \in Addr, e[a].begin \in Addr
  PROVE  /\ UnlinkedOut(e, a) \in [Addr -> Elements]
         /\ \A y \in Addr :
              /\ \A g \in Fields \ {"first_out", "next_out", "prev_out"} :
                   UnlinkedOut(e, a)[y][g] = e[y][g]
              /\ UnlinkedOut(e, a)[y].next_out =
                   IF y = e[a].prev_out THEN e[a].next_out ELSE e[y].next_out
              /\ UnlinkedOut(e, a)[y].prev_out =
                   IF y = e[a].next_out THEN e[a].prev_out ELSE e[y].prev_out
              /\ UnlinkedOut(e, a)[y].first_out =
                   IF y = e[a].begin /\ e[y].first_out = a THEN e[a].next_out
                   ELSE e[y].first_out
<1> DEFINE s1 == Set(e, e[a].prev_out, "next_out", e[a].next_out)
           s2 == Set(s1, e[a].next_out, "prev_out", e[a].prev_out)
           s3 == Set(s2, e[a].begin, "first_out", e[a].next_out)
<1>0. /\ e[a].begin \in AddrOrNone
      /\ e[a].next_out \in AddrOrNone /\ e[a].prev_out \in AddrOrNone
      /\ {"first_out", "next_out", "prev_out"} \subseteq LinkFields
      /\ LinkFields \subseteq Fields
  BY DEF Elements, AddrOrNone, LinkFields, Fields
<1> HIDE DEF s1, s2, s3
<1>1. s1 \in [Addr -> Elements] /\ \A y \in Addr : \A g \in Fields :
        s1[y][g] = IF y = e[a].prev_out /\ g = "next_out" THEN e[a].next_out ELSE e[y][g]
  BY <1>0, SetWrites DEF s1
<1>2. s2 \in [Addr -> Elements] /\ \A y \in Addr : \A g \in Fields :
        s2[y][g] = IF y = e[a].next_out /\ g = "prev_out" THEN e[a].prev_out ELSE s1[y][g]
  BY <1>0, <1>1, SetWrites DEF s2
<1>3. s3 \in [Addr -> Elements] /\ \A y \in Addr : \A g \in Fields :
        s3[y][g] = IF y = e[a].begin /\ g = "first_out" THEN e[a].next_out ELSE s2[y][g]
  BY <1>0, <1>2, SetWrites DEF s3
<1>4. UnlinkedOut(e, a) = IF s2[e[a].begin].first_out = a THEN s3 ELSE s2
  BY DEF UnlinkedOut, s1, s2, s3
<1>5. \A y \in Addr : s2[y].first_out = e[y].first_out
  BY <1>0, <1>1, <1>2
<1>6. CASE e[e[a].begin].first_out = a
  <2>1. UnlinkedOut(e, a) = s3
    BY <1>4, <1>5, <1>6
  <2> QED BY <1>0, <1>1, <1>2, <1>3, <1>6, <2>1
<1>7. CASE e[e[a].begin].first_out # a
  <2>1. UnlinkedOut(e, a) = s2
    BY <1>4, <1>5, <1>7
  <2> QED BY <1>0, <1>1, <1>2, <1>7, <2>1
<1> QED BY <1>6, <1>7

\* What taking an arc out of the incoming arcs of its end writes.
LEMMA UnlinkedInWrites ==
  ASSUME NEW e \in [Addr -> Elements], NEW a \in Addr, e[a].end \in Addr
  PROVE  /\ UnlinkedIn(e, a) \in [Addr -> Elements]
         /\ \A y \in Addr :
              /\ \A g \in Fields \ {"first_in", "next_in", "prev_in"} :
                   UnlinkedIn(e, a)[y][g] = e[y][g]
              /\ UnlinkedIn(e, a)[y].next_in =
                   IF y = e[a].prev_in THEN e[a].next_in ELSE e[y].next_in
              /\ UnlinkedIn(e, a)[y].prev_in =
                   IF y = e[a].next_in THEN e[a].prev_in ELSE e[y].prev_in
              /\ UnlinkedIn(e, a)[y].first_in =
                   IF y = e[a].end /\ e[y].first_in = a THEN e[a].next_in
                   ELSE e[y].first_in
<1> DEFINE s1 == Set(e, e[a].prev_in, "next_in", e[a].next_in)
           s2 == Set(s1, e[a].next_in, "prev_in", e[a].prev_in)
           s3 == Set(s2, e[a].end, "first_in", e[a].next_in)
<1>0. /\ e[a].end \in AddrOrNone
      /\ e[a].next_in \in AddrOrNone /\ e[a].prev_in \in AddrOrNone
      /\ {"first_in", "next_in", "prev_in"} \subseteq LinkFields
      /\ LinkFields \subseteq Fields
  BY DEF Elements, AddrOrNone, LinkFields, Fields
<1> HIDE DEF s1, s2, s3
<1>1. s1 \in [Addr -> Elements] /\ \A y \in Addr : \A g \in Fields :
        s1[y][g] = IF y = e[a].prev_in /\ g = "next_in" THEN e[a].next_in ELSE e[y][g]
  BY <1>0, SetWrites DEF s1
<1>2. s2 \in [Addr -> Elements] /\ \A y \in Addr : \A g \in Fields :
        s2[y][g] = IF y = e[a].next_in /\ g = "prev_in" THEN e[a].prev_in ELSE s1[y][g]
  BY <1>0, <1>1, SetWrites DEF s2
<1>3. s3 \in [Addr -> Elements] /\ \A y \in Addr : \A g \in Fields :
        s3[y][g] = IF y = e[a].end /\ g = "first_in" THEN e[a].next_in ELSE s2[y][g]
  BY <1>0, <1>2, SetWrites DEF s3
<1>4. UnlinkedIn(e, a) = IF s2[e[a].end].first_in = a THEN s3 ELSE s2
  BY DEF UnlinkedIn, s1, s2, s3
<1>5. \A y \in Addr : s2[y].first_in = e[y].first_in
  BY <1>0, <1>1, <1>2
<1>6. CASE e[e[a].end].first_in = a
  <2>1. UnlinkedIn(e, a) = s3
    BY <1>4, <1>5, <1>6
  <2> QED BY <1>0, <1>1, <1>2, <1>3, <1>6, <2>1
<1>7. CASE e[e[a].end].first_in # a
  <2>1. UnlinkedIn(e, a) = s2
    BY <1>4, <1>5, <1>7
  <2> QED BY <1>0, <1>1, <1>2, <1>7, <2>1
<1> QED BY <1>6, <1>7

\* What one turn of the loop that erases writes to the other elements.
LEMMA EraseWrites ==
  ASSUME TypeOK, HasEnds, NEW a \in Addr, Valid(a), FreeErase(a)
  PROVE  /\ el' \in [Addr -> Elements]
         /\ ~Valid(a)'
         /\ el'[a].type = "empty" => ref_count[a] = 1
         /\ \A y \in Addr \ {a} :
              /\ \A g \in {"type", "deleted", "access", "begin", "end"} : el'[y][g] = el[y][g]
              /\ el[a].type # "arc" => el'[y] = el[y]
              /\ el[a].type = "arc" =>
                   /\ el'[y].next_out = IF y = el[a].prev_out THEN el[a].next_out ELSE el[y].next_out
                   /\ el'[y].prev_out = IF y = el[a].next_out THEN el[a].prev_out ELSE el[y].prev_out
                   /\ el'[y].first_out = IF y = el[a].begin /\ el[y].first_out = a
                                         THEN el[a].next_out ELSE el[y].first_out
                   /\ el'[y].next_in = IF y = el[a].prev_in THEN el[a].next_in ELSE el[y].next_in
                   /\ el'[y].prev_in = IF y = el[a].next_in THEN el[a].prev_in ELSE el[y].prev_in
                   /\ el'[y].first_in = IF y = el[a].end /\ el[y].first_in = a
                                        THEN el[a].next_in ELSE el[y].first_in
<1> DEFINE out == UnlinkedOut(el, a)
           in == UnlinkedIn(out, a)
           unlinked == IF el[a].type = "arc" THEN in ELSE el
           marked == Set(unlinked, a, "deleted", TRUE)
<1>1. el' = Unrefed(marked, a)
  BY DEF FreeErase
<1>2. el \in [Addr -> Elements] /\ el[a].type # "empty"
  BY DEF TypeOK, Valid
<1>3. ASSUME el[a].type = "arc"
      PROVE
        /\ in \in [Addr -> Elements]
        /\ \A y \in Addr :
             /\ \A g \in {"type", "deleted", "access", "begin", "end"} : in[y][g] = el[y][g]
             /\ in[y].next_out = IF y = el[a].prev_out THEN el[a].next_out ELSE el[y].next_out
             /\ in[y].prev_out = IF y = el[a].next_out THEN el[a].prev_out ELSE el[y].prev_out
             /\ in[y].first_out = IF y = el[a].begin /\ el[y].first_out = a
                                   THEN el[a].next_out ELSE el[y].first_out
             /\ in[y].next_in = IF y = el[a].prev_in THEN el[a].next_in ELSE el[y].next_in
             /\ in[y].prev_in = IF y = el[a].next_in THEN el[a].prev_in ELSE el[y].prev_in
             /\ in[y].first_in = IF y = el[a].end /\ el[y].first_in = a
                                  THEN el[a].next_in ELSE el[y].first_in
  <2>1. el[a].begin \in Addr /\ el[a].end \in Addr
    BY <1>3 DEF HasEnds, Arcs
  <2> HIDE DEF out, in
  <2>2. /\ out \in [Addr -> Elements]
        /\ \A y \in Addr :
             /\ \A g \in Fields \ {"first_out", "next_out", "prev_out"} : out[y][g] = el[y][g]
             /\ out[y].next_out = IF y = el[a].prev_out THEN el[a].next_out ELSE el[y].next_out
             /\ out[y].prev_out = IF y = el[a].next_out THEN el[a].prev_out ELSE el[y].prev_out
             /\ out[y].first_out = IF y = el[a].begin /\ el[y].first_out = a
                                   THEN el[a].next_out ELSE el[y].first_out
    BY <1>2, <2>1, UnlinkedOutWrites DEF out
  <2>3. \A y \in Addr :
          /\ out[y].type = el[y].type /\ out[y].deleted = el[y].deleted
          /\ out[y].access = el[y].access
          /\ out[y].begin = el[y].begin /\ out[y].end = el[y].end
          /\ out[y].next_in = el[y].next_in /\ out[y].prev_in = el[y].prev_in
          /\ out[y].first_in = el[y].first_in
    BY <2>2 DEF Fields, LinkFields
  <2>4. /\ in \in [Addr -> Elements]
        /\ \A y \in Addr :
             /\ \A g \in Fields \ {"first_in", "next_in", "prev_in"} : in[y][g] = out[y][g]
             /\ in[y].next_in = IF y = out[a].prev_in THEN out[a].next_in ELSE out[y].next_in
             /\ in[y].prev_in = IF y = out[a].next_in THEN out[a].prev_in ELSE out[y].prev_in
             /\ in[y].first_in = IF y = out[a].end /\ out[y].first_in = a
                                 THEN out[a].next_in ELSE out[y].first_in
    BY <2>1, <2>2, <2>3, UnlinkedInWrites DEF in
  <2>5. \A y \in Addr :
          /\ in[y].type = out[y].type /\ in[y].deleted = out[y].deleted
          /\ in[y].access = out[y].access
          /\ in[y].begin = out[y].begin /\ in[y].end = out[y].end
          /\ in[y].next_out = out[y].next_out /\ in[y].prev_out = out[y].prev_out
          /\ in[y].first_out = out[y].first_out
    BY <2>4 DEF Fields, LinkFields
  <2> QED BY <2>2, <2>3, <2>4, <2>5
<1> HIDE DEF in
<1>4. /\ unlinked \in [Addr -> Elements] /\ unlinked[a].type = el[a].type
      /\ \A y \in Addr : el[a].type # "arc" => unlinked[y] = el[y]
      /\ el[a].type = "arc" => unlinked = in
  BY <1>2, <1>3
<1> HIDE DEF unlinked
<1>5. marked = [unlinked EXCEPT ![a] = [@ EXCEPT !["deleted"] = TRUE]]
  BY StorageAssumption DEF Set
<1>6. /\ marked \in [Addr -> Elements] /\ marked[a].type = el[a].type /\ marked[a].deleted
      /\ \A y \in Addr \ {a} : marked[y] = unlinked[y]
  <2>1. /\ [unlinked[a] EXCEPT !["deleted"] = TRUE] \in Elements
        /\ [unlinked[a] EXCEPT !["deleted"] = TRUE].type = unlinked[a].type
        /\ [unlinked[a] EXCEPT !["deleted"] = TRUE].deleted
    BY <1>4 DEF Elements
  <2> QED BY <1>4, <1>5, <2>1
<1> HIDE DEF marked
<1>7. /\ el' \in [Addr -> Elements]
      /\ \A y \in Addr \ {a} : el'[y] = unlinked[y]
      /\ el'[a] = IF ref_count[a] = 1 THEN Blank ELSE marked[a]
  BY <1>1, <1>6, BlankElement DEF Unrefed
<1>8. ~Valid(a)' /\ (el'[a].type = "empty" => ref_count[a] = 1)
  BY <1>2, <1>6, <1>7 DEF Valid, Blank
<1> QED BY <1>3, <1>4, <1>7, <1>8

-----------------------------------------------------------------------------
\* What the other threads may do while a deletion runs, or none does: leave
\* alone what it has locked, create elements and arcs between elements it has not
\* locked, and neither remove nor move an arc.
Outside ==
  /\ UNCHANGED <<free, emitted>>
  /\ \A x \in free.locked : el'[x] = el[x]
  /\ \A x \in Addr : Valid(x) => Valid(x)'
  /\ \A a \in Arcs : /\ a \in Arcs'
                     /\ el'[a].begin = el[a].begin /\ el'[a].end = el[a].end
                     /\ el'[a].next_out = el[a].next_out /\ el'[a].next_in = el[a].next_in
  /\ \A a \in Arcs' \ Arcs :
       /\ ~Valid(a)
       /\ \A x \in Addr : Touches(a, x)' => Valid(x) /\ x \notin free.locked
       /\ el'[a].begin \in Addr /\ el'[a].end \in Addr

\* An arc's ends are there, or a deletion that has yet to erase the arc keeps
\* their slots locked.
LEMMA EndsKept ==
  ASSUME IInv, NEW a \in Arcs, NEW x \in Addr, Touches(a, x)
  PROVE  Valid(x) \/ x \in free.locked
<1>1. CASE free.phase # "erase"
  BY <1>1 DEF IInv, FreeInv, Touches
<1>2. CASE free.phase = "erase" /\ a \notin free.table
  BY <1>2 DEF IInv, FreeInv, Erasing, Touches
<1>3. CASE free.phase = "erase" /\ a \in free.table
  <2>1. a \in free.todo
    BY <1>3 DEF IInv, FreeInv, Erasing, Arcs
  <2>2. Neighbours(a) \subseteq free.locked
    BY <1>3, <2>1 DEF IInv, FreeInv, Erasing
  <2>3. x \in Neighbours(a)
    BY StorageAssumption DEF Neighbours, Touches, Arcs
  <2> QED BY <2>2, <2>3
<1> QED BY <1>1, <1>2, <1>3

\* What other threads do leaves walked lists walked, ...
LEMMA OutsideWalked ==
  ASSUME IInv, Outside, NEW x \in free.table, Walked(x)
  PROVE  Walked(x)'
<1>1. x \in free.locked /\ x \in Addr /\ free' = free
  BY DEF IInv, FreeInv, Outside, RefsExact, TypeOK, Deletions
<1>2. Neighbours(x)' = Neighbours(x)
  BY <1>1 DEF Outside, Neighbours
<1>3. ASSUME NEW a \in Arcs', Touches(a, x)' PROVE a \in free.table
  <2>1. a \in Arcs
    BY <1>1, <1>3 DEF Outside
  <2>2. Touches(a, x)
    BY <1>3, <2>1 DEF Outside, Touches
  <2> QED BY <2>1, <2>2 DEF Walked
<1> QED BY <1>1, <1>2, <1>3 DEF Walked

\* ... the collection as far as it is, ...
LEMMA OutsideCollecting ==
  ASSUME IInv, Outside, Collecting
  PROVE  Collecting'
<1>1. free' = free /\ free.table \subseteq free.locked /\ free.table \subseteq Addr
  BY DEF IInv, FreeInv, Outside, RefsExact, TypeOK, Deletions
<1>2. Listed' = Listed
  BY <1>1 DEF Listed
<1>3. free.table \subseteq Valids'
  BY <1>1 DEF Outside, Collecting, Valids
<1>4. \A x \in free.table : Walked(x) => Walked(x)'
  BY OutsideWalked
<1>5. \A x \in free.table : el'[x] = el[x]
  BY <1>1 DEF Outside
<1> QED BY <1>1, <1>2, <1>3, <1>4, <1>5 DEF Collecting

\* ... the reason why each element was collected, ...
LEMMA OutsideRooted ==
  ASSUME IInv, Outside, Collecting, Rooted
  PROVE  Rooted'
<1>1. free' = free
  BY DEF Outside
<1>2. PICK r \in free.table : \A S \in SUBSET Valids :
        r \in S /\ ArcClosed(S) => free.table \subseteq S
  BY DEF Rooted
<1>3. ASSUME NEW S \in SUBSET Valids', r \in S, ArcClosed(S)'
      PROVE  free.table \subseteq S
  <2> DEFINE T == S \cap Valids
  <2>1. r \in T
    BY <1>3 DEF Collecting
  <2>2. ArcClosed(T)
    <3> SUFFICES ASSUME NEW a \in Arcs, el[a].begin \in T \/ el[a].end \in T
                 PROVE  a \in T
      BY DEF ArcClosed
    <3>1. a \in Arcs' /\ (el'[a].begin \in S \/ el'[a].end \in S)
      BY DEF Outside
    <3>2. a \in S
      BY <1>3, <3>1 DEF ArcClosed
    <3> QED BY <3>2 DEF Arcs, Valids
  <2> QED BY <1>2, <2>1, <2>2
<1> QED BY <1>1, <1>2, <1>3 DEF Rooted

\* ... the erasure as far as it is, ...
LEMMA OutsideErasing ==
  ASSUME IInv, Outside, Erasing
  PROVE  Erasing'
<1>1. free' = free /\ emitted' = emitted /\ free.table \subseteq free.locked /\ free.table \subseteq Addr
  BY DEF IInv, FreeInv, Outside, RefsExact, TypeOK, Deletions
<1>2. \A a \in free.table : Valid(a)' <=> Valid(a)
  BY <1>1 DEF Outside, Valid
<1>3. ArcClosed(free.table)'
  <2> SUFFICES ASSUME NEW a \in Arcs', el'[a].begin \in free.table \/ el'[a].end \in free.table
               PROVE  a \in free.table
    BY <1>1 DEF ArcClosed
  <2>1. a \in Arcs
    BY <1>1 DEF Outside, Touches
  <2> QED BY <2>1 DEF Outside, Erasing, ArcClosed
<1>4. ASSUME NEW a \in Arcs' \ free.table PROVE Valid(el[a].begin)' /\ Valid(el[a].end)'
  <2>1. CASE a \in Arcs
    BY <1>4, <2>1 DEF Outside, Erasing, IInv, HasEnds, Valid
  <2>2. CASE a \notin Arcs
    BY <1>4, <2>2 DEF Outside, Touches
  <2> QED BY <2>1, <2>2
<1>5. \A a \in free.todo : Neighbours(a)' = Neighbours(a)
  BY <1>1 DEF Outside, Neighbours, Erasing
<1> QED BY <1>1, <1>2, <1>3, <1>4, <1>5 DEF Erasing

\* ... and a walk along outgoing ...
LEMMA OutsideWalkingOut ==
  ASSUME IInv, Outside, Collecting, WalkingOut
  PROVE  WalkingOut'
<1>1. /\ free' = free /\ free.table \subseteq free.locked /\ free.table \subseteq Addr
      /\ free.last \in free.table
  BY DEF IInv, FreeInv, Outside, RefsExact, TypeOK, Deletions, Collecting
<1>2. Neighbours(free.last)' = Neighbours(free.last)
  BY <1>1 DEF Outside, Neighbours
<1>3. free.cursor \in {NoAddr} \cup {a \in Arcs' : el'[a].begin = free.last}
  BY DEF Outside, WalkingOut
<1>4. WalkedTo(el[free.last].first_out, [x \in Addr |-> el[x].next_out])'
  <2>1. el'[free.last] = el[free.last] /\ \A b \in free.table : el'[b] = el[b]
    BY <1>1 DEF Outside
  <2>2. PICK V \in SUBSET free.table :
          /\ el[free.last].first_out \in V \cup {free.cursor, NoAddr}
          /\ \A b \in V : el[b].next_out \in V \cup {free.cursor, NoAddr}
    BY <1>1 DEF WalkingOut, WalkedTo
  <2>3. /\ el'[free.last].first_out \in V \cup {free.cursor, NoAddr}
        /\ \A b \in V : [x \in Addr |-> el'[x].next_out][b] \in V \cup {free.cursor, NoAddr}
    BY <1>1, <2>1, <2>2
  <2> QED BY <1>1, <2>3 DEF WalkedTo
<1> QED BY <1>1, <1>2, <1>3, <1>4 DEF WalkingOut

\* ... or incoming arcs on its way.
LEMMA OutsideWalkingIn ==
  ASSUME IInv, Outside, Collecting, WalkingIn
  PROVE  WalkingIn'
<1>1. /\ free' = free /\ free.table \subseteq free.locked /\ free.table \subseteq Addr
      /\ free.last \in free.table
  BY DEF IInv, FreeInv, Outside, RefsExact, TypeOK, Deletions, Collecting
<1>2. Neighbours(free.last)' = Neighbours(free.last)
  BY <1>1 DEF Outside, Neighbours
<1>3. free.cursor \in {NoAddr} \cup {a \in Arcs' : el'[a].end = free.last}
  BY DEF Outside, WalkingIn
<1>4. WalkedTo(el[free.last].first_in, [x \in Addr |-> el[x].next_in])'
  <2>1. el'[free.last] = el[free.last] /\ \A b \in free.table : el'[b] = el[b]
    BY <1>1 DEF Outside
  <2>2. PICK V \in SUBSET free.table :
          /\ el[free.last].first_in \in V \cup {free.cursor, NoAddr}
          /\ \A b \in V : el[b].next_in \in V \cup {free.cursor, NoAddr}
    BY <1>1 DEF WalkingIn, WalkedTo
  <2>3. /\ el'[free.last].first_in \in V \cup {free.cursor, NoAddr}
        /\ \A b \in V : [x \in Addr |-> el'[x].next_in][b] \in V \cup {free.cursor, NoAddr}
    BY <1>1, <2>1, <2>2
  <2> QED BY <1>1, <2>3 DEF WalkedTo
<1>5. ASSUME NEW a \in Arcs', el'[a].begin = free.last PROVE a \in free.table
  <2>1. a \in Arcs
    BY <1>1, <1>5 DEF Outside, Touches
  <2> QED BY <1>5, <2>1 DEF Outside, WalkingIn
<1> QED BY <1>1, <1>2, <1>3, <1>4, <1>5 DEF WalkingIn

\* So other threads preserve all that a deletion in progress relies on.
LEMMA OutsideFree ==
  ASSUME IInv, Outside
  PROVE  FreeInv'
<1>1. free' = free /\ emitted' = emitted
  BY DEF Outside
<1>2. free.phase \in {"check", "out", "in"} => Collecting' /\ Rooted'
  BY OutsideCollecting, OutsideRooted DEF IInv, FreeInv
<1>3. free.phase = "out" => WalkingOut'
  BY OutsideWalkingOut DEF IInv, FreeInv
<1>4. free.phase = "in" => WalkingIn'
  BY OutsideWalkingIn DEF IInv, FreeInv
<1>5. free.phase = "erase" => Erasing'
  BY OutsideErasing DEF IInv, FreeInv
<1>6. ASSUME free.phase # "erase", NEW a \in Arcs'
      PROVE  Valid(el[a].begin)' /\ Valid(el[a].end)'
  <2>1. CASE a \in Arcs
    BY <1>6, <2>1 DEF Outside, IInv, FreeInv, HasEnds, Valid
  <2>2. CASE a \notin Arcs
    BY <1>6, <2>2 DEF Outside, Touches
  <2> QED BY <2>1, <2>2
<1>7. Idle' = Idle
  BY DEF Idle
<1> QED BY <1>1, <1>2, <1>3, <1>4, <1>5, <1>6, <1>7 DEF IInv, FreeInv

-----------------------------------------------------------------------------
\* The steps of other threads.

\* The lists stay exact when no arc is touched.
LEMMA KeepLists ==
  ASSUME IInv, Arcs' = Arcs,
         \A x \in Arcs :
           /\ el'[x].begin = el[x].begin /\ el'[x].end = el[x].end
           /\ el'[x].next_out = el[x].next_out /\ el'[x].next_in = el[x].next_in
           /\ el'[x].prev_out = el[x].prev_out /\ el'[x].prev_in = el[x].prev_in,
         \A x \in Valids' :
           \/ /\ x \in Valids
              /\ el'[x].first_out = el[x].first_out /\ el'[x].first_in = el[x].first_in
           \/ /\ el'[x].first_out = NoAddr /\ el'[x].first_in = NoAddr
              /\ \A y \in Arcs : el[y].begin # x /\ el[y].end # x
  PROVE  OutChained' /\ InChained'
<1>1. \A x \in Arcs : x \in Addr
  BY DEF Arcs
<1>2. \A x \in Valids' : x \in Addr
  BY DEF Valids
<1>3. OutChained'
  <2> DEFINE own == [x \in Addr |-> el[x].begin]
             first == [x \in Addr |-> el[x].first_out]
             next == [x \in Addr |-> el[x].next_out]
             prev == [x \in Addr |-> el[x].prev_out]
  <2>1. Chained(Arcs, Valids, own, first, next, prev)
    BY DEF IInv, OutChained
  <2>2. \A x \in Arcs : own'[x] = own[x] /\ next'[x] = next[x] /\ prev'[x] = prev[x]
    BY <1>1
  <2>3. \A x \in Valids' : \/ x \in Valids /\ first'[x] = first[x]
                           \/ first'[x] = NoAddr /\ \A y \in Arcs : own[y] # x
    BY <1>1, <1>2
  <2>4. Chained(Arcs, Valids', own', first', next', prev')
    <3> HIDE DEF own, first, next, prev
    <3> QED BY <2>1, <2>2, <2>3, KeepChained
  <2> QED BY <2>4 DEF OutChained
<1>4. InChained'
  <2> DEFINE own == [x \in Addr |-> el[x].end]
             first == [x \in Addr |-> el[x].first_in]
             next == [x \in Addr |-> el[x].next_in]
             prev == [x \in Addr |-> el[x].prev_in]
  <2>1. Chained(Arcs, Valids, own, first, next, prev)
    BY DEF IInv, InChained
  <2>2. \A x \in Arcs : own'[x] = own[x] /\ next'[x] = next[x] /\ prev'[x] = prev[x]
    BY <1>1
  <2>3. \A x \in Valids' : \/ x \in Valids /\ first'[x] = first[x]
                           \/ first'[x] = NoAddr /\ \A y \in Arcs : own[y] # x
    BY <1>1, <1>2
  <2>4. Chained(Arcs, Valids', own', first', next', prev')
    <3> HIDE DEF own, first, next, prev
    <3> QED BY <2>1, <2>2, <2>3, KeepChained
  <2> QED BY <2>4 DEF InChained
<1> QED BY <1>3, <1>4

\* A new element has no arcs yet, and no arc still names its slot.
LEMMA NodeNewStep ==
  ASSUME IInv, NEW a \in Addr, NEW l \in Levels, NodeNew(a, l)
  PROVE  /\ IInv' /\ Outside
         /\ a \notin Valids /\ a \notin free.locked
         /\ Valids' = Valids \cup {a} /\ Arcs' = Arcs
<1> DEFINE new == [Blank EXCEPT !.type = "node", !.access = l]
<1>0. TypeOK
  BY DEF IInv, RefsExact
<1>1. /\ new \in Elements /\ new.type = "node" /\ ~new.deleted
      /\ new.first_out = NoAddr /\ new.first_in = NoAddr
  BY BlankElement DEF Elements, Blank
<1>2. /\ el' \in [Addr -> Elements] /\ el'[a] = new
      /\ \A x \in Addr \ {a} : el'[x] = el[x]
  <2> HIDE DEF new
  <2>1. el' = [el EXCEPT ![a] = new]
    BY DEF NodeNew, new
  <2> QED BY <1>0, <1>1, <2>1 DEF TypeOK
<1> HIDE DEF new
<1>3. /\ a \notin free.locked /\ ~Valid(a) /\ el[a].type = "empty"
      /\ ref_count[a] = 0 /\ held[a] = 0
  <2>1. a \notin free.locked /\ ~Valid(a) /\ el[a].type = "empty"
    BY DEF NodeNew, Unlocked, Valid
  <2> QED BY <2>1, <1>0 DEF IInv, RefsExact, TypeOK
<1>4. Valids' = Valids \cup {a} /\ Arcs' = Arcs
  BY <1>1, <1>2, <1>3 DEF Valids, Arcs, Valid
<1>5. RefsExact'
  <2>1. TypeOK'
    BY <1>0, <1>2 DEF TypeOK, NodeNew, Elements, AddrOrNone, Events
  <2>2. /\ held' = held /\ ref_count'[a] = 1
        /\ \A x \in Addr \ {a} : ref_count'[x] = ref_count[x]
    BY <1>0 DEF TypeOK, NodeNew
  <2>3. Valid(a)' /\ \A x \in Addr \ {a} : Valid(x)' <=> Valid(x)
    BY <1>1, <1>2 DEF Valid
  <2>4. ASSUME NEW x \in Addr \ {a}
        PROVE  /\ ref_count'[x] = held'[x] + (IF Valid(x)' THEN 1 ELSE 0)
               /\ el'[x].type = "empty" => ref_count'[x] = 0
    BY <1>2, <2>2, <2>3 DEF IInv, RefsExact
  <2>5. /\ ref_count'[a] = held'[a] + (IF Valid(a)' THEN 1 ELSE 0)
        /\ el'[a].type = "empty" => ref_count'[a] = 0
    BY <1>1, <1>2, <1>3, <2>2, <2>3
  <2> QED BY <2>1, <2>4, <2>5 DEF RefsExact
<1>6. HasEnds'
  BY <1>2, <1>3, <1>4 DEF IInv, HasEnds, Arcs
<1>7. Outside
  <2>1. free' = free /\ emitted' = emitted /\ free.locked \subseteq Addr
    BY <1>0 DEF NodeNew, TypeOK, Deletions
  <2> QED BY <1>2, <1>3, <1>4, <2>1 DEF Outside, Valid, Arcs
<1>8. \A x \in Arcs : el[x].begin # a /\ el[x].end # a
  BY <1>3, EndsKept DEF Touches
<1>9. OutChained' /\ InChained'
  <2>1. \A x \in Arcs : x \in Addr /\ x # a
    BY <1>3 DEF Arcs
  <2>2. \A x \in Valids : x \in Addr /\ x # a
    BY <1>3 DEF Valids
  <2> QED BY <1>1, <1>2, <1>4, <1>8, <2>1, <2>2, KeepLists
<1> QED BY <1>3, <1>4, <1>5, <1>6, <1>7, <1>9, OutsideFree DEF IInv, Valids

\* A new arc is put in front of two lists that the creation has locked.
LEMMA ArcNewStep ==
  ASSUME IInv, NEW a \in Addr, NEW b \in Addr, NEW e \in Addr, NEW l \in Levels,
         ArcNew(a, b, e, l)
  PROVE  /\ IInv' /\ Outside
         /\ a \notin Valids /\ a \notin free.locked
         /\ {b, e} \subseteq Valids /\ {b, e} \cap free.locked = {}
         /\ Valids' = Valids \cup {a} /\ Arcs' = Arcs \cup {a}
         /\ el'[a].begin = b /\ el'[a].end = e
<1>0. TypeOK
  BY DEF IInv, RefsExact
<1>1. /\ a \notin free.locked /\ ~Valid(a) /\ el[a].type = "empty"
      /\ ref_count[a] = 0 /\ held[a] = 0 /\ a \notin Arcs /\ a \notin Valids
  <2>1. a \notin free.locked /\ ~Valid(a) /\ el[a].type = "empty"
    BY DEF ArcNew, Unlocked, Valid
  <2> QED BY <2>1, <1>0 DEF IInv, RefsExact, TypeOK, Arcs, Valids
<1>2. b # a /\ e # a /\ b \in Valids /\ e \in Valids
  BY <1>1 DEF ArcNew, Valids
<1>3. /\ el[b].first_out \in Arcs \cup {NoAddr} /\ el[e].first_in \in Arcs \cup {NoAddr}
      /\ {b, e, el[b].first_out, el[e].first_in} \cap free.locked = {}
  BY <1>2 DEF IInv, OutChained, InChained, Chained, ArcNew, Unlocked
<1>4. el[b].first_out # a /\ el[e].first_in # a
  BY <1>1, <1>3, StorageAssumption
<1>5. /\ el' \in [Addr -> Elements]
      /\ LET new == el'[a] IN
           /\ new.type = "arc" /\ ~new.deleted /\ new.begin = b /\ new.end = e
           /\ new.first_out = NoAddr /\ new.next_out = el[b].first_out /\ new.prev_out = NoAddr
           /\ new.first_in = NoAddr /\ new.next_in = el[e].first_in /\ new.prev_in = NoAddr
      /\ \A y \in Addr \ {a} :
           /\ \A g \in {"type", "deleted", "access", "begin", "end", "next_out", "next_in"} :
                el'[y][g] = el[y][g]
           /\ el'[y].prev_out = IF y = el[b].first_out THEN a ELSE el[y].prev_out
           /\ el'[y].prev_in = IF y = el[e].first_in THEN a ELSE el[y].prev_in
           /\ el'[y].first_out = IF y = b THEN a ELSE el[y].first_out
           /\ el'[y].first_in = IF y = e THEN a ELSE el[y].first_in
  <2>1. el' = Linked(a, b, e, l)
    BY DEF ArcNew
  <2>2. b \in Addr \ {a} /\ e \in Addr \ {a}
    BY <1>2
  <2> HIDE DEF Linked
  <2> QED BY <1>0, <1>4, <2>1, <2>2, LinkedWrites
<1>6. \A y \in Addr \ {a} :
        /\ el'[y].type = el[y].type /\ el'[y].deleted = el[y].deleted
        /\ el'[y].begin = el[y].begin /\ el'[y].end = el[y].end
        /\ el'[y].next_out = el[y].next_out /\ el'[y].next_in = el[y].next_in
  BY <1>5
<1>7. Valid(a)' /\ \A x \in Addr \ {a} : Valid(x)' <=> Valid(x)
  BY <1>5, <1>6 DEF Valid
<1>8. Valids' = Valids \cup {a} /\ Arcs' = Arcs \cup {a}
  BY <1>5, <1>6, <1>7 DEF Valids, Arcs
<1>9. RefsExact'
  <2>1. TypeOK'
    BY <1>0, <1>5 DEF TypeOK, ArcNew, Elements, AddrOrNone, Events
  <2>2. /\ held' = held /\ ref_count'[a] = 1
        /\ \A x \in Addr \ {a} : ref_count'[x] = ref_count[x]
    BY <1>0 DEF TypeOK, ArcNew
  <2>3. ASSUME NEW x \in Addr \ {a}
        PROVE  /\ ref_count'[x] = held'[x] + (IF Valid(x)' THEN 1 ELSE 0)
               /\ el'[x].type = "empty" => ref_count'[x] = 0
    BY <1>6, <1>7, <2>2 DEF IInv, RefsExact
  <2>4. /\ ref_count'[a] = held'[a] + (IF Valid(a)' THEN 1 ELSE 0)
        /\ el'[a].type = "empty" => ref_count'[a] = 0
    BY <1>1, <1>5, <1>7, <2>2
  <2> QED BY <2>1, <2>3, <2>4 DEF RefsExact
<1>10. HasEnds'
  BY <1>1, <1>5, <1>6, <1>8 DEF IInv, HasEnds, Arcs
<1>11. \A x \in Addr : x \in {b, e} => Valid(x) /\ x \notin free.locked
  BY <1>2, <1>3 DEF Valids
<1>12. Outside
  <2>1. free' = free /\ emitted' = emitted /\ free.locked \subseteq Addr
    BY <1>0 DEF ArcNew, TypeOK, Deletions
  <2>2. ASSUME NEW x \in free.locked PROVE el'[x] = el[x]
    <3>1. x \in Addr \ {a, b, e, el[b].first_out, el[e].first_in}
      BY <1>1, <1>3, <2>1
    <3>2. el[x] \in Elements /\ el'[x] \in Elements
      BY <1>0, <1>5, <3>1 DEF TypeOK
    <3>3. /\ el'[x].type = el[x].type /\ el'[x].deleted = el[x].deleted
          /\ el'[x].access = el[x].access
          /\ el'[x].begin = el[x].begin /\ el'[x].end = el[x].end
          /\ el'[x].first_out = el[x].first_out /\ el'[x].first_in = el[x].first_in
          /\ el'[x].next_out = el[x].next_out /\ el'[x].prev_out = el[x].prev_out
          /\ el'[x].next_in = el[x].next_in /\ el'[x].prev_in = el[x].prev_in
      BY <1>5, <3>1
    <3> QED BY <3>2, <3>3 DEF Elements
  <2>3. \A x \in Addr : Valid(x) => Valid(x)'
    BY <1>7
  <2>4. ASSUME NEW x \in Arcs
        PROVE  /\ x \in Arcs'
               /\ el'[x].begin = el[x].begin /\ el'[x].end = el[x].end
               /\ el'[x].next_out = el[x].next_out /\ el'[x].next_in = el[x].next_in
    BY <1>1, <1>6, <1>8 DEF Arcs
  <2>5. ASSUME NEW x \in Arcs' \ Arcs
        PROVE  /\ ~Valid(x)
               /\ \A y \in Addr : Touches(x, y)' => Valid(y) /\ y \notin free.locked
               /\ el'[x].begin \in Addr /\ el'[x].end \in Addr
    BY <1>1, <1>5, <1>8, <1>11 DEF Touches
  <2> QED BY <2>1, <2>2, <2>3, <2>4, <2>5 DEF Outside
<1>13. \A x \in Arcs : el[x].begin # a /\ el[x].end # a
  BY <1>1, EndsKept DEF Touches
<1>14. /\ NoAddr \notin Arcs /\ a # NoAddr
       /\ \A x \in Arcs \cup {a} : x \in Addr
       /\ \A x \in Valids \cup {a} : x \in Addr
  BY StorageAssumption DEF Arcs, Valids
<1>15. OutChained'
  <2> DEFINE own == [x \in Addr |-> el[x].begin]
             first == [x \in Addr |-> el[x].first_out]
             next == [x \in Addr |-> el[x].next_out]
             prev == [x \in Addr |-> el[x].prev_out]
  <2>1. Chained(Arcs, Valids, own, first, next, prev)
    BY DEF IInv, OutChained
  <2>2. \A x \in Arcs \cup {a} :
          /\ own'[x] = IF x = a THEN b ELSE own[x]
          /\ next'[x] = IF x = a THEN first[b] ELSE next[x]
          /\ prev'[x] = IF x = a THEN NoAddr ELSE IF x = first[b] THEN a ELSE prev[x]
    BY <1>5, <1>6, <1>14
  <2>3. \A x \in Valids \cup {a} :
          first'[x] = IF x = b THEN a ELSE IF x = a THEN NoAddr ELSE first[x]
    BY <1>2, <1>5, <1>14
  <2>4. \A x \in Arcs : own[x] # a
    BY <1>13, <1>14
  <2>5. Chained(Arcs \cup {a}, Valids \cup {a}, own', first', next', prev')
    <3> HIDE DEF own, first, next, prev
    <3> QED BY <1>1, <1>2, <1>14, <2>1, <2>2, <2>3, <2>4, InsertChained
  <2> QED BY <1>8, <2>5 DEF OutChained
<1>16. InChained'
  <2> DEFINE own == [x \in Addr |-> el[x].end]
             first == [x \in Addr |-> el[x].first_in]
             next == [x \in Addr |-> el[x].next_in]
             prev == [x \in Addr |-> el[x].prev_in]
  <2>1. Chained(Arcs, Valids, own, first, next, prev)
    BY DEF IInv, InChained
  <2>2. \A x \in Arcs \cup {a} :
          /\ own'[x] = IF x = a THEN e ELSE own[x]
          /\ next'[x] = IF x = a THEN first[e] ELSE next[x]
          /\ prev'[x] = IF x = a THEN NoAddr ELSE IF x = first[e] THEN a ELSE prev[x]
    BY <1>5, <1>6, <1>14
  <2>3. \A x \in Valids \cup {a} :
          first'[x] = IF x = e THEN a ELSE IF x = a THEN NoAddr ELSE first[x]
    BY <1>2, <1>5, <1>14
  <2>4. \A x \in Arcs : own[x] # a
    BY <1>13, <1>14
  <2>5. Chained(Arcs \cup {a}, Valids \cup {a}, own', first', next', prev')
    <3> HIDE DEF own, first, next, prev
    <3> QED BY <1>1, <1>2, <1>14, <2>1, <2>2, <2>3, <2>4, InsertChained
  <2> QED BY <1>8, <2>5 DEF InChained
<1> QED BY <1>1, <1>2, <1>3, <1>5, <1>8, <1>9, <1>10, <1>12, <1>15, <1>16, OutsideFree DEF IInv

\* Access levels are in no list.
LEMMA SetAccessStep ==
  ASSUME IInv, NEW a \in Addr, NEW c \in Levels, NEW l \in Levels, SetAccess(a, c, l)
  PROVE  IInv' /\ Outside /\ Valids' = Valids /\ Arcs' = Arcs
<1>0. TypeOK /\ a \notin free.locked
  BY DEF IInv, RefsExact, SetAccess, Unlocked
<1>1. /\ el' \in [Addr -> Elements]
      /\ \A x \in Addr \ {a} : el'[x] = el[x]
      /\ \A g \in Fields \ {"access"} : el'[a][g] = el[a][g]
  <2> DEFINE v == IF c < l THEN c ELSE l
             r == [el[a] EXCEPT !.access = v]
  <2>1. v \in Levels /\ el[a] \in Elements
    BY <1>0 DEF TypeOK
  <2>2. r \in Elements /\ \A g \in Fields \ {"access"} : r[g] = el[a][g]
    <3> HIDE DEF v
    <3> QED BY <2>1 DEF Elements, Fields, LinkFields
  <2>3. el' = [el EXCEPT ![a] = r]
    BY DEF SetAccess
  <2> HIDE DEF r
  <2> QED BY <1>0, <2>2, <2>3 DEF TypeOK
<1>2. \A x \in Addr :
        /\ el'[x].type = el[x].type /\ el'[x].deleted = el[x].deleted
        /\ el'[x].begin = el[x].begin /\ el'[x].end = el[x].end
        /\ el'[x].first_out = el[x].first_out /\ el'[x].first_in = el[x].first_in
        /\ el'[x].next_out = el[x].next_out /\ el'[x].prev_out = el[x].prev_out
        /\ el'[x].next_in = el[x].next_in /\ el'[x].prev_in = el[x].prev_in
  BY <1>1 DEF Fields, LinkFields
<1>3. Arcs' = Arcs /\ Valids' = Valids /\ \A x \in Addr : Valid(x)' <=> Valid(x)
  BY <1>2 DEF Arcs, Valids, Valid
<1>4. RefsExact'
  <2>1. TypeOK'
    BY <1>0, <1>1 DEF TypeOK, SetAccess, Elements, AddrOrNone, Events
  <2> QED BY <1>2, <1>3, <2>1 DEF IInv, RefsExact, SetAccess
<1>5. HasEnds'
  BY <1>2, <1>3 DEF IInv, HasEnds, Arcs
<1>6. Outside
  <2>1. free' = free /\ emitted' = emitted /\ free.locked \subseteq Addr
    BY <1>0 DEF SetAccess, TypeOK, Deletions
  <2>2. \A x \in Arcs : x \in Addr
    BY DEF Arcs
  <2> QED BY <1>0, <1>1, <1>2, <1>3, <2>1, <2>2 DEF Outside
<1>7. OutChained' /\ InChained'
  <2>1. \A x \in Arcs \cup Valids : x \in Addr
    BY DEF Arcs, Valids
  <2> QED BY <1>2, <1>3, <2>1, KeepLists
<1> QED BY <1>3, <1>4, <1>5, <1>6, <1>7, OutsideFree DEF IInv

\* A client's reference is counted twice, in held and in ref_count, also when it
\* is given back.
LEMMA RefStep ==
  ASSUME IInv, NEW a \in Addr, Ref(a) \/ Unref(a)
  PROVE  IInv' /\ Outside /\ Valids' = Valids /\ Arcs' = Arcs
<1>0. TypeOK /\ el' = el
  BY DEF IInv, RefsExact, Ref, Unref
<1>1. /\ ref_count[a] \in Nat /\ held[a] \in Nat
      /\ ref_count[a] = held[a] + (IF Valid(a) THEN 1 ELSE 0)
      /\ el[a].type = "empty" => ref_count[a] = 0
      /\ ref_count[a] > 0 \/ held[a] > 0
  BY <1>0 DEF IInv, RefsExact, TypeOK, Ref, Unref
<1>2. /\ ref_count' \in [Addr -> Nat] /\ held' \in [Addr -> Nat]
      /\ \/ ref_count'[a] = ref_count[a] + 1 /\ held'[a] = held[a] + 1
         \/ ref_count'[a] = ref_count[a] - 1 /\ held'[a] = held[a] - 1
      /\ \A x \in Addr \ {a} : ref_count'[x] = ref_count[x] /\ held'[x] = held[x]
  <2>1. CASE Ref(a)
    BY <1>0, <2>1 DEF TypeOK, Ref
  <2>2. CASE Unref(a)
    BY <1>0, <1>1, <2>2 DEF TypeOK, Unref
  <2> QED BY <2>1, <2>2
<1>3. Arcs' = Arcs /\ Valids' = Valids /\ \A x \in Addr : Valid(x)' <=> Valid(x)
  BY <1>0 DEF Arcs, Valids, Valid
<1>4. RefsExact'
  <2>1. TypeOK'
    BY <1>0, <1>2 DEF TypeOK, Ref, Unref, Elements, AddrOrNone, Events
  <2>2. ASSUME NEW x \in Addr \ {a}
        PROVE  /\ ref_count'[x] = held'[x] + (IF Valid(x)' THEN 1 ELSE 0)
               /\ el'[x].type = "empty" => ref_count'[x] = 0
    BY <1>0, <1>2, <1>3 DEF IInv, RefsExact
  <2>3. /\ ref_count'[a] = held'[a] + (IF Valid(a)' THEN 1 ELSE 0)
        /\ el'[a].type = "empty" => ref_count'[a] = 0
    <3>1. el[a].type # "empty"
      BY <1>1
    <3> QED BY <1>0, <1>1, <1>2, <1>3, <3>1
  <2> QED BY <2>1, <2>2, <2>3 DEF RefsExact
<1>5. HasEnds' /\ Outside
  BY <1>0, <1>3 DEF IInv, HasEnds, Outside, Ref, Unref
<1>6. OutChained' /\ InChained'
  BY <1>0, <1>3, KeepLists
<1> QED BY <1>3, <1>4, <1>5, <1>6, OutsideFree DEF IInv

\* A valid element has a reference of its own: what has lost its last one is not.
LEMMA UnrefEraseStep ==
  ASSUME IInv, NEW a \in Addr, UnrefErase(a)
  PROVE  IInv' /\ Outside /\ Valids' = Valids /\ Arcs' = Arcs
<1>0. /\ TypeOK /\ a \notin free.locked
      /\ ref_count[a] = 0 /\ held[a] \in Nat
      /\ ref_count[a] = held[a] + (IF Valid(a) THEN 1 ELSE 0)
  BY DEF IInv, RefsExact, TypeOK, UnrefErase, Unlocked, Dropped
<1>1. /\ el' \in [Addr -> Elements]
      /\ \A x \in Addr \ {a} : el'[x] = el[x]
      /\ el'[a].type = "empty"
  <2>1. Blank.type = "empty"
    BY DEF Blank
  <2> QED BY <1>0, <2>1, BlankElement DEF TypeOK, UnrefErase
<1>2. ~Valid(a)
  BY <1>0
<1>3. \A x \in Addr : (Valid(x)' <=> Valid(x)) /\ (Valid(x) => el'[x] = el[x])
  BY <1>1, <1>2 DEF Valid
<1>4. Arcs' = Arcs /\ Valids' = Valids
  BY <1>3 DEF Arcs, Valids
<1>5. \A x \in Arcs \cup Valids : x \in Addr /\ el'[x] = el[x]
  BY <1>3 DEF Arcs, Valids
<1>6. RefsExact'
  <2>1. TypeOK'
    BY <1>0, <1>1 DEF TypeOK, UnrefErase
  <2>2. ASSUME NEW x \in Addr
        PROVE  /\ ref_count'[x] = held'[x] + (IF Valid(x)' THEN 1 ELSE 0)
               /\ el'[x].type = "empty" => ref_count'[x] = 0
    BY <1>0, <1>1, <1>3 DEF IInv, RefsExact, UnrefErase
  <2> QED BY <2>1, <2>2 DEF RefsExact
<1>7. HasEnds'
  BY <1>4, <1>5 DEF IInv, HasEnds
<1>8. Outside
  <2>1. free' = free /\ emitted' = emitted /\ free.locked \subseteq Addr
    BY <1>0 DEF UnrefErase, TypeOK, Deletions
  <2> QED BY <1>0, <1>1, <1>3, <1>4, <1>5, <2>1 DEF Outside
<1>9. OutChained' /\ InChained'
  BY <1>4, <1>5, KeepLists
<1> QED BY <1>4, <1>6, <1>7, <1>8, <1>9, OutsideFree DEF IInv

-----------------------------------------------------------------------------
\* The steps of sc_storage_element_free before it erases: they write no element.

\* The members of a sequence are its head and those of its tail.
LEMMA ListedTail ==
  ASSUME NEW s \in Seq(Addr), s # <<>>
  PROVE  /\ Head(s) \in Addr /\ Tail(s) \in Seq(Addr)
         /\ {s[i] : i \in 1..Len(s)} = {Head(s)} \cup {Tail(s)[i] : i \in 1..Len(Tail(s))}
<1>1. /\ Len(s) \in Nat \ {0} /\ Len(Tail(s)) = Len(s) - 1 /\ Head(s) = s[1]
      /\ Head(s) \in Addr /\ Tail(s) \in Seq(Addr)
      /\ \A i \in 1..Len(Tail(s)) : Tail(s)[i] = s[i + 1]
  OBVIOUS
<1>2. ASSUME NEW i \in 1..Len(s)
      PROVE  s[i] \in {Head(s)} \cup {Tail(s)[j] : j \in 1..Len(Tail(s))}
  <2>1. CASE i = 1
    BY <1>1, <2>1
  <2>2. CASE i # 1
    <3>1. i - 1 \in 1..Len(Tail(s)) /\ Tail(s)[i - 1] = s[i]
      BY <1>1, <2>2
    <3> QED BY <3>1
  <2> QED BY <2>1, <2>2
<1>3. ASSUME NEW j \in 1..Len(Tail(s)) PROVE Tail(s)[j] \in {s[i] : i \in 1..Len(s)}
  <2>1. j + 1 \in 1..Len(s)
    BY <1>1
  <2> QED BY <1>1, <2>1
<1>4. Head(s) \in {s[i] : i \in 1..Len(s)}
  BY <1>1
<1> QED BY <1>1, <1>2, <1>3, <1>4

\* Append adds one member.
LEMMA ListedAppend ==
  ASSUME NEW s \in Seq(Addr), NEW x \in Addr
  PROVE  /\ Append(s, x) \in Seq(Addr)
         /\ {Append(s, x)[i] : i \in 1..Len(Append(s, x))} = {s[i] : i \in 1..Len(s)} \cup {x}
<1>1. /\ Len(s) \in Nat /\ Len(Append(s, x)) = Len(s) + 1
      /\ Append(s, x) \in Seq(Addr)
      /\ Append(s, x)[Len(s) + 1] = x /\ \A i \in 1..Len(s) : Append(s, x)[i] = s[i]
  OBVIOUS
<1>2. ASSUME NEW i \in 1..Len(Append(s, x))
      PROVE  Append(s, x)[i] \in {s[j] : j \in 1..Len(s)} \cup {x}
  <2>1. i \in 1..Len(s) \/ i = Len(s) + 1
    BY <1>1
  <2> QED BY <1>1, <2>1
<1>3. ASSUME NEW i \in 1..Len(s) PROVE s[i] \in {Append(s, x)[j] : j \in 1..Len(Append(s, x))}
  <2>1. i \in 1..Len(Append(s, x))
    BY <1>1
  <2> QED BY <1>1, <2>1
<1>4. x \in {Append(s, x)[j] : j \in 1..Len(Append(s, x))}
  BY <1>1
<1> QED BY <1>1, <1>2, <1>3, <1>4

\* What is said of the elements alone survives a step that writes none.
LEMMA KeepElements ==
  ASSUME IInv, UNCHANGED <<el, ref_count, held>>
  PROVE  /\ Arcs' = Arcs /\ Valids' = Valids
         /\ \A x : (Valid(x)' <=> Valid(x)) /\ Neighbours(x)' = Neighbours(x)
         /\ \A S : ArcClosed(S)' <=> ArcClosed(S)
         /\ TypeOK' => RefsExact'
         /\ HasEnds' /\ OutChained' /\ InChained'
<1>1. Arcs' = Arcs /\ Valids' = Valids
  BY DEF Arcs, Valids, Valid
<1>2. /\ \A x : (Valid(x)' <=> Valid(x)) /\ Neighbours(x)' = Neighbours(x)
      /\ \A S : ArcClosed(S)' <=> ArcClosed(S)
  BY <1>1 DEF Valid, Neighbours, ArcClosed
<1>3. TypeOK' => RefsExact'
  BY <1>2 DEF IInv, RefsExact
<1>4. HasEnds' /\ OutChained' /\ InChained'
  BY <1>1 DEF IInv, HasEnds, OutChained, InChained
<1> QED BY <1>1, <1>2, <1>3, <1>4

\* The fields of Idle.
LEMMA IdleFacts ==
  /\ Idle.phase = "none" /\ Idle.table = {} /\ Idle.locked = {} /\ Idle.list = <<>>
  /\ Idle.last = NoAddr /\ Idle.cursor = NoAddr /\ Idle.level = Lowest /\ Idle.todo = {}
  /\ Idle \in Deletions
BY LowestLevel DEF Idle, AddrOrNone, Deletions

\* Nothing of the memory changes when an assertion fails.
LEMMA RefAbortsStep ==
  ASSUME IInv, NEW a \in Addr, RefAborts(a)
  PROVE  IInv' /\ Outside /\ Valids' = Valids /\ Arcs' = Arcs
<1>1. UNCHANGED <<el, ref_count, held, free, emitted>>
  BY DEF RefAborts
<1>2. Outside
  BY <1>1 DEF Outside, Valid, Arcs
<1>3. TypeOK'
  BY <1>1 DEF RefAborts, IInv, RefsExact, TypeOK
<1>4. Valids' = Valids /\ Arcs' = Arcs
  BY <1>1 DEF Valids, Arcs, Valid
<1> QED BY <1>1, <1>2, <1>3, <1>4, KeepElements, OutsideFree DEF IInv

\* A deletion gives up or returns.
LEMMA IdleStep ==
  ASSUME IInv, UNCHANGED <<el, ref_count, held, aborted>>, free' = Idle, emitted' = {},
         \A a \in Arcs : Valid(el[a].begin) /\ Valid(el[a].end)
  PROVE  IInv'
<1>1. TypeOK'
  BY IdleFacts DEF IInv, RefsExact, TypeOK, Elements, AddrOrNone, Events
<1>2. FreeInv'
  BY IdleFacts, KeepElements DEF FreeInv, Idle
<1> QED BY <1>1, <1>2, KeepElements DEF IInv

\* A deletion starts from an element that has not been walked.
LEMMA FreeCallStep ==
  ASSUME IInv, NEW a \in Addr, NEW c \in Levels, FreeCall(a, c)
  PROVE  IInv'
<1>1. /\ TypeOK /\ UNCHANGED <<el, ref_count, held, emitted, aborted>> /\ Valid(a) /\ free = Idle
      /\ emitted = {} /\ \A x \in Arcs : Valid(el[x].begin) /\ Valid(el[x].end)
  BY IdleFacts DEF IInv, FreeInv, RefsExact, FreeCall
<1>2. /\ free'.phase = "check" /\ free'.table = {a} /\ free'.locked = {a}
      /\ free'.list = <<a>> /\ free'.last = a /\ free'.level = c /\ free'.todo = {}
      /\ free'.cursor = NoAddr
      /\ free' \in Deletions
  <2>1. <<a>> \in Seq(Addr) /\ a \in AddrOrNone
    BY DEF AddrOrNone
  <2> QED BY <2>1, IdleFacts DEF FreeCall, Deletions
<1>3. TypeOK'
  BY <1>1, <1>2 DEF TypeOK, Elements, AddrOrNone, Events
<1>4. Listed' = {a}
  BY <1>2 DEF Listed
<1>5. Collecting'
  BY <1>1, <1>2, <1>4, KeepElements DEF Collecting, Valids
<1>6. Rooted'
  BY <1>2 DEF Rooted
<1>7. FreeInv'
  BY <1>1, <1>2, <1>5, <1>6, KeepElements DEF FreeInv
<1> QED BY <1>1, <1>3, <1>7, KeepElements DEF IInv

\* What is linked to an element are elements.
LEMMA NeighboursAddr ==
  ASSUME TypeOK, NEW a \in Addr
  PROVE  Neighbours(a) \subseteq Addr
BY DEF TypeOK, Elements, AddrOrNone, Neighbours

\* More is collected and locked: what was walked stays walked.
LEMMA KeepWalked ==
  ASSUME IInv, UNCHANGED <<el, ref_count, held>>,
         free.table \subseteq free'.table, free.locked \subseteq free'.locked,
         NEW x, Walked(x)
  PROVE  Walked(x)'
<1>1. \A a \in Arcs : Touches(a, x)' <=> Touches(a, x)
  BY DEF Touches
<1> QED BY <1>1, KeepElements DEF Walked

\* The first outgoing arc of an element starts in it, and so does the next one.
LEMMA OutFacts ==
  ASSUME IInv
  PROVE  /\ \A x \in Valids : el[x].first_out \in {NoAddr} \cup {a \in Arcs : el[a].begin = x}
         /\ \A a \in Arcs :
              el[a].next_out \in {NoAddr} \cup {b \in Arcs : el[b].begin = el[a].begin}
<1> DEFINE own == [x \in Addr |-> el[x].begin]
           first == [x \in Addr |-> el[x].first_out]
           next == [x \in Addr |-> el[x].next_out]
           prev == [x \in Addr |-> el[x].prev_out]
<1>1. Chained(Arcs, Valids, own, first, next, prev)
  BY DEF IInv, OutChained
<1>2. \A x \in Arcs \cup Valids : x \in Addr
  BY DEF Arcs, Valids
<1>3. /\ \A x \in Valids : first[x] \in {NoAddr} \cup {a \in Arcs : own[a] = x}
      /\ \A a \in Arcs : next[a] \in {NoAddr} \cup {b \in Arcs : own[b] = own[a]}
  <2> HIDE DEF own, first, next, prev
  <2> QED BY <1>1 DEF Chained
<1> QED BY <1>2, <1>3

\* The first incoming arc of an element ends in it, and so does the next one.
LEMMA InFacts ==
  ASSUME IInv
  PROVE  /\ \A x \in Valids : el[x].first_in \in {NoAddr} \cup {a \in Arcs : el[a].end = x}
         /\ \A a \in Arcs :
              el[a].next_in \in {NoAddr} \cup {b \in Arcs : el[b].end = el[a].end}
<1> DEFINE own == [x \in Addr |-> el[x].end]
           first == [x \in Addr |-> el[x].first_in]
           next == [x \in Addr |-> el[x].next_in]
           prev == [x \in Addr |-> el[x].prev_in]
<1>1. Chained(Arcs, Valids, own, first, next, prev)
  BY DEF IInv, InChained
<1>2. \A x \in Arcs \cup Valids : x \in Addr
  BY DEF Arcs, Valids
<1>3. /\ \A x \in Valids : first[x] \in {NoAddr} \cup {a \in Arcs : own[a] = x}
      /\ \A a \in Arcs : next[a] \in {NoAddr} \cup {b \in Arcs : own[b] = own[a]}
  <2> HIDE DEF own, first, next, prev
  <2> QED BY <1>1 DEF Chained
<1> QED BY <1>2, <1>3

\* The head of remove_list comes next; the one before passed the test of rights.
LEMMA FreeNextStep ==
  ASSUME IInv, FreeNext
  PROVE  IInv'
<1>1. /\ TypeOK /\ UNCHANGED <<el, ref_count, held, emitted, aborted>> /\ free \in Deletions
      /\ free.phase = "check" /\ free.list # <<>> /\ emitted = {} /\ free.todo = {}
      /\ \A a \in Arcs : Valid(el[a].begin) /\ Valid(el[a].end)
      /\ Collecting /\ Rooted /\ free.table \subseteq free.locked
  BY DEF IInv, FreeInv, RefsExact, TypeOK, FreeNext
<1>2. CASE free.level < el[free.last].access
  <2>1. free' = Idle
    BY <1>2 DEF FreeNext
  <2> QED BY <1>1, <2>1, IdleStep
<1>3. CASE ~(free.level < el[free.last].access)
  <2> DEFINE h == Head(free.list)
  <2>1. /\ h \in Addr /\ Tail(free.list) \in Seq(Addr)
        /\ Listed = {h} \cup {Tail(free.list)[i] : i \in 1..Len(Tail(free.list))}
    BY <1>1, ListedTail DEF Listed, Deletions
  <2>2. h \in free.table /\ h \in Valids
    BY <1>1, <2>1 DEF Collecting
  <2>3. el[h] \in Elements /\ Neighbours(h) \subseteq Addr
    BY <1>1, <2>1, NeighboursAddr DEF TypeOK
  <2>4. free' = [free EXCEPT !.phase = "out", !.last = h, !.list = Tail(free.list),
                             !.locked = free.locked \cup Neighbours(h),
                             !.cursor = el[h].first_out]
    BY <1>3 DEF FreeNext
  <2> HIDE DEF h
  <2>5. /\ free'.phase = "out" /\ free'.last = h /\ free'.list = Tail(free.list)
        /\ free'.locked = free.locked \cup Neighbours(h)
        /\ free'.cursor = el[h].first_out
        /\ free'.table = free.table /\ free'.level = free.level /\ free'.todo = free.todo
        /\ free' \in Deletions
    BY <1>1, <2>1, <2>3, <2>4 DEF Deletions, Elements, AddrOrNone
  <2>6. TypeOK'
    BY <1>1, <2>5 DEF TypeOK
  <2>7. Listed = {h} \cup Listed'
    BY <2>1, <2>5 DEF Listed
  <2>8. Collecting'
    <3>1. \A x : Walked(x) => Walked(x)'
      BY <1>1, <2>5, KeepWalked
    <3>2. \A x \in free.table \ (Listed' \cup {h}) : Walked(x)'
      BY <1>1, <2>7, <3>1 DEF Collecting
    <3>3. ASSUME NEW x \in free.table \ (Listed' \cup {h}) PROVE free.level >= el[x].access
      <4>1. CASE x = free.last
        <5>1. free.level \in Nat /\ el[x].access \in Nat
          BY <1>1, StorageAssumption DEF TypeOK, Deletions, Elements
        <5> QED BY <1>3, <4>1, <5>1
      <4>2. CASE x # free.last
        BY <1>1, <2>7, <3>3, <4>2 DEF Collecting
      <4> QED BY <4>1, <4>2
    <3> QED BY <1>1, <2>2, <2>5, <2>7, <3>2, <3>3, KeepElements DEF Collecting
  <2>9. Rooted'
    BY <1>1, <2>5, KeepElements DEF Rooted
  <2>10. WalkingOut'
    <3>1. el[h].first_out \in {NoAddr} \cup {a \in Arcs : el[a].begin = h}
      BY <2>2, OutFacts
    <3>2. WalkedTo(el[free.last].first_out, [x \in Addr |-> el[x].next_out])'
      BY <1>1, <2>5 DEF WalkedTo
    <3> QED BY <1>1, <2>5, <3>1, <3>2, KeepElements DEF WalkingOut
  <2>11. FreeInv'
    BY <1>1, <2>5, <2>8, <2>9, <2>10, KeepElements DEF FreeInv
  <2> QED BY <1>1, <2>6, <2>11, KeepElements DEF IInv
<1> QED BY <1>2, <1>3

\* The arc c, which touches the element whose lists are walked, is collected.
LEMMA CollectedStep ==
  ASSUME IInv, UNCHANGED <<el, ref_count, held, emitted, aborted>>,
         free.phase \in {"out", "in"},
         NEW c \in Arcs, c = free.cursor, Touches(c, free.last),
         NEW n \in AddrOrNone, free' = [Collected EXCEPT !.cursor = n]
  PROVE  /\ free'.phase = free.phase /\ free'.last = free.last /\ free'.cursor = n
         /\ free'.table = free.table \cup {c} /\ free'.locked = free.locked \cup {c}
         /\ free'.todo = free.todo
         /\ TypeOK' /\ Collecting' /\ Rooted' /\ free'.table \subseteq free'.locked
<1>1. /\ TypeOK /\ free \in Deletions /\ c \in Addr /\ c \in Valids
      /\ Collecting /\ Rooted /\ free.table \subseteq free.locked
  BY DEF IInv, FreeInv, RefsExact, TypeOK, Arcs, Valids
<1>2. /\ Append(free.list, c) \in Seq(Addr)
      /\ {Append(free.list, c)[i] : i \in 1..Len(Append(free.list, c))} = Listed \cup {c}
  BY <1>1, ListedAppend DEF Deletions, Listed
<1>3. /\ free'.phase = free.phase /\ free'.last = free.last /\ free'.cursor = n
      /\ free'.table = free.table \cup {c} /\ free'.locked = free.locked \cup {c}
      /\ free'.todo = free.todo /\ free'.level = free.level
      /\ free'.list = IF c \in free.table THEN free.list ELSE Append(free.list, c)
      /\ free' \in Deletions
  <2>1. CASE c \in free.table
    <3>1. free' = [free EXCEPT !.cursor = n]
      BY <2>1 DEF Collected
    <3>2. free.table \cup {c} = free.table /\ free.locked \cup {c} = free.locked
      BY <1>1, <2>1
    <3> QED BY <1>1, <2>1, <3>1, <3>2 DEF Deletions
  <2>2. CASE c \notin free.table
    <3>1. Collected = [free EXCEPT !.table = free.table \cup {c}, !.locked = free.locked \cup {c},
                                   !.list = Append(free.list, c)]
      BY <2>2 DEF Collected
    <3> QED BY <1>1, <1>2, <2>2, <3>1 DEF Deletions
  <2> QED BY <2>1, <2>2
<1>4. TypeOK'
  BY <1>1, <1>3 DEF TypeOK
<1>5. Listed' = IF c \in free.table THEN Listed ELSE Listed \cup {c}
  <2>1. CASE c \in free.table
    BY <1>3, <2>1 DEF Listed
  <2>2. CASE c \notin free.table
    <3>1. Listed' = {Append(free.list, c)[i] : i \in 1..Len(Append(free.list, c))}
      BY <1>3, <2>2 DEF Listed
    <3> QED BY <1>2, <2>2, <3>1
  <2> QED BY <2>1, <2>2
<1>6. Collecting'
  <2>1. \A x : Walked(x) => Walked(x)'
    BY <1>3, KeepWalked
  <2>2. free'.table \ Listed' \subseteq free.table \ Listed
    BY <1>3, <1>5
  <2>3. free.last \in free'.table /\ Listed' \subseteq free'.table /\ free'.table \subseteq Valids'
    BY <1>1, <1>3, <1>5, KeepElements DEF Collecting
  <2> QED BY <1>1, <1>3, <2>1, <2>2, <2>3 DEF Collecting
<1>7. Rooted'
  <2>1. PICK r \in free.table : \A S \in SUBSET Valids :
          r \in S /\ ArcClosed(S) => free.table \subseteq S
    BY <1>1 DEF Rooted
  <2>2. ASSUME NEW S \in SUBSET Valids, r \in S, ArcClosed(S)
        PROVE  free.table \cup {c} \subseteq S
    <3>1. free.table \subseteq S /\ free.last \in S
      BY <1>1, <2>1, <2>2 DEF Collecting
    <3>2. c \in S
      BY <2>2, <3>1 DEF ArcClosed, Touches
    <3> QED BY <3>1, <3>2
  <2> QED BY <1>3, <2>1, <2>2, KeepElements DEF Rooted
<1>8. free'.table \subseteq free'.locked
  BY <1>1, <1>3
<1> QED BY <1>3, <1>4, <1>6, <1>7, <1>8

\* Outgoing arcs are collected; at the end of the list none is missing.
LEMMA FreeOutStep ==
  ASSUME IInv, FreeOut
  PROVE  IInv'
<1>1. /\ TypeOK /\ UNCHANGED <<el, ref_count, held, emitted, aborted>> /\ free \in Deletions
      /\ free.phase = "out" /\ emitted = {} /\ free.todo = {}
      /\ \A a \in Arcs : Valid(el[a].begin) /\ Valid(el[a].end)
      /\ Collecting /\ Rooted /\ WalkingOut /\ free.table \subseteq free.locked
  BY DEF IInv, FreeInv, RefsExact, TypeOK, FreeOut
<1>2. free.last \in Addr /\ free.last \in Valids /\ el[free.last] \in Elements
  BY <1>1 DEF Collecting, Valids, TypeOK
<1>3. \A x \in Arcs : x \in Addr /\ x # NoAddr
  BY StorageAssumption DEF Arcs
<1>4. PICK V \in SUBSET free.table :
        /\ el[free.last].first_out \in V \cup {free.cursor, NoAddr}
        /\ \A b \in V : el[b].next_out \in V \cup {free.cursor, NoAddr}
  <2>1. free.table \subseteq Addr
    BY <1>1 DEF Deletions
  <2> QED BY <1>1, <2>1 DEF WalkingOut, WalkedTo
<1>5. CASE free.cursor = NoAddr
  <2>1. free' = [free EXCEPT !.phase = "in", !.cursor = el[free.last].first_in]
    BY <1>5 DEF FreeOut
  <2>2. /\ free'.phase = "in" /\ free'.cursor = el[free.last].first_in
        /\ free'.table = free.table /\ free'.locked = free.locked /\ free'.list = free.list
        /\ free'.last = free.last /\ free'.level = free.level /\ free'.todo = free.todo
        /\ free' \in Deletions
    BY <1>1, <1>2, <2>1 DEF Deletions, Elements
  <2>3. TypeOK'
    BY <1>1, <2>2 DEF TypeOK
  <2>4. Collecting'
    <3>1. \A x : Walked(x) => Walked(x)'
      BY <1>1, <2>2, KeepWalked
    <3>2. Listed' = Listed
      BY <2>2 DEF Listed
    <3> QED BY <1>1, <2>2, <3>1, <3>2, KeepElements DEF Collecting
  <2>5. Rooted'
    BY <1>1, <2>2, KeepElements DEF Rooted
  <2>6. \A a \in Arcs : el[a].begin = free.last => a \in free.table
    <3> DEFINE own == [x \in Addr |-> el[x].begin]
               first == [x \in Addr |-> el[x].first_out]
               next == [x \in Addr |-> el[x].next_out]
               prev == [x \in Addr |-> el[x].prev_out]
    <3>1. Chained(Arcs, Valids, own, first, next, prev)
      BY DEF IInv, OutChained
    <3>2. Closed(V, free.last, first, next)
      <4>1. V \subseteq Addr
        BY <1>1 DEF Deletions
      <4> QED BY <1>2, <1>4, <1>5, <4>1 DEF Closed
    <3>3. \A a \in Arcs : own[a] = free.last => a \in V
      <4> HIDE DEF own, first, next, prev
      <4> QED BY <1>2, <1>3, <3>1, <3>2, WalkComplete
    <3> QED BY <1>3, <3>3
  <2>7. WalkingIn'
    <3>1. el[free.last].first_in \in {NoAddr} \cup {a \in Arcs : el[a].end = free.last}
      BY <1>2, InFacts
    <3>2. WalkedTo(el[free.last].first_in, [x \in Addr |-> el[x].next_in])'
      BY <1>1, <2>2 DEF WalkedTo
    <3> QED BY <1>1, <2>2, <2>6, <3>1, <3>2, KeepElements DEF WalkingIn, WalkingOut
  <2>8. FreeInv'
    BY <1>1, <2>2, <2>4, <2>5, <2>7, KeepElements DEF FreeInv
  <2> QED BY <1>1, <2>3, <2>8, KeepElements DEF IInv
<1>6. CASE free.cursor # NoAddr
  <2> DEFINE c == free.cursor
             n == el[c].next_out
  <2>1. c \in Arcs /\ el[c].begin = free.last /\ Touches(c, free.last)
    BY <1>1, <1>6 DEF WalkingOut, Touches
  <2>2. n \in AddrOrNone /\ n \in {NoAddr} \cup {a \in Arcs : el[a].begin = free.last}
    <3>1. el[c] \in Elements
      BY <1>1, <1>3, <2>1 DEF TypeOK
    <3> QED BY <2>1, <3>1, OutFacts DEF Elements
  <2>3. free' = [Collected EXCEPT !.cursor = n]
    BY <1>6 DEF FreeOut
  <2> HIDE DEF n
  <2>4. /\ free'.phase = "out" /\ free'.last = free.last /\ free'.cursor = n
        /\ free'.table = free.table \cup {c} /\ free'.locked = free.locked \cup {c}
        /\ free'.todo = free.todo
        /\ TypeOK' /\ Collecting' /\ Rooted' /\ free'.table \subseteq free'.locked
    BY <1>1, <2>1, <2>2, <2>3, CollectedStep
  <2>5. WalkingOut'
    <3>1. WalkedTo(el[free.last].first_out, [x \in Addr |-> el[x].next_out])'
      <4> DEFINE W == V \cup {c}
      <4>1. W \in SUBSET free'.table /\ W \subseteq Addr
        BY <1>1, <1>3, <2>1, <2>4 DEF Deletions
      <4>2. /\ el[free.last].first_out \in W \cup {n, NoAddr}
            /\ \A b \in W : [x \in Addr |-> el'[x].next_out][b] \in W \cup {n, NoAddr}
        BY <1>1, <1>4, <4>1 DEF n
      <4> HIDE DEF W
      <4> QED BY <1>1, <2>4, <4>1, <4>2 DEF WalkedTo
    <3> QED BY <1>1, <2>2, <2>4, <3>1, KeepElements DEF WalkingOut
  <2>6. FreeInv'
    BY <1>1, <2>4, <2>5, KeepElements DEF FreeInv
  <2> QED BY <1>1, <2>4, <2>6, KeepElements DEF IInv
<1> QED BY <1>5, <1>6

\* Incoming arcs are collected; at the end of the list the element is walked.
LEMMA FreeInStep ==
  ASSUME IInv, FreeIn
  PROVE  IInv'
<1>1. /\ TypeOK /\ UNCHANGED <<el, ref_count, held, emitted, aborted>> /\ free \in Deletions
      /\ free.phase = "in" /\ emitted = {} /\ free.todo = {}
      /\ \A a \in Arcs : Valid(el[a].begin) /\ Valid(el[a].end)
      /\ Collecting /\ Rooted /\ WalkingIn /\ free.table \subseteq free.locked
  BY DEF IInv, FreeInv, RefsExact, TypeOK, FreeIn
<1>2. free.last \in Addr /\ free.last \in Valids /\ el[free.last] \in Elements
  BY <1>1 DEF Collecting, Valids, TypeOK
<1>3. \A x \in Arcs : x \in Addr /\ x # NoAddr
  BY StorageAssumption DEF Arcs
<1>4. PICK V \in SUBSET free.table :
        /\ el[free.last].first_in \in V \cup {free.cursor, NoAddr}
        /\ \A b \in V : el[b].next_in \in V \cup {free.cursor, NoAddr}
  <2>1. free.table \subseteq Addr
    BY <1>1 DEF Deletions
  <2> QED BY <1>1, <2>1 DEF WalkingIn, WalkedTo
<1>5. CASE free.cursor = NoAddr
  <2>1. free' = [free EXCEPT !.phase = "check"]
    BY <1>5 DEF FreeIn
  <2>2. /\ free'.phase = "check"
        /\ free'.table = free.table /\ free'.locked = free.locked /\ free'.list = free.list
        /\ free'.last = free.last /\ free'.level = free.level /\ free'.todo = free.todo
        /\ free' \in Deletions
    BY <1>1, <2>1 DEF Deletions
  <2>3. TypeOK'
    BY <1>1, <2>2 DEF TypeOK
  <2>4. \A a \in Arcs : el[a].end = free.last => a \in free.table
    <3> DEFINE own == [x \in Addr |-> el[x].end]
               first == [x \in Addr |-> el[x].first_in]
               next == [x \in Addr |-> el[x].next_in]
               prev == [x \in Addr |-> el[x].prev_in]
    <3>1. Chained(Arcs, Valids, own, first, next, prev)
      BY DEF IInv, InChained
    <3>2. Closed(V, free.last, first, next)
      <4>1. V \subseteq Addr
        BY <1>1 DEF Deletions
      <4> QED BY <1>2, <1>4, <1>5, <4>1 DEF Closed
    <3>3. \A a \in Arcs : own[a] = free.last => a \in V
      <4> HIDE DEF own, first, next, prev
      <4> QED BY <1>2, <1>3, <3>1, <3>2, WalkComplete
    <3> QED BY <1>3, <3>3
  <2>5. Walked(free.last)
    BY <1>1, <2>4 DEF Walked, WalkingIn, Touches
  <2>6. Collecting'
    <3>1. \A x : Walked(x) => Walked(x)'
      BY <1>1, <2>2, KeepWalked
    <3>2. Listed' = Listed
      BY <2>2 DEF Listed
    <3> QED BY <1>1, <2>2, <2>5, <3>1, <3>2, KeepElements DEF Collecting
  <2>7. Rooted'
    BY <1>1, <2>2, KeepElements DEF Rooted
  <2>8. FreeInv'
    BY <1>1, <2>2, <2>6, <2>7, KeepElements DEF FreeInv
  <2> QED BY <1>1, <2>3, <2>8, KeepElements DEF IInv
<1>6. CASE free.cursor # NoAddr
  <2> DEFINE c == free.cursor
             n == el[c].next_in
  <2>1. c \in Arcs /\ el[c].end = free.last /\ Touches(c, free.last)
    BY <1>1, <1>6 DEF WalkingIn, Touches
  <2>2. n \in AddrOrNone /\ n \in {NoAddr} \cup {a \in Arcs : el[a].end = free.last}
    <3>1. el[c] \in Elements
      BY <1>1, <1>3, <2>1 DEF TypeOK
    <3> QED BY <2>1, <3>1, InFacts DEF Elements
  <2>3. free' = [Collected EXCEPT !.cursor = n]
    BY <1>6 DEF FreeIn
  <2> HIDE DEF n
  <2>4. /\ free'.phase = "in" /\ free'.last = free.last /\ free'.cursor = n
        /\ free'.table = free.table \cup {c} /\ free'.locked = free.locked \cup {c}
        /\ free'.todo = free.todo
        /\ TypeOK' /\ Collecting' /\ Rooted' /\ free'.table \subseteq free'.locked
    BY <1>1, <2>1, <2>2, <2>3, CollectedStep
  <2>5. WalkingIn'
    <3>1. WalkedTo(el[free.last].first_in, [x \in Addr |-> el[x].next_in])'
      <4> DEFINE W == V \cup {c}
      <4>1. W \in SUBSET free'.table /\ W \subseteq Addr
        BY <1>1, <1>3, <2>1, <2>4 DEF Deletions
      <4>2. /\ el[free.last].first_in \in W \cup {n, NoAddr}
            /\ \A b \in W : [x \in Addr |-> el'[x].next_in][b] \in W \cup {n, NoAddr}
        BY <1>1, <1>4, <4>1 DEF n
      <4> HIDE DEF W
      <4> QED BY <1>1, <2>4, <4>1, <4>2 DEF WalkedTo
    <3> QED BY <1>1, <2>2, <2>4, <3>1, KeepElements DEF WalkingIn
  <2>6. FreeInv'
    BY <1>1, <2>4, <2>5, KeepElements DEF FreeInv
  <2> QED BY <1>1, <2>4, <2>6, KeepElements DEF IInv
<1> QED BY <1>5, <1>6

\* With an empty remove_list, the lists of all that is collected were walked.
LEMMA AllWalked ==
  ASSUME Collecting, free.phase = "check", free.list = <<>>
  PROVE  /\ \A x \in free.table : Walked(x)
         /\ ArcClosed(free.table)
         /\ \A x \in free.table \ {free.last} : free.level >= el[x].access
<1>1. Listed = {}
  BY DEF Listed
<1>2. \A x \in free.table : Walked(x)
  BY <1>1 DEF Collecting
<1>3. ArcClosed(free.table)
  BY <1>2 DEF Walked, ArcClosed, Touches
<1> QED BY <1>1, <1>2, <1>3 DEF Collecting

\* Collection ends: no arc outside remove_table has an end in it.
LEMMA FreeCollectedStep ==
  ASSUME IInv, FreeCollected
  PROVE  IInv'
<1>1. /\ TypeOK /\ UNCHANGED <<el, ref_count, held, emitted, aborted>> /\ free \in Deletions
      /\ free.phase = "check" /\ free.list = <<>>
      /\ \A a \in Arcs : Valid(el[a].begin) /\ Valid(el[a].end)
      /\ Collecting /\ free.table \subseteq free.locked
  BY DEF IInv, FreeInv, RefsExact, TypeOK, FreeCollected
<1>2. free' = [free EXCEPT !.phase = "erase", !.todo = free.table]
  BY DEF FreeCollected
<1>3. /\ free'.phase = "erase" /\ free'.todo = free.table
      /\ free'.table = free.table /\ free'.locked = free.locked
      /\ free' \in Deletions
  BY <1>1, <1>2 DEF Deletions
<1>4. TypeOK'
  BY <1>1, <1>3 DEF TypeOK
<1>5. /\ \A x \in free.table : Neighbours(x) \subseteq free.locked
      /\ ArcClosed(free.table)
  BY <1>1, AllWalked DEF Walked
<1>6. Erasing'
  <2>1. free.table # {} /\ \A x \in free.table : Valid(x)
    BY <1>1 DEF Collecting, Valids
  <2> QED BY <1>1, <1>3, <1>5, <2>1, KeepElements DEF Erasing
<1>7. FreeInv'
  BY <1>1, <1>3, <1>6 DEF FreeInv
<1> QED BY <1>1, <1>4, <1>7, KeepElements DEF IInv

\* When the loop is over, every arc that is left has its ends.
LEMMA FreeReturnStep ==
  ASSUME IInv, FreeReturn
  PROVE  IInv'
<1>1. UNCHANGED <<el, ref_count, held, aborted>> /\ free' = Idle /\ emitted' = {}
  BY DEF FreeReturn
<1>2. Erasing /\ free.todo = {}
  BY DEF IInv, FreeInv, FreeReturn
<1>3. \A a \in Arcs : a \notin free.table
  BY <1>2 DEF Erasing, Arcs
<1>4. \A a \in Arcs : Valid(el[a].begin) /\ Valid(el[a].end)
  BY <1>2, <1>3 DEF Erasing
<1> QED BY <1>1, <1>4, IdleStep

-----------------------------------------------------------------------------
\* The loop that erases.

\* One turn of the loop: an arc leaves its two lists, wherever it stands in them,
\* and the arcs before and behind it stay locked for the turns to come.
LEMMA FreeEraseStep ==
  ASSUME IInv, NEW a \in Addr, FreeErase(a)
  PROVE  /\ IInv'
         /\ Valids' = Valids \ {a} /\ Arcs' = Arcs \ {a}
         /\ \A y \in Addr \ {a} :
              /\ el'[y].type = el[y].type
              /\ el'[y].begin = el[y].begin /\ el'[y].end = el[y].end
<1>1. /\ TypeOK /\ HasEnds /\ free \in Deletions /\ free.phase = "erase" /\ Erasing
      /\ a \in free.todo /\ a \in free.table /\ Valid(a) /\ a \in Valids
      /\ free.table \subseteq free.locked
  BY DEF IInv, FreeInv, RefsExact, TypeOK, FreeErase, Erasing, Valids
<1>2. free' = [free EXCEPT !.todo = free.todo \ {a}]
  BY DEF FreeErase
<1>3. /\ free'.phase = "erase" /\ free'.todo = free.todo \ {a}
      /\ free'.table = free.table /\ free'.locked = free.locked
      /\ free' \in Deletions
  BY <1>1, <1>2 DEF Deletions
<1>4. /\ el' \in [Addr -> Elements]
      /\ ~Valid(a)'
      /\ el'[a].type = "empty" => ref_count[a] = 1
      /\ \A y \in Addr \ {a} :
           /\ \A g \in {"type", "deleted", "access", "begin", "end"} : el'[y][g] = el[y][g]
           /\ el[a].type # "arc" => el'[y] = el[y]
           /\ el[a].type = "arc" =>
                /\ el'[y].next_out = IF y = el[a].prev_out THEN el[a].next_out ELSE el[y].next_out
                /\ el'[y].prev_out = IF y = el[a].next_out THEN el[a].prev_out ELSE el[y].prev_out
                /\ el'[y].first_out = IF y = el[a].begin /\ el[y].first_out = a
                                      THEN el[a].next_out ELSE el[y].first_out
                /\ el'[y].next_in = IF y = el[a].prev_in THEN el[a].next_in ELSE el[y].next_in
                /\ el'[y].prev_in = IF y = el[a].next_in THEN el[a].prev_in ELSE el[y].prev_in
                /\ el'[y].first_in = IF y = el[a].end /\ el[y].first_in = a
                                     THEN el[a].next_in ELSE el[y].first_in
  BY <1>1, EraseWrites
<1>5. \A y \in Addr \ {a} :
        /\ el'[y].type = el[y].type /\ el'[y].deleted = el[y].deleted
        /\ el'[y].begin = el[y].begin /\ el'[y].end = el[y].end
  BY <1>4
<1>6. \A y \in Addr \ {a} : Valid(y)' <=> Valid(y)
  BY <1>5 DEF Valid
<1>7. Valids' = Valids \ {a} /\ Arcs' = Arcs \ {a}
  BY <1>4, <1>5, <1>6 DEF Valids, Arcs
<1>8. RefsExact'
  <2>1. /\ ref_count[a] \in Nat /\ held[a] \in Nat /\ ref_count[a] = held[a] + 1
    BY <1>1 DEF IInv, RefsExact, TypeOK
  <2>2. /\ ref_count' \in [Addr -> Nat] /\ held' = held
        /\ ref_count'[a] = ref_count[a] - 1
        /\ \A x \in Addr \ {a} : ref_count'[x] = ref_count[x]
    BY <1>1, <2>1 DEF TypeOK, FreeErase
  <2>3. EventsOf(a) \subseteq Events
    BY <1>1 DEF EventsOf, Events, HasEnds, Arcs
  <2>4. TypeOK'
    BY <1>1, <1>3, <1>4, <2>2, <2>3 DEF TypeOK, FreeErase
  <2>5. ASSUME NEW x \in Addr \ {a}
        PROVE  /\ ref_count'[x] = held'[x] + (IF Valid(x)' THEN 1 ELSE 0)
               /\ el'[x].type = "empty" => ref_count'[x] = 0
    BY <1>5, <1>6, <2>2 DEF IInv, RefsExact
  <2>6. /\ ref_count'[a] = held'[a] + (IF Valid(a)' THEN 1 ELSE 0)
        /\ el'[a].type = "empty" => ref_count'[a] = 0
    BY <1>4, <2>1, <2>2
  <2> QED BY <2>4, <2>5, <2>6 DEF RefsExact
<1>9. HasEnds'
  BY <1>1, <1>5, <1>7 DEF HasEnds, Arcs
<1>10. Erasing'
  <2>1. free'.table # {} /\ free'.todo \subseteq free'.table
    BY <1>1, <1>3 DEF Erasing
  <2>2. \A x \in free.table : x \in Addr
    BY <1>1 DEF Deletions
  <2>3. \A x \in free.table : Valid(x)' <=> x \in free.todo \ {a}
    BY <1>1, <1>4, <1>6, <2>2 DEF Erasing
  <2>4. \A x \in Arcs' : x \in Arcs /\ el'[x].begin = el[x].begin /\ el'[x].end = el[x].end
    BY <1>5, <1>7 DEF Arcs
  <2>5. ArcClosed(free.table)'
    BY <1>1, <1>3, <2>4 DEF Erasing, ArcClosed
  <2>6. ASSUME NEW x \in Arcs' \ free.table PROVE Valid(el[x].begin)' /\ Valid(el[x].end)'
    <3>1. el[x].begin \in Addr \ {a} /\ el[x].end \in Addr \ {a}
      BY <1>1, <2>4, <2>6 DEF Erasing, ArcClosed, HasEnds
    <3>2. Valid(el[x].begin) /\ Valid(el[x].end)
      BY <1>1, <2>4, <2>6 DEF Erasing
    <3>3. el'[x].begin = el[x].begin /\ el'[x].end = el[x].end
      BY <2>4, <2>6
    <3>4. Valid(el[x].begin)' = (el'[el'[x].begin].type # "empty" /\ ~el'[el'[x].begin].deleted)
      BY DEF Valid
    <3>5. Valid(el[x].end)' = (el'[el'[x].end].type # "empty" /\ ~el'[el'[x].end].deleted)
      BY DEF Valid
    <3> QED BY <1>5, <3>1, <3>2, <3>3, <3>4, <3>5 DEF Valid
  <2>7. ASSUME NEW x \in free.todo \ {a} PROVE Neighbours(x)' \subseteq free.locked
    <3>1. x \in Addr \ {a} /\ Neighbours(x) \subseteq free.locked
      BY <1>1, <2>2 DEF Erasing
    <3>2. CASE el[a].type # "arc"
      BY <1>4, <3>1, <3>2 DEF Neighbours
    <3>3. CASE el[a].type = "arc"
      <4>1. {el[a].next_out, el[a].prev_out, el[a].next_in, el[a].prev_in} \ {NoAddr}
              \subseteq free.locked
        BY <1>1, <3>3 DEF Erasing, Neighbours
      <4> QED BY <1>4, <1>5, <3>1, <3>3, <4>1 DEF Neighbours
    <3> QED BY <3>2, <3>3
  <2>8. emitted' # {}
    BY DEF FreeErase, EventsOf
  <2> QED BY <1>3, <2>1, <2>3, <2>5, <2>6, <2>7, <2>8 DEF Erasing
<1>11. FreeInv'
  BY <1>1, <1>3, <1>10 DEF FreeInv
<1>12. \A x \in Arcs \cup Valids : x \in Addr /\ x # NoAddr
  BY StorageAssumption DEF Arcs, Valids
<1>13. OutChained' /\ InChained'
  <2>1. CASE el[a].type # "arc"
    <3>1. Arcs' = Arcs /\ \A x \in Arcs : x # a
      BY <1>7, <2>1 DEF Arcs
    <3>2. \A x \in Arcs \cup Valids' : el'[x] = el[x]
      BY <1>4, <1>7, <1>12, <2>1, <3>1
    <3> QED BY <1>7, <3>1, <3>2, KeepLists
  <2>2. CASE el[a].type = "arc"
    <3>0. a \in Arcs
      BY <1>1, <2>2 DEF Arcs
    <3>1. OutChained'
      <4> DEFINE own == [x \in Addr |-> el[x].begin]
                 first == [x \in Addr |-> el[x].first_out]
                 next == [x \in Addr |-> el[x].next_out]
                 prev == [x \in Addr |-> el[x].prev_out]
      <4>1. Chained(Arcs, Valids, own, first, next, prev)
        BY DEF IInv, OutChained
      <4>2. \A x \in Arcs \ {a} :
              /\ own'[x] = own[x]
              /\ next'[x] = IF x = prev[a] THEN next[a] ELSE next[x]
              /\ prev'[x] = IF x = next[a] THEN prev[a] ELSE prev[x]
        BY <1>4, <1>5, <1>12, <2>2
      <4>3. \A x \in Valids \ {a} :
              first'[x] = IF x = own[a] /\ first[x] = a THEN next[a] ELSE first[x]
        BY <1>4, <1>12, <2>2
      <4>4. Chained(Arcs \ {a}, Valids \ {a}, own', first', next', prev')
        <5> HIDE DEF own, first, next, prev
        <5> QED BY <1>12, <3>0, <4>1, <4>2, <4>3, RemoveChained
      <4> QED BY <1>7, <4>4 DEF OutChained
    <3>2. InChained'
      <4> DEFINE own == [x \in Addr |-> el[x].end]
                 first == [x \in Addr |-> el[x].first_in]
                 next == [x \in Addr |-> el[x].next_in]
                 prev == [x \in Addr |-> el[x].prev_in]
      <4>1. Chained(Arcs, Valids, own, first, next, prev)
        BY DEF IInv, InChained
      <4>2. \A x \in Arcs \ {a} :
              /\ own'[x] = own[x]
              /\ next'[x] = IF x = prev[a] THEN next[a] ELSE next[x]
              /\ prev'[x] = IF x = next[a] THEN prev[a] ELSE prev[x]
        BY <1>4, <1>5, <1>12, <2>2
      <4>3. \A x \in Valids \ {a} :
              first'[x] = IF x = own[a] /\ first[x] = a THEN next[a] ELSE first[x]
        BY <1>4, <1>12, <2>2
      <4>4. Chained(Arcs \ {a}, Valids \ {a}, own', first', next', prev')
        <5> HIDE DEF own, first, next, prev
        <5> QED BY <1>12, <3>0, <4>1, <4>2, <4>3, RemoveChained
      <4> QED BY <1>7, <4>4 DEF InChained
    <3> QED BY <3>1, <3>2
  <2> QED BY <2>1, <2>2
<1> QED BY <1>5, <1>7, <1>8, <1>9, <1>11, <1>13 DEF IInv

-----------------------------------------------------------------------------
\* The empty storage satisfies the invariant.
LEMMA IInvInit ==
  ASSUME Init
  PROVE  IInv
<1>1. /\ \A a \in Addr : el[a] = Blank /\ ref_count[a] = 0 /\ held[a] = 0
      /\ free = Idle /\ emitted = {}
  BY DEF Init
<1>2. Blank.type = "empty"
  BY DEF Blank
<1>3. Valids = {} /\ Arcs = {} /\ \A a \in Addr : ~Valid(a)
  BY <1>1, <1>2 DEF Valids, Arcs, Valid
<1>4. RefsExact
  <2>1. TypeOK
    BY BlankElement, IdleFacts DEF Init, TypeOK
  <2> QED BY <1>1, <1>2, <1>3, <2>1 DEF RefsExact
<1>5. HasEnds /\ OutChained /\ InChained
  BY <1>3 DEF HasEnds, OutChained, InChained, Chained, Ringless
<1>6. FreeInv
  BY <1>1, <1>3, IdleFacts DEF FreeInv
<1> QED BY <1>4, <1>5, <1>6 DEF IInv

\* Every step preserves it.
LEMMA IInvNext ==
  ASSUME IInv, [Next]_vars
  PROVE  IInv'
<1>1. CASE UNCHANGED vars
  <2>1. UNCHANGED <<el, ref_count, held, free, emitted>>
    BY <1>1 DEF vars
  <2>2. Outside
    BY <2>1 DEF Outside, Valid, Arcs
  <2>3. TypeOK'
    BY <1>1 DEF IInv, RefsExact, TypeOK, vars
  <2> QED BY <2>1, <2>2, <2>3, KeepElements, OutsideFree DEF IInv
<1>2. ASSUME NEW a \in Addr, NEW l \in Levels, NodeNew(a, l) PROVE IInv'
  BY <1>2, NodeNewStep
<1>3. ASSUME NEW a \in Addr, NEW l \in Levels, NEW b \in Addr, NEW e \in Addr, ArcNew(a, b, e, l)
      PROVE  IInv'
  BY <1>3, ArcNewStep
<1>4. ASSUME NEW a \in Addr, NEW l \in Levels, NEW c \in Levels, SetAccess(a, c, l) PROVE IInv'
  BY <1>4, SetAccessStep
<1>5. ASSUME NEW a \in Addr, NEW l \in Levels, FreeCall(a, l) PROVE IInv'
  BY <1>5, FreeCallStep
<1>6. ASSUME NEW a \in Addr, Ref(a) \/ RefAborts(a) \/ Unref(a) \/ UnrefErase(a) PROVE IInv'
  BY <1>6, RefStep, RefAbortsStep, UnrefEraseStep
<1>7. CASE Free
  BY <1>7, FreeNextStep, FreeOutStep, FreeInStep, FreeCollectedStep, FreeEraseStep,
     FreeReturnStep DEF Free
<1> QED BY <1>1, <1>2, <1>3, <1>4, <1>5, <1>6, <1>7 DEF Next

\* The invariant holds in every state, for any number of slots, levels and references.
THEOREM StorageInvariance == Spec => []IInv
<1>1. Init => IInv
  BY IInvInit
<1>2. IInv /\ [Next]_vars => IInv'
  BY IInvNext
<1> QED BY <1>1, <1>2, PTL DEF Spec

\* ref_count is always the number of references of clients and one for the
\* element's existence, although the last unref is two critical sections, and a
\* slot is given back only when it has reached zero.
THEOREM RefsAreExact == Spec => []RefsExact
<1>1. IInv => RefsExact
  BY DEF IInv
<1> QED BY <1>1, StorageInvariance, PTL

\* A walk along the outgoing arcs of an element visits exactly its outgoing arcs.
LEMMA WalkOutExact ==
  ASSUME IInv, NEW x \in Addr, Valid(x)
  PROVE  Walk(el[x].first_out, "next_out") = {a \in Arcs : el[a].begin = x}
<1> DEFINE own == [y \in Addr |-> el[y].begin]
           first == [y \in Addr |-> el[y].first_out]
           next == [y \in Addr |-> el[y].next_out]
           prev == [y \in Addr |-> el[y].prev_out]
           mine == {a \in Arcs : own[a] = x}
<1>1. Chained(Arcs, Valids, own, first, next, prev)
  BY DEF IInv, OutChained
<1>2. NoAddr \notin Arcs /\ Arcs \subseteq Addr /\ x \in Valids
  BY StorageAssumption DEF Arcs, Valids
<1>3. \A S \in SUBSET Addr : Closed(S, x, first, next) <=>
        /\ el[x].first_out \in S \cup {NoAddr}
        /\ \A y \in S : el[y]["next_out"] \in S \cup {NoAddr}
  BY DEF Closed
<1>4. mine = {a \in Arcs : el[a].begin = x}
  BY <1>2
<1> HIDE DEF own, first, next, prev
<1>5. mine \in SUBSET Addr /\ Closed(mine, x, first, next)
  BY <1>1, <1>2, WalkSound
<1>6. \A S \in SUBSET Addr : Closed(S, x, first, next) => mine \subseteq S
  BY <1>1, <1>2, WalkComplete
<1> HIDE DEF mine
<1>7. Walk(el[x].first_out, "next_out")
        = {a \in Addr : \A S \in SUBSET Addr : Closed(S, x, first, next) => a \in S}
  BY <1>3 DEF Walk
<1> QED BY <1>4, <1>5, <1>6, <1>7

\* A walk along the incoming arcs of an element visits exactly its incoming arcs.
LEMMA WalkInExact ==
  ASSUME IInv, NEW x \in Addr, Valid(x)
  PROVE  Walk(el[x].first_in, "next_in") = {a \in Arcs : el[a].end = x}
<1> DEFINE own == [y \in Addr |-> el[y].end]
           first == [y \in Addr |-> el[y].first_in]
           next == [y \in Addr |-> el[y].next_in]
           prev == [y \in Addr |-> el[y].prev_in]
           mine == {a \in Arcs : own[a] = x}
<1>1. Chained(Arcs, Valids, own, first, next, prev)
  BY DEF IInv, InChained
<1>2. NoAddr \notin Arcs /\ Arcs \subseteq Addr /\ x \in Valids
  BY StorageAssumption DEF Arcs, Valids
<1>3. \A S \in SUBSET Addr : Closed(S, x, first, next) <=>
        /\ el[x].first_in \in S \cup {NoAddr}
        /\ \A y \in S : el[y]["next_in"] \in S \cup {NoAddr}
  BY DEF Closed
<1>4. mine = {a \in Arcs : el[a].end = x}
  BY <1>2
<1> HIDE DEF own, first, next, prev
<1>5. mine \in SUBSET Addr /\ Closed(mine, x, first, next)
  BY <1>1, <1>2, WalkSound
<1>6. \A S \in SUBSET Addr : Closed(S, x, first, next) => mine \subseteq S
  BY <1>1, <1>2, WalkComplete
<1> HIDE DEF mine
<1>7. Walk(el[x].first_in, "next_in")
        = {a \in Addr : \A S \in SUBSET Addr : Closed(S, x, first, next) => a \in S}
  BY <1>3 DEF Walk
<1> QED BY <1>4, <1>5, <1>6, <1>7

\* No arc outlives an end, both lists of every element hold exactly its arcs and
\* are linked in both directions, and the loop that erases holds the locks of all
\* it writes (the assertions in sc_storage.c), whatever the order of its turns.
THEOREM ListsAreExact == Spec => []ListsExact
<1>1. ASSUME IInv PROVE ListsExact
  <2>1. \A a \in Visible(Arcs) :
          a \in Arcs /\ Valid(el[a].begin) /\ Valid(el[a].end)
    <3>1. CASE Quiet
      BY <1>1, <3>1 DEF Quiet, Visible, IInv, FreeInv
    <3>2. CASE ~Quiet
      BY <1>1, <3>2 DEF Quiet, Visible, IInv, FreeInv, Erasing
    <3> QED BY <3>1, <3>2
  <2>2. \A x \in Visible(Addr) : x \in Addr
    BY DEF Visible
  <2>3. ASSUME NEW a \in Visible(Arcs)
        PROVE  /\ IF el[a].prev_out = NoAddr THEN el[el[a].begin].first_out = a
                  ELSE el[el[a].prev_out].next_out = a
               /\ IF el[a].prev_in = NoAddr THEN el[el[a].end].first_in = a
                  ELSE el[el[a].prev_in].next_in = a
    <3>1. a \in Addr /\ a \in Arcs /\ Arcs \subseteq Addr
      BY <2>1 DEF Arcs
    <3>2. /\ el[a].begin \in Addr /\ el[a].end \in Addr
          /\ el[a].begin \in Valids /\ el[a].end \in Valids
      BY <1>1, <2>1, <3>1 DEF IInv, HasEnds, Valids
    <3>3. IF el[a].prev_out = NoAddr THEN el[el[a].begin].first_out = a
          ELSE el[el[a].prev_out].next_out = a
      BY <1>1, <3>1, <3>2 DEF IInv, OutChained, Chained
    <3>4. IF el[a].prev_in = NoAddr THEN el[el[a].end].first_in = a
          ELSE el[el[a].prev_in].next_in = a
      BY <1>1, <3>1, <3>2 DEF IInv, InChained, Chained
    <3> QED BY <3>3, <3>4
  <2>4. NoDangling
    BY <2>1 DEF NoDangling
  <2>5. ListsComplete
    BY <1>1, <2>2, <2>3, WalkOutExact, WalkInExact DEF ListsComplete
  <2>6. LocksCover
    <3> SUFFICES ASSUME NEW a \in free.todo, el[a].type = "arc"
                 PROVE  {el[a].prev_out, el[a].prev_in, el[a].next_out, el[a].next_in}
                           \ {NoAddr} \subseteq free.locked
      BY DEF LocksCover
    <3>1. Erasing
      BY <1>1 DEF IInv, FreeInv
    <3> QED BY <3>1 DEF Erasing, Neighbours
  <2> QED BY <2>4, <2>5, <2>6 DEF ListsExact
<1> QED BY <1>1, StorageInvariance, PTL

\* When a deletion begins to erase, the caller may write every collected element
\* but, perhaps, the last.
THEOREM RightsButLastHolds == Spec => RightsButLast
<1> DEFINE A == free.phase = "check" /\ free'.phase = "erase" =>
                  \A a \in free.table \ {free.last} : free.level >= el[a].access
<1>1. ASSUME IInv, [Next]_vars PROVE [A]_vars
  <2> SUFFICES ASSUME free.phase = "check", free'.phase = "erase", Next
               PROVE  \A a \in free.table \ {free.last} : free.level >= el[a].access
    BY <1>1
  <2>1. Collecting
    BY <1>1 DEF IInv, FreeInv
  <2>2. free.list = <<>>
    <3>1. free' # free /\ free # Idle /\ free' # Idle
      BY IdleFacts
    <3>2. CASE FreeNext
      BY <3>1, <3>2, <1>1 DEF FreeNext, IInv, RefsExact, TypeOK, Deletions
    <3>3. CASE FreeCollected
      BY <3>3 DEF FreeCollected
    <3> QED BY <3>1, <3>2, <3>3 DEF Next, Free, NodeNew, ArcNew, SetAccess, Ref, RefAborts,
                  Unref, UnrefErase, FreeCall, FreeOut, FreeIn, FreeErase, FreeReturn
  <2> QED BY <2>1, <2>2, AllWalked
<1>2. IInv /\ [Next]_vars => [A]_vars
  BY <1>1
<1> QED BY <1>2, StorageInvariance, PTL DEF Spec, RightsButLast

-----------------------------------------------------------------------------
\* The refinement.  Gone is what a deletion that erases has already taken from
\* the graph.

Gone == IF Quiet THEN {} ELSE free.table

Ends == [a \in {x \in Present : el[x].type = "arc"} |-> <<el[a].begin, el[a].end>>]

Owed == UNION {EventsOf(a) : a \in free.todo}

\* The abstract state in terms of the elements.
LEMMA MapFacts ==
  ASSUME IInv
  PROVE  /\ Present = Valids \ Gone
         /\ Ends = [a \in Arcs \ Gone |-> <<el[a].begin, el[a].end>>]
         /\ Gone \subseteq free.locked
         /\ free.todo \subseteq Valids \cap free.locked
<1>1. Present = Valids \ Gone
  BY DEF Present, Valids, Gone
<1>2. {x \in Present : el[x].type = "arc"} = Arcs \ Gone
  BY <1>1 DEF Valids, Arcs
<1>3. Gone \subseteq free.locked
  BY DEF IInv, FreeInv, Gone
<1>4. free.todo \subseteq Valids \cap free.locked
  BY DEF IInv, FreeInv, Erasing, Valids, RefsExact, TypeOK, Deletions
<1> QED BY <1>1, <1>2, <1>3, <1>4 DEF Ends

\* The same of the state after a step.
LEMMA MapNext ==
  /\ Present' = Valids' \ Gone'
  /\ Ends' = [a \in Arcs' \ Gone' |-> <<el'[a].begin, el'[a].end>>]
<1>1. Present' = Valids' \ Gone'
  BY DEF Present, Valids, Gone
<1>2. {x \in Present' : el'[x].type = "arc"} = Arcs' \ Gone'
  BY <1>1 DEF Valids, Arcs
<1> QED BY <1>1, <1>2 DEF Ends

\* Other threads leave the events that a deletion owes alone.
LEMMA OutsideOwed ==
  ASSUME IInv, Outside
  PROVE  Owed' = Owed /\ Gone' = Gone
<1>1. free' = free
  BY DEF Outside
<1>2. \A a \in free.todo : EventsOf(a)' = EventsOf(a)
  BY MapFacts DEF Outside, EventsOf
<1> QED BY <1>1, <1>2 DEF Owed, Gone, Quiet

\* Other threads that create nothing do not change the graph.
LEMMA OutsideStutters ==
  ASSUME IInv, IInv', Outside, Valids' = Valids, Arcs' = Arcs
  PROVE  UNCHANGED <<Present, Ends, Owed, emitted>>
<1>1. Present' = Valids' \ Gone' /\ Ends' = [a \in Arcs' \ Gone' |-> <<el'[a].begin, el'[a].end>>]
  BY MapNext
<1>2. Owed' = Owed /\ Gone' = Gone /\ emitted' = emitted
  BY OutsideOwed DEF Outside
<1>3. Ends' = Ends
  BY <1>1, <1>2, MapFacts DEF Outside
<1> QED BY <1>1, <1>2, <1>3, MapFacts

\* So do the steps that collect.
LEMMA CollectingStutters ==
  ASSUME IInv, IInv', UNCHANGED <<el, ref_count, held, emitted, aborted>>,
         free.phase # "erase", free'.phase # "erase"
  PROVE  UNCHANGED <<Present, Ends, Owed, emitted>>
<1>1. Gone = {} /\ Gone' = {} /\ free.todo = {} /\ free'.todo = {}
  BY DEF Gone, Quiet, IInv, FreeInv
<1>2. Present' = Present
  BY <1>1, MapFacts, MapNext, KeepElements
<1>3. Ends' = Ends
  BY <1>1, MapFacts, MapNext, KeepElements
<1>4. Owed' = Owed
  BY <1>1 DEF Owed
<1> QED BY <1>2, <1>3, <1>4

\* A new node is added to the graph.
LEMMA NodeNewAdds ==
  ASSUME IInv, NEW a \in Addr, NEW l \in Levels, NodeNew(a, l)
  PROVE  Graph!AddNode(a)
<1>1. /\ IInv' /\ Outside
      /\ a \notin Valids /\ a \notin free.locked
      /\ Valids' = Valids \cup {a} /\ Arcs' = Arcs
  BY NodeNewStep
<1>2. Present' = Valids' \ Gone' /\ Ends' = [x \in Arcs' \ Gone' |-> <<el'[x].begin, el'[x].end>>]
  BY MapNext
<1>3. Owed' = Owed /\ Gone' = Gone /\ emitted' = emitted
  BY <1>1, OutsideOwed DEF Outside
<1>4. a \notin Present /\ Present' = Present \cup {a}
  BY <1>1, <1>2, <1>3, MapFacts
<1>5. Ends' = Ends
  BY <1>1, <1>2, <1>3, MapFacts DEF Outside
<1> QED BY <1>3, <1>4, <1>5 DEF Graph!AddNode, Ends, Owed

\* A new arc is added to the graph; its ends are there.
LEMMA ArcNewAdds ==
  ASSUME IInv, NEW a \in Addr, NEW b \in Addr, NEW e \in Addr, NEW l \in Levels,
         ArcNew(a, b, e, l)
  PROVE  Graph!AddArc(a, b, e)
<1>1. /\ IInv' /\ Outside
      /\ a \notin Valids /\ a \notin free.locked
      /\ {b, e} \subseteq Valids /\ {b, e} \cap free.locked = {}
      /\ Valids' = Valids \cup {a} /\ Arcs' = Arcs \cup {a}
      /\ el'[a].begin = b /\ el'[a].end = e
  BY ArcNewStep
<1>2. Present' = Valids' \ Gone' /\ Ends' = [x \in Arcs' \ Gone' |-> <<el'[x].begin, el'[x].end>>]
  BY MapNext
<1>3. Owed' = Owed /\ Gone' = Gone /\ emitted' = emitted
  BY <1>1, OutsideOwed DEF Outside
<1>4. a \notin Present /\ Present' = Present \cup {a} /\ {b, e} \subseteq Present
  BY <1>1, <1>2, <1>3, MapFacts
<1>5. a \notin Arcs /\ a \notin Gone
  BY <1>1, MapFacts DEF Arcs, Valids
<1>6. Ends' = [x \in DOMAIN Ends \cup {a} |-> IF x = a THEN <<b, e>> ELSE Ends[x]]
  <2>1. DOMAIN Ends = Arcs \ Gone /\ \A x \in Arcs \ Gone : Ends[x] = <<el[x].begin, el[x].end>>
    BY MapFacts
  <2>2. Arcs' \ Gone' = (Arcs \ Gone) \cup {a}
    BY <1>1, <1>3, <1>5
  <2>3. \A x \in (Arcs \ Gone) \cup {a} :
          <<el'[x].begin, el'[x].end>> = IF x = a THEN <<b, e>> ELSE Ends[x]
    BY <1>1, <2>1 DEF Outside
  <2> QED BY <1>2, <2>1, <2>2, <2>3
<1> QED BY <1>3, <1>4, <1>6 DEF Graph!AddArc, Ends, Owed

\* A deletion that begins to erase: what it has collected is the closure of one
\* element.
LEMMA FreeCollectedRemoves ==
  ASSUME IInv, FreeCollected
  PROVE  \E r \in Addr : Graph!Remove(r)
<1>1. /\ UNCHANGED <<el, ref_count, held, emitted, aborted>> /\ free \in Deletions
      /\ free.phase = "check" /\ free.list = <<>> /\ emitted = {} /\ free.todo = {}
      /\ Collecting /\ Rooted
  BY DEF IInv, FreeInv, RefsExact, TypeOK, FreeCollected
<1>2. /\ free'.phase = "erase" /\ free'.todo = free.table /\ free'.table = free.table
  BY <1>1 DEF FreeCollected, Deletions
<1>3. Gone = {} /\ Gone' = free.table
  BY <1>1, <1>2 DEF Gone, Quiet
<1>4. /\ Present = Valids /\ Ends = [a \in Arcs |-> <<el[a].begin, el[a].end>>]
      /\ Present' = Valids \ free.table
      /\ Ends' = [a \in Arcs \ free.table |-> <<el[a].begin, el[a].end>>]
  BY <1>1, <1>3, MapFacts, MapNext, KeepElements
<1>5. \A S : Graph!Closed(S) <=> ArcClosed(S)
  BY <1>4 DEF Graph!Closed, ArcClosed, Ends
<1>6. PICK r \in free.table : \A S \in SUBSET Valids :
        r \in S /\ ArcClosed(S) => free.table \subseteq S
  BY <1>1 DEF Rooted
<1>7. Graph!Closure(r) = free.table
  <2>1. free.table \in SUBSET Valids /\ ArcClosed(free.table)
    BY <1>1, AllWalked DEF Collecting
  <2>2. Graph!Closure(r) = {a \in Valids : \A S \in SUBSET Valids : r \in S /\ ArcClosed(S) => a \in S}
    BY <1>4, <1>5 DEF Graph!Closure
  <2> QED BY <1>6, <2>1, <2>2
<1>8. Owed = {} /\ Owed' = Graph!EventsOf(free.table)
  <2>1. Owed = {} /\ Owed' = UNION {EventsOf(a) : a \in free.table}
    <3>1. \A a : EventsOf(a)' = EventsOf(a)
      BY <1>1 DEF EventsOf
    <3> QED BY <1>1, <1>2, <3>1 DEF Owed
  <2>2. DOMAIN Ends = Arcs /\ \A a \in Arcs : Ends[a][1] = el[a].begin /\ Ends[a][2] = el[a].end
    BY <1>4
  <2>3. \A a \in free.table : a \in Arcs <=> el[a].type = "arc"
    BY <1>1 DEF Collecting, Valids, Arcs
  <2>4. Graph!EventsOf(free.table) =
          {<<"remove_element", a, a>> : a \in free.table}
          \cup {<<"remove_out", Ends[a][1], a>> : a \in free.table \cap DOMAIN Ends}
          \cup {<<"remove_in", Ends[a][2], a>> : a \in free.table \cap DOMAIN Ends}
    BY DEF Graph!EventsOf, Ends
  <2>5. ASSUME NEW v \in UNION {EventsOf(a) : a \in free.table} PROVE v \in Graph!EventsOf(free.table)
    <3>1. PICK a \in free.table : v \in EventsOf(a)
      BY <2>5
    <3> QED BY <2>2, <2>3, <2>4, <3>1 DEF EventsOf
  <2>6. ASSUME NEW v \in Graph!EventsOf(free.table) PROVE v \in UNION {EventsOf(a) : a \in free.table}
    <3>1. PICK a \in free.table : \/ v = <<"remove_element", a, a>>
                                  \/ a \in Arcs /\ v = <<"remove_out", el[a].begin, a>>
                                  \/ a \in Arcs /\ v = <<"remove_in", el[a].end, a>>
      BY <2>2, <2>4, <2>6
    <3>2. v \in EventsOf(a)
      BY <2>3, <3>1 DEF EventsOf
    <3> QED BY <3>2
  <2> QED BY <2>1, <2>5, <2>6
<1>9. r \in Addr /\ r \in Present
  BY <1>1, <1>4 DEF Collecting, Valids
<1>10. Ends' = [a \in DOMAIN Ends \ free.table |-> Ends[a]]
  BY <1>4
<1>11. Graph!Remove(r)
  BY <1>1, <1>4, <1>7, <1>8, <1>9, <1>10 DEF Graph!Remove, Ends, Owed
<1> QED BY <1>9, <1>11

\* One turn of the loop that erases pays the events of one element.
LEMMA FreeEraseAnnounces ==
  ASSUME IInv, NEW a \in Addr, FreeErase(a)
  PROVE  Graph!Announce
<1>1. /\ free \in Deletions /\ free.phase = "erase" /\ a \in free.todo /\ a \in free.table
      /\ Erasing
  BY DEF IInv, FreeInv, RefsExact, TypeOK, FreeErase, Erasing
<1>2. /\ free'.phase = "erase" /\ free'.todo = free.todo \ {a} /\ free'.table = free.table
      /\ emitted' = emitted \cup EventsOf(a)
  BY <1>1 DEF FreeErase, Deletions
<1>3. /\ Valids' = Valids \ {a} /\ Arcs' = Arcs \ {a}
      /\ \A y \in Addr \ {a} :
           /\ el'[y].type = el[y].type
           /\ el'[y].begin = el[y].begin /\ el'[y].end = el[y].end
  BY FreeEraseStep
<1>4. Gone = free.table /\ Gone' = free.table
  BY <1>1, <1>2 DEF Gone, Quiet
<1>5. Present' = Present
  BY <1>1, <1>3, <1>4, MapFacts, MapNext
<1>6. Ends' = Ends
  <2>1. Arcs' \ Gone' = Arcs \ Gone /\ \A x \in Arcs \ Gone : x \in Addr \ {a}
    BY <1>1, <1>3, <1>4 DEF Arcs
  <2>2. \A x \in Arcs \ Gone : <<el'[x].begin, el'[x].end>> = <<el[x].begin, el[x].end>>
    BY <1>3, <2>1
  <2> QED BY <2>1, <2>2, MapFacts, MapNext
<1>7. \A x \in free.todo \ {a} : EventsOf(x)' = EventsOf(x)
  <2>1. \A x \in free.todo \ {a} : x \in Addr \ {a}
    BY <1>1 DEF Deletions
  <2> QED BY <1>3, <2>1 DEF EventsOf
<1>8. \A x \in free.todo : \A v \in EventsOf(x) : v[3] = x
  BY DEF EventsOf
<1>9. EventsOf(a) # {} /\ EventsOf(a) \subseteq Owed /\ EventsOf(a) \in (SUBSET Owed) \ {{}}
  BY <1>1 DEF EventsOf, Owed
<1>10. Owed' = Owed \ EventsOf(a)
  <2>1. Owed' = UNION {EventsOf(x) : x \in free.todo \ {a}}
    BY <1>2, <1>7 DEF Owed
  <2>2. ASSUME NEW v \in UNION {EventsOf(x) : x \in free.todo \ {a}} PROVE v \in Owed \ EventsOf(a)
    <3>1. PICK x \in free.todo \ {a} : v \in EventsOf(x)
      BY <2>2
    <3>2. v \notin EventsOf(a)
      BY <1>1, <1>8, <3>1
    <3> QED BY <3>1, <3>2 DEF Owed
  <2>3. ASSUME NEW v \in Owed \ EventsOf(a) PROVE v \in UNION {EventsOf(x) : x \in free.todo \ {a}}
    BY <2>3 DEF Owed
  <2> QED BY <2>1, <2>2, <2>3
<1> QED BY <1>2, <1>5, <1>6, <1>9, <1>10 DEF Graph!Announce, Ends, Owed

\* sc_storage_element_free returns when every event was emitted.
LEMMA FreeReturnAnnounced ==
  ASSUME IInv, FreeReturn
  PROVE  Graph!Announced
<1>1. /\ UNCHANGED <<el, ref_count, held, aborted>> /\ free' = Idle /\ emitted' = {}
      /\ free.phase = "erase" /\ free.todo = {} /\ Erasing
  BY DEF IInv, FreeInv, FreeReturn
<1>2. Gone = free.table /\ Gone' = {} /\ free'.todo = {}
  BY <1>1, IdleFacts DEF Gone, Quiet
<1>3. Valids \ free.table = Valids /\ Arcs \ free.table = Arcs
  BY <1>1 DEF Erasing, Valids, Arcs
<1>4. Present' = Present /\ Ends' = Ends
  <2>1. Valids' \ Gone' = Valids \ Gone /\ Arcs' \ Gone' = Arcs \ Gone
    BY <1>1, <1>2, <1>3, KeepElements
  <2> QED BY <1>1, <2>1, MapFacts, MapNext
<1>5. Owed = {} /\ Owed' = {}
  BY <1>1, <1>2 DEF Owed
<1>6. emitted # {}
  BY <1>1 DEF Erasing
<1> QED BY <1>1, <1>4, <1>5, <1>6 DEF Graph!Announced, Ends, Owed

\* The storage implements the graph of module ScGraph: a deletion, which takes
\* many steps between those of other threads, removes in one step exactly the
\* closure of an element, and then emits each event of what it removed, once.
THEOREM StorageImplementsGraph == Spec => GraphSpec
<1>1. Init => Graph!Init
  <2> SUFFICES ASSUME Init PROVE Graph!Init
    OBVIOUS
  <2>1. IInv /\ free = Idle /\ emitted = {}
    BY IInvInit DEF Init
  <2>2. Valids = {} /\ Arcs = {}
    BY DEF Init, Valids, Arcs, Valid, Blank
  <2>3. Present = {} /\ Owed = {} /\ Ends = [a \in {} |-> <<el[a].begin, el[a].end>>]
    BY <2>1, <2>2, IdleFacts, MapFacts DEF Owed
  <2>4. Ends = <<>>
    BY <2>3
  <2> QED BY <2>1, <2>3, <2>4 DEF Graph!Init, Ends, Owed
<1>2. IInv /\ IInv' /\ [Next]_vars => [Graph!Next]_(Graph!vars)
  <2> SUFFICES ASSUME IInv, IInv', [Next]_vars PROVE [Graph!Next]_(Graph!vars)
    OBVIOUS
  <2>0. ASSUME UNCHANGED <<Present, Ends, Owed, emitted>> PROVE UNCHANGED Graph!vars
    BY <2>0 DEF Graph!vars, Ends, Owed
  <2>1. CASE UNCHANGED vars
    BY <2>1 DEF Graph!vars, vars, Present, Quiet, Valid, EventsOf
  <2>2. ASSUME NEW a \in Addr, NEW l \in Levels, NodeNew(a, l) PROVE Graph!Next
    BY <2>2, NodeNewAdds DEF Graph!Next
  <2>3. ASSUME NEW a \in Addr, NEW l \in Levels, NEW b \in Addr, NEW e \in Addr, ArcNew(a, b, e, l)
        PROVE  Graph!Next
    BY <2>3, ArcNewAdds DEF Graph!Next
  <2>4. ASSUME NEW a \in Addr, NEW l \in Levels, NEW c \in Levels, SetAccess(a, c, l)
        PROVE  UNCHANGED Graph!vars
    BY <2>0, <2>4, SetAccessStep, OutsideStutters
  <2>5. ASSUME NEW a \in Addr, Ref(a) \/ RefAborts(a) \/ Unref(a) \/ UnrefErase(a)
        PROVE  UNCHANGED Graph!vars
    BY <2>0, <2>5, RefStep, RefAbortsStep, UnrefEraseStep, OutsideStutters
  <2>6. ASSUME NEW a \in Addr, NEW l \in Levels, FreeCall(a, l) PROVE UNCHANGED Graph!vars
    <3>1. free = Idle /\ free'.phase = "check" /\ UNCHANGED <<el, ref_count, held, emitted, aborted>>
      BY <2>6 DEF FreeCall, Idle
    <3> QED BY <2>0, <3>1, IdleFacts, CollectingStutters
  <2>7. CASE FreeNext \/ FreeOut \/ FreeIn
    <3>1. /\ UNCHANGED <<el, ref_count, held, emitted, aborted>> /\ free \in Deletions
          /\ free.phase \in {"check", "out", "in"}
      BY <2>7 DEF FreeNext, FreeOut, FreeIn, IInv, RefsExact, TypeOK
    <3>2. free'.phase # "erase"
      BY <2>7, <3>1, IdleFacts DEF FreeNext, FreeOut, FreeIn, Collected, Deletions
    <3> QED BY <2>0, <3>1, <3>2, CollectingStutters
  <2>8. CASE FreeCollected
    BY <2>8, FreeCollectedRemoves DEF Graph!Next
  <2>9. ASSUME NEW a \in Addr, FreeErase(a) PROVE Graph!Next
    BY <2>9, FreeEraseAnnounces DEF Graph!Next
  <2>10. CASE FreeReturn
    BY <2>10, FreeReturnAnnounced DEF Graph!Next
  <2> QED BY <2>1, <2>2, <2>3, <2>4, <2>5, <2>6, <2>7, <2>8, <2>9, <2>10 DEF Next, Free
<1> QED BY <1>1, <1>2, StorageInvariance, PTL DEF Spec, GraphSpec, Graph!Spec

=============================================================================
