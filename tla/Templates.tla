----------------------------- MODULE Templates -----------------------------
\* Templates of the C++ layer (sc-memory/sc-memory/sc_template*.cpp): a template
\* is built from triples, constructions are generated from it, and the search
\* (class ScTemplateSearchImpl) finds all of them by backtracking, one result
\* for each step that its client makes, while the client creates arcs between
\* its steps.
\*
\* Names and addresses are members of small sets.  A type says whether an
\* element is a node or an arc, or asks for neither; types of arcs are left
\* out, and so are the events that generation holds back.
EXTENDS Naturals, FiniteSets, SequencesExt

CONSTANTS Templates,   \* what clients write: sequences of triples of arguments
          Memories,    \* elements before anything is generated
          Structures,  \* sets of elements to search in; all addresses: no structure
          Parameters,  \* parameters of a search or a generation: name -> address
          MaxAddr,     \* addresses there are
          MaxNew,      \* arcs a client creates while it searches
          NoName, Null

VARIABLES tmpl,        \* triples with their arguments resolved (m_templ)
          mem, last,   \* elements; the address that was given last
          within,      \* what the structure contains (m_struct)
          phase,
          pre, scores, resolved,                  \* UpdateSearchCache
          order,                                  \* m_state.processOrder
          iters, newIteration,                    \* m_state
          m_usedEdges, m_resultAddrs, m_repls,
          results,     \* history: what the client has got
          begun, made, \* history: memory when the search began; what was generated
          news

client == <<tmpl, mem, last, within, begun, made, news>>
cache == <<pre, scores, resolved, order>>
search == <<iters, newIteration, m_usedEdges, m_resultAddrs, m_repls>>
vars == <<client, phase, cache, search, results>>

Addr == 1..MaxAddr
Pos == 1..3
Node == [type |-> "node"]
Arc(b, e) == [type |-> "arc", begin |-> b, end |-> e]
Arcs(m) == {a \in DOMAIN m : m[a].type = "arc"}
TypeFits(m, a, type) == type \in {"any", m[a].type}

\* ScTemplateArg.  Its name, if any, is a replacement.
Arg(kind, addr, type, name) == [kind |-> kind, addr |-> addr, type |-> type, name |-> name]
Fixed(a, name) == Arg("Addr", a, "any", name)
Typed(type, name) == Arg("Type", Null, type, name)
Replace(name) == Arg("Replace", Null, "any", name)

NamesOf(triples) == {triples[i][p].name : i \in DOMAIN triples, p \in Pos} \ {NoName}

-----------------------------------------------------------------------------
\* Building.

Failed == [ok |-> FALSE, elements |-> {}, triples |-> <<>>]

\* One argument of ScTemplateData::AddTriple: the element it stands for, among
\* those there are already or new.
Resolved(d, arg) ==
  LET same == CASE arg.kind = "Addr" -> {x \in d.elements : x.kind = "Addr" /\ x.addr = arg.addr}
                [] arg.kind = "Type" -> {}
                [] arg.kind = "Replace" -> {x \in d.elements : x.name = arg.name}
  IN IF same = {} THEN arg ELSE CHOOSE x \in same : TRUE

\* The names that are refused: one that is not known yet, one that is taken.
Refused(d, arg) ==
  /\ arg.name # NoName
  /\ (arg.kind = "Replace") # (\E x \in d.elements : x.name = arg.name)

AddArg(d, arg) ==
  IF Refused(d, arg) THEN Failed
  ELSE [d EXCEPT !.elements = @ \cup {Resolved(d, arg)},
                 !.triples = Append(@, Resolved(d, arg))]

AddTriple(d, triple) ==
  IF ~d.ok \/ (triple[2].name # NoName /\ triple[2].name \in {triple[1].name, triple[3].name})
  THEN Failed
  ELSE LET after == FoldLeft(AddArg, [d EXCEPT !.triples = <<>>], triple)
       IN IF ~after.ok THEN Failed
          ELSE [after EXCEPT !.triples = Append(d.triples, after.triples)]

Make ==
  /\ phase = "make"
  /\ LET d == FoldLeft(AddTriple, [Failed EXCEPT !.ok = TRUE], tmpl)
     IN IF d.ok THEN tmpl' = d.triples /\ phase' = "ready"
        ELSE tmpl' = tmpl /\ phase' = "invalid"
  /\ UNCHANGED <<mem, last, within, begun, made, news, cache, search, results>>

-----------------------------------------------------------------------------
\* Generation (ScTemplateGenerateImpl::Do).

\* CheckParams: parameters stand for names that are not those of arcs.
ParamsAllowed(params) ==
  \A n \in DOMAIN params :
    \E i \in DOMAIN tmpl, p \in Pos : tmpl[i][p].name = n /\ tmpl[i][p].type # "arc"

\* A generation on its way: elements, the nodes it has created, the results for
\* names, the triples, whether something could not be created.
Start == [mem |-> mem, last |-> last, created |-> {}, names |-> <<>>, made |-> <<>>, ok |-> TRUE]

Given(g, arg, params) ==
  IF arg.name \in DOMAIN params THEN params[arg.name]
  ELSE IF arg.kind = "Addr" THEN arg.addr
  ELSE IF arg.name \in DOMAIN g.names THEN g.names[arg.name]
  ELSE Null

\* ResolveAddr: what is not known yet is created, if it is a node.  Address 0
\* stands for the empty address.
WithEnd(g, arg, params) ==
  LET known == Given(g, arg, params)
  IN IF known # Null THEN [g |-> g, addr |-> known]
     ELSE IF arg.type = "node" /\ g.last < MaxAddr
     THEN [g |-> [g EXCEPT !.last = @ + 1, !.mem = @ @@ (g.last + 1 :> Node),
                           !.created = @ \cup {g.last + 1}],
           addr |-> g.last + 1]
     ELSE [g |-> g, addr |-> 0]

AddResult(names, arg, a) ==
  IF arg.name \in {NoName} \cup DOMAIN names THEN names ELSE names @@ (arg.name :> a)

GenerateTriple(g, triple, params) ==
  LET s == WithEnd(g, triple[1], params)
      t == WithEnd(s.g, triple[3], params)
      e == t.g.last + 1
  IN IF ~g.ok THEN g
     ELSE IF s.addr = 0 \/ t.addr = 0 \/ e > MaxAddr THEN [t.g EXCEPT !.ok = FALSE]
     ELSE [t.g EXCEPT
             !.last = e,
             !.mem = @ @@ (e :> Arc(s.addr, t.addr)),
             !.names = AddResult(AddResult(AddResult(@, triple[1], s.addr), triple[2], e),
                                 triple[3], t.addr),
             !.made = Append(@, <<s.addr, e, t.addr>>)]

\* CleanupCreated erases the nodes that were created, and erasing a node erases
\* its arcs.  Arcs between elements that were there stay.
CleanedUp(g) ==
  LET gone[a \in Addr] ==
        \/ a \in g.created
        \/ a \in Arcs(g.mem) /\ (gone[g.mem[a].begin] \/ gone[g.mem[a].end])
  IN [a \in {x \in DOMAIN g.mem : ~gone[x]} |-> g.mem[a]]

Do(params) ==
  /\ phase = "ready" /\ made = Null
  /\ \A i \in DOMAIN tmpl : tmpl[i][2].kind = "Type"
  /\ ParamsAllowed(params)
  /\ LET g == FoldLeft(LAMBDA h, triple : GenerateTriple(h, triple, params), Start, tmpl)
     IN /\ last' = g.last
        /\ mem' = IF g.ok THEN g.mem ELSE CleanedUp(g)
        /\ made' = [params |-> params, triples |-> IF g.ok THEN g.made ELSE Null]
  /\ UNCHANGED <<tmpl, within, phase, begun, news, cache, search, results>>

-----------------------------------------------------------------------------
\* The search begins: parameters, and the order of the triples.

CanAssign(arg, a) == arg.kind = "Type" /\ arg.type # "any" /\ TypeFits(mem, a, arg.type)

ApplyParameters(params) ==
  [i \in DOMAIN tmpl |-> [p \in Pos |->
     LET arg == tmpl[i][p]
     IN IF arg.name \in DOMAIN params THEN Fixed(params[arg.name], arg.name) ELSE arg]]

Score(triple) ==
  LET addr(p) == triple[p].kind = "Addr"
  IN IF addr(2) /\ ~addr(1) /\ ~addr(3) THEN 5
     ELSE IF addr(1) /\ ~addr(2) /\ addr(3) THEN 2
     ELSE IF addr(1) \/ addr(3) THEN 1
     ELSE 0

\* std::sort leaves open how triples of the same score are arranged.
Sorted(s) ==
  {q \in [1..Len(s) -> 1..Len(s)] :
     /\ IsInjective(q)
     /\ \A i, j \in DOMAIN q : i < j => s[q[i]] >= s[q[j]]}

Begin(params) ==
  /\ phase = "ready"
  /\ IF \A n \in DOMAIN params : \E i \in DOMAIN tmpl, p \in Pos :
          tmpl[i][p].name = n /\ CanAssign(tmpl[i][p], params[n])
     THEN /\ tmpl' = ApplyParameters(params)
          /\ scores' = [i \in DOMAIN tmpl |-> Score(tmpl'[i])]
          /\ pre' \in Sorted(scores')
          /\ order' = <<pre'[1]>>
          /\ begun' = [mem |-> mem, params |-> params]
          /\ phase' = "order"
     ELSE phase' = "invalid" /\ UNCHANGED <<tmpl, scores, pre, order, begun>>
  /\ UNCHANGED <<mem, last, within, made, news, resolved, search, results>>

\* The places of the names that the last triple resolves, apart from those that
\* were resolved before.
Dependent ==
  LET names == {tmpl[Last(order)][p].name : p \in Pos} \ (resolved \cup {NoName})
  IN {<<i, p>> \in (DOMAIN tmpl) \X Pos : tmpl[i][p].kind # "Addr" /\ tmpl[i][p].name \in names}

Cached == ToSet(order)

\* kScoreEdge is added for a packed index of 1, the arc of the first triple,
\* where arcs of all triples are meant.
Gain(place) == IF place = <<1, 2>> THEN 5 ELSE 1

NewScores ==
  [i \in DOMAIN tmpl |->
     IF i \in Cached THEN scores[i]
     ELSE FoldLeft(LAMBDA n, p : IF <<i, p>> \in Dependent THEN n + Gain(<<i, p>>) ELSE n,
                   scores[i], <<1, 2, 3>>)]

\* The next triple: the first one not taken, or one that the last triple
\* resolves if it has more points.  The places are gone through in the order of
\* a hash table, which decides among equals.
Best ==
  LET first == pre[CHOOSE n \in DOMAIN pre : pre[n] \notin Cached
                                             /\ \A m \in 1..(n - 1) : pre[m] \in Cached]
      open == {place[1] : place \in Dependent} \ Cached
      top == {i \in open \cup {first} : \A j \in open \cup {first} : NewScores[i] >= NewScores[j]}
  IN IF first \in top \ open THEN {first} ELSE top

AppendBest ==
  /\ phase = "order"
  /\ IF Len(order) < Len(tmpl)
     THEN /\ \E b \in Best : order' = Append(order, b)
          /\ scores' = NewScores
          /\ resolved' = resolved \cup {tmpl[Last(order)][p].name : p \in Pos}
          /\ UNCHANGED phase
     ELSE phase' = "search" /\ UNCHANGED <<order, scores, resolved>>
  /\ UNCHANGED <<client, pre, search, results>>

-----------------------------------------------------------------------------
\* The search goes on (DoIter), one turn of its loop after another.

\* ResolveAddr: the address of an argument, if it has one by now.
Known(arg) ==
  IF arg.kind = "Addr" THEN arg.addr
  ELSE IF arg.name \in DOMAIN m_repls THEN m_repls[arg.name].addr
  ELSE Null

\* CreateIterator: what an iterator returns for a triple, arcs that were
\* created last first.  An iterator over a known arc does not ask for types.
Found(triple) ==
  LET s == Known(triple[1])
      e == Known(triple[2])
      t == Known(triple[3])
      fits(a) ==
        /\ e \in {Null, a} /\ s \in {Null, mem[a].begin} /\ t \in {Null, mem[a].end}
        /\ e = Null =>
             /\ s = Null => TypeFits(mem, mem[a].begin, triple[1].type)
             /\ t = Null => TypeFits(mem, mem[a].end, triple[3].type)
      list == SetToSortSeq({a \in Arcs(mem) : fits(a)}, >)
  IN [n \in DOMAIN list |-> <<mem[list[n]].begin, list[n], mem[list[n]].end>>]

CanIterate(triple) == \E p \in Pos : Known(triple[p]) # Null

\* Mutant: the counter is lowered and its last user leaves the name behind.
UnrefedKeeps(repls, arg) ==
  IF arg.name = NoName \/ repls[arg.name].refs = 1 THEN repls
  ELSE [repls EXCEPT ![arg.name].refs = @ - 1]

\* UnrefReplacement
Unrefed(repls, arg) ==
  IF arg.name = NoName THEN repls
  ELSE IF repls[arg.name].refs > 1 THEN [repls EXCEPT ![arg.name].refs = @ - 1]
  ELSE [n \in DOMAIN repls \ {arg.name} |-> repls[n]]

\* RefReplacement.  A name that is there keeps its address.
Refed(repls, arg, a) ==
  IF arg.name = NoName THEN repls
  ELSE IF arg.name \in DOMAIN repls THEN [repls EXCEPT ![arg.name].refs = @ + 1]
  ELSE repls @@ (arg.name :> [addr |-> a, refs |-> 1])

\* Mutant: the structure need not contain the arc.
AcceptedEnds(t, used) == {t[1], t[3]} \subseteq within /\ t[2] \notin used

\* CheckInStruct, and no arc is used for two triples.
Accepted(t, used) == {t[1], t[2], t[3]} \subseteq within /\ t[2] \notin used

\* The loop over an iterator, at depth k of the stack: a triple is taken and
\* the search goes deeper or has a result, or the iterator is given up.
Advance(k, it, used, repls) ==
  LET c == order[k]
      good == {n \in DOMAIN it : Accepted(it[n], used)}
      n == CHOOSE m \in good : \A x \in good : m <= x
      found == k = Len(tmpl)
      names == Refed(Refed(Refed(repls, tmpl[c][1], it[n][1]), tmpl[c][2], it[n][2]),
                     tmpl[c][3], it[n][3])
  IN IF good = {}
     THEN /\ iters' = SubSeq(iters, 1, k - 1)
          /\ m_usedEdges' = used /\ m_repls' = repls
          /\ newIteration' = FALSE
          /\ phase' = IF k = 1 THEN "end" ELSE phase
          /\ UNCHANGED <<m_resultAddrs, results>>
     ELSE /\ iters' = Append(SubSeq(iters, 1, k - 1), SubSeq(it, n + 1, Len(it)))
          /\ m_usedEdges' = used \cup {it[n][2]} /\ m_repls' = names
          /\ m_resultAddrs' = [m_resultAddrs EXCEPT ![c] = it[n]]
          /\ newIteration' = ~found
          /\ phase' = IF found THEN "found" ELSE phase
          /\ results' = IF found
                        THEN Append(results, [addrs |-> m_resultAddrs',
                                              names |-> [x \in DOMAIN names |-> names[x].addr]])
                        ELSE results

Deeper ==
  /\ phase = "search" /\ newIteration
  /\ LET k == Len(iters) + 1
         triple == tmpl[order[k]]
     IN IF CanIterate(triple) THEN Advance(k, Found(triple), m_usedEdges, m_repls)
        ELSE phase' = "thrown" /\ UNCHANGED <<search, results>>
  /\ UNCHANGED <<client, cache>>

\* The arc that is given back, m_state.edges[orderIndex], is the one in the
\* result so far.
Further ==
  /\ phase = "search" /\ ~newIteration
  /\ LET k == Len(iters)
         c == order[k]
     IN Advance(k, iters[k], m_usedEdges \ {m_resultAddrs[c][2]},
                Unrefed(Unrefed(Unrefed(m_repls, tmpl[c][1]), tmpl[c][2]), tmpl[c][3]))
  /\ UNCHANGED <<client, cache>>

\* The client asks for the next result (operator ++, DoStep).
Step ==
  /\ phase = "found"
  /\ phase' = "search"
  /\ UNCHANGED <<client, cache, search, results>>

\* It may create arcs before.
CreateEdge(b, e) ==
  /\ phase = "found" /\ news < MaxNew /\ last < MaxAddr
  /\ last' = last + 1
  /\ mem' = mem @@ (last + 1 :> Arc(b, e))
  /\ news' = news + 1
  /\ UNCHANGED <<tmpl, within, phase, begun, made, cache, search, results>>

-----------------------------------------------------------------------------
Init ==
  /\ tmpl \in Templates
  /\ mem \in Memories /\ last = Cardinality(DOMAIN mem)
  /\ within \in Structures
  /\ phase = "make"
  /\ pre = <<>> /\ scores = <<>> /\ resolved = {} /\ order = <<>>
  /\ iters = <<>> /\ newIteration = TRUE
  /\ m_usedEdges = {} /\ m_repls = <<>>
  /\ m_resultAddrs = [i \in DOMAIN tmpl |-> <<0, 0, 0>>]
  /\ results = <<>>
  /\ begun = Null /\ made = Null /\ news = 0

Next ==
  \/ Make
  \/ \E params \in Parameters : Do(params) \/ Begin(params)
  \/ AppendBest
  \/ Deeper \/ Further \/ Step
  \/ \E b, e \in DOMAIN mem : CreateEdge(b, e)

Spec == Init /\ [][Next]_vars

-----------------------------------------------------------------------------
\* Properties.

TypeOK ==
  /\ phase \in {"make", "ready", "invalid", "order", "search", "found", "end", "thrown"}
  /\ DOMAIN mem \subseteq 1..last /\ last \in Addr
  /\ \A a \in Arcs(mem) : mem[a].begin \in DOMAIN mem /\ mem[a].end \in DOMAIN mem
  /\ IsInjective(order) /\ Len(iters) <= Len(order)
  /\ m_usedEdges \subseteq Arcs(mem)
  /\ \A i \in DOMAIN m_resultAddrs, p \in Pos : m_resultAddrs[i][p] \in {0} \cup DOMAIN mem

\* The triples that have an arc for the time being.
Taken == {order[k] : k \in 1..Len(iters)}

Places(n, S) == {<<i, p>> \in S \X Pos : tmpl[i][p].name = n}

\* Backtracking forgets exactly what it has tried: the arcs in use are those of
\* the triples on the stack, each of them once, and a name is bound, to the
\* element that all of its places have, as long as one of these is on the stack.
BookkeepingExact ==
  /\ TypeOK
  /\ phase \in {"search", "found", "end"} =>
       /\ m_usedEdges = {m_resultAddrs[i][2] : i \in Taken}
       /\ Cardinality(m_usedEdges) = Len(iters)
       /\ DOMAIN m_repls = {n \in NamesOf(tmpl) : Places(n, Taken) # {}}
       /\ \A n \in DOMAIN m_repls :
            /\ m_repls[n].refs = Cardinality(Places(n, Taken))
            /\ \A q \in Places(n, Taken) : m_resultAddrs[q[1]][q[2]] = m_repls[n].addr

\* What corresponds to a template in memory m: an arc of its own for each
\* triple, so that addresses are where the template has them, one name has one
\* element and, if they are asked for, types fit.
Constructions(m, typed) ==
  LET choices == {f \in [DOMAIN tmpl -> Arcs(m)] : IsInjective(f)}
      of(f) == [i \in DOMAIN tmpl |-> <<m[f[i]].begin, f[i], m[f[i]].end>>]
      fits(c) ==
        \A i \in DOMAIN tmpl, p \in Pos :
          /\ c[i][p] \in within
          /\ tmpl[i][p].kind = "Addr" => c[i][p] = tmpl[i][p].addr
          /\ typed /\ tmpl[i][p].kind = "Type" => TypeFits(m, c[i][p], tmpl[i][p].type)
          /\ \A q \in Places(tmpl[i][p].name, DOMAIN tmpl) :
               tmpl[i][p].name # NoName => c[q[1]][q[2]] = c[i][p]
  IN {c \in {of(f) : f \in choices} : fits(c)}

\* Types of the ends are looked at unless the arc was known before them.
ArcKnown(triple) ==
  \/ triple[2].kind = "Addr"
  \/ triple[2].name # NoName
     /\ \E i \in DOMAIN tmpl : triple[2].name \in {tmpl[i][1].name, tmpl[i][3].name}

TypesChecked ==
  \A i \in DOMAIN tmpl : ArcKnown(tmpl[i]) =>
    \A p \in {1, 3} : tmpl[i][p].kind = "Addr" \/ tmpl[i][p].type = "any"

\* Something was generated that the search is to find.  (A new name at both
\* ends of a triple becomes two elements: this is not what the template says.)
Promised ==
  /\ made # Null /\ within = Addr
  /\ made.triples # Null /\ made.params = begun.params
  /\ \A i \in DOMAIN tmpl : tmpl[i][1].name = tmpl[i][3].name /\ tmpl[i][1].name # NoName =>
       made.triples[i][1] = made.triples[i][3]

\* The search finds every construction once, whatever order it has chosen and
\* whatever its client creates meanwhile, and nothing else; names stand for the
\* elements at their places; and what was generated from the template is among
\* the results.  docs/cpp/templates.md:90, "to find all contructions that
\* correspond to template".  (It may throw, having met a triple of which it
\* knows nothing yet.)
FoundExact ==
  LET got == {results[n].addrs : n \in DOMAIN results}
  IN /\ phase \in {"end", "thrown"} =>
          /\ Cardinality(got) = Len(results)
          /\ got \subseteq Constructions(mem, TypesChecked)
          /\ \A n \in DOMAIN results : \A i \in DOMAIN tmpl, p \in Pos :
               tmpl[i][p].name # NoName =>
                 results[n].names[tmpl[i][p].name] = results[n].addrs[i][p]
     /\ phase = "end" =>
          /\ Constructions(begun.mem, TRUE) \subseteq got
          /\ Promised => made.triples \in got
=============================================================================
