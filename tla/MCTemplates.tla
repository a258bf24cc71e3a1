---------------------------- MODULE MCTemplates ----------------------------
EXTENDS Templates

any(n) == Typed("any", n)
node(n) == Typed("node", n)
arc(n) == Typed("arc", n)
at(a) == Fixed(a, NoName)
a0 == arc(NoName)

\* A search along a path, two ways between two elements, arcs to arcs, known
\* arcs, several triples at one element, and templates that are refused.
MCTemplates ==
  { << <<at(1), a0, node("x")>> >>,
    << <<at(1), a0, node("x")>>, <<Replace("x"), arc("e"), node("y")>> >>,
    << <<node("x"), a0, at(1)>>, <<Replace("x"), a0, at(1)>> >>,
    << <<at(1), a0, node("x")>>, <<Replace("x"), a0, Replace("x")>> >>,
    << <<at(1), a0, arc("e")>>, <<node("x"), Replace("e"), any("y")>> >>,
    << <<any("x"), arc("e"), any("y")>>, <<at(1), a0, Replace("e")>> >>,
    << <<any("x"), at(3), any("y")>>, <<at(1), a0, Replace("y")>> >>,
    << <<at(1), at(3), any("y")>> >>,
    << <<at(1), a0, node("x")>>, <<node("z"), a0, node("w")>>,
       <<Replace("x"), a0, node("y")>>, <<Replace("x"), a0, Replace("z")>> >>,
    << <<node("x"), a0, Replace("x")>> >>,
    << <<node("x"), arc("x"), at(1)>> >>,
    << <<at(1), a0, Replace("x")>> >> }

\* Two nodes and three arcs, each between older elements.
MCMemories ==
  {(1 :> Node) @@ (2 :> Node) @@ (3 :> Arc(p[1], p[2])) @@ (4 :> Arc(q[1], q[2]))
     @@ (5 :> Arc(r[1], r[2])) :
   p \in {1} \X (1..2), q \in (1..3) \X (1..3), r \in {1, 4} \X (1..4)}

MCStructures == {Addr, {1, 2, 3, 4}}
MCParameters == {<<>>, "x" :> 2}
=============================================================================
