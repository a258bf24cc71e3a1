------------------------------ MODULE ScGraph ------------------------------
(***************************************************************************)
(* What the storage of sc-elements promises its clients: a graph of        *)
(* elements, some of which are arcs between elements (arcs included),      *)
(* where removing an element removes, in one step, exactly the arcs that   *)
(* start or end in something removed.  What was removed is then announced: *)
(* each arc to both its ends, each element to itself, and nothing else.    *)
(***************************************************************************)
CONSTANT Addr

VARIABLES elements,  \* the elements that exist
          ends,      \* <<begin, end>> of each of them that is an arc
          owed,      \* the events still to be emitted for the last removal
          announced  \* the ones that were

vars == <<elements, ends, owed, announced>>

Init ==
  /\ elements = {}
  /\ ends = <<>>
  /\ owed = {}
  /\ announced = {}

AddNode(a) ==
  /\ a \notin elements
  /\ elements' = elements \cup {a}
  /\ UNCHANGED <<ends, owed, announced>>

AddArc(a, b, e) ==
  /\ a \notin elements
  /\ {b, e} \subseteq elements
  /\ elements' = elements \cup {a}
  /\ ends' = [x \in DOMAIN ends \cup {a} |-> IF x = a THEN <<b, e>> ELSE ends[x]]
  /\ UNCHANGED <<owed, announced>>

\* The least set that contains x and every arc with an end in the set.
Closed(S) == \A a \in DOMAIN ends : ends[a][1] \in S \/ ends[a][2] \in S => a \in S

Closure(x) ==
  {a \in elements : \A S \in SUBSET elements : x \in S /\ Closed(S) => a \in S}

EventsOf(S) ==
  {<<"remove_element", a, a>> : a \in S}
  \cup {<<"remove_out", ends[a][1], a>> : a \in S \cap DOMAIN ends}
  \cup {<<"remove_in", ends[a][2], a>> : a \in S \cap DOMAIN ends}

Remove(x) ==
  /\ owed = {} /\ announced = {}
  /\ x \in elements
  /\ elements' = elements \ Closure(x)
  /\ ends' = [a \in DOMAIN ends \ Closure(x) |-> ends[a]]
  /\ owed' = EventsOf(Closure(x))
  /\ UNCHANGED announced

Announce ==
  /\ \E E \in (SUBSET owed) \ {{}} : owed' = owed \ E /\ announced' = announced \cup E
  /\ UNCHANGED <<elements, ends>>

Announced ==
  /\ owed = {} /\ announced # {}
  /\ announced' = {}
  /\ UNCHANGED <<elements, ends, owed>>

Next ==
  \/ \E a \in Addr :
       \/ AddNode(a)
       \/ \E b, e \in Addr : AddArc(a, b, e)
       \/ Remove(a)
  \/ Announce
  \/ Announced

Spec == Init /\ [][Next]_vars
=============================================================================
