-------------------------- MODULE LinkStoreProofs --------------------------
(***************************************************************************)
(* Proofs about the contents of links, for any clients, links and          *)
(* contents, through crashes and restarts: the file memory and the         *)
(* elements agree (BackLinksExact), also in what a save has left on the    *)
(* disk (SavedExact), a content that was set is read back (ReadsBack), and *)
(* a search finds what it should (FoundExact).                             *)
(*                                                                         *)
(* The inductive invariant IInv follows a link through the three steps of  *)
(* sc_storage_set_link_content: with its content as long as its address is *)
(* in the file memory, without one from the removal of the address to the  *)
(* next entry.                                                             *)
(***************************************************************************)
EXTENDS LinkStore, FunctionTheorems, FiniteSetTheorems, WellFoundedInduction, TLAPS

Setting == {"remove", "write", "append"}

\* The types of all variables that the proofs use.
Types ==
  /\ TypeOK
  /\ addrs \in [Content -> Seq(Link)]
  /\ left \in [Proc -> Seq(Link)] /\ found \in [Proc -> Seq(Link)]
  /\ want \in [Link -> Content \cup {Null}] /\ raced \subseteq Link
  /\ lost \in BOOLEAN

\* The locks of the clients are those of the links whose content they set.
LockInv ==
  /\ \A p \in Proc : pc[p] \in Setting => /\ link[p] \in Link /\ val[p] \in Content
                                          /\ lock[link[p]] = p
  /\ \A l \in Link : lock[l] \in Proc => pc[lock[l]] \in Setting /\ link[lock[l]] = l
  /\ \A p \in Proc : pc[p] \in Searching => val[p] \in Content
  /\ \A p \in Proc : pc[p] \in {"idle", "read"} => found[p] = <<>>

\* A save has all locks from its first write to the end of the last one; the
\* temporary file is what it has written; and without the process there is
\* nothing but the files.
SaveInv ==
  /\ saver \in {"write", "rename", "flush"} => AllLocked
  /\ saver = "rename" => tmp = el
  /\ ~up => /\ el = NoElements /\ lock = [l \in Link |-> Null] /\ saver = "idle" /\ tmp = Null
            /\ \A p \in Proc : pc[p] = "idle"

\* What the bytes of an element stand for.
Shaped(x) == /\ x.blank => x.data \in {Null, Empty}
             /\ ~x.blank => x.data \in Content

\* No address of the link in the file memory a, but for the empty content.
Bare(l, a) == \A c \in Content \ {Empty} : Times(l, a[c]) = 0

\* The element x of the link agrees with the file memory a.
Fits(l, x, a) ==
  /\ Shaped(x)
  /\ x.data \in Short => x.self
  /\ \A c \in Content \ {Empty} : Times(l, a[c]) = IF x.exists /\ x.data = c THEN 1 ELSE 0
  /\ x.exists /\ x.data = Empty => Times(l, a[Empty]) > 0

\* Where the call is that sets the content of a link, and which one it sets.
Stage(l) == IF lock[l] \in Proc THEN pc[lock[l]] ELSE "settled"
Coming(l) == IF lock[l] \in Proc THEN val[lock[l]] ELSE Null

\* The element x of the link, what was set last (w) and the file memory a, at
\* the stage s of setting v.
Staged(l, x, w, a, s, v) ==
  /\ s = "settled" => Fits(l, x, a) /\ (x.exists /\ w # Null => w = x.data)
  /\ s # "settled" => x.exists /\ Shaped(x)
  /\ s = "remove" => Fits(l, x, a) /\ ~x.blank
  /\ s \in {"write", "append"} => Bare(l, a)
  /\ s = "append" /\ v \in Short => x.data = v /\ x.self

LinkInv ==
  up /\ ~lost => \A l \in Link : Staged(l, el[l], want[l], addrs, Stage(l), Coming(l))

\* The file memory has the bytes of the contents with addresses, or of those
\* about to get one, unless they were erased for another link.
BytesInv ==
  ~lost =>
    /\ \A l \in Link, c \in Long : Times(l, addrs[c]) > 0 => c \in bytes \/ l \in raced
    /\ \A p \in Proc : pc[p] = "append" /\ val[p] \in Long => val[p] \in bytes \/ link[p] \in raced

\* What is on the disk agrees with the file memory at the time.
FileInv ==
  ~lost =>
    /\ file # Null => \A l \in Link : Fits(l, file[l], atSave[1])
    /\ file = Null => atSave[1] = NoAddrs

\* The searches: what they still have to go through and what they have found
\* are between what has had the content all the time and what had it once.
SearchInv ==
  ~lost => \A p \in Proc :
    /\ pc[p] \in Searching => Having[val[p]] \subseteq had[p]
    /\ pc[p] = "read" => kept[p] \subseteq Settled[val[p]]
    /\ pc[p] = "check" =>
         /\ kept[p] \subseteq Range(found[p]) \cup Range(left[p])
         /\ val[p] # Empty => Range(found[p]) \cup Range(left[p]) \subseteq had[p]

\* The inductive invariant.
IInv == Types /\ LockInv /\ SaveInv /\ LinkInv /\ BytesInv /\ FileInv /\ SearchInv /\ (failed => lost)

-----------------------------------------------------------------------------
\* The entries of a link in a sequence of addresses.

Same(a, b) == IF a = b THEN 1 ELSE 0
Spots(l, s) == {n \in 1..Len(s) : s[n] = l}

\* There are finitely many, and none exactly when the link is not in the sequence.
LEMMA TimesType ==
  ASSUME NEW s \in Seq(Link), NEW l
  PROVE  /\ IsFiniteSet(Spots(l, s)) /\ Times(l, s) = Cardinality(Spots(l, s))
         /\ Times(l, s) \in Nat
         /\ Times(l, s) > 0 <=> l \in Range(s)
         /\ Times(l, s) > 0 => s # <<>>
<1>1. Len(s) \in Nat /\ DOMAIN s = 1..Len(s)
  OBVIOUS
<1>2. IsFiniteSet(1..Len(s))
  BY <1>1, FS_Interval
<1>3. IsFiniteSet(Spots(l, s))
  BY <1>2, FS_Subset DEF Spots
<1>4. Times(l, s) = Cardinality(Spots(l, s))
  BY DEF Times, Spots
<1>5. Times(l, s) \in Nat /\ (Times(l, s) = 0 <=> Spots(l, s) = {})
  BY <1>3, <1>4, FS_CardinalityType, FS_EmptySet
<1>6. Spots(l, s) # {} <=> l \in Range(s)
  BY <1>1 DEF Spots, Range
<1>7. Spots(l, s) # {} => s # <<>>
  BY <1>1 DEF Spots
<1>8. Times(l, s) > 0 <=> Times(l, s) # 0
  BY <1>5
<1> QED BY <1>3, <1>4, <1>5, <1>6, <1>7, <1>8

\* No entries in the empty sequence.
LEMMA TimesEmpty == \A l : Times(l, <<>>) = 0
<1> TAKE l
<1>1. {n \in 1..Len(<<>>) : <<>>[n] = l} = {}
  OBVIOUS
<1> QED BY <1>1, FS_EmptySet DEF Times

\* sc_fm_addr_ref_append: one entry more of that link.
LEMMA TimesAppend ==
  ASSUME NEW s \in Seq(Link), NEW l \in Link, NEW m \in Link
  PROVE  Times(m, Append(s, l)) = Times(m, s) + Same(m, l)
<1> DEFINE t == Append(s, l)
<1>1. /\ t \in Seq(Link) /\ Len(t) = Len(s) + 1 /\ Len(s) \in Nat
      /\ t[Len(s) + 1] = l /\ \A n \in 1..Len(s) : t[n] = s[n]
  OBVIOUS
<1> HIDE DEF t
<1>2. /\ IsFiniteSet(Spots(m, s)) /\ Times(m, s) = Cardinality(Spots(m, s))
      /\ Times(m, t) = Cardinality(Spots(m, t)) /\ Times(m, s) \in Nat
  BY <1>1, TimesType
<1>3. CASE m = l
  <2>1. Spots(m, t) = Spots(m, s) \cup {Len(s) + 1}
    BY <1>1, <1>3 DEF Spots
  <2>2. Len(s) + 1 \notin Spots(m, s)
    BY <1>1 DEF Spots
  <2>3. Cardinality(Spots(m, s) \cup {Len(s) + 1}) = Cardinality(Spots(m, s)) + 1
    BY <1>2, <2>2, FS_AddElement
  <2>4. Cardinality(Spots(m, t)) = Cardinality(Spots(m, s) \cup {Len(s) + 1})
    BY <2>1, Zenon
  <2> QED BY <1>2, <1>3, <2>3, <2>4 DEF Same, t
<1>4. CASE m # l
  <2>1. Spots(m, t) = Spots(m, s)
    BY <1>1, <1>4 DEF Spots
  <2>2. Cardinality(Spots(m, t)) = Cardinality(Spots(m, s))
    BY <2>1, Zenon
  <2> QED BY <1>2, <1>4, <2>2 DEF Same, t
<1> QED BY <1>3, <1>4

\* A sequence without its k-th member.
LEMMA RemoveAtSeq ==
  ASSUME NEW s \in Seq(Link), NEW k \in 1..Len(s)
  PROVE  /\ RemoveAt(s, k) \in Seq(Link) /\ Len(RemoveAt(s, k)) = Len(s) - 1
         /\ \A n \in 1..(Len(s) - 1) : RemoveAt(s, k)[n] = IF n < k THEN s[n] ELSE s[n + 1]
<1> DEFINE a == SubSeq(s, 1, k - 1)
           b == SubSeq(s, k + 1, Len(s))
           t == a \o b
<1>1. Len(s) \in Nat
  OBVIOUS
<1>2. a \in Seq(Link) /\ Len(a) = k - 1 /\ \A n \in 1..(k - 1) : a[n] = s[n]
  BY <1>1
<1>3. b \in Seq(Link) /\ Len(b) = Len(s) - k /\ \A n \in 1..(Len(s) - k) : b[n] = s[n + k]
  BY <1>1
<1> HIDE DEF a, b
<1>4. a \in Seq(Link) /\ b \in Seq(Link)
  BY <1>2, <1>3
<1>5. t \in Seq(Link) /\ Len(t) = Len(a) + Len(b)
  <2>1. a \o b \in Seq(Link)
    BY <1>4
  <2>2. Len(a \o b) = Len(a) + Len(b)
    BY <1>4
  <2> QED BY <2>1, <2>2
<1>6. \A n \in 1..Len(t) : t[n] = IF n <= Len(a) THEN a[n] ELSE b[n - Len(a)]
  BY <1>2, <1>3
<1>7. Len(t) = Len(s) - 1
  BY <1>1, <1>2, <1>3, <1>5
<1>8. ASSUME NEW n \in 1..(Len(s) - 1) PROVE t[n] = IF n < k THEN s[n] ELSE s[n + 1]
  <2>1. CASE n < k
    BY <1>1, <1>2, <1>6, <1>7, <2>1
  <2>2. CASE ~(n < k)
    <3>1. n - (k - 1) \in 1..(Len(s) - k) /\ (n - (k - 1)) + k = n + 1
      BY <1>1, <2>2
    <3>2. t[n] = b[n - (k - 1)]
      BY <1>1, <1>2, <1>6, <1>7, <2>2
    <3> QED BY <1>3, <2>2, <3>1, <3>2
  <2> QED BY <2>1, <2>2
<1>9. RemoveAt(s, k) = t
  BY DEF RemoveAt, a, b
<1> QED BY <1>5, <1>7, <1>8, <1>9

\* It has an entry less of the member that went.
LEMMA TimesRemoveAt ==
  ASSUME NEW s \in Seq(Link), NEW k \in 1..Len(s), NEW m \in Link
  PROVE  Times(m, RemoveAt(s, k)) = Times(m, s) - Same(m, s[k])
<1> DEFINE t == RemoveAt(s, k)
           f == [n \in Spots(m, s) \ {k} |-> IF n < k THEN n ELSE n - 1]
<1>1. /\ t \in Seq(Link) /\ Len(t) = Len(s) - 1 /\ Len(s) \in Nat
      /\ \A n \in 1..(Len(s) - 1) : t[n] = IF n < k THEN s[n] ELSE s[n + 1]
  BY RemoveAtSeq
<1> HIDE DEF t
<1>2. /\ IsFiniteSet(Spots(m, s)) /\ Times(m, s) = Cardinality(Spots(m, s)) /\ Times(m, s) \in Nat
      /\ IsFiniteSet(Spots(m, t)) /\ Times(m, t) = Cardinality(Spots(m, t)) /\ Times(m, t) \in Nat
  BY <1>1, TimesType
<1>3. \A n \in Spots(m, s) \ {k} : f[n] \in Spots(m, t)
  <2> SUFFICES ASSUME NEW n \in Spots(m, s) \ {k} PROVE f[n] \in Spots(m, t)
    OBVIOUS
  <2>1. n \in 1..Len(s) /\ s[n] = m /\ n # k
    BY DEF Spots
  <2>2. CASE n < k
    <3>1. f[n] = n /\ n \in 1..(Len(s) - 1)
      BY <1>1, <2>1, <2>2
    <3> QED BY <1>1, <2>1, <2>2, <3>1 DEF Spots
  <2>3. CASE ~(n < k)
    <3>1. f[n] = n - 1 /\ n - 1 \in 1..(Len(s) - 1) /\ ~(n - 1 < k) /\ (n - 1) + 1 = n
      BY <1>1, <2>1, <2>3
    <3> QED BY <1>1, <2>1, <3>1 DEF Spots
  <2> QED BY <2>2, <2>3
<1>4. \A n, o \in Spots(m, s) \ {k} : f[n] = f[o] => n = o
  BY <1>1 DEF Spots
<1>5. \A j \in Spots(m, t) : \E n \in Spots(m, s) \ {k} : f[n] = j
  <2> SUFFICES ASSUME NEW j \in Spots(m, t) PROVE \E n \in Spots(m, s) \ {k} : f[n] = j
    OBVIOUS
  <2>1. CASE j < k
    <3>1. j \in Spots(m, s) \ {k} /\ f[j] = j
      BY <1>1, <2>1 DEF Spots
    <3> QED BY <3>1
  <2>2. CASE ~(j < k)
    <3>1. j + 1 \in Spots(m, s) \ {k} /\ f[j + 1] = j
      BY <1>1, <2>2 DEF Spots
    <3> QED BY <3>1
  <2> QED BY <2>1, <2>2
<1>6. f \in Bijection(Spots(m, s) \ {k}, Spots(m, t))
  <2>1. f \in [Spots(m, s) \ {k} -> Spots(m, t)]
    BY <1>3
  <2> HIDE DEF f
  <2>2. f \in Injection(Spots(m, s) \ {k}, Spots(m, t))
    BY <1>4, <2>1, Fun_IsInj
  <2>3. f \in Surjection(Spots(m, s) \ {k}, Spots(m, t))
    BY <1>5, <2>1, Fun_IsSurj
  <2> QED BY <2>2, <2>3 DEF Bijection
<1>7. ExistsBijection(Spots(m, s) \ {k}, Spots(m, t))
  BY <1>6 DEF ExistsBijection
<1>8. Cardinality(Spots(m, s) \ {k}) = Cardinality(Spots(m, t))
  BY <1>2, <1>7, FS_Bijection, FS_Subset
<1>9. Cardinality(Spots(m, s) \ {k}) = Cardinality(Spots(m, s)) - Same(m, s[k])
  <2>1. CASE k \in Spots(m, s)
    BY <1>2, <2>1, FS_RemoveElement DEF Same, Spots
  <2>2. CASE k \notin Spots(m, s)
    <3>1. Spots(m, s) \ {k} = Spots(m, s)
      BY <2>2
    <3>2. Cardinality(Spots(m, s) \ {k}) = Cardinality(Spots(m, s))
      BY <3>1, Zenon
    <3>3. m # s[k]
      BY <2>2 DEF Spots
    <3> QED BY <1>2, <3>2, <3>3 DEF Same
  <2> QED BY <2>1, <2>2
<1> QED BY <1>2, <1>8, <1>9 DEF t

\* The first of a set of places.
LEMMA First ==
  ASSUME NEW A \in SUBSET Nat, A # {}
  PROVE  \E k \in A : \A m \in A : k <= m
<1> DEFINE R == {ij \in Nat \X Nat : ij[1] < ij[2]}
<1>1. IsWellFoundedOn(R, Nat)
  BY NatLessThanWellFounded DEF OpToRel
<1>2. PICK k \in A : \A m \in A : ~(<<m, k>> \in R)
  <2> HIDE DEF R
  <2> QED BY <1>1, WFMin
<1>3. ASSUME NEW m \in A PROVE k <= m
  <2>1. k \in Nat /\ m \in Nat
    OBVIOUS
  <2>2. m < k => <<m, k>> \in R
    BY <2>1
  <2> QED BY <1>2, <2>1, <2>2
<1> QED BY <1>3

\* sc_fm_addr_ref_remove: one entry less of that link, if there was one.
LEMMA TimesWithout ==
  ASSUME NEW l \in Link, NEW c \in Content, addrs[c] \in Seq(Link)
  PROVE  /\ Without(l, c) \in Seq(Link)
         /\ \A m \in Link : m # l => Times(m, Without(l, c)) = Times(m, addrs[c])
         /\ Times(l, addrs[c]) > 0 => Times(l, Without(l, c)) = Times(l, addrs[c]) - 1
<1> DEFINE s == addrs[c]
           at == {n \in 1..Len(s) : s[n] = l}
           k == CHOOSE n \in at : \A m \in at : n <= m
<1>1. Len(s) \in Nat /\ Times(l, s) \in Nat
  BY TimesType
<1>2. CASE at = {}
  <2>1. Without(l, c) = s
    BY <1>2 DEF Without
  <2>2. Spots(l, s) = {}
    BY <1>2 DEF Spots
  <2>3. Cardinality(Spots(l, s)) = 0
    BY <2>2, FS_EmptySet, Zenon
  <2>4. Times(l, s) = 0
    BY <2>3, TimesType
  <2> QED BY <2>1, <2>4
<1>3. CASE at # {}
  <2>1. \E n \in at : \A m \in at : n <= m
    <3>1. at \in SUBSET Nat
      BY <1>1
    <3> HIDE DEF at
    <3> QED BY <1>3, <3>1, First
  <2>2. k \in at
    BY <2>1
  <2>3. Without(l, c) = RemoveAt(s, k)
    BY <1>3 DEF Without
  <2>4. k \in 1..Len(s) /\ s[k] = l
    BY <2>2
  <2> HIDE DEF k, at
  <2>5. RemoveAt(s, k) \in Seq(Link) /\ \A m \in Link : Times(m, RemoveAt(s, k)) = Times(m, s) - Same(m, l)
    BY <2>4, RemoveAtSeq, TimesRemoveAt
  <2>6. \A m \in Link : Times(m, s) \in Nat
    BY TimesType
  <2> QED BY <2>3, <2>5, <2>6 DEF Same
<1> QED BY <1>2, <1>3

-----------------------------------------------------------------------------
\* Types.

\* The elements that the operations write.
LEMMA Elements ==
  /\ NoElement \in Element /\ NewElement \in Element
  /\ NoElements \in [Link -> Element] /\ NoAddrs \in [Content -> Seq(Link)]
<1>1. NoElement \in Element
  BY DEF NoElement, Element
<1>2. NewElement \in Element
  BY DEF NoElement, NewElement, Element
<1>3. <<>> \in Seq(Link)
  OBVIOUS
<1> QED BY <1>1, <1>2, <1>3 DEF NoElements, NoAddrs

\* Writes to single fields.
LEMMA ElementExcept ==
  ASSUME NEW x \in Element, NEW c \in Content
  PROVE  /\ [x EXCEPT !.self = FALSE] \in Element
         /\ [[x EXCEPT !.data = c] EXCEPT !.blank = FALSE] \in Element
<1>1. [x EXCEPT !.data = c] \in Element
  BY DEF Element
<1>2. \A y \in Element : [y EXCEPT !.blank = FALSE] \in Element /\ [y EXCEPT !.self = FALSE] \in Element
  BY DEF Element
<1> QED BY <1>1, <1>2

\* sc_fm_addr_ref_remove keeps the types.
LEMMA RefRemoveTypes ==
  ASSUME Types, LockInv, NEW l \in Link, NEW c \in Content \cup {Null}, RefRemove(l, c)
  PROVE  /\ addrs' \in [Content -> Seq(Link)] /\ bytes' \subseteq Long
         /\ raced' \subseteq Link /\ failed' \in BOOLEAN
<1>1. CASE c = Null \/ addrs[c] = <<>>
  BY <1>1 DEF RefRemove, Types, TypeOK, db
<1>2. CASE ~(c = Null \/ addrs[c] = <<>>)
  <2>1. Without(l, c) \in Seq(Link)
    BY <1>2, TimesWithout DEF Types
  <2>2. \A q \in Proc : pc[q] = "append" => link[q] \in Link
    BY DEF LockInv, Setting
  <2>3. /\ addrs' = [addrs EXCEPT ![c] = Without(l, c)] /\ bytes' = Cleaned(l, c) /\ failed' = failed
        /\ \/ raced' = raced
           \/ raced' = raced \cup {link[p] : p \in {q \in Proc : pc[q] = "append" /\ val[q] = c}}
    BY <1>2 DEF RefRemove
  <2>4. bytes' \subseteq Long
    BY <2>3 DEF Types, TypeOK, Cleaned
  <2>5. ASSUME NEW x \in raced' PROVE x \in Link
    <3>1. x \in raced \/ \E q \in Proc : pc[q] = "append" /\ x = link[q]
      BY <2>3
    <3> QED BY <2>2, <3>1 DEF Types
  <2> QED BY <2>1, <2>3, <2>4, <2>5 DEF Types, TypeOK
<1> QED BY <1>1, <1>2

\* The end of the process keeps the types.
LEMMA EndedTypes ==
  ASSUME Types, Ended, file' \in [Link -> Element] \cup {Null}
  PROVE  Types'
<1>1. /\ up' \in BOOLEAN /\ el' \in [Link -> Element] /\ lock' \in [Link -> Proc \cup {"saver", Null}]
      /\ saver' \in Savers /\ tmp' \in [Link -> Element] \cup {Null}
  BY Elements DEF Ended, Savers
<1>2. /\ pc' \in [Proc -> Calls] /\ link' \in [Proc -> Link \cup {Null}]
      /\ val' \in [Proc -> Content \cup {Null}]
  BY DEF Ended, Calls
<1>3. left' \in [Proc -> Seq(Link)] /\ found' \in [Proc -> Seq(Link)]
  BY DEF Ended
<1>4. UNCHANGED <<addrs, bytes, failed, want, raced, lost>>
  BY DEF Ended, db
<1> QED BY <1>1, <1>2, <1>3, <1>4 DEF Types, TypeOK

\* Every step keeps the types.
LEMMA TypesNext ==
  ASSUME IInv, Action
  PROVE  Types'
<1> USE LinkStoreAssumption
<1>t. Types
  BY DEF IInv
<1>a. CASE \E p \in Proc, l \in Link : LinkNew(p, l)
  BY <1>t, <1>a, Elements DEF Types, TypeOK, LinkNew, Call, db, calls, disk
<1>b. ASSUME NEW p \in Proc, NEW l \in Link, ElementFree(p, l) PROVE Types'
  <2>1. addrs' \in [Content -> Seq(Link)] /\ bytes' \subseteq Long /\ raced' \subseteq Link /\ failed' \in BOOLEAN
    <3>1. CASE IsChecksumEmpty(el[l])
      BY <1>t, <1>b, <3>1 DEF ElementFree, Types, TypeOK, db
    <3>2. CASE ~IsChecksumEmpty(el[l])
      <4>1. RefRemove(l, el[l].data)
        BY <1>b, <3>2 DEF ElementFree
      <4>2. el[l].data \in Content \cup {Null}
        BY <1>t DEF Types, TypeOK, Element
      <4> QED BY <1>t, <4>1, <4>2, RefRemoveTypes DEF IInv
    <3> QED BY <3>1, <3>2
  <2> QED BY <1>t, <1>b, <2>1, Elements DEF Types, TypeOK, ElementFree, Call, calls, disk
<1>c. CASE \E p \in Proc, l \in Link, c \in Content : SetLinkContent(p, l, c)
  BY <1>t, <1>c DEF Types, TypeOK, SetLinkContent, Call, Goto, Calls, db, disk
<1>d. CASE \E p \in Proc, c \in Content : FindLinks(p, c)
  BY <1>t, <1>d DEF Types, TypeOK, FindLinks, Call, Goto, Calls, db, memory, disk
<1>e. ASSUME NEW p \in Proc, SetRemove(p) PROVE Types'
  <2>1. link[p] \in Link
    BY <1>e DEF IInv, LockInv, SetRemove, Setting
  <2>2. el[link[p]].data \in Content \cup {Null}
    BY <1>t, <2>1 DEF Types, TypeOK, Element
  <2>3. addrs' \in [Content -> Seq(Link)] /\ bytes' \subseteq Long /\ raced' \subseteq Link /\ failed' \in BOOLEAN
    BY <1>t, <1>e, <2>1, <2>2, RefRemoveTypes DEF IInv, SetRemove
  <2> QED BY <1>t, <1>e, <2>3 DEF Types, TypeOK, SetRemove, Goto, Calls, memory, disk, counts
<1>f. ASSUME NEW p \in Proc, SetWrite(p) PROVE Types'
  <2>1. link[p] \in Link /\ val[p] \in Content
    BY <1>f DEF IInv, LockInv, SetWrite, Setting
  <2>2. el' \in [Link -> Element] /\ bytes' \subseteq Long
    <3>1. CASE val[p] \in Long
      <4>1. el' = [el EXCEPT ![link[p]].self = FALSE] /\ bytes' = Written(val[p])
        BY <1>f, <3>1 DEF SetWrite
      <4>2. el' = [el EXCEPT ![link[p]] = [@ EXCEPT !.self = FALSE]]
        BY <4>1
      <4>3. [el[link[p]] EXCEPT !.self = FALSE] \in Element
        BY <1>t, <2>1, ElementExcept DEF Types, TypeOK
      <4>4. el' \in [Link -> Element]
        BY <1>t, <2>1, <4>2, <4>3 DEF Types, TypeOK
      <4>5. bytes' \subseteq Long
        BY <1>t, <3>1, <4>1 DEF Types, TypeOK, Written
      <4> QED BY <4>4, <4>5
    <3>2. CASE val[p] \in Short
      <4>1. /\ el' = [el EXCEPT ![link[p]] = [exists |-> TRUE, self |-> TRUE, data |-> val[p],
                                             blank |-> el[link[p]].blank /\ val[p] = Empty]]
            /\ bytes' = bytes
        BY <1>f, <3>2 DEF SetWrite
      <4>2. (el[link[p]].blank /\ val[p] = Empty) \in BOOLEAN
        OBVIOUS
      <4>3. [exists |-> TRUE, self |-> TRUE, data |-> val[p],
             blank |-> el[link[p]].blank /\ val[p] = Empty] \in Element
        BY <2>1, <4>2 DEF Element
      <4> DEFINE x == [exists |-> TRUE, self |-> TRUE, data |-> val[p],
                       blank |-> el[link[p]].blank /\ val[p] = Empty]
      <4>4. el' = [el EXCEPT ![link[p]] = x] /\ x \in Element
        BY <4>1, <4>3
      <4>5. bytes' = bytes
        BY <4>1
      <4> HIDE DEF x
      <4> QED BY <1>t, <2>1, <4>4, <4>5 DEF Types, TypeOK
    <3> QED BY <2>1, <3>1, <3>2 DEF Content
  <2> QED BY <1>t, <1>f, <2>2 DEF Types, TypeOK, SetWrite, Goto, Calls, disk, counts
<1>g. ASSUME NEW p \in Proc, SetAppend(p) PROVE Types'
  <2>1. link[p] \in Link /\ val[p] \in Content
    BY <1>g DEF IInv, LockInv, SetAppend, Setting
  <2>2. el' \in [Link -> Element]
    <3>1. CASE val[p] \in Long
      <4>1. el' = [el EXCEPT ![link[p]] = [[@ EXCEPT !.data = val[p]] EXCEPT !.blank = FALSE]]
        BY <1>t, <1>g, <2>1, <3>1 DEF SetAppend, Types, TypeOK, Element
      <4>2. [[el[link[p]] EXCEPT !.data = val[p]] EXCEPT !.blank = FALSE] \in Element
        BY <1>t, <2>1, ElementExcept DEF Types, TypeOK
      <4> QED BY <1>t, <2>1, <4>1, <4>2 DEF Types, TypeOK
    <3>2. CASE val[p] \notin Long
      BY <1>t, <1>g, <3>2 DEF SetAppend, Types, TypeOK
    <3> QED BY <3>1, <3>2
  <2>3. addrs' \in [Content -> Seq(Link)]
    BY <1>t, <1>g, <2>1 DEF Types, SetAppend, Appended
  <2> QED BY <1>t, <1>g, <2>1, <2>2, <2>3 DEF Types, TypeOK, SetAppend, Return, Calls, disk, counts
<1>h. ASSUME NEW p \in Proc, FindRead(p) PROVE Types'
  <2>1. val[p] \in Content
    BY <1>h DEF IInv, LockInv, FindRead, Searching
  <2> QED BY <1>t, <1>h, <2>1 DEF Types, TypeOK, FindRead, Goto, Calls, Entries, memory, db, disk, counts
<1>i. CASE \E p \in Proc : FindCheck(p)
  BY <1>t, <1>i DEF Types, TypeOK, FindCheck, memory, db, disk, counts
<1>j. CASE \E p \in Proc : FindReturn(p)
  BY <1>t, <1>j DEF Types, TypeOK, FindReturn, Return, Calls, memory, db, disk, counts
<1>k. CASE SaveBegin
  BY <1>t, <1>k DEF Types, TypeOK, SaveBegin, Savers, memory, db, calls, disk
<1>l. CASE SaveLock
  BY <1>t, <1>l DEF Types, TypeOK, SaveLock, Savers, db, calls, disk, counts
<1>m. CASE SaveWrite
  BY <1>t, <1>m DEF Types, TypeOK, SaveWrite, Savers, memory, db, calls, counts
<1>n. CASE SaveRename
  BY <1>t, <1>n DEF Types, TypeOK, SaveRename, Savers, memory, db, calls, counts
<1>o. CASE SaveFlush
  BY <1>t, <1>o DEF Types, TypeOK, SaveFlush, Savers, memory, db, calls, disk, counts
<1>p. CASE SaveUnlock
  BY <1>t, <1>p DEF Types, TypeOK, SaveUnlock, Unlocked, Savers, db, calls, disk, counts
<1>q. CASE Crash
  <2>1. Ended /\ file' = file
    BY <1>q DEF Crash
  <2> QED BY <1>t, <2>1, EndedTypes DEF Types, TypeOK
<1>r. ASSUME NEW b \in BOOLEAN, Shutdown(b) PROVE Types'
  <2>1. Ended /\ (file' = el \/ file' = file)
    BY <1>r DEF Shutdown
  <2> QED BY <1>t, <2>1, EndedTypes DEF Types, TypeOK
<1>s. ASSUME NEW b \in BOOLEAN, Initialize(b) PROVE Types'
  <2>1. el' \in [Link -> Element]
    BY <1>t, <1>s, Elements DEF Types, TypeOK, Initialize, Loaded
  <2>2. want' \in [Link -> Content \cup {Null}]
    BY <1>s, <2>1 DEF Initialize, Element
  <2>3. lost' \in BOOLEAN
    BY <1>t, <1>s DEF Types, Initialize
  <2> QED BY <1>t, <1>s, <2>1, <2>2, <2>3, Elements DEF Types, TypeOK, Initialize, calls, db
<1> QED BY <1>a, <1>b, <1>c, <1>d, <1>e, <1>f, <1>g, <1>h, <1>i, <1>j, <1>k, <1>l, <1>m, <1>n,
           <1>o, <1>p, <1>q, <1>r, <1>s DEF Action, Step, Save

-----------------------------------------------------------------------------
\* Locks.

\* Every step keeps the locks with the calls.
LEMMA LockNext ==
  ASSUME IInv, Action
  PROVE  LockInv'
<1> USE LinkStoreAssumption
<1>t. Types /\ LockInv
  BY DEF IInv
<1>u. \A p \in Proc : p # Null /\ p # "saver"
  OBVIOUS
<1>a. ASSUME UNCHANGED <<lock, calls>> PROVE LockInv'
  BY <1>t, <1>a DEF LockInv, calls
<1>b. CASE \/ \E p \in Proc, l \in Link : LinkNew(p, l) \/ ElementFree(p, l)
           \/ SaveBegin \/ SaveWrite \/ SaveRename \/ SaveFlush
           \/ \E b \in BOOLEAN : Initialize(b)
  <2>1. UNCHANGED <<lock, calls>>
    BY <1>b DEF LinkNew, ElementFree, SaveBegin, SaveWrite, SaveRename, SaveFlush, Initialize, memory
  <2> QED BY <1>a, <2>1
<1>c. ASSUME NEW p \in Proc, NEW l \in Link, NEW c \in Content, SetLinkContent(p, l, c) PROVE LockInv'
  <2>1. /\ pc[p] = "idle" /\ lock[l] = Null /\ lock' = [lock EXCEPT ![l] = p]
        /\ link' = [link EXCEPT ![p] = l] /\ val' = [val EXCEPT ![p] = c]
        /\ pc' = [pc EXCEPT ![p] = IF IsChecksumEmpty(el[l]) THEN "write" ELSE "remove"]
        /\ found' = found
    BY <1>c DEF SetLinkContent, Call, Goto
  <2>2. \A q \in Proc \ {p} : pc'[q] = pc[q] /\ link'[q] = link[q] /\ val'[q] = val[q]
    BY <1>t, <2>1 DEF Types, TypeOK
  <2>3. pc'[p] \in {"write", "remove"} /\ link'[p] = l /\ val'[p] = c
    BY <1>t, <2>1 DEF Types, TypeOK
  <2>4. \A m \in Link : lock'[m] = IF m = l THEN p ELSE lock[m]
    BY <1>t, <2>1 DEF Types, TypeOK
  <2>5. \A m \in Link : lock[m] # p
    BY <1>t, <2>1 DEF LockInv, Setting
  <2>6. \A q \in Proc \ {p} : pc[q] \in Setting => link[q] # l
    BY <1>t, <1>u, <2>1 DEF LockInv
  <2> QED BY <1>t, <2>1, <2>2, <2>3, <2>4, <2>5, <2>6 DEF LockInv, Setting, Searching
<1>d. ASSUME NEW p \in Proc, SetRemove(p) \/ SetWrite(p) PROVE LockInv'
  <2>1. /\ pc[p] \in Setting /\ UNCHANGED <<lock, link, val, found>>
        /\ \E w \in {"write", "append"} : pc' = [pc EXCEPT ![p] = w]
    BY <1>d DEF SetRemove, SetWrite, Goto, Setting, memory
  <2> QED BY <1>t, <2>1 DEF LockInv, Setting, Searching, Types, TypeOK
<1>e. ASSUME NEW p \in Proc, SetAppend(p) PROVE LockInv'
  <2>1. /\ pc[p] \in Setting /\ Return(p) /\ lock' = [lock EXCEPT ![link[p]] = Null]
    BY <1>e DEF SetAppend, Setting
  <2>2. \A q \in Proc \ {p} : /\ pc'[q] = pc[q] /\ link'[q] = link[q] /\ val'[q] = val[q]
                             /\ found'[q] = found[q]
    BY <1>t, <2>1 DEF Types, TypeOK, Return
  <2>3. pc'[p] = "idle" /\ found'[p] = <<>>
    BY <1>t, <2>1 DEF Types, TypeOK, Return
  <2>4. link[p] \in Link /\ lock[link[p]] = p
    BY <1>t, <2>1 DEF LockInv
  <2>5. \A m \in Link : lock'[m] = IF m = link[p] THEN Null ELSE lock[m]
    BY <1>t, <2>1 DEF Types, TypeOK
  <2>6. \A m \in Link : lock[m] = p => m = link[p]
    BY <1>t DEF LockInv
  <2>7. \A q \in Proc \ {p} : pc[q] \in Setting => link[q] # link[p]
    BY <1>t, <2>4 DEF LockInv
  <2> QED BY <1>t, <1>u, <2>2, <2>3, <2>4, <2>5, <2>6, <2>7 DEF LockInv, Setting, Searching
<1>f. ASSUME NEW p \in Proc, NEW c \in Content, FindLinks(p, c) PROVE LockInv'
  <2>1. /\ pc[p] = "idle" /\ UNCHANGED <<lock, link, found>>
        /\ val' = [val EXCEPT ![p] = c] /\ pc' = [pc EXCEPT ![p] = "read"]
    BY <1>f DEF FindLinks, Call, Goto, memory
  <2> QED BY <1>t, <2>1 DEF LockInv, Setting, Searching, Types, TypeOK
<1>g. ASSUME NEW p \in Proc, FindRead(p) PROVE LockInv'
  <2>1. /\ pc[p] = "read" /\ UNCHANGED <<lock, link, val, found>>
        /\ pc' = [pc EXCEPT ![p] = "check"]
    BY <1>g DEF FindRead, Goto, memory
  <2> QED BY <1>t, <2>1 DEF LockInv, Setting, Searching, Types, TypeOK
<1>h. ASSUME NEW p \in Proc, FindCheck(p) PROVE LockInv'
  <2>1. /\ pc[p] = "check" /\ UNCHANGED <<lock, link, val, pc>>
        /\ \A q \in Proc \ {p} : found'[q] = found[q]
    BY <1>t, <1>h DEF FindCheck, memory, Types, TypeOK
  <2> QED BY <1>t, <2>1 DEF LockInv
<1>i. ASSUME NEW p \in Proc, FindReturn(p) PROVE LockInv'
  <2>1. pc[p] = "check" /\ Return(p) /\ UNCHANGED lock
    BY <1>i DEF FindReturn, memory
  <2> QED BY <1>t, <2>1 DEF LockInv, Return, Setting, Searching, Types, TypeOK
<1>j. CASE SaveLock \/ SaveUnlock
  <2>1. UNCHANGED calls /\ \A l \in Link : \/ lock'[l] = lock[l]
                                           \/ lock[l] \notin Proc /\ lock'[l] \in {"saver", Null}
    BY <1>t, <1>j DEF SaveLock, SaveUnlock, Unlocked, Types, TypeOK
  <2> QED BY <1>t, <1>u, <2>1 DEF LockInv, calls
<1>k. CASE Crash \/ \E b \in BOOLEAN : Shutdown(b)
  <2>1. /\ \A l \in Link : lock'[l] = Null
        /\ \A p \in Proc : pc'[p] = "idle" /\ found'[p] = <<>>
    BY <1>k DEF Crash, Shutdown, Ended
  <2> QED BY <1>u, <2>1 DEF LockInv, Setting, Searching
<1> QED BY <1>b, <1>c, <1>d, <1>e, <1>f, <1>g, <1>h, <1>i, <1>j, <1>k DEF Action, Step, Save

\* Every step keeps the locks with the save.
LEMMA SaveNext ==
  ASSUME IInv, Action
  PROVE  SaveInv'
<1> USE LinkStoreAssumption
<1>t. Types /\ LockInv /\ SaveInv
  BY DEF IInv
<1>u. \A p \in Proc : p # Null /\ p # "saver"
  OBVIOUS
<1>v. Null # "saver"
  OBVIOUS
<1>a. ASSUME NEW p \in Proc, NEW l \in Link, up, lock[l] \in Proc \cup {Null}, UNCHANGED <<saver, up>>
      PROVE  SaveInv'
  BY <1>t, <1>u, <1>v, <1>a DEF SaveInv, AllLocked
<1>b. ASSUME NEW p \in Proc, up, UNCHANGED <<memory, saver, up, disk>> PROVE SaveInv'
  BY <1>t, <1>b DEF SaveInv, AllLocked, memory, disk
<1>c. CASE \/ \E p \in Proc, l \in Link : LinkNew(p, l) \/ ElementFree(p, l)
           \/ \E p \in Proc, l \in Link, c \in Content : SetLinkContent(p, l, c)
  <2>1. PICK p \in Proc, l \in Link : up /\ lock[l] = Null /\ UNCHANGED <<saver, up>>
    BY <1>c DEF LinkNew, ElementFree, SetLinkContent, Call
  <2> QED BY <1>a, <2>1
<1>d. ASSUME NEW p \in Proc, SetRemove(p) \/ SetWrite(p) \/ SetAppend(p) PROVE SaveInv'
  <2>1. up /\ pc[p] \in Setting /\ UNCHANGED <<saver, up>>
    BY <1>d DEF SetRemove, SetWrite, SetAppend, Setting
  <2>2. link[p] \in Link /\ lock[link[p]] \in Proc
    BY <1>t, <2>1 DEF LockInv
  <2> QED BY <1>a, <2>1, <2>2
<1>e. CASE \/ \E p \in Proc, c \in Content : FindLinks(p, c)
           \/ \E p \in Proc : FindRead(p) \/ FindCheck(p) \/ FindReturn(p)
  BY <1>b, <1>e DEF FindLinks, Call, FindRead, FindCheck, FindReturn
<1>f. CASE SaveBegin
  BY <1>f DEF SaveBegin, SaveInv
<1>g. CASE SaveLock
  BY <1>t, <1>g DEF SaveLock, SaveInv, AllLocked
<1>h. CASE SaveWrite
  BY <1>t, <1>h DEF SaveWrite, SaveInv, AllLocked, memory
<1>i. CASE SaveRename
  BY <1>t, <1>i DEF SaveRename, SaveInv, AllLocked, memory
<1>j. CASE SaveFlush
  BY <1>j DEF SaveFlush, SaveInv
<1>k. CASE SaveUnlock
  BY <1>k DEF SaveUnlock, SaveInv
<1>l. CASE Crash \/ \E b \in BOOLEAN : Shutdown(b)
  <2>1. /\ el' = NoElements /\ lock' = [l \in Link |-> Null] /\ saver' = "idle" /\ tmp' = Null
        /\ \A p \in Proc : pc'[p] = "idle"
    BY <1>l DEF Crash, Shutdown, Ended
  <2> QED BY <2>1 DEF SaveInv
<1>m. ASSUME NEW b \in BOOLEAN, Initialize(b) PROVE SaveInv'
  <2>1. ~up /\ up' /\ saver' = saver
    BY <1>m DEF Initialize
  <2> QED BY <1>t, <2>1 DEF SaveInv
<1> QED BY <1>c, <1>d, <1>e, <1>f, <1>g, <1>h, <1>i, <1>j, <1>k, <1>l, <1>m DEF Action, Step, Save

-----------------------------------------------------------------------------
\* The links and the file memory.

\* What a link's place in the invariant depends on in the file memory: how
\* often it is there.
LEMMA StagedBy ==
  ASSUME NEW l, NEW x, NEW w, NEW a, NEW s, NEW v, NEW b,
         \A c \in Content : Times(l, b[c]) = Times(l, a[c]),
         Staged(l, x, w, a, s, v)
  PROVE  Staged(l, x, w, b, s, v)
<1>1. Bare(l, a) => Bare(l, b)
  BY DEF Bare
<1>2. Fits(l, x, a) => Fits(l, x, b)
  BY LinkStoreAssumption DEF Fits, Content
<1> QED BY <1>1, <1>2 DEF Staged

\* A step that concerns client p and link l leaves the other links alone.
LEMMA OthersStaged ==
  ASSUME LinkInv, up, ~lost, NEW p, NEW l,
         \A m \in Link \ {l} : /\ el'[m] = el[m] /\ want'[m] = want[m] /\ lock'[m] = lock[m]
                               /\ lock[m] # p
                               /\ \A c \in Content : Times(m, addrs'[c]) = Times(m, addrs[c]),
         \A q \in Proc \ {p} : pc'[q] = pc[q] /\ val'[q] = val[q]
  PROVE  \A m \in Link \ {l} : Staged(m, el'[m], want'[m], addrs', Stage(m)', Coming(m)')
<1> SUFFICES ASSUME NEW m \in Link \ {l}
             PROVE  Staged(m, el'[m], want'[m], addrs', Stage(m)', Coming(m)')
  OBVIOUS
<1>1. Staged(m, el[m], want[m], addrs, Stage(m), Coming(m))
  BY DEF LinkInv
<1>2. Stage(m)' = Stage(m) /\ Coming(m)' = Coming(m)
  BY DEF Stage, Coming
<1>3. Staged(m, el[m], want[m], addrs', Stage(m), Coming(m))
  BY <1>1, StagedBy
<1> QED BY <1>2, <1>3

\* The removal of the address of a link that has a content: the check does not
\* fail, the link's own entry goes, and bytes go only with the last entry.
LEMMA Removed ==
  ASSUME Types, NEW l \in Link, NEW x \in Element, x.exists, ~x.blank, Fits(l, x, addrs),
         RefRemove(l, x.data)
  PROVE  /\ failed' = failed /\ raced \subseteq raced'
         /\ Bare(l, addrs')
         /\ \A m \in Link \ {l}, c \in Content : Times(m, addrs'[c]) = Times(m, addrs[c])
         /\ \A m \in Link, c \in Content : Times(m, addrs'[c]) > 0 => Times(m, addrs[c]) > 0
         /\ \A m \in Link, c \in Long : Times(m, addrs'[c]) > 0 /\ c \in bytes => c \in bytes'
         /\ \A q \in Proc : pc[q] = "append" /\ val[q] \in Long /\ val[q] \in bytes =>
              val[q] \in bytes' \/ link[q] \in raced'
<1> DEFINE d == x.data
<1>1. d \in Content
  BY DEF Fits, Shaped
<1>2. Times(l, addrs[d]) > 0
  <2>1. CASE d = Empty
    BY <2>1 DEF Fits
  <2>2. CASE d # Empty
    <3>1. Times(l, addrs[d]) = 1
      BY <1>1, <2>2 DEF Fits
    <3> QED BY <3>1
  <2> QED BY <2>1, <2>2
<1>3. addrs[d] \in Seq(Link) /\ addrs[d] # <<>> /\ d # Null
  <2>1. addrs[d] \in Seq(Link)
    BY <1>1 DEF Types
  <2> QED BY <1>1, <1>2, <2>1, TimesType, LinkStoreAssumption
<1>4. /\ addrs' = [addrs EXCEPT ![d] = Without(l, d)] /\ bytes' = Cleaned(l, d) /\ failed' = failed
      /\ raced' = IF d \in Long /\ Without(l, d) = <<>>
                  THEN raced \cup {link[p] : p \in {q \in Proc : pc[q] = "append" /\ val[q] = d}}
                  ELSE raced
  BY <1>3 DEF RefRemove
<1> HIDE DEF d
<1>5. \A c \in Content : addrs'[c] = IF c = d THEN Without(l, d) ELSE addrs[c]
  BY <1>1, <1>4 DEF Types
<1>6. /\ Without(l, d) \in Seq(Link)
      /\ \A m \in Link : m # l => Times(m, Without(l, d)) = Times(m, addrs[d])
      /\ Times(l, Without(l, d)) = Times(l, addrs[d]) - 1
  BY <1>1, <1>2, <1>3, TimesWithout
<1>7. Bare(l, addrs')
  <2> SUFFICES ASSUME NEW c \in Content \ {Empty} PROVE Times(l, addrs'[c]) = 0
    BY DEF Bare
  <2>1. Times(l, addrs[c]) = IF c = d THEN 1 ELSE 0
    BY DEF Fits, d
  <2> QED BY <1>5, <1>6, <2>1
<1>8. \A m \in Link \ {l}, c \in Content : Times(m, addrs'[c]) = Times(m, addrs[c])
  BY <1>5, <1>6
<1>9. \A m \in Link, c \in Content : Times(m, addrs'[c]) > 0 => Times(m, addrs[c]) > 0
  BY <1>2, <1>5, <1>8
<1>10. ASSUME NEW m \in Link, NEW c \in Long, Times(m, addrs'[c]) > 0, c \in bytes PROVE c \in bytes'
  <2>1. addrs'[c] # <<>>
    BY <1>10, TimesEmpty
  <2> QED BY <1>4, <1>5, <1>10, <2>1 DEF Cleaned, Content
<1>11. ASSUME NEW q \in Proc, pc[q] = "append", val[q] \in Long, val[q] \in bytes
       PROVE  val[q] \in bytes' \/ link[q] \in raced'
  <2>1. CASE val[q] \in bytes'
    BY <2>1
  <2>2. CASE val[q] \notin bytes'
    <3>1. val[q] = d /\ Without(l, d) = <<>>
      BY <1>4, <1>11, <2>2 DEF Cleaned
    <3>2. raced' = raced \cup {link[p] : p \in {r \in Proc : pc[r] = "append" /\ val[r] = d}}
      BY <1>4, <1>11, <3>1
    <3> QED BY <1>11, <3>1, <3>2
  <2> QED BY <2>1, <2>2
<1>12. failed' = failed /\ raced \subseteq raced'
  BY <1>4
<1> QED BY <1>7, <1>8, <1>9, <1>10, <1>11, <1>12

\* The stage of a link that a client has.
LEMMA StageOf ==
  ASSUME LockInv, NEW p \in Proc, pc[p] \in Setting
  PROVE  /\ link[p] \in Link /\ val[p] \in Content /\ lock[link[p]] = p
         /\ Stage(link[p]) = pc[p] /\ Coming(link[p]) = val[p]
         /\ \A m \in Link \ {link[p]} : lock[m] # p
<1>1. link[p] \in Link /\ val[p] \in Content /\ lock[link[p]] = p
  BY DEF LockInv
<1>2. Stage(link[p]) = pc[p] /\ Coming(link[p]) = val[p]
  BY <1>1 DEF Stage, Coming
<1>3. \A m \in Link : lock[m] = p => link[p] = m
  BY DEF LockInv
<1> QED BY <1>1, <1>2, <1>3

\* sc_storage_link_new
LEMMA LinkNewInv ==
  ASSUME IInv, NEW p \in Proc, NEW l \in Link, LinkNew(p, l)
  PROVE  LinkInv' /\ BytesInv' /\ (failed' => lost')
<1> USE LinkStoreAssumption
<1>t. Types /\ LockInv /\ LinkInv /\ BytesInv /\ (failed => lost)
  BY DEF IInv
<1>1. /\ up /\ ~el[l].exists /\ lock[l] = Null /\ el' = [el EXCEPT ![l] = NewElement]
      /\ want' = [want EXCEPT ![l] = Null] /\ raced' = raced \ {l}
      /\ UNCHANGED <<lock, addrs, bytes, pc, link, val, up, failed, lost>>
  BY DEF LinkNew, Call, db, calls
<1> SUFFICES ASSUME ~lost PROVE LinkInv' /\ BytesInv'
  BY <1>t, <1>1 DEF LinkInv, BytesInv
<1>2. Stage(l) = "settled"
  BY <1>1 DEF Stage
<1>3. \A c \in Content \ {Empty} : Times(l, addrs[c]) = 0
  <2>1. Fits(l, el[l], addrs)
    BY <1>t, <1>1, <1>2 DEF LinkInv, Staged
  <2> QED BY <1>1, <2>1 DEF Fits
<1>4. \A m \in Link : Stage(m)' = Stage(m) /\ Coming(m)' = Coming(m)
  BY <1>1 DEF Stage, Coming
<1>5. ASSUME NEW m \in Link PROVE Staged(m, el'[m], want'[m], addrs', Stage(m)', Coming(m)')
  <2>1. CASE m # l
    <3>1. el'[m] = el[m] /\ want'[m] = want[m]
      BY <1>t, <1>1, <2>1 DEF Types, TypeOK
    <3> QED BY <1>t, <1>1, <1>4, <3>1 DEF LinkInv
  <2>2. CASE m = l
    <3>1. /\ el'[l].exists /\ el'[l].data = Null /\ el'[l].blank /\ want'[l] = Null
      BY <1>t, <1>1 DEF Types, TypeOK, NewElement, NoElement
    <3>2. Null \notin Content
      OBVIOUS
    <3>3. Fits(l, el'[l], addrs')
      BY <1>1, <1>3, <3>1, <3>2 DEF Fits, Shaped, Content
    <3> QED BY <1>2, <1>4, <2>2, <3>1, <3>3 DEF Staged
  <2> QED BY <2>1, <2>2
<1>6. LinkInv'
  BY <1>5 DEF LinkInv
<1>7. \A m \in Link, c \in Long : Times(m, addrs[c]) > 0 => m # l
  BY <1>3 DEF Content
<1>8. \A q \in Proc : pc[q] = "append" => link[q] # l
  BY <1>t, <1>1 DEF LockInv, Setting
<1>9. BytesInv'
  BY <1>t, <1>1, <1>7, <1>8 DEF BytesInv
<1> QED BY <1>6, <1>9

\* sc_storage_element_free of a link
LEMMA ElementFreeInv ==
  ASSUME IInv, NEW p \in Proc, NEW l \in Link, ElementFree(p, l)
  PROVE  LinkInv' /\ BytesInv' /\ (failed' => lost')
<1> USE LinkStoreAssumption
<1>t. Types /\ LockInv /\ LinkInv /\ BytesInv /\ (failed => lost)
  BY DEF IInv
<1>1. /\ up /\ el[l].exists /\ lock[l] = Null /\ el' = [el EXCEPT ![l] = NoElement]
      /\ want' = [want EXCEPT ![l] = Null]
      /\ UNCHANGED <<lock, pc, link, val, up, lost>>
      /\ IF el[l].blank THEN UNCHANGED <<db, raced, failed>> ELSE RefRemove(l, el[l].data)
  BY DEF ElementFree, Call, calls, IsChecksumEmpty
<1> SUFFICES ASSUME ~lost PROVE LinkInv' /\ BytesInv' /\ ~failed'
  BY <1>1 DEF LinkInv, BytesInv
<1>2. Stage(l) = "settled"
  BY <1>1 DEF Stage
<1>3. Fits(l, el[l], addrs)
  BY <1>t, <1>1, <1>2 DEF LinkInv, Staged
<1>4. /\ failed' = failed /\ raced \subseteq raced' /\ Bare(l, addrs')
      /\ \A m \in Link \ {l}, c \in Content : Times(m, addrs'[c]) = Times(m, addrs[c])
      /\ \A m \in Link, c \in Content : Times(m, addrs'[c]) > 0 => Times(m, addrs[c]) > 0
      /\ \A m \in Link, c \in Long : Times(m, addrs'[c]) > 0 /\ c \in bytes => c \in bytes'
      /\ \A q \in Proc : pc[q] = "append" /\ val[q] \in Long /\ val[q] \in bytes =>
           val[q] \in bytes' \/ link[q] \in raced'
  <2>1. CASE el[l].blank
    <3>1. UNCHANGED <<addrs, bytes, raced, failed>>
      BY <1>1, <2>1 DEF db
    <3>2. el[l].data \notin Content \ {Empty}
      BY <1>3, <2>1 DEF Fits, Shaped
    <3>3. Bare(l, addrs')
      BY <1>3, <3>1, <3>2 DEF Fits, Bare
    <3> QED BY <3>1, <3>3
  <2>2. CASE ~el[l].blank
    <3>1. RefRemove(l, el[l].data) /\ el[l] \in Element
      BY <1>t, <1>1, <2>2 DEF Types, TypeOK
    <3> QED BY <1>t, <1>1, <1>3, <2>2, <3>1, Removed
  <2> QED BY <2>1, <2>2
<1>5. \A m \in Link : Stage(m)' = Stage(m) /\ Coming(m)' = Coming(m)
  BY <1>1 DEF Stage, Coming
<1>6. ASSUME NEW m \in Link PROVE Staged(m, el'[m], want'[m], addrs', Stage(m)', Coming(m)')
  <2>1. CASE m # l
    <3>1. el'[m] = el[m] /\ want'[m] = want[m]
      BY <1>t, <1>1, <2>1 DEF Types, TypeOK
    <3>2. Staged(m, el[m], want[m], addrs, Stage(m), Coming(m))
      BY <1>t, <1>1 DEF LinkInv
    <3>3. Staged(m, el[m], want[m], addrs', Stage(m), Coming(m))
      BY <1>4, <2>1, <3>2, StagedBy
    <3> QED BY <1>5, <3>1, <3>3
  <2>2. CASE m = l
    <3>1. ~el'[l].exists /\ el'[l].data = Null /\ el'[l].blank
      BY <1>t, <1>1 DEF Types, TypeOK, NoElement
    <3>2. Null \notin Content
      OBVIOUS
    <3>3. Fits(l, el'[l], addrs')
      BY <1>4, <3>1, <3>2 DEF Fits, Bare, Shaped, Content
    <3> QED BY <1>2, <1>5, <2>2, <3>1, <3>3 DEF Staged
  <2> QED BY <2>1, <2>2
<1>7. LinkInv'
  BY <1>6 DEF LinkInv
<1>8. BytesInv'
  <2>1. ASSUME NEW m \in Link, NEW c \in Long, Times(m, addrs'[c]) > 0 PROVE c \in bytes' \/ m \in raced'
    <3>1. Times(m, addrs[c]) > 0
      BY <1>4, <2>1 DEF Content
    <3>2. c \in bytes \/ m \in raced
      BY <1>t, <3>1 DEF BytesInv
    <3> QED BY <1>4, <2>1, <3>2
  <2>2. ASSUME NEW q \in Proc, pc'[q] = "append", val'[q] \in Long
        PROVE  val'[q] \in bytes' \/ link'[q] \in raced'
    <3>1. val[q] \in bytes \/ link[q] \in raced
      BY <1>t, <1>1, <2>2 DEF BytesInv
    <3> QED BY <1>1, <1>4, <2>2, <3>1
  <2> QED BY <2>1, <2>2 DEF BytesInv
<1> QED BY <1>t, <1>4, <1>7, <1>8

\* sc_storage_set_link_content: the link is locked.
LEMMA SetLinkContentInv ==
  ASSUME IInv, NEW p \in Proc, NEW l \in Link, NEW c \in Content, SetLinkContent(p, l, c)
  PROVE  LinkInv' /\ BytesInv' /\ (failed' => lost')
<1> USE LinkStoreAssumption
<1>t. Types /\ LockInv /\ LinkInv /\ BytesInv /\ (failed => lost)
  BY DEF IInv
<1>1. /\ up /\ pc[p] = "idle" /\ el[l].exists /\ lock[l] = Null /\ lock' = [lock EXCEPT ![l] = p]
      /\ link' = [link EXCEPT ![p] = l] /\ val' = [val EXCEPT ![p] = c]
      /\ pc' = [pc EXCEPT ![p] = IF el[l].blank THEN "write" ELSE "remove"]
      /\ UNCHANGED <<el, addrs, bytes, up, failed, want, raced, lost>>
  BY DEF SetLinkContent, Call, Goto, IsChecksumEmpty, db
<1> SUFFICES ASSUME ~lost PROVE LinkInv' /\ BytesInv'
  BY <1>t, <1>1 DEF LinkInv, BytesInv
<1>2. Fits(l, el[l], addrs)
  <2>1. Stage(l) = "settled"
    BY <1>1 DEF Stage
  <2> QED BY <1>t, <1>1, <2>1 DEF LinkInv, Staged
<1>3. /\ \A q \in Proc \ {p} : pc'[q] = pc[q] /\ val'[q] = val[q] /\ link'[q] = link[q]
      /\ \A m \in Link \ {l} : lock'[m] = lock[m]
      /\ lock'[l] = p /\ pc'[p] = IF el[l].blank THEN "write" ELSE "remove"
  BY <1>t, <1>1 DEF Types, TypeOK
<1>4. \A m \in Link : lock[m] # p
  BY <1>t, <1>1 DEF LockInv, Setting
<1>5. \A m \in Link \ {l} : Staged(m, el'[m], want'[m], addrs', Stage(m)', Coming(m)')
  BY <1>t, <1>1, <1>3, <1>4, OthersStaged
<1>6. Staged(l, el'[l], want'[l], addrs', Stage(l)', Coming(l)')
  <2>1. CASE el[l].blank
    <3>1. Stage(l)' = "write"
      BY <1>3, <2>1 DEF Stage
    <3>2. el[l].data \notin Content \ {Empty} /\ Shaped(el[l])
      BY <1>2, <2>1 DEF Fits, Shaped
    <3>3. Bare(l, addrs)
      BY <1>2, <3>2 DEF Fits, Bare
    <3> QED BY <1>1, <3>1, <3>2, <3>3 DEF Staged
  <2>2. CASE ~el[l].blank
    <3>1. Stage(l)' = "remove"
      BY <1>3, <2>2 DEF Stage
    <3>2. Shaped(el[l])
      BY <1>2 DEF Fits
    <3> QED BY <1>1, <1>2, <2>2, <3>1, <3>2 DEF Staged
  <2> QED BY <2>1, <2>2
<1>7. LinkInv'
  BY <1>5, <1>6 DEF LinkInv
<1>8. BytesInv'
  BY <1>t, <1>1, <1>3 DEF BytesInv
<1> QED BY <1>7, <1>8

\* ... its address is removed, ...
LEMMA SetRemoveInv ==
  ASSUME IInv, NEW p \in Proc, SetRemove(p)
  PROVE  LinkInv' /\ BytesInv' /\ (failed' => lost')
<1>t. Types /\ LockInv /\ LinkInv /\ BytesInv /\ (failed => lost)
  BY DEF IInv
<1>0. PICK l \in Link : l = link[p]
  BY <1>t DEF SetRemove, LockInv, Setting
<1>1. /\ up /\ pc[p] = "remove" /\ RefRemove(l, el[l].data) /\ pc' = [pc EXCEPT ![p] = "write"]
      /\ UNCHANGED <<el, lock, link, val, up, want, lost>>
  BY <1>0 DEF SetRemove, Goto, memory
<1> SUFFICES ASSUME ~lost PROVE LinkInv' /\ BytesInv' /\ ~failed'
  BY <1>1 DEF LinkInv, BytesInv
<1>2. /\ l \in Link /\ lock[l] = p /\ Stage(l) = "remove"
      /\ \A m \in Link \ {l} : lock[m] # p
  BY <1>t, <1>0, <1>1, StageOf DEF Setting
<1>3. Fits(l, el[l], addrs) /\ el[l].exists /\ ~el[l].blank /\ Shaped(el[l]) /\ el[l] \in Element
  BY <1>t, <1>1, <1>2 DEF LinkInv, Staged, Types, TypeOK
<1>4. /\ failed' = failed /\ raced \subseteq raced' /\ Bare(l, addrs')
      /\ \A m \in Link \ {l}, c \in Content : Times(m, addrs'[c]) = Times(m, addrs[c])
      /\ \A m \in Link, c \in Content : Times(m, addrs'[c]) > 0 => Times(m, addrs[c]) > 0
      /\ \A m \in Link, c \in Long : Times(m, addrs'[c]) > 0 /\ c \in bytes => c \in bytes'
      /\ \A q \in Proc : pc[q] = "append" /\ val[q] \in Long /\ val[q] \in bytes =>
           val[q] \in bytes' \/ link[q] \in raced'
  BY <1>t, <1>1, <1>2, <1>3, Removed
<1>5. pc'[p] = "write" /\ \A q \in Proc \ {p} : pc'[q] = pc[q] /\ val'[q] = val[q]
  BY <1>t, <1>1 DEF Types, TypeOK
<1>6. \A m \in Link \ {l} : Staged(m, el'[m], want'[m], addrs', Stage(m)', Coming(m)')
  BY <1>t, <1>1, <1>2, <1>4, <1>5, OthersStaged
<1>7. Staged(l, el'[l], want'[l], addrs', Stage(l)', Coming(l)')
  <2>1. Stage(l)' = "write"
    BY <1>1, <1>2, <1>5 DEF Stage
  <2> QED BY <1>1, <1>3, <1>4, <2>1 DEF Staged
<1>8. LinkInv'
  BY <1>6, <1>7 DEF LinkInv
<1>9. BytesInv'
  <2>1. ASSUME NEW m \in Link, NEW c \in Long, Times(m, addrs'[c]) > 0 PROVE c \in bytes' \/ m \in raced'
    <3>1. Times(m, addrs[c]) > 0
      BY <1>4, <2>1 DEF Content
    <3>2. c \in bytes \/ m \in raced
      BY <1>t, <3>1 DEF BytesInv
    <3> QED BY <1>4, <2>1, <3>2
  <2>2. ASSUME NEW q \in Proc, pc'[q] = "append", val'[q] \in Long
        PROVE  val'[q] \in bytes' \/ link'[q] \in raced'
    <3>1. q # p /\ pc[q] = "append" /\ val[q] \in Long
      BY <1>1, <1>5, <2>2
    <3>2. val[q] \in bytes \/ link[q] \in raced
      BY <1>t, <3>1 DEF BytesInv
    <3> QED BY <1>1, <1>4, <3>1, <3>2
  <2> QED BY <2>1, <2>2 DEF BytesInv
<1> QED BY <1>t, <1>4, <1>8, <1>9

\* ... the bytes are written, ...
LEMMA SetWriteInv ==
  ASSUME IInv, NEW p \in Proc, SetWrite(p)
  PROVE  LinkInv' /\ BytesInv' /\ (failed' => lost')
<1> USE LinkStoreAssumption
<1>t. Types /\ LockInv /\ LinkInv /\ BytesInv /\ (failed => lost)
  BY DEF IInv
<1>0. PICK l \in Link, v \in Content : l = link[p] /\ v = val[p]
  BY <1>t DEF SetWrite, LockInv, Setting
<1> DEFINE x == [exists |-> TRUE, self |-> TRUE, data |-> v, blank |-> el[l].blank /\ v = Empty]
<1>1. /\ up /\ pc[p] = "write" /\ pc' = [pc EXCEPT ![p] = "append"] /\ raced' = raced \ {l}
      /\ UNCHANGED <<lock, addrs, link, val, up, failed, want, lost>>
  BY <1>0 DEF SetWrite, Goto
<1>2. /\ v \in Long => bytes' = bytes \cup {v} /\ el' = [el EXCEPT ![l].self = FALSE]
      /\ v \in Short => bytes' = bytes /\ el' = [el EXCEPT ![l] = x]
  BY <1>0 DEF SetWrite, Written
<1> SUFFICES ASSUME ~lost PROVE LinkInv' /\ BytesInv'
  BY <1>t, <1>1 DEF LinkInv, BytesInv
<1>3. /\ l \in Link /\ v \in Content /\ lock[l] = p /\ Stage(l) = "write"
      /\ \A m \in Link \ {l} : lock[m] # p
  BY <1>t, <1>0, <1>1, StageOf DEF Setting
<1>4. Bare(l, addrs) /\ el[l].exists /\ Shaped(el[l]) /\ el[l] \in Element
  BY <1>t, <1>1, <1>3 DEF LinkInv, Staged, Types, TypeOK
<1>5. pc'[p] = "append" /\ \A q \in Proc \ {p} : pc'[q] = pc[q] /\ val'[q] = val[q]
  BY <1>t, <1>1 DEF Types, TypeOK
<1>6. /\ \A m \in Link \ {l} : el'[m] = el[m]
      /\ el'[l].exists /\ Shaped(el'[l]) /\ (v \in Short => el'[l].data = v /\ el'[l].self)
  <2>1. CASE v \in Long
    <3>1. \A m \in Link \ {l} : el'[m] = el[m]
      BY <1>t, <1>2, <1>3, <2>1 DEF Types, TypeOK
    <3>4. el'[l] = [el[l] EXCEPT !.self = FALSE]
      BY <1>t, <1>2, <1>3, <2>1 DEF Types, TypeOK
    <3>2. (el'[l].exists <=> el[l].exists) /\ el'[l].data = el[l].data /\ (el'[l].blank <=> el[l].blank)
      BY <1>4, <3>4 DEF Element
    <3>3. v \notin Short
      BY <2>1
    <3> QED BY <1>4, <3>1, <3>2, <3>3 DEF Shaped
  <2>2. CASE v \in Short
    <3>1. /\ \A m \in Link \ {l} : el'[m] = el[m]
          /\ el'[l] = x
      BY <1>t, <1>2, <1>3, <2>2 DEF Types, TypeOK
    <3>2. el'[l].exists /\ el'[l].data = v /\ el'[l].self
      BY <3>1
    <3>3. el'[l].blank => v = Empty
      <4>1. el'[l].blank = (el[l].blank /\ v = Empty)
        BY <3>1
      <4> QED BY <4>1
    <3> QED BY <1>3, <3>1, <3>2, <3>3 DEF Shaped
  <2> QED BY <1>3, <2>1, <2>2 DEF Content
<1>7. \A m \in Link \ {l} : Staged(m, el'[m], want'[m], addrs', Stage(m)', Coming(m)')
  BY <1>t, <1>1, <1>3, <1>5, <1>6, OthersStaged
<1>8. Staged(l, el'[l], want'[l], addrs', Stage(l)', Coming(l)')
  <2>1. Stage(l)' = "append" /\ Coming(l)' = v
    BY <1>0, <1>1, <1>3, <1>5 DEF Stage, Coming
  <2> QED BY <1>1, <1>4, <1>6, <2>1 DEF Staged
<1>9. LinkInv'
  BY <1>7, <1>8 DEF LinkInv
<1>10. BytesInv'
  <2>1. bytes \subseteq bytes'
    BY <1>2, <1>3 DEF Content
  <2>2. ASSUME NEW m \in Link, NEW c \in Long, Times(m, addrs'[c]) > 0 PROVE c \in bytes' \/ m \in raced'
    <3>1. Times(m, addrs[c]) > 0
      BY <1>1, <2>2
    <3>2. c \in Content \ {Empty}
      BY DEF Content
    <3>3. m # l
      BY <1>4, <3>1, <3>2 DEF Bare
    <3>4. c \in bytes \/ m \in raced
      BY <1>t, <3>1 DEF BytesInv
    <3> QED BY <1>1, <2>1, <3>3, <3>4
  <2>3. ASSUME NEW q \in Proc, pc'[q] = "append", val'[q] \in Long
        PROVE  val'[q] \in bytes' \/ link'[q] \in raced'
    <3>1. CASE q = p
      BY <1>0, <1>1, <1>2, <2>3, <3>1
    <3>2. CASE q # p
      <4>1. val[q] \in bytes \/ link[q] \in raced
        BY <1>t, <1>1, <1>5, <2>3, <3>2 DEF BytesInv
      <4>2. link[q] # l
        BY <1>t, <1>3, <1>5, <2>3, <3>2 DEF LockInv, Setting
      <4> QED BY <1>1, <2>1, <4>1, <4>2
    <3> QED BY <3>1, <3>2
  <2> QED BY <2>2, <2>3 DEF BytesInv
<1> QED BY <1>9, <1>10

\* ... and the address is entered.
LEMMA SetAppendInv ==
  ASSUME IInv, NEW p \in Proc, SetAppend(p)
  PROVE  LinkInv' /\ BytesInv' /\ (failed' => lost')
<1> USE LinkStoreAssumption
<1>t. Types /\ LockInv /\ LinkInv /\ BytesInv /\ (failed => lost)
  BY DEF IInv
<1>0. PICK l \in Link, v \in Content : l = link[p] /\ v = val[p]
  BY <1>t DEF SetAppend, LockInv, Setting
<1>1. /\ up /\ pc[p] = "append" /\ addrs' = [addrs EXCEPT ![v] = Append(@, l)]
      /\ want' = [want EXCEPT ![l] = v] /\ lock' = [lock EXCEPT ![l] = Null]
      /\ Return(p)
      /\ UNCHANGED <<bytes, up, failed, raced, lost>>
  BY <1>0 DEF SetAppend, Appended
<1>2. el' = IF v \in Long THEN [el EXCEPT ![l].data = v, ![l].blank = FALSE] ELSE el
  BY <1>0 DEF SetAppend
<1> SUFFICES ASSUME ~lost PROVE LinkInv' /\ BytesInv'
  BY <1>t, <1>1 DEF LinkInv, BytesInv
<1>3. /\ l \in Link /\ v \in Content /\ lock[l] = p /\ Stage(l) = "append" /\ Coming(l) = v
      /\ \A m \in Link \ {l} : lock[m] # p
  BY <1>t, <1>0, <1>1, StageOf DEF Setting
<1>4. /\ Bare(l, addrs) /\ el[l].exists /\ Shaped(el[l]) /\ el[l] \in Element
      /\ v \in Short => el[l].data = v /\ el[l].self
  BY <1>t, <1>1, <1>3 DEF LinkInv, Staged, Types, TypeOK
<1>5. /\ pc'[p] = "idle"
      /\ \A q \in Proc \ {p} : pc'[q] = pc[q] /\ val'[q] = val[q] /\ link'[q] = link[q]
  BY <1>t, <1>1 DEF Types, TypeOK, Return
<1>6. /\ \A m \in Link \ {l} : el'[m] = el[m]
      /\ el'[l].exists /\ el'[l].data = v /\ Shaped(el'[l]) /\ (v \in Short => el'[l].self)
  <2>1. CASE v \in Long
    <3>1. el' = [el EXCEPT ![l].data = v, ![l].blank = FALSE]
      BY <1>2, <2>1
    <3>2. el' = [el EXCEPT ![l] = [[@ EXCEPT !.data = v] EXCEPT !.blank = FALSE]]
      BY <1>t, <1>3, <3>1 DEF Types, TypeOK, Element
    <3>3. /\ \A m \in Link \ {l} : el'[m] = el[m]
          /\ el'[l] = [[el[l] EXCEPT !.data = v] EXCEPT !.blank = FALSE]
      BY <1>t, <1>3, <3>2 DEF Types, TypeOK
    <3>4. el'[l].exists = el[l].exists /\ el'[l].data = v /\ ~el'[l].blank
      BY <1>4, <3>3 DEF Element
    <3>5. v \notin Short
      BY <2>1
    <3> QED BY <1>3, <1>4, <3>3, <3>4, <3>5 DEF Shaped
  <2>2. CASE v \notin Long
    BY <1>2, <1>3, <1>4, <2>2 DEF Content
  <2> QED BY <2>1, <2>2
<1>7. /\ lock'[l] = Null /\ want'[l] = v
      /\ \A m \in Link \ {l} : lock'[m] = lock[m] /\ want'[m] = want[m]
  BY <1>t, <1>1, <1>3 DEF Types, TypeOK
<1>8. \A c \in Content : addrs'[c] = IF c = v THEN Append(addrs[v], l) ELSE addrs[c]
  BY <1>t, <1>1, <1>3 DEF Types
<1>9. \A m \in Link, c \in Content : /\ Times(m, addrs[c]) \in Nat
                                     /\ Times(m, addrs'[c]) = IF c = v /\ m = l
                                                              THEN Times(m, addrs[c]) + 1 ELSE Times(m, addrs[c])
  <2> SUFFICES ASSUME NEW m \in Link, NEW c \in Content
               PROVE  /\ Times(m, addrs[c]) \in Nat
                      /\ Times(m, addrs'[c]) = IF c = v /\ m = l
                                               THEN Times(m, addrs[c]) + 1 ELSE Times(m, addrs[c])
    OBVIOUS
  <2>1. addrs[c] \in Seq(Link)
    BY <1>t DEF Types
  <2>2. Times(m, addrs[c]) \in Nat
    BY <2>1, TimesType
  <2>3. Times(m, Append(addrs[c], l)) = Times(m, addrs[c]) + Same(m, l)
    BY <1>3, <2>1, TimesAppend
  <2> QED BY <1>8, <2>2, <2>3 DEF Same
<1>10. \A m \in Link \ {l} : Staged(m, el'[m], want'[m], addrs', Stage(m)', Coming(m)')
  <2>1. \A m \in Link \ {l} : /\ el'[m] = el[m] /\ want'[m] = want[m] /\ lock'[m] = lock[m]
                                /\ lock[m] # p
                                /\ \A c \in Content : Times(m, addrs'[c]) = Times(m, addrs[c])
    BY <1>3, <1>6, <1>7, <1>9
  <2>2. \A q \in Proc \ {p} : pc'[q] = pc[q] /\ val'[q] = val[q]
    BY <1>5
  <2> QED BY <1>t, <1>1, <2>1, <2>2, OthersStaged
<1>11. Staged(l, el'[l], want'[l], addrs', Stage(l)', Coming(l)')
  <2>1. Stage(l)' = "settled"
    BY <1>7 DEF Stage
  <2>2. \A c \in Content \ {Empty} : Times(l, addrs'[c]) = IF el'[l].exists /\ el'[l].data = c THEN 1 ELSE 0
    BY <1>3, <1>4, <1>6, <1>9 DEF Bare
  <2>3. v = Empty => Times(l, addrs'[Empty]) > 0
    BY <1>3, <1>9
  <2>4. Fits(l, el'[l], addrs')
    BY <1>6, <2>2, <2>3 DEF Fits
  <2> QED BY <1>6, <1>7, <2>1, <2>4 DEF Staged
<1>12. LinkInv'
  BY <1>10, <1>11 DEF LinkInv
<1>13. BytesInv'
  <2>1. v \in Long => v \in bytes \/ l \in raced
    BY <1>t, <1>0, <1>1 DEF BytesInv
  <2>2. ASSUME NEW m \in Link, NEW c \in Long, Times(m, addrs'[c]) > 0 PROVE c \in bytes' \/ m \in raced'
    <3>1. CASE c = v /\ m = l
      BY <1>1, <2>1, <3>1
    <3>2. CASE ~(c = v /\ m = l)
      <4>1. Times(m, addrs[c]) > 0
        BY <1>9, <2>2, <3>2 DEF Content
      <4> QED BY <1>t, <1>1, <4>1 DEF BytesInv
    <3> QED BY <3>1, <3>2
  <2>3. ASSUME NEW q \in Proc, pc'[q] = "append", val'[q] \in Long
        PROVE  val'[q] \in bytes' \/ link'[q] \in raced'
    BY <1>t, <1>1, <1>5, <2>3 DEF BytesInv
  <2> QED BY <2>2, <2>3 DEF BytesInv
<1> QED BY <1>12, <1>13

\* Steps of searches and saves change no link; what is locked by a save is
\* settled.
LEMMA OtherInv ==
  ASSUME IInv, up, UNCHANGED <<el, addrs, bytes, up, failed, want, raced, lost>>,
         \/ /\ UNCHANGED lock
            /\ \A q \in Proc : /\ pc[q] \in Setting \/ pc'[q] \in Setting =>
                                    pc'[q] = pc[q] /\ val'[q] = val[q] /\ link'[q] = link[q]
         \/ /\ UNCHANGED <<pc, val, link>>
            /\ \A m \in Link : lock'[m] = lock[m] \/ (lock[m] \notin Proc /\ lock'[m] \notin Proc)
  PROVE  LinkInv' /\ BytesInv' /\ (failed' => lost')
<1>t. Types /\ LockInv /\ LinkInv /\ BytesInv /\ (failed => lost)
  BY DEF IInv
<1>1. \A m \in Link : Stage(m)' = Stage(m) /\ Coming(m)' = Coming(m)
  <2>1. CASE UNCHANGED lock /\ \A q \in Proc : pc[q] \in Setting =>
                                  pc'[q] = pc[q] /\ val'[q] = val[q]
    BY <1>t, <2>1 DEF Stage, Coming, LockInv
  <2>2. CASE /\ UNCHANGED <<pc, val>>
             /\ \A m \in Link : lock'[m] = lock[m] \/ (lock[m] \notin Proc /\ lock'[m] \notin Proc)
    BY <2>2 DEF Stage, Coming
  <2> QED BY <2>1, <2>2
<1>2. LinkInv'
  BY <1>t, <1>1 DEF LinkInv
<1>3. \A q \in Proc : pc'[q] = "append" => pc[q] = "append" /\ val'[q] = val[q] /\ link'[q] = link[q]
  BY DEF Setting
<1>4. BytesInv'
  BY <1>t, <1>3 DEF BytesInv
<1> QED BY <1>t, <1>2, <1>4

\* The end of the process.
LEMMA EndedInv ==
  ASSUME IInv, Ended
  PROVE  LinkInv' /\ BytesInv' /\ (failed' => lost')
<1>1. ~up' /\ UNCHANGED <<addrs, bytes, failed, raced, lost>> /\ \A q \in Proc : pc'[q] = "idle"
  BY DEF Ended, db
<1> QED BY <1>1 DEF IInv, LinkInv, BytesInv

\* sc_storage_initialize: what is loaded agrees with the file memory, unless
\* the file memory has gone on since.
LEMMA InitializeInv ==
  ASSUME IInv, NEW b \in BOOLEAN, Initialize(b)
  PROVE  LinkInv' /\ BytesInv' /\ (failed' => lost')
<1> USE LinkStoreAssumption
<1>t. Types /\ SaveInv /\ BytesInv /\ FileInv /\ (failed => lost)
  BY DEF IInv
<1>1. /\ ~up /\ want' = [l \in Link |-> el'[l].data] /\ UNCHANGED <<lock, pc, link, val>>
  BY DEF Initialize, calls
<1>2. el = NoElements /\ (\A l \in Link : lock[l] = Null) /\ \A p \in Proc : pc[p] = "idle"
  BY <1>t, <1>1 DEF SaveInv
<1>3. \A l \in Link : Stage(l)' = "settled"
  BY <1>1, <1>2 DEF Stage
<1>4. \A l \in Link : Fits(l, NoElement, NoAddrs) /\ \A c \in Content : Times(l, NoAddrs[c]) = 0
  <2> SUFFICES ASSUME NEW l \in Link
               PROVE  Fits(l, NoElement, NoAddrs) /\ \A c \in Content : Times(l, NoAddrs[c]) = 0
    OBVIOUS
  <2>1. \A c \in Content : Times(l, NoAddrs[c]) = 0
    BY TimesEmpty DEF NoAddrs
  <2>2. NoElement.blank /\ NoElement.data = Null /\ ~NoElement.exists /\ Null \notin Content
    BY DEF NoElement
  <2> QED BY <2>1, <2>2 DEF Fits, Shaped, Content
<1>5. ASSUME ~lost' PROVE \A l \in Link : Fits(l, el'[l], addrs')
  <2>1. CASE b
    <3>1. el' = el /\ addrs' = NoAddrs
      BY <2>1 DEF Initialize
    <3> QED BY <1>2, <1>4, <3>1 DEF NoElements
  <2>2. CASE ~b
    <3>1. el' = Loaded /\ ~lost /\ <<addrs, bytes>> = atSave /\ addrs' = addrs
      BY <1>5, <2>2 DEF Initialize, db
    <3>2. atSave[1] = addrs
      BY <3>1
    <3>3. CASE file = Null
      <4>1. addrs = NoAddrs /\ el' = NoElements
        BY <1>t, <3>1, <3>2, <3>3 DEF FileInv, Loaded
      <4> QED BY <1>4, <3>1, <4>1 DEF NoElements
    <3>4. CASE file # Null
      <4>1. el' = file
        BY <3>1, <3>4 DEF Loaded
      <4> QED BY <1>t, <3>1, <3>2, <3>4, <4>1 DEF FileInv
    <3> QED BY <3>3, <3>4
  <2> QED BY <2>1, <2>2
<1>6. LinkInv'
  <2> SUFFICES ASSUME ~lost', NEW l \in Link
               PROVE  Staged(l, el'[l], want'[l], addrs', Stage(l)', Coming(l)')
    BY DEF LinkInv
  <2>1. want'[l] = el'[l].data
    BY <1>1
  <2> QED BY <1>3, <1>5, <2>1 DEF Staged
<1>7. BytesInv'
  <2>1. CASE b
    <3>1. addrs' = NoAddrs
      BY <2>1 DEF Initialize
    <3>2. \A l \in Link, c \in Long : ~(Times(l, addrs'[c]) > 0)
      BY <1>4, <3>1 DEF Content
    <3> QED BY <1>1, <1>2, <3>2 DEF BytesInv
  <2>2. CASE ~b
    <3>1. (lost => lost') /\ UNCHANGED <<addrs, bytes, raced>>
      BY <2>2 DEF Initialize, db
    <3> QED BY <1>t, <1>1, <1>2, <3>1 DEF BytesInv
  <2> QED BY <2>1, <2>2
<1>8. failed' => lost'
  BY <1>t DEF Initialize
<1> QED BY <1>6, <1>7, <1>8

\* Every step keeps the links with the file memory.
LEMMA LinkNext ==
  ASSUME IInv, Action
  PROVE  LinkInv' /\ BytesInv' /\ (failed' => lost')
<1>t. Types
  BY DEF IInv
<1>a. ASSUME NEW p \in Proc, NEW c \in Content, FindLinks(p, c) PROVE LinkInv' /\ BytesInv' /\ (failed' => lost')
  <2>1. /\ up /\ UNCHANGED <<el, lock, addrs, bytes, up, failed, want, raced, lost, link>> /\ pc[p] = "idle"
        /\ pc' = [pc EXCEPT ![p] = "read"] /\ val' = [val EXCEPT ![p] = c]
    BY <1>a DEF FindLinks, Call, Goto, memory, db
  <2>2. \A q \in Proc : pc[q] \in Setting \/ pc'[q] \in Setting =>
          pc'[q] = pc[q] /\ val'[q] = val[q] /\ link'[q] = link[q]
    BY <1>t, <2>1 DEF Types, TypeOK, Setting
  <2> QED BY <2>1, <2>2, OtherInv
<1>b. ASSUME NEW p \in Proc, FindRead(p) \/ FindCheck(p) \/ FindReturn(p)
      PROVE  LinkInv' /\ BytesInv' /\ (failed' => lost')
  <2>1. /\ up /\ UNCHANGED <<el, lock, addrs, bytes, up, failed, want, raced, lost>>
    BY <1>b DEF FindRead, FindCheck, FindReturn, memory, db
  <2>2. \A q \in Proc : pc[q] \in Setting \/ pc'[q] \in Setting =>
          pc'[q] = pc[q] /\ val'[q] = val[q] /\ link'[q] = link[q]
    BY <1>t, <1>b DEF Types, TypeOK, FindRead, FindCheck, FindReturn, Goto, Return, Setting
  <2> QED BY <2>1, <2>2, OtherInv
<1>c. CASE SaveBegin \/ Save
  <2>1. /\ up /\ UNCHANGED <<el, addrs, bytes, up, failed, want, raced, lost, pc, val, link>>
    BY <1>c DEF SaveBegin, Save, SaveLock, SaveWrite, SaveRename, SaveFlush, SaveUnlock, memory, db, calls
  <2>2. \A m \in Link : lock'[m] = lock[m] \/ (lock[m] \notin Proc /\ lock'[m] \notin Proc)
    BY <1>t, <1>c, LinkStoreAssumption
    DEF SaveBegin, Save, SaveLock, SaveWrite, SaveRename, SaveFlush, SaveUnlock, Unlocked, memory, Types, TypeOK
  <2> QED BY <2>1, <2>2, OtherInv
<1>d. CASE Crash \/ \E b \in BOOLEAN : Shutdown(b)
  BY <1>d, EndedInv DEF Crash, Shutdown
<1> QED BY <1>a, <1>b, <1>c, <1>d, LinkNewInv, ElementFreeInv, SetLinkContentInv, SetRemoveInv, SetWriteInv,
           SetAppendInv, InitializeInv DEF Action, Step

\* Every step keeps the files with the file memory of their time.
LEMMA FileNext ==
  ASSUME IInv, Action
  PROVE  FileInv'
<1> USE LinkStoreAssumption
<1>t. Types /\ LockInv /\ SaveInv /\ LinkInv /\ FileInv
  BY DEF IInv
<1>a. ASSUME \A l \in Link : lock[l] \notin Proc, up, el # Null,
             UNCHANGED lost, file' = el, atSave' = db
      PROVE  FileInv'
  <2>1. ~lost => \A l \in Link : Fits(l, el[l], addrs)
    BY <1>t, <1>a DEF LinkInv, Staged, Stage
  <2>2. atSave'[1] = addrs
    BY <1>a DEF db
  <2> QED BY <1>a, <2>1, <2>2 DEF FileInv
<1>b. el # Null
  BY <1>t DEF Types, TypeOK
<1>c. ASSUME UNCHANGED <<file, atSave, lost>> PROVE FileInv'
  BY <1>t, <1>c DEF FileInv
<1>d. CASE SaveRename
  <2>1. up /\ UNCHANGED lost /\ file' = tmp /\ atSave' = db /\ tmp = el /\ AllLocked
    BY <1>t, <1>d DEF SaveRename, SaveInv
  <2>2. \A l \in Link : lock[l] \notin Proc
    BY <2>1 DEF AllLocked
  <2> QED BY <1>a, <1>b, <2>1, <2>2
<1>e. ASSUME NEW b \in BOOLEAN, Shutdown(b) PROVE FileInv'
  <2>1. up /\ UNCHANGED lost /\ \A p \in Proc : pc[p] = "idle"
    BY <1>e DEF Shutdown, Ended
  <2>2. \A l \in Link : lock[l] \notin Proc
    BY <1>t, <2>1 DEF LockInv, Setting
  <2>3. (file' = el /\ atSave' = db) \/ UNCHANGED <<file, atSave>>
    BY <1>e DEF Shutdown
  <2> QED BY <1>a, <1>b, <1>c, <2>1, <2>2, <2>3
<1>f. ASSUME NEW b \in BOOLEAN, Initialize(b) PROVE FileInv'
  <2>1. CASE b
    <3>1. file' = Null /\ atSave' = <<NoAddrs, {}>>
      BY <1>f, <2>1 DEF Initialize
    <3> QED BY <3>1 DEF FileInv
  <2>2. CASE ~b
    <3>1. (lost => lost') /\ UNCHANGED <<file, atSave>>
      BY <1>f, <2>2 DEF Initialize
    <3> QED BY <1>t, <3>1 DEF FileInv
  <2> QED BY <2>1, <2>2
<1>g. CASE \/ \E p \in Proc, l \in Link : LinkNew(p, l) \/ ElementFree(p, l)
           \/ \E p \in Proc, l \in Link, c \in Content : SetLinkContent(p, l, c)
           \/ \E p \in Proc, c \in Content : FindLinks(p, c)
           \/ \E p \in Proc : Step(p)
  <2>1. UNCHANGED <<file, atSave, lost>>
    BY <1>g DEF LinkNew, ElementFree, SetLinkContent, FindLinks, Step, SetRemove, SetWrite, SetAppend,
                FindRead, FindCheck, FindReturn, disk
  <2> QED BY <1>c, <2>1
<1>h. CASE SaveBegin \/ SaveLock \/ SaveWrite \/ SaveFlush \/ SaveUnlock \/ Crash
  <2>1. UNCHANGED <<file, atSave, lost>>
    BY <1>h DEF SaveBegin, SaveLock, SaveWrite, SaveFlush, SaveUnlock, Crash, Ended, disk
  <2> QED BY <1>c, <2>1
<1> QED BY <1>d, <1>e, <1>f, <1>g, <1>h DEF Action, Save

-----------------------------------------------------------------------------
\* Searches.

\* The members of a sequence of addresses.
LEMMA RangeAppend ==
  ASSUME NEW s \in Seq(Link), NEW l \in Link
  PROVE  Range(Append(s, l)) = Range(s) \cup {l}
<1> DEFINE t == Append(s, l)
<1>1. /\ DOMAIN t = 1..(Len(s) + 1) /\ DOMAIN s = 1..Len(s) /\ Len(s) \in Nat
      /\ t[Len(s) + 1] = l /\ \A n \in 1..Len(s) : t[n] = s[n]
  OBVIOUS
<1> HIDE DEF t
<1>2. \A n \in DOMAIN t : n \in DOMAIN s \/ n = Len(s) + 1
  BY <1>1
<1>3. Range(t) = Range(s) \cup {l}
  BY <1>1, <1>2 DEF Range
<1> QED BY <1>3 DEF t

LEMMA RangeTail ==
  ASSUME NEW s \in Seq(Link), s # <<>>
  PROVE  Tail(s) \in Seq(Link) /\ Head(s) \in Link /\ Range(s) = Range(Tail(s)) \cup {Head(s)}
<1> DEFINE t == Tail(s)
<1>1. /\ t \in Seq(Link) /\ Len(s) \in Nat /\ Len(s) > 0
      /\ DOMAIN t = 1..(Len(s) - 1) /\ DOMAIN s = 1..Len(s)
      /\ Head(s) = s[1] /\ \A n \in 1..(Len(s) - 1) : t[n] = s[n + 1]
  OBVIOUS
<1>2. Head(s) \in Link
  BY <1>1
<1> HIDE DEF t
<1>3. \A n \in DOMAIN t : n + 1 \in DOMAIN s
  BY <1>1
<1>4. \A n \in DOMAIN s : n = 1 \/ (n - 1 \in DOMAIN t /\ t[n - 1] = s[n])
  BY <1>1
<1>5. Range(t) \cup {s[1]} \subseteq Range(s)
  BY <1>1, <1>3 DEF Range
<1>6. ASSUME NEW x \in Range(s) PROVE x \in Range(t) \cup {s[1]}
  <2>1. PICK n \in DOMAIN s : s[n] = x
    BY DEF Range
  <2>2. CASE n = 1
    BY <2>1, <2>2
  <2>3. CASE n # 1
    BY <1>4, <2>1, <2>3 DEF Range
  <2> QED BY <2>2, <2>3
<1>7. Range(s) = Range(t) \cup {s[1]}
  BY <1>5, <1>6
<1> QED BY <1>1, <1>2, <1>7 DEF t

\* What sc_fm_find returns, against the elements.
LEMMA EntriesExact ==
  ASSUME IInv, up, ~lost, NEW c \in Content
  PROVE  Settled[c] \subseteq Range(addrs[c]) /\ (c # Empty => Range(addrs[c]) \subseteq Having[c])
<1>t. Types /\ LockInv /\ LinkInv
  BY DEF IInv
<1>1. addrs[c] \in Seq(Link)
  BY <1>t DEF Types
<1>2. \A l : Times(l, addrs[c]) > 0 <=> l \in Range(addrs[c])
  BY <1>1, TimesType
<1>3. Range(addrs[c]) \subseteq Link
  BY <1>1 DEF Range
<1>4. ASSUME NEW l \in Settled[c] PROVE l \in Range(addrs[c])
  <2>1. l \in Link /\ el[l].exists /\ el[l].data = c /\ lock[l] \notin Proc
    BY DEF Settled, Having
  <2>2. Fits(l, el[l], addrs)
    BY <1>t, <2>1 DEF LinkInv, Staged, Stage
  <2>3. Times(l, addrs[c]) > 0
    <3>1. CASE c = Empty
      BY <2>1, <2>2, <3>1 DEF Fits
    <3>2. CASE c # Empty
      <4>1. Times(l, addrs[c]) = 1
        BY <2>1, <2>2, <3>2 DEF Fits
      <4> QED BY <4>1
    <3> QED BY <3>1, <3>2
  <2> QED BY <1>2, <2>3
<1>5. ASSUME c # Empty, NEW l \in Range(addrs[c]) PROVE l \in Having[c]
  <2>1. l \in Link /\ Times(l, addrs[c]) > 0
    BY <1>2, <1>3
  <2>2. Staged(l, el[l], want[l], addrs, Stage(l), Coming(l))
    BY <1>t, <2>1 DEF LinkInv
  <2>3. Stage(l) \in Setting \cup {"settled"}
    BY <1>t, <2>1 DEF LockInv, Stage
  <2>4. ~Bare(l, addrs)
    BY <1>5, <2>1 DEF Bare
  <2>5. Fits(l, el[l], addrs)
    BY <2>2, <2>3, <2>4 DEF Staged, Setting
  <2>6. Times(l, addrs[c]) = IF el[l].exists /\ el[l].data = c THEN 1 ELSE 0
    BY <1>5, <2>5 DEF Fits
  <2>7. el[l].exists /\ el[l].data = c
    BY <2>1, <2>6
  <2> QED BY <2>1, <2>7 DEF Having
<1> QED BY <1>4, <1>5

\* A search, in a step: it begins, goes on, reads the addresses, or takes one.
Began(p) == pc[p] = "idle" /\ pc'[p] = "read"
Went(p) == pc[p] \in Searching /\ val'[p] = val[p]
Waited(p) == Went(p) /\ pc'[p] = pc[p] /\ left'[p] = left[p] /\ found'[p] = found[p]
Read(p) == /\ Went(p) /\ pc[p] = "read" /\ pc'[p] = "check" /\ left'[p] = addrs[val[p]]
           /\ found'[p] = found[p]
Took(p) == /\ Went(p) /\ pc[p] = "check" /\ pc'[p] = "check" /\ left[p] # <<>>
           /\ left'[p] = Tail(left[p]) /\ found'[p] = Append(found[p], Head(left[p]))

LEMMA SearchSteps ==
  ASSUME IInv, Action, NEW p \in Proc, pc'[p] \in Searching
  PROVE  /\ up /\ up' /\ lost' = lost
         /\ Began(p) \/ Waited(p) \/ Read(p) \/ Took(p)
<1>t. Types /\ SaveInv
  BY DEF IInv
<1>b. CASE \/ \E q \in Proc, l \in Link : LinkNew(q, l) \/ ElementFree(q, l)
           \/ SaveBegin \/ Save
  <2>1. up /\ UNCHANGED <<pc, val, left, found, up, lost>>
    BY <1>b DEF LinkNew, ElementFree, Call, SaveBegin, Save, SaveLock, SaveWrite, SaveRename, SaveFlush,
                SaveUnlock, calls
  <2> QED BY <2>1 DEF Waited, Went
<1>c. ASSUME NEW q \in Proc, NEW l \in Link, NEW c \in Content, SetLinkContent(q, l, c)
      PROVE  up /\ up' /\ lost' = lost /\ Waited(p)
  <2>1. /\ up /\ UNCHANGED <<left, found, up, lost>> /\ val' = [val EXCEPT ![q] = c]
        /\ \E s \in {"write", "remove"} : pc' = [pc EXCEPT ![q] = s]
    BY <1>c DEF SetLinkContent, Call, Goto
  <2> QED BY <1>t, <2>1 DEF Types, TypeOK, Waited, Went, Searching
<1>d. ASSUME NEW q \in Proc, NEW c \in Content, FindLinks(q, c)
      PROVE  up /\ up' /\ lost' = lost /\ (Began(p) \/ Waited(p))
  <2>1. /\ up /\ UNCHANGED <<left, found, up, lost>> /\ val' = [val EXCEPT ![q] = c]
        /\ pc[q] = "idle" /\ pc' = [pc EXCEPT ![q] = "read"]
    BY <1>d DEF FindLinks, Call, Goto
  <2> QED BY <1>t, <2>1 DEF Types, TypeOK, Began, Waited, Went, Searching
<1>e. ASSUME NEW q \in Proc, SetRemove(q) \/ SetWrite(q) PROVE up /\ up' /\ lost' = lost /\ Waited(p)
  <2>1. /\ up /\ UNCHANGED <<left, found, val, up, lost>>
        /\ \E s \in {"write", "append"} : pc' = [pc EXCEPT ![q] = s]
    BY <1>e DEF SetRemove, SetWrite, Goto
  <2> QED BY <1>t, <2>1 DEF Types, TypeOK, Waited, Went, Searching
<1>f. ASSUME NEW q \in Proc, SetAppend(q) \/ FindReturn(q) PROVE up /\ up' /\ lost' = lost /\ Waited(p)
  <2>1. up /\ UNCHANGED <<up, lost>> /\ Return(q)
    BY <1>f DEF SetAppend, FindReturn
  <2>2. pc' = [pc EXCEPT ![q] = "idle"] /\ p # q
    BY <1>t, <2>1 DEF Return, Types, TypeOK, Searching
  <2>3. val'[p] = val[p] /\ left'[p] = left[p] /\ found'[p] = found[p] /\ pc'[p] = pc[p]
    BY <1>t, <2>1, <2>2 DEF Return, Types, TypeOK
  <2> QED BY <2>1, <2>3 DEF Waited, Went
<1>g. ASSUME NEW q \in Proc, FindRead(q) PROVE up /\ up' /\ lost' = lost /\ (Waited(p) \/ Read(p))
  <2>1. /\ up /\ UNCHANGED <<found, val, up, lost>> /\ pc[q] = "read" /\ pc' = [pc EXCEPT ![q] = "check"]
        /\ left' = [left EXCEPT ![q] = addrs[val[q]]]
    BY <1>g DEF FindRead, Goto, Entries
  <2> QED BY <1>t, <2>1 DEF Types, TypeOK, Waited, Read, Went, Searching
<1>h. ASSUME NEW q \in Proc, FindCheck(q) PROVE up /\ up' /\ lost' = lost /\ (Waited(p) \/ Took(p))
  <2>1. /\ up /\ UNCHANGED <<pc, val, up, lost>> /\ pc[q] = "check" /\ left[q] # <<>>
        /\ left' = [left EXCEPT ![q] = Tail(@)]
        /\ found' = [found EXCEPT ![q] = Append(@, Head(left[q]))]
    BY <1>h DEF FindCheck
  <2> QED BY <1>t, <2>1 DEF Types, TypeOK, Waited, Took, Went, Searching
<1>i. CASE Crash \/ \E b \in BOOLEAN : Shutdown(b)
  <2>1. pc'[p] = "idle"
    BY <1>i DEF Crash, Shutdown, Ended
  <2> QED BY <2>1 DEF Searching
<1>j. CASE \E b \in BOOLEAN : Initialize(b)
  <2>1. ~up /\ pc' = pc
    BY <1>j DEF Initialize, calls
  <2> QED BY <1>t, <2>1 DEF SaveInv, Searching
<1> QED BY <1>b, <1>c, <1>d, <1>e, <1>f, <1>g, <1>h, <1>i, <1>j DEF Action, Step

\* Every step keeps the searches.
LEMMA SearchNext ==
  ASSUME IInv, Action, History
  PROVE  SearchInv'
<1> SUFFICES ASSUME ~lost', NEW p \in Proc, pc'[p] \in Searching
             PROVE  /\ Having'[val'[p]] \subseteq had'[p]
                    /\ pc'[p] = "read" => kept'[p] \subseteq Settled'[val'[p]]
                    /\ pc'[p] = "check" =>
                         /\ kept'[p] \subseteq Range(found'[p]) \cup Range(left'[p])
                         /\ val'[p] # Empty => Range(found'[p]) \cup Range(left'[p]) \subseteq had'[p]
  BY DEF SearchInv, Searching
<1>t. Types /\ LockInv /\ SearchInv
  BY DEF IInv
<1>1. /\ up /\ up' /\ lost' = lost
      /\ Began(p) \/ Waited(p) \/ Read(p) \/ Took(p)
  BY SearchSteps
<1>2. /\ had'[p] = had[p] \cup Having'[val'[p]]
      /\ kept'[p] = IF pc[p] = "idle" THEN Settled'[val'[p]] ELSE kept[p] \cap Settled'[val'[p]]
  BY DEF History
<1>3. Having'[val'[p]] \subseteq had'[p] /\ had[p] \subseteq had'[p] /\ kept'[p] \subseteq Settled'[val'[p]]
  BY <1>2
<1>4. CASE Began(p)
  BY <1>3, <1>4 DEF Began
<1>5. ASSUME Went(p), pc'[p] = "check",
             kept[p] \subseteq Range(found'[p]) \cup Range(left'[p]),
             val[p] # Empty => Range(found'[p]) \cup Range(left'[p]) \subseteq had[p]
      PROVE  /\ kept'[p] \subseteq Range(found'[p]) \cup Range(left'[p])
             /\ val'[p] # Empty => Range(found'[p]) \cup Range(left'[p]) \subseteq had'[p]
  <2>1. pc[p] # "idle" /\ val'[p] = val[p]
    BY <1>5 DEF Went, Searching
  <2>2. kept'[p] \subseteq kept[p]
    BY <1>2, <2>1
  <2> QED BY <1>3, <1>5, <2>1, <2>2
<1>6. CASE Waited(p)
  <2>1. pc[p] = "check" => /\ kept[p] \subseteq Range(found[p]) \cup Range(left[p])
                           /\ val[p] # Empty => Range(found[p]) \cup Range(left[p]) \subseteq had[p]
    BY <1>t, <1>1 DEF SearchInv
  <2> QED BY <1>3, <1>5, <1>6, <2>1 DEF Waited
<1>7. CASE Read(p)
  <2>1. /\ pc[p] = "read" /\ pc'[p] = "check" /\ val[p] \in Content /\ found'[p] = <<>>
        /\ left'[p] = addrs[val[p]]
    BY <1>t, <1>7 DEF Read, LockInv, Searching
  <2>2. Having[val[p]] \subseteq had[p] /\ kept[p] \subseteq Settled[val[p]]
    BY <1>t, <1>1, <2>1 DEF SearchInv, Searching
  <2>3. Settled[val[p]] \subseteq Range(left'[p]) /\ (val[p] # Empty => Range(left'[p]) \subseteq Having[val[p]])
    BY <1>1, <2>1, EntriesExact
  <2>4. Range(found'[p]) = {}
    BY <2>1 DEF Range
  <2> QED BY <1>3, <1>5, <1>7, <2>1, <2>2, <2>3, <2>4 DEF Read
<1>8. CASE Took(p)
  <2>1. left[p] \in Seq(Link) /\ found[p] \in Seq(Link) /\ left[p] # <<>>
    BY <1>t, <1>8 DEF Types, Took
  <2>2. Range(left[p]) = Range(left'[p]) \cup {Head(left[p])} /\ Head(left[p]) \in Link
    BY <1>8, <2>1, RangeTail DEF Took
  <2>3. Range(found'[p]) = Range(found[p]) \cup {Head(left[p])}
    BY <1>8, <2>1, <2>2, RangeAppend DEF Took
  <2>4. /\ kept[p] \subseteq Range(found[p]) \cup Range(left[p])
        /\ val[p] # Empty => Range(found[p]) \cup Range(left[p]) \subseteq had[p]
    BY <1>t, <1>1, <1>8 DEF SearchInv, Took
  <2> QED BY <1>3, <1>5, <1>8, <2>2, <2>3, <2>4 DEF Took
<1> QED BY <1>1, <1>4, <1>6, <1>7, <1>8

\* A search ends with nothing left to go through.
LEMMA ReturnsEmpty ==
  ASSUME IInv, Action, NEW p \in Proc, Ends(p)
  PROVE  left[p] = <<>>
<1>t. Types /\ SaveInv
  BY DEF IInv
<1>1. pc[p] = "check" /\ pc'[p] = "idle" /\ up'
  BY DEF Ends
<1>2. up
  BY <1>t, <1>1 DEF SaveInv
<1>a. CASE \/ \E q \in Proc, l \in Link : LinkNew(q, l) \/ ElementFree(q, l)
           \/ \E q \in Proc : FindCheck(q)
           \/ SaveBegin \/ Save
  <2>1. UNCHANGED pc
    BY <1>a DEF LinkNew, ElementFree, FindCheck, SaveBegin, Save, SaveLock, SaveWrite, SaveRename, SaveFlush,
                SaveUnlock, calls
  <2> QED BY <1>1, <2>1
<1>b. ASSUME NEW q \in Proc, NEW s \in Calls, pc' = [pc EXCEPT ![q] = s], s # "idle" \/ pc[q] # "check"
      PROVE  FALSE
  BY <1>t, <1>1, <1>b DEF Types, TypeOK
<1>c. CASE \/ \E q \in Proc, l \in Link, c \in Content : SetLinkContent(q, l, c)
           \/ \E q \in Proc, c \in Content : FindLinks(q, c)
           \/ \E q \in Proc : SetRemove(q) \/ SetWrite(q) \/ FindRead(q)
  <2>1. PICK q \in Proc, s \in {"remove", "write", "read", "append", "check"} : pc' = [pc EXCEPT ![q] = s]
    BY <1>c DEF SetLinkContent, FindLinks, SetRemove, SetWrite, FindRead, Goto
  <2> QED BY <1>b, <2>1 DEF Calls
<1>d. CASE \E q \in Proc : SetAppend(q)
  <2>1. PICK q \in Proc : pc[q] = "append" /\ pc' = [pc EXCEPT ![q] = "idle"]
    BY <1>d DEF SetAppend, Return
  <2> QED BY <1>b, <2>1 DEF Calls
<1>e. ASSUME NEW q \in Proc, FindReturn(q) PROVE left[p] = <<>>
  <2>1. pc' = [pc EXCEPT ![q] = "idle"] /\ left[q] = <<>>
    BY <1>e DEF FindReturn, Return
  <2> QED BY <1>t, <1>1, <2>1 DEF Types, TypeOK
<1>f. CASE Crash \/ \E b \in BOOLEAN : Shutdown(b)
  BY <1>1, <1>f DEF Crash, Shutdown, Ended
<1>g. CASE \E b \in BOOLEAN : Initialize(b)
  BY <1>2, <1>g DEF Initialize
<1> QED BY <1>a, <1>c, <1>d, <1>e, <1>f, <1>g DEF Action, Step

-----------------------------------------------------------------------------
\* The theorems.

\* The invariant holds at the start,
LEMMA InitInv == Init => IInv
<1> SUFFICES ASSUME Init PROVE IInv
  OBVIOUS
<1> USE LinkStoreAssumption
<1>1. Types
  <2>1. el \in [Link -> Element]
    BY Elements DEF Init
  <2>2. pc \in [Proc -> Calls] /\ saver \in Savers
    BY DEF Init, Calls, Savers
  <2>3. left \in [Proc -> Seq(Link)] /\ found \in [Proc -> Seq(Link)]
    BY DEF Init
  <2>4. addrs \in [Content -> Seq(Link)] /\ bytes \subseteq Long
    BY Elements DEF Init
  <2>5. /\ lock \in [Link -> Proc \cup {"saver", Null}]
        /\ link \in [Proc -> Link \cup {Null}] /\ val \in [Proc -> Content \cup {Null}]
        /\ tmp \in [Link -> Element] \cup {Null} /\ file \in [Link -> Element] \cup {Null}
        /\ up \in BOOLEAN /\ failed \in BOOLEAN /\ lost \in BOOLEAN
        /\ want \in [Link -> Content \cup {Null}] /\ raced \subseteq Link
    BY DEF Init
  <2> QED BY <2>1, <2>2, <2>3, <2>4, <2>5 DEF Types, TypeOK
<1>2. /\ \A p \in Proc : pc[p] = "idle" /\ found[p] = <<>>
      /\ \A l \in Link : lock[l] = Null
  BY DEF Init
<1>3. LockInv
  BY <1>2 DEF LockInv, Setting, Searching
<1>4. SaveInv
  BY DEF Init, SaveInv
<1>5. \A l \in Link, c \in Content : Times(l, addrs[c]) = 0
  BY TimesEmpty DEF Init, NoAddrs
<1>6. LinkInv
  <2> SUFFICES ASSUME NEW l \in Link
               PROVE  Staged(l, el[l], want[l], addrs, Stage(l), Coming(l))
    BY DEF LinkInv
  <2>1. el[l].blank /\ el[l].data = Null /\ want[l] = Null /\ Null \notin Content
    BY DEF Init, NewElement, NoElement
  <2>2. Stage(l) = "settled"
    BY <1>2 DEF Stage
  <2>3. Fits(l, el[l], addrs)
    BY <1>5, <2>1 DEF Fits, Shaped, Content
  <2> QED BY <2>1, <2>2, <2>3 DEF Staged
<1>7. BytesInv
  BY <1>2, <1>5 DEF BytesInv, Content
<1>8. FileInv
  <2>1. file = Null /\ atSave = <<NoAddrs, {}>>
    BY DEF Init
  <2> QED BY <2>1 DEF FileInv
<1>9. SearchInv
  BY <1>2 DEF SearchInv, Searching
<1>10. failed => lost
  BY DEF Init
<1> QED BY <1>1, <1>3, <1>4, <1>6, <1>7, <1>8, <1>9, <1>10 DEF IInv

\* and every step keeps it.
LEMMA NextInv == IInv /\ [Next]_vars => IInv'
<1> SUFFICES ASSUME IInv, [Next]_vars PROVE IInv'
  OBVIOUS
<1>1. CASE Next
  <2>1. Action /\ History
    BY <1>1 DEF Next
  <2> QED BY <2>1, TypesNext, LockNext, SaveNext, LinkNext, FileNext, SearchNext DEF IInv
<1>2. CASE UNCHANGED vars
  <2>1. UNCHANGED <<el, lock, addrs, bytes, pc, link, val, left, found, saver, tmp, file, up, failed,
                    want, raced, lost, atSave, had, kept>>
    BY <1>2 DEF vars, memory, db, calls, disk, searches
  <2>2. Types' /\ LockInv' /\ SaveInv'
    BY <2>1 DEF IInv, Types, TypeOK, LockInv, SaveInv, AllLocked
  <2>3. \A l \in Link : Stage(l)' = Stage(l) /\ Coming(l)' = Coming(l)
    BY <2>1 DEF Stage, Coming
  <2>4. LinkInv' /\ BytesInv' /\ FileInv' /\ (failed' => lost')
    BY <2>1, <2>3 DEF IInv, LinkInv, BytesInv, FileInv
  <2>5. Having' = Having /\ Settled' = Settled
    BY <2>1 DEF Having, Settled
  <2>6. SearchInv'
    BY <2>1, <2>5 DEF IInv, SearchInv
  <2> QED BY <2>2, <2>4, <2>6 DEF IInv
<1> QED BY <1>1, <1>2

\* The inductive invariant holds of every behaviour.
THEOREM LinkStoreInvariance == Spec => []IInv
BY InitInv, NextInv, PTL DEF Spec

\* The file memory's addresses of a content are those of the links with that
\* content, whatever the calls of others, and sc_fm_addr_ref_remove does not
\* fail, as long as no restart has brought back older elements.
THEOREM BackLinksExactHolds == Spec => []BackLinksExact
<1>1. IInv => BackLinksExact
  <2> SUFFICES ASSUME IInv PROVE BackLinksExact
    OBVIOUS
  <2>1. ASSUME up, ~lost, NEW l \in Link, lock[l] \notin Proc, NEW c \in Content \ {Empty}
        PROVE  Times(l, addrs[c]) = IF el[l].exists /\ el[l].data = c THEN 1 ELSE 0
    <3>1. Fits(l, el[l], addrs)
      BY <2>1 DEF IInv, LinkInv, Staged, Stage
    <3> QED BY <3>1 DEF Fits
  <2>2. up /\ ~lost => Agree(el, addrs, {l \in Link : lock[l] \notin Proc})
    BY <2>1 DEF Agree
  <2> QED BY <2>2 DEF BackLinksExact, IInv, Types
<1> QED BY <1>1, LinkStoreInvariance, PTL

\* What sc_storage_save leaves on the disk agrees with the file memory at that
\* moment, also when the process is gone in the middle of a later save.
THEOREM SavedExactHolds == Spec => []SavedExact
<1>1. IInv => SavedExact
  BY DEF IInv, FileInv, SavedExact, Agree, Fits
<1> QED BY <1>1, LinkStoreInvariance, PTL

\* sc_storage_get_link_content returns what was set last, unless a restart has
\* lost it or the bytes were erased for another link.
THEOREM ReadsBackHolds == Spec => []ReadsBack
<1>1. IInv => ReadsBack
  <2> SUFFICES ASSUME IInv, up, NEW l \in Link, el[l].exists, lock[l] \notin Proc, want[l] # Null,
                      ~lost, l \notin raced
               PROVE  GetLinkContent(l) = want[l]
    BY DEF ReadsBack
  <2>1. Fits(l, el[l], addrs) /\ want[l] = el[l].data
    BY DEF IInv, LinkInv, Staged, Stage
  <2>2. CASE el[l].self
    BY <2>1, <2>2 DEF GetLinkContent
  <2>3. CASE ~el[l].self
    <3>1. el[l].data \in Content
      BY <2>1 DEF IInv, Types, TypeOK, Element
    <3>2. el[l].data \in Long
      BY <2>1, <2>3, <3>1 DEF Fits, Content
    <3>3. Times(l, addrs[el[l].data]) = 1
      BY <2>1, <3>1, <3>2, LinkStoreAssumption DEF Fits
    <3>4. el[l].data \in bytes
      BY <3>2, <3>3 DEF IInv, BytesInv
    <3> QED BY <2>1, <2>3, <3>4 DEF GetLinkContent, ReadStream
  <2> QED BY <2>2, <2>3
<1> QED BY <1>1, LinkStoreInvariance, PTL

\* sc_storage_find_links_with_content finds every link that had the content all
\* the time it ran, and only links that had it at some time.
THEOREM FoundExactHolds == Spec => FoundExact
<1>1. IInv /\ [Next]_vars =>
        [\A p \in Proc : Ends(p) /\ ~lost =>
           /\ kept[p] \subseteq Range(found[p])
           /\ val[p] # Empty => Range(found[p]) \subseteq had[p]]_vars
  <2> SUFFICES ASSUME IInv, Next, NEW p \in Proc, Ends(p), ~lost
               PROVE  /\ kept[p] \subseteq Range(found[p])
                      /\ val[p] # Empty => Range(found[p]) \subseteq had[p]
    OBVIOUS
  <2>1. /\ kept[p] \subseteq Range(found[p]) \cup Range(left[p])
        /\ val[p] # Empty => Range(found[p]) \cup Range(left[p]) \subseteq had[p]
    BY DEF IInv, SearchInv, Ends
  <2>2. left[p] = <<>>
    BY ReturnsEmpty DEF Next
  <2>3. Range(left[p]) = {}
    BY <2>2 DEF Range
  <2> QED BY <2>1, <2>3
<1> QED BY <1>1, LinkStoreInvariance, PTL DEF FoundExact, Spec
=============================================================================
