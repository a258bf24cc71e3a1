----------------------------- MODULE LinkStore -----------------------------
(***************************************************************************)
(* The content of sc-links and its two stores: the element itself, which   *)
(* is in the segments and reaches the disk when the memory is saved, and   *)
(* the file memory, a database on disk at once, which keeps long contents  *)
(* and, for every content, the addresses of its links.                     *)
(*                                                                         *)
(* A content stands for its checksum too.  Each link has a section of its  *)
(* own; the database operations are one step each, under gMutex.           *)
(***************************************************************************)
EXTENDS Integers, Sequences, FiniteSets, SequencesExt

CONSTANTS Proc,     \* threads of clients
          Link,     \* addresses of links
          Short,    \* contents kept in the element
          Long,     \* contents kept in the file memory
          Empty,    \* the content of length 0, one of the short ones
          Given,    \* links that exist from the start, without a content
          Null,
          MaxOps,   \* bound: calls of clients
          MaxSaves, MaxStarts

Content == Short \cup Long

\* data: what the bytes of the element stand for; blank: they are all zero.
Element == [exists : BOOLEAN, self : BOOLEAN, data : Content \cup {Null}, blank : BOOLEAN]

ASSUME LinkStoreAssumption ==
  /\ Given \subseteq Link /\ Empty \in Short /\ Short \cap Long = {}
  /\ Null \notin Proc \cup Link \cup Content \cup {"saver"} /\ "saver" \notin Proc
  /\ {MaxOps, MaxSaves, MaxStarts} \subseteq Nat
  /\ Null \notin [Link -> Element]

VARIABLES el,      \* the elements
          addrs,   \* file memory: the links of each content, <<>> for no entry
          bytes,   \* file memory: the long contents it has
          lock,    \* who has the section of each link
          pc, link, val, left, found,    \* the calls of the clients
          saver,   \* where sc_storage_save is
          tmp, file,               \* temporary file and segments file
          up, failed,              \* the process; a checked call has failed
          ops, saves, starts,
          want, raced, lost, atSave, had, kept   \* history, for the properties

memory == <<el, lock>>
db == <<addrs, bytes>>
calls == <<pc, link, val, left, found>>
disk == <<tmp, file>>
counts == <<ops, saves, starts>>
searches == <<had, kept>>
vars == <<memory, db, calls, saver, disk, up, failed, counts, want, raced, lost, atSave, searches>>

NoElement == [exists |-> FALSE, self |-> FALSE, data |-> Null, blank |-> TRUE]
NewElement == [NoElement EXCEPT !.exists = TRUE]
NoElements == [l \in Link |-> NoElement]
NoAddrs == [c \in Content |-> <<>>]

Savers == {"idle", "lock", "write", "rename", "flush", "unlock"}
Calls == {"idle", "remove", "write", "append", "read", "check"}

TypeOK ==
  /\ el \in [Link -> Element]
  /\ \A c \in Content : addrs[c] \in Seq(Link)
  /\ bytes \subseteq Long
  /\ lock \in [Link -> Proc \cup {"saver", Null}]
  /\ pc \in [Proc -> Calls]
  /\ link \in [Proc -> Link \cup {Null}] /\ val \in [Proc -> Content \cup {Null}]
  /\ \A p \in Proc : left[p] \in Seq(Link) /\ found[p] \in Seq(Link)
  /\ saver \in Savers
  /\ tmp \in [Link -> Element] \cup {Null} /\ file \in [Link -> Element] \cup {Null}
  /\ up \in BOOLEAN /\ failed \in BOOLEAN

Init ==
  /\ el = [l \in Link |-> IF l \in Given THEN NewElement ELSE NoElement]
  /\ lock = [l \in Link |-> Null]
  /\ addrs = NoAddrs /\ bytes = {}
  /\ pc = [p \in Proc |-> "idle"]
  /\ link = [p \in Proc |-> Null] /\ val = [p \in Proc |-> Null]
  /\ left = [p \in Proc |-> <<>>] /\ found = [p \in Proc |-> <<>>]
  /\ saver = "idle" /\ tmp = Null /\ file = Null
  /\ up = TRUE /\ failed = FALSE
  /\ ops = 0 /\ saves = 0 /\ starts = 0
  /\ want = [l \in Link |-> Null] /\ raced = {} /\ lost = FALSE
  /\ atSave = <<NoAddrs, {}>>
  /\ had = [p \in Proc |-> {}] /\ kept = [p \in Proc |-> {}]

-----------------------------------------------------------------------------
\* The file memory.

\* sc_fm_write_stream
Written(c) == bytes \cup {c}

\* Mutant: the links that were there are forgotten.
AppendedAlone(l, c) == [addrs EXCEPT ![c] = <<l>>]

\* sc_fm_addr_ref_append
Appended(l, c) == [addrs EXCEPT ![c] = Append(@, l)]

\* sc_fm_addr_ref_remove: the first entry of the link goes, and with the last
\* entry of a content the content.
Without(l, c) ==
  LET at == {n \in 1..Len(addrs[c]) : addrs[c][n] = l}
  IN IF at = {} THEN addrs[c]
     ELSE RemoveAt(addrs[c], CHOOSE n \in at : \A m \in at : n <= m)

\* Mutant: contents of other links go as well.
CleanedAlways(l, c) == bytes \ {c}

Cleaned(l, c) == IF Without(l, c) = <<>> THEN bytes \ {c} ELSE bytes

\* The entries of content c without link l; a failure when there are none,
\* which only a debug build checks.
RefRemove(l, c) ==
  IF c = Null \/ addrs[c] = <<>>
  THEN failed' = TRUE /\ UNCHANGED <<db, raced>>
  ELSE /\ addrs' = [addrs EXCEPT ![c] = Without(l, c)]
       /\ bytes' = Cleaned(l, c)
       /\ raced' = IF c \in Long /\ Without(l, c) = <<>>
                   THEN raced \cup {link[p] : p \in {q \in Proc : pc[q] = "append" /\ val[q] = c}}
                   ELSE raced
       /\ UNCHANGED failed

\* sc_fm_read_stream_new: null when there is no such content.
ReadStream(c) == IF c \in bytes THEN c ELSE Null

-----------------------------------------------------------------------------
Call(p) == up /\ pc[p] = "idle" /\ ops < MaxOps /\ ops' = ops + 1
Goto(p, where) == pc' = [pc EXCEPT ![p] = where]

\* A call ends, and its local variables with it.
Return(p) ==
  /\ pc' = [pc EXCEPT ![p] = "idle"]
  /\ link' = [link EXCEPT ![p] = Null] /\ val' = [val EXCEPT ![p] = Null]
  /\ left' = [left EXCEPT ![p] = <<>>] /\ found' = [found EXCEPT ![p] = <<>>]

\* sc_storage_link_new
LinkNew(p, l) ==
  /\ Call(p) /\ ~el[l].exists /\ lock[l] = Null
  /\ el' = [el EXCEPT ![l] = NewElement]
  /\ want' = [want EXCEPT ![l] = Null] /\ raced' = raced \ {l}
  /\ UNCHANGED <<lock, db, calls, saver, disk, up, failed, saves, starts, lost, atSave>>

\* sc_element_is_checksum_empty: it looks at the bytes, which are also all zero
\* when the first content of a link is the empty one.
IsChecksumEmpty(x) == x.blank

\* sc_storage_set_link_content, with the element locked from here to its end.
SetLinkContent(p, l, c) ==
  /\ Call(p) /\ el[l].exists /\ lock[l] = Null
  /\ lock' = [lock EXCEPT ![l] = p]
  /\ link' = [link EXCEPT ![p] = l] /\ val' = [val EXCEPT ![p] = c]
  /\ Goto(p, IF IsChecksumEmpty(el[l]) THEN "write" ELSE "remove")
  /\ UNCHANGED <<el, db, left, found, saver, disk, up, failed, saves, starts, want, raced, lost, atSave>>

SetRemove(p) ==
  /\ up /\ pc[p] = "remove"
  /\ RefRemove(link[p], el[link[p]].data)
  /\ Goto(p, "write")
  /\ UNCHANGED <<memory, link, val, left, found, saver, disk, up, counts, want, lost, atSave>>

\* The bytes of a short content go into the element, those of a long one into
\* the file memory.  Length 0 leaves the other bytes as they are.
SetWrite(p) ==
  /\ up /\ pc[p] = "write"
  /\ \/ /\ val[p] \in Long
        /\ bytes' = Written(val[p])
        /\ el' = [el EXCEPT ![link[p]].self = FALSE]
     \/ /\ val[p] \in Short
        /\ el' = [el EXCEPT ![link[p]] =
                    [exists |-> TRUE, self |-> TRUE, data |-> val[p],
                     blank |-> @.blank /\ val[p] = Empty]]
        /\ UNCHANGED bytes
  /\ raced' = raced \ {link[p]}
  /\ Goto(p, "append")
  /\ UNCHANGED <<lock, addrs, link, val, left, found, saver, disk, up, failed, counts, want, lost, atSave>>

SetAppend(p) ==
  /\ up /\ pc[p] = "append"
  /\ addrs' = Appended(link[p], val[p])
  /\ el' = IF val[p] \in Long THEN [el EXCEPT ![link[p]].data = val[p], ![link[p]].blank = FALSE]
           ELSE el
  /\ want' = [want EXCEPT ![link[p]] = val[p]]
  /\ lock' = [lock EXCEPT ![link[p]] = Null]
  /\ Return(p)
  /\ UNCHANGED <<bytes, saver, disk, up, failed, counts, raced, lost, atSave>>

\* sc_storage_element_free of a link: s_mutex_free, the element, its content.
ElementFree(p, l) ==
  /\ Call(p) /\ el[l].exists /\ lock[l] = Null
  /\ saver \in {"idle", "unlock"}
  /\ IF IsChecksumEmpty(el[l]) THEN UNCHANGED <<db, raced, failed>> ELSE RefRemove(l, el[l].data)
  /\ el' = [el EXCEPT ![l] = NoElement]
  /\ want' = [want EXCEPT ![l] = Null]
  /\ UNCHANGED <<lock, calls, saver, disk, up, saves, starts, lost, atSave>>

\* sc_storage_get_link_content of an element that nobody has locked
GetLinkContent(l) == IF el[l].self THEN el[l].data ELSE ReadStream(el[l].data)

\* sc_storage_find_links_with_content
FindLinks(p, c) ==
  /\ Call(p)
  /\ val' = [val EXCEPT ![p] = c]
  /\ Goto(p, "read")
  /\ UNCHANGED <<memory, db, link, left, found, saver, disk, up, failed, saves, starts, want, raced, lost, atSave>>

\* Mutant: the first of the stored addresses is skipped.
EntriesButFirst(c) == IF addrs[c] = <<>> THEN <<>> ELSE Tail(addrs[c])

\* sc_fm_find
Entries(c) == addrs[c]

\* A content without an entry ends the call with an error.
FindRead(p) ==
  /\ up /\ pc[p] = "read"
  /\ left' = [left EXCEPT ![p] = Entries(val[p])]
  /\ Goto(p, "check")
  /\ UNCHANGED <<memory, db, link, val, found, saver, disk, up, failed, counts, want, raced, lost, atSave>>

\* Every element is locked for a moment, for its access levels, and its
\* content is not looked at again.
FindCheck(p) ==
  /\ up /\ pc[p] = "check" /\ left[p] # <<>>
  /\ lock[Head(left[p])] = Null
  /\ left' = [left EXCEPT ![p] = Tail(@)]
  /\ found' = [found EXCEPT ![p] = Append(@, Head(left[p]))]
  /\ UNCHANGED <<memory, db, pc, link, val, saver, disk, up, failed, counts, want, raced, lost, atSave>>

FindReturn(p) ==
  /\ up /\ pc[p] = "check" /\ left[p] = <<>>
  /\ Return(p)
  /\ UNCHANGED <<memory, db, saver, disk, up, failed, counts, want, raced, lost, atSave>>

-----------------------------------------------------------------------------
\* sc_storage_save, with sc_fs_storage_write_to_path.

SaveBegin ==
  /\ up /\ saver = "idle" /\ saves < MaxSaves
  /\ saver' = "lock" /\ saves' = saves + 1
  /\ UNCHANGED <<memory, db, calls, disk, up, failed, ops, starts, want, raced, lost, atSave>>

\* Mutant: only the sections that nobody has.
AllLockedBusy == \A l \in Link : lock[l] # Null

AllLocked == \A l \in Link : lock[l] = "saver"

SaveLock ==
  /\ up /\ saver = "lock"
  /\ \/ /\ \E l \in Link : lock[l] = Null /\ lock' = [lock EXCEPT ![l] = "saver"]
        /\ UNCHANGED saver
     \/ AllLocked /\ saver' = "write" /\ UNCHANGED lock
  /\ UNCHANGED <<el, db, calls, disk, up, failed, counts, want, raced, lost, atSave>>

SaveWrite ==
  /\ up /\ saver = "write"
  /\ tmp' = el /\ saver' = "rename"
  /\ UNCHANGED <<memory, db, calls, file, up, failed, counts, want, raced, lost, atSave>>

SaveRename ==
  /\ up /\ saver = "rename"
  /\ file' = tmp /\ tmp' = Null /\ saver' = "flush"
  /\ atSave' = db
  /\ UNCHANGED <<memory, db, calls, up, failed, counts, want, raced, lost>>

\* sc_fm_save, s_mutex_free
SaveFlush ==
  /\ up /\ saver = "flush" /\ saver' = "unlock"
  /\ UNCHANGED <<memory, db, calls, disk, up, failed, counts, want, raced, lost, atSave>>

\* Mutant: the sections stay locked.
UnlockedNot == lock

Unlocked == [l \in Link |-> IF lock[l] = "saver" THEN Null ELSE lock[l]]

SaveUnlock ==
  /\ up /\ saver = "unlock"
  /\ lock' = Unlocked /\ saver' = "idle"
  /\ UNCHANGED <<el, db, calls, disk, up, failed, counts, want, raced, lost, atSave>>

-----------------------------------------------------------------------------
\* The process ends, and starts again.

Ended ==
  /\ up' = FALSE
  /\ el' = NoElements /\ lock' = [l \in Link |-> Null]
  /\ pc' = [p \in Proc |-> "idle"] /\ link' = [p \in Proc |-> Null]
  /\ val' = [p \in Proc |-> Null]
  /\ left' = [p \in Proc |-> <<>>] /\ found' = [p \in Proc |-> <<>>]
  /\ saver' = "idle" /\ tmp' = Null
  /\ UNCHANGED <<db, failed, counts, want, raced, lost>>

\* Wherever it is; what the database was told is in its log.
Crash == up /\ Ended /\ UNCHANGED <<file, atSave>>

\* sc_storage_shutdown, after all calls
Shutdown(save) ==
  /\ up /\ saver = "idle" /\ \A p \in Proc : pc[p] = "idle"
  /\ Ended
  /\ file' = IF save THEN el ELSE file
  /\ atSave' = IF save THEN db ELSE atSave

\* sc_fs_storage_read_from_path; no file, no elements.
Loaded == IF file = Null THEN NoElements ELSE file

\* sc_storage_initialize
Initialize(clear) ==
  /\ ~up /\ starts < MaxStarts
  /\ up' = TRUE /\ starts' = starts + 1
  /\ \/ /\ clear
        /\ file' = Null /\ addrs' = NoAddrs /\ bytes' = {}
        /\ atSave' = <<NoAddrs, {}>> /\ lost' = FALSE /\ failed' = FALSE
        /\ UNCHANGED el
     \/ /\ ~clear
        /\ el' = Loaded
        /\ lost' = (lost \/ db # atSave)
        /\ UNCHANGED <<file, db, atSave, failed>>
  /\ want' = [l \in Link |-> el'[l].data]
  /\ raced' = IF clear THEN {} ELSE raced
  /\ UNCHANGED <<lock, calls, saver, tmp, ops, saves>>

-----------------------------------------------------------------------------
\* The links whose data is each content, and those that nobody is changing.
Having == [c \in Content |-> {l \in Link : el[l].exists /\ el[l].data = c}]
Settled == [c \in Content |-> {l \in Having[c] : lock[l] \notin Proc}]

Searching == {"read", "check"}

\* History of each search: what had the content at some time since it began,
\* and what has had it all the time.
History ==
  /\ had' = [p \in Proc |->
               IF pc'[p] \notin Searching THEN {}
               ELSE had[p] \cup Having'[val'[p]]]
  /\ kept' = [p \in Proc |->
                IF pc'[p] \notin Searching THEN {}
                ELSE IF pc[p] = "idle" THEN Settled'[val'[p]]
                ELSE kept[p] \cap Settled'[val'[p]]]

Step(p) == SetRemove(p) \/ SetWrite(p) \/ SetAppend(p) \/ FindRead(p) \/ FindCheck(p)
           \/ FindReturn(p)

Save == SaveLock \/ SaveWrite \/ SaveRename \/ SaveFlush \/ SaveUnlock

Action ==
  \/ \E p \in Proc, l \in Link : LinkNew(p, l) \/ ElementFree(p, l)
  \/ \E p \in Proc, l \in Link, c \in Content : SetLinkContent(p, l, c)
  \/ \E p \in Proc, c \in Content : FindLinks(p, c)
  \/ \E p \in Proc : Step(p)
  \/ SaveBegin \/ Save
  \/ Crash
  \/ \E b \in BOOLEAN : Shutdown(b) \/ Initialize(b)

Next == Action /\ History

\* Calls and saves that have begun go on.
Spec ==
  /\ Init /\ [][Next]_vars
  /\ \A p \in Proc : WF_vars(Step(p) /\ History)
  /\ WF_vars(Save /\ History)

-----------------------------------------------------------------------------
\* Properties.

Times(l, s) == Cardinality({n \in 1..Len(s) : s[n] = l})

\* The elements e and the file memory a agree on the links ls and all contents
\* but the empty one, whose first setting leaves the element blank.
Agree(e, a, ls) ==
  \A l \in ls, c \in Content \ {Empty} :
    Times(l, a[c]) = IF e[l].exists /\ e[l].data = c THEN 1 ELSE 0

\* The addresses that the file memory has for a content are those of the
\* links with that content, once each, for every link that no call is
\* changing, whatever the calls of others, as long as no restart has brought
\* back elements that are older than the file memory.  Only after such a
\* restart does the check fail that sc_storage_set_link_content and
\* sc_storage_element_free make on the removal of an address.
BackLinksExact ==
  /\ TypeOK
  /\ up /\ ~lost => Agree(el, addrs, {l \in Link : lock[l] \notin Proc})
  /\ failed => lost

\* A save takes elements and file memory at one moment at which they agree: a
\* restart after a save finds what it needs, also when the process is gone in
\* the middle of a later one.
SavedExact == file # Null /\ ~lost => Agree(file, atSave[1], Link)

\* A link has the content that was set last, and it can be read, unless a
\* restart has lost it, or the bytes were erased for another link between
\* their writing and the entry that keeps them.
ReadsBack ==
  up => \A l \in Link : el[l].exists /\ lock[l] \notin Proc /\ want[l] # Null =>
          GetLinkContent(l) = want[l] \/ lost \/ l \in raced

Ends(p) == pc[p] = "check" /\ pc'[p] = "idle" /\ up'

\* A search finds every link that had the content all the time it ran, and
\* only links that had it at some time while it ran.
FoundExact ==
  [][\A p \in Proc : Ends(p) /\ ~lost =>
       /\ kept[p] \subseteq Range(found[p])
       /\ val[p] # Empty => Range(found[p]) \subseteq had[p]]_vars

\* Calls end, although saving locks every section.
CallsEnd == \A p \in Proc : pc[p] # "idle" ~> pc[p] = "idle"
=============================================================================
