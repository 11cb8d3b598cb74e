------------------------------- MODULE Xattr -------------------------------
(***************************************************************************)
(* The inline xattr reader of the RAFS v6 driver (direct_v6.rs):          *)
(* get_xattr and get_xattrs.  One call runs at a time and each iteration  *)
(* of their loop is a step.  An inode's xattr body is its                 *)
(* xattr_inline_count and the entries laid out after the ibody header.    *)
(* A name is a sequence of symbols: a namespace prefix followed by the    *)
(* suffix stored in the entry.  Usize has the width U; a debug build      *)
(* panics where it overflows and a release build wraps.                   *)
(***************************************************************************)
EXTENDS Integers, Sequences

CONSTANTS
  Bodies,    \* the xattr bodies of the inodes: count and laid-out entries
  Prefixes,  \* the namespace prefix of each known name_index
  Garbage,   \* the entries that bytes which hold no entry decode to
  Lookups,   \* the names get_xattr is asked for
  MapEnd,    \* the offset, from the first entry, where the mapping ends
  U,         \* the width of usize
  Builds     \* the builds the code may be compiled as

\* An entry: name_index, the name suffix, value_size and the value (an id).
XEntry == [ns : Nat, sfx : Seq(STRING), vlen : Nat, val : Nat]

\* size_of::<RafsV6XattrEntry>()
EntrySize == 4

USize(x) == x % (2 ^ U)

RoundUp(x, a) == ((x + a - 1) \div a) * a

\* The stand-in for an entry the mapping cannot return.
Unreadable == [ns |-> 0, sfx |-> << >>, vlen |-> 0, val |-> 0]

ASSUME XattrAssumption ==
  /\ \A b \in Bodies : b.count \in Nat /\ b.ents \in Seq(XEntry)
  /\ \A b \in Bodies : \A k \in 1 .. Len(b.ents) : b.ents[k] # Unreadable
  /\ DOMAIN Prefixes \subseteq Nat
  /\ Garbage \subseteq XEntry /\ Unreadable \notin Garbage
  /\ MapEnd \in Nat /\ U \in Nat \ {0}
  /\ Builds \subseteq {"debug", "release"} /\ Builds # {}

(***************************************************************************)
(* The image format (spec section 3): the entries follow each other, each *)
(* padded to the entry alignment.                                         *)
(***************************************************************************)
Footprint(e) == RoundUp(EntrySize + Len(e.sfx) + e.vlen, EntrySize)

\* The offset of entry k from the first entry.
EntryOffset(b, k) ==
  LET off[j \in 1 .. k] == IF j = 1 THEN 0 ELSE off[j - 1] + Footprint(b.ents[j - 1])
  IN off[k]

\* What get_ref reads at an offset: an entry where one starts, bytes that
\* decode to something else anywhere else, nothing past the mapping.
EntriesAt(b, off) ==
  IF off >= MapEnd THEN {Unreadable}
  ELSE IF \E k \in 1 .. Len(b.ents) : EntryOffset(b, k) = off
    THEN {b.ents[CHOOSE k \in 1 .. Len(b.ents) : EntryOffset(b, k) = off]}
    ELSE Garbage \cup {Unreadable}

\* recover_namespace: the prefix of a known name_index; an unknown one fails.
KnownNs(e) == e.ns \in DOMAIN Prefixes

FullName(e) == Prefixes[e.ns] \o e.sfx

Result(kind, val) == [kind |-> kind, val |-> val]

NoResult == Result("none", 0)

VARIABLES
  build,      \* how the code was compiled
  op,         \* the call running: get, list or none
  body,       \* the xattr body of its inode
  arg,        \* the name get_xattr looks for
  pc,         \* where the call is
  offset,     \* offset, from the first entry
  remaining,  \* remaining
  out,        \* the names get_xattrs has pushed
  res         \* the call's result

vars == <<build, op, body, arg, pc, offset, remaining, out, res>>

Finish(r) == pc' = "done" /\ res' = r

Init ==
  /\ build \in Builds
  /\ op = "none" /\ body = (CHOOSE b \in Bodies : TRUE) /\ arg = << >>
  /\ pc = "idle" /\ offset = 0 /\ remaining = 0 /\ out = << >>
  /\ res = NoResult

\* The bytes the loop walks: (total - 1) entries' worth after the header.
RegionBytesWithHeader(total) == total * EntrySize

RegionBytes(total) == (total - 1) * EntrySize

\* get_xattr up to its loop (806-816), or get_xattrs up to its (842-853):
\* an inode without inline xattrs has none.
Start(b, o, n) ==
  /\ pc = "idle"
  /\ op' = o /\ body' = b /\ arg' = n
  /\ IF b.count = 0
       THEN Finish(IF o = "get" THEN Result("nothing", 0) ELSE Result("list", 0))
            /\ UNCHANGED remaining
       ELSE pc' = o /\ remaining' = RegionBytes(b.count) /\ UNCHANGED res
  /\ offset' = 0 /\ out' = << >>
  /\ UNCHANGED build

\* The step from one entry to the next (833-836, 865-868): the entry and
\* its name and value, rounded up to the entry size; remaining -= s
\* underflows usize when the entry runs past the walked bytes.
StepUnrounded(e) == EntrySize + Len(e.sfx) + e.vlen

Step(e) == RoundUp(EntrySize + Len(e.sfx) + e.vlen, EntrySize)

Advance(e) ==
  IF Step(e) > remaining /\ build = "debug"
    THEN Finish(Result("panic", 0)) /\ UNCHANGED <<offset, remaining>>
    ELSE remaining' = USize(remaining - Step(e)) /\ offset' = offset + Step(e)
         /\ UNCHANGED <<pc, res>>

\* One iteration of get_xattr's loop (817-837): read the entry, recover the
\* namespace, compare the full name, return the value on a match.
GetStep ==
  /\ pc = "get"
  /\ remaining > 0
  /\ \E e \in EntriesAt(body, offset) :
       IF e = Unreadable \/ ~KnownNs(e)
         THEN Finish(Result("error", 0)) /\ UNCHANGED <<offset, remaining>>
       ELSE IF FullName(e) = arg
         THEN Finish(Result("some", e.val)) /\ UNCHANGED <<offset, remaining>>
       ELSE Advance(e)
  /\ UNCHANGED <<build, op, body, arg, out>>

\* The names get_xattrs builds: the namespace prefix, then the suffix.
ListNameNoPrefix(e) == e.sfx

ListName(e) == Prefixes[e.ns] \o e.sfx

\* One iteration of get_xattrs' loop (854-869): read the entry and its
\* suffix, recover the namespace, push the name.
ListStep ==
  /\ pc = "list"
  /\ remaining > 0
  /\ \E e \in EntriesAt(body, offset) :
       IF e = Unreadable \/ ~KnownNs(e)
         THEN Finish(Result("error", 0)) /\ UNCHANGED <<offset, remaining, out>>
       ELSE out' = Append(out, ListName(e)) /\ Advance(e)
  /\ UNCHANGED <<build, op, body, arg>>

\* The loop has walked every byte: None (839), or the list (871).
Done ==
  /\ pc \in {"get", "list"}
  /\ remaining = 0
  /\ Finish(IF pc = "get" THEN Result("nothing", 0) ELSE Result("list", 0))
  /\ UNCHANGED <<build, op, body, arg, offset, remaining, out>>

\* The caller takes the result; the call's locals go out of scope.
Return ==
  /\ pc = "done"
  /\ pc' = "idle" /\ op' = "none" /\ res' = NoResult
  /\ body' = (CHOOSE b \in Bodies : TRUE) /\ arg' = << >>
  /\ offset' = 0 /\ remaining' = 0 /\ out' = << >>
  /\ UNCHANGED build

Next ==
  \/ \E b \in Bodies, n \in Lookups : Start(b, "get", n)
  \/ \E b \in Bodies : Start(b, "list", << >>)
  \/ GetStep \/ ListStep \/ Done \/ Return

Spec == Init /\ [][Next]_vars

(***************************************************************************)
(* What the spec (4.E) says the calls return, from the laid-out entries.  *)
(***************************************************************************)

\* get_xattrs: every name in order, or an error for an unknown namespace.
ListRef(b) ==
  IF \A k \in 1 .. Len(b.ents) : KnownNs(b.ents[k])
    THEN [list |-> Result("list", 0), names |-> [k \in 1 .. Len(b.ents) |-> FullName(b.ents[k])]]
    ELSE [list |-> Result("error", 0), names |-> << >>]

\* get_xattr: the value of the first entry of that name, nothing when no
\* entry has it, an error when an unknown namespace comes first.
GetRef(b, n) ==
  LET hits == {k \in 1 .. Len(b.ents) : ~KnownNs(b.ents[k]) \/ FullName(b.ents[k]) = n}
      k0 == CHOOSE k \in hits : \A j \in hits : k <= j
  IN IF hits = {} THEN Result("nothing", 0)
     ELSE IF ~KnownNs(b.ents[k0]) THEN Result("error", 0)
     ELSE Result("some", b.ents[k0].val)

(***************************************************************************)
(* Properties.                                                            *)
(***************************************************************************)

\* No xattr call panics, whatever the entries of the body (the spec: the
\* core never panics on the image, which may be adversarial).
NeverPanics == res.kind # "panic"

\* get_xattrs returns the full name of every entry, in order, and fails
\* only on an unknown namespace.
ListCorrect ==
  pc = "done" /\ op = "list" /\ res.kind # "panic" =>
    IF body.count = 0 THEN res = Result("list", 0) /\ out = << >>
    ELSE res = ListRef(body).list /\ (res.kind = "list" => out = ListRef(body).names)

\* get_xattr returns the value of the first entry of that name (P8 with
\* ListCorrect: every listed name reads back its value) and None for a name
\* no entry has.
GetCorrect ==
  pc = "done" /\ op = "get" /\ res.kind # "panic" =>
    res = IF body.count = 0 THEN Result("nothing", 0) ELSE GetRef(body, arg)
=============================================================================
