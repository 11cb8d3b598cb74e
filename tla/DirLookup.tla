----------------------------- MODULE DirLookup -----------------------------
(***************************************************************************)
(* The directory reader of the RAFS v6 driver (direct_v6.rs): the blocks  *)
(* of an EROFS directory, entry_name, find_target_block with the in-block *)
(* search of get_child_by_name, walk_children_inodes, get_child_by_index  *)
(* and get_child_count.  One call runs at a time and every iteration of   *)
(* one of their loops is a step.  A block of the image is a slot of Disk, *)
(* holding its dirents in order; a name is a number, ordered as the bytes *)
(* of the name it stands for.  Usize arithmetic has the width U; a debug  *)
(* build panics where it overflows and a release build wraps.             *)
(***************************************************************************)
EXTENDS Integers, Sequences, SequencesExt

CONSTANTS
  Disk,         \* Disk[a]: the dirents of the block in slot a, in order
  Dirs,         \* the directory inodes: first block, blocks, layout, size
  LookupNames,  \* the names get_child_by_name is asked for
  Offsets,      \* the entry offsets readdir resumes walk_children_inodes at
  Indices,      \* the indices get_child_by_index is asked for
  Garbage,      \* the dirents a read past the entries of a block decodes to
  DOT, DOTDOT,  \* the names "." and ".."
  U,            \* the width of usize
  B,            \* log2 of EROFS_BLOCK_SIZE
  CW,           \* the width of u32
  Builds        \* the builds the code may be compiled as

\* A block address is kept in blocks: the byte address of block k of a
\* directory, (i_u * 4096) + k * 4096 in usize, is block (i_u + k) mod Slots.
Slots == 2 ^ (U - B)

USize(x) == x % (2 ^ U)

U32(x) == x % (2 ^ CW)

Dirent == [name : Nat, nid : Nat]

\* A directory inode: i_u (start), div_round_up(size, 4096) (count), the
\* FLAT_INLINE layout and the slot of its inline tail (islot), and whether
\* size % 4096 = 0 (full).
Dir == [start : Nat, count : Nat, inline : BOOLEAN, islot : Nat, full : BOOLEAN]

\* The stand-in for a dirent whose name cannot be read back.
Unreadable == [name |-> 0, nid |-> 0]

(***************************************************************************)
(* data_block_offset: block k of a plain directory follows its i_u block; *)
(* the last block of an inline directory is stored after its inode.      *)
(***************************************************************************)
DataBlockOffset(d, k) ==
  IF d.inline /\ k = d.count - 1 THEN d.islot ELSE (d.start + k) % Slots

\* get_entry: the mapping holds the block.
Mapped(a) == a \in DOMAIN Disk

\* The image: every block holds at least one dirent, every block of a
\* directory lies inside the mapping, and the mapping fills at most half of
\* the block addresses usize can reach (an image is far below 2^52 blocks).
ASSUME DirLookupAssumption ==
  /\ U \in Nat /\ B \in 1 .. U - 2 /\ CW \in Nat \ {0}
  /\ DOMAIN Disk \subseteq 0 .. Slots \div 2 - 1
  /\ \A a \in DOMAIN Disk : Disk[a] \in Seq(Dirent) /\ Disk[a] # << >>
  /\ Dirs \subseteq Dir /\ Dirs # {}
  /\ \A d \in Dirs : \A k \in 0 .. d.count - 1 : Mapped(DataBlockOffset(d, k))
  /\ Garbage \subseteq Dirent
  /\ Builds \subseteq {"debug", "release"} /\ Builds # {}

\* The bounds the types put on the image: the block count is
\* div_round_up(size, 4096) of a u64 size, so below 2^(U - B); a block of
\* 2^B bytes holds at most 2^B dirents; offsets, indices and names are
\* unsigned.
\* The last conjunct states the powers' ranges, which follow from the
\* widths (the provers do not evaluate ^).
ASSUME BoundsAssumption ==
  /\ \A d \in Dirs : d.count <= Slots
  /\ \A a \in DOMAIN Disk : Len(Disk[a]) <= 2 ^ B
  /\ Offsets \subseteq Nat /\ Indices \subseteq Nat /\ LookupNames \subseteq Nat
  /\ 2 ^ U \in Nat \ {0} /\ Slots \in 1 .. 2 ^ U /\ 2 ^ B \in 1 .. 2 ^ U
  /\ 2 ^ CW \in Nat \ {0}

(***************************************************************************)
(* entry_name: the name of the last entry of a block runs to the end of   *)
(* the block.  In the last block of the directory that end is             *)
(* size % 4096 - s, which underflows u64 when the size is a multiple of   *)
(* the block size.                                                        *)
(***************************************************************************)
NameUnderflows(d, k, j, n) == j >= n - 1 /\ k + 1 = d.count /\ d.full

\* The entries of a directory, block after block: the reference the
\* properties compare the code with.
DirEntries(d) == FlattenSeq([k \in 1 .. d.count |-> Disk[DataBlockOffset(d, k - 1)]])

Children(d) == SelectSeq(DirEntries(d), LAMBDA e : e.name \notin {DOT, DOTDOT})

DirNames(d) == {DirEntries(d)[i].name : i \in DOMAIN DirEntries(d)}

NidOf(d, nm) ==
  DirEntries(d)[CHOOSE i \in DOMAIN DirEntries(d) : DirEntries(d)[i].name = nm].nid

Result(kind, val) == [kind |-> kind, val |-> val]

NoResult == Result("none", 0)

VARIABLES
  build,    \* how the code was compiled
  op,       \* the call running: lookup, walk, index, count or none
  dir,      \* the directory inode it runs on
  arg,      \* its name, entry_offset or idx
  pc,       \* where the call is
  first,    \* first of the running binary search
  last,     \* last of the running binary search
  target,   \* target_block
  blk,      \* the block loop's i
  ent,      \* the entry loop's j
  skipped,  \* walk_children_inodes' skipped
  cur,      \* cur_offset of a walk, cur_idx of get_child_by_index
  out,      \* what the walk handed to the handler: name, nid, offset
  res       \* the call's result

vars == <<build, op, dir, arg, pc, first, last, target, blk, ent, skipped, cur, out, res>>

\* The end of a call with result r.
Finish(r) == pc' = "done" /\ res' = r

\* An underflow: a debug build panics, a release build ends in r.
Overflow(r) == IF build = "debug" THEN Result("panic", 0) ELSE r

Init ==
  /\ build \in Builds
  /\ op = "none"
  /\ dir = CHOOSE d \in Dirs : TRUE
  /\ arg = 0
  /\ pc = "idle"
  /\ first = 0 /\ last = 0 /\ target = 0
  /\ blk = 0 /\ ent = 0 /\ skipped = 0 /\ cur = 0
  /\ out = << >>
  /\ res = NoResult

(***************************************************************************)
(* get_child_by_name (960-996) with find_target_block (535-568).          *)
(***************************************************************************)

\* The pivot of the running binary search: first + ((last - first) >> 1).
Pivot == first + (last - first) \div 2

\* get_child_by_name up to the loop of find_target_block (960-963,
\* 535-543): an empty directory has no block to search.
LookupStart(d, nm) ==
  /\ pc = "idle"
  /\ op' = "lookup" /\ dir' = d /\ arg' = nm
  /\ target' = 0
  /\ IF d.count = 0
       THEN Finish(Result("enoent", 0)) /\ UNCHANGED <<first, last>>
       ELSE pc' = "blocks" /\ first' = 0 /\ last' = d.count - 1 /\ UNCHANGED res
  /\ UNCHANGED <<build, blk, ent, skipped, cur, out>>

\* find_target_block's test that the name lies between the head and the tail
\* name of a block.
InBlockStrictTail(h, t, nm) == h <= nm /\ nm < t

InBlock(h, t, nm) == h <= nm /\ nm <= t

\* get_child_by_name once find_target_block returned block t (964-971): the
\* in-block search runs over the entries of t.
EnterBlock(t) ==
  LET a == DataBlockOffset(dir, t) IN
  IF Mapped(a)
    THEN pc' = "entries" /\ target' = t /\ first' = 0 /\ last' = Len(Disk[a]) - 1
         /\ UNCHANGED res
    ELSE Finish(Result("error", 0)) /\ UNCHANGED <<target, first, last>>

\* find_target_block with the two moves of its bounds swapped.
BlockProbeSwapped ==
  LET a == DataBlockOffset(dir, Pivot)
      n == Len(Disk[a])
  IN
  /\ pc = "blocks"
  /\ first <= last
  /\ IF ~Mapped(a)
       THEN Finish(Result("enoent", 0)) /\ UNCHANGED <<first, last, target>>
     ELSE IF NameUnderflows(dir, Pivot, n - 1, n)
       THEN Finish(Overflow(Result("enoent", 0))) /\ UNCHANGED <<first, last, target>>
     ELSE IF InBlock(Disk[a][1].name, Disk[a][n].name, arg)
       THEN EnterBlock(Pivot)
     ELSE IF Disk[a][1].name <= arg
       THEN IF Pivot = 0 /\ build = "debug"
              THEN Finish(Result("panic", 0)) /\ UNCHANGED <<first, last, target>>
              ELSE last' = USize(Pivot - 1) /\ UNCHANGED <<pc, res, first, target>>
     ELSE first' = Pivot + 1 /\ UNCHANGED <<pc, res, last, target>>
  /\ UNCHANGED <<build, op, dir, arg, blk, ent, skipped, cur, out>>

\* One iteration of find_target_block's loop (544-565).  A read that fails
\* makes it return an error, which get_child_by_name turns into ENOENT.
\* When the head name is above the name at pivot 0, last = pivot - 1
\* underflows usize.
BlockProbe ==
  LET a == DataBlockOffset(dir, Pivot)
      n == Len(Disk[a])
  IN
  /\ pc = "blocks"
  /\ first <= last
  /\ IF ~Mapped(a)
       THEN Finish(Result("enoent", 0)) /\ UNCHANGED <<first, last, target>>
     ELSE IF NameUnderflows(dir, Pivot, n - 1, n)
       THEN Finish(Overflow(Result("enoent", 0))) /\ UNCHANGED <<first, last, target>>
     ELSE IF InBlock(Disk[a][1].name, Disk[a][n].name, arg)
       THEN EnterBlock(Pivot)
     ELSE IF Disk[a][1].name > arg
       THEN IF Pivot = 0 /\ build = "debug"
              THEN Finish(Result("panic", 0)) /\ UNCHANGED <<first, last, target>>
              ELSE last' = USize(Pivot - 1) /\ UNCHANGED <<pc, res, first, target>>
     ELSE first' = Pivot + 1 /\ UNCHANGED <<pc, res, last, target>>
  /\ UNCHANGED <<build, op, dir, arg, blk, ent, skipped, cur, out>>

\* find_target_block's loop ends without a block: it returns target_block,
\* still 0 (567), and the in-block search runs over block 0.
BlocksExit ==
  /\ pc = "blocks"
  /\ first > last
  /\ EnterBlock(target)
  /\ UNCHANGED <<build, op, dir, arg, blk, ent, skipped, cur, out>>

\* The dirents get_entry can return for index j of block t: past the
\* entries of the block (a wrapped index) it reads bytes that are no dirent.
EntryRead(t, j) ==
  LET a == DataBlockOffset(dir, t) IN
  IF j < Len(Disk[a]) THEN {Disk[a][j + 1]} ELSE Garbage \cup {Unreadable}

\* The in-block search with last = pivot where the code has pivot - 1.
EntryProbeKeepsLast ==
  LET n == Len(Disk[DataBlockOffset(dir, target)]) IN
  /\ pc = "entries"
  /\ first <= last
  /\ \E de \in EntryRead(target, Pivot) :
       IF NameUnderflows(dir, target, Pivot, n)
         THEN Finish(Overflow(Result("error", 0))) /\ UNCHANGED <<first, last>>
       ELSE IF de = Unreadable
         THEN Finish(Result("error", 0)) /\ UNCHANGED <<first, last>>
       ELSE IF de.name = arg
         THEN Finish(Result("found", de.nid)) /\ UNCHANGED <<first, last>>
       ELSE IF de.name < arg
         THEN first' = Pivot + 1 /\ UNCHANGED <<pc, res, last>>
       ELSE last' = Pivot /\ UNCHANGED <<pc, res, first>>
  /\ UNCHANGED <<build, op, dir, arg, target, blk, ent, skipped, cur, out>>

\* One iteration of the in-block search (972-993).  At pivot 0 a name above
\* the one looked up makes last = pivot - 1 underflow usize.
EntryProbe ==
  LET n == Len(Disk[DataBlockOffset(dir, target)]) IN
  /\ pc = "entries"
  /\ first <= last
  /\ \E de \in EntryRead(target, Pivot) :
       IF NameUnderflows(dir, target, Pivot, n)
         THEN Finish(Overflow(Result("error", 0))) /\ UNCHANGED <<first, last>>
       ELSE IF de = Unreadable
         THEN Finish(Result("error", 0)) /\ UNCHANGED <<first, last>>
       ELSE IF de.name = arg
         THEN Finish(Result("found", de.nid)) /\ UNCHANGED <<first, last>>
       ELSE IF de.name < arg
         THEN first' = Pivot + 1 /\ UNCHANGED <<pc, res, last>>
       ELSE IF Pivot = 0 /\ build = "debug"
         THEN Finish(Result("panic", 0)) /\ UNCHANGED <<first, last>>
       ELSE last' = USize(Pivot - 1) /\ UNCHANGED <<pc, res, first>>
  /\ UNCHANGED <<build, op, dir, arg, target, blk, ent, skipped, cur, out>>

\* The in-block search ends without the name: ENOENT (995).
EntriesExit ==
  /\ pc = "entries"
  /\ first > last
  /\ Finish(Result("enoent", 0))
  /\ UNCHANGED <<build, op, dir, arg, first, last, target, blk, ent, skipped, cur, out>>

(***************************************************************************)
(* walk_children_inodes (894-954): the entries of every block in order,   *)
(* the first entry_offset of them skipped ("." and ".." included); each   *)
(* other one goes to the handler with the offset of the entry after it.   *)
(* The handler (readdir filling its buffer) may break the walk.           *)
(***************************************************************************)

\* The number of dirents of block k of the running call's directory.
BlockCount(k) == Len(Disk[DataBlockOffset(dir, k)])

\* Dirent j of block k of the running call's directory.
BlockEntry(k, j) == Disk[DataBlockOffset(dir, k)][j + 1]

\* walk_children_inodes up to its loop (895-903).
WalkStart(d, off) ==
  /\ pc = "idle"
  /\ op' = "walk" /\ dir' = d /\ arg' = off
  /\ IF d.count = 0
       THEN Finish(Result("enoent", 0))
       ELSE pc' = "walk" /\ UNCHANGED res
  /\ blk' = 0 /\ ent' = 0 /\ skipped' = off /\ cur' = off /\ out' = << >>
  /\ UNCHANGED <<build, first, last, target>>

\* The entries of block blk are done: the next block (913-918).
WalkNextBlock ==
  /\ pc = "walk"
  /\ blk < dir.count
  /\ ent = BlockCount(blk)
  /\ blk' = blk + 1 /\ ent' = 0
  /\ UNCHANGED <<build, op, dir, arg, pc, first, last, target, skipped, cur, out, res>>

\* The name of the entry fails to read: the walk ends in an error (924-926).
WalkNameFails ==
  /\ Finish(Overflow(Result("error", 0)))
  /\ UNCHANGED <<blk, ent, skipped, cur, out>>

\* The skip without its test that skipped is not 0.
WalkSkipUnguarded ==
  /\ pc = "walk"
  /\ blk < dir.count
  /\ ent < BlockCount(blk)
  /\ IF NameUnderflows(dir, blk, ent, BlockCount(blk))
       THEN WalkNameFails
       ELSE skipped' = skipped - 1 /\ ent' = ent + 1 /\ UNCHANGED <<pc, res, blk, cur, out>>
  /\ UNCHANGED <<build, op, dir, arg, first, last, target>>

\* An entry still to skip (929-932).
WalkSkip ==
  /\ pc = "walk"
  /\ blk < dir.count
  /\ ent < BlockCount(blk)
  /\ skipped # 0
  /\ IF NameUnderflows(dir, blk, ent, BlockCount(blk))
       THEN WalkNameFails
       ELSE skipped' = skipped - 1 /\ ent' = ent + 1 /\ UNCHANGED <<pc, res, blk, cur, out>>
  /\ UNCHANGED <<build, op, dir, arg, first, last, target>>

\* The handler given the offset of the entry itself, cur_offset being
\* incremented after the call.
WalkEmitOwnOffset ==
  /\ pc = "walk"
  /\ blk < dir.count
  /\ ent < BlockCount(blk)
  /\ skipped = 0
  /\ IF NameUnderflows(dir, blk, ent, BlockCount(blk))
       THEN WalkNameFails
       ELSE /\ cur' = cur + 1
            /\ out' = Append(out, [name |-> BlockEntry(blk, ent).name,
                                   nid |-> BlockEntry(blk, ent).nid, off |-> cur])
            /\ \/ Finish(Result("break", 0)) /\ UNCHANGED ent
               \/ ent' = ent + 1 /\ UNCHANGED <<pc, res>>
            /\ UNCHANGED <<blk, skipped>>
  /\ UNCHANGED <<build, op, dir, arg, first, last, target>>

\* An entry handed to the handler (934-949): cur_offset is incremented
\* first; Break returns Ok at once, Continue goes on.
WalkEmit ==
  /\ pc = "walk"
  /\ blk < dir.count
  /\ ent < BlockCount(blk)
  /\ skipped = 0
  /\ IF NameUnderflows(dir, blk, ent, BlockCount(blk))
       THEN WalkNameFails
       ELSE /\ cur' = cur + 1
            /\ out' = Append(out, [name |-> BlockEntry(blk, ent).name,
                                   nid |-> BlockEntry(blk, ent).nid, off |-> cur + 1])
            /\ \/ Finish(Result("break", 0)) /\ UNCHANGED ent
               \/ ent' = ent + 1 /\ UNCHANGED <<pc, res>>
            /\ UNCHANGED <<blk, skipped>>
  /\ UNCHANGED <<build, op, dir, arg, first, last, target>>

\* Every block walked: Ok (953).
WalkEnd ==
  /\ pc = "walk"
  /\ blk = dir.count
  /\ Finish(Result("ok", 0))
  /\ UNCHANGED <<build, op, dir, arg, first, last, target, blk, ent, skipped, cur, out>>

(***************************************************************************)
(* get_child_by_index (1004-1045): the children in entry order, "." and   *)
(* ".." left out, counted by cur_idx.                                     *)
(***************************************************************************)

\* The test that leaves "." and ".." out (1028-1030).
IsDotOnly(nm) == nm = DOT

IsDot(nm) == nm \in {DOT, DOTDOT}

\* get_child_by_index up to its loop (1005-1012).
IndexStart(d, idx) ==
  /\ pc = "idle"
  /\ op' = "index" /\ dir' = d /\ arg' = idx
  /\ pc' = "index"
  /\ blk' = 0 /\ ent' = 0 /\ cur' = 0
  /\ UNCHANGED <<build, first, last, target, skipped, out, res>>

\* The entries of block blk are done: the next block (1013-1019).
IndexNextBlock ==
  /\ pc = "index"
  /\ blk < dir.count
  /\ ent = BlockCount(blk)
  /\ blk' = blk + 1 /\ ent' = 0
  /\ UNCHANGED <<build, op, dir, arg, pc, first, last, target, skipped, cur, out, res>>

\* An entry named "." or ".." (1021-1030).
IndexDot ==
  /\ pc = "index"
  /\ blk < dir.count
  /\ ent < BlockCount(blk)
  /\ IsDot(BlockEntry(blk, ent).name)
  /\ IF NameUnderflows(dir, blk, ent, BlockCount(blk))
       THEN Finish(Overflow(Result("error", 0))) /\ UNCHANGED ent
       ELSE ent' = ent + 1 /\ UNCHANGED <<pc, res>>
  /\ UNCHANGED <<build, op, dir, arg, first, last, target, blk, skipped, cur, out>>

\* A child: the one asked for, or the next cur_idx (1021-1040).
IndexChild ==
  /\ pc = "index"
  /\ blk < dir.count
  /\ ent < BlockCount(blk)
  /\ ~IsDot(BlockEntry(blk, ent).name)
  /\ IF NameUnderflows(dir, blk, ent, BlockCount(blk))
       THEN Finish(Overflow(Result("error", 0))) /\ UNCHANGED <<ent, cur>>
     ELSE IF cur = arg
       THEN Finish(Result("found", BlockEntry(blk, ent).nid)) /\ UNCHANGED <<ent, cur>>
     ELSE cur' = cur + 1 /\ ent' = ent + 1 /\ UNCHANGED <<pc, res>>
  /\ UNCHANGED <<build, op, dir, arg, first, last, target, blk, skipped, out>>

\* Every block walked: ENOENT (1044).
IndexEnd ==
  /\ pc = "index"
  /\ blk = dir.count
  /\ Finish(Result("enoent", 0))
  /\ UNCHANGED <<build, op, dir, arg, first, last, target, blk, ent, skipped, cur, out>>

(***************************************************************************)
(* get_child_count of a directory (1048-1070).                            *)
(***************************************************************************)

\* A count that leaves out only one of "." and "..".
ChildCountDotOnly(n) == U32(n - 1)

\* child_cnt - 2 in u32: "." and ".." are not children.
ChildCount(n) == U32(n - 2)

\* get_child_count up to its loop (1053-1056); child_cnt is kept in cur.
CountStart(d) ==
  /\ pc = "idle"
  /\ op' = "count" /\ dir' = d /\ pc' = "count"
  /\ blk' = 0 /\ cur' = 0
  /\ UNCHANGED <<build, arg, first, last, target, ent, skipped, out, res>>

\* One iteration of the loop (1057-1066): get_entry(..).unwrap() of the
\* head entry of block blk, whose e_nameoff gives the block's entry count,
\* added to child_cnt in u32 (a debug build panics on overflow).
CountBlock ==
  /\ pc = "count"
  /\ blk < dir.count
  /\ IF ~Mapped(DataBlockOffset(dir, blk))
       THEN Finish(Result("panic", 0)) /\ UNCHANGED <<blk, cur>>
     ELSE IF cur + BlockCount(blk) >= 2 ^ CW /\ build = "debug"
       THEN Finish(Result("panic", 0)) /\ UNCHANGED <<blk, cur>>
     ELSE cur' = U32(cur + BlockCount(blk)) /\ blk' = blk + 1 /\ UNCHANGED <<pc, res>>
  /\ UNCHANGED <<build, op, dir, arg, first, last, target, ent, skipped, out>>

\* Every block counted: child_cnt - 2 (1067-1069), which underflows u32
\* for a directory of fewer than two entries.
CountEnd ==
  /\ pc = "count"
  /\ blk = dir.count
  /\ Finish(IF cur < 2 THEN Overflow(Result("count", ChildCount(cur)))
                       ELSE Result("count", ChildCount(cur)))
  /\ UNCHANGED <<build, op, dir, arg, first, last, target, blk, ent, skipped, cur, out>>

\* The caller takes the result and the call's locals go out of scope; the
\* next call may start.
Return ==
  /\ pc = "done"
  /\ pc' = "idle" /\ op' = "none" /\ res' = NoResult
  /\ dir' = (CHOOSE d \in Dirs : TRUE) /\ arg' = 0
  /\ first' = 0 /\ last' = 0 /\ target' = 0
  /\ blk' = 0 /\ ent' = 0 /\ skipped' = 0 /\ cur' = 0 /\ out' = << >>
  /\ UNCHANGED build

Next ==
  \/ \E d \in Dirs, nm \in LookupNames : LookupStart(d, nm)
  \/ BlockProbe \/ BlocksExit \/ EntryProbe \/ EntriesExit
  \/ \E d \in Dirs, off \in Offsets : WalkStart(d, off)
  \/ WalkNextBlock \/ WalkSkip \/ WalkEmit \/ WalkEnd
  \/ \E d \in Dirs, idx \in Indices : IndexStart(d, idx)
  \/ IndexNextBlock \/ IndexDot \/ IndexChild \/ IndexEnd
  \/ \E d \in Dirs : CountStart(d)
  \/ CountBlock \/ CountEnd
  \/ Return

\* The steps of a started call: the thread that made the call runs them.
CallStep ==
  \/ BlockProbe \/ BlocksExit \/ EntryProbe \/ EntriesExit
  \/ WalkNextBlock \/ WalkSkip \/ WalkEmit \/ WalkEnd
  \/ IndexNextBlock \/ IndexDot \/ IndexChild \/ IndexEnd
  \/ CountBlock \/ CountEnd

Spec == Init /\ [][Next]_vars /\ WF_vars(CallStep)

(***************************************************************************)
(* Properties.                                                            *)
(***************************************************************************)

ResultKinds == {"none", "found", "enoent", "error", "panic", "ok", "break", "count"}

\* Every variable holds a value of its type; the binary searches' bounds
\* stay usize values and walk_children_inodes' skipped stays a u64.
TypeOK ==
  /\ build \in {"debug", "release"}
  /\ op \in {"none", "lookup", "walk", "index", "count"}
  /\ dir \in Dirs
  /\ pc \in {"idle", "blocks", "entries", "walk", "index", "count", "done"}
  /\ first \in 0 .. 2 ^ U /\ last \in 0 .. 2 ^ U - 1 /\ target \in 0 .. 2 ^ U - 1
  /\ blk \in Nat /\ ent \in Nat /\ skipped \in Nat /\ cur \in Nat
  /\ out \in Seq([name : Nat, nid : Nat, off : Nat])
  /\ res \in [kind : ResultKinds, val : Nat]

\* No call of the directory reader panics: no usize or u64 underflow in
\* find_target_block, the in-block search, entry_name or get_child_count
\* (the spec: the core never panics on a valid image).
NeverPanics == res.kind # "panic"

\* P3: get_child_by_name returns the child of that name when the directory
\* has one, and ENOENT when it has none: never another inode and never an
\* error on a valid image.
LookupCorrect ==
  pc = "done" /\ op = "lookup" /\ res.kind # "panic" =>
    res = IF arg \in DirNames(dir) THEN Result("found", NidOf(dir, arg))
                                   ELSE Result("enoent", 0)

\* P4: walk_children_inodes resumed at offset o hands the handler the
\* entries after the first o, in order, each with the offset of the entry
\* after it, and reaches the last entry unless the handler breaks: a readdir
\* resumed at the offset it was last given misses and repeats nothing.
WalkFromOffset ==
  pc = "done" /\ op = "walk" /\ dir.count > 0 /\ res.kind # "panic" =>
    LET E == DirEntries(dir) IN
    /\ res.kind \in {"ok", "break"}
    /\ arg + Len(out) <= Len(E) \/ out = << >>
    /\ \A i \in 1 .. Len(out) :
         out[i] = [name |-> E[arg + i].name, nid |-> E[arg + i].nid, off |-> arg + i]
    /\ res.kind = "ok" => arg + Len(out) >= Len(E)

\* get_child_by_index(idx) returns child idx in entry order, "." and ".."
\* left out, and ENOENT past the last child.
IndexCorrect ==
  pc = "done" /\ op = "index" /\ res.kind # "panic" =>
    res = IF arg < Len(Children(dir)) THEN Result("found", Children(dir)[arg + 1].nid)
                                      ELSE Result("enoent", 0)

\* get_child_count of a directory is the number of children that
\* get_child_by_index enumerates.
CountCorrect ==
  pc = "done" /\ op = "count" /\ res.kind # "panic" =>
    res = Result("count", Len(Children(dir)))

\* Every call of the directory reader returns: the binary searches end even
\* where their bounds wrap, and so do the walks.
CallsReturn == pc # "idle" ~> pc = "done"

=============================================================================
