--------------------------- MODULE DirLookupProofs ---------------------------
(***************************************************************************)
(* Proofs about the directory reader: the type invariant, with the usize  *)
(* bounds of the two binary searches of get_child_by_name, holds for      *)
(* every image that meets DirLookupAssumption and BoundsAssumption.       *)
(***************************************************************************)
EXTENDS DirLookup, TLAPS

(* The in-block search only runs over a block the mapping holds. *)
EntriesMapped == pc = "entries" => Mapped(DataBlockOffset(dir, target))

TypeInv == TypeOK /\ EntriesMapped

LEMMA PowFacts ==
  /\ 2 ^ U \in Nat \ {0}
  /\ Slots \in 1 .. 2 ^ U
  /\ 2 ^ B \in 1 .. 2 ^ U
  /\ 2 ^ CW \in Nat \ {0}
  BY BoundsAssumption

(* Multiplication by a natural is monotone, and distributes over + 1. *)
LEMMA MulFacts ==
  ASSUME NEW a \in Nat, NEW b \in Nat, NEW c \in Nat
  PROVE  /\ a <= b => a * c <= b * c
         /\ (a + 1) * c = a * c + c
  BY SMTT(30)

LEMMA USizeRange ==
  ASSUME NEW x \in Int
  PROVE  USize(x) \in 0 .. 2 ^ U - 1
  BY PowFacts DEF USize

LEMMA U32Range ==
  ASSUME NEW x \in Int
  PROVE  U32(x) \in Nat
  BY PowFacts DEF U32

(* A directory of the image: its blocks are counted in usize and each of  *)
(* them lies in the mapping.                                               *)
LEMMA DirFacts ==
  ASSUME NEW d \in Dirs
  PROVE  /\ d \in Dir
         /\ d.count \in 0 .. 2 ^ U
         /\ \A k \in 0 .. d.count - 1 : Mapped(DataBlockOffset(d, k))
<1>1. d \in Dir /\ \A k \in 0 .. d.count - 1 : Mapped(DataBlockOffset(d, k))
  BY DirLookupAssumption
<1>2. d.count \in Nat /\ d.count <= Slots
  BY <1>1, BoundsAssumption DEF Dir
<1> QED
  BY <1>1, <1>2, PowFacts

(* A block of the mapping: a non-empty sequence of at most 2^B dirents. *)
LEMMA BlockFacts ==
  ASSUME NEW a, Mapped(a)
  PROVE  /\ Disk[a] \in Seq(Dirent)
         /\ Len(Disk[a]) \in 1 .. 2 ^ B
<1>1. Disk[a] \in Seq(Dirent) /\ Disk[a] # << >>
  BY DirLookupAssumption DEF Mapped
<1>2. Len(Disk[a]) <= 2 ^ B
  BY BoundsAssumption DEF Mapped
<1> QED
  BY <1>1, <1>2, PowFacts

(* The pivot of a running search lies between its bounds. *)
LEMMA PivotRange ==
  ASSUME first \in 0 .. 2 ^ U, last \in 0 .. 2 ^ U - 1, first <= last
  PROVE  Pivot \in first .. last
  BY PowFacts DEF Pivot

(* What get_entry reads in a block of the mapping is a dirent. *)
LEMMA EntryReadDirent ==
  ASSUME NEW t, NEW j \in Nat, Mapped(DataBlockOffset(dir, t))
  PROVE  EntryRead(t, j) \subseteq Dirent
<1>1. Disk[DataBlockOffset(dir, t)] \in Seq(Dirent)
  BY BlockFacts
<1>2. Garbage \cup {Unreadable} \subseteq Dirent
  BY DirLookupAssumption DEF Unreadable, Dirent
<1> QED
  BY <1>1, <1>2 DEF EntryRead

(* The dirent a walk or an index loop reads at (blk, ent). *)
LEMMA BlockEntryDirent ==
  ASSUME dir \in Dirs, NEW k \in Nat, k < dir.count,
         NEW j \in Nat, j < BlockCount(k)
  PROVE  BlockEntry(k, j) \in Dirent
<1>1. Mapped(DataBlockOffset(dir, k))
  BY DirFacts
<1> QED
  BY <1>1, BlockFacts DEF BlockEntry, BlockCount

LEMMA TypeInvInit == Init => TypeInv
<1> SUFFICES ASSUME Init PROVE TypeInv
  OBVIOUS
<1>1. (CHOOSE d \in Dirs : TRUE) \in Dirs
  BY DirLookupAssumption
<1> QED
  BY <1>1, PowFacts, DirLookupAssumption
  DEF Init, TypeInv, TypeOK, EntriesMapped, NoResult, Result, ResultKinds

(* TypeInv of the next state, one variable at a time. *)
LEMMA TypeInvIntro ==
  ASSUME build' \in {"debug", "release"},
         op' \in {"none", "lookup", "walk", "index", "count"},
         dir' \in Dirs,
         pc' \in {"idle", "blocks", "entries", "walk", "index", "count", "done"},
         first' \in 0 .. 2 ^ U, last' \in 0 .. 2 ^ U - 1,
         target' \in 0 .. 2 ^ U - 1,
         blk' \in Nat, ent' \in Nat, skipped' \in Nat, cur' \in Nat,
         out' \in Seq([name : Nat, nid : Nat, off : Nat]),
         res' \in [kind : ResultKinds, val : Nat],
         pc' = "entries" => Mapped(DataBlockOffset(dir', target'))
  PROVE  TypeInv'
  BY DEF TypeInv, TypeOK, EntriesMapped

LEMMA TypeInvNext == TypeInv /\ [Next]_vars => TypeInv'
<1> SUFFICES ASSUME TypeInv, [Next]_vars PROVE TypeInv'
  OBVIOUS
<1> DEFINE Res == [kind : ResultKinds, val : Nat]
           Out == Seq([name : Nat, nid : Nat, off : Nat])
<1>0. /\ build \in {"debug", "release"}
      /\ op \in {"none", "lookup", "walk", "index", "count"}
      /\ dir \in Dirs /\ dir \in Dir /\ dir.count \in 0 .. 2 ^ U
      /\ pc \in {"idle", "blocks", "entries", "walk", "index", "count", "done"}
      /\ first \in 0 .. 2 ^ U /\ last \in 0 .. 2 ^ U - 1
      /\ target \in 0 .. 2 ^ U - 1
      /\ blk \in Nat /\ ent \in Nat /\ skipped \in Nat /\ cur \in Nat
      /\ out \in Out
      /\ res \in Res
      /\ EntriesMapped
  BY DirFacts DEF TypeInv, TypeOK
<1>p. first <= last => Pivot \in first .. last
  BY <1>0, PivotRange
<1>r. \A k \in ResultKinds : \A v \in Nat :
        /\ Result(k, v) \in Res
        /\ Overflow(Result(k, v)) \in Res
  BY DEF Result, Overflow, ResultKinds
<1>k. {"none", "found", "enoent", "error", "ok", "break", "count", "panic"} \subseteq ResultKinds
  BY DEF ResultKinds
<1>1. ASSUME NEW d \in Dirs, NEW nm \in LookupNames, LookupStart(d, nm)
      PROVE  TypeInv'
  <2>1. d \in Dir /\ d.count \in 0 .. 2 ^ U
    BY DirFacts
  <2>2. CASE d.count = 0
    <3>1. res' \in Res
      BY <1>1, <2>2, <1>r, <1>k DEF LookupStart, Finish
    <3>2. /\ op' = "lookup" /\ dir' = d /\ target' = 0 /\ pc' = "done"
          /\ UNCHANGED <<build, first, last, blk, ent, skipped, cur, out>>
      BY <1>1, <2>2 DEF LookupStart, Finish
    <3> QED
      BY <3>1, <3>2, <1>0, PowFacts, TypeInvIntro
  <2>3. CASE d.count # 0
    <3>1. d.count - 1 \in 0 .. 2 ^ U - 1
      BY <2>1, <2>3, PowFacts
    <3>2. /\ op' = "lookup" /\ dir' = d /\ target' = 0 /\ pc' = "blocks"
          /\ first' = 0 /\ last' = d.count - 1
          /\ UNCHANGED <<build, res, blk, ent, skipped, cur, out>>
      BY <1>1, <2>3 DEF LookupStart
    <3> QED
      BY <3>1, <3>2, <1>0, PowFacts, TypeInvIntro
  <2> QED
    BY <2>2, <2>3
<1>2. ASSUME NEW t \in 0 .. 2 ^ U - 1, EnterBlock(t),
             UNCHANGED <<build, op, dir, arg, blk, ent, skipped, cur, out>>
      PROVE  TypeInv'
  <2> DEFINE a == DataBlockOffset(dir, t)
  <2>1. CASE Mapped(a)
    <3>1. Len(Disk[a]) - 1 \in 0 .. 2 ^ U - 1
      BY <2>1, BlockFacts, PowFacts
    <3>2. /\ pc' = "entries" /\ target' = t /\ first' = 0
          /\ last' = Len(Disk[a]) - 1 /\ res' = res
      BY <1>2, <2>1 DEF EnterBlock
    <3> QED
      BY <1>2, <2>1, <3>1, <3>2, <1>0, PowFacts, TypeInvIntro
  <2>2. CASE ~Mapped(a)
    <3>1. pc' = "done" /\ res' \in Res /\ UNCHANGED <<target, first, last>>
      BY <1>2, <2>2, <1>r, <1>k DEF EnterBlock, Finish
    <3> QED
      BY <1>2, <3>1, <1>0, TypeInvIntro
  <2> QED
    BY <2>1, <2>2
<1>3. CASE BlockProbe
  <2> DEFINE a == DataBlockOffset(dir, Pivot)
             n == Len(Disk[a])
  <2>0. first <= last /\ Pivot \in 0 .. 2 ^ U - 1
    BY <1>3, <1>p, <1>0, PowFacts DEF BlockProbe
  <2>u. UNCHANGED <<build, op, dir, arg, blk, ent, skipped, cur, out>>
    BY <1>3 DEF BlockProbe
  <2>1. CASE ~Mapped(a) \/ NameUnderflows(dir, Pivot, n - 1, n)
    <3>0. Result("enoent", 0) \in Res /\ Overflow(Result("enoent", 0)) \in Res
      BY DEF Result, Overflow, ResultKinds
    <3>1. pc' = "done" /\ res' \in Res /\ UNCHANGED <<first, last, target>>
      <4>1. CASE ~Mapped(a)
        BY <1>3, <4>1, <3>0 DEF BlockProbe, Finish
      <4>2. CASE Mapped(a) /\ NameUnderflows(dir, Pivot, n - 1, n)
        BY <1>3, <4>2, <3>0 DEF BlockProbe, Finish
      <4> QED
        BY <2>1, <4>1, <4>2
    <3> QED
      BY <2>u, <3>1, <1>0, TypeInvIntro
  <2>2. CASE Mapped(a) /\ ~NameUnderflows(dir, Pivot, n - 1, n)
             /\ InBlock(Disk[a][1].name, Disk[a][n].name, arg)
    <3>1. EnterBlock(Pivot)
      BY <1>3, <2>2 DEF BlockProbe
    <3> QED
      BY <3>1, <2>0, <2>u, <1>2
  <2>3. CASE Mapped(a) /\ ~NameUnderflows(dir, Pivot, n - 1, n)
             /\ ~InBlock(Disk[a][1].name, Disk[a][n].name, arg)
             /\ Disk[a][1].name > arg /\ Pivot = 0 /\ build = "debug"
    <3>1. pc' = "done" /\ res' \in Res /\ UNCHANGED <<first, last, target>>
      BY <1>3, <2>3, <1>r, <1>k DEF BlockProbe, Finish
    <3> QED
      BY <2>u, <3>1, <1>0, TypeInvIntro
  <2>4. CASE Mapped(a) /\ ~NameUnderflows(dir, Pivot, n - 1, n)
             /\ ~InBlock(Disk[a][1].name, Disk[a][n].name, arg)
             /\ Disk[a][1].name > arg /\ ~(Pivot = 0 /\ build = "debug")
    <3>1. last' = USize(Pivot - 1) /\ UNCHANGED <<pc, res, first, target>>
      BY <1>3, <2>4 DEF BlockProbe
    <3>2. USize(Pivot - 1) \in 0 .. 2 ^ U - 1
      BY <2>0, USizeRange
    <3> QED
      BY <2>u, <3>1, <3>2, <1>0, TypeInvIntro DEF EntriesMapped
  <2>5. CASE Mapped(a) /\ ~NameUnderflows(dir, Pivot, n - 1, n)
             /\ ~InBlock(Disk[a][1].name, Disk[a][n].name, arg)
             /\ ~(Disk[a][1].name > arg)
    <3>1. first' = Pivot + 1 /\ UNCHANGED <<pc, res, last, target>>
      BY <1>3, <2>5 DEF BlockProbe
    <3>2. Pivot + 1 \in 0 .. 2 ^ U
      BY <2>0, PowFacts
    <3> QED
      BY <2>u, <3>1, <3>2, <1>0, TypeInvIntro DEF EntriesMapped
  <2> QED
    BY <2>1, <2>2, <2>3, <2>4, <2>5
<1>4. CASE BlocksExit
  BY <1>4, <1>2, <1>0 DEF BlocksExit
<1>5. CASE EntryProbe
  <2> DEFINE n == Len(Disk[DataBlockOffset(dir, target)])
  <2>0. first <= last /\ Pivot \in 0 .. 2 ^ U - 1 /\ pc = "entries"
    BY <1>5, <1>p, <1>0, PowFacts DEF EntryProbe
  <2>u. UNCHANGED <<build, op, dir, arg, target, blk, ent, skipped, cur, out>>
    BY <1>5 DEF EntryProbe
  <2>m. EntryRead(target, Pivot) \subseteq Dirent
    BY <2>0, <1>0, EntryReadDirent DEF EntriesMapped
  <2> PICK de \in EntryRead(target, Pivot) :
        IF NameUnderflows(dir, target, Pivot, n)
          THEN Finish(Overflow(Result("error", 0))) /\ UNCHANGED <<first, last>>
        ELSE IF de = Unreadable
          THEN Finish(Result("error", 0)) /\ UNCHANGED <<first, last>>
        ELSE IF de.name = arg
          THEN Finish(Result("found", de.nid)) /\ UNCHANGED <<first, last>>
        ELSE IF de.name < arg
          THEN first' = Pivot + 1 /\ UNCHANGED <<pc, res, last>>
        ELSE IF Pivot = 0 /\ build = "debug"
          THEN Finish(Result("panic", 0)) /\ UNCHANGED <<first, last>>
        ELSE last' = USize(Pivot - 1) /\ UNCHANGED <<pc, res, first>>
    BY <1>5 DEF EntryProbe
  <2>d. de.nid \in Nat
    BY <2>m DEF Dirent
  <2>1. CASE \/ NameUnderflows(dir, target, Pivot, n)
             \/ ~NameUnderflows(dir, target, Pivot, n) /\ de = Unreadable
             \/ ~NameUnderflows(dir, target, Pivot, n) /\ de # Unreadable
                /\ de.name = arg
             \/ ~NameUnderflows(dir, target, Pivot, n) /\ de # Unreadable
                /\ de.name # arg /\ ~(de.name < arg) /\ Pivot = 0 /\ build = "debug"
    <3>1. \E r \in Res : Finish(r) /\ UNCHANGED <<first, last>>
      <4>1. CASE NameUnderflows(dir, target, Pivot, n)
        BY <4>1, <1>r, <1>k
      <4>2. CASE ~NameUnderflows(dir, target, Pivot, n) /\ de = Unreadable
        BY <4>2, <1>r, <1>k
      <4>3. CASE ~NameUnderflows(dir, target, Pivot, n) /\ de # Unreadable
                 /\ de.name = arg
        BY <4>3, <2>d, <1>r, <1>k
      <4>4. CASE ~NameUnderflows(dir, target, Pivot, n) /\ de # Unreadable
                 /\ de.name # arg /\ ~(de.name < arg) /\ Pivot = 0 /\ build = "debug"
        BY <4>4, <1>r, <1>k
      <4> QED
        BY <2>1, <4>1, <4>2, <4>3, <4>4
    <3>2. pc' = "done" /\ res' \in Res /\ UNCHANGED <<first, last>>
      BY <3>1 DEF Finish
    <3> QED
      BY <2>u, <3>2, <1>0, TypeInvIntro
  <2>2. CASE ~NameUnderflows(dir, target, Pivot, n) /\ de # Unreadable
             /\ de.name # arg /\ de.name < arg
    <3>1. first' = Pivot + 1 /\ UNCHANGED <<pc, res, last>>
      BY <2>2
    <3>2. Pivot + 1 \in 0 .. 2 ^ U
      BY <2>0, PowFacts
    <3> QED
      BY <2>u, <3>1, <3>2, <1>0, TypeInvIntro DEF EntriesMapped
  <2>3. CASE ~NameUnderflows(dir, target, Pivot, n) /\ de # Unreadable
             /\ de.name # arg /\ ~(de.name < arg) /\ ~(Pivot = 0 /\ build = "debug")
    <3>1. last' = USize(Pivot - 1) /\ UNCHANGED <<pc, res, first>>
      BY <2>3
    <3>2. Pivot - 1 \in Int
      BY <2>0, PowFacts
    <3>3. USize(Pivot - 1) \in 0 .. 2 ^ U - 1
      BY <3>2, USizeRange
    <3> QED
      BY <2>u, <3>1, <3>3, <1>0, TypeInvIntro DEF EntriesMapped
  <2> QED
    BY <2>1, <2>2, <2>3
<1>6. CASE EntriesExit
  <2>1. pc' = "done" /\ res' \in Res
        /\ UNCHANGED <<build, op, dir, arg, first, last, target, blk, ent, skipped, cur, out>>
    BY <1>6, <1>r, <1>k DEF EntriesExit, Finish
  <2> QED
    BY <2>1, <1>0, TypeInvIntro
<1>7. ASSUME NEW d \in Dirs, NEW off \in Offsets, WalkStart(d, off)
      PROVE  TypeInv'
  <2>1. off \in Nat
    BY BoundsAssumption
  <2>2. /\ op' = "walk" /\ dir' = d
        /\ \/ pc' = "done" /\ res' = Result("enoent", 0)
           \/ pc' = "walk" /\ res' = res
        /\ blk' = 0 /\ ent' = 0 /\ skipped' = off /\ cur' = off /\ out' = << >>
        /\ UNCHANGED <<build, first, last, target>>
    BY <1>7 DEF WalkStart, Finish
  <2>3. Result("enoent", 0) \in Res
    BY DEF Result, ResultKinds
  <2> QED
    BY <2>1, <2>2, <2>3, <1>0, TypeInvIntro
<1>8. CASE WalkNextBlock \/ IndexNextBlock
  <2>1. /\ blk' = blk + 1 /\ ent' = 0
        /\ UNCHANGED <<build, op, dir, arg, pc, first, last, target, skipped, cur, out, res>>
    BY <1>8 DEF WalkNextBlock, IndexNextBlock
  <2> QED
    BY <2>1, <1>0, TypeInvIntro DEF EntriesMapped
(* The walks' and get_child_by_index's error at a name that underflows. *)
<1>9. ASSUME pc \in {"walk", "index"}, pc' = "done",
             res' \in {Overflow(Result("error", 0))},
             UNCHANGED <<build, op, dir, arg, first, last, target, blk, ent, skipped, cur, out>>
      PROVE  TypeInv'
  <2>1. res' \in Res
    BY <1>9, <1>r, <1>k
  <2> QED
    BY <1>9, <2>1, <1>0, TypeInvIntro
<1>10. CASE WalkSkip
  <2>1. CASE NameUnderflows(dir, blk, ent, BlockCount(blk))
    BY <1>10, <2>1, <1>9 DEF WalkSkip, WalkNameFails, Finish
  <2>2. CASE ~NameUnderflows(dir, blk, ent, BlockCount(blk))
    <3>1. /\ skipped # 0 /\ skipped' = skipped - 1 /\ ent' = ent + 1
          /\ UNCHANGED <<build, op, dir, arg, pc, first, last, target, blk, cur, out, res>>
      BY <1>10, <2>2 DEF WalkSkip
    <3> QED
      BY <3>1, <1>0, TypeInvIntro DEF EntriesMapped
  <2> QED
    BY <2>1, <2>2
<1>11. CASE WalkEmit
  <2>0. blk < dir.count /\ ent < BlockCount(blk) /\ pc = "walk"
    BY <1>11 DEF WalkEmit
  <2>1. CASE NameUnderflows(dir, blk, ent, BlockCount(blk))
    BY <1>11, <2>0, <2>1, <1>9 DEF WalkEmit, WalkNameFails, Finish
  <2>2. CASE ~NameUnderflows(dir, blk, ent, BlockCount(blk))
    <3>1. BlockEntry(blk, ent) \in Dirent
      BY <2>0, <1>0, BlockEntryDirent
    <3>2. out' \in Out
      <4>1. out' = Append(out, [name |-> BlockEntry(blk, ent).name,
                                nid |-> BlockEntry(blk, ent).nid, off |-> cur + 1])
        BY <1>11, <2>2 DEF WalkEmit
      <4> QED
        BY <4>1, <3>1, <1>0 DEF Dirent
    <3>3. /\ cur' = cur + 1
          /\ UNCHANGED <<build, op, dir, arg, first, last, target, blk, skipped>>
          /\ \/ pc' = "done" /\ res' = Result("break", 0) /\ ent' = ent
             \/ ent' = ent + 1 /\ pc' = pc /\ res' = res
      BY <1>11, <2>2 DEF WalkEmit, Finish
    <3>4. Result("break", 0) \in Res
      BY DEF Result, ResultKinds
    <3> QED
      BY <3>2, <3>3, <3>4, <2>0, <1>0, TypeInvIntro
  <2> QED
    BY <2>1, <2>2
<1>12. CASE WalkEnd \/ IndexEnd
  <2>1. /\ pc' = "done" /\ res' \in Res
        /\ UNCHANGED <<build, op, dir, arg, first, last, target, blk, ent, skipped, cur, out>>
    BY <1>12, <1>r, <1>k DEF WalkEnd, IndexEnd, Finish
  <2> QED
    BY <2>1, <1>0, TypeInvIntro
<1>13. ASSUME NEW d \in Dirs, NEW idx \in Indices, IndexStart(d, idx)
       PROVE  TypeInv'
  <2>1. /\ op' = "index" /\ dir' = d /\ pc' = "index"
        /\ blk' = 0 /\ ent' = 0 /\ cur' = 0
        /\ UNCHANGED <<build, first, last, target, skipped, out, res>>
    BY <1>13 DEF IndexStart
  <2> QED
    BY <2>1, <1>0, TypeInvIntro
<1>14. CASE IndexDot
  <2>1. CASE NameUnderflows(dir, blk, ent, BlockCount(blk))
    BY <1>14, <2>1, <1>9 DEF IndexDot, Finish
  <2>2. CASE ~NameUnderflows(dir, blk, ent, BlockCount(blk))
    <3>1. /\ ent' = ent + 1
          /\ UNCHANGED <<build, op, dir, arg, pc, first, last, target, blk, skipped, cur, out, res>>
      BY <1>14, <2>2 DEF IndexDot
    <3> QED
      BY <3>1, <1>0, TypeInvIntro DEF EntriesMapped
  <2> QED
    BY <2>1, <2>2
<1>15. CASE IndexChild
  <2>0. blk < dir.count /\ ent < BlockCount(blk) /\ pc = "index"
    BY <1>15 DEF IndexChild
  <2>u. UNCHANGED <<build, op, dir, arg, first, last, target, blk, skipped, out>>
    BY <1>15 DEF IndexChild
  <2>1. CASE NameUnderflows(dir, blk, ent, BlockCount(blk))
    BY <1>15, <2>0, <2>1, <1>9 DEF IndexChild, Finish
  <2>2. CASE ~NameUnderflows(dir, blk, ent, BlockCount(blk)) /\ cur = arg
    <3>1. BlockEntry(blk, ent).nid \in Nat
      BY <2>0, <1>0, BlockEntryDirent DEF Dirent
    <3>2. Result("found", BlockEntry(blk, ent).nid) \in Res
      BY <3>1 DEF Result, ResultKinds
    <3>3. pc' = "done" /\ res' = Result("found", BlockEntry(blk, ent).nid)
          /\ UNCHANGED <<ent, cur>>
      BY <1>15, <2>2 DEF IndexChild, Finish
    <3>4. pc' = "done" /\ res' \in Res /\ UNCHANGED <<ent, cur>>
      BY <3>2, <3>3
    <3> QED
      BY <2>u, <3>4, <1>0, TypeInvIntro
  <2>3. CASE ~NameUnderflows(dir, blk, ent, BlockCount(blk)) /\ cur # arg
    <3>1. cur' = cur + 1 /\ ent' = ent + 1 /\ UNCHANGED <<pc, res>>
      BY <1>15, <2>3 DEF IndexChild
    <3> QED
      BY <2>u, <3>1, <1>0, TypeInvIntro DEF EntriesMapped
  <2> QED
    BY <2>1, <2>2, <2>3
<1>16. ASSUME NEW d \in Dirs, CountStart(d)
       PROVE  TypeInv'
  <2>1. /\ op' = "count" /\ dir' = d /\ pc' = "count" /\ blk' = 0 /\ cur' = 0
        /\ UNCHANGED <<build, first, last, target, ent, skipped, out, res>>
    BY <1>16 DEF CountStart
  <2> QED
    BY <2>1, <1>0, TypeInvIntro
<1>17. CASE CountBlock
  <2>u. UNCHANGED <<build, op, dir, arg, first, last, target, ent, skipped, out>>
    BY <1>17 DEF CountBlock
  <2>1. CASE \/ ~Mapped(DataBlockOffset(dir, blk))
             \/ /\ cur + BlockCount(blk) >= 2 ^ CW
                /\ build = "debug"
    <3>1. pc' = "done" /\ res' \in Res /\ UNCHANGED <<blk, cur>>
      BY <1>17, <2>1, <1>r, <1>k DEF CountBlock, Finish
    <3> QED
      BY <2>u, <3>1, <1>0, TypeInvIntro
  <2>2. CASE Mapped(DataBlockOffset(dir, blk))
              /\ ~(cur + BlockCount(blk) >= 2 ^ CW /\ build = "debug")
    <3>1. cur' = U32(cur + BlockCount(blk)) /\ blk' = blk + 1 /\ UNCHANGED <<pc, res>>
      BY <1>17, <2>2 DEF CountBlock
    <3>2. BlockCount(blk) \in Nat
      BY <2>2, BlockFacts DEF BlockCount
    <3>3. U32(cur + BlockCount(blk)) \in Nat
      <4>1. cur + BlockCount(blk) \in Int
        BY <3>2, <1>0
      <4> QED
        BY <4>1, U32Range
    <3> QED
      BY <2>u, <3>1, <3>3, <1>0, TypeInvIntro DEF EntriesMapped
  <2> QED
    BY <2>1, <2>2
<1>18. CASE CountEnd
  <2>1. ChildCount(cur) \in Nat
    <3>1. cur - 2 \in Int
      BY <1>0
    <3> QED
      BY <3>1, U32Range DEF ChildCount
  <2>2. /\ pc' = "done" /\ res' \in Res
        /\ UNCHANGED <<build, op, dir, arg, first, last, target, blk, ent, skipped, cur, out>>
    BY <1>18, <2>1, <1>r, <1>k DEF CountEnd, Finish
  <2> QED
    BY <2>2, <1>0, TypeInvIntro
<1>19. CASE Return
  <2>1. (CHOOSE d \in Dirs : TRUE) \in Dirs
    BY DirLookupAssumption
  <2>2. /\ pc' = "idle" /\ op' = "none" /\ res' = NoResult
        /\ dir' = (CHOOSE d \in Dirs : TRUE)
        /\ first' = 0 /\ last' = 0 /\ target' = 0
        /\ blk' = 0 /\ ent' = 0 /\ skipped' = 0 /\ cur' = 0 /\ out' = << >>
        /\ UNCHANGED build
    BY <1>19 DEF Return
  <2>3. NoResult \in Res
    BY <1>r, <1>k DEF NoResult
  <2> QED
    BY <2>1, <2>2, <2>3, <1>0, PowFacts, TypeInvIntro
<1>20. CASE UNCHANGED vars
  BY <1>20, <1>0, TypeInvIntro DEF vars, EntriesMapped
<1> QED
  BY <1>1, <1>3, <1>4, <1>5, <1>6, <1>7, <1>8, <1>10, <1>11, <1>12,
     <1>13, <1>14, <1>15, <1>16, <1>17, <1>18, <1>19, <1>20 DEF Next


(* TypeOK for every image that meets the assumptions: every variable of   *)
(* the directory reader keeps its type, the bounds first and last of the  *)
(* binary searches in find_target_block and get_child_by_name stay usize  *)
(* values (last = pivot - 1 wraps rather than leaves the type) and        *)
(* walk_children_inodes' skipped never goes below zero.                  *)
THEOREM TypeCorrect == Spec => []TypeOK
<1>1. TypeInv => TypeOK
  BY DEF TypeInv
<1> QED
  BY <1>1, TypeInvInit, TypeInvNext, PTL DEF Spec

-----------------------------------------------------------------------------
(* The images on which the directory reader is meant never to panic: no   *)
(* directory's size is a multiple of the block size (else entry_name      *)
(* underflows, direct_v6.rs:386), every directory holds at least two      *)
(* entries ("." and ".."), its entries fit a u32 count, and no name looked *)
(* up sorts below the first entry of the directory (else                  *)
(* find_target_block's last = pivot - 1 underflows, direct_v6.rs:561).    *)
ValidImage ==
  /\ \A d \in Dirs : ~d.full
  /\ \A d \in Dirs : d.count * 2 ^ B < 2 ^ CW
  /\ \A d \in Dirs :
        \/ d.count >= 2
        \/ d.count = 1 /\ Len(Disk[DataBlockOffset(d, 0)]) >= 2
  /\ \A d \in Dirs, nm \in LookupNames :
        Disk[DataBlockOffset(d, 0)][1].name <= nm

(* The head entry of the block a search is in, as NoPanicInv uses it. *)
HeadName(t) == Disk[DataBlockOffset(dir, t)][1].name

(* What keeps the reader from panicking: the block search has not left     *)
(* block 0 as its fallback target, the in-block search runs in a block     *)
(* whose head entry is not above the name, and get_child_count's          *)
(* child_cnt lies between the number of blocks counted (each holds a      *)
(* dirent) and 2^B per block.                                              *)
NoPanicInv ==
  /\ TypeInv
  /\ res.kind # "panic"
  /\ pc \in {"blocks", "entries"} => arg \in LookupNames /\ dir.count >= 1
  /\ pc = "blocks" => target = 0
  /\ pc = "entries" => HeadName(target) <= arg
  /\ pc = "count" =>
       /\ blk <= dir.count
       /\ blk <= cur /\ cur <= blk * 2 ^ B
       /\ blk >= 1 => cur >= Len(Disk[DataBlockOffset(dir, 0)])

LEMMA NoPanicInvInit == Init => NoPanicInv
  BY TypeInvInit DEF Init, NoPanicInv, NoResult, Result

(* A step that ends the call with a result other than a panic. *)
LEMMA NoPanicFinish ==
  ASSUME TypeInv', pc' = "done", res'.kind # "panic"
  PROVE  NoPanicInv'
  BY DEF NoPanicInv

(* A step inside a walk, an index loop or between calls. *)
LEMMA NoPanicQuiet ==
  ASSUME TypeInv', pc' \in {"idle", "walk", "index"}, res'.kind # "panic"
  PROVE  NoPanicInv'
  BY DEF NoPanicInv

LEMMA NoPanicInvNext ==
  ASSUME ValidImage
  PROVE  NoPanicInv /\ [Next]_vars => NoPanicInv'
<1> SUFFICES ASSUME NoPanicInv, [Next]_vars PROVE NoPanicInv'
  OBVIOUS
<1>t. TypeInv /\ TypeInv'
  BY TypeInvNext DEF NoPanicInv
<1>0. /\ dir \in Dirs /\ dir \in Dir /\ dir.count \in 0 .. 2 ^ U
      /\ first \in 0 .. 2 ^ U /\ last \in 0 .. 2 ^ U - 1
      /\ blk \in Nat /\ cur \in Nat
      /\ res.kind # "panic"
      /\ EntriesMapped
  BY <1>t, DirFacts DEF TypeInv, TypeOK, NoPanicInv
<1>v. /\ ~dir.full
      /\ dir.count * 2 ^ B < 2 ^ CW
      /\ \/ dir.count >= 2
         \/ dir.count = 1 /\ Len(Disk[DataBlockOffset(dir, 0)]) >= 2
      /\ \A nm \in LookupNames : HeadName(0) <= nm
  BY <1>0 DEF ValidImage, HeadName
<1>n. \A k, j, n \in Int : ~NameUnderflows(dir, k, j, n)
  BY <1>v DEF NameUnderflows
<1>p. first <= last => Pivot \in first .. last
  BY <1>0, PivotRange
(* Entering block t of a lookup whose head entry is not above the name. *)
<1>e. ASSUME NEW t \in 0 .. 2 ^ U - 1, pc = "blocks", EnterBlock(t),
             Mapped(DataBlockOffset(dir, t)) => HeadName(t) <= arg,
             UNCHANGED <<build, op, dir, arg, blk, ent, skipped, cur, out>>
      PROVE  NoPanicInv'
  <2>1. CASE Mapped(DataBlockOffset(dir, t))
    <3>1. pc' = "entries" /\ target' = t /\ res' = res
      BY <2>1, <1>e DEF EnterBlock
    <3>2. arg \in LookupNames /\ dir.count >= 1
      BY <1>e DEF NoPanicInv
    <3> QED
      BY <1>e, <2>1, <3>1, <3>2, <1>t, <1>0 DEF NoPanicInv, HeadName
  <2>2. CASE ~Mapped(DataBlockOffset(dir, t))
    <3>1. pc' = "done" /\ res' = Result("error", 0)
      BY <2>2, <1>e DEF EnterBlock, Finish
    <3> QED
      BY <3>1, <1>t, NoPanicFinish DEF Result
  <2> QED
    BY <2>1, <2>2
<1>1. ASSUME NEW d \in Dirs, NEW nm \in LookupNames, LookupStart(d, nm)
      PROVE  NoPanicInv'
  <2>1. CASE d.count = 0
    <3>1. pc' = "done" /\ res' = Result("enoent", 0)
      BY <1>1, <2>1 DEF LookupStart, Finish
    <3> QED
      BY <3>1, <1>t, NoPanicFinish DEF Result
  <2>2. CASE d.count # 0
    <3>1. /\ pc' = "blocks" /\ arg' = nm /\ dir' = d /\ target' = 0 /\ res' = res
      BY <1>1, <2>2 DEF LookupStart
    <3>2. d.count \in Nat
      BY DirFacts
    <3> QED
      BY <2>2, <3>1, <3>2, <1>t, <1>0 DEF NoPanicInv
  <2> QED
    BY <2>1, <2>2
<1>2. CASE BlockProbe
  <2> DEFINE a == DataBlockOffset(dir, Pivot)
             n == Len(Disk[a])
  <2>0. /\ pc = "blocks" /\ first <= last /\ Pivot \in 0 .. 2 ^ U - 1
        /\ arg \in LookupNames /\ dir.count >= 1 /\ target = 0
    BY <1>2, <1>p, <1>0, PowFacts DEF BlockProbe, NoPanicInv
  <2>u. UNCHANGED <<build, op, dir, arg, blk, ent, skipped, cur, out>>
    BY <1>2 DEF BlockProbe
  <2>h. Pivot = 0 => Disk[a][1].name <= arg
    BY <2>0, <1>v DEF HeadName
  <2>1. CASE ~Mapped(a)
    <3>1. pc' = "done" /\ res' = Result("enoent", 0)
      BY <1>2, <2>1 DEF BlockProbe, Finish
    <3> QED
      BY <3>1, <1>t, NoPanicFinish DEF Result
  <2>2. CASE Mapped(a) /\ InBlock(Disk[a][1].name, Disk[a][n].name, arg)
    <3>1. n \in Int
      BY <2>2, BlockFacts
    <3>2. EnterBlock(Pivot)
      BY <1>2, <2>2, <1>n, <2>0, <3>1 DEF BlockProbe
    <3>3. Mapped(DataBlockOffset(dir, Pivot)) => HeadName(Pivot) <= arg
      BY <2>2 DEF InBlock, HeadName
    <3> QED
      BY <3>2, <3>3, <2>0, <2>u, <1>e
  <2>3. CASE Mapped(a) /\ ~InBlock(Disk[a][1].name, Disk[a][n].name, arg)
    <3>1. n \in Int
      BY <2>3, BlockFacts
    <3>2. \/ pc' = pc /\ res' = res /\ target' = target
          \/ pc' = "done" /\ res' = Result("panic", 0) /\ Pivot = 0 /\ Disk[a][1].name > arg
      BY <1>2, <2>3, <1>n, <2>0, <3>1 DEF BlockProbe, Finish
    <3>3. Disk[a][1].name \in Nat
      <4>1. Disk[a] \in Seq(Dirent) /\ Len(Disk[a]) \in 1 .. 2 ^ B
        BY <2>3, BlockFacts
      <4>2. Disk[a][1] \in Dirent
        BY <4>1, PowFacts
      <4> QED
        BY <4>2 DEF Dirent
    <3>4. arg \in Nat
      BY <2>0, BoundsAssumption
    <3>5. pc' = pc /\ res' = res /\ target' = target
      BY <3>2, <3>3, <3>4, <2>h
    <3> QED
      BY <3>5, <2>0, <2>u, <1>t, <1>0 DEF NoPanicInv
  <2> QED
    BY <2>1, <2>2, <2>3
<1>3. CASE BlocksExit
  <2>1. pc = "blocks" /\ target = 0 /\ arg \in LookupNames
    BY <1>3 DEF BlocksExit, NoPanicInv
  <2>2. Mapped(DataBlockOffset(dir, target)) => HeadName(target) <= arg
    BY <2>1, <1>v
  <2> QED
    BY <1>3, <2>1, <2>2, PowFacts, <1>e DEF BlocksExit
<1>4. CASE EntryProbe
  <2> DEFINE a == DataBlockOffset(dir, target)
             n == Len(Disk[a])
  <2>0. /\ pc = "entries" /\ first <= last /\ Pivot \in 0 .. 2 ^ U - 1
        /\ Mapped(a) /\ HeadName(target) <= arg /\ arg \in LookupNames
    BY <1>4, <1>p, <1>0, PowFacts DEF EntryProbe, EntriesMapped, NoPanicInv
  <2>u. UNCHANGED <<build, op, dir, arg, target, blk, ent, skipped, cur, out>>
    BY <1>4 DEF EntryProbe
  <2>b. Disk[a] \in Seq(Dirent) /\ n \in 1 .. 2 ^ B
    BY <2>0, BlockFacts
  <2> PICK de \in EntryRead(target, Pivot) :
        IF NameUnderflows(dir, target, Pivot, n)
          THEN Finish(Overflow(Result("error", 0))) /\ UNCHANGED <<first, last>>
        ELSE IF de = Unreadable
          THEN Finish(Result("error", 0)) /\ UNCHANGED <<first, last>>
        ELSE IF de.name = arg
          THEN Finish(Result("found", de.nid)) /\ UNCHANGED <<first, last>>
        ELSE IF de.name < arg
          THEN first' = Pivot + 1 /\ UNCHANGED <<pc, res, last>>
        ELSE IF Pivot = 0 /\ build = "debug"
          THEN Finish(Result("panic", 0)) /\ UNCHANGED <<first, last>>
        ELSE last' = USize(Pivot - 1) /\ UNCHANGED <<pc, res, first>>
    BY <1>4 DEF EntryProbe
  <2>n. ~NameUnderflows(dir, target, Pivot, n)
    BY <1>v DEF NameUnderflows
  (* At pivot 0 the entry read is the block's head, not above the name. *)
  <2>h. Pivot = 0 => de.name <= arg
    <3>1. Pivot = 0 => EntryRead(target, Pivot) = {Disk[a][1]}
      BY <2>b DEF EntryRead
    <3> QED
      BY <3>1, <2>0 DEF HeadName
  <2>t. de \in Dirent /\ arg \in Nat
    BY <2>0, EntryReadDirent, BoundsAssumption, <1>0 DEF EntriesMapped
  <2>1. CASE de = Unreadable \/ de.name = arg
    <3>1. pc' = "done" /\ res'.kind # "panic"
      BY <2>1, <2>n DEF Finish, Result
    <3> QED
      BY <3>1, <1>t, NoPanicFinish
  <2>2. CASE de # Unreadable /\ de.name # arg
    <3>1. ~(Pivot = 0 /\ build = "debug" /\ ~(de.name < arg))
      BY <2>h, <2>t, <2>2 DEF Dirent
    <3>2. pc' = pc /\ res' = res
      BY <2>2, <2>n, <3>1
    <3> QED
      BY <3>2, <2>0, <2>u, <1>t, <1>0 DEF NoPanicInv, HeadName
  <2> QED
    BY <2>1, <2>2
<1>5. CASE EntriesExit
  <2>1. pc' = "done" /\ res' = Result("enoent", 0)
    BY <1>5 DEF EntriesExit, Finish
  <2> QED
    BY <2>1, <1>t, NoPanicFinish DEF Result
<1>6. ASSUME NEW d \in Dirs, NEW off \in Offsets, WalkStart(d, off)
      PROVE  NoPanicInv'
  <2>1. \/ pc' = "done" /\ res' = Result("enoent", 0)
        \/ pc' = "walk" /\ res' = res
    BY <1>6 DEF WalkStart, Finish
  <2> QED
    BY <2>1, <1>t, <1>0, NoPanicFinish, NoPanicQuiet DEF Result
<1>7. CASE WalkNextBlock \/ IndexNextBlock
  <2>1. pc' = pc /\ pc \in {"walk", "index"} /\ res' = res
    BY <1>7 DEF WalkNextBlock, IndexNextBlock
  <2> QED
    BY <2>1, <1>t, <1>0, NoPanicQuiet
<1>8. CASE WalkSkip
  <2>0. ~NameUnderflows(dir, blk, ent, BlockCount(blk))
    <3>1. ent \in Int /\ BlockCount(blk) \in Int
      <4>1. blk < dir.count
        BY <1>8 DEF WalkSkip
      <4>2. Mapped(DataBlockOffset(dir, blk))
        BY <4>1, <1>0, DirFacts
      <4> QED
        BY <4>2, BlockFacts, <1>t DEF BlockCount, TypeInv, TypeOK
    <3> QED
      BY <3>1, <1>n, <1>0
  <2>1. pc' = "walk" /\ res' = res
    BY <1>8, <2>0 DEF WalkSkip
  <2> QED
    BY <2>1, <1>t, <1>0, NoPanicQuiet
<1>9. CASE WalkEmit
  <2>0. ~NameUnderflows(dir, blk, ent, BlockCount(blk))
    <3>1. ent \in Int /\ BlockCount(blk) \in Int
      <4>1. blk < dir.count
        BY <1>9 DEF WalkEmit
      <4>2. Mapped(DataBlockOffset(dir, blk))
        BY <4>1, <1>0, DirFacts
      <4> QED
        BY <4>2, BlockFacts, <1>t DEF BlockCount, TypeInv, TypeOK
    <3> QED
      BY <3>1, <1>n, <1>0
  <2>1. \/ pc' = "done" /\ res' = Result("break", 0)
        \/ pc' = "walk" /\ res' = res
    BY <1>9, <2>0 DEF WalkEmit, Finish
  <2> QED
    BY <2>1, <1>t, <1>0, NoPanicFinish, NoPanicQuiet DEF Result
<1>10. CASE WalkEnd \/ IndexEnd
  <2>1. pc' = "done" /\ res'.kind \in {"ok", "enoent"}
    BY <1>10 DEF WalkEnd, IndexEnd, Finish, Result
  <2> QED
    BY <2>1, <1>t, NoPanicFinish
<1>11. ASSUME NEW d \in Dirs, NEW idx \in Indices, IndexStart(d, idx)
       PROVE  NoPanicInv'
  <2>1. pc' = "index" /\ res' = res
    BY <1>11 DEF IndexStart
  <2> QED
    BY <2>1, <1>t, <1>0, NoPanicQuiet
<1>12. CASE IndexDot \/ IndexChild
  <2>0. ~NameUnderflows(dir, blk, ent, BlockCount(blk))
    BY <1>v DEF NameUnderflows
  <2>1. \/ pc' = "done" /\ res'.kind = "found"
        \/ pc' = "index" /\ res' = res
    BY <1>12, <2>0 DEF IndexDot, IndexChild, Finish, Result
  <2> QED
    BY <2>1, <1>t, <1>0, NoPanicFinish, NoPanicQuiet
<1>13. ASSUME NEW d \in Dirs, CountStart(d)
       PROVE  NoPanicInv'
  <2>1. pc' = "count" /\ blk' = 0 /\ cur' = 0 /\ res' = res /\ dir' = d
    BY <1>13 DEF CountStart
  <2>2. d.count \in Nat /\ 2 ^ B \in Nat
    BY DirFacts, PowFacts
  <2>3. /\ blk' <= dir'.count
        /\ blk' <= cur' /\ cur' <= blk' * 2 ^ B
        /\ ~(blk' >= 1)
    BY <2>1, <2>2
  <2>4. res'.kind # "panic" /\ pc' \notin {"blocks", "entries"}
    BY <2>1, <1>0
  <2> QED
    BY <2>1, <2>3, <2>4, <1>t DEF NoPanicInv
<1>14. CASE CountBlock
  <2> DEFINE P == 2 ^ B
             bc == BlockCount(blk)
  <2>0. /\ pc = "count" /\ blk < dir.count /\ blk \in Nat
        /\ blk <= cur /\ cur <= blk * P
        /\ blk >= 1 => cur >= Len(Disk[DataBlockOffset(dir, 0)])
    BY <1>14, <1>0 DEF CountBlock, NoPanicInv
  <2>1. Mapped(DataBlockOffset(dir, blk))
    BY <2>0, <1>0, DirFacts
  <2>2. bc \in 1 .. P /\ P \in Nat \ {0}
    BY <2>1, BlockFacts, PowFacts DEF BlockCount
  (* child_cnt stays below 2^CW: at most 2^B per block counted. *)
  <2>3. cur + bc <= (blk + 1) * P
    <3>1. (blk + 1) * P = blk * P + P
      BY <2>0, <2>2, MulFacts
    <3> QED
      BY <3>1, <2>0, <2>2, <1>0
  <2>4. (blk + 1) * P <= dir.count * P
    <3>1. blk + 1 <= dir.count /\ blk + 1 \in Nat /\ dir.count \in Nat
      BY <2>0, <1>0
    <3> QED
      BY <3>1, <2>2, MulFacts
  <2>5. cur + bc < 2 ^ CW /\ cur + bc \in Nat
    <3>1. dir.count * P < 2 ^ CW /\ 2 ^ CW \in Nat
      BY <1>v, PowFacts
    <3>2. cur + bc \in Nat
      BY <2>2, <1>0
    <3> QED
      BY <3>1, <3>2, <2>3, <2>4, <2>2, <1>0
  <2>6. U32(cur + bc) = cur + bc
    BY <2>5, PowFacts DEF U32
  <2>7. /\ cur' = cur + bc /\ blk' = blk + 1 /\ pc' = pc /\ res' = res
        /\ UNCHANGED <<dir>>
    <3>1. ~(cur + BlockCount(blk) >= 2 ^ CW /\ build = "debug")
      BY <2>5, PowFacts
    <3> QED
      BY <1>14, <2>1, <3>1, <2>6 DEF CountBlock
  <2>8. /\ blk + 1 <= dir.count
        /\ blk + 1 <= cur + bc /\ cur + bc <= (blk + 1) * P
        /\ cur + bc >= Len(Disk[DataBlockOffset(dir, 0)])
    <3>1. CASE blk = 0
      <4>1. cur = 0
        BY <3>1, <2>0, <2>2, <1>0
      <4> QED
        BY <3>1, <4>1, <2>0, <2>2, <2>3, <1>0 DEF BlockCount
    <3>2. CASE blk >= 1
      BY <3>2, <2>0, <2>2, <2>3, <1>0
    <3> QED
      BY <3>1, <3>2, <2>0
  <2> QED
    BY <2>7, <2>8, <2>0, <1>t, <1>0 DEF NoPanicInv
<1>15. CASE CountEnd
  <2>0. /\ pc = "count" /\ blk = dir.count
        /\ blk <= cur
        /\ blk >= 1 => cur >= Len(Disk[DataBlockOffset(dir, 0)])
    BY <1>15, <1>0 DEF CountEnd, NoPanicInv
  <2>1. cur >= 2
    BY <2>0, <1>v, <1>0
  <2>2. pc' = "done" /\ res' = Result("count", ChildCount(cur))
    BY <1>15, <2>1, <1>0 DEF CountEnd, Finish
  <2> QED
    BY <2>2, <1>t, NoPanicFinish DEF Result
<1>16. CASE Return
  <2>1. pc' = "idle" /\ res' = NoResult
    BY <1>16 DEF Return
  <2> QED
    BY <2>1, <1>t, NoPanicQuiet DEF NoResult, Result
<1>17. CASE UNCHANGED vars
  BY <1>17, <1>t DEF vars, NoPanicInv, HeadName
<1> QED
  BY <1>1, <1>2, <1>3, <1>4, <1>5, <1>6, <1>7, <1>8, <1>9, <1>10,
     <1>11, <1>12, <1>13, <1>14, <1>15, <1>16, <1>17 DEF Next

(* No call of the directory reader panics on a valid image, in a debug     *)
(* build or a release one: find_target_block's and the in-block search's   *)
(* last = pivot - 1 never underflows at pivot 0, because the entry at      *)
(* pivot 0 is a head entry not above the name, and get_child_count's      *)
(* child_cnt neither overflows u32 nor falls below the two entries it      *)
(* subtracts.                                                              *)
THEOREM NoPanicOnValidImage ==
  ASSUME ValidImage
  PROVE  Spec => []NeverPanics
<1>1. NoPanicInv /\ [Next]_vars => NoPanicInv'
  BY NoPanicInvNext
<1>2. NoPanicInv => NeverPanics
  BY DEF NoPanicInv, NeverPanics
<1> QED
  BY <1>1, <1>2, NoPanicInvInit, PTL DEF Spec
=============================================================================
