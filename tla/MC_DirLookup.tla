---------------------------- MODULE MC_DirLookup ----------------------------
(***************************************************************************)
(* An image for DirLookup.  Names are numbers in bytewise order:           *)
(* 1 "-x" (below "."), 2 ".", 3 "..", then 4 "a" .. 9 "f".  Usize has 6   *)
(* bits and a block 4 bytes, so there are 16 block slots; the mapping      *)
(* holds slots 0-7 but for slot 6.                                        *)
(***************************************************************************)
EXTENDS DirLookup

MX == 1

DE(n, i) == [name |-> n, nid |-> i]

\* Slot 0: the only block of directory E, which holds "-x".  Slot 1: the
\* inline block of D1.  Slots 2-3: the two plain blocks of D2.  Slots 4, 5
\* and 7: the blocks of D3, its last one inline.
MCDisk ==
  (0 :> << DE(MX, 11), DE(2, 10), DE(3, 1) >>) @@
  (1 :> << DE(2, 20), DE(3, 1), DE(4, 21), DE(6, 22) >>) @@
  (2 :> << DE(2, 30), DE(3, 1), DE(4, 31) >>) @@
  (3 :> << DE(5, 32), DE(7, 33) >>) @@
  (4 :> << DE(2, 40), DE(3, 1) >>) @@
  (5 :> << DE(4, 41), DE(5, 42) >>) @@
  (7 :> << DE(6, 43), DE(8, 44) >>)

DirE == [start |-> 0, count |-> 1, inline |-> FALSE, islot |-> 0, full |-> FALSE]
Dir1 == [start |-> 1, count |-> 1, inline |-> TRUE, islot |-> 1, full |-> FALSE]
Dir2 == [start |-> 2, count |-> 2, inline |-> FALSE, islot |-> 0, full |-> FALSE]
Dir3 == [start |-> 4, count |-> 3, inline |-> TRUE, islot |-> 7, full |-> FALSE]

\* D2 when its size is 8192: its last block is full.
Dir2Full == [Dir2 EXCEPT !.full = TRUE]

MCDirs == {DirE, Dir1, Dir2, Dir3}

\* D1 alone, with lookups of "-x": its name sorts below ".".
MCDirsOne == {Dir1}

\* D2 of size 8192 alone.
MCDirsFull == {Dir2Full}

MCGarbage == {DE(5, 99)}
=============================================================================
