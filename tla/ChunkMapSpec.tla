---------------------------- MODULE ChunkMapSpec ----------------------------
(***************************************************************************)
(* What the lazy chunk_map of DirectCachedInfo promises (direct_v6.rs     *)
(* 198-220, 1142-1145): it is None until one get_chunk_info stores in it,  *)
(* in one step, the index of a whole chunk table of one image, and it      *)
(* never changes after.  The index maps each chunk address to the last row *)
(* that carries it: load_chunk_map inserts the rows in order into a        *)
(* HashMap, and a later insert of the same address replaces the earlier.   *)
(***************************************************************************)
EXTENDS Integers

CONSTANTS Images, Addrs, NRows, ChunkTable

VARIABLES built, chunkMap

\* m is the HashMap load_chunk_map has built after the first k rows of
\* img's chunk table: its keys are the addresses of those rows, and each
\* maps to the last of them that carries it.
IsPrefixIndex(m, img, k) ==
  /\ DOMAIN m = {ChunkTable[img][i] : i \in 1 .. k}
  /\ \A a \in DOMAIN m : /\ m[a] \in 1 .. k
                         /\ ChunkTable[img][m[a]] = a
                         /\ \A j \in m[a] + 1 .. k : ChunkTable[img][j] # a

\* The HashMaps load_chunk_map may return for img (there is one).
TableIndexes(img) ==
  {m \in [{ChunkTable[img][i] : i \in 1 .. NRows} -> 1 .. NRows] :
     IsPrefixIndex(m, img, NRows)}

Init == ~built /\ chunkMap = << >>

\* chunk_map is None, and the index of one image's table is stored.
Build(img) ==
  /\ ~built
  /\ built' = TRUE
  /\ chunkMap' \in TableIndexes(img)

Next == \E img \in Images : Build(img)

Spec == Init /\ [][Next]_<<built, chunkMap>>
=============================================================================
