--------------------------- MODULE ChunkMapProofs ---------------------------
(***************************************************************************)
(* TLAPS proof that RafsSuperState implements ChunkMapSpec: the row-by-row *)
(* load_chunk_map under the chunk_map mutex builds, and get_chunk_info     *)
(* stores once, the index of a whole chunk table.                          *)
(***************************************************************************)
EXTENDS RafsSuperStateProofs

\* The map of a running load_chunk_map indexes the rows it has inserted.
LoadIndexed ==
  \A t \in Threads :
    pc[t] = "loading" => ChunkMapAbs!IsPrefixIndex(lcmMap, lcmImg, lcmRow - 1)

\* The inductive invariant of the refinement.
RefInv == TypeInv /\ LoadIndexed

\* Before the loop, the empty HashMap indexes no rows.
LEMMA PrefixIndexEmpty ==
  ASSUME NEW img \in Images
  PROVE  ChunkMapAbs!IsPrefixIndex(<< >>, img, 0)
<1>1. DOMAIN << >> = {} /\ {ChunkTable[img][i] : i \in 1 .. 0} = {}
  OBVIOUS
<1> QED
  BY <1>1 DEF ChunkMapAbs!IsPrefixIndex

\* One iteration of the loop: inserting row k + 1 with its index turns the
\* index of k rows into the index of k + 1 rows.
LEMMA PrefixIndexStep ==
  ASSUME NEW img \in Images, NEW k \in 0 .. NRows - 1, NEW m,
         ChunkMapAbs!IsPrefixIndex(m, img, k)
  PROVE  ChunkMapAbs!IsPrefixIndex(MapInsert(m, ChunkTable[img][k + 1], k + 1), img, k + 1)
<1> DEFINE T == ChunkTable[img]
           b == T[k + 1]
           m2 == MapInsert(m, b, k + 1)
<1>0. T \in [1 .. NRows -> Addrs] /\ NRows \in Nat
  BY ImagesAssumption
<1>1. DOMAIN m2 = {T[i] : i \in 1 .. k + 1}
  <2>1. DOMAIN m = {T[i] : i \in 1 .. k}
    BY DEF ChunkMapAbs!IsPrefixIndex
  <2>2. {T[i] : i \in 1 .. k + 1} = {T[i] : i \in 1 .. k} \cup {b}
    BY <1>0
  <2> QED
    BY <2>1, <2>2 DEF MapInsert
<1>2. m2[b] = k + 1 /\ k + 1 \in 1 .. k + 1 /\ T[k + 1] = b
      /\ \A j \in k + 2 .. k + 1 : T[j] # b
  BY <1>0 DEF MapInsert
<1>3. ASSUME NEW a \in DOMAIN m2, a # b
      PROVE  /\ m2[a] \in 1 .. k + 1
             /\ T[m2[a]] = a
             /\ \A j \in m2[a] + 1 .. k + 1 : T[j] # a
  <2>1. a \in DOMAIN m /\ m2[a] = m[a]
    BY <1>3 DEF MapInsert
  <2>2. /\ m[a] \in 1 .. k /\ T[m[a]] = a
        /\ \A j \in m[a] + 1 .. k : T[j] # a
    BY <2>1 DEF ChunkMapAbs!IsPrefixIndex
  <2> QED
    BY <2>1, <2>2, <1>3, <1>0
<1> QED
  BY <1>1, <1>2, <1>3 DEF ChunkMapAbs!IsPrefixIndex

LEMMA RefInvInit == Init => RefInv
BY TypeInvInit DEF Init, RefInv, LoadIndexed

LEMMA RefInvNext == RefInv /\ [Next]_vars => RefInv'
<1> SUFFICES ASSUME RefInv, [Next]_vars PROVE RefInv'
  OBVIOUS
<1>0. TypeInv /\ LoadIndexed /\ TypeInv'
  BY TypeInvNext DEF RefInv
<1> USE ImagesAssumption DEF TypeInv, TypeOK
<1>a. SUFFICES LoadIndexed'
  BY <1>0 DEF RefInv
\* A step that keeps the loop's locals and starts no loop.
<1>b. ASSUME UNCHANGED <<lcmImg, lcmRow, lcmMap>>,
             \A u \in Threads : pc'[u] = "loading" => pc[u] = "loading"
      PROVE  LoadIndexed'
  BY <1>0, <1>b DEF LoadIndexed
<1>1. ASSUME NEW img \in Images, UpdateState(img) PROVE LoadIndexed'
  BY <1>1, <1>b DEF UpdateState
<1>2. ASSUME NEW t \in Threads, NEW n \in Nids, GetInode(t, n) PROVE LoadIndexed'
  BY <1>2, <1>b, <1>0 DEF GetInode
<1>3. ASSUME NEW t \in Threads, Access(t) PROVE LoadIndexed'
  BY <1>3, <1>b, <1>0 DEF Access
<1>4. ASSUME NEW t \in Threads, Drop(t) PROVE LoadIndexed'
  BY <1>4, <1>b, <1>0 DEF Drop
<1>5. ASSUME NEW t \in Threads, NEW idx \in 1 .. NRows, GetChunkInfoStart(t, idx)
      PROVE LoadIndexed'
  BY <1>5, <1>b, <1>0 DEF GetChunkInfoStart
<1>6. ASSUME NEW t \in Threads, GetChunkCount(t) PROVE LoadIndexed'
  <2>1. pc[t] = "count" /\ UNCHANGED <<lcmImg, lcmRow, lcmMap>>
        /\ pc' \in {[pc EXCEPT ![t] = p] : p \in {"panic", "holding", "gci"}}
    BY <1>6 DEF GetChunkCount
  <2> QED
    BY <2>1, <1>b, <1>0
<1>7. ASSUME NEW t \in Threads, GetChunkInfoLock(t) PROVE LoadIndexed'
  <2>0. pc[t] = "gci" /\ mutex = {}
    BY <1>7 DEF GetChunkInfoLock
  <2>1. \A u \in Threads : pc[u] # "loading"
    BY <2>0, <1>0 DEF MutexHeld, UnderMutex
  <2>2. CASE built
    BY <1>7, <2>2, <2>0, <1>b, <1>0 DEF GetChunkInfoLock
  <2>3. CASE ~built
    <3>1. pc' = [pc EXCEPT ![t] = "loading"] /\ lcmImg' = current /\ lcmRow' = 1
          /\ lcmMap' = << >>
      BY <1>7, <2>3 DEF GetChunkInfoLock
    <3>2. current \in Images
      BY <2>0, <1>0 DEF LoadedWhenBusy
    <3>3. ChunkMapAbs!IsPrefixIndex(lcmMap', lcmImg', lcmRow' - 1)
      BY <3>1, <3>2, PrefixIndexEmpty
    <3> QED
      BY <3>1, <3>3, <2>1, <1>0 DEF LoadIndexed
  <2> QED
    BY <2>2, <2>3
<1>8. ASSUME NEW t \in Threads, LoadChunkRow(t) PROVE LoadIndexed'
  <2>0. /\ pc[t] = "loading" /\ lcmRow <= NRows
        /\ lcmMap' = MapInsert(lcmMap, ChunkTable[lcmImg][lcmRow], lcmRow)
        /\ lcmRow' = lcmRow + 1
        /\ UNCHANGED <<lcmImg, pc>>
    BY <1>8 DEF LoadChunkRow
  <2>1. lcmImg \in Images /\ lcmRow - 1 \in 0 .. NRows - 1
        /\ ChunkMapAbs!IsPrefixIndex(lcmMap, lcmImg, lcmRow - 1)
    BY <2>0, <1>0 DEF LoadingUnbuilt, LoadIndexed
  <2>2. ChunkMapAbs!IsPrefixIndex(lcmMap', lcmImg, lcmRow)
    <3>1. (lcmRow - 1) + 1 = lcmRow
      BY <1>0
    <3> QED
      BY <2>0, <2>1, <3>1, PrefixIndexStep
  <2>3. lcmImg' = lcmImg /\ lcmRow' - 1 = lcmRow /\ pc' = pc
    BY <2>0, <1>0
  <2>4. ChunkMapAbs!IsPrefixIndex(lcmMap', lcmImg', lcmRow' - 1)
    BY <2>2, <2>3
  <2> QED
    BY <2>3, <2>4 DEF LoadIndexed
<1>9. ASSUME NEW t \in Threads, LoadChunkMapDone(t) PROVE LoadIndexed'
  <2>1. pc[t] = "loading" /\ pc' = [pc EXCEPT ![t] = "lookup"] /\ UNCHANGED mutex
    BY <1>9 DEF LoadChunkMapDone
  <2>2. \A u \in Threads : pc'[u] # "loading"
    BY <2>1, <1>0 DEF MutexHeld, MutexExclusive, UnderMutex
  <2> QED
    BY <2>2 DEF LoadIndexed
<1>10. ASSUME NEW t \in Threads, GetChunkInfoLookup(t) PROVE LoadIndexed'
  BY <1>10, <1>b, <1>0 DEF GetChunkInfoLookup
<1>11. ASSUME NEW t \in Threads, ChunkInfoGetter(t) PROVE LoadIndexed'
  BY <1>11, <1>b DEF ChunkInfoGetter
<1>12. CASE UNCHANGED vars
  BY <1>12, <1>b DEF vars
<1> QED
  BY <1>1, <1>2, <1>3, <1>4, <1>5, <1>6, <1>7, <1>8, <1>9, <1>10, <1>11, <1>12 DEF Next

\* Every step of readers, loads and hot swaps is a step of ChunkMapSpec on
\* chunk_map, or leaves it alone.
LEMMA RefinementStep ==
  RefInv /\ [Next]_vars => [ChunkMapAbs!Next]_<<built, chunkMap>>
<1> SUFFICES ASSUME RefInv, [Next]_vars
             PROVE  [ChunkMapAbs!Next]_<<built, chunkMap>>
  OBVIOUS
<1>0. TypeInv /\ LoadIndexed
  BY DEF RefInv
<1>a. ASSUME NEW t \in Threads, LoadChunkMapDone(t)
      PROVE  ChunkMapAbs!Next
  <2>0. /\ pc[t] = "loading" /\ lcmRow > NRows
        /\ built' = TRUE /\ chunkMap' = lcmMap
    BY <1>a DEF LoadChunkMapDone
  <2>1. lcmImg \in Images /\ ~built
    BY <2>0, <1>0 DEF TypeInv, LoadingUnbuilt
  <2>2. lcmRow - 1 = NRows
    BY <2>0, <1>0, ImagesAssumption DEF TypeInv, TypeOK
  <2>3. ChunkMapAbs!IsPrefixIndex(lcmMap, lcmImg, NRows)
    BY <2>0, <2>2, <1>0 DEF LoadIndexed
  <2>4. lcmMap \in [DOMAIN lcmMap -> 1 .. NRows]
    BY <1>0, ChunkMapsElim DEF TypeInv, TypeOK, ChunkMaps
  <2>5. lcmMap \in ChunkMapAbs!TableIndexes(lcmImg)
    BY <2>3, <2>4 DEF ChunkMapAbs!TableIndexes, ChunkMapAbs!IsPrefixIndex
  <2> QED
    BY <2>0, <2>1, <2>5 DEF ChunkMapAbs!Next, ChunkMapAbs!Build
<1>b. ASSUME ~\E t \in Threads : LoadChunkMapDone(t)
      PROVE  UNCHANGED <<built, chunkMap>>
  BY <1>b DEF Next, vars, UpdateState, GetInode, Access, Drop, GetChunkInfoStart,
     GetChunkCount, GetChunkInfoLock, LoadChunkRow, GetChunkInfoLookup, ChunkInfoGetter
<1> QED
  BY <1>a, <1>b

\* RafsSuperState implements ChunkMapSpec under the identity on chunk_map
\* (ChunkMapRefined): for every number of threads and every set of images,
\* chunk_map is None until one get_chunk_info stores the index of a whole
\* chunk table, each address at its last row, and never changes after,
\* whatever readers, row-by-row loads under the mutex and hot swaps
\* interleave.
THEOREM ChunkMapRefinement == Spec => ChunkMapRefined
<1>1. Init => ChunkMapAbs!Init
  BY DEF Init, ChunkMapAbs!Init
<1>2. Spec => []RefInv
  BY RefInvInit, RefInvNext, PTL DEF Spec
<1> QED
  BY <1>1, <1>2, RefinementStep, PTL DEF Spec, ChunkMapRefined, ChunkMapAbs!Spec
=============================================================================
