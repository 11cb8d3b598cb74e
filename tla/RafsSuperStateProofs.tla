------------------------ MODULE RafsSuperStateProofs ------------------------
(***************************************************************************)
(* TLAPS proofs about RafsSuperState: type correctness, the chunk_map     *)
(* mutex discipline, and the three safety properties of                   *)
(* rafs_super_same_image under the hypothesis that every image the daemon *)
(* swaps in agrees with the others on what the property reads.            *)
(***************************************************************************)
EXTENDS RafsSuperState, TLAPS

\* The places of a thread inside get_chunk_info.
InGetChunkInfo == {"count", "gci", "loading", "lookup"}

\* The places where a thread holds the chunk_map mutex.
UnderMutex == {"loading", "lookup"}

(***************************************************************************)
(* The strengthening of TypeOK: threads only run once an image is loaded; *)
(* a thread inside get_chunk_info holds a Guard of a loaded image; the    *)
(* mutex is held by exactly the thread under it; and load_chunk_map runs  *)
(* over a loaded image while chunk_map is still None.                      *)
(***************************************************************************)
LoadedWhenBusy == current \in Images \/ \A t \in Threads : pc[t] = "idle"

GuardsLoaded == \A t \in Threads : pc[t] \in InGetChunkInfo => snap[t] \in Images

MutexHeld == \A t \in Threads : pc[t] \in UnderMutex <=> t \in mutex

MutexExclusive == \A t, u \in mutex : t = u

LoadingUnbuilt == \A t \in Threads : pc[t] = "loading" => lcmImg \in Images /\ ~built

TypeInv ==
  /\ TypeOK /\ LoadedWhenBusy /\ GuardsLoaded /\ MutexHeld /\ MutexExclusive
  /\ LoadingUnbuilt

\* Every image the daemon may swap in has the same chunk table.
ImagesShareTable == \A i, j \in Images : ChunkTable[i] = ChunkTable[j]

\* Every image the daemon may swap in maps the same inode records.
ImagesShareSlots == \A i, j \in Images : InSlot[i] = InSlot[j]

\* Every image the daemon may swap in gives each inode as many chunks.
ImagesShareCounts ==
  \A i, j \in Images : \A n \in Nids : Len(InodeChunks[i][n]) = Len(InodeChunks[j][n])

\* A map from chunk addresses to rows that carry them in the table of img.
RowsCarry(m, img) == \A a \in DOMAIN m : ChunkTable[img][m[a]] = a

\* The inductive invariant of ChunkInfoMatchesAddress.
ChunkInv ==
  /\ TypeInv
  /\ \A img \in Images : RowsCarry(chunkMap, img) /\ RowsCarry(lcmMap, img)
  /\ ChunkInfoMatchesAddress

\* The inductive invariant of HandleNeverPanics.
HandleInv ==
  /\ TypeInv
  /\ \A t \in Threads : pc[t] # "idle" => \A img \in Images : handle[t] \in InSlot[img]
  /\ HandleNeverPanics

\* The inductive invariant of ChunkIndexInInode.
IndexInv == TypeInv /\ ChunkIndexInInode
-----------------------------------------------------------------------------
\* The HashMaps from chunk addresses to chunk-table rows.
ChunkMaps == UNION {[D -> 1 .. NRows] : D \in SUBSET Addrs}

LEMMA ChunkMapsIntro ==
  ASSUME NEW D \in SUBSET Addrs, NEW f \in [D -> 1 .. NRows]
  PROVE  f \in ChunkMaps
BY DEF ChunkMaps

LEMMA ChunkMapsElim ==
  ASSUME NEW f \in ChunkMaps
  PROVE  DOMAIN f \subseteq Addrs /\ f \in [DOMAIN f -> 1 .. NRows]
BY DEF ChunkMaps

\* HashMap::insert keeps a map from addresses to rows one, maps the key to
\* the value, and leaves every other key as it was.
LEMMA MapInsertFacts ==
  ASSUME NEW m \in ChunkMaps, NEW k \in Addrs, NEW v \in 1 .. NRows
  PROVE  /\ MapInsert(m, k, v) \in ChunkMaps
         /\ DOMAIN MapInsert(m, k, v) = DOMAIN m \cup {k}
         /\ MapInsert(m, k, v)[k] = v
         /\ \A x \in DOMAIN m \ {k} : MapInsert(m, k, v)[x] = m[x]
<1>1. DOMAIN m \subseteq Addrs /\ m \in [DOMAIN m -> 1 .. NRows]
  BY ChunkMapsElim
<1>2. MapInsert(m, k, v) \in [DOMAIN m \cup {k} -> 1 .. NRows]
  BY <1>1 DEF MapInsert
<1>3. MapInsert(m, k, v) \in ChunkMaps
  BY <1>1, <1>2, ChunkMapsIntro
<1> QED
  BY <1>3 DEF MapInsert

\* The empty HashMap.
LEMMA EmptyMap == << >> \in ChunkMaps
<1>1. << >> \in [{} -> 1 .. NRows]
  OBVIOUS
<1> QED
  BY <1>1, ChunkMapsIntro
-----------------------------------------------------------------------------
\* A chunk info re-read from another image is still a chunk info.
LEMMA ResultRetag ==
  ASSUME NEW r \in Result, NEW img \in Images
  PROVE  /\ [r EXCEPT !.img = img] = [addr |-> r.addr, row |-> r.row, img |-> img]
         /\ [r EXCEPT !.img = img] \in Result
<1>1. r = [addr |-> r.addr, row |-> r.row, img |-> r.img]
  BY DEF Result
<1>2. [r EXCEPT !.img = img] = [addr |-> r.addr, row |-> r.row, img |-> img]
  BY <1>1
<1> QED
  BY <1>2 DEF Result

LEMMA TypeInvInit == Init => TypeInv
<1> SUFFICES ASSUME Init PROVE TypeInv
  OBVIOUS
<1>1. chunkMap \in ChunkMaps /\ lcmMap \in ChunkMaps
  BY EmptyMap DEF Init
<1>2. handle \in [Threads -> Nids] /\ addr \in [Threads -> Addrs]
  BY ImagesAssumption DEF Init
<1>3. current \in States /\ lcmImg \in States /\ snap \in [Threads -> States]
  BY DEF Init, States
<1>4. lcmRow \in 1 .. NRows + 1 /\ cidx \in [Threads -> Nat \ {0}]
  BY ImagesAssumption DEF Init
<1>5. /\ pc \in [Threads -> {"idle", "holding", "count", "gci", "loading", "lookup", "panic"}]
      /\ \A t \in Threads : pc[t] = "idle"
      /\ res \in [Threads -> SUBSET Result] /\ mutex = {} /\ built = FALSE
  BY DEF Init
<1> QED
  BY <1>1, <1>2, <1>3, <1>4, <1>5 DEF TypeInv, TypeOK, ChunkMaps, InGetChunkInfo, UnderMutex,
     LoadedWhenBusy, GuardsLoaded, MutexHeld, MutexExclusive, LoadingUnbuilt

LEMMA TypeInvNext == TypeInv /\ [Next]_vars => TypeInv'
<1> SUFFICES ASSUME TypeInv, [Next]_vars PROVE TypeInv'
  OBVIOUS
<1> USE ImagesAssumption DEF TypeInv, TypeOK, InGetChunkInfo, UnderMutex, States,
      LoadedWhenBusy, GuardsLoaded, MutexHeld, MutexExclusive, LoadingUnbuilt
<1>0. chunkMap \in ChunkMaps /\ lcmMap \in ChunkMaps
  BY DEF ChunkMaps
<1>1. ASSUME NEW img \in Images, UpdateState(img) PROVE TypeInv'
  BY <1>1 DEF UpdateState
<1>2. ASSUME NEW t \in Threads, NEW n \in Nids, GetInode(t, n) PROVE TypeInv'
  BY <1>2 DEF GetInode
<1>3. ASSUME NEW t \in Threads, Access(t) PROVE TypeInv'
  BY <1>3 DEF Access
<1>4. ASSUME NEW t \in Threads, Drop(t) PROVE TypeInv'
  BY <1>4 DEF Drop
<1>5. ASSUME NEW t \in Threads, NEW idx \in 1 .. NRows, GetChunkInfoStart(t, idx)
      PROVE TypeInv'
  BY <1>5 DEF GetChunkInfoStart
<1>6. ASSUME NEW t \in Threads, GetChunkCount(t) PROVE TypeInv'
  <2>0. /\ pc[t] = "count"
        /\ UNCHANGED <<current, built, chunkMap, mutex, lcmImg, lcmRow, lcmMap, handle, snap, cidx, res>>
    BY <1>6 DEF GetChunkCount
  <2>1. snap[t] \in Images /\ current \in Images /\ cidx[t] \in Nat \ {0}
    BY <2>0
  <2>2. CASE ~DiskInodeOk(current, handle[t])
    <3>1. pc' = [pc EXCEPT ![t] = "panic"] /\ addr' = addr
      BY <1>6, <2>2 DEF GetChunkCount
    <3> QED
      BY <2>0, <3>1
  <2>3. CASE DiskInodeOk(current, handle[t])
             /\ cidx[t] > Len(InodeChunks[current][handle[t]])
    <3>1. pc' = [pc EXCEPT ![t] = "holding"] /\ addr' = addr
      BY <1>6, <2>3 DEF GetChunkCount
    <3> QED
      BY <2>0, <3>1
  <2>4. CASE DiskInodeOk(current, handle[t])
             /\ ~(cidx[t] > Len(InodeChunks[current][handle[t]]))
    <3>1. pc' = [pc EXCEPT ![t] = "gci"]
      BY <1>6, <2>4 DEF GetChunkCount
    <3>2. \E a \in Addrs : addr' = [addr EXCEPT ![t] = a]
      <4>1. InodeChunks[snap[t]][handle[t]] \in Seq(Addrs)
        BY <2>1
      <4>2. CASE cidx[t] <= Len(InodeChunks[snap[t]][handle[t]])
        <5>1. addr' = [addr EXCEPT ![t] = InodeChunks[snap[t]][handle[t]][cidx[t]]]
          BY <1>6, <2>4, <4>2 DEF GetChunkCount
        <5>2. InodeChunks[snap[t]][handle[t]][cidx[t]] \in Addrs
          BY <4>1, <4>2, <2>1
        <5> QED
          BY <5>1, <5>2
      <4>3. CASE ~(cidx[t] <= Len(InodeChunks[snap[t]][handle[t]]))
        BY <1>6, <2>4, <4>3 DEF GetChunkCount
      <4> QED
        BY <4>2, <4>3
    <3> QED
      BY <2>0, <3>1, <3>2
  <2> QED
    BY <2>2, <2>3, <2>4
<1>7. ASSUME NEW t \in Threads, GetChunkInfoLock(t) PROVE TypeInv'
  <2>0. pc[t] = "gci" /\ mutex = {} /\ mutex' = {t}
        /\ UNCHANGED <<current, built, chunkMap, handle, snap, cidx, addr, res>>
    BY <1>7 DEF GetChunkInfoLock
  <2>1. CASE built
    <3>1. pc' = [pc EXCEPT ![t] = "lookup"] /\ UNCHANGED <<lcmImg, lcmRow, lcmMap>>
      BY <1>7, <2>1 DEF GetChunkInfoLock
    <3> QED
      BY <2>0, <3>1, <2>1
  <2>2. CASE ~built
    <3>1. pc' = [pc EXCEPT ![t] = "loading"] /\ lcmImg' = current /\ lcmRow' = 1
          /\ lcmMap' = << >>
      BY <1>7, <2>2 DEF GetChunkInfoLock
    <3>2. current \in Images
      BY <2>0
    <3>3. \A u \in Threads : pc[u] \notin UnderMutex
      BY <2>0
    <3>4. TypeOK'
      <4>1. lcmMap' \in ChunkMaps /\ chunkMap \in ChunkMaps
        BY <3>1, <1>0, EmptyMap
      <4>2. pc' \in [Threads -> {"idle", "holding", "count", "gci", "loading", "lookup", "panic"}]
        BY <2>0, <3>1
      <4>3. lcmImg' \in States /\ lcmRow' \in 1 .. NRows + 1 /\ mutex' \in SUBSET Threads
        BY <2>0, <3>1, <3>2
      <4> QED
        BY <2>0, <4>1, <4>2, <4>3 DEF ChunkMaps
    <3>5. MutexHeld' /\ MutexExclusive'
      BY <2>0, <3>1, <3>3
    <3>6. LoadingUnbuilt'
      BY <2>0, <3>1, <3>2, <3>3, <2>2
    <3>7. LoadedWhenBusy' /\ GuardsLoaded'
      BY <2>0, <3>1, <3>2
    <3> QED
      BY <3>4, <3>5, <3>6, <3>7
  <2> QED
    BY <2>1, <2>2
<1>8. ASSUME NEW t \in Threads, LoadChunkRow(t) PROVE TypeInv'
  <2>0. pc[t] = "loading" /\ lcmRow <= NRows /\ lcmRow' = lcmRow + 1
        /\ lcmMap' = MapInsert(lcmMap, ChunkTable[lcmImg][lcmRow], lcmRow)
        /\ UNCHANGED <<current, built, chunkMap, mutex, lcmImg, pc, handle, snap, cidx, addr, res>>
    BY <1>8 DEF LoadChunkRow
  <2>1. lcmImg \in Images /\ lcmRow \in 1 .. NRows
    BY <2>0
  <2>2. ChunkTable[lcmImg][lcmRow] \in Addrs
    BY <2>1
  <2>3. lcmMap' \in ChunkMaps
    BY <2>0, <2>1, <2>2, <1>0, MapInsertFacts
  <2> QED
    BY <2>0, <2>3 DEF ChunkMaps
<1>9. ASSUME NEW t \in Threads, LoadChunkMapDone(t) PROVE TypeInv'
  <2>0. pc[t] = "loading" /\ built' = TRUE /\ chunkMap' = lcmMap
        /\ pc' = [pc EXCEPT ![t] = "lookup"]
        /\ lcmImg' = Unloaded /\ lcmRow' = 1 /\ lcmMap' = << >>
        /\ UNCHANGED <<current, mutex, handle, snap, cidx, addr, res>>
    BY <1>9 DEF LoadChunkMapDone
  <2>1. \A u \in Threads : pc'[u] # "loading"
    BY <2>0
  <2>2. TypeOK'
    <3>1. chunkMap' \in ChunkMaps /\ lcmMap' \in ChunkMaps
      BY <2>0, <1>0, EmptyMap
    <3>2. pc' \in [Threads -> {"idle", "holding", "count", "gci", "loading", "lookup", "panic"}]
      BY <2>0
    <3>3. built' \in BOOLEAN /\ lcmImg' \in States /\ lcmRow' \in 1 .. NRows + 1
      BY <2>0
    <3> QED
      BY <2>0, <3>1, <3>2, <3>3 DEF ChunkMaps
  <2>3. LoadingUnbuilt'
    BY <2>0, <2>1
  <2>4. MutexHeld' /\ MutexExclusive' /\ LoadedWhenBusy' /\ GuardsLoaded'
    BY <2>0
  <2> QED
    BY <2>2, <2>3, <2>4
<1>10. ASSUME NEW t \in Threads, GetChunkInfoLookup(t) PROVE TypeInv'
  <2>0. pc[t] = "lookup" /\ pc' = [pc EXCEPT ![t] = "holding"] /\ mutex' = {}
        /\ UNCHANGED <<current, built, chunkMap, lcmImg, lcmRow, lcmMap, handle, snap, cidx, addr>>
    BY <1>10 DEF GetChunkInfoLookup
  <2>1. res'[t] \in SUBSET Result /\ res' = [res EXCEPT ![t] = res'[t]]
    <3>1. addr[t] \in DOMAIN chunkMap => chunkMap[addr[t]] \in 1 .. NRows
      BY <1>0, ChunkMapsElim
    <3>2. snap[t] \in Images
      BY <2>0
    <3> QED
      BY <1>10, <3>1, <3>2 DEF GetChunkInfoLookup, Result
  <2>2. mutex = {t}
    BY <2>0
  <2> QED
    BY <2>0, <2>1, <2>2
<1>11. ASSUME NEW t \in Threads, ChunkInfoGetter(t) PROVE TypeInv'
  <2>0. res' = [res EXCEPT ![t] = {[r EXCEPT !.img = current] : r \in res[t]}]
        /\ res[t] # {} /\ pc[t] = "holding"
        /\ UNCHANGED <<current, built, chunkMap, mutex, lcmImg, lcmRow, lcmMap, pc, handle, snap, cidx, addr>>
    BY <1>11 DEF ChunkInfoGetter
  <2>1. current \in Images
    BY <2>0
  <2>2. \A r \in res[t] : [r EXCEPT !.img = current] \in Result
    BY <2>0, <2>1, ResultRetag
  <2> QED
    BY <2>0, <2>2
<1>12. CASE UNCHANGED vars
  BY <1>12 DEF vars
<1> QED
  BY <1>1, <1>2, <1>3, <1>4, <1>5, <1>6, <1>7, <1>8, <1>9, <1>10, <1>11, <1>12 DEF Next

\* Every reachable state is well typed: the daemon's state, the chunk_map
\* HashMap and every thread's place, Guard and results (TypeOK).
THEOREM TypeCorrect == Spec => []TypeOK
<1>1. TypeInv => TypeOK
  BY DEF TypeInv
<1> QED
  BY TypeInvInit, TypeInvNext, <1>1, PTL DEF Spec

\* get_chunk_info stores a loaded chunk_map only while chunk_map is still
\* None: the map is built once, by the one thread holding the mutex, and
\* never overwritten (ChunkMapStoredOnce).
THEOREM ChunkMapOnce == Spec => ChunkMapStoredOnce
<1>1. TypeInv => [\A t \in Threads : pc[t] = "loading" /\ pc'[t] = "lookup" => ~built]_vars
  BY DEF TypeInv, LoadingUnbuilt
<1>2. []TypeInv => ChunkMapStoredOnce
  BY <1>1, PTL DEF ChunkMapStoredOnce
<1> QED
  BY TypeInvInit, TypeInvNext, <1>2, PTL DEF Spec

-----------------------------------------------------------------------------
\* Both HashMaps map each address to a row carrying it, in every image.
MapsCarry ==
  \A img \in Images : RowsCarry(chunkMap, img) /\ RowsCarry(lcmMap, img)

LEMMA ChunkInvInit == Init => ChunkInv
<1> SUFFICES ASSUME Init PROVE ChunkInv
  OBVIOUS
<1>1. DOMAIN chunkMap = {} /\ DOMAIN lcmMap = {} /\ \A t \in Threads : res[t] = {}
  BY DEF Init
<1> QED
  BY <1>1, TypeInvInit DEF ChunkInv, RowsCarry, ChunkInfoMatchesAddress

LEMMA ChunkInvNext ==
  ASSUME ImagesShareTable
  PROVE  ChunkInv /\ [Next]_vars => ChunkInv'
<1> SUFFICES ASSUME ChunkInv, [Next]_vars PROVE ChunkInv'
  OBVIOUS
<1>0. TypeInv /\ MapsCarry /\ ChunkInfoMatchesAddress /\ TypeInv'
  BY TypeInvNext DEF ChunkInv, MapsCarry
<1> USE ImagesAssumption DEF TypeInv, TypeOK
<1> DEFINE Matches(r) == ChunkTable[r.img][r.row] = r.addr
<1>a. SUFFICES MapsCarry' /\ \A t \in Threads : \A r \in res'[t] : Matches(r)
  BY <1>0 DEF ChunkInv, MapsCarry, ChunkInfoMatchesAddress
\* A step that leaves the maps alone and only empties or keeps results.
<1>b. ASSUME UNCHANGED <<chunkMap, lcmMap>>,
             \A t \in Threads : res'[t] = res[t] \/ res'[t] = {}
      PROVE  MapsCarry' /\ \A t \in Threads : \A r \in res'[t] : Matches(r)
  BY <1>0, <1>b DEF MapsCarry, RowsCarry, ChunkInfoMatchesAddress
<1>1. ASSUME NEW img \in Images, UpdateState(img) PROVE <1>a!1
  BY <1>1, <1>b DEF UpdateState
<1>2. ASSUME NEW t \in Threads, NEW n \in Nids, GetInode(t, n) PROVE <1>a!1
  BY <1>2, <1>b DEF GetInode
<1>3. ASSUME NEW t \in Threads, Access(t) PROVE <1>a!1
  BY <1>3, <1>b DEF Access
<1>4. ASSUME NEW t \in Threads, Drop(t) PROVE <1>a!1
  BY <1>4, <1>b DEF Drop
<1>5. ASSUME NEW t \in Threads, NEW idx \in 1 .. NRows, GetChunkInfoStart(t, idx)
      PROVE <1>a!1
  BY <1>5, <1>b DEF GetChunkInfoStart
<1>6. ASSUME NEW t \in Threads, GetChunkCount(t) PROVE <1>a!1
  BY <1>6, <1>b DEF GetChunkCount
<1>7. ASSUME NEW t \in Threads, GetChunkInfoLock(t) PROVE <1>a!1
  <2>1. UNCHANGED <<chunkMap, res>> /\ (lcmMap' = lcmMap \/ lcmMap' = << >>)
    BY <1>7 DEF GetChunkInfoLock
  <2> QED
    BY <2>1, <1>0 DEF MapsCarry, RowsCarry, ChunkInfoMatchesAddress
<1>8. ASSUME NEW t \in Threads, LoadChunkRow(t) PROVE <1>a!1
  <2>0. /\ pc[t] = "loading" /\ lcmRow \in 1 .. NRows
        /\ lcmMap' = MapInsert(lcmMap, ChunkTable[lcmImg][lcmRow], lcmRow)
        /\ UNCHANGED <<chunkMap, res>>
    BY <1>8, <1>0 DEF LoadChunkRow
  <2>1. lcmImg \in Images
    BY <2>0, <1>0 DEF LoadingUnbuilt
  <2>2. PICK key \in Addrs : key = ChunkTable[lcmImg][lcmRow]
    BY <2>1, <2>0
  <2>3. lcmMap \in ChunkMaps
    BY <1>0 DEF ChunkMaps
  <2>4. /\ DOMAIN lcmMap' = DOMAIN lcmMap \cup {key}
        /\ lcmMap'[key] = lcmRow
        /\ \A x \in DOMAIN lcmMap \ {key} : lcmMap'[x] = lcmMap[x]
    <3>1. lcmMap' = MapInsert(lcmMap, key, lcmRow)
      BY <2>0, <2>2
    <3>2. /\ DOMAIN MapInsert(lcmMap, key, lcmRow) = DOMAIN lcmMap \cup {key}
          /\ MapInsert(lcmMap, key, lcmRow)[key] = lcmRow
          /\ \A x \in DOMAIN lcmMap \ {key} : MapInsert(lcmMap, key, lcmRow)[x] = lcmMap[x]
      <4>1. lcmRow \in 1 .. NRows
        BY <2>0
      <4> QED
        BY <4>1, <2>2, <2>3 DEF MapInsert
    <3> QED
      BY <3>1, <3>2
  <2>5. \A img \in Images : RowsCarry(lcmMap', img)
    <3> TAKE img \in Images
    <3>1. ChunkTable[img][lcmRow] = key
      BY <2>1, <2>2 DEF ImagesShareTable
    <3>2. RowsCarry(lcmMap, img)
      BY <1>0 DEF MapsCarry
    <3> QED
      BY <2>4, <3>1, <3>2 DEF RowsCarry
  <2> QED
    BY <2>0, <2>5, <1>0 DEF MapsCarry, ChunkInfoMatchesAddress
<1>9. ASSUME NEW t \in Threads, LoadChunkMapDone(t) PROVE <1>a!1
  <2>1. chunkMap' = lcmMap /\ lcmMap' = << >> /\ UNCHANGED res
    BY <1>9 DEF LoadChunkMapDone
  <2> QED
    BY <2>1, <1>0 DEF MapsCarry, RowsCarry, ChunkInfoMatchesAddress
<1>10. ASSUME NEW t \in Threads, GetChunkInfoLookup(t) PROVE <1>a!1
  <2>0. /\ pc[t] = "lookup" /\ UNCHANGED <<chunkMap, lcmMap>>
        /\ res' = [res EXCEPT ![t] =
               IF addr[t] \in DOMAIN chunkMap
                 THEN {[addr |-> addr[t], row |-> chunkMap[addr[t]], img |-> snap[t]]}
                 ELSE {}]
    BY <1>10 DEF GetChunkInfoLookup
  <2>1. snap[t] \in Images
    BY <2>0, <1>0 DEF GuardsLoaded, InGetChunkInfo
  <2>2. addr[t] \in DOMAIN chunkMap => ChunkTable[snap[t]][chunkMap[addr[t]]] = addr[t]
    BY <2>1, <1>0 DEF MapsCarry, RowsCarry
  <2>3. \A r \in res'[t] : Matches(r)
    <3>1. CASE addr[t] \in DOMAIN chunkMap
      <4>1. res'[t] = {[addr |-> addr[t], row |-> chunkMap[addr[t]], img |-> snap[t]]}
        BY <2>0, <3>1, <1>0
      <4> QED
        BY <4>1, <3>1, <2>2
    <3>2. CASE addr[t] \notin DOMAIN chunkMap
      <4>1. res'[t] = {}
        BY <2>0, <3>2, <1>0
      <4> QED
        BY <4>1
    <3> QED
      BY <3>1, <3>2
  <2> QED
    BY <2>0, <2>3, <1>0 DEF MapsCarry, ChunkInfoMatchesAddress
<1>11. ASSUME NEW t \in Threads, ChunkInfoGetter(t) PROVE <1>a!1
  <2>0. /\ res' = [res EXCEPT ![t] = {[r EXCEPT !.img = current] : r \in res[t]}]
        /\ UNCHANGED <<chunkMap, lcmMap>> /\ pc[t] = "holding"
    BY <1>11 DEF ChunkInfoGetter
  <2>1. current \in Images
    BY <2>0, <1>0 DEF LoadedWhenBusy
  <2>2. \A r \in res[t] : Matches([r EXCEPT !.img = current])
    <3> TAKE r \in res[t]
    <3>1. r \in Result /\ Matches(r)
      BY <1>0 DEF ChunkInfoMatchesAddress
    <3>2. [r EXCEPT !.img = current] = [addr |-> r.addr, row |-> r.row, img |-> current]
      BY <3>1, <2>1, ResultRetag
    <3>3. ChunkTable[current] = ChunkTable[r.img]
      BY <2>1, <3>1 DEF ImagesShareTable, Result
    <3> QED
      BY <3>1, <3>2, <3>3
  <2>3. \A r \in res'[t] : Matches(r)
    <3>1. res'[t] = {[r EXCEPT !.img = current] : r \in res[t]}
      BY <2>0, <1>0
    <3> TAKE x \in res'[t]
    <3>2. PICK r \in res[t] : x = [r EXCEPT !.img = current]
      BY <3>1
    <3> QED
      BY <3>2, <2>2
  <2>4. \A u \in Threads \ {t} : res'[u] = res[u]
    BY <2>0, <1>0
  <2> QED
    BY <2>0, <2>3, <2>4, <1>0 DEF MapsCarry, ChunkInfoMatchesAddress
<1>12. CASE UNCHANGED vars
  BY <1>12, <1>b DEF vars
<1> QED
  BY <1>1, <1>2, <1>3, <1>4, <1>5, <1>6, <1>7, <1>8, <1>9, <1>10, <1>11, <1>12 DEF Next

\* Under a shared chunk table, every DirectChunkInfoV6 a thread holds,
\* freshly made or re-read from the image current at its getter, names the
\* chunk-table row of the address it was looked up by
\* (ChunkInfoMatchesAddress): chunk_map's rows and the Guard the info is
\* read from never disagree.
THEOREM ChunkInfoCorrect ==
  ASSUME ImagesShareTable
  PROVE  Spec => []ChunkInfoMatchesAddress
<1>1. ChunkInv /\ [Next]_vars => ChunkInv'
  BY ChunkInvNext
<1>2. ChunkInv => ChunkInfoMatchesAddress
  BY DEF ChunkInv
<1> QED
  BY ChunkInvInit, <1>1, <1>2, PTL DEF Spec

-----------------------------------------------------------------------------
\* A busy thread's inode record lies inside the mapping of every image.
HandlesMapped ==
  \A t \in Threads : pc[t] # "idle" => \A img \in Images : handle[t] \in InSlot[img]

LEMMA HandleInvInit == Init => HandleInv
BY TypeInvInit DEF Init, HandleInv, HandleNeverPanics

LEMMA HandleInvNext ==
  ASSUME ImagesShareSlots
  PROVE  HandleInv /\ [Next]_vars => HandleInv'
<1> SUFFICES ASSUME HandleInv, [Next]_vars PROVE HandleInv'
  OBVIOUS
<1>0. TypeInv /\ HandlesMapped /\ HandleNeverPanics /\ TypeInv'
  BY TypeInvNext DEF HandleInv, HandlesMapped
<1> USE ImagesAssumption DEF TypeInv, TypeOK
<1>a. SUFFICES HandlesMapped' /\ HandleNeverPanics'
  BY <1>0 DEF HandleInv, HandlesMapped
\* A busy thread is served by a loaded image, which maps its inode.
<1>b. ASSUME NEW t \in Threads, pc[t] # "idle"
      PROVE  current \in Images /\ DiskInodeOk(current, handle[t])
  BY <1>0, <1>b, ImagesAssumption DEF LoadedWhenBusy, HandlesMapped, DiskInodeOk
\* A step that moves no thread and keeps every handle.
<1>c. ASSUME UNCHANGED <<pc, handle>> PROVE <1>a!1
  BY <1>0, <1>c DEF HandlesMapped, HandleNeverPanics
\* A busy thread moved to a place that is neither idle nor a panic.
<1>d. ASSUME NEW t \in Threads, pc[t] # "idle", UNCHANGED handle,
             NEW p \in {"holding", "count", "gci", "loading", "lookup"},
             pc' = [pc EXCEPT ![t] = p]
      PROVE  <1>a!1
  BY <1>0, <1>d DEF HandlesMapped, HandleNeverPanics
<1>1. ASSUME NEW img \in Images, UpdateState(img) PROVE <1>a!1
  BY <1>1, <1>c DEF UpdateState
<1>2. ASSUME NEW t \in Threads, NEW n \in Nids, GetInode(t, n) PROVE <1>a!1
  <2>1. pc' = [pc EXCEPT ![t] = "holding"] /\ handle' = [handle EXCEPT ![t] = n]
        /\ DiskInodeOk(current, n)
    BY <1>2 DEF GetInode
  <2>2. \A img \in Images : n \in InSlot[img]
    BY <2>1, <1>0 DEF DiskInodeOk, ImagesShareSlots, States
  <2> QED
    BY <2>1, <2>2, <1>0 DEF HandlesMapped, HandleNeverPanics
<1>3. ASSUME NEW t \in Threads, Access(t) PROVE <1>a!1
  <2>1. pc[t] = "holding" /\ UNCHANGED handle
    BY <1>3 DEF Access
  <2>2. pc' = [pc EXCEPT ![t] = "holding"]
    BY <1>3, <1>b, <2>1 DEF Access
  <2> QED
    BY <2>1, <2>2, <1>d
<1>4. ASSUME NEW t \in Threads, Drop(t) PROVE <1>a!1
  <2>1. pc' = [pc EXCEPT ![t] = "idle"] /\ UNCHANGED handle
    BY <1>4 DEF Drop
  <2> QED
    BY <2>1, <1>0 DEF HandlesMapped, HandleNeverPanics
<1>5. ASSUME NEW t \in Threads, NEW idx \in 1 .. NRows, GetChunkInfoStart(t, idx)
      PROVE <1>a!1
  <2>1. pc[t] = "holding" /\ UNCHANGED handle
    BY <1>5 DEF GetChunkInfoStart
  <2>2. pc' = [pc EXCEPT ![t] = "count"]
    BY <1>5, <1>b, <2>1 DEF GetChunkInfoStart
  <2> QED
    BY <2>1, <2>2, <1>d
<1>6. ASSUME NEW t \in Threads, GetChunkCount(t) PROVE <1>a!1
  <2>1. pc[t] = "count" /\ UNCHANGED handle
    BY <1>6 DEF GetChunkCount
  <2>2. pc' = [pc EXCEPT ![t] = "holding"] \/ pc' = [pc EXCEPT ![t] = "gci"]
    BY <1>6, <1>b, <2>1 DEF GetChunkCount
  <2> QED
    BY <2>1, <2>2, <1>d
<1>7. ASSUME NEW t \in Threads, GetChunkInfoLock(t) PROVE <1>a!1
  <2>1. pc[t] = "gci" /\ UNCHANGED handle
    BY <1>7 DEF GetChunkInfoLock
  <2>2. pc' = [pc EXCEPT ![t] = "lookup"] \/ pc' = [pc EXCEPT ![t] = "loading"]
    BY <1>7 DEF GetChunkInfoLock
  <2> QED
    BY <2>1, <2>2, <1>d
<1>8. ASSUME NEW t \in Threads, LoadChunkRow(t) PROVE <1>a!1
  BY <1>8, <1>c DEF LoadChunkRow
<1>9. ASSUME NEW t \in Threads, LoadChunkMapDone(t) PROVE <1>a!1
  <2>1. pc[t] = "loading" /\ UNCHANGED handle /\ pc' = [pc EXCEPT ![t] = "lookup"]
    BY <1>9 DEF LoadChunkMapDone
  <2> QED
    BY <2>1, <1>d
<1>10. ASSUME NEW t \in Threads, GetChunkInfoLookup(t) PROVE <1>a!1
  <2>1. pc[t] = "lookup" /\ UNCHANGED handle /\ pc' = [pc EXCEPT ![t] = "holding"]
    BY <1>10 DEF GetChunkInfoLookup
  <2> QED
    BY <2>1, <1>d
<1>11. ASSUME NEW t \in Threads, ChunkInfoGetter(t) PROVE <1>a!1
  BY <1>11, <1>c DEF ChunkInfoGetter
<1>12. CASE UNCHANGED vars
  BY <1>12, <1>c DEF vars
<1> QED
  BY <1>1, <1>2, <1>3, <1>4, <1>5, <1>6, <1>7, <1>8, <1>9, <1>10, <1>11, <1>12 DEF Next

\* When every image the daemon swaps in maps the same inode records, no
\* accessor of an inode handle, and no get_chunk_info, ever unwraps a
\* disk_inode outside the current mapping (HandleNeverPanics): the handle
\* checked by get_inode stays valid across update_state.
THEOREM HandlesSafe ==
  ASSUME ImagesShareSlots
  PROVE  Spec => []HandleNeverPanics
<1>1. HandleInv /\ [Next]_vars => HandleInv'
  BY HandleInvNext
<1>2. HandleInv => HandleNeverPanics
  BY DEF HandleInv
<1> QED
  BY HandleInvInit, <1>1, <1>2, PTL DEF Spec

-----------------------------------------------------------------------------
LEMMA IndexInvInit == Init => IndexInv
BY TypeInvInit DEF Init, IndexInv, ChunkIndexInInode

LEMMA IndexInvNext ==
  ASSUME ImagesShareCounts
  PROVE  IndexInv /\ [Next]_vars => IndexInv'
<1> SUFFICES ASSUME IndexInv, [Next]_vars PROVE IndexInv'
  OBVIOUS
<1>0. TypeInv /\ ChunkIndexInInode /\ TypeInv'
  BY TypeInvNext DEF IndexInv
<1> USE ImagesAssumption DEF TypeInv, TypeOK
<1>a. SUFFICES ChunkIndexInInode'
  BY <1>0 DEF IndexInv
\* A step that keeps every thread's place, Guard, handle and index.
<1>b. ASSUME UNCHANGED <<pc, snap, handle, cidx>> PROVE ChunkIndexInInode'
  BY <1>0, <1>b DEF ChunkIndexInInode
\* A step that moves one thread to a place other than gci, and keeps the
\* others' places and every Guard, handle and index.
<1>c. ASSUME NEW t \in Threads, UNCHANGED <<snap, handle, cidx>>,
             NEW p \in {"idle", "holding", "count", "loading", "lookup", "panic"},
             pc' = [pc EXCEPT ![t] = p]
      PROVE  ChunkIndexInInode'
  BY <1>0, <1>c DEF ChunkIndexInInode
<1>1. ASSUME NEW img \in Images, UpdateState(img) PROVE ChunkIndexInInode'
  BY <1>1, <1>b DEF UpdateState
<1>2. ASSUME NEW t \in Threads, NEW n \in Nids, GetInode(t, n) PROVE ChunkIndexInInode'
  <2>1. pc[t] = "idle" /\ pc' = [pc EXCEPT ![t] = "holding"]
        /\ handle' = [handle EXCEPT ![t] = n] /\ UNCHANGED <<snap, cidx>>
    BY <1>2 DEF GetInode
  <2> QED
    BY <2>1, <1>0 DEF ChunkIndexInInode
<1>3. ASSUME NEW t \in Threads, Access(t) PROVE ChunkIndexInInode'
  <2>1. UNCHANGED <<snap, handle, cidx>>
        /\ (pc' = [pc EXCEPT ![t] = "holding"] \/ pc' = [pc EXCEPT ![t] = "panic"])
    BY <1>3 DEF Access
  <2> QED
    BY <2>1, <1>c
<1>4. ASSUME NEW t \in Threads, Drop(t) PROVE ChunkIndexInInode'
  BY <1>4, <1>c DEF Drop
<1>5. ASSUME NEW t \in Threads, NEW idx \in 1 .. NRows, GetChunkInfoStart(t, idx)
      PROVE ChunkIndexInInode'
  <2>1. /\ pc' = [pc EXCEPT ![t] = "count"] \/ pc' = [pc EXCEPT ![t] = "panic"]
        /\ snap' = [snap EXCEPT ![t] = current] /\ cidx' = [cidx EXCEPT ![t] = idx]
        /\ UNCHANGED handle
    BY <1>5 DEF GetChunkInfoStart
  <2> QED
    BY <2>1, <1>0 DEF ChunkIndexInInode
<1>6. ASSUME NEW t \in Threads, GetChunkCount(t) PROVE ChunkIndexInInode'
  <2>0. pc[t] = "count" /\ UNCHANGED <<snap, handle, cidx>>
    BY <1>6 DEF GetChunkCount
  <2>1. CASE DiskInodeOk(current, handle[t])
             /\ ~(cidx[t] > Len(InodeChunks[current][handle[t]]))
    <3>1. pc' = [pc EXCEPT ![t] = "gci"]
      BY <1>6, <2>1 DEF GetChunkCount
    <3>2. current \in Images /\ snap[t] \in Images
      BY <2>0, <2>1, <1>0 DEF DiskInodeOk, States, GuardsLoaded, InGetChunkInfo
    <3>3. Len(InodeChunks[current][handle[t]]) = Len(InodeChunks[snap[t]][handle[t]])
      BY <3>2, <1>0 DEF ImagesShareCounts
    <3>4. cidx[t] \in 1 .. Len(InodeChunks[snap[t]][handle[t]])
      BY <2>1, <3>2, <3>3, <1>0
    <3> QED
      BY <2>0, <3>1, <3>4, <1>0 DEF ChunkIndexInInode
  <2>2. CASE ~(DiskInodeOk(current, handle[t])
               /\ ~(cidx[t] > Len(InodeChunks[current][handle[t]])))
    <3>1. pc' = [pc EXCEPT ![t] = "panic"] \/ pc' = [pc EXCEPT ![t] = "holding"]
      BY <1>6, <2>2 DEF GetChunkCount
    <3> QED
      BY <2>0, <3>1, <1>c
  <2> QED
    BY <2>1, <2>2
<1>7. ASSUME NEW t \in Threads, GetChunkInfoLock(t) PROVE ChunkIndexInInode'
  <2>1. UNCHANGED <<snap, handle, cidx>>
        /\ (pc' = [pc EXCEPT ![t] = "lookup"] \/ pc' = [pc EXCEPT ![t] = "loading"])
    BY <1>7 DEF GetChunkInfoLock
  <2> QED
    BY <2>1, <1>c
<1>8. ASSUME NEW t \in Threads, LoadChunkRow(t) PROVE ChunkIndexInInode'
  BY <1>8, <1>b DEF LoadChunkRow
<1>9. ASSUME NEW t \in Threads, LoadChunkMapDone(t) PROVE ChunkIndexInInode'
  BY <1>9, <1>c DEF LoadChunkMapDone
<1>10. ASSUME NEW t \in Threads, GetChunkInfoLookup(t) PROVE ChunkIndexInInode'
  BY <1>10, <1>c DEF GetChunkInfoLookup
<1>11. ASSUME NEW t \in Threads, ChunkInfoGetter(t) PROVE ChunkIndexInInode'
  BY <1>11, <1>b DEF ChunkInfoGetter
<1>12. CASE UNCHANGED vars
  BY <1>12, <1>b DEF vars
<1> QED
  BY <1>1, <1>2, <1>3, <1>4, <1>5, <1>6, <1>7, <1>8, <1>9, <1>10, <1>11, <1>12 DEF Next

\* When every image the daemon swaps in gives each inode as many chunks,
\* the index get_chunk_info checked against get_chunk_count (which reloads
\* the state) lies within the inode's chunk addresses in the Guard it reads
\* them from (ChunkIndexInInode): no read past the inode record.
THEOREM ChunkIndexSafe ==
  ASSUME ImagesShareCounts
  PROVE  Spec => []ChunkIndexInInode
<1>1. IndexInv /\ [Next]_vars => IndexInv'
  BY IndexInvNext
<1>2. IndexInv => ChunkIndexInInode
  BY DEF IndexInv
<1> QED
  BY IndexInvInit, <1>1, <1>2, PTL DEF Spec
=============================================================================
