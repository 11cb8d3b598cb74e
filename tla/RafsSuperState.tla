--------------------------- MODULE RafsSuperState ---------------------------
(***************************************************************************)
(* The hot-swap state of DirectSuperBlockV6 (direct_v6.rs): the ArcSwap    *)
(* `state` that publishes the DirectMappingState (meta, blob table, file   *)
(* map) of the current bootstrap, the inode handles (OndiskInodeWrapper)   *)
(* that front-end threads obtain from it, and the lazy chunk index         *)
(* `info.chunk_map` consulted by get_chunk_info.                           *)
(*                                                                         *)
(* A bootstrap image is a model value; what the driver reads from it is    *)
(* given by constant functions of the image: the nids whose slot lies in   *)
(* the mapping, the chunk addresses stored on each inode, and the rows of  *)
(* the chunk table (each row as the chunk address load_chunk_map          *)
(* synthesises from it).  update_state keeps the old meta, so every image  *)
(* has the same number of chunk-table rows.                                *)
(*                                                                         *)
(* Code under a lock that reads `state` once is one step (the chunk_map    *)
(* mutex is held from the check to the end of get_chunk_info).  Writers    *)
(* are serialised by the daemon, so update_state is one step too.          *)
(***************************************************************************)
EXTENDS Integers, Sequences, FiniteSets

CONSTANTS
  Images,       \* bootstraps that load/update may be given
  Unloaded,     \* the DirectMappingState built by DirectSuperBlockV6::new
  Threads,      \* front-end threads
  Nids,         \* inode numbers asked for
  Addrs,        \* chunk addresses (RafsV6InodeChunkAddr values)
  NRows,        \* meta.chunk_table_size / size_of::<RafsV5ChunkInfo>()
  InSlot,       \* InSlot[img]: nids whose inode record lies in the mapping
  InodeChunks,  \* InodeChunks[img][n]: on-inode chunk addresses of inode n
  ChunkTable,   \* ChunkTable[img][r]: chunk address of chunk-table row r
  BlobTableOk   \* BlobTableOk[img]: blob table range lies inside the file

ASSUME ImagesAssumption ==
  /\ Unloaded \notin Images
  /\ NRows \in Nat
  /\ Nids # {} /\ Addrs # {}
  /\ InSlot \in [Images -> SUBSET Nids]
  /\ InodeChunks \in [Images -> [Nids -> Seq(Addrs)]]
  /\ ChunkTable \in [Images -> [1 .. NRows -> Addrs]]
  /\ BlobTableOk \in [Images -> BOOLEAN]

VARIABLES
  current,    \* the DirectMappingState the ArcSwap points to
  built,      \* chunk_map is Some
  chunkMap,   \* the HashMap inside chunk_map, when built
  mutex,      \* the thread holding the chunk_map mutex ({} when free)
  lcmImg,     \* load_chunk_map: the image of its Guard
  lcmRow,     \* load_chunk_map: the next chunk-table row
  lcmMap,     \* load_chunk_map: the HashMap it is filling
  pc,         \* pc[t]: "idle", "holding", "gci" or "panic"
  handle,     \* handle[t]: nid of the OndiskInodeWrapper thread t holds
  snap,       \* snap[t]: Guard taken by get_chunk_info
  cidx,       \* cidx[t]: the chunk index get_chunk_info was asked for
  addr,       \* addr[t]: chunk address read by get_chunk_info
  res         \* res[t]: {} or the DirectChunkInfoV6 returned, as
              \* [addr, row, img]: img is the image its row was read from

vars == <<current, built, chunkMap, mutex, lcmImg, lcmRow, lcmMap, pc, handle, snap, cidx, addr, res>>

States == Images \cup {Unloaded}

Result == [addr : Addrs, row : 1 .. NRows, img : Images]

(* HashMap::insert: the key maps to the value, replacing an older one. *)
MapInsert(m, k, v) == [x \in DOMAIN m \cup {k} |-> IF x = k THEN v ELSE m[x]]

(* disk_inode(state, offset): get_ref of the inode record succeeds. *)
DiskInodeOk(s, n) == s # Unloaded /\ n \in InSlot[s]

-----------------------------------------------------------------------------
Init ==
  /\ current = Unloaded
  /\ built = FALSE
  /\ chunkMap = <<>>
  /\ mutex = {} /\ lcmImg = Unloaded /\ lcmRow = 1 /\ lcmMap = <<>>
  /\ pc = [t \in Threads |-> "idle"]
  /\ handle = [t \in Threads |-> CHOOSE n \in Nids : TRUE]
  /\ snap = [t \in Threads |-> Unloaded]
  /\ cidx = [t \in Threads |-> 1]
  /\ addr = [t \in Threads |-> CHOOSE a \in Addrs : TRUE]
  /\ res = [t \in Threads |-> {}]

(* update_state (load and update): validate the blob table range against  *)
(* the new file, map it and swap the new DirectMappingState in.  chunk_map *)
(* lives in DirectCachedInfo and is left as it is.                         *)
UpdateState(img) ==
  /\ BlobTableOk[img]
  /\ current' = img
  /\ UNCHANGED <<built, chunkMap, mutex, lcmImg, lcmRow, lcmMap, pc, handle, snap, cidx, addr, res>>

(* Mutant: the handle is built without checking the inode record. *)
GetInodeUnchecked(t, n) ==
  /\ pc[t] = "idle"
  /\ current # Unloaded
  /\ pc' = [pc EXCEPT ![t] = "holding"]
  /\ handle' = [handle EXCEPT ![t] = n]
  /\ res' = [res EXCEPT ![t] = {}]
  /\ UNCHANGED <<current, built, chunkMap, mutex, lcmImg, lcmRow, lcmMap, snap, cidx, addr>>

(* get_inode(nid): snapshot the state and build an OndiskInodeWrapper;    *)
(* fails with InvalidData when the inode record is outside the mapping.   *)
(* The daemon serves requests only once the bootstrap is loaded.          *)
GetInode(t, n) ==
  /\ pc[t] = "idle"
  /\ current # Unloaded
  /\ DiskInodeOk(current, n)
  /\ pc' = [pc EXCEPT ![t] = "holding"]
  /\ handle' = [handle EXCEPT ![t] = n]
  /\ res' = [res EXCEPT ![t] = {}]
  /\ UNCHANGED <<current, built, chunkMap, mutex, lcmImg, lcmRow, lcmMap, snap, cidx, addr>>

(* Any accessor of the handle (size, mode, is_dir, get_attr, ...): it     *)
(* loads the state afresh and unwraps disk_inode, which panics when the   *)
(* inode record is not inside the current mapping.                        *)
Access(t) ==
  /\ pc[t] = "holding"
  /\ pc' = [pc EXCEPT ![t] = IF DiskInodeOk(current, handle[t])
                               THEN "holding" ELSE "panic"]
  /\ UNCHANGED <<current, built, chunkMap, mutex, lcmImg, lcmRow, lcmMap, handle, snap, cidx, addr, res>>

(* The Arc<dyn RafsInode> is dropped. *)
Drop(t) ==
  /\ pc[t] = "holding"
  /\ pc' = [pc EXCEPT ![t] = "idle"]
  /\ res' = [res EXCEPT ![t] = {}]
  /\ UNCHANGED <<current, built, chunkMap, mutex, lcmImg, lcmRow, lcmMap, handle, snap, cidx, addr>>

(* get_chunk_info(idx) takes its Guard and reads the inode record from  *)
(* it (1132-1133), which panics outside the mapping.                       *)
GetChunkInfoStart(t, idx) ==
  /\ pc[t] = "holding"
  /\ pc' = [pc EXCEPT ![t] = IF DiskInodeOk(current, handle[t]) THEN "count" ELSE "panic"]
  /\ snap' = [snap EXCEPT ![t] = current]
  /\ cidx' = [cidx EXCEPT ![t] = idx]
  /\ res' = [res EXCEPT ![t] = {}]
  /\ UNCHANGED <<current, built, chunkMap, mutex, lcmImg, lcmRow, lcmMap, handle, addr>>

(* Mutant: the index is let through when it equals the chunk count. *)
GetChunkCountOffByOne(t) ==
  LET s == current
      n == handle[t]
      own == InodeChunks[snap[t]][n]
  IN  /\ pc[t] = "count"
      /\ IF ~DiskInodeOk(s, n)
           THEN pc' = [pc EXCEPT ![t] = "panic"] /\ UNCHANGED addr
         ELSE IF cidx[t] > Len(InodeChunks[s][n]) + 1
           THEN pc' = [pc EXCEPT ![t] = "holding"] /\ UNCHANGED addr
         ELSE /\ pc' = [pc EXCEPT ![t] = "gci"]
              /\ IF cidx[t] <= Len(own)
                   THEN addr' = [addr EXCEPT ![t] = own[cidx[t]]]
                   ELSE \E a \in Addrs : addr' = [addr EXCEPT ![t] = a]
      /\ UNCHANGED <<current, built, chunkMap, mutex, lcmImg, lcmRow, lcmMap, handle, snap, cidx, res>>

(* The bound check idx >= get_chunk_count() (1134): is_reg and            *)
(* get_chunk_count (get_child_count, 1048-1052, through size, 1077-1081)  *)
(* load the state again and unwrap disk_inode, so the count comes from    *)
(* the image current now, not the Guard.  An index out of range is        *)
(* ENOENT.  Otherwise the on-inode chunk address is read from the Guard    *)
(* (1138-1141); past the inode's own addresses it reads whatever follows  *)
(* in the mapping, any address.                                           *)
GetChunkCount(t) ==
  LET s == current
      n == handle[t]
      own == InodeChunks[snap[t]][n]
  IN  /\ pc[t] = "count"
      /\ IF ~DiskInodeOk(s, n)
           THEN pc' = [pc EXCEPT ![t] = "panic"] /\ UNCHANGED addr
         ELSE IF cidx[t] > Len(InodeChunks[s][n])
           THEN pc' = [pc EXCEPT ![t] = "holding"] /\ UNCHANGED addr
         ELSE /\ pc' = [pc EXCEPT ![t] = "gci"]
              /\ IF cidx[t] <= Len(own)
                   THEN addr' = [addr EXCEPT ![t] = own[cidx[t]]]
                   ELSE \E a \in Addrs : addr' = [addr EXCEPT ![t] = a]
      /\ UNCHANGED <<current, built, chunkMap, mutex, lcmImg, lcmRow, lcmMap, handle, snap, cidx, res>>

(* Mutant: the map is loaded whether or not it is None. *)
GetChunkInfoLockAlwaysLoads(t) ==
  /\ pc[t] = "gci"
  /\ mutex = {}
  /\ mutex' = {t}
  /\ pc' = [pc EXCEPT ![t] = "loading"]
  /\ lcmImg' = current /\ lcmRow' = 1 /\ lcmMap' = <<>>
  /\ UNCHANGED <<current, built, chunkMap, handle, snap, cidx, addr, res>>

(* get_chunk_info takes the chunk_map mutex (1142); if the map is None it *)
(* calls load_chunk_map, which takes its own Guard of the state (200).    *)
GetChunkInfoLock(t) ==
  /\ pc[t] = "gci"
  /\ mutex = {}
  /\ mutex' = {t}
  /\ IF built
       THEN pc' = [pc EXCEPT ![t] = "lookup"] /\ UNCHANGED <<lcmImg, lcmRow, lcmMap>>
       ELSE /\ pc' = [pc EXCEPT ![t] = "loading"]
            /\ lcmImg' = current /\ lcmRow' = 1 /\ lcmMap' = <<>>
  /\ UNCHANGED <<current, built, chunkMap, handle, snap, cidx, addr, res>>

(* Mutant: the row index stored one past the row. *)
LoadChunkRowOffByOne(t) ==
  /\ pc[t] = "loading"
  /\ lcmRow <= NRows
  /\ lcmMap' = MapInsert(lcmMap, ChunkTable[lcmImg][lcmRow], lcmRow + 1)
  /\ lcmRow' = lcmRow + 1
  /\ UNCHANGED <<current, built, chunkMap, mutex, lcmImg, pc, handle, snap, cidx, addr, res>>

(* Mutant: the address taken from the row counted from the end. *)
LoadChunkRowReversed(t) ==
  /\ pc[t] = "loading"
  /\ lcmRow <= NRows
  /\ lcmMap' = MapInsert(lcmMap, ChunkTable[lcmImg][NRows + 1 - lcmRow], lcmRow)
  /\ lcmRow' = lcmRow + 1
  /\ UNCHANGED <<current, built, chunkMap, mutex, lcmImg, pc, handle, snap, cidx, addr, res>>

(* Mutant: the first row of an address kept, as entry().or_insert would. *)
LoadChunkRowFirstWins(t) ==
  /\ pc[t] = "loading"
  /\ lcmRow <= NRows
  /\ lcmMap' = IF ChunkTable[lcmImg][lcmRow] \in DOMAIN lcmMap THEN lcmMap
               ELSE MapInsert(lcmMap, ChunkTable[lcmImg][lcmRow], lcmRow)
  /\ lcmRow' = lcmRow + 1
  /\ UNCHANGED <<current, built, chunkMap, mutex, lcmImg, pc, handle, snap, cidx, addr, res>>

(* One iteration of load_chunk_map's loop (211-218): the chunk address    *)
(* synthesised from the row is inserted with the row's index.             *)
LoadChunkRow(t) ==
  /\ pc[t] = "loading"
  /\ lcmRow <= NRows
  /\ lcmMap' = MapInsert(lcmMap, ChunkTable[lcmImg][lcmRow], lcmRow)
  /\ lcmRow' = lcmRow + 1
  /\ UNCHANGED <<current, built, chunkMap, mutex, lcmImg, pc, handle, snap, cidx, addr, res>>

(* load_chunk_map returns its map (220), stored in chunk_map (1144).      *)
LoadChunkMapDone(t) ==
  /\ pc[t] = "loading"
  /\ lcmRow > NRows
  /\ built' = TRUE /\ chunkMap' = lcmMap
  /\ pc' = [pc EXCEPT ![t] = "lookup"]
  /\ lcmImg' = Unloaded /\ lcmRow' = 1 /\ lcmMap' = <<>>
  /\ UNCHANGED <<current, mutex, handle, snap, cidx, addr, res>>

(* Still under the mutex: look the address up and make the              *)
(* DirectChunkInfoV6 of that row from the first Guard (1146-1150); the  *)
(* mutex is released when get_chunk_info returns.                       *)
GetChunkInfoLookup(t) ==
  /\ pc[t] = "lookup"
  /\ pc' = [pc EXCEPT ![t] = "holding"]
  /\ mutex' = {}
  /\ res' = [res EXCEPT ![t] =
               IF addr[t] \in DOMAIN chunkMap
                 THEN {[addr |-> addr[t], row |-> chunkMap[addr[t]], img |-> snap[t]]}
                 ELSE {}]
  /\ UNCHANGED <<current, built, chunkMap, lcmImg, lcmRow, lcmMap, handle, snap, cidx, addr>>

(* A getter of the returned DirectChunkInfoV6 (blob_index, offsets,       *)
(* flags ...): it loads the state afresh and reads its row there.         *)
ChunkInfoGetter(t) ==
  /\ pc[t] = "holding"
  /\ res[t] # {}
  /\ res' = [res EXCEPT ![t] = {[r EXCEPT !.img = current] : r \in res[t]}]
  /\ UNCHANGED <<current, built, chunkMap, mutex, lcmImg, lcmRow, lcmMap, pc, handle, snap, cidx, addr>>

Next ==
  \/ \E img \in Images : UpdateState(img)
  \/ \E t \in Threads :
       \/ \E n \in Nids : GetInode(t, n)
       \/ Access(t)
       \/ Drop(t)
       \/ \E idx \in 1 .. NRows : GetChunkInfoStart(t, idx)
       \/ GetChunkCount(t)
       \/ GetChunkInfoLock(t)
       \/ LoadChunkRow(t)
       \/ LoadChunkMapDone(t)
       \/ GetChunkInfoLookup(t)
       \/ ChunkInfoGetter(t)

Spec == Init /\ [][Next]_vars

-----------------------------------------------------------------------------
TypeOK ==
  /\ current \in States
  /\ built \in BOOLEAN
  /\ chunkMap \in UNION {[D -> 1 .. NRows] : D \in SUBSET Addrs}
  /\ mutex \in SUBSET Threads
  /\ lcmImg \in States /\ lcmRow \in 1 .. NRows + 1
  /\ lcmMap \in UNION {[D -> 1 .. NRows] : D \in SUBSET Addrs}
  /\ pc \in [Threads -> {"idle", "holding", "count", "gci", "loading", "lookup", "panic"}]
  /\ handle \in [Threads -> Nids]
  /\ snap \in [Threads -> States]
  /\ cidx \in [Threads -> Nat \ {0}]
  /\ addr \in [Threads -> Addrs]
  /\ res \in [Threads -> SUBSET Result]

(* get_chunk_info is correct: the chunk-table row of the DirectChunkInfoV6 *)
(* it returns, read from the image its getters read, describes the chunk  *)
(* address stored on the inode.  This relates the lazily built chunk_map, *)
(* the Guard taken by get_chunk_info and the state swapped in by updates.  *)
ChunkInfoMatchesAddress ==
  \A t \in Threads : \A r \in res[t] : ChunkTable[r.img][r.row] = r.addr

(* get_chunk_info reads a chunk address the inode stores, in the image   *)
(* it reads it from: the index it checked against get_chunk_count, which  *)
(* reloads the state, lies within the inode's chunk addresses in its own  *)
(* Guard.                                                                  *)
ChunkIndexInInode ==
  \A t \in Threads :
    pc[t] = "gci" => cidx[t] \in 1 .. Len(InodeChunks[snap[t]][handle[t]])

(* chunk_map is filled once: the map load_chunk_map returns is stored only *)
(* into a chunk_map that is still None, so no thread replaces an index    *)
(* other threads have looked addresses up in (the check and the store are *)
(* under one mutex).                                                       *)
ChunkMapStoredOnce ==
  [][\A t \in Threads : pc[t] = "loading" /\ pc'[t] = "lookup" => ~built]_vars

(* chunk_map, across every interleaving of readers, row-by-row loads     *)
(* under the mutex and hot swaps, behaves as ChunkMapSpec: None until one  *)
(* step stores the whole index of one image's chunk table, with each      *)
(* address at its last row, and unchanged after.                          *)
ChunkMapAbs == INSTANCE ChunkMapSpec
  WITH Images <- Images, Addrs <- Addrs, NRows <- NRows,
       ChunkTable <- ChunkTable, built <- built, chunkMap <- chunkMap

ChunkMapRefined == ChunkMapAbs!Spec

(* An inode handle never panics: every accessor finds the inode record    *)
(* inside the mapping it reads (the unwrap in disk_inode holds).          *)
HandleNeverPanics ==
  \A t \in Threads : pc[t] # "panic"
=============================================================================
