# TLA+ models of the RAFS v6 direct-mapped metadata driver

This directory holds TLA+ models of the metadata driver in
`src/rafs/src/metadata/direct_v6.rs` and `src/rafs/src/metadata/mod.rs`, and
of the nydusd service controller in `src/src/bin/nydusd/service_controller.rs`. It also holds the TLC
configurations that check the models and the TLAPS proofs about them.

## The system

`DirectSuperBlockV6` mmaps a bootstrap file and serves inode queries
straight from the mapping. Its parts, as the specification names them, are:

| Part | Code | Mutable state |
|------|------|---------------|
| A Bootstrap map | `FileMapState` (not in this repository) | none |
| B Blob table | `RafsV6BlobTable` (not in this repository) | none |
| C Inode decoder | `disk_inode`, `inode_size`, `xattr_size` | none |
| D Directory reader | `entry_name`, `find_target_block`, `walk_children_inodes`, `get_child_by_*` | none |
| E Xattr reader | `get_xattr`, `get_xattrs` | none |
| F Chunk resolver | `alloc_bio_vecs`, `chunk_addresses`, `make_chunk_io`, `get_chunk_info`, `load_chunk_map` | the lazy `chunk_map` |
| G Superblock driver | `load`, `update`, `update_state`, `get_inode`, `get_extended_inode` | the published state |
| H Hot-swap state | `state: Arc<ArcSwap<DirectMappingState>>` | the current state |
| I Inode handles | `OndiskInodeWrapper`, `DirectChunkInfoV6` | the handles the callers hold |

They interact as follows:

- `load`/`update` (G) build a `DirectMappingState` and store it in the ArcSwap (H).
- `get_inode` loads a Guard from H and builds an `OndiskInodeWrapper` (I) at the inode's offset. The handle keeps only the offset.
- **Every method of a handle loads the state again** (`self.state()`). Every getter of a `DirectChunkInfoV6` does the same.
- `get_chunk_info` (F) reads the on-inode chunk address, then takes the `chunk_map` mutex. It builds the index with `load_chunk_map`, which loads the state itself, and makes a `DirectChunkInfoV6` from the row it finds.
- `chunk_map` lives in `DirectCachedInfo`, next to the ArcSwap rather than inside the state.

## Modules

| Module | Models | Code |
|--------|--------|------|
| `ChunkIo` | one `alloc_bio_vecs` call at a time, with `chunk_addresses` and `make_chunk_io` | direct_v6.rs 456-528, 639-698; mod.rs 723-739 |
| `MC_ChunkIo` | the TLC instance of `ChunkIo` | |
| `ChunkIoProofs` | TLAPS proofs about `ChunkIo` | |
| `RafsSuperState` | hot swap, handles, `get_chunk_info` with the lazy index, chunk-info getters | direct_v6.rs 115-235, 316-330, 1131-1164 |
| `MC_RafsSuperState` | model values and image layouts for `RafsSuperState` | |
| `RafsSuperStateProofs` | TLAPS proofs about `RafsSuperState` | |
| `ChunkMapSpec` | what `chunk_map` promises: None, then in one step the index of one whole chunk table, never replaced | direct_v6.rs 100-106, 198-220, 1142-1145 |
| `ChunkMapProofs` | TLAPS proof that `RafsSuperState` implements `ChunkMapSpec` | |
| `DirLookup` | `get_child_by_name` with `find_target_block`, `walk_children_inodes`, `get_child_by_index`, `get_child_count`, with `data_block_offset` and the name-length computation of `entry_name` | direct_v6.rs 332-448, 530-568, 894-1070 |
| `MC_DirLookup` | a small image of four directories | |
| `DirLookupProofs` | TLAPS proofs about `DirLookup` | |
| `Xattr` | `get_xattr` and `get_xattrs` | direct_v6.rs 806-872 |
| `MC_Xattr` | six xattr bodies and an overrunning one | |
| `ServiceController` | concurrent `on_event` callers, the two channels, `start_services`/`stop_services`, `create_daemon` | service_controller.rs 37-222 |
| `MC_ServiceController` | three caller threads | |
| `ServiceControllerProofs` | TLAPS proof of `ResultsBalance` | |

### ChunkIo

State:
- `pc`: where the call is (idle, start, loop, done, error).
- `req`: the request, with file size, offset, length and the inode's chunk-address array. Each array entry is the blob of that chunk.
- `head`, `i`, `left`: `head_chunk_index`, the loop position and `left`.
- `out`: the flat list of descriptors. Each descriptor records its blob, chunk, `content_offset`, `content_len` and the number of the `BlobIoVec` it was pushed into.

Actions:
- `Request`: a FUSE read with `offset < size`, or the whole-file prefetch of `prefetch_inode` (mod.rs:739).
- `AllocFirst`: the code before the loop (646-673), including the early error return of `make_chunk_io`.
- `AllocNext`: one loop iteration (676-690), including the push of a new `BlobIoVec` when the blob index changes.
- `Return`: the final push and the result (692-697).

u32 arithmetic is kept modulo `2^W`: `U32(x) == x % 2^W` is the code's `as u32`.

### RafsSuperState

Images are model values. What the driver reads from an image is given by three constant functions of it:
- `InSlot`: which inode records lie inside its mapping.
- `InodeChunks`: the chunk addresses stored on each inode.
- `ChunkTable`: the address each chunk-table row synthesises in `load_chunk_map`.

State:
- `current`: the ArcSwap.
- `built`, `chunkMap`: `chunk_map`.
- `mutex`: the thread holding the `chunk_map` mutex.
- `lcmImg`, `lcmRow`, `lcmMap`: the locals of a running `load_chunk_map`: the image of its own `state.load()`, the loop index, and the HashMap being filled.
- Per thread: `pc`, `handle`, `snap` (the Guard `get_chunk_info` took), `addr`, and `res` (the chunk info returned, with the image its row was last read from).

Actions:
- `UpdateState`: writers are serialised by the daemon (spec section 5), so this is one step.
- `GetInode`.
- `Access`: any handle accessor, including its `unwrap`.
- `Drop`.
- `GetChunkInfoStart`: the Guard and the inode record read from it.
- `GetChunkCount`: the bound check `idx >= get_chunk_count()`, whose reloads
  of the state (through `is_reg`, `size` and `chunk_size`) are one step,
  then the read of the on-inode chunk address from the Guard. Past the
  inode's own addresses that read returns any address.
- `GetChunkInfoLock`: takes the mutex (1142). If `chunk_map` is None, it enters `load_chunk_map`, whose `state.load()` (200) is taken here.
- `LoadChunkRow`: one iteration of `load_chunk_map`'s loop (211-218). It inserts the address the row synthesises with the row's index (`MapInsert`, a HashMap insert).
- `LoadChunkMapDone`: the map is returned (220) and stored into `chunk_map` (1144), still under the mutex.
- `GetChunkInfoLookup`: looks the address up and builds the chunk info from the first Guard (1146-1150). The mutex is released on return.
- `ChunkInfoGetter`: a getter that reloads the state.

Each critical section that reads the state once is one step.

### DirLookup

One call runs at a time. Each iteration of a loop is one step, so the
model keeps every guard, early return and error path of the loops. Names are
small integers, ordered as the code compares names. `DOT` and `DOTDOT` sort
below the children, and name 1 sorts below `DOT`, as "-x" does. A directory is
a record: its first block `start` (i_u), its block count, whether its last
block is an inline tail stored at `islot`, and whether its size is a multiple
of 4096 (`full`). The image `Disk` maps block slots to dirent sequences.

Block addresses are usize byte addresses, kept in blocks: with `U` bits of
usize and blocks of `2^B` bytes there are `Slots = 2^(U-B)` addresses, and
`data_block_offset` of block k of a plain directory is `(start + k) % Slots`.
The mapping fills at most half of them (`DirLookupAssumption`), as a real
image fills a tiny share of 2^52 blocks. This matters: a wrapped pivot must
be able to land outside the mapping, where `get_entry` fails, as it does in the
code.

State: `op`, `dir`, `arg` (the call), `pc`, the binary-search bounds `first`
and `last`, `target` (find_target_block's result), the walk's `blk`, `ent`,
`skipped`, `cur` (`cur_offset`) and `out` (what the handler received), `res`,
and `build`, chosen at start: a debug build panics where a usize or u64
subtraction underflows, a release build wraps (`USize`).

Actions: `LookupStart`, `BlockProbe` (one iteration of find_target_block),
`BlocksExit`, `EntryProbe` (one iteration of the in-block search),
`EntriesExit`; `WalkStart`, `WalkNextBlock`, `WalkNameFails`, `WalkSkip`,
`WalkEmit` (the handler may break or continue), `WalkEnd`; `IndexStart`,
`IndexNextBlock`, `IndexDot`, `IndexChild`, `IndexEnd`; `CountStart`,
`CountBlock` (one iteration: `get_entry(..).unwrap()` of the block's head
entry, and `child_cnt += entries_count` in u32, which panics in a debug
build on overflow), `CountEnd` (`child_cnt - 2`); `Return`. `entry_name`'s only state-relevant behaviour, the underflow of
`size % 4096 - s` for the last entry of a full last block, is
`NameUnderflows`; a read past a block's entries (a wrapped index) returns any
of the `Garbage` dirents or fails.

The reference the properties compare with is the directory's entry list
(`DirEntries`, the blocks flattened) and its children (`Children`, without
the dots).

### Xattr

One call at a time, one loop iteration per step. A body is the inode's
`xattr_inline_count` and its entries; an entry is its `name_index`, suffix,
value size and value. `EntriesAt` is what `get_ref` returns at an offset: the
entry that starts there, any garbage entry where none starts, nothing past
the mapping. The layout (`Footprint`, `EntryOffset`) and `recover_namespace`
(`KnownNs`, `Prefixes`) are not in this repository and are modelled from the
spec. `remaining` has width `U` and wraps or panics like DirLookup's bounds.

### ServiceController

Each caller thread goes idle, sent, waiting, done. `Send` is the send under
the `request_sender` mutex, which is released at once; `LockRecv` takes
`result_receiver`; `Recv` receives under it and releases it when `on_event`
returns. The state machine (`DaemonStateMachineContext`) is not in this
repository: `Handle` takes events in order, accepts one (calling `start` or
`disconnect`, i.e. `start_services`/`stop_services`) or rejects it, and sends
one result; `StateMachineExit` drops both of its channel ends.
`LoopExit` is an fscache `run_loop` thread ending. Results carry the caller
they answer, a tag the real channel does not carry, so that a property can say
whose result a caller got.

## Runs

| Run | Result | What it shows |
|-----|--------|---------------|
| `chunkio_reads` | pass | Reads and prefetches of files of 1-6 bytes with 2-byte chunks (up to three chunks), blobs that change between chunks and failing blob lookups. The descriptors tile the window (P5), are grouped by blob, and the final `assert_eq!(left, 0)` cannot fire. |
| `chunkio_wide_file` | violation | A prefetch of a file whose size is `2^W` makes `left` 0. The code emits one zero-length descriptor instead of describing the file. |
| `rafs_super_same_image` | pass | Two threads, three nids and three chunk addresses, across reloads of images with the same layout. `get_chunk_info` always returns the row of its address, reads only chunk addresses the inode stores (`ChunkIndexInInode`), and no handle panics. `chunk_map` is stored only while it is still None (`ChunkMapStoredOnce`, an action property). `RafsSuperState` implements `ChunkMapSpec` (`ChunkMapRefined`): the row-by-row load under the mutex stores the index of a whole chunk table, with each address at its last row. |
| `rafs_super_stale_chunk_index` | violation | A reload with a reordered chunk table makes `get_chunk_info` return the row of another chunk. |
| `rafs_super_stale_handle` | violation | A reload that drops an inode from the mapping makes the next accessor of an existing handle panic. |
| `dir_lookup` | pass | Four directories (only the dots; one inline block; two plain blocks; two plain blocks and an inline tail), every lookup name, walks from offsets 0, 1, 3, 5, indices 0-3 and counts, in both builds. Lookups find exactly the children (`LookupCorrect`), a walk from an offset hands the handler the children after it, each with the offset to resume from (`WalkFromOffset`), index and count agree with the children, no call panics, and every call returns. |
| `dir_lookup_foreign_child` | violation | A release-build lookup of a missing name below "." wraps `last` at direct_v6.rs:561 and returns the nid of a child of another directory. |
| `dir_full_last_block` | violation | A directory whose size is a multiple of 4096: readdir ends in an error before its last child. |
| `xattr_reads` | pass | Six bodies (no xattrs; one; two namespaces with padding; an unknown namespace first; three entries), `get_xattr` of four names and `get_xattrs`, in both builds. Both return what the laid-out entries say (P8), and nothing panics. |
| `xattr_overrun` | violation | An entry that runs past the declared region underflows `remaining`; a debug build panics. |
| `service_on_event` | pass | Three callers, Start and Stop events, a state machine that accepts, rejects or exits at any point: the events and results in flight always number the callers inside `on_event` (`ResultsBalance`), and every caller that sent its event returns (`CallsReturn`). |
| `service_on_event_mixed_results` | violation | Two concurrent callers receive each other's results (`OwnResult`). |

Why these bounds are enough:
- Three chunks exercise the first chunk, a middle chunk and the last partial chunk.
- Three blob indices, one of them outside the blob table, exercise both a change of blob and a failed lookup.
- With W = 5 no conversion truncates, so the pass run is about the loop logic. W = 3 with an 8-byte file is the smallest instance of the truncation.
- Two threads and two images give every interleaving of one update with a `get_chunk_info` that spans it.
- DirLookup: no run contains a lookup whose `last` wraps and then completes: the only names that wrap it are those below ".", which make `LookupCorrect` fail (`dir_lookup_foreign_child`). Termination of the wrapped release-build search is therefore not among the checked results.
- DirLookup: one- to three-block directories give a block search of depth two, a pivot at both ends, a plain and an inline last block; names below, between and above the entries of every block reach every branch of both searches except the underflow of `last`, which only a name below "." reaches. U = 6 and 4-byte blocks (B = 2) give 16 block addresses with the image in the lower 8, the smallest space in which the wrapped search behaves as in the code (see the DirLookup section). u32 is 8 bits, enough for the counts.
- Xattr: entries of sizes 1-3 blocks of 4 bytes, padding, and a region of up to 7 entry units reach every rounding case; U = 5 is above every region.
- ServiceController: three callers are the fewest with two of them waiting while a third holds the receiver lock.

Fairness. DirLookup assumes weak fairness of the steps of a running call
(`CallStep`): a call in progress is a thread on the CPU. Starting a call and
returning its result are not assumed. ServiceController assumes weak fairness
of each caller's `LockRecv` and `Recv`, and of the state machine's `Handle`;
whether the state machine exits, and when an fscache loop ends, are not assumed.
Its callers make one call each, so the system stops once they are done:
`service_on_event` does not check deadlock. Xattr has no liveness property.

Every property of a passing run has a mutant in PROJECT.json: a plausible bug in the mapped code that TLC finds. Deadlock is checked in every run but `service_on_event`.

## Findings

1. **u32 truncation of `left`** (direct_v6.rs:658). Prefetching a file of 4 GiB or more describes only `size mod 2^32` bytes.
2. **The chunk index survives hot swaps** (direct_v6.rs:1143). `update_state` never resets `chunk_map`, and `load_chunk_map` builds it from its own `state.load()`. After an update with a different chunk table, `get_chunk_info` returns the wrong chunk. The spec (section 5, invariant 4) says the index is rebuilt per state tuple.
3. **Handles across an update** (direct_v6.rs:329). Handle accessors reload the state and `unwrap` at an offset that was validated against an older mapping. This contradicts P7 and the spec's promise that the core never panics.
4. **Lookup below "."** (direct_v6.rs:561). When the head name of block 0 sorts above the name, `last = pivot - 1` underflows. A debug build panics. In a release build `last` wraps, the next pivot addresses the block before the directory, and a name found there is returned instead of ENOENT (`dir_lookup_foreign_child`).
5. **Full last block** (direct_v6.rs:386). For a directory whose size is a multiple of 4096, the name length of its last entry underflows: readdir fails (release) or panics (debug).
6. **Xattr overrun** (direct_v6.rs:835). An entry that runs past the declared xattr bytes underflows `remaining`: a debug build panics on image input.
7. **on_event results mixed up** (service_controller.rs:171). The sender and receiver are locked separately, so concurrent callers can take each other's results.

`ChunkIndexInInode` fails when the images disagree on a file's chunk count. The
project has no run of this case. It is reproduced by giving `rafs_super_same_image`
`InodeChunks <- ShrunkChunks`. TLC then finds this trace:
1. `get_chunk_info` takes the Guard of the image where `n1` has one chunk.
2. An update swaps in the image where `n1` has two.
3. The reloaded count admits index 2, and the address is read past `n1`'s chunk array in the Guard.

This is the atomicity hazard at direct_v6.rs:1134.

## Proofs

`ChunkIoProofs` proves the following with TLAPS, for every value of the constants that satisfies the module's ASSUMEs:

- `TypeCorrect: Spec => []TypeOK`
  - Inductive invariant `TypeInv`: TypeOK, plus "a started call holds a real request" and "the loop runs only once the first descriptor exists".
  - Without these, the chunk index `head + i` could not be shown to lie in the on-inode array.
- `TilesWindow: ASSUME NoTruncation PROVE Spec => []DescriptorsTileWindow`
- `ChunksSuffice: ASSUME NoTruncation PROVE Spec => []ChunksSufficeForWindow`
  - Both rest on `TileInv = TypeInv /\ (pc \in {loop, done} => Progress)`.
  - `Progress` says that descriptor k describes chunk `head + k - 1` and that every descriptor but the last fills its chunk. It also says that the bytes described plus `left` equal the window.
  - Along this invariant, each step adds exactly what it removes from `left`. The bound `(head + i) * ChunkSize < size` while `left > 0` gives the chunk the loop reads next.
  - `NoTruncation` (no file reaches `2^W` bytes) is needed: the run `chunkio_wide_file` shows that both theorems fail without it.

- `BlobGrouping: Spec => []GroupedByBlob`, with no hypothesis on the file size.
  - `GroupedByBlob` alone is not inductive: a new descriptor's vector number is
    the last one's plus one, and "no vector number repeats across blobs" needs
    to know that the last descriptor holds the largest number. The invariant is
    `GroupInv = TypeInv /\ GroupedByBlob /\ VecsRise`.
  - `GroupAppend` shows that appending a descriptor that starts a new vector
    exactly when its blob differs from the last one keeps `Grouped`.

The lemmas are `RequestFacts`, `DivMod`, `HeadInRange`, `U32Le`, `BeforeEnd`, `NoTruncationFacts`, `AllocFirstProgress` and `AllocNextProgress`. `TileInv` was checked with TLC as an invariant before it was proved.

`ServiceControllerProofs` proves, for every finite set of callers:

- `BalanceInvariant: Spec => []ResultsBalance`
  - `ResultsBalance` alone is not inductive: a step's effect on the lengths of
    the channels is only known when they are sequences of well-formed
    records and `pc` is a function on the callers. The inductive invariant
    is `IInv = TypeInv /\ ResultsBalance`.
  - `Send` adds its caller to `Pending` and an event to the request channel
    (`FS_AddElement`); `Recv` removes its caller and a result, or, once the
    state machine has exited, takes nothing from a queue whose length is
    already at most `Cardinality(Pending)` (`FS_RemoveElement`); `Handle`
    moves one event to one result; `StateMachineExit` drops the events, which
    turns the equality into the inequality.
  - The assumption needed is that `Callers` is finite (`CallerSetFinite`).

`RafsSuperStateProofs` proves, for every set of threads, nids, addresses and images allowed by `ImagesAssumption`:

- `TypeCorrect: Spec => []TypeOK`
  - The inductive invariant `TypeInv` adds five facts to TypeOK:
    - `LoadedWhenBusy`: threads only run once an image is loaded.
    - `GuardsLoaded`: a thread inside `get_chunk_info` holds a Guard of a loaded image.
    - `MutexHeld` and `MutexExclusive`: the mutex is held by exactly the thread in `load_chunk_map` or the lookup.
    - `LoadingUnbuilt`: `load_chunk_map` runs over a loaded image while `chunk_map` is still None.
  - Without these, neither the row `load_chunk_map` reads nor the chunk info a getter rebuilds could be typed.
- `ChunkMapOnce: Spec => ChunkMapStoredOnce`. It follows from `LoadingUnbuilt`: only one thread gets past the `is_none` check with the mutex, and none does once the map is stored.
- The three safety properties of `rafs_super_same_image` each need a hypothesis. The hypothesis says that every image `update_state` may swap in agrees with the others on what the property reads. The violation runs show each property failing without its hypothesis. `MC_RafsSuperState`'s pass instance satisfies all three.
  - `ChunkInfoCorrect: ASSUME ImagesShareTable PROVE Spec => []ChunkInfoMatchesAddress`. Its inductive invariant `ChunkInv` says that both `chunk_map` and the map `load_chunk_map` is filling map every address to a row that carries it, in every image (`RowsCarry`). `LoadChunkRow` keeps this through `MapInsert`. The lookup and the getters then read a matching row.
  - `HandlesSafe: ASSUME ImagesShareSlots PROVE Spec => []HandleNeverPanics`. Its invariant `HandleInv` says that a busy thread's inode lies inside the mapping of every image.
  - `ChunkIndexSafe: ASSUME ImagesShareCounts PROVE Spec => []ChunkIndexInInode`. Its invariant `IndexInv` is `TypeInv` with the property: the reloaded chunk count equals the count in the Guard.

The lemmas are `ChunkMapsIntro`, `ChunkMapsElim`, `MapInsertFacts`, `EmptyMap` and `ResultRetag`, and the Init and Next steps of each invariant. TLC checked `TypeInv`, `ChunkInv`, `HandleInv` and `IndexInv` as invariants of the pass instance (40,833 states) before they were proved.

`ChunkMapProofs` proves that the detailed model implements the abstract one, for the same constants:

- `ChunkMapRefinement: Spec => ChunkMapRefined`, where `ChunkMapRefined == ChunkMapAbs!Spec` and `ChunkMapAbs == INSTANCE ChunkMapSpec WITH ...`. The refinement mapping, written out in the `WITH` clause, is the identity on `built` and `chunkMap` and on the constants. The steps of `load_chunk_map` work on the locals `lcmImg`, `lcmRow` and `lcmMap`, so they stutter.
  - `ChunkMapSpec` states the index as a property (`IsPrefixIndex`) rather than as a CHOOSE of the last row. The provers cannot show that the last row exists without induction. A map satisfying the property is unique, and TLC enumerates it.
  - The inductive invariant is `RefInv = TypeInv /\ LoadIndexed`. `LoadIndexed` says that the map of a running `load_chunk_map` indexes the rows it has inserted so far.
  - `PrefixIndexStep` shows that one loop step extends the index by one row. `MutexHeld` and `MutexExclusive` show that no other thread is loading when the lock is taken or the map is stored. `LoadingUnbuilt` shows that the store is the abstract `Build`, with `chunk_map` still None.
  - Unlike `ChunkInfoCorrect`, this theorem needs no hypothesis on the images: it is about which table the index is built from, not about the image it is later used with.
  - The run's mutant `LoadChunkRowFirstWins` keeps the first row of a repeated address, as `entry().or_insert` would. It still satisfies `ChunkInfoMatchesAddress`, but breaks the refinement.

`DirLookupProofs` proves, for every image allowed by `DirLookupAssumption` and `BoundsAssumption`:

- `TypeCorrect: Spec => []TypeOK`
  - Its invariant `TypeInv` is TypeOK plus `EntriesMapped`: the in-block search only
    runs in a block that `data_block_offset` maps. `BlockProbe` only enters a block
    once `get_entry` has read its head.
  - `BoundsAssumption` states what the code's types give: a directory's block count
    is at most the number of block addresses; a 4096-byte block holds at most 2^B
    dirents; offsets, indices and names are unsigned. It also states the ranges of
    `2^U`, `2^B` and `2^CW`, because the provers do not evaluate `^`.
  - Along the invariant, every bound stays in usize or u32 range, the pivot lies in
    `first .. last` (`PivotRange`), and every dirent read is a `Dirent`
    (`EntryReadDirent`, `BlockEntryDirent`).
- `NoPanicOnValidImage: ASSUME ValidImage PROVE Spec => []NeverPanics`, in both
  builds.
  - `ValidImage` has four conditions, and each excludes a panic TLC finds:
    - no directory size is a multiple of 4096, or `entry_name` underflows
      (direct_v6.rs:386, run `dir_full_last_block`);
    - at most 2^32 bytes of dirents, or `child_cnt` overflows u32;
    - "." and ".." are present (at least two entries), or `child_cnt - 2` underflows;
    - block 0's head entry is no larger than any name looked up, or `pivot - 1`
      underflows at pivot 0 (direct_v6.rs:561 and 991, run
      `dir_lookup_foreign_child`).
    `MC_DirLookup`'s pass instance satisfies it.
  - The invariant `NoPanicInv` adds the following to `TypeInv`:
    - a lookup's name is one of `LookupNames`;
    - `find_target_block` is at pivot 0 while it runs;
    - the head of the block the in-block search works in is at most the name;
    - the count loop's `child_cnt` lies between `blk` and `blk * 2^B`, and
      includes block 0's entries once it is counted.
  - With this invariant, every pivot-0 step finds the name at or above the head
    and stops before `pivot - 1`. The count stays below `count * 2^B < 2^32`, and
    `CountEnd` subtracts 2 from at least 2.

`TypeInv` and `NoPanicInv` were checked with TLC on the pass instance (896 states) before they were proved.

Only model-checked:
- The correctness properties of `DirLookup`: `LookupCorrect`, `WalkFromOffset`,
  `IndexCorrect` and `CountCorrect`.
  - They compare against `DirEntries`, a recursive function that flattens the
    blocks (`FlattenSeq`).
  - What it computes for every image needs induction over data, which the
    installed provers cannot instantiate.
- Everything about `Xattr`.
  - Its entry offsets are a recursive function (`EntryOffset`).
  - `GetRef` chooses the least matching index.
  - Both need the same induction.
- The per-caller ownership of results in `ServiceController` (`OwnResult`): the
  code violates it.
- Liveness (`CallsReturn`): TLAPS does not reason about fairness and ENABLED.

## Not modelled, and the plan

Already out of the model:
- The bootstrap map and the blob table: their code is not in this repository. They are abstracted as `InSlot`, `BlobTableLen` and `BlobTableOk`.
- Formatting, logging and attribute assembly: no state.
- `destroy`: teardown. Its hazard is listed in PROJECT.json.

- `get_child_index`, `get_parent` and `get_name`, and the field decoding of
  the inode decoder: no state beyond what is modelled.
- The daemon state machine: not in this repository (and out of the spec's
  scope); it is the environment of `ServiceController`.
- Blocks that declare no entries (`entries_count - 1` at direct_v6.rs:555 and
  971): excluded by `DirLookupAssumption`; the hazard is listed.

Planned:
1. `InodeLayout`: `validate` and `ino` (P1, P6).
2. An abstract `AllocIo` specification, with `ChunkIo` shown to refine it (the way `RafsSuperState` refines `ChunkMapSpec`).
3. A property for the guard callers keep before `alloc_bio_vecs`
   (direct_v6.rs:526), and a `destroy` action for mod.rs:561.
