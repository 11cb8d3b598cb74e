------------------------------ MODULE ChunkIo ------------------------------
(***************************************************************************)
(* The chunk resolver of the direct-mapped RAFS v6 driver:                 *)
(* OndiskInodeWrapper::alloc_bio_vecs (direct_v6.rs), which turns a byte   *)
(* range of a chunk-based regular file into blob I/O vectors, with the     *)
(* helpers it calls: chunk_addresses (the on-inode chunk-address array)    *)
(* and make_chunk_io (blob-table lookup and BlobDevice::create_io_chunk).  *)
(*                                                                         *)
(* One call is a sequence of steps: AllocFirst is the code before the      *)
(* loop (the first, possibly partial, chunk), AllocNext one iteration of   *)
(* the loop over the following chunks.  The Vec<BlobIoVec> result is kept  *)
(* flat: every descriptor records the number of the BlobIoVec it was       *)
(* pushed into, so "vec.push(descs); descs = BlobIoVec::new(..)" is "the   *)
(* next descriptor gets the next vector number".  Bytes are model bytes;   *)
(* u32 arithmetic is kept modulo 2^W.                                      *)
(***************************************************************************)
EXTENDS Integers, Sequences

CONSTANTS
  ChunkSize,     \* mapping.info.chunk_size
  FileSizes,     \* sizes of the chunk-based regular files that are read
  ReadLens,      \* sizes of FUSE reads; prefetch reads the whole file
  BlobTableLen,  \* number of entries of state.blob_table
  BlobIdx,       \* blob indices found in on-inode chunk addresses
  DevBlobs,      \* blobs for which BlobDevice::create_io_chunk returns Some
  W              \* width of the u32 type (32 in the code)

ASSUME ChunkSizeAssumption == ChunkSize \in Nat \ {0}
ASSUME FileSizesAssumption == FileSizes \subseteq Nat \ {0}
ASSUME ReadLensAssumption == ReadLens \subseteq Nat \ {0}
ASSUME BlobAssumption ==
  /\ BlobTableLen \in Nat
  /\ BlobIdx \subseteq Nat
  /\ DevBlobs \subseteq Nat
ASSUME WidthAssumption == W \in Nat \ {0} /\ 2 ^ W \in Nat \ {0}

VARIABLES
  pc,    \* "idle", "start", "loop", "done" or "error"
  req,   \* the call: file size, offset, length and chunk-address array
  head,  \* head_chunk_index
  i,     \* position in `chunks` of the next chunk address
  left,  \* `left`: bytes not yet described (a u32)
  out    \* the descriptors emitted so far, in order

vars == <<pc, req, head, i, left, out>>

(* `x as u32`. *)
U32(x) == x % (2 ^ W)

(* nydus_utils::div_round_up. *)
DivRoundUp(x, d) == (x + d - 1) \div d

MinOf(a, b) == IF a <= b THEN a ELSE b

(* Number of on-inode chunk addresses of a file of size s. *)
ChunkCount(s) == DivRoundUp(s, ChunkSize)

(* The on-inode chunk-address arrays of a file of size s: chunk k of the   *)
(* file is stored in blob addr[k].                                         *)
ChunkArrays(s) == [0 .. ChunkCount(s) - 1 -> BlobIdx]

Requests ==
  UNION { { [size |-> s, offset |-> o, len |-> l, addr |-> a] :
              o \in 0 .. s - 1, l \in ReadLens, a \in ChunkArrays(s) }
          \cup
          { [size |-> s, offset |-> 0, len |-> s, addr |-> a] :
              a \in ChunkArrays(s) }
        : s \in FileSizes }

NoRequest == [size |-> 0, offset |-> 0, len |-> 0, addr |-> <<>>]

Descriptor ==
  [blob : BlobIdx, chunk : Nat, off : Nat, len : Nat, vec : Nat \ {0}]

(* Mutant: the slice stops one chunk short. *)
ChunkAddressesShort(r, h) == h .. U32(ChunkCount(r.size)) - 2

(* chunk_addresses(state, head): the slice of the on-inode array from      *)
(* `head` on, as the file-chunk indices it holds.                          *)
ChunkAddresses(r, h) == h .. U32(ChunkCount(r.size)) - 1

(* make_chunk_io returns Some iff the blob index is in the blob table and  *)
(* the blob device knows the blob.                                         *)
MakeChunkIoOk(b) == b < BlobTableLen /\ b \in DevBlobs

-----------------------------------------------------------------------------
Init ==
  /\ pc = "idle"
  /\ req = NoRequest
  /\ head = 0
  /\ i = 0
  /\ left = 0
  /\ out = <<>>

(* A FUSE read of [offset, offset + len), offset < size, or the prefetch   *)
(* of a whole non-empty file (RafsSuper::prefetch_inode).                  *)
Request(r) ==
  /\ pc = "idle"
  /\ pc' = "start"
  /\ req' = r
  /\ UNCHANGED <<head, i, left, out>>

(* Mutant: the first chunk's length is not clamped to the request. *)
AllocFirstNoClamp ==
  LET h   == req.offset \div ChunkSize
      co  == req.offset % ChunkSize
      l0  == U32(MinOf(req.size - req.offset, req.len))
      cl  == ChunkSize - co
      b   == req.addr[h]
  IN  /\ pc = "start"
      /\ head' = h
      /\ i' = 1
      /\ IF MakeChunkIoOk(b)
           THEN /\ out' = <<[blob |-> b, chunk |-> h, off |-> co,
                             len |-> cl, vec |-> 1]>>
                /\ left' = l0 - cl
                /\ pc' = IF l0 - cl # 0 THEN "loop" ELSE "done"
           ELSE /\ pc' = "error"
                /\ UNCHANGED <<out, left>>
      /\ UNCHANGED req

(* Mutant: the first descriptor forgets the offset inside the chunk. *)
AllocFirstNoOffset ==
  LET h   == req.offset \div ChunkSize
      co  == req.offset % ChunkSize
      l0  == U32(MinOf(req.size - req.offset, req.len))
      cl  == MinOf(ChunkSize - co, l0)
      b   == req.addr[h]
  IN  /\ pc = "start"
      /\ head' = h
      /\ i' = 1
      /\ IF MakeChunkIoOk(b)
           THEN /\ out' = <<[blob |-> b, chunk |-> h, off |-> 0,
                             len |-> cl, vec |-> 1]>>
                /\ left' = l0 - cl
                /\ pc' = IF l0 - cl # 0 THEN "loop" ELSE "done"
           ELSE /\ pc' = "error"
                /\ UNCHANGED <<out, left>>
      /\ UNCHANGED req

(* alloc_bio_vecs up to the loop: the first chunk, from offset % chunk     *)
(* size on.                                                                *)
AllocFirst ==
  LET h   == req.offset \div ChunkSize
      co  == req.offset % ChunkSize
      l0  == U32(MinOf(req.size - req.offset, req.len))
      cl  == MinOf(ChunkSize - co, l0)
      b   == req.addr[h]
  IN  /\ pc = "start"
      /\ head' = h
      /\ i' = 1
      /\ IF MakeChunkIoOk(b)
           THEN /\ out' = <<[blob |-> b, chunk |-> h, off |-> co,
                             len |-> cl, vec |-> 1]>>
                /\ left' = l0 - cl
                /\ pc' = IF l0 - cl # 0 THEN "loop" ELSE "done"
           ELSE /\ pc' = "error"
                /\ UNCHANGED <<out, left>>
      /\ UNCHANGED req

(* Mutant: a new BlobIoVec is started when the blob differs from the     *)
(* first chunk's blob rather than from the current vector's.              *)
AllocNextFirstBlob ==
  LET c    == head + i
      b    == req.addr[c]
      cl   == MinOf(ChunkSize, left)
      last == out[Len(out)]
      v    == IF b # out[1].blob THEN last.vec + 1 ELSE last.vec
  IN  /\ pc = "loop"
      /\ c \in ChunkAddresses(req, head)
      /\ i' = i + 1
      /\ IF MakeChunkIoOk(b)
           THEN /\ out' = Append(out, [blob |-> b, chunk |-> c, off |-> 0,
                                      len |-> cl, vec |-> v])
                /\ left' = left - cl
                /\ pc' = IF left - cl = 0 THEN "done" ELSE "loop"
           ELSE /\ pc' = "error"
                /\ UNCHANGED <<out, left>>
      /\ UNCHANGED <<req, head>>

(* One iteration of `for c in chunks.iter().skip(1)`: the next chunk is    *)
(* described from its start; a change of blob starts a new BlobIoVec.      *)
AllocNext ==
  LET c    == head + i
      b    == req.addr[c]
      cl   == MinOf(ChunkSize, left)
      last == out[Len(out)]
      v    == IF b # last.blob THEN last.vec + 1 ELSE last.vec
  IN  /\ pc = "loop"
      /\ c \in ChunkAddresses(req, head)
      /\ i' = i + 1
      /\ IF MakeChunkIoOk(b)
           THEN /\ out' = Append(out, [blob |-> b, chunk |-> c, off |-> 0,
                                      len |-> cl, vec |-> v])
                /\ left' = left - cl
                /\ pc' = IF left - cl = 0 THEN "done" ELSE "loop"
           ELSE /\ pc' = "error"
                /\ UNCHANGED <<out, left>>
      /\ UNCHANGED <<req, head>>

(* The caller takes the result (or the error) and issues the next call.    *)
Return ==
  /\ pc \in {"done", "error"}
  /\ pc' = "idle"
  /\ req' = NoRequest
  /\ head' = 0
  /\ i' = 0
  /\ left' = 0
  /\ out' = <<>>

Next ==
  \/ \E r \in Requests : Request(r)
  \/ AllocFirst
  \/ AllocNext
  \/ Return

(* A call is never suspended: each started call runs to its end.           *)
Spec == Init /\ [][Next]_vars /\ WF_vars(AllocFirst \/ AllocNext \/ Return)

-----------------------------------------------------------------------------
TypeOK ==
  /\ pc \in {"idle", "start", "loop", "done", "error"}
  /\ req \in Requests \cup {NoRequest}
  /\ head \in Nat
  /\ i \in Nat
  /\ left \in Nat
  /\ out \in Seq(Descriptor)

(* The bytes the call must describe: [offset, offset + Window).            *)
Window == MinOf(req.size - req.offset, req.len)

(* First byte of the file a descriptor stands for, and one past its last.  *)
Start(d) == d.chunk * ChunkSize + d.off
End(d) == Start(d) + d.len

(* P5, chunk coverage.  When alloc_bio_vecs returns Ok, its descriptors,   *)
(* in order, tile the requested window [offset, offset + min(size -       *)
(* offset, len)) of the file exactly: each lies inside one chunk, is not   *)
(* empty, names the blob of that chunk's on-inode address, and starts      *)
(* where the previous one ended.                                           *)
DescriptorsTileWindow ==
  pc = "done" =>
    /\ Len(out) > 0
    /\ Start(out[1]) = req.offset
    /\ End(out[Len(out)]) = req.offset + Window
    /\ \A k \in 1 .. Len(out) :
          /\ out[k].len > 0
          /\ out[k].off + out[k].len <= ChunkSize
          /\ out[k].blob = req.addr[out[k].chunk]
    /\ \A k \in 1 .. Len(out) - 1 : Start(out[k + 1]) = End(out[k])

(* P5, grouping.  Within one BlobIoVec every descriptor has the same blob; *)
(* the vectors are numbered 1, 2, ... in order and two adjacent vectors    *)
(* have different blobs.                                                   *)
GroupedByBlob ==
  /\ \A k, m \in 1 .. Len(out) :
        out[k].vec = out[m].vec => out[k].blob = out[m].blob
  /\ Len(out) > 0 => out[1].vec = 1
  /\ \A k \in 1 .. Len(out) - 1 :
        /\ out[k + 1].vec \in {out[k].vec, out[k].vec + 1}
        /\ out[k + 1].vec # out[k].vec => out[k + 1].blob # out[k].blob

(* assert_eq!(left, 0) after the loop: the loop never runs out of chunk    *)
(* addresses while bytes remain to be described, so the assertion cannot   *)
(* fire and the slice from chunk_addresses always covers the window.       *)
ChunksSufficeForWindow ==
  pc = "loop" => head + i \in ChunkAddresses(req, head)
=============================================================================
