---------------------------- MODULE ChunkIoProofs ----------------------------
EXTENDS ChunkIo, TLAPS

LEMMA PowPos == 2 ^ W \in Nat \ {0}
  BY WidthAssumption

LEMMA DivMod ==
  ASSUME NEW o \in Nat
  PROVE  /\ o = (o \div ChunkSize) * ChunkSize + (o % ChunkSize)
         /\ o % ChunkSize \in 0 .. ChunkSize - 1
         /\ o \div ChunkSize \in Nat
<1>1. ChunkSize \in Nat \ {0}
  BY ChunkSizeAssumption
<1>2. o % ChunkSize \in 0 .. ChunkSize - 1
  BY <1>1
<1>3. o \div ChunkSize \in Nat
  BY <1>1
<1>4. o = (o \div ChunkSize) * ChunkSize + (o % ChunkSize)
  BY <1>1
<1> QED BY <1>2, <1>3, <1>4

LEMMA HeadInRange ==
  ASSUME NEW s \in Nat \ {0}, NEW o \in 0 .. s - 1
  PROVE  o \div ChunkSize \in 0 .. ChunkCount(s) - 1
  BY ChunkSizeAssumption DEF ChunkCount, DivRoundUp

LEMMA U32Le ==
  ASSUME NEW x \in Nat
  PROVE  U32(x) \in 0 .. x
  BY PowPos DEF U32

LEMMA BeforeEnd ==
  ASSUME NEW x \in Nat, NEW s \in Nat, x * ChunkSize < s
  PROVE  x < ChunkCount(s)
  BY ChunkSizeAssumption DEF ChunkCount, DivRoundUp

(* The facts about a call that its Request establishes. *)
LEMMA RequestFacts ==
  ASSUME NEW r \in Requests
  PROVE  /\ r.size \in Nat \ {0}
         /\ r.offset \in 0 .. r.size - 1
         /\ r.len \in Nat \ {0}
         /\ r.addr \in [0 .. ChunkCount(r.size) - 1 -> BlobIdx]
  BY FileSizesAssumption, ReadLensAssumption DEF Requests, ChunkArrays

-----------------------------------------------------------------------------
(* The strengthening of TypeOK: a started call has a real request, and the *)
(* loop only runs once the first descriptor is out.                        *)
TypeInv ==
  /\ TypeOK
  /\ pc # "idle" => req \in Requests
  /\ pc \in {"loop", "done"} => Len(out) >= 1

LEMMA TypeInvInit == Init => TypeInv
  BY DEF Init, TypeInv, TypeOK, NoRequest, ChunkArrays, ChunkCount, DivRoundUp

LEMMA TypeInvNext == TypeInv /\ [Next]_vars => TypeInv'
<1> SUFFICES ASSUME TypeInv, [Next]_vars PROVE TypeInv'
  OBVIOUS
<1>1. CASE \E r \in Requests : Request(r)
  BY <1>1 DEF TypeInv, TypeOK, Request
<1>2. CASE AllocFirst
  <2>1. req \in Requests
    BY <1>2 DEF AllocFirst, TypeInv
  <2>2. /\ req.size \in Nat \ {0}
        /\ req.offset \in 0 .. req.size - 1
        /\ req.len \in Nat \ {0}
        /\ req.addr \in [0 .. ChunkCount(req.size) - 1 -> BlobIdx]
    BY <2>1, RequestFacts
  <2>3. req.offset \div ChunkSize \in 0 .. ChunkCount(req.size) - 1
    BY <2>2, HeadInRange
  <2>4. req.offset % ChunkSize \in 0 .. ChunkSize - 1
    BY <2>2, ChunkSizeAssumption
  <2>5. U32(MinOf(req.size - req.offset, req.len)) \in Nat
    <3>1. MinOf(req.size - req.offset, req.len) \in Nat
      BY <2>2 DEF MinOf
    <3> QED
      BY <3>1, U32Le
  <2>6. MinOf(ChunkSize - (req.offset % ChunkSize),
              U32(MinOf(req.size - req.offset, req.len)))
          \in 0 .. U32(MinOf(req.size - req.offset, req.len))
    BY <2>4, <2>5, ChunkSizeAssumption DEF MinOf
  <2>7. req.addr[req.offset \div ChunkSize] \in BlobIdx
    BY <2>2, <2>3
  <2>8. CASE MakeChunkIoOk(req.addr[req.offset \div ChunkSize])
    <3>1. out' \in Seq(Descriptor) /\ Len(out') = 1
      <4>1. out' = <<[blob |-> req.addr[req.offset \div ChunkSize],
                      chunk |-> req.offset \div ChunkSize,
                      off |-> req.offset % ChunkSize,
                      len |-> MinOf(ChunkSize - (req.offset % ChunkSize),
                                U32(MinOf(req.size - req.offset, req.len))),
                      vec |-> 1]>>
        BY <1>2, <2>8 DEF AllocFirst
      <4>2. [blob |-> req.addr[req.offset \div ChunkSize],
             chunk |-> req.offset \div ChunkSize,
             off |-> req.offset % ChunkSize,
             len |-> MinOf(ChunkSize - (req.offset % ChunkSize),
                       U32(MinOf(req.size - req.offset, req.len))),
             vec |-> 1] \in Descriptor
        BY <2>3, <2>4, <2>5, <2>6, <2>7 DEF Descriptor
      <4> QED
        BY <4>1, <4>2
    <3>2. left' \in Nat /\ pc' \in {"loop", "done"}
      BY <1>2, <2>5, <2>6, <2>8 DEF AllocFirst
    <3>3. req' = req /\ head' \in Nat /\ i' \in Nat
      BY <1>2, <2>3 DEF AllocFirst
    <3> QED
      BY <2>1, <3>1, <3>2, <3>3 DEF TypeInv, TypeOK
  <2>9. CASE ~MakeChunkIoOk(req.addr[req.offset \div ChunkSize])
    <3>1. pc' = "error" /\ UNCHANGED <<req, out, left>>
      BY <1>2, <2>9 DEF AllocFirst
    <3>2. head' \in Nat /\ i' \in Nat
      BY <1>2, <2>3 DEF AllocFirst
    <3> QED
      BY <2>1, <3>1, <3>2 DEF TypeInv, TypeOK
  <2> QED
    BY <2>8, <2>9
<1>3. CASE AllocNext
  <2>1. req \in Requests
    BY <1>3 DEF AllocNext, TypeInv
  <2>2. /\ req.size \in Nat \ {0}
        /\ req.addr \in [0 .. ChunkCount(req.size) - 1 -> BlobIdx]
    BY <2>1, RequestFacts
  <2>3. ChunkCount(req.size) \in Nat
    BY <2>2, ChunkSizeAssumption DEF ChunkCount, DivRoundUp
  <2>4. U32(ChunkCount(req.size)) \in 0 .. ChunkCount(req.size)
    BY <2>3, U32Le
  <2>5. head + i \in 0 .. ChunkCount(req.size) - 1
    <3>1. head + i \in head .. U32(ChunkCount(req.size)) - 1
      BY <1>3 DEF AllocNext, ChunkAddresses
    <3>2. head \in Nat /\ i \in Nat
      BY DEF TypeInv, TypeOK
    <3> QED
      BY <3>1, <3>2, <2>3, <2>4
  <2>6. req.addr[head + i] \in BlobIdx
    BY <2>2, <2>5
  <2>7. Len(out) >= 1 /\ out[Len(out)] \in Descriptor
    BY <1>3 DEF AllocNext, TypeInv, TypeOK
  <2>8. MinOf(ChunkSize, left) \in 0 .. left
    BY ChunkSizeAssumption DEF TypeInv, TypeOK, MinOf
  <2>9. CASE MakeChunkIoOk(req.addr[head + i])
    <3>1. out' \in Seq(Descriptor) /\ Len(out') >= 1
      <4>1. out' = Append(out, [blob |-> req.addr[head + i],
                                chunk |-> head + i, off |-> 0,
                                len |-> MinOf(ChunkSize, left),
                                vec |-> IF req.addr[head + i]
                                             # out[Len(out)].blob
                                          THEN out[Len(out)].vec + 1
                                          ELSE out[Len(out)].vec])
        BY <1>3, <2>9 DEF AllocNext
      <4>2. [blob |-> req.addr[head + i], chunk |-> head + i, off |-> 0,
             len |-> MinOf(ChunkSize, left),
             vec |-> IF req.addr[head + i] # out[Len(out)].blob
                       THEN out[Len(out)].vec + 1
                       ELSE out[Len(out)].vec] \in Descriptor
        BY <2>5, <2>6, <2>7, <2>8 DEF Descriptor
      <4> QED
        BY <4>1, <4>2 DEF TypeInv, TypeOK
    <3>2. left' \in Nat /\ pc' \in {"loop", "done"}
      BY <1>3, <2>8, <2>9 DEF AllocNext, TypeInv, TypeOK
    <3>3. req' = req /\ head' = head /\ i' \in Nat
      BY <1>3 DEF AllocNext, TypeInv, TypeOK
    <3> QED
      BY <2>1, <3>1, <3>2, <3>3 DEF TypeInv, TypeOK
  <2>10. CASE ~MakeChunkIoOk(req.addr[head + i])
    <3>1. pc' = "error" /\ UNCHANGED <<req, head, out, left>>
      BY <1>3, <2>10 DEF AllocNext
    <3>2. i' \in Nat
      BY <1>3 DEF AllocNext, TypeInv, TypeOK
    <3> QED
      BY <2>1, <3>1, <3>2 DEF TypeInv, TypeOK
  <2> QED
    BY <2>9, <2>10
<1>4. CASE Return
  BY <1>4 DEF Return, TypeInv, TypeOK, NoRequest, ChunkArrays, ChunkCount,
              DivRoundUp
<1>5. CASE UNCHANGED vars
  BY <1>5 DEF vars, TypeInv, TypeOK
<1> QED
  BY <1>1, <1>2, <1>3, <1>4, <1>5 DEF Next

(* Type correctness of the chunk resolver: every state of every call has   *)
(* its variables in their types; in particular left never goes below zero *)
(* and every chunk index alloc_bio_vecs reads lies in the on-inode array.  *)
THEOREM TypeCorrect == Spec => []TypeOK
<1>1. TypeInv => TypeOK
  BY DEF TypeInv
<1> QED
  BY <1>1, TypeInvInit, TypeInvNext, PTL DEF Spec

-----------------------------------------------------------------------------
(* No u32 conversion of the call truncates: every file is shorter than     *)
(* 2^W bytes (4 GiB in the code).                                          *)
NoTruncation == \A s \in FileSizes : \A x \in 0 .. s : U32(x) = x

(* What the descriptors emitted so far say, once the first one is out:    *)
(* descriptor k is chunk head + k - 1 from the offset on, every one but    *)
(* the last fills its chunk to the end, and the bytes described plus       *)
(* `left` are the window.                                                  *)
Progress ==
  /\ Len(out) = i
  /\ i >= 1
  /\ head = req.offset \div ChunkSize
  /\ out[1].off = req.offset % ChunkSize
  /\ \A k \in 1 .. Len(out) :
        /\ out[k].chunk = head + k - 1
        /\ out[k].blob = req.addr[out[k].chunk]
        /\ out[k].len > 0
        /\ out[k].off + out[k].len <= ChunkSize
        /\ k > 1 => out[k].off = 0
        /\ k < Len(out) => out[k].off + out[k].len = ChunkSize
  /\ End(out[Len(out)]) + left = req.offset + Window
  /\ pc = "loop" => /\ left > 0
                    /\ out[Len(out)].off + out[Len(out)].len = ChunkSize
  /\ pc = "done" => left = 0

TileInv ==
  /\ TypeInv
  /\ pc \in {"loop", "done"} => Progress

(* Without truncation, the length alloc_bio_vecs starts from is the window *)
(* and is not zero, and the chunk count read from the inode is exact.      *)
LEMMA NoTruncationFacts ==
  ASSUME NoTruncation, NEW r \in Requests
  PROVE  /\ U32(MinOf(r.size - r.offset, r.len)) = MinOf(r.size - r.offset, r.len)
         /\ MinOf(r.size - r.offset, r.len) \in 1 .. r.size - r.offset
         /\ U32(ChunkCount(r.size)) = ChunkCount(r.size)
         /\ ChunkCount(r.size) \in Nat
<1>1. /\ r.size \in FileSizes
      /\ r.offset \in 0 .. r.size - 1
      /\ r.len \in Nat \ {0}
  BY FileSizesAssumption, ReadLensAssumption DEF Requests
<1>2. r.size \in Nat \ {0}
  BY <1>1, FileSizesAssumption
<1>3. MinOf(r.size - r.offset, r.len) \in 1 .. r.size - r.offset
  BY <1>1, <1>2 DEF MinOf
<1>4. ChunkCount(r.size) \in 0 .. r.size
  BY <1>2, ChunkSizeAssumption DEF ChunkCount, DivRoundUp
<1>5. \A x \in 0 .. r.size : U32(x) = x
  BY <1>1 DEF NoTruncation
<1>6. MinOf(r.size - r.offset, r.len) \in 0 .. r.size
  BY <1>1, <1>2, <1>3
<1>7. U32(MinOf(r.size - r.offset, r.len)) = MinOf(r.size - r.offset, r.len)
  BY <1>5, <1>6
<1>8. U32(ChunkCount(r.size)) = ChunkCount(r.size)
  BY <1>4, <1>5
<1> QED
  BY <1>3, <1>4, <1>7, <1>8

(* The code before the loop establishes Progress. *)
LEMMA AllocFirstProgress ==
  ASSUME NoTruncation, TypeInv, AllocFirst, pc' \in {"loop", "done"}
  PROVE  Progress'
<1>1. req \in Requests
  BY DEF AllocFirst, TypeInv
<1>2. /\ req.size \in Nat \ {0}
      /\ req.offset \in 0 .. req.size - 1
      /\ req.addr \in [0 .. ChunkCount(req.size) - 1 -> BlobIdx]
  BY <1>1, RequestFacts
<1>3. /\ U32(MinOf(req.size - req.offset, req.len))
          = MinOf(req.size - req.offset, req.len)
      /\ MinOf(req.size - req.offset, req.len) \in 1 .. req.size - req.offset
  BY <1>1, NoTruncationFacts
<1>4. /\ req.offset = (req.offset \div ChunkSize) * ChunkSize
                       + (req.offset % ChunkSize)
      /\ req.offset % ChunkSize \in 0 .. ChunkSize - 1
      /\ req.offset \div ChunkSize \in Nat
  <2>1. req.offset \in Nat
    BY <1>2
  <2> QED
    BY <2>1, DivMod
<1>5. MakeChunkIoOk(req.addr[req.offset \div ChunkSize])
  BY DEF AllocFirst
<1> DEFINE W0 == MinOf(req.size - req.offset, req.len)
           cl == MinOf(ChunkSize - (req.offset % ChunkSize), W0)
<1>6. /\ out' = <<[blob |-> req.addr[req.offset \div ChunkSize],
                   chunk |-> req.offset \div ChunkSize,
                   off |-> req.offset % ChunkSize,
                   len |-> cl, vec |-> 1]>>
      /\ left' = W0 - cl
      /\ pc' = IF W0 - cl # 0 THEN "loop" ELSE "done"
      /\ head' = req.offset \div ChunkSize
      /\ i' = 1
      /\ req' = req
  BY <1>3, <1>5 DEF AllocFirst
<1>7. /\ cl \in 1 .. W0
      /\ (req.offset % ChunkSize) + cl <= ChunkSize
      /\ W0 - cl # 0 => (req.offset % ChunkSize) + cl = ChunkSize
  BY <1>3, <1>4, ChunkSizeAssumption DEF MinOf
<1>8. out'[1].chunk = head' /\ out'[1].off = req'.offset % ChunkSize
      /\ out'[1].len = cl /\ out'[1].blob = req'.addr[out'[1].chunk]
  BY <1>6
<1>12. Len(out') = 1 /\ i' = 1
  BY <1>6
<1>9. End(out'[Len(out')]) + left' = req'.offset + Window'
  <2>1. End(out'[Len(out')]) = req.offset + cl
    BY <1>4, <1>6, <1>12, <1>7, ChunkSizeAssumption DEF End, Start
  <2>2. Window' = W0
    BY <1>6 DEF Window
  <2> QED
    BY <1>2, <1>3, <1>6, <1>7, <2>1, <2>2
<1>10. \A k \in 1 .. Len(out') :
         /\ out'[k].chunk = head' + k - 1
         /\ out'[k].blob = req'.addr[out'[k].chunk]
         /\ out'[k].len > 0
         /\ out'[k].off + out'[k].len <= ChunkSize
         /\ k > 1 => out'[k].off = 0
         /\ k < Len(out') => out'[k].off + out'[k].len = ChunkSize
  BY <1>6, <1>7, <1>8
<1>11. /\ pc' = "loop" => /\ left' > 0
                         /\ out'[Len(out')].off + out'[Len(out')].len = ChunkSize
       /\ pc' = "done" => left' = 0
  BY <1>3, <1>6, <1>7, <1>8, <1>12
<1>13. head' = req'.offset \div ChunkSize /\ i' >= 1
  BY <1>6
<1> QED
  BY <1>8, <1>9, <1>10, <1>11, <1>12, <1>13, Zenon DEF Progress

(* One iteration of the loop preserves Progress. *)
LEMMA AllocNextProgress ==
  ASSUME NoTruncation, TileInv, AllocNext, pc' \in {"loop", "done"}
  PROVE  Progress'
<1>1. pc = "loop" /\ Progress /\ req \in Requests
  BY DEF AllocNext, TileInv, TypeInv
<1>2. /\ head \in Nat /\ i \in Nat /\ left \in Nat
      /\ out \in Seq(Descriptor)
  BY DEF TileInv, TypeInv, TypeOK
<1>3. MakeChunkIoOk(req.addr[head + i])
  BY DEF AllocNext
<1> DEFINE cl == MinOf(ChunkSize, left)
           rec == [blob |-> req.addr[head + i], chunk |-> head + i, off |-> 0,
                   len |-> cl,
                   vec |-> IF req.addr[head + i] # out[Len(out)].blob
                             THEN out[Len(out)].vec + 1
                             ELSE out[Len(out)].vec]
<1>4. /\ out' = Append(out, rec)
      /\ left' = left - cl
      /\ pc' = IF left - cl = 0 THEN "done" ELSE "loop"
      /\ i' = i + 1
      /\ req' = req
      /\ head' = head
  BY <1>3 DEF AllocNext
<1>5. /\ cl \in 1 .. left
      /\ cl <= ChunkSize
      /\ left - cl # 0 => cl = ChunkSize
  BY <1>1, <1>2, ChunkSizeAssumption DEF Progress, MinOf
<1>6. /\ Len(out') = Len(out) + 1
      /\ \A k \in 1 .. Len(out) : out'[k] = out[k]
      /\ out'[Len(out) + 1] = rec
  BY <1>2, <1>4
<1>7. /\ Len(out) = i /\ i >= 1
      /\ out[Len(out)].chunk = head + i - 1
      /\ out[Len(out)].off + out[Len(out)].len = ChunkSize
  BY <1>1 DEF Progress
<1>8. \A k \in 1 .. Len(out') :
        /\ out'[k].chunk = head' + k - 1
        /\ out'[k].blob = req'.addr[out'[k].chunk]
        /\ out'[k].len > 0
        /\ out'[k].off + out'[k].len <= ChunkSize
        /\ k > 1 => out'[k].off = 0
        /\ k < Len(out') => out'[k].off + out'[k].len = ChunkSize
  <2> SUFFICES ASSUME NEW k \in 1 .. Len(out')
               PROVE  /\ out'[k].chunk = head' + k - 1
                      /\ out'[k].blob = req'.addr[out'[k].chunk]
                      /\ out'[k].len > 0
                      /\ out'[k].off + out'[k].len <= ChunkSize
                      /\ k > 1 => out'[k].off = 0
                      /\ k < Len(out') => out'[k].off + out'[k].len = ChunkSize
    OBVIOUS
  <2>1. CASE k \in 1 .. Len(out)
    BY <2>1, <1>1, <1>4, <1>6, <1>7 DEF Progress
  <2>2. CASE k = Len(out) + 1
    BY <2>2, <1>4, <1>5, <1>6, <1>7
  <2> QED
    BY <2>1, <2>2, <1>6
<1>9. End(out'[Len(out')]) = End(out[Len(out)]) + cl
  <2>1. out'[Len(out')] = rec
    BY <1>6
  <2>2. End(rec) = (head + i) * ChunkSize + cl
    BY <1>2, <1>5, ChunkSizeAssumption DEF End, Start, rec
  <2>3. End(out[Len(out)]) = (head + i - 1) * ChunkSize + ChunkSize
    <3>1. out[Len(out)] \in Descriptor
      BY <1>2, <1>7
    <3> QED
      BY <1>7, <3>1 DEF End, Start, Descriptor
  <2>4. (head + i - 1) * ChunkSize + ChunkSize = (head + i) * ChunkSize
    BY <1>2, ChunkSizeAssumption
  <2> QED
    BY <2>1, <2>2, <2>3, <2>4
<1>10. Len(out') = i' /\ i' >= 1
  BY <1>4, <1>6, <1>7
<1>11. head' = req'.offset \div ChunkSize /\ out'[1].off = req'.offset % ChunkSize
  BY <1>1, <1>4, <1>6, <1>7 DEF Progress
<1>12. End(out'[Len(out')]) + left' = req'.offset + Window'
  <2>1. End(out[Len(out)]) + left = req.offset + Window
    BY <1>1 DEF Progress
  <2>2. End(out[Len(out)]) \in Int
    <3>1. out[Len(out)] \in Descriptor
      BY <1>2, <1>7
    <3> QED
      BY <3>1, ChunkSizeAssumption DEF End, Start, Descriptor
  <2> QED
    BY <1>2, <1>4, <1>5, <1>9, <2>1, <2>2 DEF Window
<1>13. /\ pc' = "loop" => /\ left' > 0
                         /\ out'[Len(out')].off + out'[Len(out')].len = ChunkSize
       /\ pc' = "done" => left' = 0
  BY <1>2, <1>4, <1>5, <1>6 DEF rec
<1> QED
  BY <1>8, <1>10, <1>11, <1>12, <1>13 DEF Progress

LEMMA TileInvInit == Init => TileInv
  BY TypeInvInit DEF Init, TileInv

LEMMA TileInvNext ==
  ASSUME NoTruncation
  PROVE  TileInv /\ [Next]_vars => TileInv'
<1> SUFFICES ASSUME TileInv, [Next]_vars
             PROVE  pc' \in {"loop", "done"} => Progress'
  BY TypeInvNext DEF TileInv
<1> USE DEF TileInv
<1>1. CASE \E r \in Requests : Request(r)
  BY <1>1 DEF Request
<1>2. CASE Return
  BY <1>2 DEF Return
<1>3. CASE UNCHANGED vars
  BY <1>3 DEF vars, Progress, Window, End, Start
<1>4. CASE AllocFirst
  BY <1>4, AllocFirstProgress
<1>5. CASE AllocNext
  BY <1>5, AllocNextProgress
<1> QED
  BY <1>1, <1>2, <1>3, <1>4, <1>5 DEF Next

(* At the end of the loop the window is tiled. *)
LEMMA TileInvTiles == TileInv => DescriptorsTileWindow
<1> SUFFICES ASSUME TileInv, pc = "done" PROVE DescriptorsTileWindow
  BY DEF DescriptorsTileWindow
<1>1. Progress /\ left = 0 /\ req \in Requests
  BY DEF TileInv, TypeInv, Progress
<1>2. /\ out \in Seq(Descriptor) /\ head \in Nat /\ i \in Nat
  BY DEF TileInv, TypeInv, TypeOK
<1>3. req.offset \in Nat
  BY <1>1, RequestFacts
<1>4. Start(out[1]) = req.offset
  <2>1. out[1].chunk = req.offset \div ChunkSize
        /\ out[1].off = req.offset % ChunkSize
    BY <1>1 DEF Progress
  <2> QED
    BY <1>3, <2>1, DivMod DEF Start
<1>5. End(out[Len(out)]) = req.offset + Window
  <2>1. out[Len(out)] \in Descriptor
    BY <1>1, <1>2 DEF Progress
  <2>2. End(out[Len(out)]) \in Int
    BY <2>1, ChunkSizeAssumption DEF End, Start, Descriptor
  <2> QED
    BY <1>1, <2>2 DEF Progress
<1>6. \A k \in 1 .. Len(out) - 1 : Start(out[k + 1]) = End(out[k])
  <2> SUFFICES ASSUME NEW k \in 1 .. Len(out) - 1
               PROVE  Start(out[k + 1]) = End(out[k])
    OBVIOUS
  <2>1. out[k] \in Descriptor /\ out[k + 1] \in Descriptor
    BY <1>2
  <2>2. /\ out[k].chunk = head + k - 1
        /\ out[k].off + out[k].len = ChunkSize
        /\ out[k + 1].chunk = head + k
        /\ out[k + 1].off = 0
    BY <1>1 DEF Progress
  <2>3. (head + k - 1) * ChunkSize + ChunkSize = (head + k) * ChunkSize
    BY <1>2, ChunkSizeAssumption
  <2> QED
    BY <2>1, <2>2, <2>3 DEF Start, End, Descriptor
<1> QED
  BY <1>1, <1>4, <1>5, <1>6 DEF DescriptorsTileWindow, Progress

(* While the loop runs the chunk it reads next exists. *)
LEMMA TileInvSuffices ==
  ASSUME NoTruncation
  PROVE  TileInv => ChunksSufficeForWindow
<1> SUFFICES ASSUME TileInv, pc = "loop"
             PROVE  head + i \in ChunkAddresses(req, head)
  BY DEF ChunksSufficeForWindow
<1>1. Progress /\ req \in Requests
  BY DEF TileInv, TypeInv
<1>2. /\ out \in Seq(Descriptor) /\ head \in Nat /\ i \in Nat
      /\ left \in Nat
  BY DEF TileInv, TypeInv, TypeOK
<1>3. /\ req.size \in Nat \ {0}
      /\ req.offset \in 0 .. req.size - 1
      /\ MinOf(req.size - req.offset, req.len) \in 1 .. req.size - req.offset
      /\ U32(ChunkCount(req.size)) = ChunkCount(req.size)
      /\ ChunkCount(req.size) \in Nat
  BY <1>1, RequestFacts, NoTruncationFacts
<1>4. End(out[Len(out)]) = (head + i) * ChunkSize
  <2>1. out[Len(out)] \in Descriptor
        /\ out[Len(out)].chunk = head + i - 1
        /\ out[Len(out)].off + out[Len(out)].len = ChunkSize
    BY <1>1, <1>2 DEF Progress
  <2>2. (head + i - 1) * ChunkSize + ChunkSize = (head + i) * ChunkSize
    BY <1>2, ChunkSizeAssumption
  <2> QED
    BY <2>1, <2>2 DEF End, Start, Descriptor
<1>5. (head + i) * ChunkSize < req.size
  <2>1. Window \in 1 .. req.size - req.offset
    BY <1>3 DEF Window
  <2>2. End(out[Len(out)]) + left = req.offset + Window /\ left > 0
    BY <1>1 DEF Progress
  <2> QED
    BY <1>2, <1>3, <1>4, <2>1, <2>2, ChunkSizeAssumption
<1>6. head + i < ChunkCount(req.size)
  BY <1>2, <1>3, <1>5, BeforeEnd
<1>7. i >= 1
  BY <1>1 DEF Progress
<1> QED
  BY <1>2, <1>3, <1>6, <1>7 DEF ChunkAddresses

(* P5: whenever alloc_bio_vecs returns Ok for a file shorter than 2^W     *)
(* bytes, its descriptors tile the requested window exactly, one per      *)
(* chunk, each naming the blob of its chunk's on-inode address.           *)
THEOREM TilesWindow ==
  ASSUME NoTruncation
  PROVE  Spec => []DescriptorsTileWindow
<1>1. TileInv /\ [Next]_vars => TileInv'
  BY TileInvNext
<1> QED
  BY <1>1, TileInvInit, TileInvTiles, PTL DEF Spec

(* The assert_eq!(left, 0) after the loop of alloc_bio_vecs never fires   *)
(* for a file shorter than 2^W bytes: the loop never runs out of chunk    *)
(* addresses while bytes remain to be described.                          *)
THEOREM ChunksSuffice ==
  ASSUME NoTruncation
  PROVE  Spec => []ChunksSufficeForWindow
<1>1. TileInv /\ [Next]_vars => TileInv'
  BY TileInvNext
<1>2. TileInv => ChunksSufficeForWindow
  BY TileInvSuffices
<1> QED
  BY <1>1, <1>2, TileInvInit, PTL DEF Spec
-----------------------------------------------------------------------------
(* The strengthening GroupedByBlob needs: the vector numbers never go      *)
(* down, so the last descriptor holds the highest one and a new vector     *)
(* number is fresh.                                                        *)
VecsRise == \A k \in 1 .. Len(out) : out[k].vec <= out[Len(out)].vec

GroupInv == TypeInv /\ GroupedByBlob /\ VecsRise

LEMMA GroupInvInit == Init => GroupInv
  BY TypeInvInit DEF Init, GroupInv, GroupedByBlob, VecsRise

(* The grouping of a sequence of descriptors, as GroupedByBlob and        *)
(* VecsRise state it of `out`.                                             *)
Grouped(s) ==
  /\ \A k, m \in 1 .. Len(s) : s[k].vec = s[m].vec => s[k].blob = s[m].blob
  /\ Len(s) > 0 => s[1].vec = 1
  /\ \A k \in 1 .. Len(s) - 1 :
        /\ s[k + 1].vec \in {s[k].vec, s[k].vec + 1}
        /\ s[k + 1].vec # s[k].vec => s[k + 1].blob # s[k].blob
  /\ \A k \in 1 .. Len(s) : s[k].vec <= s[Len(s)].vec

(* Appending a descriptor numbered as AllocNext numbers it keeps the      *)
(* grouping.                                                               *)
LEMMA GroupAppend ==
  ASSUME NEW s \in Seq(Descriptor), Len(s) >= 1, Grouped(s),
         NEW rec \in Descriptor,
         rec.vec = IF rec.blob # s[Len(s)].blob THEN s[Len(s)].vec + 1
                                                 ELSE s[Len(s)].vec
  PROVE  Append(s, rec) \in Seq(Descriptor) /\ Grouped(Append(s, rec))
<1> DEFINE L == Len(s)
           last == s[L]
           t == Append(s, rec)
<1>1. L \in Nat /\ L >= 1 /\ last \in Descriptor
  OBVIOUS
<1>2. /\ t \in Seq(Descriptor)
      /\ Len(t) = L + 1
      /\ \A k \in 1 .. L : t[k] = s[k]
      /\ t[L + 1] = rec
  OBVIOUS
<1>3. \A k \in 1 .. L : s[k] \in Descriptor
  OBVIOUS
<1>4. \A k \in 1 .. L : s[k].vec \in Nat /\ s[k].vec <= last.vec
  BY <1>3 DEF Grouped, Descriptor
<1>5. rec.vec = last.vec => rec.blob = last.blob
  BY <1>1 DEF Descriptor
<1>6. rec.vec \in {last.vec, last.vec + 1} /\ rec.vec >= last.vec
  BY <1>1 DEF Descriptor
<1>7. ASSUME NEW k \in 1 .. L, s[k].vec = rec.vec
      PROVE  s[k].blob = rec.blob
  <2>0. rec.vec \in Nat /\ last.vec \in Nat
    BY <1>1 DEF Descriptor
  <2>1. rec.vec = last.vec
    BY <1>7, <1>4, <1>6, <2>0
  <2>2. s[k].blob = last.blob
    BY <1>7, <2>1, <1>1 DEF Grouped
  <2> QED
    BY <2>1, <2>2, <1>5
<1>8. \A k, m \in 1 .. Len(t) : t[k].vec = t[m].vec => t[k].blob = t[m].blob
  <2> SUFFICES ASSUME NEW k \in 1 .. Len(t), NEW m \in 1 .. Len(t),
                      t[k].vec = t[m].vec
               PROVE  t[k].blob = t[m].blob
    OBVIOUS
  <2>1. CASE k \in 1 .. L /\ m \in 1 .. L
    BY <2>1, <1>2 DEF Grouped
  <2>2. CASE k \in 1 .. L /\ m = L + 1
    BY <2>2, <1>2, <1>7
  <2>3. CASE k = L + 1 /\ m \in 1 .. L
    BY <2>3, <1>2, <1>7
  <2>4. CASE k = L + 1 /\ m = L + 1
    BY <2>4
  <2> QED
    BY <2>1, <2>2, <2>3, <2>4, <1>1, <1>2
<1>9. \A k \in 1 .. Len(t) - 1 :
         /\ t[k + 1].vec \in {t[k].vec, t[k].vec + 1}
         /\ t[k + 1].vec # t[k].vec => t[k + 1].blob # t[k].blob
  <2> SUFFICES ASSUME NEW k \in 1 .. L
               PROVE  /\ t[k + 1].vec \in {t[k].vec, t[k].vec + 1}
                      /\ t[k + 1].vec # t[k].vec => t[k + 1].blob # t[k].blob
    BY <1>1, <1>2
  <2>1. CASE k < L
    BY <2>1, <1>1, <1>2 DEF Grouped
  <2>2. CASE k = L
    <3>1. rec.vec # last.vec => rec.blob # last.blob
      BY <1>1 DEF Descriptor
    <3> QED
      BY <2>2, <1>2, <1>6, <3>1
  <2> QED
    BY <2>1, <2>2, <1>1
<1>10. t[1].vec = 1
  BY <1>1, <1>2 DEF Grouped
<1>11. \A k \in 1 .. Len(t) : t[k].vec <= t[Len(t)].vec
  <2>0. rec.vec \in Nat /\ last.vec \in Nat
    BY <1>1 DEF Descriptor
  <2> SUFFICES ASSUME NEW k \in 1 .. L + 1 PROVE t[k].vec <= rec.vec
    BY <1>1, <1>2
  <2>1. CASE k = L + 1
    BY <2>1, <1>2, <2>0
  <2>2. CASE k \in 1 .. L
    BY <2>2, <1>2, <1>4, <1>6, <2>0
  <2> QED
    BY <2>1, <2>2, <1>1
<1> QED
  BY <1>2, <1>8, <1>9, <1>10, <1>11 DEF Grouped

LEMMA GroupInvNext == GroupInv /\ [Next]_vars => GroupInv'
<1> SUFFICES ASSUME GroupInv, [Next]_vars
             PROVE  Grouped(out')
  BY TypeInvNext DEF GroupInv, Grouped, GroupedByBlob, VecsRise
<1>0. /\ TypeInv /\ Grouped(out)
      /\ out \in Seq(Descriptor)
  BY DEF GroupInv, TypeInv, TypeOK, Grouped, GroupedByBlob, VecsRise
<1>1. CASE \E r \in Requests : Request(r)
  BY <1>0, <1>1 DEF Request
<1>2. CASE Return
  BY <1>2 DEF Return, Grouped
<1>3. CASE UNCHANGED vars
  BY <1>0, <1>3 DEF vars
<1>4. CASE AllocFirst
  <2> DEFINE h == req.offset \div ChunkSize
  <2>1. CASE MakeChunkIoOk(req.addr[h])
    <3>1. out' = <<[blob |-> req.addr[h], chunk |-> h,
                    off |-> req.offset % ChunkSize,
                    len |-> MinOf(ChunkSize - (req.offset % ChunkSize),
                                  U32(MinOf(req.size - req.offset, req.len))),
                    vec |-> 1]>>
      BY <1>4, <2>1 DEF AllocFirst
    <3> QED
      BY <3>1 DEF Grouped
  <2>2. CASE ~MakeChunkIoOk(req.addr[h])
    BY <1>0, <1>4, <2>2 DEF AllocFirst
  <2> QED
    BY <2>1, <2>2
<1>5. CASE AllocNext
  <2>1. pc = "loop" /\ Len(out) >= 1 /\ req \in Requests /\ head \in Nat /\ i \in Nat
    BY <1>0, <1>5 DEF AllocNext, TypeInv, TypeOK
  <2>2. CASE MakeChunkIoOk(req.addr[head + i])
    <3>1. req.addr[head + i] \in BlobIdx
      <4>0. req.size \in Nat \ {0}
        BY <2>1, RequestFacts
      <4>1. ChunkCount(req.size) \in Nat
        BY <4>0, ChunkSizeAssumption DEF ChunkCount, DivRoundUp
      <4>2. U32(ChunkCount(req.size)) <= ChunkCount(req.size)
        BY <4>1, U32Le
      <4>3. head + i \in ChunkAddresses(req, head)
        BY <1>5 DEF AllocNext
      <4>4. head + i \in 0 .. ChunkCount(req.size) - 1
        BY <4>2, <4>3, <4>1, <2>1, PowPos DEF ChunkAddresses, U32
      <4>5. req.addr \in [0 .. ChunkCount(req.size) - 1 -> BlobIdx]
        BY <2>1, RequestFacts
      <4> QED
        BY <4>4, <4>5
    <3>2. MinOf(ChunkSize, left) \in Nat
      BY <1>0, ChunkSizeAssumption DEF TypeInv, TypeOK, MinOf
    <3> DEFINE rec == [blob |-> req.addr[head + i], chunk |-> head + i,
                       off |-> 0, len |-> MinOf(ChunkSize, left),
                       vec |-> IF req.addr[head + i] # out[Len(out)].blob
                                 THEN out[Len(out)].vec + 1
                                 ELSE out[Len(out)].vec]
    <3>3. out' = Append(out, rec)
      BY <1>5, <2>2 DEF AllocNext
    <3>4. out[Len(out)] \in Descriptor
      BY <1>0, <2>1
    <3>5. rec \in Descriptor
      BY <3>1, <3>2, <3>4, <2>1 DEF Descriptor
    <3>6. rec.vec = IF rec.blob # out[Len(out)].blob THEN out[Len(out)].vec + 1
                                                     ELSE out[Len(out)].vec
      OBVIOUS
    <3> QED
      BY <3>3, <3>5, <3>6, <2>1, <1>0, GroupAppend
  <2>3. CASE ~MakeChunkIoOk(req.addr[head + i])
    BY <1>0, <1>5, <2>3 DEF AllocNext
  <2> QED
    BY <2>2, <2>3
<1> QED
  BY <1>1, <1>2, <1>3, <1>4, <1>5 DEF Next

(* P5, grouping, for every configuration: across every call of            *)
(* alloc_bio_vecs, the descriptors pushed so far into one BlobIoVec share  *)
(* their blob, the vectors are numbered 1, 2, ... in order and two         *)
(* adjacent vectors have different blobs.  Unlike TilesWindow it needs no  *)
(* bound on the file size: the grouping does not read the u32 length.      *)
THEOREM BlobGrouping == Spec => []GroupedByBlob
<1>1. GroupInv => GroupedByBlob
  BY DEF GroupInv
<1> QED
  BY <1>1, GroupInvInit, GroupInvNext, PTL DEF Spec
=============================================================================
