------------------------- MODULE MC_RafsSuperState -------------------------
(* Model-checking instances of RafsSuperState: two threads, three nids     *)
(* (the third outside every mapping), a chunk table of three rows with a   *)
(* repeated address, and an on-inode address missing from the table.      *)
EXTENDS RafsSuperState, TLC

CONSTANTS A, B, n1, n2, n3, a1, a2, a3

(* Chunk addresses stored on the inodes: n1 is a two-chunk file, n2 a     *)
(* one-chunk file whose address is in no row, n3 an empty file.           *)
MCInodeChunks == [img \in Images |-> (n1 :> <<a1, a2>>) @@ (n2 :> <<a3>>) @@ (n3 :> <<>>)]

(* update republishes the same bootstrap. *)
SameInSlot == [img \in Images |-> {n1, n2}]
SameTable == [img \in Images |-> <<a1, a2, a2>>]

(* update publishes a rebuilt bootstrap whose chunk table lists the same   *)
(* chunks in another order.                                                *)
ReorderedTable == (A :> <<a1, a2, a2>>) @@ (B :> <<a2, a2, a1>>)

(* update publishes a shorter bootstrap in which n2 is outside the map.   *)
ShorterInSlot == (A :> {n1, n2}) @@ (B :> {n1})

(* update publishes a bootstrap in which file n1 has one chunk fewer.     *)
ShrunkChunks ==
  (A :> ((n1 :> <<a1, a2>>) @@ (n2 :> <<a3>>) @@ (n3 :> <<>>)))
  @@ (B :> ((n1 :> <<a1>>) @@ (n2 :> <<a3>>) @@ (n3 :> <<>>)))

AllBlobTablesOk == [img \in Images |-> TRUE]
=============================================================================
