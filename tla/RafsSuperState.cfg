\* update republishes the same bootstrap (remount/failover of one image).
CONSTANTS
  A = A
  B = B
  n1 = n1
  n2 = n2
  n3 = n3
  a1 = a1
  a2 = a2
  a3 = a3
  Unloaded = Unloaded
  Images = {A, B}
  Threads = {t1, t2}
  Nids = {n1, n2, n3}
  Addrs = {a1, a2, a3}
  NRows = 3
  InSlot <- SameInSlot
  InodeChunks <- MCInodeChunks
  ChunkTable <- SameTable
  BlobTableOk <- AllBlobTablesOk
SPECIFICATION Spec
INVARIANTS
  TypeOK
  ChunkInfoMatchesAddress
  HandleNeverPanics
  
PROPERTY
  ChunkMapStoredOnce
  
