\* Files of 1 to 6 bytes (up to 3 chunks of 2 bytes), reads of 1 to 3 bytes
\* and whole-file prefetches; u32 is 5 bits wide, wider than any file here.
CONSTANTS
  ChunkSize = 2
  FileSizes = {1, 2, 3, 5, 6}
  ReadLens = {1, 2, 3}
  BlobTableLen = 2
  BlobIdx = {0, 1, 2}
  DevBlobs = {0, 1, 2}
  W = 5
SPECIFICATION Spec
INVARIANTS
  TypeOK
  DescriptorsTileWindow
  GroupedByBlob
  ChunksSufficeForWindow
