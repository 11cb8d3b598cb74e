\* u32 scaled to 3 bits (2^3 = 8 model bytes stands for 4 GiB) and a file of
\* exactly 2^W bytes, so that prefetch_inode asks alloc_bio_vecs for the whole
\* file and `min(size - offset, size) as u32` wraps.
CONSTANTS
  ChunkSize = 2
  FileSizes = {8}
  ReadLens = {1}
  BlobTableLen = 1
  BlobIdx = {0}
  DevBlobs = {0}
  W = 3
SPECIFICATION Spec
INVARIANTS
  DescriptorsTileWindow
