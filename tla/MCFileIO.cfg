\* Two chunks of two bytes, room for one chunk in the cache.
SPECIFICATION Spec
CONSTANTS
  C = 2
  MaxChunks = 2
  MaxCache = 1
  MaxWrites = 2
  NumUuids = 6
  MaxUnlinks = 0
INVARIANTS TypeOK StoredLoads ChunksReadable
PROPERTY ImplementsByteFile
