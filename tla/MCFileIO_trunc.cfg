\* Chunks of one byte, room for two of them in the cache: an entry outlives
\* the truncation of its file.
SPECIFICATION Spec
CONSTANTS
  C = 1
  MaxChunks = 2
  MaxCache = 2
  MaxWrites = 3
  NumUuids = 7
  MaxUnlinks = 0
PROPERTY ImplementsByteFile
