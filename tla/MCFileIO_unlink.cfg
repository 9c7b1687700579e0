\* Chunks of one byte, room for one of them in the cache; the file may be
\* unlinked while it is open.
SPECIFICATION Spec
CONSTANTS
  C = 1
  MaxChunks = 2
  MaxCache = 1
  MaxWrites = 3
  NumUuids = 6
  MaxUnlinks = 1
PROPERTY ImplementsByteFile
