\* Two threads, requests for the same chunk allowed.  A process that executed
\* undefined behaviour stops.
SPECIFICATION Spec
CONSTANTS
  t1 = t1  t2 = t2  t3 = t3
  Threads <- Two
  NumChunks = 2
  MaxCache = 1
  MaxWrites = 1
  SameChunk = TRUE
SYMMETRY ThreadSymmetry
INVARIANTS TypeOK StoreIndexed CacheBound NoLostWrite LoadsVerify
PROPERTIES FlushPersists
CHECK_DEADLOCK FALSE
