\* One thread (secfs -s): requests run one after the other.
SPECIFICATION FairSpec
CONSTANTS
  t1 = t1  t2 = t2  t3 = t3
  Threads <- One
  NumChunks = 3
  MaxCache = 1
  MaxWrites = 2
  SameChunk = TRUE
INVARIANTS NoFault NoLostWrite LoadsVerify
PROPERTIES FlushPersists RequestsReturn
CHECK_DEADLOCK TRUE
