CONSTANTS
  t1 = t1
  t2 = t2
  Threads <- MCThreads
  MaxChunks = 2
  MaxWrites = 3
  MaxTruncs = 1
  MaxFails = 1
SYMMETRY MCSymmetry
SPECIFICATION Spec
INVARIANTS WritesKept ReadsVerify TableCoversSize StoredFits
