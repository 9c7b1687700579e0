\* The shortest write that ends one byte before the end of the file.
SPECIFICATION FairSpec
CONSTANTS
  C = 2
  MaxChunks = 2
  MaxCache = 1
  MaxWrites = 2
  NumUuids = 6
  MaxUnlinks = 0
PROPERTY WriteKeepsTheRest
