\* One thread (secfs -s); crashes cut up to two requests short.
SPECIFICATION Spec
CONSTANTS
  t1 = t1  t2 = t2  a = a  b = b
  Threads <- One
  Names <- TwoNames
  NewKinds = {"reg", "dir"}
  Sub = a
  MaxIno = 5
  NumUuids = 4
  MaxTorn = 2
  MaxRefs = 2
  MaxStray = 5
INVARIANTS NoOrphan NoDangling OneNodePerIno StoredMaxInoUnused RefsExact
PROPERTY ImplementsDirTree
