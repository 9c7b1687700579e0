\* Two threads; the volume is remounted only when nothing is being changed.
SPECIFICATION Spec
CONSTANTS
  t1 = t1  t2 = t2  a = a  b = b
  Threads <- Two
  Names = {b}
  NewKinds = {"reg"}
  Sub = a
  MaxIno = 5
  NumUuids = 4
  MaxTorn = 0
  MaxRefs = 1
  MaxStray = 1
SYMMETRY ThreadSymmetry
INVARIANTS TypeOK NoDangling OneNodePerIno StoredMaxInoUnused LookupFindsItsNode RefsExact
