\* A crash cuts a create short; its number is used again.
SPECIFICATION Spec
CONSTANTS
  t1 = t1  t2 = t2  a = a  b = b
  Threads <- One
  Names <- TwoNames
  NewKinds = {"reg"}
  Sub = a
  MaxIno = 5
  NumUuids = 5
  MaxTorn = 1
  MaxRefs = 2
  MaxStray = 5
INVARIANT LookupFindsTheChild
