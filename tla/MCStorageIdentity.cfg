CONSTANTS
  Proc = {p1, p2, p3}
  Root = {r1}
  Prefix = {s1, s2}
  Dir = {d1, d2}
  Id = {i0, i1, i2, i3}
  Replica = i0
  Torn = Torn
  None = None
SPECIFICATION Spec
SYMMETRY Symmetry
INVARIANTS IInv OneIdentity OwnersAreRecorded
