CONSTANTS
  Id = {i1}
  Key = {k1, k2}
  Content = {c1}
  Meta = {m1}
  Proc = {p1, p2}
  None = None
  MaxVersion = 1
  MaxSchema = 1
  LateLanding = FALSE
  DeferredRefs = FALSE
SPECIFICATION FairSpec
PROPERTIES CallsReturn JobsGetDone
