CONSTANTS
  Id = {i1}
  Key = {k1, k2}
  Content = {c1, c2}
  Meta = {m1, m2}
  Proc = {p1, p2}
  None = None
  MaxVersion = 2
  MaxSchema = 2
  LateLanding = TRUE
  DeferredRefs = TRUE
SPECIFICATION Spec
SYMMETRY Symmetry
PROPERTIES KeepsItsPromise ResolvedForGood LostImportIsRecognized
