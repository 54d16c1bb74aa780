CONSTANTS
  Id = {i1, i2}
  Key = {k1, k2}
  Content = {c1}
  Meta = {m1}
  MaxVersion = 2
  MaxSchema = 2
  Restorer = {r1, r2}
  None = None
  Torn = Torn
SPECIFICATION Spec
SYMMETRY Symmetry
INVARIANTS IInv PublishedIsSound OpenMeansQuiet
PROPERTIES ArtifactIsTheSource NothingIsReplaced
