CONSTANTS
  Proc = {p1, p2}
  Id = {1, 2}
  Meta = {0, 1}
  Sense = {0, 1}
  Transform <- MCTransform
  Meaning <- MCMeaning
  MaxSchema = 3
  MaxVersion = 3
  None = None
SPECIFICATION Spec
SYMMETRY Symmetry
INVARIANTS IInv NoneForgotten VersionsIdentify
PROPERTIES KeepsDocuments
