CONSTANTS
  Id = {i1, i2}
  Key = {k1, k2}
  Content = {c1}
  Meta = {m1}
  Proc = {p1, p2}
  None = None
  MaxVersion = 2
  MaxSchema = 2
  LateLanding = FALSE
  DeferredRefs = FALSE
SPECIFICATION Spec
SYMMETRY Symmetry
INVARIANTS HInv NoDangling StableReads AnswersLeadOn DoneMeansGone
PROPERTIES SweptOnlyWhenQueued
