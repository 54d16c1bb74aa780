CONSTANTS
  Proc = {p1, p2}
  Id = {1, 2, 3}
  Meta = {0, 1}
  Sense = {0, 1}
  Transform <- MCTransform
  Meaning <- MCMeaning
  MaxSchema = 2
  MaxVersion = 2
  None = None
SPECIFICATION Spec
SYMMETRY Symmetry
INVARIANTS NothingBehind CountsAddUp
PROPERTIES MigrationsGoForward
