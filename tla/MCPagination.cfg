CONSTANTS
  Id = {1, 2, 3}
  Field = {"a", "b"}
  Value = {1}
  Null = Null
  OrderBy <- MCOrderBy
  Filter <- MCFilter
  MaxLimit = 2
  None = None
SPECIFICATION Spec
INVARIANTS StableRowsOnce
PROPERTIES PagesAdvance
