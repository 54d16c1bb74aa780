CONSTANTS
  Exporter = {e1, e2}
  Id = {i1, i2}
  Bytes <- MCBytes
  Name = {f1, wal}
  Managed = {wal}
  Foreign = Foreign
  Torn = Torn
  None = None
SPECIFICATION Spec
PROPERTIES ExportsAreWhole
