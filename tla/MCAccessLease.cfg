CONSTANTS
  Proc = {p1, p2, p3}
  Path = {c1, c2}
  Root = {r1}
  None = None
SPECIFICATION Spec
SYMMETRY Symmetry
INVARIANTS IInv MaintenanceIsAlone SessionsAreLeased OneCatalogPerRoot
PROPERTIES GatesAreLeases
