CONSTANTS
  Keys = {k1, k2, k3}
  Units = {u1}
  Requests = {r1, r2}
  None = None
SPECIFICATION Spec
SYMMETRY Symmetry
INVARIANTS
  TypeOK
  OneCover
  RowsHaveObjects
PROPERTIES
  SetCoverRepairs
