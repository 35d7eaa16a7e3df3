CONSTANTS
  Properties = {p1}
  RentalUnits = {u1}
  Sessions = {s1, s2}
  MaxRevision = 1
  None = None
SPECIFICATION Spec
PROPERTY ActivatedIsApproved
