CONSTANTS
  Properties = {p1}
  RentalUnits = {u1, u2}
  Sessions = {s1, s2}
  MaxRevision = 3
  None = None
SPECIFICATION Spec
SYMMETRY Symmetry
INVARIANTS
  TypeOK
  PaidForActive
  ListingIsSound
PROPERTY DraftIsSubmittedFirst
