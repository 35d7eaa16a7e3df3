CONSTANTS
  Units = {u1}
  Bookings = {b1, b2, b3}
  Users = {x1}
  ManualReferences = {m1}
  ProviderReferences = {p1}
  MaxDay = 2
  None = None
SPECIFICATION Spec
SYMMETRY Symmetry
INVARIANTS
  TypeOK
  UnitFollowsBooking
  UnitFollowsTenancy
  MoneyAgrees
  ReservedAfterNotice
  IInv
PROPERTIES
  MoveInAfterInspection
  ReviewIsDecided
  ImplementsReservation
