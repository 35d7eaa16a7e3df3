CONSTANTS
  Units = {u1}
  Bookings = {b1, b2}
  Users = {x1}
  ManualReferences = {m1}
  ProviderReferences = {p1, p2}
  MaxDay = 2
  None = None
SPECIFICATION Spec
INVARIANT AvailableIsInspected
