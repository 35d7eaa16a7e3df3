CONSTANTS
  Units = {u1}
  Bookings = {b1, b2}
  Users = {x1, x2}
  Requests = {r1, r2}
  Workers = {w1}
  None = None
SPECIFICATION FairSpec
INVARIANTS
  TypeOK
  StatusIsBacked
  NoDeadlock
PROPERTIES
  ReviewIsDecided
  ImplementsReservation
  UnpaidBookingLapses
