CONSTANTS
  b1 = b1
  a1 = a1
  p1 = p1
  q1 = q1
  e1 = e1
  e2 = e2
  e3 = e3
  Bookings = {b1}
  Charges = {a1}
  FormReferences = {f1}
  ProviderReferences = {p1}
  Events = {e1, e2, e3}
  Amounts = {q1, q2}
  Callbacks <- MCCallbacks
  Requests = {r1, r2}
  None = None
SPECIFICATION FairSpec
INVARIANTS
  TypeOK
  ClaimsFollowPayments
  ProviderMoneyIsAsked
PROPERTIES
  EventActsOnce
  ProcessedIsApplied
  CallbackIsRecorded
CHECK_DEADLOCK FALSE
