CONSTANTS
  Tokens = {t1, t2, t3}
  Families = {f1, f2}
  Requests = {r1, r2}
  None = None
SPECIFICATION ComposedSpec
INVARIANT OfflineLogoutHolds
CHECK_DEADLOCK FALSE
