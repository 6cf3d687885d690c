SPECIFICATION Spec
CONSTANTS
  Bookings = {b1, b2}
  Staff = {s1}
  Tables = {t1, t2}
  None = None
  t1 = t1
  t2 = t2
  Capacity <- MCCapacity
  Windows <- MCWindows
  Parties <- MCParties
  SetTo <- MCSetTo
INVARIANT PartiesFit
CHECK_DEADLOCK FALSE
