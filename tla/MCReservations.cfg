SPECIFICATION FairSpec
CONSTANTS
  Bookings = {b1, b2}
  Staff = {s1}
  Tables = {t1, t2}
  None = None
  t1 = t1
  t2 = t2
  Capacity <- MCTightCapacity
  Windows <- MCWindows
  Parties <- MCParty
  SetTo <- MCSetTo
INVARIANTS
  NoDoubleBooking
PROPERTIES
  ImplementsCalendar
  WritersFinish
  SomebodyGetsTheTable
CHECK_DEADLOCK FALSE
