SPECIFICATION Spec
CONSTANTS
  Orders = {o1, o2}
  Drivers = {n1, n2}
  Amounts = {5}
  Dispatchers = {d1, d2}
  Settlers = {p1, p2}
  DeliveryStatus = {"assigned", "delivered"}
  None = None
SYMMETRY MCSymmetry
INVARIANTS
  NothingClosedUnpaid
