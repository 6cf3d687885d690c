SPECIFICATION Spec
CONSTANTS
  Provider = "fake"
  Checkouts = {c1, c2}
  Refs = {c1, c2}
  Staff = {s1}
  Keys = {k1}
  Tenants = {t1}
  Phones = {n1}
  Promos = {m1}
  None = None
  t1 = t1
  k1 = k1
  n1 = n1
  m1 = m1
  RequestBodies <- MCBodies
  MaxRedemptions <- MCOne
  AdvanceTo <- MCNoAdvance
INVARIANT RedemptionCapHolds
