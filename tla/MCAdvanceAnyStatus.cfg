SPECIFICATION Spec
CONSTANTS
  Provider = "moyasar"
  Checkouts = {c1, c2}
  Refs = {c1, c2}
  Staff = {s1, s2}
  Keys = {k1}
  Tenants = {t1}
  Phones = {n1}
  Promos = {}
  None = None
  t1 = t1
  k1 = k1
  n1 = n1
  m1 = m1
  RequestBodies <- MCBodies
  MaxRedemptions <- MCCaps
  AdvanceTo <- MCApi
INVARIANT MoneyFollowsStatus
