SPECIFICATION FairSpec
CONSTANTS
  Parts = {"tools", "notifications", "access", "guardrails", "storefront"}
  none = none  unset = unset  nobody = nobody  null = null
  c1 = c1  c2 = c2  c3 = c3  c4 = c4  k1 = k1  t1 = t1  t2 = t2
  Calls = {c1, c2, c3, c4}
  Keys = {k1}
  Tools = {t1, t2}
  KeyOf <- MCKeyOf
  ToolOf <- MCToolOf
  Permitted = {c1, c2, c3, c4}
  Confirmed = {c2}
  NeedsConfirmation = {t2}
  m1 = m1  m2 = m2  m3 = m3  d1 = d1  alice = alice  bob = bob
  Messages = {m1, m2, m3}
  Addresses = {alice, bob}
  DedupeKeys = {d1}
  To <- MCTo
  DedupeKeyOf <- MCDedupeKeyOf
  r1 = r1  a1 = a1  a2 = a2  s1 = s1  s2 = s2  slug = slug
  Users = {alice, bob}
  Sessions = {s1, s2}
  UserOf <- MCUserOf
  StaffRequests = {r1}
  AdminRequests = {a1, a2}
  TokenOf <- MCTokenOf
  Slugs = {slug}
  SlugOf <- MCSlugOf
  OwnerOf <- MCOwnerOf
  DAY = 8
  BRANCH_TZ_OFFSET = 1
  Weeks <- MCWeeks
  Minimums = {0, 25}
  Promos <- MCPromos
  Baskets <- MCBaskets
  Fees <- MCFees
  Slack = 0
  Horizon = 1
  FirstInstant = 44
  LastInstant = 58
  noPromo = noPromo  nothing = nothing
  i1 = i1  l1 = l1  l2 = l2  cart1 = cart1  cart2 = cart2  p1 = p1  p2 = p2  key1 = key1  key2 = key2
  Items = {i1}
  Lines = {l1, l2}
  ItemOf <- MCItemOf
  Carts = {cart1, cart2}
  Checkouts = {p1, p2}
  OrderKeys = {key1, key2}
INVARIANTS
  NoDoubleRun
  OptedOutAreLeftAlone OneSentPerKey DedupedWasDelivered
  AdmittedAreEntitled OwnersGetIn
  OpenWhenItMeansTo BillsAddUp
   OrdersAreSnapshots EightySixedIsNotOrdered
PROPERTIES
  ImplementsOnceOnly
  EveryCallEnds
CHECK_DEADLOCK FALSE
