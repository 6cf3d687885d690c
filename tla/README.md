# Peers Restaurants: TLA+ specifications

Peers Core (`src/src/modules`) is a multi-tenant NestJS application over
PostgreSQL; the restaurants vertical (`src/src/vertical/restaurants`) is what it
runs today: ordering with held card payments, table reservations, deliveries,
promotions, loyalty, carts and menus, staff and administrators. This directory holds the TLA+ modules that model it, the
TLC runs that check them, and proofs that TLAPS checks. `PROJECT.json` maps
every definition to the lines it translates and lists the runs, the mutants
that show each property can fail, the findings, the hazards and the theorems.

Paths below are relative to `src/`; `R/` is `src/vertical/restaurants/` and `M/`
is `src/modules/`.

## 1. Inventory

All state that survives lives in PostgreSQL. Every service call opens one
READ COMMITTED transaction with the tenant set for row-level security
(`withTenant`, `M/tenancy/tenant-context.ts:23`), or talks to the database
directly in the identity module. The only in-process state is the memory of the
fake payment provider, the inference cache and the registries of the tool
dispatcher. There are no background jobs, queues or timers: everything that
happens, happens inside somebody's HTTP request, and requests run concurrently.

| Component | State | Operations | Hard behaviour | What makes it correct |
|---|---|---|---|---|
| Orders (`R/order.service.ts`, `R/order-state.ts`) | `orders`, `order_events`, `payments` | checkout, accept, reject, cancel, advance | callers race over a row; money moves at a provider inside a transaction that may roll back; a lost answer; notification after commit | only legal transitions, each audited; money follows the status; one order per idempotency key; every request ends |
| Payment providers (`M/payments`) | the gateway's payments; the fake's two maps | authorize, capture, void, refund | lost answers; a restart empties the fake; key reuse | a payment moves once and only forward; an order's claim about money is backed |
| Promotions (`R/promotion.service.ts`, `resolvePromo`) | `promotions` | create, deactivate, redeem in checkout | read, compare, write back across a lock wait | redeemed no more often than the cap, never counted twice |
| Loyalty (`R/loyalty.service.ts`, `applyTransition`) | `loyalty_accounts`, `loyalty_ledger` | award on completion | two callers complete one order | an account is the sum over its completed orders |
| Reservations (`R/reservation.service.ts`) | `reservations` | book, findAvailableTable, setStatus, modify, addToWaitlist, promoteFromWaitlist | race between the search and the insert; waits and deadlocks inside the exclusion constraint; any status to any status | no table is booked twice; somebody gets it; a party fits its table |
| Notifications (`M/notifications`) | `notifications`, `notification_optouts` | notify, optOut | delivery before the record, which a rollback undoes alone; two sends with one key; an opt-out during a send | a key is recorded once; nobody is called a duplicate of nothing; nobody who had opted out is sent a message |
| Identity (`M/identity`) | `otp_challenges`, `users`, `sessions`, `memberships` | requestOtp, verifyOtp, authenticate, authorizeTenant, revokeSession, grantPlatformAdmin | per-phone advisory lock; creation time taken before the lock; a crash between consuming a code and writing the session; sessions revoked between the reads of one request | a code is used once, guesses and requests stay capped; who is let in had a live session and the rows for it |
| Tool dispatcher (`M/tool-dispatcher`) | `tool_invocations` | dispatch | two dispatches of one key, the second of which waits inside the unique index; a handler that throws gives its key back | a key's effect happens once, its answer is repeated |
| Deliveries (`R/delivery.service.ts`) | `deliveries`, `driver_earnings` | assign, setStatus, owed, settle | reassign races settle; two upserts in one transaction, one UPDATE over many rows; an earning that arrives between owed and settle | one earning per order, closed once and for the driver who drove |
| Carts (`R/cart.service.ts`) | `carts`, `cart_items` | createCart, addItem, quote, checkout | three transactions; rows added while the cart is being ordered; the cart's status is written and never read | an order is the cart at one moment; a closed cart was ordered; a row is sold once (it is not) |
| Onboarding, restaurants (`R/onboarding.service.ts`, `R/restaurant.service.ts`) | `tenants`, `memberships`, `branches` | onboard, createBranch, updateBranch | four commits in a row, a failure between them | a tenant that can be worked in has an owner who can work in it |
| Menu, catalog (`R/menu.service.ts`, `M/catalog`) | `catalog_items`, `menu_availability` | createItem, setSoldOut, setBranchAvailability | a checkout reads an item and its override in two statements | what is off the menu is not ordered |
| Pricing, opening hours, modifier groups (`R/pricing.ts`, `isOpenAt`, `resolveLines` and `resolvePromo` in `R/order.service.ts`) | none | pure functions | rounding, discounts of any size, local time, midnight | bills add up; requests are refused as closed when the branch is closed |
| Tenancy (`M/tenancy`, `drizzle/0001_rls.sql`) | the session's tenant | runAs | a pooled connection keeps settings | the setting ends with the transaction |
| Reviews, complaints | rows | create | status guard on a terminal status | one per order |
| Inference gateway, knowledge base, conversations, FAQ, diner agent | rows, a memo cache | complete, search, record | two equal calls in flight | (no protocol) |
| Channels, consoles, drivers' directory, tenant resolver, integrations, migrations, seed | none | output and lookups | | |

How they interact: the diner and staff controllers call the services; the order
service calls the payment provider inside its transaction and the notification
service after it; the cart's checkout calls the order's checkout; the delivery
service reads order statuses and staff move orders with `advance`; the tool
dispatcher calls registered handlers. Services never call each other through
messages: they share rows.

`PROJECT.json` lists every component with its status and, under `hazards`, what
in this code is hard to test, at its line.

## 2. Modules

| Module | Models |
|---|---|
| `OrderState` | the statuses and the table of legal transitions (`R/order-state.ts`) |
| `PaymentProvider` | the two-phase money contract and both adapters (`M/payments`) |
| `OrderLifecycle` | abstract: what the class comment of OrderService promises of one order, each change one step |
| `OrderService` | checkout and transitions as they run: reads, row locks, provider calls, commits, notification; promotions and loyalty where orders touch them |
| `OrderServiceProofs`, `OrderLifecycleProofs` | theorems about it |
| `SumTheorems` | what a sum over a finite set is, for the proofs about points and subtotals |
| `MCOrderLifecycle`, `MCCheckout` | instances for TLC |
| `Calendar` | abstract: what the class comment of ReservationService promises, each decision one step |
| `Reservations` | bookings of a branch over the exclusion constraint |
| `ReservationsProofs`, `MCReservations` | its theorems, refinement of `Calendar` included; its instance |
| `OtpAuth` | one-time codes of a phone number under its advisory lock |
| `OtpAuthProofs`, `MCOtpAuth` | its theorems, its instances |
| `Delivery` | deliveries and the ledger of drivers' earnings |
| `DeliveryProofs`, `MCDelivery` | its theorems, its instance |
| `OnceOnly` | abstract: what ToolDispatcher promises about a key |
| `ToolDispatcher` | dispatch: authorization, lookup, the unique index and its waits, handler, completion |
| `Notifications` | notify and optOut |
| `Access` | the guards (`authenticate`, `authorizeTenant`), revocation, administrators, onboarding |
| `Pricing` | totals, discounts, modifier groups, opening hours, as operators |
| `Guardrails` | the settings of a merchant (hours, minimum, promotion) and the guards of a checkout that read them |
| `Storefront` | menu, carts and the checkout of a cart |
| `ServiceProofs` | theorems about `ToolDispatcher` (refinement of `OnceOnly` included), `Notifications`, `Access` and `Guardrails` |
| `StorefrontProofs` | theorems about `Storefront` |
| `MCServices` | one instance for these five |

How they compose: `OrderService` is composed with `PaymentProvider`,
`Guardrails` with `Pricing`. `Guardrails` and `Storefront` look at two other sides
of the same `OrderService.checkout`: the first at its guards, which
`OrderService` leaves as a free choice, the second at the reads of its lines,
with the rest as a free choice in turn. So what one of them shows does not rest on
what another leaves out.

### Transactions

A transaction's writes are invisible until it commits and vanish if it does
not. The models therefore apply the writes of a transaction at its commit step
and keep as separate steps what other transactions can notice or influence:

- each read that a later decision rests on (READ COMMITTED: it sees what is
  committed at that moment, and may be stale when used);
- each row lock an `UPDATE` takes, which waits for whoever holds the row and is
  held to the end of the transaction (`LocksOrder`, `LocksPromo`, `Holds`);
- each call to a provider or a notifier, which no rollback undoes;
- the exclusion constraint's check, which waits for other writers (`Waits`).

Any transaction may end without a commit at any point before it: a guard that
fails, an error, a lost connection (`AbandonCheckout`, `AbandonTransition`,
`Abandon`, `RollBack`, `GiveUp`, `CheckoutFails`), or a restart of the process,
which ends all of them (`Restart`, `ToolRestart`). Code without a transaction
(sessions, onboarding) commits statement by statement, so there each statement
is a step, and `Break` stops between any two.

### OrderService

A checkout attempt is a process: `Dedupe` (the lookup of the idempotency key),
`Price` (the menu, minimum and opening-hours guards and the promotion's row as
read), `Redeem` (the UPDATE that takes the promotion's row lock), `Authorize`
(the provider call), `Place` (insert and commit, where the unique index on the
key decides). Guards that depend only on the request and the menu are a free
choice between going on and `AbandonCheckout`. A client that retries is another
attempt with the same key. Fresh UUIDs (order, payment reference) are named by
the attempt that may create them.

A staff caller is a process too: `accept`/`reject`/`cancel`/`advance` load the
order and check `canTransition`; `Claim` is the conditional UPDATE; `Pay` the
provider call under the row lock; `Commit` writes status, event, payment row and
loyalty; `Notify` runs after the commit. `AdvanceTo` is what callers pass to
`advance`: the API passes any string on, the console offers six.

The gateway behind the Moyasar adapter is external. It is taken to refuse what
`FakePaymentProvider` refuses, which its comment describes as "the same legal
transitions a real gateway would". With `Provider = "moyasar"` an answer may be lost
after the money moved, and a repeated authorize opens another hold; with
`Provider = "fake"` calls never lose answers, known keys are answered from
memory, and a restart forgets everything.

Abstracted: items, prices, delivery addresses, the discount's arithmetic, schedule
and opening hours (a free choice between passing and failing), message texts,
row-level security (orders of different tenants share nothing but promotions'
and accounts' names, which carry the tenant in the model).

### Reservations

A request books a table it was offered (`findAvailableTable`, the diner route,
in a transaction of its own) or that the caller named, or is put on the
waitlist. Staff call `setStatus` (which is also `cancel`), `modify` and
`promoteFromWaitlist`. Each writes one row version (`Put`), after which the
constraint `ex_reservations_no_overlap` works as PostgreSQL documents it: the
version is put into the index, then clashing versions are looked for. A
committed one raises 23P01 (`Violate`), one that another transaction is still
writing is waited for (`Waits`), and a ring of waiters is broken by failing one
of them with 40P01 (`Victim`), which no catch in the service names. An update
that changes only the party does not touch the index. Callers see
`slot_taken` for 23P01 and an unnamed error for 40P01.

`Calendar` says what the branch's book looks like from outside: a request is decided
in one step, on the rows that are committed at that moment. It is booked on a
table that fits and is free, or told why not, and then that reason is true
(`slot_taken`: somebody else's active reservation overlaps; `no_table`: that holds of every
table that fits); staff change a row from what it says at that moment. The
refinement maps `asked` to `request`, `row` and `answer` to themselves: `Commit`,
`Violate`, `Victim`, `Abandon` and the refusals before the insert are the
calendar's steps, everything else stutters.

One branch is modelled, so the filter of `findAvailableTable` on the
reservation's branch is not. The status `requested` is allowed by the table and
written by no code.

### OtpAuth

One phone number: others share nothing with it but a lock whose hashes collide.
A request is a process that makes at most one challenge (`requestOtp`,
`TakeLock`, `CountRecent`, `InsertChallenge`, `SendCode`). A verifier is a
process that tries codes one at a time (`verifyOtp`, `TakeLock`,
`ReadChallenge`, `CountAttempt`, then `AddUser` and `IssueSession`, which are
commits of their own after the locked transaction: a restart between them leaves
a consumed code and no session). `End` gives the lock back with the transaction.

A challenge is dated by the column's default `now()`, the time its transaction
began, so before it waited for the lock (`started`), whereas the window it is
counted against is computed after the wait. The cap therefore protects a window
shorter by the time a transaction may last: `Patience` names that time, and
`Tick` keeps to it. `requestOtp` promises a window of full length
(`M/identity/auth.service.ts:53-56`), which holds up to such a wait.
Service and database are taken to share a clock.

`sessions` and `answers` are history: how often a code opened a session, how
often a caller learned whether a guess at it was right. Not modelled: the check
that the phone is E.164 (nothing happened yet), hashing (two challenges may hold
one code). What becomes of a session later is in `Access`.

### Delivery

A dispatcher's `assign` is one transaction of two upserts: `ClaimDelivery` takes
the order's delivery row, `ClaimEarning` its earning's row and decides, once it
has the lock, whether the earning is still open (`setWhere`), `CommitAssign`
writes what was decided. `settle` is one UPDATE over many rows: it picks them
when it begins (`settle`), locks them one by one in any order and looks at each
again (`LockEarning`), and closes at the commit. Two settlements may lock the
same rows in opposite orders; the database ends one (`Victim`).

A settler reads what its driver is owed, pays outside the system, and settles,
once; `settledAt` names it. Callers that settle without asking first are not
modelled: finding 5 would be trivial for them. Drivers' names, the check of the
amount and orders that are deleted are left out.

### ToolDispatcher

A call is one dispatch; a retry is another call with the same key. `dispatch`
authorizes and asks for the confirmation, `Lookup` reads the key, `Insert` writes
the pending invocation, `Handle` is the tool's handler, which is external and
writes in the same transaction, and `Complete` commits. A call whose insert
meets an uncommitted entry of its key waits for that transaction (`Writing`): if
it commits, the insert fails with the index's error, and if it rolls back, the
insert goes ahead. So a call that loses the race is told of an error and not of the
first result; its retry is. Arguments and results are named by the call
that makes them. One tenant: keys of different tenants do not meet.

`OnceOnly` is what the class comment promises: a key takes effect once, in one
step, and every later answer for it is that effect's. The refinement maps `made`
to the calls with a completed row and `told` to the answers.

### Notifications

A message goes through `RespectOptout`, `LookUp` (the dedupe key), `Deliver` and
`Record`. Delivery is inside the transaction and is not undone by `GiveUp` or by
the unique index refusing the record. `silenced` is history: the calls that
began after their recipient had opted out. One channel is modelled; an
address and a channel are one name. `OrderService.Notify` is a caller
of this; it is not composed, because the notifier's answers are ignored there.

### Access

A request brings a token. `ReadSession`, `ReadMemberships` and `ReadAdmin` are
the three reads of `authenticate`, each a statement of its own, with
revocations, expiry, new administrators and onboardings between them. Staff requests then take
the first membership found (`tenantOf`); an unordered query may return any first.
Administrators' requests run `onboard`: tenant, owner, membership, branch, four
commits. Everybody who is a member is an owner here: `onboard` is the only code
under `src/` that writes a membership. `entered` is history:
whether the session had lapsed, and which tenants its user owned, when the
request began.

### Pricing and Guardrails

`Pricing` has the arithmetic in integers: `PercentOf` rounds halves up as
`Math.round` does on the values that occur (none is negative), `Totals` clamps
the discount, `isOpenAt` looks one weekday's windows up at the branch's local time, and
`MeansOpen` is the reference: a window runs from its opening to the next closing
time, in a week that goes round. A day has `DAY` units.

`Guardrails` lets a merchant change hours and minimum (`updateBranch`), create a
promotion (`createPromo`) and lets time pass (`Tick`); `checkout` is the chain of
guards in the code's order, and the bill if none refuses. Item groups are
those that `validateModifierGroups` accepts. What a modifier adds is one amount. Fees may
be negative: the routes pass on what they are given.
Hours are pairs of times of day, as the comment of `Hours` says; no code
checks that, and what other strings would mean is not modelled.

### Storefront

Staff put items on the menu, sell them out and switch them off at the branch;
callers fill carts; a checkout reads the cart's rows (`ReadLines`), then, inside
`OrderService.checkout`, looks its key up (`Dedupe`), reads each row's item and
the override in two statements (`ReadItem`, `ReadOverride`), places the order
(`Place`), and closes the cart in a third transaction (`Close`), whose answer may be
lost as well. The path names the cart and the body brings the key, which the route insists
on; `checkoutCart` chooses them independently (`from`, `key`), because no code
compares them: the lookup asks for tenant and key (`R/order.service.ts:125`), and the
cart that was named is closed whatever order came back
(`R/cart.service.ts:89`). `sold` and `here` are
history: what was on sale, and not switched off, at some moment since the
checkout began.

### MCServices

The five components above share no rows and call nobody, so interleaving them
shows nothing and would multiply their states: `part` says which of them
acts in a behaviour, and TLC explores the union.

## 3. Runs

Times are for two workers.

| Run | Instance | Shows |
|---|---|---|
| `lifecycle` | `MCOrderLifecycle.cfg`: gateway, 2 attempts with one key, 2 staff, console's statuses, restarts; 107,000 states, 80 s | claims, audit, money, backing, loyalty, notifications; refinement of `OrderLifecycle`; every request ends |
| `checkout` | `MCCheckout.cfg`: fake, 2 attempts over one key and a promotion for one use, 1 staff caller, restarts, deactivation; 15,500 states, 6 s | one order per key, holds belong to orders, redemptions are not overcounted; checkouts that queue for a promotion's row end |
| `reservations` | `MCReservations.cfg`: 2 requests, 1 staff caller, 2 tables, 2 overlapping spans; 165,000 states, 70 s | no double booking, refinement of `Calendar`, calls end, somebody gets the table |
| `otp` | `MCOtpAuth.cfg`: 2 requests and a cap of one, waits of up to a tick, a window of one, two ticks, 2 verifiers with two guesses per code, 2 codes; 383,000 states, 150 s | codes open one session, guesses and requests capped (the cap less the wait), calls end |
| `delivery` | `MCDelivery.cfg`: 2 orders, 2 drivers, 2 dispatchers, 2 settlements, 2 statuses; 1,370,000 states under symmetry, 50 s | earnings belong to who drives, are closed for the right driver, and stay |
| `services` | `MCServices.cfg`: 4 dispatches over a key and 2 tools; 3 messages to 2 addresses, one key; 3 requests with 2 sessions and a slug; 4 weeks of hours, 3 promotions, 5 baskets, 3 fees over 15 instants; 2 rows of an item, 2 carts, 2 checkouts, 2 keys; 287,000 states, 85 s | see below, one group of properties per component |
| `cart_resold` | as `services`, the storefront only | **violated**: finding 6 |
| `advance_any_status` | as `lifecycle`, API's statuses, no fairness | **violated**: finding 1 |
| `lost_answer` | as `lifecycle`, no fairness | **violated**: finding 2 |
| `promo_cap` | as `checkout` with a cap of one | **violated**: finding 3 |
| `parties_fit` | as `reservations` with two sizes of party | **violated**: finding 4 |
| `settle_unpaid` | as `delivery` | **violated**: finding 5 |

Why the bounds suffice. Orders meet only through an idempotency key, a
promotion and the provider's key map: a retry needs two attempts, and two
attempts that share a promotion with a third that does not show every pairing
of the two. Over one order, two callers are the race; a third would meet a row
that one of the first two holds, which is what the second meets. The
statuses form an acyclic graph, so runs end without a cap on calls; no counter
needs one. Two reservations are what a double booking takes and a third writer
(staff) makes the rings of three; with two tables a promotion can go to the
table a booking wants. `SetTo` in the instance has one status that keeps the
table and one of the three that give it up: the constraint does not tell
those three apart. `MCTightCapacity` makes one table too small, so that
`over_capacity` and `no_table` both happen.

A cap of one with one request more than that is a way past the
cap, once windows end before the clock does (`MaxClock`), and two verifiers with
two guesses race both for the last guess and for one code; larger caps are the
theorems'. Codes expire after a
tick, so both the expired and the live one are met; two challenges may be alive
at once, with the same code or not.

Two dispatchers are the race for an order, two settlements the race for a
driver's rows; with two orders a settlement holds one row while it waits for
another, and with two drivers an order changes hands meanwhile. No
property compares amounts of two earnings, so one amount is enough.

In `services`, two dispatches with one key are a race, a third retries when they
are done, and the fourth, which has neither key nor confirmation, is refused by the
tool that asks for one before any key is looked up. Two messages with
a key race and a third is for somebody else. One session acts twice as
administrator and one as the owner it makes. Instants run from Friday afternoon
to Sunday, over hours within the day, hours past midnight every day, and the hours of
`src/test/vertical-faq.test.ts:46`; baskets meet rounding in both directions, a
negative price, a total of nothing, a missing and a surplus modifier.
Two rows are what two orders of a cart can differ in, and the two share
an item because nothing compares items. Two carts and two keys in any combination
are a retry, a second order of a cart, and a key that strays to another cart. Carts,
rows, checkouts and keys of the storefront differ in their names only, so
`NamedInOrder` gives the names in the order of their first use.

`MCServices.cfg` switches deadlock checking off: once every request was made, a
behaviour stops. `MCReservations.cfg`, `MCPartiesFit.cfg` switch deadlock checking off because a
branch whose two requests were both refused has no rows left to change: it
really stops. In the order runs a restart is always possible, so TLC's deadlock check
says little there; `RequestsEnd` is what says that nobody is stuck.

### Properties

Orders (`OrderService`):

- `ClaimsAreCurrent`: the UPDATE compares only the status, yet `cancel` chose void
  or refund from the payment status it loaded: while a claim is held, both are
  what was loaded, and nobody else holds one.
- `AuditTrailIsLegal`: the events of an order are one legal walk from NEW to its
  status.
- `MoneyFollowsStatus`: the payment rows are the ones the status calls for. Holds
  when callers of `advance` stay with fulfilment statuses; fails for the
  API as it is (finding 1).
- `ProviderBacksOrders`: whatever aborts or answers get lost, an order never
  claims a movement the provider did not make.
- `RejectedMeansNotCharged`: who was told "you have not been charged" was not.
- `LoyaltyMatchesCompletions`, `NotifiedOncePerStatus`: side effects happen once.
- `HoldsBelongToOrders`, `OneOrderPerKey`, `RedemptionsNeverOvercount`: checkouts.
- `ImplementsLifecycle`: rows of `orders` step as `OrderLifecycle` does.
- `RequestsEnd`: every checkout and every call ends.

Reservations: `NoDoubleBooking`, `ImplementsCalendar` (answers and rows are those of a
calendar that decides one request at a time), `WritersFinish`, `SomebodyGetsTheTable` (the
bookings of a table never all fail because of each other), `PartiesFit` (fails).

One-time codes: `CodesOpenOneSession`, `GuessesCapped` (callers learn no more
answers about a code than were counted, and no more than the limit),
`RequestsCapped` (no window, less `Patience`, has more challenges than the
cap), `CallsEnd`.

Deliveries: `SettledIsHistory` (a settled earning never changes),
`SettledForItsDriver`, `DriverIsOwed` (one earning per delivery, owed to who
drives while it is open), `NothingClosedUnpaid` (fails).

Dispatcher: `NoDoubleRun` (no handler of a key runs beside another or after one
that committed), `ImplementsOnceOnly`.

Notifications: `OptedOutAreLeftAlone`, `OneSentPerKey` (one call per key says
"sent", and only its record stays), `DedupedWasDelivered`.

Access: `AdmittedAreEntitled` (who does something had a live session when the
request began, and the rows for it), `OwnersGetIn` (a tenant with a branch has an
owner with a membership; an owner is not refused).

Guardrails: `OpenWhenItMeansTo` (against `MeansOpen`, for hours within a day and
hours that are the same every day: the code reads one weekday's windows, so hours past
midnight that differ between days are misread at both ends), `BillsAddUp` (parts
and total, VAT to the nearest unit, a promotion never makes an order dearer).

Storefront: `OrdersAreSnapshots` (of two orders of a cart one includes the
other), `ClosedCartsWereOrdered` (a cart is closed only when a checkout that named it has
an order, not an empty one, and it is of rows of that cart unless the key was brought
for another cart too, `KeyStrayed`), `EightySixedIsNotOrdered` (what was off the menu for as
long as the checkout ran is not ordered), `RowsSoldOnce` (fails).

`EveryCallEnds`: dispatches, messages, requests and checkouts of these end.

### Fairness

`OrderService.Fairness`: an attempt that began goes on (the event loop runs what
is ready, and the database and the provider answer or fail, so weak fairness on
reads, calls and commits); PostgreSQL hands a row to its waiters in turn, so a
step that waits for a row has strong fairness (`Redeem`, `Claim`). No request
has to be made, and no error, abort or restart has to happen.
`Reservations.Fairness`: the outcome of a statement (`Pass`, `Violate` or
`Victim`, together) has strong fairness, because a waiter may be woken and find
another writer; commits have weak fairness. Nothing requires staff to act.
`OtpAuth.Fairness`: the advisory lock is handed to its waiters in turn (strong
fairness on `TakeLock`), the rest of a call goes on (weak fairness). Nobody has
to call and time need not pass.
`MCServices.Fairness` is the conjunction of the components': a request that began
goes on (weak fairness), and the unique index hands a key to its waiters (strong
fairness on `ToolDispatcher.Insert`). Nobody has to call, fail, revoke or pass time.

### Findings

1. `advance` moves an order to any status its caller names, without money:
   `POST .../advance` with `ACCEPTED` accepts without a capture.
2. A capture whose answer is lost leaves the order NEW with its funds taken;
   `reject` and `cancel` then ask for a void, which is refused for ever.
3. `resolvePromo` writes back the count it read plus one without comparing again:
   overlapping checkouts pass the cap.
4. `modify` and `promoteFromWaitlist` do not look at the table's capacity, which
   `book` insists on.
5. `settle` closes whatever is open when it runs, so an earning posted after the
   restaurant asked what it owes is closed unpaid.
6. A cart that was checked out is checked out again with another idempotency
   key: the status is written and never read, so its rows are sold twice.

Two observations have no run of their own; a property or a theorem names them as its exception:
a key that was used for cart A and comes with cart B is answered with A's order and
closes B, from which nothing was ordered (`KeyStrayed`; without the exception
`ClosedCartsWereOrdered` fails after two checkouts); and on the in-process provider a key of
two tenants is one payment (`KeysTellTenants`).

## 4. Proofs

TLAPS checks these for every value of the constants that satisfies the named
assumptions of the modules (types of the constants, null values apart from the
sets they stand beside, references named by attempts).

`OrderServiceProofs`

- `TypeInvariance`, `TypeCorrect` (`TypeOK`). `TypeOK` alone is not inductive: a
  commit writes what the caller's `job` says into the order, so it needs to know
  that a caller past loading has a job and that its order exists
  (`JobsAreLoaded`), and that a placed order has all its columns
  (`OrdersAreWhole`). `TypeInv` is the conjunction.

`OrderLifecycleProofs`

- `ClaimsStayCurrent` (`ClaimsAreCurrent`). The code compares the status when it
  claims, not the payment status. What makes the comparison enough is that a
  status never comes back: the transitions climb (`Rank`), so if the status is
  what was loaded, nothing was committed in between. `SnapshotsAge` says this of
  every loaded job: the order's rank is at least that of the snapshot, and if
  the status is the same, so is the payment status. `ClaimInv` adds that claims
  are exclusive, that orders come from attempts that replied (so a checkout
  cannot overwrite one), and that jobs carry a legal combination of target and
  money (`JobsFit`).
- `ServiceImplementsLifecycle` (`ImplementsLifecycle`): a `Commit` under a claim
  that is current is one action of `OrderLifecycle`; `Place` is `Appear`;
  everything else leaves the rows alone.
- `MoneyFollows`: `AdvanceIsFulfilment => (Spec => []MoneyFollowsStatus)`. The
  hypothesis is what finding 1 shows the code does not enforce.
- `TrailIsLegal` (`AuditTrailIsLegal`): the event is written with the `from` that
  was loaded, and `ClaimInv` says that this is the status the row still has.
- `OneOrder` (`OneOrderPerKey`) from `KeyInv`: committed orders of one key are one
  order (the index), and every reply is a committed order of the attempt's key.
- `NotifiedOnce` (`NotifiedOncePerStatus`) from `NewsInv`: whatever was or is about to be
  told has been reached by the order (`HasReached`). Since statuses climb,
  a commit reaches a status for the first time, so its news is new (`NewsIsNew`).
- `NoOvercount` (`RedemptionsNeverOvercount`) from `CountInv`: what an attempt in flight
  has read is no more than the orders that used the promotion, and users only
  join. Two attempts may have read the same count, which is why the count may lag
  (finding 3) but not lead. Assumed: finitely many checkouts.
- `ProviderBacks` (`ProviderBacksOrders`), `HoldsBelong` (`HoldsBelongToOrders`) and
  `RejectedNotCharged` (`RejectedMeansNotCharged`), for both adapters, from
  `BackInv`: the provider is level with the row or one call ahead, and a caller
  about to commit has its money moved (`FundsAreBacked`). On the gateway an order
  rests on the hold its own attempt opened. The in-process provider answers a
  known key with the payment it remembers, so there an order may rest on
  the hold of an earlier attempt with its key (`HoldsAreOwn`), which no other order
  rests on, because orders of one tenant and key are one order; money is taken
  only from the hold of an order (`OthersAreHeld`); and the hold may be gone
  (`Forgotten`), because a restart empties the memory while
  orders stay. A refund needs the payment status it loaded to be the row's
  still: that is `ClaimInv` again. `BackInv` was checked with TLC on the instances of
  `lifecycle` and `checkout` before it was proved. Hypothesis of the last two,
  vacuous on the gateway: `KeysTellTenants`, requests that bring one key to the in-process
  provider are of one tenant. Its map is keyed by the key alone
  (`M/payments/fake-payment-provider.ts:27`), so without it one tenant's order would rest on
  another's payment. `RejectedNotCharged` also takes `AdvanceIsFulfilment`.
- `LoyaltyMatches` (`LoyaltyMatchesCompletions`) from `PointsMatchCompletions`: the points
  of an account are the total of what its completed orders earn. A commit that
  completes an order adds that order to the set and its points to the account,
  once, because statuses climb. Assumed: finitely many checkouts. `RewardedOnce` is its
  ledger half, for any number.

`SumTheorems` (lemmas, which say nothing of the system by themselves)

- `SumsAddUp`: the sum of naturals over a finite set is a natural, is zero for the
  empty set, and each element counts once. The induction theorems of the library
  are out of reach (they take an operator), so the induction is done by hand:
  a sum is the cardinality of the set of pairs of an element and a unit of
  it (`TotalCounts`), and a finite set on which a recursive sum and that count
  differed would have a smallest such subset (`SubsetInduction`). `SumsAreTotals` and `SumsAgree`
  carry this to the recursive functions of the models and of the community modules.

`ReservationsProofs`

- `NeverDoubleBooked` (`NoDoubleBooking`), `ReservationTypeCorrect` (`TypeOK`).
  `BookingInv` adds that a row has at most one writer (`RowLocks`) and that a
  version whose check has passed clashes with no committed row and no other
  passed version (`PassedIsClear`): this is where the order "enter
  the index, then look" matters, since whichever of two clashing versions looks
  second finds the first.
- `ServiceImplementsCalendar` (`ImplementsCalendar`): every step is one of `Calendar`'s
  or a stutter. `CalendarInv` adds that a version which is not committed is what its
  caller asked for, made of the row that is still committed (`IntentsAreCurrent`): a booking
  has no row and no answer yet, and the row lock keeps everybody else from a row
  that staff are changing, so no update is lost. At a commit `PassedIsClear` says that the
  table is free at that instant; a violation names a row that is committed at
  that instant (`TakenMeansClash`).

`OtpAuthProofs`

- `OneSessionPerCode` (`CodesOpenOneSession`) and `OtpTypeCorrect` (`TypeOK`) from
  `SessionInv`: what a verifier read is still so while it holds the lock
  (`ReadsAreCurrent`), which is what lets it write back the count it read; the
  way to a session is taken by one verifier per code, and only if the code
  is consumed and no session was opened with it (`OpeningsAreExclusive`).
- `GuessesStayCapped` and `RequestsStayCapped` from `CapInv`. For requests, the
  invariant speaks of the request that has counted and not yet written
  (`RoomIsKept`): challenges that would share its window are fewer than the cap,
  for as long as it holds the lock. That rests on `TransactionsAreShort`: by
  `Patience`, it started recently enough for all of them to have been counted.
  Assumed: finitely many requests, and `Patience` no longer than the window.

`DeliveryProofs`

- `HistoryStays` (`SettledIsHistory`), `SettlesItsDriver`, `OwedToTheDriver` and
  `LedgerTypeCorrect` from `LedgerInv`: an earning's row has one holder
  (`LocksAreExclusive`), so what a transaction found when it got the lock is
  still so when it commits (`DecisionsAreCurrent`); and a settlement that has
  closed something is done, so its driver does not change (`SettlersAreDone`).

`ServiceProofs`

- `NeverDoubleRun` (`NoDoubleRun`) from `DispatchInv`: a call that has not returned
  has committed nothing, and no committed row is pending, so whoever passes `Insert`
  is alone with its key.
- `DispatcherIsOnceOnly` (`ImplementsOnceOnly`): `Complete` is `Make`, a hit of
  `Lookup` is `Repeat`, whatever ends calls without a row is `Fail` (a restart
  ends many at once), everything else stutters.
- `NotificationsKeepTheirWord` (its three properties) from `NotifyInv`: a recorded
  message was delivered by a call that is over (`CallsKeepOrder`), each answer has its
  record or another's (`AnswersAreBacked`), and keys are unique among the records.
- `AccessIsEntitled` (`AdmittedAreEntitled`, `OwnersGetIn`) from `AccessInv`: memberships
  and administrators only grow, so what a request found is still there and
  includes what its user owned when it began (`FoundIsThere`); a lapsed session never
  comes back, so it does not get past the first read (`LapsedStayOut`). An action
  that took memberships away would break both.
- `EveryBillAddsUp` (`BillsAddUp`): rounding is within half a unit and monotone, by
  integer arithmetic, for all amounts; a basket that can be priced has a
  subtotal in the naturals, the total of its lines (`SubtotalIsTotal`).
- `OpenAsMeant` (`OpenWhenItMeansTo`) from `AskedWhetherOpen` (what was refused as closed is
  outside the weekday's windows, what got past is inside, and the hours have not changed
  since). The arithmetic is `SinceOpenIs`: how long ago a window opened, modulo a week,
  is whole days plus the difference of the times of day; the day is the
  window's own when that is no day, and the day after it when it is one
  (`WindowMeans`). So a window that stays within its day covers what its weekday's
  entry says, and one that passes midnight covers the beginning of the next day, which the code
  looks up under the next day: the same windows only if days are alike.

`StorefrontProofs`

- `ClosedForAnOrder`, `OrdersNest`, `OffTheMenuIsNotOrdered`, `StoreTypeCorrect` from
  `StoreInv`, for carts and keys in any combination: an order that answers was placed
  under the same key (`KnowsItsOrder`), so it is of the cart that was named or the key
  was brought for two carts; rows are only added to a cart, so what one checkout took and
  what another took later nest (`SnapshotsNest`), and what a checkout has looked at was on sale
  and on the menu at a moment since it began.

Only model-checked: the liveness properties (`RequestsEnd`, `WritersFinish`,
`SomebodyGetsTheTable`, `CallsEnd`, `EveryCallEnds`), because fairness and `ENABLED` are out
of the prover's reach. `TypeOK` of `Reservations` is proved and not among the
properties of a run.

## 5. What is left

In order of what the code would suffer most from:

1. Orders of two tenants under one key on the in-process provider: a
   run that shows which properties survive without `KeysTellTenants`.
2. Hours that run past midnight: what a merchant means by them, once the code
   says so, as a run against `MeansOpen`.
3. `OrderService.Notify` composed with `Notifications`, if its answers come
   to matter.

## 6. Not modelled

Consoles (HTML), the knowledge base, conversations, FAQ, menu sync and diner
agent (similarity search, text, single-row inserts), the drivers' directory, the
tenant resolver and the integration registry (lookups), channel adapters
(output), migrations, seed and fitness scripts (run once), declarations of the
schema other than the tables above, and the policies of row-level security,
which PostgreSQL evaluates. Of what is modelled: the refusals for an unknown branch,
item or option (guards on rows that the instances always have), a
promotion without a cap (`maxRedemptions` null), and the bounds that `resolveLines`
falls back on for modifier groups that never passed `validateModifierGroups`. The inference gateway is a memo cache with one log
row per call, and promises nothing about two calls at once. Reviews and
complaints insert one row behind a guard on a status that no longer changes. The
suspension of a tenant (`R/admin.controller.ts:74`) is one statement whose
result no code reads.
