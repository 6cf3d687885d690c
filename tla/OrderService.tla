---------------------------- MODULE OrderService ----------------------------
(***************************************************************************)
(* OrderService (vertical/restaurants/order.service.ts) with the promotion *)
(* rows it redeems and the payment provider it calls.                      *)
(*                                                                         *)
(* Every service call runs in one READ COMMITTED transaction, so its plain *)
(* reads see what is committed when they run, its writes are invisible     *)
(* until it commits, and an UPDATE waits for whoever holds the row.  The   *)
(* model keeps the reads, the row locks and the provider calls as steps of *)
(* their own and applies a transaction's writes at its commit; a           *)
(* transaction that ends in any other way leaves nothing behind in the     *)
(* database, whatever it did at the provider.                              *)
(*                                                                         *)
(* A checkout attempt is a process of its own: a client that retries is    *)
(* another attempt with the same key.  Its identity stands for the order   *)
(* row and the payment reference it may create, which are fresh UUIDs.     *)
(***************************************************************************)
EXTENDS OrderState, PaymentProvider, Sequences, FiniteSetsExt

CONSTANTS
  Checkouts,       \* checkout attempts
  Staff,           \* callers of accept, reject, cancel and advance
  Tenants,
  Phones,          \* diners' phone numbers
  Promos,          \* promotion rows
  MaxRedemptions,  \* each promotion's cap
  RequestBodies,   \* what a checkout attempt may ask for
  AdvanceTo        \* statuses callers pass to advance

ASSUME RefsAssumption == Refs = Checkouts
ASSUME NullsAssumption == None \notin Phones \cup Promos \cup OrderStatus \cup PaymentStatus \cup Money
ASSUME CapAssumption == MaxRedemptions \in [Promos -> Nat]
ASSUME AdvanceAssumption == AdvanceTo \subseteq OrderStatus
ASSUME BodiesAssumption ==
  RequestBodies \subseteq
    [tenant : Tenants, key : Keys \cup {None}, total : Nat,
     promo : Promos \cup {None}, phone : Phones \cup {None}]

VARIABLES
  request,         \* the body of each checkout attempt
  phase,           \* where each checkout attempt is
  promoSeen,       \* redeemedCount as the attempt read it
  hold,            \* the payment reference authorize returned
  reply,           \* the order an attempt returned to its client
  at,              \* where each staff caller is
  job,             \* what that caller's transaction loaded and intends
  status, paymentStatus, paymentRef,      \* the orders table
  events, payments,                       \* rows of order_events and payments
  redeemedCount, active,                  \* the promotions table
  points, ledger,                         \* loyalty accounts, ledger rows per order
  notified                                \* notifications handed to the notifier

checkoutVars == <<request, phase, promoSeen, hold, reply>>
staffVars == <<at, job>>
orderVars == <<status, paymentStatus, paymentRef, events, payments>>
promoVars == <<redeemedCount, active>>
loyaltyVars == <<points, ledger>>
providerVars == <<intent, byKey>>
vars == <<checkoutVars, staffVars, orderVars, promoVars, loyaltyVars,
          providerVars, notified>>

Phases == {"new", "pricing", "redeeming", "authorizing", "inserting", "replied", "failed"}
Stages == {"idle", "claiming", "paying", "committing", "notifying"}

Job == [order : Checkouts, from : OrderStatus, pay : PaymentStatus,
        to : OrderStatus, money : Money \cup {None}]

Event == [from : OrderStatus \cup {None}, to : OrderStatus]
PaymentRow == Money \cup {"authorize"}

Placed == {o \in Checkouts : status[o] # None}

CheckoutTypeOK ==
  /\ request \in [Checkouts -> RequestBodies]
  /\ phase \in [Checkouts -> Phases]
  /\ promoSeen \in [Checkouts -> Nat]
  /\ hold \in [Checkouts -> Refs \cup {None}]
  /\ reply \in [Checkouts -> Checkouts \cup {None}]

StaffTypeOK ==
  /\ at \in [Staff -> Stages]
  /\ job \in [Staff -> Job \cup {None}]

OrderTypeOK ==
  /\ status \in [Checkouts -> OrderStatus \cup {None}]
  /\ paymentStatus \in [Checkouts -> PaymentStatus \cup {None}]
  /\ paymentRef \in [Checkouts -> Refs \cup {None}]
  /\ events \in [Checkouts -> Seq(Event)]
  /\ payments \in [Checkouts -> Seq(PaymentRow)]

\* Every column and every local variable holds a value of its type; the
\* provider's answers are mapped to the four payment statuses before they are
\* stored (mapStatus, ck_orders_pay, ck_orders_status).
TypeOK ==
  /\ ProviderTypeOK
  /\ CheckoutTypeOK
  /\ StaffTypeOK
  /\ OrderTypeOK
  /\ redeemedCount \in [Promos -> Nat]
  /\ active \in [Promos -> BOOLEAN]
  /\ points \in [Tenants \X Phones -> Nat]
  /\ ledger \in [Checkouts -> Nat]
  /\ notified \in [Checkouts -> SUBSET OrderStatus]

Init ==
  /\ ProviderInit
  /\ request \in [Checkouts -> RequestBodies]
  /\ phase = [c \in Checkouts |-> "new"]
  /\ promoSeen = [c \in Checkouts |-> 0]
  /\ hold = [c \in Checkouts |-> None]
  /\ reply = [c \in Checkouts |-> None]
  /\ at = [p \in Staff |-> "idle"]
  /\ job = [p \in Staff |-> None]
  /\ status = [o \in Checkouts |-> None]
  /\ paymentStatus = [o \in Checkouts |-> None]
  /\ paymentRef = [o \in Checkouts |-> None]
  /\ events = [o \in Checkouts |-> <<>>]
  /\ payments = [o \in Checkouts |-> <<>>]
  /\ redeemedCount = [m \in Promos |-> 0]
  /\ active = [m \in Promos |-> TRUE]
  /\ points = [a \in Tenants \X Phones |-> 0]
  /\ ledger = [o \in Checkouts |-> 0]
  /\ notified = [o \in Checkouts |-> {}]

-----------------------------------------------------------------------------
(* checkout *)

\* The unique index on (tenant, idempotency key), which ignores null keys.
SameKey(c, d) ==
  /\ request[c].key # None
  /\ request[c].key = request[d].key
  /\ request[c].tenant = request[d].tenant

InFlight(c) == phase[c] \in {"pricing", "redeeming", "authorizing", "inserting"}

\* What the transaction read goes with it.
ForgetReads(c) ==
  /\ promoSeen' = [promoSeen EXCEPT ![c] = 0]
  /\ hold' = [hold EXCEPT ![c] = None]

\* The transaction ends without a commit: a guard, a declined card, a lost
\* connection.  Its row locks go, and so does its redemption.
Fail(c) ==
  /\ phase' = [phase EXCEPT ![c] = "failed"]
  /\ ForgetReads(c)
  /\ UNCHANGED <<request, reply>>

Dedupe(c) ==
  /\ phase[c] = "new"
  /\ \/ \E o \in Placed :
          /\ SameKey(c, o)
          /\ reply' = [reply EXCEPT ![c] = o]
          /\ phase' = [phase EXCEPT ![c] = "replied"]
     \/ /\ \A o \in Placed : ~SameKey(c, o)
        /\ phase' = [phase EXCEPT ![c] = "pricing"]
        /\ UNCHANGED reply
  /\ UNCHANGED <<request, promoSeen, hold, staffVars, orderVars, promoVars,
                 loyaltyVars, providerVars, notified>>

Redeemable(m) == active[m] /\ redeemedCount[m] < MaxRedemptions[m]

\* The menu, minimum, schedule and opening-hours guards, then the promotion's
\* row as it is committed now.
Price(c) ==
  LET m == request[c].promo IN
  /\ phase[c] = "pricing"
  /\ \/ /\ m = None
        /\ phase' = [phase EXCEPT ![c] = "authorizing"]
        /\ UNCHANGED <<request, promoSeen, hold, reply>>
     \/ /\ m # None /\ Redeemable(m)
        /\ promoSeen' = [promoSeen EXCEPT ![c] = redeemedCount[m]]
        /\ phase' = [phase EXCEPT ![c] = "redeeming"]
        /\ UNCHANGED <<request, hold, reply>>
     \/ /\ m # None /\ ~Redeemable(m)
        /\ Fail(c)
  /\ UNCHANGED <<staffVars, orderVars, promoVars, loyaltyVars, providerVars, notified>>

\* Slip: a failed checkout never gives the promotion's row back.
LocksPromoForEver(c, m) ==
  request[c].promo = m /\ phase[c] \in {"authorizing", "inserting", "failed"}

LocksPromo(c, m) ==
  request[c].promo = m /\ phase[c] \in {"authorizing", "inserting"}

\* Slip: the redemption is counted outside the checkout's transaction.
RedeemAtOnce(c) ==
  LET m == request[c].promo IN
  /\ phase[c] = "redeeming"
  /\ redeemedCount' = [redeemedCount EXCEPT ![m] = @ + 1]
  /\ phase' = [phase EXCEPT ![c] = "authorizing"]
  /\ UNCHANGED <<request, promoSeen, hold, reply, staffVars, orderVars, active,
                 loyaltyVars, providerVars, notified>>

\* UPDATE promotions: waits for the row, which the transaction then holds to
\* its end.  The count it will commit is the one it read plus one.
Redeem(c) ==
  /\ phase[c] = "redeeming"
  /\ \A d \in Checkouts : ~LocksPromo(d, request[c].promo)
  /\ phase' = [phase EXCEPT ![c] = "authorizing"]
  /\ UNCHANGED <<request, promoSeen, hold, reply, staffVars, orderVars, promoVars,
                 loyaltyVars, providerVars, notified>>

Authorized(c, ref) ==
  /\ hold' = [hold EXCEPT ![c] = ref]
  /\ phase' = [phase EXCEPT ![c] = "inserting"]
  /\ UNCHANGED <<request, promoSeen, reply>>

Authorize(c) ==
  LET key == request[c].key IN
  /\ phase[c] = "authorizing"
  /\ \/ OpenHold(c, key, request[c].total) /\ Authorized(c, c)
     \/ /\ Remembered(key)
        /\ Authorized(c, byKey[key])
        /\ UNCHANGED providerVars
     \* The gateway took the hold and its answer never arrived.
     \/ /\ Provider = "moyasar"
        /\ OpenHold(c, key, request[c].total)
        /\ Fail(c)
     \* Declined: always possible, certain when there is nothing to hold.
     \/ Fail(c) /\ UNCHANGED providerVars
  /\ UNCHANGED <<staffVars, orderVars, promoVars, loyaltyVars, notified>>

\* Slip: nothing but the first read guards the key.
PlaceWithoutIndex(c) ==
  /\ phase[c] = "inserting"
  /\ phase' = [phase EXCEPT ![c] = "replied"]
  /\ reply' = [reply EXCEPT ![c] = c]
  /\ status' = [status EXCEPT ![c] = "NEW"]
  /\ paymentStatus' = [paymentStatus EXCEPT ![c] = "authorized"]
  /\ paymentRef' = [paymentRef EXCEPT ![c] = hold[c]]
  /\ events' = [events EXCEPT ![c] = <<[from |-> None, to |-> "NEW"]>>]
  /\ payments' = [payments EXCEPT ![c] = <<"authorize">>]
  /\ UNCHANGED <<request, promoSeen, hold, staffVars, promoVars, loyaltyVars,
                 providerVars, notified>>

\* The order, its first event, its payment row and the redemption commit
\* together, unless an order with this key committed meanwhile.
Place(c) ==
  LET m == request[c].promo IN
  /\ phase[c] = "inserting"
  /\ IF \E o \in Placed : SameKey(c, o)
     THEN Fail(c) /\ UNCHANGED <<orderVars, promoVars>>
     ELSE /\ phase' = [phase EXCEPT ![c] = "replied"]
          /\ reply' = [reply EXCEPT ![c] = c]
          /\ status' = [status EXCEPT ![c] = "NEW"]
          /\ paymentStatus' = [paymentStatus EXCEPT ![c] = "authorized"]
          /\ paymentRef' = [paymentRef EXCEPT ![c] = hold[c]]
          /\ events' = [events EXCEPT ![c] = <<[from |-> None, to |-> "NEW"]>>]
          /\ payments' = [payments EXCEPT ![c] = <<"authorize">>]
          /\ redeemedCount' = IF m = None THEN redeemedCount
                              ELSE [redeemedCount EXCEPT ![m] = promoSeen[c] + 1]
          /\ ForgetReads(c)
          /\ UNCHANGED <<request, active>>
  /\ UNCHANGED <<staffVars, loyaltyVars, providerVars, notified>>

\* Any guard, error or lost connection before the commit.
AbandonCheckout(c) ==
  /\ InFlight(c)
  /\ Fail(c)
  /\ UNCHANGED <<staffVars, orderVars, promoVars, loyaltyVars, providerVars, notified>>

\* PromotionService.deactivate: a one-statement transaction that also waits
\* for the row.
Deactivate(m) ==
  /\ active[m]
  /\ \A c \in Checkouts : ~LocksPromo(c, m)
  /\ active' = [active EXCEPT ![m] = FALSE]
  /\ UNCHANGED <<checkoutVars, staffVars, orderVars, redeemedCount, loyaltyVars,
                 providerVars, notified>>

-----------------------------------------------------------------------------
(* transitions *)

\* load and the canTransition guard: an illegal request ends here, unseen.
Load(p, o, to, money) ==
  /\ at[p] = "idle"
  /\ o \in Placed
  /\ canTransition(status[o], to)
  /\ at' = [at EXCEPT ![p] = "claiming"]
  /\ job' = [job EXCEPT ![p] = [order |-> o, from |-> status[o],
                                pay |-> paymentStatus[o], to |-> to, money |-> money]]
  /\ UNCHANGED <<checkoutVars, orderVars, promoVars, loyaltyVars, providerVars, notified>>

accept(p, o) == Load(p, o, "ACCEPTED", "capture")

\* Slip: a rejection that leaves the hold alone.
rejectWithoutVoid(p, o) == Load(p, o, "REJECTED", None)

reject(p, o) == Load(p, o, "REJECTED", "void")

\* Slip: a cancellation that keeps captured funds.
cancelWithoutRefund(p, o) ==
  Load(p, o, "CANCELLED", IF paymentStatus[o] = "captured" THEN None ELSE "void")

cancel(p, o) ==
  Load(p, o, "CANCELLED", IF paymentStatus[o] = "captured" THEN "refund" ELSE "void")

advance(p, o, to) == Load(p, o, to, None)

\* p's transaction has updated the order row and not ended yet.
LocksOrder(p, o) ==
  at[p] \in {"paying", "committing"} /\ job[p].order = o

GoIdle(p) ==
  /\ at' = [at EXCEPT ![p] = "idle"]
  /\ job' = [job EXCEPT ![p] = None]

\* Slip: SELECT and compare instead of an UPDATE that takes the row.
ClaimWithoutLock(p) ==
  LET j == job[p] IN
  /\ at[p] = "claiming"
  /\ IF status[j.order] = j.from
     THEN /\ at' = [at EXCEPT ![p] = IF j.money = None THEN "committing" ELSE "paying"]
          /\ UNCHANGED job
     ELSE GoIdle(p)
  /\ UNCHANGED <<checkoutVars, orderVars, promoVars, loyaltyVars, providerVars, notified>>

\* Slip: UPDATE ... WHERE id = ... only.
ClaimAnyStatus(p) ==
  LET j == job[p] IN
  /\ at[p] = "claiming"
  /\ \A q \in Staff : ~LocksOrder(q, j.order)
  /\ at' = [at EXCEPT ![p] = IF j.money = None THEN "committing" ELSE "paying"]
  /\ UNCHANGED <<job, checkoutVars, orderVars, promoVars, loyaltyVars, providerVars, notified>>

\* UPDATE ... WHERE id = ... AND status = <what was loaded>: waits for the row,
\* then claims the transition or finds that the order changed concurrently.
Claim(p) ==
  LET j == job[p] IN
  /\ at[p] = "claiming"
  /\ \A q \in Staff : ~LocksOrder(q, j.order)
  /\ IF status[j.order] = j.from
     THEN /\ at' = [at EXCEPT ![p] = IF j.money = None THEN "committing" ELSE "paying"]
          /\ UNCHANGED job
     ELSE GoIdle(p)
  /\ UNCHANGED <<checkoutVars, orderVars, promoVars, loyaltyVars, providerVars, notified>>

\* Slip: a refused call is taken for an answer.
PayIgnoringRefusal(p) ==
  LET j == job[p]
      ref == paymentRef[j.order] IN
  /\ at[p] = "paying"
  /\ MoveMoney(ref, j.money) \/ (intent[ref] # StatusBefore(j.money) /\ UNCHANGED providerVars)
  /\ at' = [at EXCEPT ![p] = "committing"]
  /\ UNCHANGED <<job, checkoutVars, orderVars, promoVars, loyaltyVars, notified>>

\* Slip: a refused call is awaited for ever, with the row locked.
PayWithoutRefusal(p) ==
  LET j == job[p] IN
  /\ at[p] = "paying"
  /\ MoveMoney(paymentRef[j.order], j.money)
  /\ at' = [at EXCEPT ![p] = "committing"]
  /\ UNCHANGED <<job, checkoutVars, orderVars, promoVars, loyaltyVars, notified>>

\* The provider call, made while the order row is locked.
Pay(p) ==
  LET j == job[p]
      ref == paymentRef[j.order] IN
  /\ at[p] = "paying"
  /\ \/ /\ MoveMoney(ref, j.money)
        /\ at' = [at EXCEPT ![p] = "committing"]
        /\ UNCHANGED job
     \* The money moved and the answer never arrived: the claim is rolled back.
     \/ /\ Provider = "moyasar"
        /\ MoveMoney(ref, j.money)
        /\ GoIdle(p)
     \* The provider refuses, and the claim is rolled back.
     \/ /\ intent[ref] # StatusBefore(j.money)
        /\ GoIdle(p)
        /\ UNCHANGED providerVars
  /\ UNCHANGED <<checkoutVars, orderVars, promoVars, loyaltyVars, notified>>

\* One point for every whole riyal of a completed order, to a diner who left
\* a phone number.
PointsFor(o) == request[o].total \div 100

Earns(o, to) == to = "COMPLETE" /\ request[o].phone # None /\ PointsFor(o) > 0

NOTIFY_ON == {"ACCEPTED", "READY", "OUT_FOR_DELIVERY", "DELIVERED", "REJECTED", "CANCELLED"}

Notifies(o, to) == to \in NOTIFY_ON /\ request[o].phone # None

Commit(p) ==
  LET j == job[p]
      o == j.order
      account == <<request[o].tenant, request[o].phone>> IN
  /\ at[p] = "committing"
  /\ status' = [status EXCEPT ![o] = j.to]
  /\ events' = [events EXCEPT ![o] = Append(@, [from |-> j.from, to |-> j.to])]
  /\ IF j.money = None
     THEN UNCHANGED <<paymentStatus, payments>>
     ELSE /\ paymentStatus' = [paymentStatus EXCEPT ![o] = MoneyResult(j.money)]
          /\ payments' = [payments EXCEPT ![o] = Append(@, j.money)]
  /\ IF Earns(o, j.to)
     THEN /\ points' = [points EXCEPT ![account] = @ + PointsFor(o)]
          /\ ledger' = [ledger EXCEPT ![o] = @ + 1]
     ELSE UNCHANGED loyaltyVars
  /\ IF Notifies(o, j.to)
     THEN at' = [at EXCEPT ![p] = "notifying"] /\ UNCHANGED job
     ELSE GoIdle(p)
  /\ UNCHANGED <<checkoutVars, paymentRef, promoVars, providerVars, notified>>

\* The order is committed: whether the notifier delivers or throws, nothing is
\* rolled back.
Notify(p) ==
  LET j == job[p] IN
  /\ at[p] = "notifying"
  /\ \/ notified' = [notified EXCEPT ![j.order] = @ \cup {j.to}]
     \/ UNCHANGED notified
  /\ GoIdle(p)
  /\ UNCHANGED <<checkoutVars, orderVars, promoVars, loyaltyVars, providerVars>>

\* Any error or lost connection before the commit rolls the transaction back.
AbandonTransition(p) ==
  /\ at[p] \in {"claiming", "paying", "committing"}
  /\ GoIdle(p)
  /\ UNCHANGED <<checkoutVars, orderVars, promoVars, loyaltyVars, providerVars, notified>>

-----------------------------------------------------------------------------
\* The process stops and starts again: every request in it is gone, the
\* database keeps what was committed.
Restart ==
  /\ phase' = [c \in Checkouts |-> IF InFlight(c) THEN "failed" ELSE phase[c]]
  /\ promoSeen' = [c \in Checkouts |-> 0]
  /\ hold' = [c \in Checkouts |-> None]
  /\ at' = [p \in Staff |-> "idle"]
  /\ job' = [p \in Staff |-> None]
  /\ ProviderRestart
  /\ UNCHANGED <<request, reply, orderVars, promoVars, loyaltyVars, notified>>

CheckoutNext(c) ==
  \/ Dedupe(c)
  \/ Price(c)
  \/ Redeem(c)
  \/ Authorize(c)
  \/ Place(c)
  \/ AbandonCheckout(c)

StaffNext(p) ==
  \/ \E o \in Checkouts : accept(p, o)
  \/ \E o \in Checkouts : reject(p, o)
  \/ \E o \in Checkouts : cancel(p, o)
  \/ \E o \in Checkouts, to \in AdvanceTo : advance(p, o, to)
  \/ Claim(p)
  \/ Pay(p)
  \/ Commit(p)
  \/ Notify(p)
  \/ AbandonTransition(p)

Next ==
  \/ \E c \in Checkouts : CheckoutNext(c)
  \/ \E p \in Staff : StaffNext(p)
  \/ \E m \in Promos : Deactivate(m)
  \/ Restart

Spec == Init /\ [][Next]_vars

\* Each await in the code resolves: the database answers, the gateway answers
\* or fails, and PostgreSQL serves the waiters for a row in turn (hence strong
\* fairness where a step waits for a row).  No request has to be made, and no
\* error, lost connection or restart has to happen.
Fairness ==
  /\ \A c \in Checkouts :
       /\ WF_vars(Dedupe(c))
       /\ WF_vars(Price(c))
       /\ SF_vars(Redeem(c))
       /\ WF_vars(Authorize(c))
       /\ WF_vars(Place(c))
  /\ \A p \in Staff :
       /\ SF_vars(Claim(p))
       /\ WF_vars(Pay(p))
       /\ WF_vars(Commit(p))
       /\ WF_vars(Notify(p))

FairSpec == Spec /\ Fairness

-----------------------------------------------------------------------------
(* properties *)

\* Two transactions never hold a claim on one order, and the row a transaction
\* has claimed is the row it loaded.  The UPDATE compares only the status; this
\* says that the choice between void and refund, made from the payment status
\* that was loaded with it, is still the right one when the money moves
\* (cancel, applyTransition).
ClaimsAreCurrent ==
  \A p \in Staff : at[p] \in {"paying", "committing"} =>
    /\ \A q \in Staff \ {p} : ~LocksOrder(q, job[p].order)
    /\ status[job[p].order] = job[p].from
    /\ paymentStatus[job[p].order] = job[p].pay

\* "Only legal state transitions [...] every transition is audited": the events
\* of an order are one legal walk from its creation to the status it has.
AuditTrailIsLegal ==
  \A o \in Placed :
    LET e == events[o] IN
    /\ Len(e) > 0
    /\ e[1] = [from |-> None, to |-> "NEW"]
    /\ e[Len(e)].to = status[o]
    /\ \A i \in 2..Len(e) : e[i].from = e[i-1].to /\ canTransition(e[i].from, e[i].to)

\* What the money of an order in a given status may look like: its payment
\* status and the rows of the payments table.
MoneyIn(s) ==
  CASE s = "NEW"       -> {<<"authorized", <<"authorize">>>>}
    [] s = "REJECTED"  -> {<<"voided", <<"authorize", "void">>>>}
    [] s = "CANCELLED" -> {<<"voided", <<"authorize", "void">>>>,
                           <<"refunded", <<"authorize", "capture", "refund">>>>}
    [] OTHER           -> {<<"captured", <<"authorize", "capture">>>>}

\* "Accept captures, reject/cancel-before-capture voids, cancel-after-capture
\* refunds": in every committed state the payment rows are the ones the status
\* calls for, each made once.
MoneyFollowsStatus ==
  \A o \in Placed : <<paymentStatus[o], payments[o]>> \in MoneyIn(status[o])

\* The provider runs ahead of the order row by at most the call in flight and
\* never behind it: an order that says its funds were captured, voided or
\* refunded had that done at the provider (transition, after commits, aborts
\* and lost answers).  Only the fake's memory may have been lost since.
Backing(pay) ==
  CASE pay = "authorized" -> {"authorized", "captured", "voided"}
    [] pay = "captured"   -> {"captured", "refunded"}
    [] OTHER              -> {pay}

ProviderBacksOrders ==
  \A o \in Placed :
    \/ intent[paymentRef[o]] \in Backing(paymentStatus[o])
    \/ Provider = "fake" /\ intent[paymentRef[o]] = "none"

\* A diner who was told "you have not been charged" has not been, even when an
\* earlier capture's answer was lost (NOTIFY_ON.REJECTED).
RejectedMeansNotCharged ==
  \A o \in Checkouts : "REJECTED" \in notified[o] =>
    intent[paymentRef[o]] \notin {"captured", "refunded"}

\* No two orders rest on one hold, and money is taken only from the hold of an
\* order that exists: a checkout that failed after authorizing leaves a hold
\* behind, never a charge (checkout's authorize before insert).
HoldsBelongToOrders ==
  /\ \A o, q \in Placed : o # q => paymentRef[o] # paymentRef[q]
  /\ \A r \in Refs : intent[r] \in {"captured", "refunded"} =>
       \E o \in Placed : paymentRef[o] = r

\* Points are awarded once for each completed order and for nothing else: the
\* account of a diner is the sum over that diner's completed orders, with one
\* ledger row each (applyTransition's loyalty block under concurrent callers).
LoyaltyMatchesCompletions ==
  /\ \A o \in Checkouts :
       ledger[o] = IF status[o] = "COMPLETE" /\ Earns(o, "COMPLETE") THEN 1 ELSE 0
  /\ \A t \in Tenants, n \in Phones :
       points[<<t, n>>] =
         MapThenSumSet(PointsFor,
           {o \in Placed : /\ status[o] = "COMPLETE"
                           /\ request[o].tenant = t
                           /\ request[o].phone = n})

\* The notifier is called for a status only after the order has committed it,
\* and at most once for it, whoever else works on the order: a caller about to
\* notify is the only one, and is the first (maybeNotify after the commit).
NotifiedOncePerStatus ==
  /\ \A o \in Checkouts : \A s \in notified[o] :
       \E i \in 1..Len(events[o]) : events[o][i].to = s
  /\ \A p \in Staff : at[p] = "notifying" =>
       /\ job[p].to \notin notified[job[p].order]
       /\ \A q \in Staff \ {p} :
            ~(/\ at[q] = "notifying"
              /\ job[q].order = job[p].order
              /\ job[q].to = job[p].to)

\* "One order per key": of all the attempts that carry a key, at most one makes
\* an order, and every attempt that gets an answer gets that order.
OneOrderPerKey ==
  \A c, d \in Checkouts : SameKey(c, d) =>
    /\ c \in Placed /\ d \in Placed => c = d
    /\ reply[c] # None /\ reply[d] # None => reply[c] = reply[d]

\* The redemption count never runs ahead of the orders that used the code, so a
\* promotion is not refused before its cap is reached (resolvePromo).
RedemptionsNeverOvercount ==
  \A m \in Promos :
    redeemedCount[m] <= Cardinality({o \in Placed : request[o].promo = m})

\* A promotion is redeemed no more often than its cap allows (resolvePromo's
\* "promo fully redeemed").  It does not hold: see the README.
RedemptionCapHolds ==
  \A m \in Promos :
    Cardinality({o \in Placed : request[o].promo = m}) <= MaxRedemptions[m]

\* An order that is still NEW and that nobody is working on can still have its
\* hold released, so that it can be rejected or cancelled.  It does not hold on
\* the gateway adapter: see the README.
NewOrdersAreVoidable ==
  \A o \in Placed :
    (status[o] = "NEW" /\ \A p \in Staff : ~LocksOrder(p, o)) =>
      intent[paymentRef[o]] = "authorized"

\* Every request comes to an end: nobody waits for a row or a claim for ever.
RequestsEnd ==
  /\ \A c \in Checkouts : InFlight(c) ~> phase[c] \in {"replied", "failed"}
  /\ \A p \in Staff : at[p] # "idle" ~> at[p] = "idle"

Lifecycle == INSTANCE OrderLifecycle WITH Orders <- Checkouts

\* The committed rows behave as the one-step machine the class promises.
ImplementsLifecycle == Lifecycle!LSpec

=============================================================================
