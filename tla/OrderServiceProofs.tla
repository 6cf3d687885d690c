------------------------- MODULE OrderServiceProofs -------------------------
(***************************************************************************)
(* Proofs about OrderService for every value of its constants.             *)
(***************************************************************************)
EXTENDS OrderService, TLAPS

\* A caller that is not idle works on an order that exists, by a legal step;
\* only a transition with a money effect calls the provider.
JobsAreLoaded ==
  \A p \in Staff : at[p] # "idle" =>
    /\ job[p] \in Job
    /\ job[p].order \in Placed
    /\ canTransition(job[p].from, job[p].to)
    /\ at[p] = "paying" => job[p].money # None

\* An order row that exists has a payment status, and the other way round.
OrdersAreWhole ==
  \A o \in Checkouts : status[o] = None <=> paymentStatus[o] = None

TypeInv == TypeOK /\ JobsAreLoaded /\ OrdersAreWhole

LEMMA LegalIsOrderStatus ==
  \A s, t : canTransition(s, t) => s \in OrderStatus /\ t \in OrderStatus
  BY DEF canTransition, LEGAL, OrderStatus

\* Updating a function inside its range keeps its type.
LEMMA UpdateKeepsType ==
  ASSUME NEW S, NEW T, NEW f \in [S -> T], NEW x, NEW v \in T
  PROVE  [f EXCEPT ![x] = v] \in [S -> T]
  OBVIOUS

LEMMA InitTypeInv == Init => TypeInv
  <1> SUFFICES ASSUME Init PROVE TypeInv
    OBVIOUS
  <1>1. ProviderTypeOK
    BY DEF Init, ProviderInit, ProviderTypeOK
  <1>2. CheckoutTypeOK
    BY DEF Init, CheckoutTypeOK, Phases
  <1>3. StaffTypeOK
    BY DEF Init, StaffTypeOK, Stages
  <1>4. OrderTypeOK
    BY DEF Init, OrderTypeOK
  <1>5. JobsAreLoaded
    BY DEF Init, JobsAreLoaded
  <1>6. OrdersAreWhole
    BY DEF Init, OrdersAreWhole
  <1>7. QED
    BY <1>1, <1>2, <1>3, <1>4, <1>5, <1>6 DEF Init, TypeInv, TypeOK


LEMMA PointsAreNat == \A n \in Nat : n \div 100 \in Nat
  OBVIOUS

LEMMA CheckoutKeepsTypeInv ==
  ASSUME TypeInv, NEW c \in Checkouts, CheckoutNext(c)
  PROVE  TypeInv'
  <1> USE DEF TypeInv, TypeOK, staffVars, orderVars, promoVars, loyaltyVars, providerVars
  <1>1. request' = request
    BY DEF CheckoutNext, Dedupe, Price, Redeem, Authorize, Authorized, Place,
           AbandonCheckout, Fail
  <1>2. CASE Dedupe(c)
    <2>1. CheckoutTypeOK'
      BY <1>2 DEF Dedupe, CheckoutTypeOK, Phases, Placed
    <2>2. QED
      BY <1>2, <2>1 DEF Dedupe, ProviderTypeOK, StaffTypeOK, OrderTypeOK, JobsAreLoaded, OrdersAreWhole, Placed
  <1>3. CASE Price(c)
    <2> DEFINE m == request[c].promo
    <2>0. m # None => redeemedCount[m] \in Nat
      BY BodiesAssumption DEF CheckoutTypeOK
    <2>1. CheckoutTypeOK'
      <3>1. CASE m = None
        BY <1>3, <3>1 DEF Price, Fail, CheckoutTypeOK, Phases
      <3>2. CASE m # None /\ Redeemable(m)
        BY <1>3, <3>2, <2>0 DEF Price, Fail, CheckoutTypeOK, Phases
      <3>3. CASE m # None /\ ~Redeemable(m)
        BY <1>3, <3>3 DEF Price, Fail, ForgetReads, CheckoutTypeOK, Phases
      <3>4. QED
        BY <3>1, <3>2, <3>3
    <2>2. QED
      BY <1>3, <2>1 DEF Price, ProviderTypeOK, StaffTypeOK, OrderTypeOK, JobsAreLoaded, OrdersAreWhole, Placed
  <1>4. CASE Redeem(c)
    <2>1. CheckoutTypeOK'
      BY <1>4 DEF Redeem, CheckoutTypeOK, Phases
    <2>2. QED
      BY <1>4, <2>1 DEF Redeem, ProviderTypeOK, StaffTypeOK, OrderTypeOK, JobsAreLoaded, OrdersAreWhole, Placed
  <1>5. CASE Authorize(c)
    <2>1. request[c].key \in Keys \cup {None}
      BY BodiesAssumption DEF CheckoutTypeOK
    <2>2. CheckoutTypeOK'
      BY <1>5, <2>1, RefsAssumption
         DEF Authorize, Authorized, Fail, ForgetReads, CheckoutTypeOK, Phases,
             ProviderTypeOK, Remembered
    <2>3. ProviderTypeOK'
      BY <1>5, <2>1, RefsAssumption
         DEF Authorize, OpenHold, ProviderTypeOK, PaymentStatus
    <2>4. QED
      BY <1>5, <2>2, <2>3 DEF Authorize, StaffTypeOK, OrderTypeOK, JobsAreLoaded, OrdersAreWhole, Placed
  <1>6. CASE Place(c)
    <2>1. CheckoutTypeOK'
      BY <1>6 DEF Place, Fail, ForgetReads, CheckoutTypeOK, Phases
    <2>2. OrderTypeOK'
      <3>1. <<[from |-> None, to |-> "NEW"]>> \in Seq(Event)
        BY DEF OrderStatus, Event
      <3>2. <<"authorize">> \in Seq(PaymentRow)
        BY DEF PaymentRow
      <3>3. CASE UNCHANGED orderVars
        BY <3>3 DEF OrderTypeOK
      <3>4. CASE ~UNCHANGED orderVars
        <4>1. status' \in [Checkouts -> OrderStatus \cup {None}]
          BY <1>6, <3>4 DEF Place, OrderTypeOK, OrderStatus
        <4>2. /\ paymentStatus' \in [Checkouts -> PaymentStatus \cup {None}]
              /\ paymentRef' \in [Checkouts -> Refs \cup {None}]
          BY <1>6, <3>4 DEF Place, OrderTypeOK, CheckoutTypeOK, PaymentStatus
        <4>3. events' \in [Checkouts -> Seq(Event)]
          <5>1. events' = [events EXCEPT ![c] = <<[from |-> None, to |-> "NEW"]>>]
            BY <1>6, <3>4, Zenon DEF Place
          <5>2. events \in [Checkouts -> Seq(Event)]
            BY DEF OrderTypeOK
          <5>3. QED
            BY <5>1, <5>2, <3>1, UpdateKeepsType, Zenon
        <4>4. payments' \in [Checkouts -> Seq(PaymentRow)]
          <5>1. payments' = [payments EXCEPT ![c] = <<"authorize">>]
            BY <1>6, <3>4, Zenon DEF Place
          <5>2. payments \in [Checkouts -> Seq(PaymentRow)]
            BY DEF OrderTypeOK
          <5>3. QED
            BY <5>1, <5>2, <3>2, UpdateKeepsType, Zenon
        <4>5. QED
          BY <4>1, <4>2, <4>3, <4>4 DEF OrderTypeOK
      <3>5. QED
        BY <3>3, <3>4
    <2>3. redeemedCount' \in [Promos -> Nat]
      BY <1>6, BodiesAssumption DEF Place, CheckoutTypeOK
    <2>4. JobsAreLoaded'
      BY <1>6, NullsAssumption DEF Place, JobsAreLoaded, Placed, OrderTypeOK, OrderStatus
    <2>5. OrdersAreWhole'
      BY <1>6, NullsAssumption
         DEF Place, OrdersAreWhole, OrderTypeOK, OrderStatus, PaymentStatus
    <2>6. QED
      BY <1>6, <2>1, <2>2, <2>3, <2>4, <2>5 DEF Place, ProviderTypeOK, StaffTypeOK
  <1>7. CASE AbandonCheckout(c)
    <2>1. CheckoutTypeOK'
      BY <1>7 DEF AbandonCheckout, Fail, ForgetReads, CheckoutTypeOK, Phases
    <2>2. QED
      BY <1>7, <2>1
         DEF AbandonCheckout, ProviderTypeOK, StaffTypeOK, OrderTypeOK, JobsAreLoaded, OrdersAreWhole, Placed
  <1>8. QED
    BY <1>2, <1>3, <1>4, <1>5, <1>6, <1>7 DEF CheckoutNext

\* Every request a caller makes is a Load of one of these two shapes.
LEMMA RequestsAreLoads ==
  ASSUME TypeInv, NEW p \in Staff, StaffNext(p)
  PROVE  \/ \E o \in Checkouts, to \in OrderStatus, money \in Money \cup {None} :
              Load(p, o, to, money)
         \/ Claim(p) \/ Pay(p) \/ Commit(p) \/ Notify(p) \/ AbandonTransition(p)
  <1>1. ASSUME NEW o \in Checkouts, accept(p, o)
        PROVE  \E to \in OrderStatus, money \in Money \cup {None} : Load(p, o, to, money)
    BY <1>1 DEF accept, OrderStatus, Money
  <1>2. ASSUME NEW o \in Checkouts, reject(p, o)
        PROVE  \E to \in OrderStatus, money \in Money \cup {None} : Load(p, o, to, money)
    BY <1>2 DEF reject, OrderStatus, Money
  <1>3. ASSUME NEW o \in Checkouts, cancel(p, o)
        PROVE  \E to \in OrderStatus, money \in Money \cup {None} : Load(p, o, to, money)
    <2>1. CASE paymentStatus[o] = "captured"
      BY <1>3, <2>1 DEF cancel, OrderStatus, Money
    <2>2. CASE paymentStatus[o] # "captured"
      BY <1>3, <2>2 DEF cancel, OrderStatus, Money
    <2>3. QED
      BY <2>1, <2>2
  <1>4. ASSUME NEW o \in Checkouts, NEW to \in AdvanceTo, advance(p, o, to)
        PROVE  \E t \in OrderStatus, money \in Money \cup {None} : Load(p, o, t, money)
    BY <1>4, AdvanceAssumption DEF advance
  <1>5. QED
    BY <1>1, <1>2, <1>3, <1>4, Zenon DEF StaffNext

LEMMA MoneyResultIsStatus == \A m \in Money : MoneyResult(m) \in PaymentStatus
  BY DEF Money, MoneyResult, PaymentStatus

LEMMA StaffKeepsTypeInv ==
  ASSUME TypeInv, NEW p \in Staff, StaffNext(p)
  PROVE  TypeInv'
  <1> USE DEF TypeInv, TypeOK, checkoutVars, orderVars, promoVars, loyaltyVars, providerVars
  <1>1. ASSUME NEW o \in Checkouts, NEW to \in OrderStatus, NEW money \in Money \cup {None},
               Load(p, o, to, money)
        PROVE  TypeInv'
    <2> DEFINE j == [order |-> o, from |-> status[o], pay |-> paymentStatus[o],
                     to |-> to, money |-> money]
    <2>1. o \in Placed /\ canTransition(status[o], to) /\ at[p] = "idle"
      BY <1>1 DEF Load
    <2>2. /\ at' = [at EXCEPT ![p] = "claiming"]
          /\ job' = [job EXCEPT ![p] = j]
      BY <1>1 DEF Load
    <2>3. j \in Job
      BY <2>1, NullsAssumption DEF OrderTypeOK, OrdersAreWhole, Placed, Job
    <2>4. StaffTypeOK'
      BY <2>2, <2>3 DEF StaffTypeOK, Stages
    <2>5. JobsAreLoaded'
      <3>1. UNCHANGED status
        BY <1>1 DEF Load
      <3>2. QED
        BY <2>1, <2>2, <2>3, <3>1 DEF JobsAreLoaded, StaffTypeOK, Placed
    <2>6. QED
      BY <1>1, <2>4, <2>5 DEF Load, ProviderTypeOK, CheckoutTypeOK, OrderTypeOK, OrdersAreWhole
  <1>2. CASE Claim(p)
    <2>1. StaffTypeOK'
      BY <1>2 DEF Claim, GoIdle, StaffTypeOK, Stages
    <2>2. JobsAreLoaded'
      BY <1>2 DEF Claim, GoIdle, JobsAreLoaded, StaffTypeOK, Placed
    <2>3. QED
      BY <1>2, <2>1, <2>2
         DEF Claim, ProviderTypeOK, CheckoutTypeOK, OrderTypeOK, OrdersAreWhole
  <1>3. CASE Pay(p)
    <2>1. job[p] \in Job /\ job[p].money \in Money
      BY <1>3 DEF Pay, JobsAreLoaded, Job
    <2>2. StaffTypeOK'
      BY <1>3 DEF Pay, GoIdle, StaffTypeOK, Stages
    <2>3. JobsAreLoaded'
      BY <1>3 DEF Pay, GoIdle, JobsAreLoaded, StaffTypeOK, Placed
    <2>4. ProviderTypeOK'
      <3>1. CASE UNCHANGED providerVars
        BY <3>1 DEF ProviderTypeOK
      <3>2. CASE MoveMoney(paymentRef[job[p].order], job[p].money)
        BY <2>1, <3>2, MoneyResultIsStatus DEF MoveMoney, ProviderTypeOK
      <3>3. QED
        BY <1>3, <3>1, <3>2 DEF Pay
    <2>5. QED
      BY <1>3, <2>2, <2>3, <2>4 DEF Pay, CheckoutTypeOK, OrderTypeOK, OrdersAreWhole
  <1>4. CASE Commit(p)
    <2> DEFINE j == job[p]
               o == job[p].order
               row == [from |-> job[p].from, to |-> job[p].to]
    <2>1. /\ j \in Job /\ o \in Checkouts /\ o \in Placed
          /\ j.to \in OrderStatus /\ j.from \in OrderStatus /\ j.money \in Money \cup {None}
      BY <1>4 DEF Commit, JobsAreLoaded, Job
    <2>2. StaffTypeOK'
      BY <1>4 DEF Commit, GoIdle, StaffTypeOK, Stages
    <2>3. OrderTypeOK'
      <3>1. status' \in [Checkouts -> OrderStatus \cup {None}]
        BY <1>4, <2>1 DEF Commit, OrderTypeOK
      <3>2. paymentStatus' \in [Checkouts -> PaymentStatus \cup {None}]
        <4>1. CASE j.money = None
          BY <1>4, <4>1 DEF Commit, OrderTypeOK
        <4>2. CASE j.money # None
          BY <1>4, <2>1, <4>2, MoneyResultIsStatus DEF Commit, OrderTypeOK
        <4>3. QED
          BY <4>1, <4>2
      <3>3. paymentRef' \in [Checkouts -> Refs \cup {None}]
        BY <1>4 DEF Commit, OrderTypeOK
      <3>4. events' \in [Checkouts -> Seq(Event)]
        <4>1. events' = [events EXCEPT ![o] = Append(events[o], row)]
          BY <1>4, Zenon DEF Commit
        <4>2. events \in [Checkouts -> Seq(Event)] /\ row \in Event
          BY <2>1 DEF OrderTypeOK, Event
        <4>3. Append(events[o], row) \in Seq(Event)
          BY <2>1, <4>2
        <4>4. QED
          BY <4>1, <4>2, <4>3, UpdateKeepsType, Zenon
      <3>5. payments' \in [Checkouts -> Seq(PaymentRow)]
        <4>1. \/ UNCHANGED payments
              \/ /\ j.money # None
                 /\ payments' = [payments EXCEPT ![o] = Append(payments[o], j.money)]
          BY <1>4, Zenon DEF Commit
        <4>2. payments \in [Checkouts -> Seq(PaymentRow)]
          BY DEF OrderTypeOK
        <4>3. j.money # None => Append(payments[o], j.money) \in Seq(PaymentRow)
          BY <2>1, <4>2 DEF PaymentRow
        <4>4. QED
          BY <4>1, <4>2, <4>3, UpdateKeepsType, Zenon
      <3>6. QED
        BY <3>1, <3>2, <3>3, <3>4, <3>5 DEF OrderTypeOK
    <2>4. points' \in [Tenants \X Phones -> Nat] /\ ledger' \in [Checkouts -> Nat]
      <3>1. CASE ~Earns(o, j.to)
        BY <1>4, <3>1 DEF Commit
      <3>2. CASE Earns(o, j.to)
        <4>1. request[o] \in [tenant : Tenants, key : Keys \cup {None}, total : Nat,
                              promo : Promos \cup {None}, phone : Phones \cup {None}]
          BY <2>1, BodiesAssumption DEF CheckoutTypeOK
        <4>2. PointsFor(o) \in Nat
          BY <4>1, PointsAreNat DEF PointsFor
        <4>3. <<request[o].tenant, request[o].phone>> \in Tenants \X Phones
          BY <3>2, <4>1 DEF Earns
        <4>4. /\ points[<<request[o].tenant, request[o].phone>>] + PointsFor(o) \in Nat
              /\ ledger[o] + 1 \in Nat
          BY <2>1, <4>2, <4>3
        <4>5. /\ points' = [points EXCEPT ![<<request[o].tenant, request[o].phone>>] =
                              points[<<request[o].tenant, request[o].phone>>] + PointsFor(o)]
              /\ ledger' = [ledger EXCEPT ![o] = ledger[o] + 1]
          BY <1>4, <3>2, Zenon DEF Commit
        <4>6. points' \in [Tenants \X Phones -> Nat]
          BY <4>4, <4>5, UpdateKeepsType, Zenon
        <4>7. ledger' \in [Checkouts -> Nat]
          BY <4>4, <4>5, UpdateKeepsType, Zenon
        <4>8. QED
          BY <4>6, <4>7
      <3>3. QED
        BY <3>1, <3>2
    <2>5. JobsAreLoaded'
      <3>1. Placed' = Placed
        BY <1>4, <2>1, NullsAssumption DEF Commit, Placed, OrderTypeOK
      <3>2. QED
        BY <1>4, <3>1 DEF Commit, GoIdle, JobsAreLoaded, StaffTypeOK
    <2>6. OrdersAreWhole'
      <3>1. MoneyResult(j.money) # None \/ j.money = None
        BY <2>1, MoneyResultIsStatus, NullsAssumption
      <3>2. QED
        BY <1>4, <2>1, <3>1, NullsAssumption DEF Commit, OrdersAreWhole, OrderTypeOK, Placed
    <2>7. QED
      BY <1>4, <2>2, <2>3, <2>4, <2>5, <2>6 DEF Commit, ProviderTypeOK, CheckoutTypeOK
  <1>5. CASE Notify(p)
    <2>1. job[p] \in Job
      BY <1>5 DEF Notify, JobsAreLoaded
    <2>2. StaffTypeOK'
      BY <1>5 DEF Notify, GoIdle, StaffTypeOK, Stages
    <2>3. JobsAreLoaded'
      BY <1>5 DEF Notify, GoIdle, JobsAreLoaded, StaffTypeOK, Placed
    <2>4. notified' \in [Checkouts -> SUBSET OrderStatus]
      BY <1>5, <2>1 DEF Notify, Job
    <2>5. QED
      BY <1>5, <2>2, <2>3, <2>4
         DEF Notify, ProviderTypeOK, CheckoutTypeOK, OrderTypeOK, OrdersAreWhole
  <1>6. CASE AbandonTransition(p)
    <2>1. StaffTypeOK'
      BY <1>6 DEF AbandonTransition, GoIdle, StaffTypeOK, Stages
    <2>2. JobsAreLoaded'
      BY <1>6 DEF AbandonTransition, GoIdle, JobsAreLoaded, StaffTypeOK, Placed
    <2>3. QED
      BY <1>6, <2>1, <2>2
         DEF AbandonTransition, ProviderTypeOK, CheckoutTypeOK, OrderTypeOK, OrdersAreWhole
  <1>7. QED
    BY <1>1, <1>2, <1>3, <1>4, <1>5, <1>6, RequestsAreLoads

LEMMA NextKeepsTypeInv ==
  ASSUME TypeInv, [Next]_vars
  PROVE  TypeInv'
  <1> USE DEF TypeInv, TypeOK, checkoutVars, staffVars, orderVars, promoVars,
              loyaltyVars, providerVars
  <1>1. CASE \E c \in Checkouts : CheckoutNext(c)
    BY <1>1, CheckoutKeepsTypeInv, Zenon
  <1>2. CASE \E p \in Staff : StaffNext(p)
    BY <1>2, StaffKeepsTypeInv, Zenon
  <1>3. CASE \E m \in Promos : Deactivate(m)
    BY <1>3 DEF Deactivate, ProviderTypeOK, CheckoutTypeOK, StaffTypeOK, OrderTypeOK,
                JobsAreLoaded, OrdersAreWhole, Placed
  <1>4. CASE Restart
    <2>1. ProviderTypeOK'
      BY <1>4 DEF Restart, ProviderRestart, ProviderTypeOK
    <2>2. CheckoutTypeOK'
      BY <1>4 DEF Restart, CheckoutTypeOK, Phases
    <2>3. StaffTypeOK' /\ JobsAreLoaded'
      BY <1>4 DEF Restart, StaffTypeOK, Stages, JobsAreLoaded
    <2>4. QED
      BY <1>4, <2>1, <2>2, <2>3 DEF Restart, OrderTypeOK, OrdersAreWhole
  <1>5. CASE UNCHANGED vars
    BY <1>5 DEF vars, ProviderTypeOK, CheckoutTypeOK, StaffTypeOK, OrderTypeOK,
                JobsAreLoaded, OrdersAreWhole, Placed
  <1>6. QED
    BY <1>1, <1>2, <1>3, <1>4, <1>5 DEF Next

THEOREM TypeInvariance == Spec => []TypeInv
  <1>1. QED
    BY InitTypeInv, NextKeepsTypeInv, PTL DEF Spec

\* Every column and local variable keeps its type, whatever the callers do: the
\* statuses that reach the rows are the ones the tables' checks allow
\* (checkout, applyTransition).
THEOREM TypeCorrect == Spec => []TypeOK
  <1>1. TypeInv => TypeOK
    BY DEF TypeInv
  <1>2. QED
    BY <1>1, TypeInvariance, PTL

=============================================================================
