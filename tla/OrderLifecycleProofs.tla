------------------------ MODULE OrderLifecycleProofs ------------------------
(***************************************************************************)
(* What the optimistic UPDATE of applyTransition buys, proved for every    *)
(* number of callers, orders and checkouts: claims are exclusive and       *)
(* current, the committed rows behave as OrderLifecycle says, and what is  *)
(* written with a status (payments, events, notifications, rewards) agrees *)
(* with it.  Then what checkout's index and transaction buy: one order per *)
(* key and no redemption without an order.  Then, that the money an order  *)
(* speaks of is the money that moved.  Last, what diners earn.             *)
(***************************************************************************)
EXTENDS OrderServiceProofs, SequenceTheorems, FiniteSetTheorems, SumTheorems

\* How far along the lifecycle a status is.  Every legal step goes up, so an
\* order never returns to a status it has left.
Rank ==
  [NEW |-> 0, ACCEPTED |-> 1, PREPARING |-> 2, READY |-> 3, OUT_FOR_DELIVERY |-> 4,
   PICKED_UP |-> 4, DELIVERED |-> 5, COMPLETE |-> 6, REJECTED |-> 7, CANCELLED |-> 7]

Working(p) == at[p] \in {"claiming", "paying", "committing"}

\* An attempt whose identity names an order has returned it, so it will not
\* insert it again.
PlacedByReply == \A o \in Placed : phase[o] = "replied"

\* While a caller works, its order has moved forward from what was loaded or
\* has not moved at all; in the second case its money has not moved either.
SnapshotsAge ==
  \A p \in Staff : Working(p) =>
    LET j == job[p] IN
    /\ Rank[j.from] <= Rank[status[j.order]]
    /\ status[j.order] = j.from => paymentStatus[j.order] = j.pay

\* A claim is exclusive and the claimed row still has the loaded status.
ClaimsAreExclusive ==
  \A p \in Staff : at[p] \in {"paying", "committing"} =>
    /\ \A q \in Staff \ {p} : ~LocksOrder(q, job[p].order)
    /\ status[job[p].order] = job[p].from

\* The money a request moves on the way to a status, given what it loaded.
Fits(to, money, pay) ==
  \/ to = "ACCEPTED" /\ money = "capture"
  \/ to = "REJECTED" /\ money = "void"
  \/ to = "CANCELLED" /\ money = (IF pay = "captured" THEN "refund" ELSE "void")
  \/ to \in AdvanceTo /\ money = None

JobsFit == \A p \in Staff : Working(p) => Fits(job[p].to, job[p].money, job[p].pay)

ClaimInv ==
  /\ PlacedByReply
  /\ SnapshotsAge
  /\ ClaimsAreExclusive
  /\ JobsFit

LEMMA RankType == \A s \in OrderStatus : Rank[s] \in Nat
  BY DEF OrderStatus, Rank

LEMMA TransitionsClimb ==
  ASSUME NEW s, NEW t, canTransition(s, t)
  PROVE  Rank[s] < Rank[t]
  BY DEF canTransition, LEGAL, OrderStatus, Rank

\* A caller's step, with the money its request moves.
LEMMA StaffSteps ==
  ASSUME TypeInv, NEW p \in Staff, StaffNext(p)
  PROVE  \/ \E o \in Checkouts, to \in OrderStatus, money \in Money \cup {None} :
              Load(p, o, to, money) /\ Fits(to, money, paymentStatus[o])
         \/ Claim(p) \/ Pay(p) \/ Commit(p) \/ Notify(p) \/ AbandonTransition(p)
  <1> DEFINE Loads == \E o \in Checkouts, to \in OrderStatus, money \in Money \cup {None} :
                        Load(p, o, to, money) /\ Fits(to, money, paymentStatus[o])
  <1>1. ASSUME NEW o \in Checkouts, accept(p, o) PROVE Loads
    BY <1>1 DEF accept, OrderStatus, Money, Fits
  <1>2. ASSUME NEW o \in Checkouts, reject(p, o) PROVE Loads
    BY <1>2 DEF reject, OrderStatus, Money, Fits
  <1>3. ASSUME NEW o \in Checkouts, cancel(p, o) PROVE Loads
    <2>1. CASE paymentStatus[o] = "captured"
      BY <1>3, <2>1 DEF cancel, OrderStatus, Money, Fits
    <2>2. CASE paymentStatus[o] # "captured"
      BY <1>3, <2>2 DEF cancel, OrderStatus, Money, Fits
    <2>3. QED
      BY <2>1, <2>2
  <1>4. ASSUME NEW o \in Checkouts, NEW to \in AdvanceTo, advance(p, o, to) PROVE Loads
    BY <1>4, AdvanceAssumption DEF advance, Fits
  <1>5. QED
    BY <1>1, <1>2, <1>3, <1>4, Zenon DEF StaffNext

\* Among the steps of callers only Commit writes the orders table.
LEMMA OnlyCommitWrites ==
  ASSUME NEW p \in Staff,
         \/ \E o \in Checkouts, to \in OrderStatus, money \in Money \cup {None} :
              Load(p, o, to, money)
         \/ Claim(p) \/ Pay(p) \/ Notify(p) \/ AbandonTransition(p)
  PROVE  UNCHANGED <<orderVars, loyaltyVars, phase, request>>
  BY DEF Load, Claim, Pay, Notify, AbandonTransition, checkoutVars, orderVars

-----------------------------------------------------------------------------
LEMMA InitClaimInv == Init => ClaimInv
  BY NullsAssumption
     DEF Init, ClaimInv, PlacedByReply, Placed, SnapshotsAge, ClaimsAreExclusive,
         JobsFit, Working

LEMMA CheckoutKeepsClaimInv ==
  ASSUME TypeInv, ClaimInv, NEW c \in Checkouts, CheckoutNext(c)
  PROVE  ClaimInv'
  <1> USE DEF ClaimInv
  <1>1. UNCHANGED staffVars
    BY DEF CheckoutNext, Dedupe, Price, Redeem, Authorize, Place, AbandonCheckout
  <1>2. CASE /\ UNCHANGED <<status, paymentStatus>>
             /\ c \notin Placed
             /\ \A o \in Checkouts \ {c} : phase'[o] = phase[o]
    <2>1. PlacedByReply'
      BY <1>2 DEF PlacedByReply, Placed
    <2>2. SnapshotsAge' /\ ClaimsAreExclusive' /\ JobsFit'
      BY <1>1, <1>2 DEF SnapshotsAge, ClaimsAreExclusive, JobsFit, Working, LocksOrder, staffVars
    <2>3. QED
      BY <2>1, <2>2
  <1>3. CASE /\ Place(c)
             /\ status' = [status EXCEPT ![c] = "NEW"]
             /\ paymentStatus' = [paymentStatus EXCEPT ![c] = "authorized"]
             /\ phase' = [phase EXCEPT ![c] = "replied"]
    <2>1. c \notin Placed
      BY <1>3 DEF Place, PlacedByReply
    <2>2. \A o \in Placed : status'[o] = status[o] /\ paymentStatus'[o] = paymentStatus[o]
      BY <1>3, <2>1 DEF TypeInv, TypeOK, OrderTypeOK, Placed
    <2>3. PlacedByReply'
      BY <1>3 DEF PlacedByReply, Placed, TypeInv, TypeOK, OrderTypeOK, CheckoutTypeOK
    <2>4. \A p \in Staff : at[p] # "idle" => job[p].order \in Placed
      BY DEF TypeInv, JobsAreLoaded
    <2>5. SnapshotsAge'
      BY <1>1, <2>2, <2>4 DEF SnapshotsAge, Working, staffVars
    <2>6. ClaimsAreExclusive' /\ JobsFit'
      BY <1>1, <2>2, <2>4 DEF ClaimsAreExclusive, JobsFit, Working, LocksOrder, staffVars
    <2>7. QED
      BY <2>3, <2>5, <2>6
  <1>4. CASE ~Place(c)
    <2>1. UNCHANGED <<status, paymentStatus>>
      BY <1>4 DEF CheckoutNext, Dedupe, Price, Redeem, Authorize, AbandonCheckout, orderVars
    <2>2. phase[c] # "replied"
      BY <1>4 DEF CheckoutNext, Dedupe, Price, Redeem, Authorize, AbandonCheckout, InFlight
    <2>3. \E x \in Phases : phase' = [phase EXCEPT ![c] = x]
      BY <1>4 DEF CheckoutNext, Dedupe, Price, Redeem, Authorize, Authorized,
                  AbandonCheckout, Fail, Phases
    <2>4. QED
      BY <1>2, <2>1, <2>2, <2>3 DEF PlacedByReply, TypeInv, TypeOK, CheckoutTypeOK
  <1>5. CASE Place(c) /\ \E o \in Placed : SameKey(c, o)
    <2>1. UNCHANGED <<status, paymentStatus>> /\ phase[c] = "inserting"
          /\ phase' = [phase EXCEPT ![c] = "failed"]
      BY <1>5 DEF Place, Fail, orderVars
    <2>2. QED
      BY <1>2, <2>1 DEF PlacedByReply, TypeInv, TypeOK, CheckoutTypeOK
  <1>6. QED
    BY <1>3, <1>4, <1>5 DEF Place

LEMMA StaffKeepsClaimInv ==
  ASSUME TypeInv, ClaimInv, NEW p \in Staff, StaffNext(p)
  PROVE  ClaimInv'
  <1> USE DEF ClaimInv
  <1>0. /\ at \in [Staff -> Stages] /\ job \in [Staff -> Job \cup {None}]
        /\ status \in [Checkouts -> OrderStatus \cup {None}]
        /\ \A q \in Staff : at[q] # "idle" =>
             job[q] \in Job /\ job[q].order \in Checkouts /\ job[q].order \in Placed
    BY DEF TypeInv, TypeOK, StaffTypeOK, OrderTypeOK, JobsAreLoaded, Placed
  <1>1. ASSUME NEW o \in Checkouts, NEW to \in OrderStatus, NEW money \in Money \cup {None},
               Load(p, o, to, money), Fits(to, money, paymentStatus[o])
        PROVE  ClaimInv'
    <2> DEFINE j == [order |-> o, from |-> status[o], pay |-> paymentStatus[o],
                     to |-> to, money |-> money]
    <2>1. /\ UNCHANGED <<status, paymentStatus, phase>>
          /\ at[p] = "idle" /\ status[o] \in OrderStatus
      BY <1>0, <1>1 DEF Load, orderVars, checkoutVars, Placed
    <2>2. at' = [at EXCEPT ![p] = "claiming"] /\ job' = [job EXCEPT ![p] = j]
      BY <1>1, Zenon DEF Load
    <2>3. at'[p] = "claiming" /\ job'[p] = j
      BY <1>0, <2>2
    <2>4. \A q \in Staff \ {p} : at'[q] = at[q] /\ job'[q] = job[q]
      BY <1>0, <2>2
    <2>5. PlacedByReply'
      BY <2>1 DEF PlacedByReply, Placed
    <2>6. SnapshotsAge'
      BY <2>1, <2>3, <2>4, RankType DEF SnapshotsAge, Working
    <2>7. ClaimsAreExclusive'
      BY <2>1, <2>3, <2>4 DEF ClaimsAreExclusive, LocksOrder
    <2>8. JobsFit'
      BY <1>1, <2>3, <2>4 DEF JobsFit, Working
    <2>9. QED
      BY <2>5, <2>6, <2>7, <2>8
  <1>2. CASE Claim(p)
    <2>1. UNCHANGED <<status, paymentStatus, phase>> /\ at[p] = "claiming"
      BY <1>2 DEF Claim, orderVars, checkoutVars
    <2>2. PlacedByReply'
      BY <2>1 DEF PlacedByReply, Placed
    <2>3. CASE status[job[p].order] = job[p].from
      <3>1. /\ UNCHANGED job
            /\ at'[p] \in {"paying", "committing"}
            /\ \A q \in Staff \ {p} : at'[q] = at[q]
            /\ \A q \in Staff : ~LocksOrder(q, job[p].order)
        BY <1>0, <1>2, <2>3 DEF Claim
      <3>2. SnapshotsAge' /\ JobsFit'
        BY <2>1, <3>1 DEF SnapshotsAge, JobsFit, Working
      <3>3. ClaimsAreExclusive'
        BY <2>1, <2>3, <3>1 DEF ClaimsAreExclusive, LocksOrder
      <3>4. QED
        BY <2>2, <3>2, <3>3
    <2>4. CASE status[job[p].order] # job[p].from
      <3>1. GoIdle(p)
        BY <1>2, <2>4 DEF Claim
      <3>2. at'[p] = "idle" /\ \A q \in Staff \ {p} : at'[q] = at[q] /\ job'[q] = job[q]
        BY <1>0, <3>1 DEF GoIdle
      <3>3. SnapshotsAge' /\ ClaimsAreExclusive' /\ JobsFit'
        BY <2>1, <3>2 DEF SnapshotsAge, ClaimsAreExclusive, LocksOrder, JobsFit, Working
      <3>4. QED
        BY <2>2, <3>3
    <2>5. QED
      BY <2>3, <2>4
  <1>3. CASE Pay(p)
    <2>1. UNCHANGED <<status, paymentStatus, phase>> /\ at[p] = "paying"
      BY <1>3 DEF Pay, orderVars, checkoutVars
    <2>2. \/ at' = [at EXCEPT ![p] = "committing"] /\ UNCHANGED job
          \/ GoIdle(p)
      BY <1>3 DEF Pay
    <2>3. /\ \A q \in Staff \ {p} : at'[q] = at[q] /\ job'[q] = job[q]
          /\ at'[p] = "idle" \/ (at'[p] = "committing" /\ job'[p] = job[p])
      BY <1>0, <2>2 DEF GoIdle
    <2>4. PlacedByReply'
      BY <2>1 DEF PlacedByReply, Placed
    <2>5. SnapshotsAge' /\ ClaimsAreExclusive' /\ JobsFit'
      BY <2>1, <2>3 DEF SnapshotsAge, ClaimsAreExclusive, LocksOrder, JobsFit, Working
    <2>6. QED
      BY <2>4, <2>5
  <1>4. CASE Commit(p)
    <2> DEFINE o == job[p].order
    <2>1. /\ at[p] = "committing" /\ o \in Checkouts /\ o \in Placed
          /\ canTransition(job[p].from, job[p].to)
          /\ job[p].from \in OrderStatus /\ job[p].to \in OrderStatus
      BY <1>0, <1>4 DEF Commit, TypeInv, JobsAreLoaded, Job
    <2>2. /\ status' = [status EXCEPT ![o] = job[p].to]
          /\ UNCHANGED phase
          /\ \A a \in Checkouts \ {o} : paymentStatus'[a] = paymentStatus[a]
      BY <1>4 DEF Commit, checkoutVars, TypeInv, TypeOK, OrderTypeOK
    <2>3. /\ \A q \in Staff \ {p} : at'[q] = at[q] /\ job'[q] = job[q]
          /\ at'[p] \in {"idle", "notifying"}
      BY <1>0, <1>4 DEF Commit, GoIdle
    <2>4. PlacedByReply'
      BY <2>1, <2>2, NullsAssumption DEF PlacedByReply, Placed, TypeInv, TypeOK, OrderTypeOK
    <2>5. status[o] = job[p].from /\ Rank[job[p].from] < Rank[job[p].to]
      BY <2>1, TransitionsClimb DEF ClaimsAreExclusive
    <2>6. SnapshotsAge'
      <3> SUFFICES ASSUME NEW q \in Staff, Working(q)'
                   PROVE  /\ Rank[job'[q].from] <= Rank[status'[job'[q].order]]
                          /\ status'[job'[q].order] = job'[q].from =>
                               paymentStatus'[job'[q].order] = job'[q].pay
        BY DEF SnapshotsAge
      <3>1. q # p /\ Working(q) /\ job'[q] = job[q] /\ job[q] \in Job
            /\ job[q].from \in OrderStatus /\ job[q].order \in Checkouts
        BY <1>0, <2>3 DEF Working, Job
      <3>2. CASE job[q].order = o
        <4>1. status'[o] = job[p].to
          BY <1>0, <2>1, <2>2
        <4>2. Rank[job[q].from] <= Rank[job[p].from]
          BY <3>1, <3>2, <2>5 DEF SnapshotsAge
        <4>3. Rank[job[q].from] < Rank[job[p].to]
          BY <4>2, <2>1, <2>5, <3>1, RankType
        <4>4. job[q].from # job[p].to
          BY <4>3, <3>1, RankType
        <4>5. QED
          BY <3>1, <3>2, <4>1, <4>3, <4>4, <2>1, RankType
      <3>3. CASE job[q].order # o
        <4>1. status'[job[q].order] = status[job[q].order]
              /\ paymentStatus'[job[q].order] = paymentStatus[job[q].order]
          BY <1>0, <2>2, <3>1, <3>3
        <4>2. QED
          BY <3>1, <4>1 DEF SnapshotsAge
      <3>4. QED
        BY <3>2, <3>3
    <2>7. ClaimsAreExclusive'
      <3>1. \A q \in Staff \ {p} : at[q] \in {"paying", "committing"} => job[q].order # o
        BY <2>1 DEF ClaimsAreExclusive, LocksOrder
      <3>2. QED
        BY <1>0, <2>2, <2>3, <3>1 DEF ClaimsAreExclusive, LocksOrder
    <2>8. JobsFit'
      BY <2>3 DEF JobsFit, Working
    <2>9. QED
      BY <2>4, <2>6, <2>7, <2>8
  <1>5. CASE Notify(p) \/ AbandonTransition(p)
    <2>1. UNCHANGED <<status, paymentStatus, phase>> /\ GoIdle(p)
      BY <1>5 DEF Notify, AbandonTransition, orderVars, checkoutVars
    <2>2. at'[p] = "idle" /\ \A q \in Staff \ {p} : at'[q] = at[q] /\ job'[q] = job[q]
      BY <1>0, <2>1 DEF GoIdle
    <2>3. PlacedByReply'
      BY <2>1 DEF PlacedByReply, Placed
    <2>4. SnapshotsAge' /\ ClaimsAreExclusive' /\ JobsFit'
      BY <2>1, <2>2 DEF SnapshotsAge, ClaimsAreExclusive, LocksOrder, JobsFit, Working
    <2>5. QED
      BY <2>3, <2>4
  <1>6. QED
    BY <1>1, <1>2, <1>3, <1>4, <1>5, StaffSteps

LEMMA NextKeepsClaimInv ==
  ASSUME TypeInv, ClaimInv, [Next]_vars
  PROVE  ClaimInv'
  <1>1. CASE \E c \in Checkouts : CheckoutNext(c)
    BY <1>1, CheckoutKeepsClaimInv, Zenon
  <1>2. CASE \E p \in Staff : StaffNext(p)
    BY <1>2, StaffKeepsClaimInv, Zenon
  <1>3. CASE (\E m \in Promos : Deactivate(m)) \/ UNCHANGED vars
    BY <1>3 DEF Deactivate, vars, checkoutVars, staffVars, orderVars, ClaimInv, PlacedByReply,
                Placed, SnapshotsAge, ClaimsAreExclusive, LocksOrder, JobsFit, Working
  <1>4. CASE Restart
    <2>1. PlacedByReply'
      BY <1>4 DEF Restart, orderVars, ClaimInv, PlacedByReply, Placed, InFlight,
                  TypeInv, TypeOK, OrderTypeOK
    <2>2. SnapshotsAge' /\ ClaimsAreExclusive' /\ JobsFit'
      BY <1>4 DEF Restart, SnapshotsAge, ClaimsAreExclusive, JobsFit, Working
    <2>3. QED
      BY <2>1, <2>2 DEF ClaimInv
  <1>5. QED
    BY <1>1, <1>2, <1>3, <1>4 DEF Next

THEOREM ClaimInvariance == Spec => [](TypeInv /\ ClaimInv)
  <1>1. Init => TypeInv /\ ClaimInv
    BY InitTypeInv, InitClaimInv
  <1>2. (TypeInv /\ ClaimInv) /\ [Next]_vars => (TypeInv /\ ClaimInv)'
    BY NextKeepsTypeInv, NextKeepsClaimInv
  <1>3. QED
    BY <1>1, <1>2, PTL DEF Spec

\* At most one caller holds a claim on an order, and the row it claimed is the
\* row it loaded, payment status included, although the UPDATE compares only
\* the status: an order never comes back to a status it has left
\* (applyTransition, cancel).
THEOREM ClaimsStayCurrent == Spec => []ClaimsAreCurrent
  <1>1. ClaimInv => ClaimsAreCurrent
    BY DEF ClaimInv, ClaimsAreCurrent, ClaimsAreExclusive, SnapshotsAge, Working
  <1>2. QED
    BY <1>1, ClaimInvariance, PTL

-----------------------------------------------------------------------------
(* The committed rows implement OrderLifecycle. *)

LEMMA CommitIsOneTransition ==
  ASSUME TypeInv, ClaimInv, NEW p \in Staff, Commit(p)
  PROVE  Lifecycle!LNext
  <1> DEFINE o == job[p].order
             to == job[p].to
             money == job[p].money
  <1> USE DEF Lifecycle!Become, Lifecycle!canTransition, Lifecycle!LEGAL,
              Lifecycle!OrderStatus, canTransition, LEGAL, OrderStatus
  <1>1. /\ at[p] = "committing" /\ o \in Checkouts
        /\ canTransition(job[p].from, to)
    BY DEF Commit, TypeInv, JobsAreLoaded, Job
  <1>2. status[o] = job[p].from /\ paymentStatus[o] = job[p].pay
    BY <1>1 DEF ClaimInv, ClaimsAreExclusive, SnapshotsAge, Working
  <1>3. Fits(to, money, paymentStatus[o])
    BY <1>1, <1>2 DEF ClaimInv, JobsFit, Working
  <1>4. /\ canTransition(status[o], to)
        /\ status' = [status EXCEPT ![o] = to]
        /\ IF money = None
           THEN UNCHANGED paymentStatus
           ELSE paymentStatus' = [paymentStatus EXCEPT ![o] = MoneyResult(money)]
    BY <1>1, <1>2 DEF Commit
  <1>5. "capture" # None /\ "void" # None /\ "refund" # None
    BY NullsAssumption DEF Money
  <1>6. CASE to = "ACCEPTED" /\ money = "capture"
    <2>1. Lifecycle!BeAccepted(o)
      BY <1>4, <1>5, <1>6 DEF Lifecycle!BeAccepted, MoneyResult
    <2>2. QED
      BY <1>1, <2>1 DEF Lifecycle!LNext
  <1>7. CASE to = "REJECTED" /\ money = "void"
    <2>1. Lifecycle!BeRejected(o)
      BY <1>4, <1>5, <1>7 DEF Lifecycle!BeRejected, MoneyResult
    <2>2. QED
      BY <1>1, <2>1 DEF Lifecycle!LNext
  <1>8. CASE to = "CANCELLED" /\ money = (IF paymentStatus[o] = "captured" THEN "refund" ELSE "void")
    <2>1. Lifecycle!BeCancelled(o)
      <3>1. CASE paymentStatus[o] = "captured"
        BY <1>4, <1>5, <1>8, <3>1 DEF Lifecycle!BeCancelled, MoneyResult
      <3>2. CASE paymentStatus[o] # "captured"
        BY <1>4, <1>5, <1>8, <3>2 DEF Lifecycle!BeCancelled, MoneyResult
      <3>3. QED
        BY <3>1, <3>2
    <2>2. QED
      BY <1>1, <2>1 DEF Lifecycle!LNext
  <1>9. CASE to \in AdvanceTo /\ money = None
    <2>1. paymentStatus' = [paymentStatus EXCEPT ![o] = paymentStatus[o]]
      BY <1>4, <1>9 DEF TypeInv, TypeOK, OrderTypeOK
    <2>2. Lifecycle!BeAdvanced(o, to)
      BY <1>4, <1>9, <2>1 DEF Lifecycle!BeAdvanced
    <2>3. QED
      BY <1>1, <1>9, <2>2 DEF Lifecycle!LNext
  <1>10. QED
    BY <1>3, <1>6, <1>7, <1>8, <1>9 DEF Fits

LEMMA StepIsOneTransition ==
  ASSUME TypeInv, ClaimInv, [Next]_vars
  PROVE  [Lifecycle!LNext]_(Lifecycle!lifecycleVars)
  <1> USE DEF Lifecycle!lifecycleVars
  <1>1. ASSUME NEW c \in Checkouts, CheckoutNext(c)
        PROVE  Lifecycle!LNext \/ UNCHANGED Lifecycle!lifecycleVars
    <2>1. CASE Place(c) /\ ~(\E o \in Placed : SameKey(c, o))
      <3>1. status[c] = None
        BY <2>1 DEF Place, ClaimInv, PlacedByReply, Placed
      <3>2. Lifecycle!Appear(c)
        BY <2>1, <3>1 DEF Place, Lifecycle!Appear
      <3>3. QED
        BY <3>2 DEF Lifecycle!LNext
    <2>2. CASE Place(c) /\ \E o \in Placed : SameKey(c, o)
      BY <2>2 DEF Place, orderVars
    <2>3. CASE ~Place(c)
      BY <1>1, <2>3
         DEF CheckoutNext, Dedupe, Price, Redeem, Authorize, AbandonCheckout, orderVars
    <2>4. QED
      BY <2>1, <2>2, <2>3
  <1>2. ASSUME NEW p \in Staff, StaffNext(p)
        PROVE  Lifecycle!LNext \/ UNCHANGED Lifecycle!lifecycleVars
    <2>1. Commit(p) \/ UNCHANGED orderVars
      BY <1>2, StaffSteps DEF Load, Claim, Pay, Notify, AbandonTransition
    <2>2. QED
      BY <2>1, CommitIsOneTransition DEF orderVars
  <1>3. CASE (\E m \in Promos : Deactivate(m)) \/ Restart \/ UNCHANGED vars
    BY <1>3 DEF Deactivate, Restart, vars, orderVars
  <1>4. QED
    BY <1>1, <1>2, <1>3 DEF Next

\* The rows of the orders table change as the class comment promises, in one
\* indivisible legal step with its money: whatever callers advance to, however
\* many there are, whatever the provider refuses or fails to answer.
THEOREM ServiceImplementsLifecycle == Spec => ImplementsLifecycle
  <1>1. Init => Lifecycle!LInit
    BY DEF Init, Lifecycle!LInit
  <1>2. TypeInv /\ ClaimInv /\ [Next]_vars => [Lifecycle!LNext]_(Lifecycle!lifecycleVars)
    BY StepIsOneTransition
  <1>3. QED
    BY <1>1, <1>2, ClaimInvariance, PTL DEF Spec, ImplementsLifecycle, Lifecycle!LSpec

-----------------------------------------------------------------------------
(* The rows that follow the status: order_events and payments. *)

\* While none of the callers advances an order to a status that moves money.
AdvanceIsFulfilment == AdvanceTo \cap {"ACCEPTED", "REJECTED", "CANCELLED"} = {}

\* A row added to the payments of an order that has one or two.
LEMMA RowsGrow ==
  ASSUME NEW S, NEW x \in S, NEW y \in S, NEW z \in S
  PROVE  /\ Append(<<x>>, y) = <<x, y>>
         /\ Append(<<x, y>>, z) = <<x, y, z>>
  <1>1. /\ <<x>> \in Seq(S) /\ <<x, y>> \in Seq(S) /\ <<x, y, z>> \in Seq(S)
        /\ Append(<<x>>, y) \in Seq(S) /\ Append(<<x, y>>, z) \in Seq(S)
    OBVIOUS
  <1>2. /\ Len(Append(<<x>>, y)) = Len(<<x, y>>)
        /\ Len(Append(<<x, y>>, z)) = Len(<<x, y, z>>)
    BY <1>1
  <1>3. /\ \A i \in 1..Len(Append(<<x>>, y)) : Append(<<x>>, y)[i] = <<x, y>>[i]
        /\ \A i \in 1..Len(Append(<<x, y>>, z)) : Append(<<x, y>>, z)[i] = <<x, y, z>>[i]
    BY <1>1
  <1>4. QED
    BY <1>1, <1>2, <1>3, SeqEqual

LEMMA RowsOfTwoAndThree ==
  /\ Append(<<"authorize">>, "capture") = <<"authorize", "capture">>
  /\ Append(<<"authorize">>, "void") = <<"authorize", "void">>
  /\ Append(<<"authorize", "capture">>, "refund") = <<"authorize", "capture", "refund">>
  <1>1. /\ "authorize" \in PaymentRow /\ "capture" \in PaymentRow
        /\ "void" \in PaymentRow /\ "refund" \in PaymentRow
    BY DEF PaymentRow, Money
  <1>2. QED
    BY <1>1, RowsGrow

LEMMA MoneyFollowsInit == Init => MoneyFollowsStatus
  BY DEF Init, MoneyFollowsStatus, Placed

LEMMA MoneyFollowsCommit ==
  ASSUME TypeInv, ClaimInv, MoneyFollowsStatus, AdvanceIsFulfilment,
         NEW p \in Staff, Commit(p)
  PROVE  MoneyFollowsStatus'
  <1> DEFINE o == job[p].order
             to == job[p].to
             money == job[p].money
  <1>1. /\ at[p] = "committing" /\ o \in Checkouts /\ o \in Placed
        /\ canTransition(job[p].from, to)
    BY DEF Commit, TypeInv, JobsAreLoaded, Job, Placed
  <1>2. status[o] = job[p].from /\ paymentStatus[o] = job[p].pay
    BY <1>1 DEF ClaimInv, ClaimsAreExclusive, SnapshotsAge, Working
  <1>3. Fits(to, money, paymentStatus[o])
    BY <1>1, <1>2 DEF ClaimInv, JobsFit, Working
  <1>4. /\ canTransition(status[o], to)
        /\ status' = [status EXCEPT ![o] = to]
    BY <1>1, <1>2 DEF Commit
  <1>5. "capture" # None /\ "void" # None /\ "refund" # None
    BY NullsAssumption DEF Money
  <1>6. IF money = None
        THEN UNCHANGED <<paymentStatus, payments>>
        ELSE /\ paymentStatus' = [paymentStatus EXCEPT ![o] = MoneyResult(money)]
             /\ payments' = [payments EXCEPT ![o] = Append(payments[o], money)]
    BY Zenon DEF Commit
  <1>7. /\ status \in [Checkouts -> OrderStatus \cup {None}]
        /\ paymentStatus \in [Checkouts -> PaymentStatus \cup {None}]
        /\ payments \in [Checkouts -> Seq(PaymentRow)]
    BY DEF TypeInv, TypeOK, OrderTypeOK
  <1>8. <<paymentStatus[o], payments[o]>> \in MoneyIn(status[o])
    BY <1>1 DEF MoneyFollowsStatus
  <1>9. <<paymentStatus'[o], payments'[o]>> \in MoneyIn(to)
    <2>1. CASE to = "ACCEPTED" /\ money = "capture"
      <3>1. status[o] = "NEW"
        BY <1>4, <2>1 DEF canTransition, LEGAL, OrderStatus
      <3>2. paymentStatus[o] = "authorized" /\ payments[o] = <<"authorize">>
        BY <1>8, <3>1 DEF MoneyIn
      <3>3. paymentStatus'[o] = "captured" /\ payments'[o] = Append(<<"authorize">>, "capture")
        BY <1>1, <1>5, <1>6, <1>7, <2>1, <3>2 DEF MoneyResult
      <3>4. QED
        BY <2>1, <3>3, RowsOfTwoAndThree DEF MoneyIn
    <2>2. CASE to = "REJECTED" /\ money = "void"
      <3>1. status[o] = "NEW"
        BY <1>4, <2>2 DEF canTransition, LEGAL, OrderStatus
      <3>2. paymentStatus[o] = "authorized" /\ payments[o] = <<"authorize">>
        BY <1>8, <3>1 DEF MoneyIn
      <3>3. paymentStatus'[o] = "voided" /\ payments'[o] = Append(<<"authorize">>, "void")
        BY <1>1, <1>5, <1>6, <1>7, <2>2, <3>2 DEF MoneyResult
      <3>4. QED
        BY <2>2, <3>3, RowsOfTwoAndThree DEF MoneyIn
    <2>3. CASE to = "CANCELLED" /\ money = (IF paymentStatus[o] = "captured" THEN "refund" ELSE "void")
      <3>1. CASE status[o] = "NEW"
        <4>1. paymentStatus[o] = "authorized" /\ payments[o] = <<"authorize">>
          BY <1>8, <3>1 DEF MoneyIn
        <4>2. paymentStatus'[o] = "voided" /\ payments'[o] = Append(<<"authorize">>, "void")
          BY <1>1, <1>5, <1>6, <1>7, <2>3, <4>1 DEF MoneyResult
        <4>3. QED
          BY <2>3, <4>2, RowsOfTwoAndThree DEF MoneyIn
      <3>2. CASE status[o] # "NEW"
        <4>1. status[o] \in {"ACCEPTED", "PREPARING"}
          BY <1>4, <2>3, <3>2 DEF canTransition, LEGAL, OrderStatus
        <4>2. paymentStatus[o] = "captured" /\ payments[o] = <<"authorize", "capture">>
          BY <1>8, <4>1 DEF MoneyIn
        <4>3. /\ paymentStatus'[o] = "refunded"
              /\ payments'[o] = Append(<<"authorize", "capture">>, "refund")
          BY <1>1, <1>5, <1>6, <1>7, <2>3, <4>2 DEF MoneyResult
        <4>4. QED
          BY <2>3, <4>3, RowsOfTwoAndThree DEF MoneyIn
      <3>3. QED
        BY <3>1, <3>2
    <2>4. CASE to \in AdvanceTo /\ money = None
      <3>1. to \notin {"NEW", "ACCEPTED", "REJECTED", "CANCELLED"}
        BY <1>4, <2>4 DEF AdvanceIsFulfilment, canTransition, LEGAL, OrderStatus
      <3>2. status[o] \in OrderStatus \ {"NEW", "REJECTED", "CANCELLED"}
        BY <1>4, <3>1 DEF canTransition, LEGAL, OrderStatus
      <3>3. <<paymentStatus[o], payments[o]>> \in {<<"captured", <<"authorize", "capture">>>>}
        BY <1>8, <3>2 DEF MoneyIn
      <3>4. paymentStatus'[o] = paymentStatus[o] /\ payments'[o] = payments[o]
        BY <1>6, <2>4
      <3>5. QED
        BY <3>1, <3>3, <3>4 DEF MoneyIn
    <2>5. QED
      BY <1>3, <2>1, <2>2, <2>3, <2>4 DEF Fits
  <1>10. \A a \in Placed' : a # o =>
           /\ a \in Placed /\ status'[a] = status[a]
           /\ paymentStatus'[a] = paymentStatus[a] /\ payments'[a] = payments[a]
    BY <1>4, <1>6, <1>7 DEF Placed
  <1>11. status'[o] = to
    BY <1>1, <1>4, <1>7
  <1>12. QED
    BY <1>9, <1>10, <1>11 DEF MoneyFollowsStatus, Placed, MoneyIn

LEMMA MoneyFollowsNext ==
  ASSUME TypeInv, ClaimInv, MoneyFollowsStatus, AdvanceIsFulfilment, [Next]_vars
  PROVE  MoneyFollowsStatus'
  <1>1. ASSUME NEW c \in Checkouts, CheckoutNext(c)
        PROVE  MoneyFollowsStatus'
    <2>1. CASE Place(c) /\ ~(\E o \in Placed : SameKey(c, o))
      <3>1. /\ status' = [status EXCEPT ![c] = "NEW"]
            /\ paymentStatus' = [paymentStatus EXCEPT ![c] = "authorized"]
            /\ payments' = [payments EXCEPT ![c] = <<"authorize">>]
        BY <2>1, Zenon DEF Place
      <3>2. /\ status'[c] = "NEW" /\ paymentStatus'[c] = "authorized"
            /\ payments'[c] = <<"authorize">>
        BY <3>1 DEF TypeInv, TypeOK, OrderTypeOK
      <3>3. \A a \in Placed' : a # c =>
              /\ a \in Placed /\ status'[a] = status[a]
              /\ paymentStatus'[a] = paymentStatus[a] /\ payments'[a] = payments[a]
        BY <3>1 DEF Placed, TypeInv, TypeOK, OrderTypeOK
      <3>4. QED
        BY <3>2, <3>3 DEF MoneyFollowsStatus, Placed, MoneyIn
    <2>2. CASE UNCHANGED orderVars
      BY <2>2 DEF orderVars, MoneyFollowsStatus, Placed, MoneyIn
    <2>3. QED
      BY <1>1, <2>1, <2>2
         DEF CheckoutNext, Dedupe, Price, Redeem, Authorize, AbandonCheckout, Place
  <1>2. ASSUME NEW p \in Staff, StaffNext(p)
        PROVE  MoneyFollowsStatus'
    <2>1. Commit(p) \/ UNCHANGED orderVars
      BY <1>2, StaffSteps DEF Load, Claim, Pay, Notify, AbandonTransition
    <2>2. QED
      BY <2>1, MoneyFollowsCommit DEF orderVars, MoneyFollowsStatus, Placed, MoneyIn
  <1>3. CASE (\E m \in Promos : Deactivate(m)) \/ Restart \/ UNCHANGED vars
    BY <1>3 DEF Deactivate, Restart, vars, orderVars, MoneyFollowsStatus, Placed, MoneyIn
  <1>4. QED
    BY <1>1, <1>2, <1>3 DEF Next

\* As long as advance is used for fulfilment only, the payment rows of every
\* order are the ones its status calls for, each made exactly once: a capture
\* for an accepted order, a void or a refund for one that was called off
\* (applyTransition).
THEOREM MoneyFollows == AdvanceIsFulfilment => (Spec => []MoneyFollowsStatus)
  <1> SUFFICES ASSUME AdvanceIsFulfilment PROVE Spec => []MoneyFollowsStatus
    OBVIOUS
  <1>1. (TypeInv /\ ClaimInv) /\ MoneyFollowsStatus /\ [Next]_vars => MoneyFollowsStatus'
    BY MoneyFollowsNext
  <1>2. QED
    BY <1>1, MoneyFollowsInit, ClaimInvariance, PTL DEF Spec

-----------------------------------------------------------------------------
(* The audit trail, notifications, keys and redemptions. *)

\* One legal walk from the creation of an order to status s.
IsTrail(e, s) ==
  /\ Len(e) > 0
  /\ e[1] = [from |-> None, to |-> "NEW"]
  /\ e[Len(e)].to = s
  /\ \A i \in 2..Len(e) : e[i].from = e[i-1].to /\ canTransition(e[i].from, e[i].to)

LEMMA TrailBegins == IsTrail(<<[from |-> None, to |-> "NEW"]>>, "NEW")
  BY DEF IsTrail

LEMMA TrailGrows ==
  ASSUME NEW e \in Seq(Event), NEW s, NEW t, IsTrail(e, s), canTransition(s, t)
  PROVE  IsTrail(Append(e, [from |-> s, to |-> t]), t)
  <1> DEFINE x == [from |-> s, to |-> t]
             f == Append(e, x)
  <1>1. x \in Event
    BY LegalIsOrderStatus DEF Event
  <1>2. /\ Len(f) = Len(e) + 1 /\ Len(e) \in Nat
        /\ \A i \in 1..Len(e) : f[i] = e[i]
        /\ f[Len(e) + 1] = x
    BY <1>1
  <1> HIDE DEF f, x
  <1>3. x.from = s /\ x.to = t
    BY DEF x
  <1>4. \A i \in 2..Len(f) : f[i].from = f[i-1].to /\ canTransition(f[i].from, f[i].to)
    <2> SUFFICES ASSUME NEW i \in 2..Len(f)
                 PROVE  f[i].from = f[i-1].to /\ canTransition(f[i].from, f[i].to)
      OBVIOUS
    <2>1. CASE i \in 2..Len(e)
      BY <1>2, <2>1 DEF IsTrail
    <2>2. CASE i = Len(e) + 1
      BY <1>2, <1>3, <2>2 DEF IsTrail
    <2>3. QED
      BY <1>2, <2>1, <2>2
  <1>5. IsTrail(f, t)
    BY <1>2, <1>3, <1>4 DEF IsTrail
  <1>6. QED
    BY <1>5 DEF f, x

\* What a commit does to the row and the events of its order.
LEMMA CommitMovesOne ==
  ASSUME TypeInv, ClaimInv, NEW p \in Staff, Commit(p)
  PROVE  LET o == job[p].order
             t == job[p].to IN
         /\ o \in Placed /\ t \in OrderStatus
         /\ canTransition(status[o], t) /\ Rank[status[o]] < Rank[t]
         /\ status'[o] = t
         /\ events'[o] = Append(events[o], [from |-> status[o], to |-> t])
         /\ \A a \in Checkouts : a # o => status'[a] = status[a] /\ events'[a] = events[a]
         /\ Placed' = Placed
  <1>1. at[p] = "committing" /\ job[p] \in Job /\ job[p].order \in Placed
        /\ canTransition(job[p].from, job[p].to)
    BY DEF Commit, TypeInv, JobsAreLoaded
  <1>2. status[job[p].order] = job[p].from
    BY <1>1 DEF ClaimInv, ClaimsAreExclusive
  <1>3. /\ status' = [status EXCEPT ![job[p].order] = job[p].to]
        /\ events' = [events EXCEPT ![job[p].order] =
                        Append(events[job[p].order], [from |-> job[p].from, to |-> job[p].to])]
    BY Zenon DEF Commit
  <1>4. /\ status \in [Checkouts -> OrderStatus \cup {None}]
        /\ events \in [Checkouts -> Seq(Event)]
        /\ job[p].order \in Checkouts /\ job[p].to \in OrderStatus /\ None \notin OrderStatus
    BY <1>1, NullsAssumption DEF TypeInv, TypeOK, OrderTypeOK, Job
  <1>5. Placed' = Placed
    BY <1>1, <1>3, <1>4 DEF Placed
  <1>6. QED
    BY <1>1, <1>2, <1>3, <1>4, <1>5, TransitionsClimb

\* What a checkout does to the orders: nothing, or it places one of its own.
LEMMA CheckoutPlacesOwn ==
  ASSUME TypeInv, ClaimInv, NEW c \in Checkouts, CheckoutNext(c)
  PROVE  \/ UNCHANGED orderVars
         \/ /\ Place(c) /\ c \notin Placed /\ phase[c] = "inserting"
            /\ \A o \in Placed : ~SameKey(c, o)
            /\ status' = [status EXCEPT ![c] = "NEW"]
            /\ events' = [events EXCEPT ![c] = <<[from |-> None, to |-> "NEW"]>>]
            /\ Placed' = Placed \cup {c}
  <1>1. CASE Place(c) /\ ~(\E o \in Placed : SameKey(c, o))
    <2>1. /\ phase[c] = "inserting"
          /\ status' = [status EXCEPT ![c] = "NEW"]
          /\ events' = [events EXCEPT ![c] = <<[from |-> None, to |-> "NEW"]>>]
      BY <1>1, Zenon DEF Place
    <2>2. c \notin Placed
      BY <2>1 DEF ClaimInv, PlacedByReply
    <2>3. "NEW" # None
      BY NullsAssumption DEF OrderStatus
    <2>4. Placed' = Placed \cup {c}
      BY <2>1, <2>3 DEF Placed, TypeInv, TypeOK, OrderTypeOK
    <2>5. QED
      BY <1>1, <2>1, <2>2, <2>4
  <1>2. CASE Place(c) /\ \E o \in Placed : SameKey(c, o)
    BY <1>2 DEF Place
  <1>3. CASE ~Place(c)
    BY <1>3 DEF CheckoutNext, Dedupe, Price, Redeem, Authorize, AbandonCheckout, orderVars
  <1>4. QED
    BY <1>1, <1>2, <1>3

\* Nothing else touches the orders.
LEMMA OrdersStand ==
  ASSUME TypeInv, NEW p \in Staff, StaffNext(p), ~Commit(p)
  PROVE  UNCHANGED orderVars
  BY StaffSteps DEF Load, Claim, Pay, Notify, AbandonTransition

LEMMA TrailInit == Init => AuditTrailIsLegal
  BY DEF Init, AuditTrailIsLegal, Placed

LEMMA TrailNext ==
  ASSUME TypeInv, ClaimInv, AuditTrailIsLegal, [Next]_vars
  PROVE  AuditTrailIsLegal'
  <1> DEFINE Legal == \A o \in Placed : IsTrail(events[o], status[o])
  <1>1. Legal
    BY DEF AuditTrailIsLegal, IsTrail
  <1>2. /\ status \in [Checkouts -> OrderStatus \cup {None}]
        /\ events \in [Checkouts -> Seq(Event)]
        /\ Placed \in SUBSET Checkouts
    BY DEF TypeInv, TypeOK, OrderTypeOK, Placed
  <1>3. ASSUME UNCHANGED orderVars PROVE Legal'
    BY <1>1, <1>3 DEF orderVars, Placed, IsTrail
  <1>4. ASSUME NEW c \in Checkouts, CheckoutNext(c), ~UNCHANGED orderVars
        PROVE  Legal'
    <2>1. /\ status' = [status EXCEPT ![c] = "NEW"]
          /\ events' = [events EXCEPT ![c] = <<[from |-> None, to |-> "NEW"]>>]
          /\ Placed' = Placed \cup {c}
      BY <1>4, CheckoutPlacesOwn
    <2>2. IsTrail(events'[c], status'[c])
      BY <1>2, <2>1, TrailBegins
    <2>3. \A o \in Placed : o # c => events'[o] = events[o] /\ status'[o] = status[o]
      BY <1>2, <2>1
    <2>4. QED
      BY <1>1, <2>1, <2>2, <2>3
  <1>5. ASSUME NEW p \in Staff, Commit(p)
        PROVE  Legal'
    <2> DEFINE o == job[p].order
               t == job[p].to
    <2>1. /\ o \in Placed /\ canTransition(status[o], t) /\ status'[o] = t
          /\ events'[o] = Append(events[o], [from |-> status[o], to |-> t])
          /\ \A a \in Checkouts : a # o => status'[a] = status[a] /\ events'[a] = events[a]
          /\ Placed' = Placed
      BY <1>5, CommitMovesOne
    <2> HIDE DEF o, t
    <2>2. events[o] \in Seq(Event) /\ IsTrail(events[o], status[o])
      BY <1>1, <1>2, <2>1
    <2>3. IsTrail(events'[o], status'[o])
      BY <2>1, <2>2, TrailGrows
    <2>4. QED
      BY <1>1, <1>2, <2>1, <2>3
  <1>6. ASSUME (\E m \in Promos : Deactivate(m)) \/ Restart \/ UNCHANGED vars PROVE UNCHANGED orderVars
    BY <1>6 DEF Deactivate, Restart, vars
  <1>7. Legal'
    <2> HIDE DEF Legal
    <2> QED
      BY <1>3, <1>4, <1>5, <1>6, OrdersStand DEF Next
  <1>8. QED
    BY <1>7 DEF AuditTrailIsLegal, IsTrail

\* Every order's events are one legal walk from NEW to the status it has,
\* however many callers race over it: the row an event is written for is
\* the row that was loaded (applyTransition).
THEOREM TrailIsLegal == Spec => []AuditTrailIsLegal
  <1>1. (TypeInv /\ ClaimInv) /\ AuditTrailIsLegal /\ [Next]_vars => AuditTrailIsLegal'
    BY TrailNext
  <1>2. QED
    BY <1>1, TrailInit, ClaimInvariance, PTL DEF Spec

-----------------------------------------------------------------------------
\* An answer is an order that exists, the attempt's own or one with its key.
RepliesAreOrders ==
  \A c \in Checkouts : reply[c] # None =>
    reply[c] \in Placed /\ (reply[c] = c \/ SameKey(c, reply[c]))

KeysAreTaken == \A c, d \in Placed : SameKey(c, d) => c = d

KeyInv == RepliesAreOrders /\ KeysAreTaken

\* A checkout's step: what it asked for stays, and it answers with an order.
LEMMA CheckoutAnswers ==
  ASSUME TypeInv, ClaimInv, NEW c \in Checkouts, CheckoutNext(c)
  PROVE  /\ request' = request
         /\ \/ UNCHANGED reply
            \/ \E o \in Placed : SameKey(c, o) /\ reply' = [reply EXCEPT ![c] = o]
            \/ c \in Placed' /\ reply' = [reply EXCEPT ![c] = c]
  <1>1. request' = request
    BY DEF CheckoutNext, Dedupe, Price, Redeem, Authorize, Authorized, Place,
           AbandonCheckout, Fail
  <1>2. CASE Dedupe(c)
    BY <1>1, <1>2 DEF Dedupe
  <1>3. CASE Price(c) \/ Redeem(c) \/ Authorize(c) \/ AbandonCheckout(c)
    BY <1>1, <1>3 DEF Price, Redeem, Authorize, Authorized, AbandonCheckout, Fail
  <1>4. CASE Place(c) /\ UNCHANGED orderVars
    BY <1>1, <1>4, CheckoutPlacesOwn, NullsAssumption
       DEF Place, Fail, orderVars, Placed, TypeInv, TypeOK, OrderTypeOK, ClaimInv, PlacedByReply, OrderStatus
  <1>5. CASE Place(c) /\ ~UNCHANGED orderVars
    BY <1>1, <1>5, CheckoutPlacesOwn DEF Place
  <1>6. QED
    BY <1>2, <1>3, <1>4, <1>5 DEF CheckoutNext

LEMMA KeyInit == Init => KeyInv
  BY DEF Init, KeyInv, RepliesAreOrders, KeysAreTaken, Placed

LEMMA KeyNext ==
  ASSUME TypeInv, ClaimInv, KeyInv, [Next]_vars
  PROVE  KeyInv'
  <1>1. ASSUME NEW c \in Checkouts, CheckoutNext(c) PROVE KeyInv'
    <2>1. /\ request' = request
          /\ \/ UNCHANGED reply
             \/ \E o \in Placed : SameKey(c, o) /\ reply' = [reply EXCEPT ![c] = o]
             \/ c \in Placed' /\ reply' = [reply EXCEPT ![c] = c]
      BY <1>1, CheckoutAnswers
    <2>2. \/ Placed' = Placed
          \/ Placed' = Placed \cup {c} /\ \A o \in Placed : ~SameKey(c, o)
      BY <1>1, CheckoutPlacesOwn DEF orderVars, Placed
    <2>3. \A a, b \in Checkouts : SameKey(a, b)' <=> SameKey(a, b)
      BY <2>1 DEF SameKey
    <2>4. Placed \subseteq Placed' /\ Placed' \subseteq Checkouts
      BY <2>2 DEF Placed
    <2>5. RepliesAreOrders'
      <3> SUFFICES ASSUME NEW a \in Checkouts, reply'[a] # None
                   PROVE  reply'[a] \in Placed' /\ (reply'[a] = a \/ SameKey(a, reply'[a]))
        BY <2>1 DEF RepliesAreOrders, SameKey
      <3>1. reply \in [Checkouts -> Checkouts \cup {None}]
        BY DEF TypeInv, TypeOK, CheckoutTypeOK
      <3>2. CASE reply'[a] = reply[a]
        BY <2>4, <3>2 DEF KeyInv, RepliesAreOrders, SameKey
      <3>3. CASE reply'[a] # reply[a]
        BY <2>1, <2>4, <3>1, <3>3 DEF SameKey
      <3>4. QED
        BY <3>2, <3>3
    <2>6. KeysAreTaken'
      BY <2>2, <2>3, <2>4 DEF KeyInv, KeysAreTaken, SameKey
    <2>7. QED
      BY <2>5, <2>6 DEF KeyInv
  <1>2. ASSUME UNCHANGED <<status, request, reply>> \/ (UNCHANGED <<request, reply>> /\ Placed' = Placed)
        PROVE  KeyInv'
    BY <1>2 DEF KeyInv, RepliesAreOrders, KeysAreTaken, SameKey, Placed
  <1>3. ASSUME NEW p \in Staff, StaffNext(p) PROVE KeyInv'
    <2>1. UNCHANGED <<request, reply>>
      BY <1>3, StaffSteps DEF Load, Claim, Pay, Commit, Notify, AbandonTransition, checkoutVars
    <2>2. CASE Commit(p)
      BY <1>2, <2>1, <2>2, CommitMovesOne
    <2>3. CASE ~Commit(p)
      BY <1>2, <1>3, <2>1, <2>3, OrdersStand DEF orderVars
    <2>4. QED
      BY <2>2, <2>3
  <1>4. CASE (\E m \in Promos : Deactivate(m)) \/ Restart \/ UNCHANGED vars
    BY <1>2, <1>4 DEF Deactivate, Restart, vars, checkoutVars, orderVars
  <1>5. QED
    BY <1>1, <1>3, <1>4 DEF Next

\* However many attempts bring a key, and whichever of them passed the first
\* lookup, one order comes of it and every attempt that is answered gets that
\* order (checkout, uq_orders_idem).
THEOREM OneOrder == Spec => []OneOrderPerKey
  <1>1. KeyInv => OneOrderPerKey
    <2> SUFFICES ASSUME KeyInv, NEW c \in Checkouts, NEW d \in Checkouts, SameKey(c, d)
                 PROVE  /\ c \in Placed /\ d \in Placed => c = d
                        /\ reply[c] # None /\ reply[d] # None => reply[c] = reply[d]
      BY DEF OneOrderPerKey
    <2>1. reply[c] # None /\ reply[d] # None => SameKey(reply[c], reply[d]) \/ reply[c] = reply[d]
      BY DEF KeyInv, RepliesAreOrders, SameKey
    <2>2. QED
      BY <2>1 DEF KeyInv, RepliesAreOrders, KeysAreTaken
  <1>2. (TypeInv /\ ClaimInv) /\ KeyInv /\ [Next]_vars => KeyInv'
    BY KeyNext
  <1>3. QED
    BY <1>1, <1>2, KeyInit, ClaimInvariance, PTL DEF Spec

-----------------------------------------------------------------------------
\* The order has had status s, and has not left it for a lower one; a
\* rejection is final.
HasReached(o, s) ==
  /\ o \in Placed /\ s \in OrderStatus
  /\ Rank[s] <= Rank[status[o]]
  /\ \E i \in 1..Len(events[o]) : events[o][i].to = s
  /\ s = "REJECTED" => status[o] = "REJECTED"

NewsIsTrue ==
  /\ \A o \in Checkouts : \A s \in notified[o] : HasReached(o, s)
  /\ \A p \in Staff : at[p] = "notifying" => HasReached(job[p].order, job[p].to)

NewsIsNew ==
  \A p \in Staff : at[p] = "notifying" =>
    /\ job[p].to \notin notified[job[p].order]
    /\ \A q \in Staff \ {p} :
         ~(at[q] = "notifying" /\ job[q].order = job[p].order /\ job[q].to = job[p].to)

NewsInv == NewsIsTrue /\ NewsIsNew

LEMMA NewsInit == Init => NewsInv
  BY DEF Init, NewsInv, NewsIsTrue, NewsIsNew

LEMMA ReachedStays ==
  ASSUME TypeInv, ClaimInv, [Next]_vars, NEW o, NEW s, HasReached(o, s)
  PROVE  HasReached(o, s)'
  <1>1. o \in Checkouts /\ s \in OrderStatus /\ status[o] \in OrderStatus /\ events[o] \in Seq(Event)
    BY DEF HasReached, Placed, TypeInv, TypeOK, OrderTypeOK
  <1>2. ASSUME UNCHANGED <<status, events>> PROVE HasReached(o, s)'
    BY <1>2 DEF HasReached, Placed
  <1>3. ASSUME NEW c \in Checkouts, CheckoutNext(c) PROVE HasReached(o, s)'
    <2>1. CASE UNCHANGED orderVars
      BY <1>2, <2>1 DEF orderVars
    <2>2. CASE ~UNCHANGED orderVars
      <3>1. /\ o \in Placed' /\ o # c
            /\ status'[o] = status[o] /\ events'[o] = events[o]
        BY <1>1, <1>3, <2>2, CheckoutPlacesOwn DEF HasReached, TypeInv, TypeOK, OrderTypeOK
      <3>2. QED
        BY <3>1 DEF HasReached
    <2>3. QED
      BY <2>1, <2>2
  <1>4. ASSUME NEW p \in Staff, Commit(p) PROVE HasReached(o, s)'
    <2> DEFINE a == job[p].order
               t == job[p].to
    <2>1. /\ a \in Placed /\ t \in OrderStatus
          /\ canTransition(status[a], t) /\ Rank[status[a]] < Rank[t]
          /\ status'[a] = t
          /\ events'[a] = Append(events[a], [from |-> status[a], to |-> t])
          /\ \A b \in Checkouts : b # a => status'[b] = status[b] /\ events'[b] = events[b]
          /\ Placed' = Placed
      BY <1>4, CommitMovesOne
    <2> HIDE DEF a, t
    <2>2. CASE a # o
      BY <1>1, <2>1, <2>2 DEF HasReached
    <2>3. CASE a = o
      <3>1. [from |-> status[o], to |-> t] \in Event
        BY <1>1, <2>1 DEF Event
      <3>2. /\ Len(events'[o]) = Len(events[o]) + 1 /\ Len(events[o]) \in Nat
            /\ \A i \in 1..Len(events[o]) : events'[o][i] = events[o][i]
        BY <1>1, <2>1, <2>3, <3>1
      <3>3. \E i \in 1..Len(events'[o]) : events'[o][i].to = s
        BY <3>2 DEF HasReached
      <3>4. Rank[s] <= Rank[t]
        BY <1>1, <2>1, <2>3, RankType DEF HasReached
      <3>5. s # "REJECTED"
        BY <2>1, <2>3 DEF HasReached, canTransition, LEGAL, OrderStatus
      <3>6. QED
        BY <1>1, <2>1, <2>3, <3>3, <3>4, <3>5 DEF HasReached
    <2>4. QED
      BY <2>2, <2>3
  <1>5. ASSUME NEW p \in Staff, StaffNext(p) PROVE HasReached(o, s)'
    BY <1>2, <1>4, <1>5, OrdersStand DEF orderVars
  <1>6. CASE (\E m \in Promos : Deactivate(m)) \/ Restart \/ UNCHANGED vars
    BY <1>2, <1>6 DEF Deactivate, Restart, vars, orderVars
  <1>7. QED
    BY <1>3, <1>5, <1>6 DEF Next

LEMMA StaffKeepsNews ==
  ASSUME TypeInv, ClaimInv, NewsInv, NEW p \in Staff, StaffNext(p)
  PROVE  NewsInv'
  <1>1. /\ at \in [Staff -> Stages] /\ job \in [Staff -> Job \cup {None}]
        /\ notified \in [Checkouts -> SUBSET OrderStatus]
    BY DEF TypeInv, TypeOK, StaffTypeOK
  <1>2. Next
    BY DEF Next
  <1>3. \A o, s : HasReached(o, s) => HasReached(o, s)'
    BY <1>2, ReachedStays
  <1>4. CASE Commit(p)
    <2> SUFFICES ASSUME NEW o, NEW t, o = job[p].order, t = job[p].to
                 PROVE  NewsInv'
      OBVIOUS
    <2>1. /\ o \in Placed /\ o \in Checkouts /\ t \in OrderStatus
          /\ Rank[status[o]] < Rank[t] /\ status[o] \in OrderStatus /\ status'[o] = t
          /\ events'[o] = Append(events[o], [from |-> status[o], to |-> t])
          /\ Placed' = Placed /\ events[o] \in Seq(Event)
      BY <1>4, CommitMovesOne DEF Placed, TypeInv, TypeOK, OrderTypeOK
    <2>2. /\ notified' = notified
          /\ \A q \in Staff \ {p} : at'[q] = at[q] /\ job'[q] = job[q]
          /\ at'[p] = "notifying" => job'[p] = job[p]
      BY <1>1, <1>4 DEF Commit, GoIdle
    <2>3. HasReached(o, t)'
      <3>1. [from |-> status[o], to |-> t] \in Event
        BY <2>1 DEF Event
      <3>2. /\ Len(events'[o]) = Len(events[o]) + 1 /\ Len(events[o]) \in Nat
            /\ events'[o][Len(events[o]) + 1] = [from |-> status[o], to |-> t]
        BY <2>1, <3>1
      <3>3. \E i \in 1..Len(events'[o]) : events'[o][i].to = t
        BY <3>2
      <3>4. QED
        BY <2>1, <3>3, RankType DEF HasReached
    <2>4. ~HasReached(o, t)
      BY <2>1, RankType DEF HasReached
    <2>5. NewsIsTrue'
      BY <1>3, <2>2, <2>3 DEF NewsInv, NewsIsTrue
    <2>6. NewsIsNew'
      BY <2>1, <2>2, <2>4 DEF NewsInv, NewsIsTrue, NewsIsNew
    <2>7. QED
      BY <2>5, <2>6 DEF NewsInv
  <1>5. CASE Notify(p)
    <2>1. /\ at[p] = "notifying" /\ at'[p] = "idle"
          /\ \A q \in Staff \ {p} : at'[q] = at[q] /\ job'[q] = job[q]
      BY <1>1, <1>5 DEF Notify, GoIdle
    <2>2. \A o \in Checkouts : \A s \in notified'[o] :
            s \in notified[o] \/ (o = job[p].order /\ s = job[p].to)
      BY <1>1, <1>5 DEF Notify
    <2>3. NewsIsTrue'
      BY <1>3, <2>1, <2>2 DEF NewsInv, NewsIsTrue
    <2>4. NewsIsNew'
      <3> SUFFICES ASSUME NEW q \in Staff, at'[q] = "notifying"
                   PROVE  /\ job'[q].to \notin notified'[job'[q].order]
                          /\ \A r \in Staff \ {q} :
                               ~(at'[r] = "notifying" /\ job'[r].order = job'[q].order /\ job'[r].to = job'[q].to)
        BY DEF NewsIsNew
      <3>1. q # p /\ at[q] = "notifying" /\ job'[q] = job[q]
        BY <2>1
      <3>2. job[q].order \in Checkouts
        BY <3>1 DEF NewsInv, NewsIsTrue, HasReached, Placed
      <3>3. QED
        BY <2>1, <2>2, <3>1, <3>2 DEF NewsInv, NewsIsNew
    <2>5. QED
      BY <2>3, <2>4 DEF NewsInv
  <1>6. CASE ~Commit(p) /\ ~Notify(p)
    <2>1. /\ notified' = notified
          /\ \A q \in Staff \ {p} : at'[q] = at[q] /\ job'[q] = job[q]
          /\ at'[p] # "notifying"
      <3>1. CASE \E o \in Checkouts, to \in OrderStatus, money \in Money \cup {None} : Load(p, o, to, money)
        BY <1>1, <3>1 DEF Load
      <3>2. CASE Claim(p)
        BY <1>1, <3>2 DEF Claim, GoIdle
      <3>3. CASE Pay(p)
        BY <1>1, <3>3 DEF Pay, GoIdle
      <3>4. CASE AbandonTransition(p)
        BY <1>1, <3>4 DEF AbandonTransition, GoIdle
      <3>5. QED
        BY <1>6, <3>1, <3>2, <3>3, <3>4, StaffSteps
    <2>2. QED
      BY <1>3, <2>1 DEF NewsInv, NewsIsTrue, NewsIsNew
  <1>7. QED
    BY <1>4, <1>5, <1>6

LEMMA NewsNext ==
  ASSUME TypeInv, ClaimInv, NewsInv, [Next]_vars
  PROVE  NewsInv'
  <1>1. \A o, s : HasReached(o, s) => HasReached(o, s)'
    BY ReachedStays
  <1>2. ASSUME NEW c \in Checkouts, CheckoutNext(c) PROVE NewsInv'
    <2>1. UNCHANGED <<staffVars, notified>>
      BY <1>2 DEF CheckoutNext, Dedupe, Price, Redeem, Authorize, Place, AbandonCheckout
    <2>2. QED
      BY <1>1, <2>1 DEF staffVars, NewsInv, NewsIsTrue, NewsIsNew
  <1>3. CASE (\E m \in Promos : Deactivate(m)) \/ UNCHANGED vars
    BY <1>1, <1>3 DEF Deactivate, vars, staffVars, NewsInv, NewsIsTrue, NewsIsNew
  <1>4. CASE Restart
    BY <1>1, <1>4 DEF Restart, NewsInv, NewsIsTrue, NewsIsNew
  <1>5. QED
    BY <1>2, <1>3, <1>4, StaffKeepsNews DEF Next

\* The notifier hears of a status after it was committed and at most once,
\* however many callers move an order on: a status that was told of is never
\* reached a second time (maybeNotify).
THEOREM NotifiedOnce == Spec => []NotifiedOncePerStatus
  <1>1. NewsInv => NotifiedOncePerStatus
    BY DEF NewsInv, NewsIsTrue, NewsIsNew, HasReached, NotifiedOncePerStatus
  <1>2. (TypeInv /\ ClaimInv) /\ NewsInv /\ [Next]_vars => NewsInv'
    BY NewsNext
  <1>3. QED
    BY <1>1, <1>2, NewsInit, ClaimInvariance, PTL DEF Spec

-----------------------------------------------------------------------------
Users(m) == {o \in Placed : request[o].promo = m}

\* Neither the count of a promotion nor what an attempt in flight read of it
\* is more than the orders that used it.
CountInv ==
  \A m \in Promos :
    /\ redeemedCount[m] <= Cardinality(Users(m))
    /\ \A c \in Checkouts :
         phase[c] \in {"redeeming", "authorizing", "inserting"} /\ request[c].promo = m =>
           promoSeen[c] <= Cardinality(Users(m))

LEMMA CountInit == IsFiniteSet(Checkouts) /\ Init => CountInv
  <1> SUFFICES ASSUME Init PROVE CountInv
    OBVIOUS
  <1>1. \A m \in Promos : Users(m) = {}
    BY DEF Init, Users, Placed
  <1>2. \A m \in Promos : Cardinality(Users(m)) = 0
    BY <1>1, FS_EmptySet, Zenon
  <1>3. QED
    BY <1>2 DEF Init, CountInv

\* Users only join: a count that stands, and a fresh reading of it, stay right.
LEMMA CountStays ==
  ASSUME IsFiniteSet(Checkouts), TypeInv, CountInv,
         request' = request, Placed \subseteq Placed', redeemedCount' = redeemedCount,
         \A c \in Checkouts :
           phase'[c] \in {"redeeming", "authorizing", "inserting"} /\ request[c].promo # None =>
             \/ /\ phase[c] \in {"redeeming", "authorizing", "inserting"}
                /\ promoSeen'[c] = promoSeen[c]
             \/ promoSeen'[c] = redeemedCount[request[c].promo]
  PROVE  CountInv'
  <1> SUFFICES ASSUME NEW m \in Promos
               PROVE  /\ redeemedCount'[m] <= Cardinality(Users(m)')
                      /\ \A c \in Checkouts :
                           phase'[c] \in {"redeeming", "authorizing", "inserting"} /\ request[c].promo = m =>
                             promoSeen'[c] <= Cardinality(Users(m)')
    BY DEF CountInv
  <1>1. Users(m) \subseteq Users(m)' /\ IsFiniteSet(Users(m)')
    <2>1. Users(m)' \subseteq Checkouts
      BY DEF Users, Placed
    <2>2. QED
      BY <2>1, FS_Subset DEF Users
  <1>2. /\ Cardinality(Users(m)) <= Cardinality(Users(m)')
        /\ Cardinality(Users(m)) \in Nat /\ Cardinality(Users(m)') \in Nat
    BY <1>1, FS_Subset, FS_CardinalityType
  <1>3. m # None /\ redeemedCount[m] \in Nat /\ \A c \in Checkouts : promoSeen[c] \in Nat
    BY NullsAssumption DEF TypeInv, TypeOK, CheckoutTypeOK
  <1>4. QED
    BY <1>2, <1>3 DEF CountInv

LEMMA CountNext ==
  ASSUME IsFiniteSet(Checkouts), TypeInv, ClaimInv, CountInv, [Next]_vars
  PROVE  CountInv'
  <1> DEFINE Reading == {"redeeming", "authorizing", "inserting"}
  <1>1. /\ phase \in [Checkouts -> Phases] /\ promoSeen \in [Checkouts -> Nat]
        /\ redeemedCount \in [Promos -> Nat]
        /\ \A c \in Checkouts : request[c].promo \in Promos \cup {None}
    BY BodiesAssumption DEF TypeInv, TypeOK, CheckoutTypeOK
  <1>2. \A m \in Promos : m # None
    BY NullsAssumption
  <1>3. ASSUME NEW c \in Checkouts, CheckoutNext(c) PROVE CountInv'
    <2>1. request' = request /\ Placed \subseteq Placed'
      BY <1>3, CheckoutPlacesOwn, CheckoutAnswers DEF orderVars, Placed
    <2>2. CASE Dedupe(c) \/ Redeem(c) \/ Authorize(c) \/ AbandonCheckout(c)
      <3>1. redeemedCount' = redeemedCount
        BY <2>2 DEF Dedupe, Redeem, Authorize, AbandonCheckout, promoVars
      <3>2. \A d \in Checkouts : phase'[d] \in Reading =>
              phase[d] \in Reading /\ promoSeen'[d] = promoSeen[d]
        BY <1>1, <2>2 DEF Dedupe, Redeem, Authorize, Authorized, AbandonCheckout, Fail, ForgetReads
      <3>3. QED
        BY <2>1, <3>1, <3>2, CountStays
    <2>3. CASE Price(c)
      <3>1. redeemedCount' = redeemedCount
        BY <2>3 DEF Price, promoVars
      <3>2. \A d \in Checkouts : d # c => phase'[d] = phase[d] /\ promoSeen'[d] = promoSeen[d]
        BY <1>1, <2>3 DEF Price, Fail, ForgetReads
      <3>3. phase'[c] \in Reading /\ request[c].promo # None =>
              promoSeen'[c] = redeemedCount[request[c].promo]
        BY <1>1, <2>3 DEF Price, Fail, ForgetReads
      <3>4. QED
        BY <2>1, <3>1, <3>2, <3>3, CountStays
    <2>4. CASE Place(c)
      <3> SUFFICES ASSUME NEW m, m = request[c].promo PROVE CountInv'
        OBVIOUS
      <3>1. \A d \in Checkouts : phase'[d] \in Reading =>
              d # c /\ phase[d] \in Reading /\ promoSeen'[d] = promoSeen[d]
        BY <1>1, <2>4 DEF Place, Fail, ForgetReads
      <3>2. CASE redeemedCount' = redeemedCount
        BY <2>1, <3>1, <3>2, CountStays
      <3>3. CASE redeemedCount' # redeemedCount
        <4>1. /\ m # None /\ phase[c] = "inserting"
              /\ redeemedCount' = [redeemedCount EXCEPT ![m] = promoSeen[c] + 1]
          BY <2>4, <3>3 DEF Place, promoVars
        <4>2. c \notin Placed /\ Placed' = Placed \cup {c}
          <5>1. c \notin Placed
            BY <4>1 DEF ClaimInv, PlacedByReply
          <5>2. status' = [status EXCEPT ![c] = "NEW"]
            BY <2>4, <3>3 DEF Place, promoVars
          <5>3. status'[c] # status[c]
            BY <5>1, <5>2, NullsAssumption DEF Placed, TypeInv, TypeOK, OrderTypeOK, OrderStatus
          <5>4. QED
            BY <1>3, <5>1, <5>3, CheckoutPlacesOwn DEF orderVars
        <4>3. c \notin Users(m) /\ Users(m)' = Users(m) \cup {c}
          BY <2>1, <4>2 DEF Users
        <4>4. \A n \in Promos : n # m => Users(n)' = Users(n)
          BY <2>1, <4>2 DEF Users
        <4>5. IsFiniteSet(Users(m)) /\ Cardinality(Users(m)) \in Nat
          <5>1. Users(m) \subseteq Checkouts
            BY DEF Users, Placed
          <5>2. QED
            BY <5>1, FS_Subset, FS_CardinalityType
        <4>6. Cardinality(Users(m)') = Cardinality(Users(m)) + 1
          BY <4>3, <4>5, FS_AddElement
        <4>7. promoSeen[c] <= Cardinality(Users(m)) /\ m \in Promos
          BY <1>1, <4>1 DEF CountInv
        <4>8. redeemedCount'[m] <= Cardinality(Users(m)')
          BY <1>1, <4>1, <4>5, <4>6, <4>7
        <4>9. \A d \in Checkouts : promoSeen[d] <= Cardinality(Users(m)) =>
                promoSeen[d] <= Cardinality(Users(m)')
          BY <1>1, <4>5, <4>6
        <4>10. ASSUME NEW n \in Promos
               PROVE  /\ redeemedCount'[n] <= Cardinality(Users(n)')
                      /\ \A d \in Checkouts :
                           phase'[d] \in Reading /\ request[d].promo = n =>
                             promoSeen'[d] <= Cardinality(Users(n)')
          <5>1. CASE n = m
            BY <3>1, <4>8, <4>9, <5>1 DEF CountInv
          <5>2. CASE n # m
            BY <1>1, <3>1, <4>1, <4>4, <5>2 DEF CountInv
          <5>3. QED
            BY <5>1, <5>2
        <4>11. QED
          BY <2>1, <4>10 DEF CountInv
      <3>4. QED
        BY <3>2, <3>3
    <2>5. QED
      BY <1>3, <2>2, <2>3, <2>4 DEF CheckoutNext
  <1>4. ASSUME NEW p \in Staff, StaffNext(p) PROVE CountInv'
    <2>1. UNCHANGED <<request, phase, promoSeen, redeemedCount>>
      BY <1>4, StaffSteps DEF Load, Claim, Pay, Commit, Notify, AbandonTransition, checkoutVars, promoVars
    <2>2. Placed \subseteq Placed'
      BY <1>4, CommitMovesOne, OrdersStand DEF orderVars, Placed
    <2>3. QED
      BY <2>1, <2>2, CountStays
  <1>5. CASE (\E m \in Promos : Deactivate(m)) \/ UNCHANGED vars
    <2>1. UNCHANGED <<request, phase, promoSeen, redeemedCount, status>>
      BY <1>5 DEF Deactivate, vars, checkoutVars, promoVars, orderVars
    <2>2. QED
      BY <2>1, CountStays DEF Placed
  <1>6. CASE Restart
    <2>1. UNCHANGED <<request, redeemedCount, status>>
      BY <1>6 DEF Restart, promoVars, orderVars
    <2>2. \A c \in Checkouts : phase'[c] \notin Reading
      BY <1>1, <1>6 DEF Restart, InFlight, Phases
    <2>3. QED
      BY <2>1, <2>2, CountStays DEF Placed
  <1>7. QED
    BY <1>3, <1>4, <1>5, <1>6 DEF Next

\* A promotion's count never runs ahead of the orders that used it, so no code
\* is refused before its cap is reached: a redemption commits with its order
\* or not at all, whatever the attempt had read (checkout, resolvePromo).
THEOREM NoOvercount == IsFiniteSet(Checkouts) => (Spec => []RedemptionsNeverOvercount)
  <1> SUFFICES ASSUME IsFiniteSet(Checkouts) PROVE Spec => []RedemptionsNeverOvercount
    OBVIOUS
  <1>1. CountInv => RedemptionsNeverOvercount
    BY DEF CountInv, Users, RedemptionsNeverOvercount
  <1>2. (TypeInv /\ ClaimInv) /\ CountInv /\ [Next]_vars => CountInv'
    BY CountNext
  <1>3. Init => CountInv
    BY CountInit
  <1>4. QED
    BY <1>1, <1>2, <1>3, ClaimInvariance, PTL DEF Spec

-----------------------------------------------------------------------------
(* The provider and the orders. *)

\* The fake remembers keys without their tenant. Diners of different tenants
\* do not bring the same key.
KeysTellTenants ==
  Provider = "fake" =>
    \A b, d \in RequestBodies : b.key # None /\ b.key = d.key => b.tenant = d.tenant

\* An attempt may rest on the hold it opened or, on the fake, on the one that
\* an attempt with its key opened.
MayRestOn(c, r) ==
  \/ r = c
  \/ Provider = "fake" /\ request[c].key # None /\ request[r].key = request[c].key

\* An attempt that has not authorized yet: the next hold under its name would
\* be its first.
BeforeHold(c) == phase[c] \in {"new", "pricing", "redeeming", "authorizing"}

HoldsAreOwn ==
  /\ \A k \in Keys : byKey[k] # None =>
       /\ Provider = "fake" /\ ~BeforeHold(byKey[k])
       /\ request[byKey[k]].key = k /\ intent[byKey[k]] # "none"
  /\ \A c \in Checkouts : phase[c] = "inserting" =>
       /\ hold[c] \in Checkouts /\ ~BeforeHold(hold[c])
       /\ MayRestOn(c, hold[c]) /\ intent[hold[c]] # "none"
  /\ \A o \in Placed :
       paymentRef[o] \in Checkouts /\ ~BeforeHold(paymentRef[o]) /\ MayRestOn(o, paymentRef[o])

\* Money is taken only from the hold of an order.
OthersAreHeld ==
  \A r \in Checkouts :
    (\A o \in Placed : paymentRef[o] # r) => intent[r] \in {"none", "authorized"}

\* The provider is level with the row, or one call ahead of it, or has
\* forgotten the payment.
Forgotten == IF Provider = "fake" THEN {"none"} ELSE {}

FundsAreBacked ==
  /\ \A o \in Placed : intent[paymentRef[o]] \in Backing(paymentStatus[o]) \cup Forgotten
  /\ \A p \in Staff : at[p] = "committing" /\ job[p].money # None =>
       intent[paymentRef[job[p].order]] = MoneyResult(job[p].money)

BackInv == HoldsAreOwn /\ OthersAreHeld /\ FundsAreBacked

LEMMA BackInit == Init => BackInv
  BY RefsAssumption
     DEF Init, ProviderInit, BackInv, HoldsAreOwn, OthersAreHeld, FundsAreBacked, Placed

\* Two attempts that may rest on one hold have the same key.
LEMMA RestingTogether ==
  ASSUME TypeInv, KeysTellTenants, NEW c \in Checkouts, NEW d \in Checkouts, c # d,
         NEW r, MayRestOn(c, r), MayRestOn(d, r)
  PROVE  SameKey(c, d)
  <1>1. request[c] \in RequestBodies /\ request[d] \in RequestBodies
    BY DEF TypeInv, TypeOK, CheckoutTypeOK
  <1>2. Provider = "fake" /\ request[c].key # None /\ request[c].key = request[d].key
    BY DEF MayRestOn
  <1>3. QED
    BY <1>1, <1>2 DEF KeysTellTenants, SameKey

\* So orders, which have keys of their own, have holds of their own.
LEMMA HoldsDiffer ==
  ASSUME TypeInv, KeyInv, KeysTellTenants, HoldsAreOwn
  PROVE  \A o, q \in Placed : o # q => paymentRef[o] # paymentRef[q]
  BY RestingTogether DEF HoldsAreOwn, KeyInv, KeysAreTaken, Placed

LEMMA AuthorizingKeepsBacked ==
  ASSUME TypeInv, ClaimInv, BackInv, NEW c \in Checkouts, Authorize(c),
         OpenHold(c, request[c].key, request[c].total), Authorized(c, c) \/ Fail(c)
  PROVE  BackInv'
  <1>1. /\ intent \in [Checkouts -> PaymentStatus \cup {"none"}]
        /\ byKey \in [Keys -> Checkouts \cup {None}]
        /\ phase \in [Checkouts -> Phases] /\ hold \in [Checkouts -> Checkouts \cup {None}]
        /\ request[c].key \in Keys \cup {None} /\ None \notin Checkouts
    BY RefsAssumption, NoneAssumption, BodiesAssumption DEF TypeInv, TypeOK, ProviderTypeOK, CheckoutTypeOK
  <1>2. /\ phase[c] = "authorizing" /\ UNCHANGED <<orderVars, staffVars, request>>
        /\ \A d \in Checkouts : d # c => phase'[d] = phase[d] /\ hold'[d] = hold[d] /\ intent'[d] = intent[d]
        /\ (phase'[c] = "inserting" /\ hold'[c] = c) \/ phase'[c] = "failed"
        /\ intent'[c] = "authorized"
    BY <1>1 DEF Authorize, OpenHold, Authorized, Fail, ForgetReads
  <1>3. \A d \in Checkouts : BeforeHold(d)' <=> BeforeHold(d) /\ d # c
    BY <1>1, <1>2 DEF BeforeHold
  <1>4. BeforeHold(c)
    BY <1>2 DEF BeforeHold
  <1>5. Placed' = Placed /\ Placed \subseteq Checkouts
    BY <1>2 DEF orderVars, Placed
  <1>6. HoldsAreOwn'
    <2>1. ASSUME NEW k \in Keys, byKey'[k] # None
          PROVE  /\ Provider = "fake" /\ ~BeforeHold(byKey[k])'
                 /\ request'[byKey'[k]].key = k /\ intent'[byKey'[k]] # "none"
      <3>1. CASE byKey'[k] = byKey[k]
        <4>1. byKey[k] \in Checkouts /\ byKey[k] # c
          BY <1>1, <1>4, <2>1, <3>1 DEF BackInv, HoldsAreOwn
        <4>2. QED
          BY <1>2, <1>3, <2>1, <3>1, <4>1 DEF BackInv, HoldsAreOwn
      <3>2. CASE byKey'[k] # byKey[k]
        <4>1. Provider = "fake" /\ k = request[c].key /\ byKey'[k] = c
          BY <1>1, <3>2 DEF OpenHold
        <4>2. QED
          BY <1>2, <1>3, <4>1
      <3>3. QED
        BY <3>1, <3>2
    <2>2. ASSUME NEW d \in Checkouts, phase'[d] = "inserting"
          PROVE  /\ hold'[d] \in Checkouts /\ ~BeforeHold(hold[d])'
                 /\ MayRestOn(d, hold[d])' /\ intent'[hold'[d]] # "none"
      <3>1. CASE d = c
        BY <1>2, <1>3, <2>2, <3>1 DEF MayRestOn
      <3>2. CASE d # c
        <4>1. hold'[d] = hold[d] /\ hold[d] \in Checkouts /\ hold[d] # c /\ phase[d] = "inserting"
          BY <1>2, <1>4, <2>2, <3>2 DEF BackInv, HoldsAreOwn
        <4>2. QED
          BY <1>2, <1>3, <4>1 DEF BackInv, HoldsAreOwn, MayRestOn
      <3>3. QED
        BY <3>1, <3>2
    <2>3. ASSUME NEW o \in Placed
          PROVE  paymentRef'[o] \in Checkouts /\ ~BeforeHold(paymentRef[o])' /\ MayRestOn(o, paymentRef[o])'
      BY <1>2, <1>3 DEF orderVars, BackInv, HoldsAreOwn, MayRestOn
    <2>4. QED
      BY <1>5, <2>1, <2>2, <2>3 DEF HoldsAreOwn
  <1>7. \A o \in Placed : paymentRef'[o] = paymentRef[o] /\ intent'[paymentRef[o]] = intent[paymentRef[o]]
    BY <1>2, <1>4 DEF orderVars, BackInv, HoldsAreOwn
  <1>8. OthersAreHeld'
    BY <1>1, <1>2, <1>5, <1>7 DEF BackInv, OthersAreHeld
  <1>9. FundsAreBacked'
    <2>1. \A p \in Staff : at[p] = "committing" => job[p].order \in Placed
      BY DEF TypeInv, JobsAreLoaded
    <2>2. QED
      BY <1>2, <1>5, <1>7, <2>1 DEF orderVars, staffVars, BackInv, FundsAreBacked
  <1>10. QED
    BY <1>6, <1>8, <1>9 DEF BackInv

LEMMA CheckoutKeepsBacked ==
  ASSUME KeysTellTenants, TypeInv, ClaimInv, BackInv, NEW c \in Checkouts, CheckoutNext(c)
  PROVE  BackInv'
  <1>1. /\ intent \in [Checkouts -> PaymentStatus \cup {"none"}]
        /\ byKey \in [Keys -> Checkouts \cup {None}]
        /\ phase \in [Checkouts -> Phases] /\ hold \in [Checkouts -> Checkouts \cup {None}]
        /\ status \in [Checkouts -> OrderStatus \cup {None}]
        /\ paymentStatus \in [Checkouts -> PaymentStatus \cup {None}]
        /\ paymentRef \in [Checkouts -> Checkouts \cup {None}]
        /\ request[c].key \in Keys \cup {None}
    BY RefsAssumption, BodiesAssumption DEF TypeInv, TypeOK, ProviderTypeOK, CheckoutTypeOK, OrderTypeOK
  <1>2. UNCHANGED staffVars /\ \A p \in Staff : at[p] = "committing" => job[p].order \in Placed
    BY DEF CheckoutNext, Dedupe, Price, Redeem, Authorize, Place, AbandonCheckout,
           TypeInv, JobsAreLoaded
  <1>3. UNCHANGED request
    BY CheckoutAnswers
  <1>4. ASSUME UNCHANGED <<orderVars, providerVars>>,
               \A d \in Checkouts : BeforeHold(d)' => BeforeHold(d),
               \A d \in Checkouts : phase'[d] = "inserting" => phase[d] = "inserting" /\ hold'[d] = hold[d]
        PROVE  BackInv'
    <2>1. UNCHANGED <<intent, byKey, status, paymentStatus, paymentRef, Placed>>
      BY <1>4 DEF orderVars, providerVars, Placed
    <2>2. HoldsAreOwn'
      <3>1. \A k \in Keys : byKey[k] # None => byKey[k] \in Checkouts
        BY <1>1
      <3>2. QED
        BY <1>3, <1>4, <2>1, <3>1 DEF BackInv, HoldsAreOwn, MayRestOn
    <2>3. OthersAreHeld'
      BY <2>1 DEF BackInv, OthersAreHeld
    <2>4. FundsAreBacked'
      BY <1>2, <2>1 DEF staffVars, BackInv, FundsAreBacked
    <2>5. QED
      BY <2>2, <2>3, <2>4 DEF BackInv
  <1>5. CASE Dedupe(c) \/ Price(c) \/ Redeem(c) \/ AbandonCheckout(c)
    <2>1. /\ \A d \in Checkouts : phase'[d] = "inserting" => phase[d] = "inserting" /\ hold'[d] = hold[d]
          /\ \A d \in Checkouts : BeforeHold(d)' => BeforeHold(d)
      BY <1>1, <1>5 DEF Dedupe, Price, Redeem, AbandonCheckout, Fail, ForgetReads, Phases, BeforeHold
    <2>2. UNCHANGED <<orderVars, providerVars>>
      BY <1>5 DEF Dedupe, Price, Redeem, AbandonCheckout
    <2>3. QED
      BY <1>4, <2>1, <2>2
  <1>6. CASE Authorize(c)
    <2>1. phase[c] = "authorizing" /\ UNCHANGED orderVars
      BY <1>6 DEF Authorize
    <2>2. CASE OpenHold(c, request[c].key, request[c].total) /\ (Authorized(c, c) \/ Fail(c))
      BY <1>6, <2>2, AuthorizingKeepsBacked
    <2>3. CASE Remembered(request[c].key) /\ Authorized(c, byKey[request[c].key]) /\ UNCHANGED providerVars
      <3> SUFFICES ASSUME NEW r, r = byKey[request[c].key] PROVE BackInv'
        OBVIOUS
      <3>1. /\ r \in Checkouts /\ ~BeforeHold(r) /\ intent[r] # "none"
            /\ MayRestOn(c, r)
        BY <1>1, <2>3 DEF Remembered, BackInv, HoldsAreOwn, MayRestOn
      <3>2. /\ phase' = [phase EXCEPT ![c] = "inserting"] /\ hold' = [hold EXCEPT ![c] = r]
            /\ UNCHANGED <<intent, byKey, status, paymentStatus, paymentRef, Placed>>
        BY <2>1, <2>3 DEF Authorized, orderVars, providerVars, Placed
      <3>3. \A d \in Checkouts : BeforeHold(d)' => BeforeHold(d)
        BY <1>1, <2>1, <3>2 DEF BeforeHold
      <3>4. HoldsAreOwn'
        <4>1. \A k \in Keys : byKey[k] # None => byKey[k] \in Checkouts
          BY <1>1
        <4>2. \A d \in Checkouts : phase'[d] = "inserting" =>
                IF d = c THEN hold'[d] = r ELSE phase[d] = "inserting" /\ hold'[d] = hold[d]
          BY <1>1, <3>2
        <4>3. QED
          BY <1>3, <3>1, <3>2, <3>3, <4>1, <4>2 DEF BackInv, HoldsAreOwn, MayRestOn
      <3>5. OthersAreHeld' /\ FundsAreBacked'
        BY <1>2, <3>2 DEF staffVars, BackInv, OthersAreHeld, FundsAreBacked
      <3>6. QED
        BY <3>4, <3>5 DEF BackInv
    <2>4. CASE Fail(c) /\ UNCHANGED providerVars
      <3>1. /\ \A d \in Checkouts : phase'[d] = "inserting" => phase[d] = "inserting" /\ hold'[d] = hold[d]
            /\ \A d \in Checkouts : BeforeHold(d)' => BeforeHold(d)
        BY <1>1, <2>4 DEF Fail, ForgetReads, BeforeHold
      <3>2. QED
        BY <1>4, <2>1, <2>4, <3>1
    <2>5. QED
      BY <1>6, <2>2, <2>3, <2>4 DEF Authorize
  <1>7. CASE Place(c)
    <2>1. UNCHANGED providerVars
      BY <1>7 DEF Place
    <2>2. /\ \A d \in Checkouts : phase'[d] = "inserting" => phase[d] = "inserting" /\ hold'[d] = hold[d]
          /\ \A d \in Checkouts : BeforeHold(d)' => BeforeHold(d)
      BY <1>1, <1>7 DEF Place, Fail, ForgetReads, BeforeHold
    <2>3. CASE UNCHANGED orderVars
      BY <1>4, <2>1, <2>2, <2>3
    <2>4. CASE ~UNCHANGED orderVars
      <3> SUFFICES ASSUME NEW r, r = hold[c] PROVE BackInv'
        OBVIOUS
      <3>1. /\ c \notin Placed /\ phase[c] = "inserting" /\ Placed' = Placed \cup {c}
            /\ \A o \in Placed : ~SameKey(c, o)
        BY <1>7, <2>4, CheckoutPlacesOwn
      <3>2. /\ paymentRef' = [paymentRef EXCEPT ![c] = r]
            /\ paymentStatus' = [paymentStatus EXCEPT ![c] = "authorized"]
        BY <1>7, <2>4 DEF Place
      <3>3. r \in Checkouts /\ ~BeforeHold(r) /\ MayRestOn(c, r) /\ intent[r] # "none"
        BY <3>1 DEF BackInv, HoldsAreOwn
      <3>4. \A o \in Placed : paymentRef[o] # r
        BY <3>1, <3>3, RestingTogether DEF BackInv, HoldsAreOwn, Placed
      <3>5. intent[r] = "authorized"
        BY <3>3, <3>4 DEF BackInv, OthersAreHeld
      <3>6. /\ paymentRef'[c] = r /\ paymentStatus'[c] = "authorized"
            /\ \A o \in Placed : paymentRef'[o] = paymentRef[o] /\ paymentStatus'[o] = paymentStatus[o]
            /\ UNCHANGED <<intent, byKey>>
        BY <1>1, <2>1, <3>1, <3>2 DEF providerVars, Placed
      <3>7. HoldsAreOwn'
        <4>1. \A k \in Keys : byKey[k] # None => byKey[k] \in Checkouts
          BY <1>1
        <4>2. QED
          BY <1>3, <2>2, <3>1, <3>3, <3>6, <4>1 DEF BackInv, HoldsAreOwn, MayRestOn
      <3>8. OthersAreHeld'
        BY <3>1, <3>5, <3>6 DEF BackInv, OthersAreHeld
      <3>9. FundsAreBacked'
        BY <1>2, <3>1, <3>5, <3>6 DEF staffVars, BackInv, FundsAreBacked, Backing, Forgotten
      <3>10. QED
        BY <3>7, <3>8, <3>9 DEF BackInv
    <2>5. QED
      BY <2>3, <2>4
  <1>8. QED
    BY <1>5, <1>6, <1>7 DEF CheckoutNext

LEMMA StaffKeepsBacked ==
  ASSUME KeysTellTenants, TypeInv, ClaimInv, KeyInv, BackInv, NEW p \in Staff, StaffNext(p)
  PROVE  BackInv'
  <1>1. /\ intent \in [Checkouts -> PaymentStatus \cup {"none"}]
        /\ byKey \in [Keys -> Checkouts \cup {None}]
        /\ at \in [Staff -> Stages] /\ job \in [Staff -> Job \cup {None}]
        /\ paymentStatus \in [Checkouts -> PaymentStatus \cup {None}]
    BY RefsAssumption DEF TypeInv, TypeOK, ProviderTypeOK, StaffTypeOK, OrderTypeOK
  <1>2. UNCHANGED <<phase, hold, request, paymentRef>>
    BY StaffSteps DEF Load, Claim, Pay, Commit, Notify, AbandonTransition, checkoutVars, orderVars
  <1>3. \A q \in Staff : at[q] # "idle" => job[q] \in Job /\ job[q].order \in Placed /\ job[q].order \in Checkouts
    BY DEF TypeInv, JobsAreLoaded, Placed
  <1>4. ASSUME UNCHANGED <<Placed, byKey>>, \A r \in Checkouts : intent[r] # "none" => intent'[r] # "none"
        PROVE  HoldsAreOwn'
    <2>1. \A k \in Keys : byKey[k] # None => byKey[k] \in Checkouts
      BY <1>1
    <2>2. QED
      BY <1>2, <1>4, <2>1 DEF BackInv, HoldsAreOwn, MayRestOn, BeforeHold
  <1>5. ASSUME UNCHANGED <<status, paymentStatus, providerVars>>,
               \A q \in Staff : at'[q] = "committing" =>
                 job'[q] = job[q] /\ (at[q] = "committing" \/ job[q].money = None)
        PROVE  BackInv'
    <2>1. UNCHANGED <<Placed, intent, byKey>>
      BY <1>5 DEF providerVars, Placed
    <2>2. OthersAreHeld' /\ FundsAreBacked'
      BY <1>2, <1>5, <2>1 DEF BackInv, OthersAreHeld, FundsAreBacked
    <2>3. QED
      BY <1>4, <2>1, <2>2 DEF BackInv
  <1>6. CASE ~Pay(p) /\ ~Commit(p)
    <2>1. UNCHANGED <<status, paymentStatus, providerVars>>
      BY <1>6, StaffSteps DEF Load, Claim, Notify, AbandonTransition, orderVars
    <2>2. \A q \in Staff : at'[q] = "committing" =>
            job'[q] = job[q] /\ (at[q] = "committing" \/ job[q].money = None)
      BY <1>1, <1>6, StaffSteps DEF Load, Claim, Notify, AbandonTransition, GoIdle
    <2>3. QED
      BY <1>5, <2>1, <2>2
  <1>7. CASE Pay(p)
    <2> SUFFICES ASSUME NEW o, o = job[p].order, NEW money, money = job[p].money, NEW r, r = paymentRef[o]
                 PROVE  BackInv'
      OBVIOUS
    <2>1. /\ at[p] = "paying" /\ o \in Placed /\ o \in Checkouts /\ r \in Checkouts
          /\ money \in Money
      BY <1>3, <1>7 DEF Pay, BackInv, HoldsAreOwn, TypeInv, JobsAreLoaded, Job
    <2>2. UNCHANGED <<status, paymentStatus>> /\ Placed' = Placed
      BY <1>7 DEF Pay, orderVars, Placed
    <2>3. \A q \in Staff \ {p} : at'[q] = at[q] /\ job'[q] = job[q]
      BY <1>1, <1>7 DEF Pay, GoIdle
    <2>4. CASE MoveMoney(r, money)
      <3>1. /\ intent[r] = StatusBefore(money) /\ intent[r] # "none"
            /\ intent' = [intent EXCEPT ![r] = MoneyResult(money)]
            /\ UNCHANGED byKey /\ MoneyResult(money) # "none"
        BY <2>1, <2>4 DEF MoveMoney, StatusBefore, MoneyResult, Money
      <3>2. money = "refund" => paymentStatus[o] = "captured"
        <4>1. paymentStatus[o] = job[p].pay
          BY <2>1 DEF ClaimInv, ClaimsAreExclusive, SnapshotsAge, Working
        <4>2. Fits(job[p].to, money, job[p].pay)
          BY <2>1 DEF ClaimInv, JobsFit, Working
        <4>3. QED
          BY <2>1, <4>1, <4>2, NullsAssumption DEF Fits
      <3>3. \A q \in Staff \ {p} : at[q] = "committing" => job[q].order # o
        BY <2>1 DEF ClaimInv, ClaimsAreExclusive, LocksOrder
      <3>4. paymentStatus[o] \in PaymentStatus /\ intent[r] \in Backing(paymentStatus[o])
        BY <1>1, <2>1, <3>1, NullsAssumption
           DEF BackInv, FundsAreBacked, Forgotten, TypeInv, OrdersAreWhole, Placed
      <3>5. MoneyResult(money) \in Backing(paymentStatus[o])
        BY <2>1, <3>1, <3>2, <3>4 DEF Money, PaymentStatus, StatusBefore, MoneyResult, Backing
      <3>6. HoldsAreOwn'
        BY <1>1, <1>4, <2>1, <2>2, <3>1
      <3>7. \A a \in Placed : a # o => paymentRef[a] # r
        BY <2>1, HoldsDiffer DEF BackInv
      <3>8. OthersAreHeld'
        BY <1>1, <1>2, <2>1, <2>2, <3>1 DEF BackInv, OthersAreHeld
      <3>9. \A a \in Placed : intent'[paymentRef[a]] \in Backing(paymentStatus[a]) \cup Forgotten
        BY <1>1, <2>1, <3>1, <3>5, <3>7 DEF BackInv, HoldsAreOwn, FundsAreBacked
      <3>10. at'[p] = "committing" => job'[p] = job[p]
        BY <1>1, <1>7 DEF Pay, GoIdle
      <3>11. \A q \in Staff : at'[q] = "committing" /\ job'[q].money # None =>
              intent'[paymentRef[job'[q].order]] = MoneyResult(job'[q].money)
        <4> SUFFICES ASSUME NEW q \in Staff, at'[q] = "committing", job'[q].money # None
                     PROVE  intent'[paymentRef[job'[q].order]] = MoneyResult(job'[q].money)
          OBVIOUS
        <4>1. CASE q = p
          BY <1>1, <2>1, <3>1, <3>10, <4>1
        <4>2. CASE q # p
          <5>1. /\ at[q] = "committing" /\ job'[q] = job[q] /\ job[q].order \in Placed
                /\ job[q].order # o
            BY <1>3, <2>3, <3>3, <4>2
          <5>2. paymentRef[job[q].order] \in Checkouts /\ paymentRef[job[q].order] # r
            BY <3>7, <5>1 DEF BackInv, HoldsAreOwn
          <5>3. QED
            BY <1>1, <3>1, <5>1, <5>2 DEF BackInv, FundsAreBacked
        <4>3. QED
          BY <4>1, <4>2
      <3>12. QED
        BY <1>2, <2>2, <3>6, <3>8, <3>9, <3>11 DEF BackInv, FundsAreBacked, Forgotten
    <2>5. CASE UNCHANGED providerVars /\ GoIdle(p)
      BY <1>1, <1>5, <2>2, <2>3, <2>5 DEF GoIdle
    <2>6. QED
      BY <1>7, <2>1, <2>4, <2>5 DEF Pay
  <1>8. CASE Commit(p)
    <2> SUFFICES ASSUME NEW o, o = job[p].order, NEW money, money = job[p].money
                 PROVE  BackInv'
      OBVIOUS
    <2>1. /\ at[p] = "committing" /\ o \in Placed /\ o \in Checkouts
          /\ money \in Money \cup {None}
      BY <1>3, <1>8 DEF Commit, Job
    <2>2. UNCHANGED <<intent, byKey>> /\ Placed' = Placed
      BY <1>8, CommitMovesOne DEF Commit, providerVars
    <2>3. /\ \A q \in Staff \ {p} : at'[q] = at[q] /\ job'[q] = job[q]
          /\ at'[p] # "committing"
      BY <1>1, <1>8 DEF Commit, GoIdle
    <2>4. \A a \in Checkouts : paymentStatus'[a] =
            IF a = o /\ money # None THEN MoneyResult(money) ELSE paymentStatus[a]
      BY <1>1, <1>8, <2>1 DEF Commit
    <2>5. money # None => /\ intent[paymentRef[o]] = MoneyResult(money)
                          /\ MoneyResult(money) \in Backing(MoneyResult(money))
      BY <2>1 DEF BackInv, FundsAreBacked, Backing, Money, MoneyResult
    <2>6. HoldsAreOwn' /\ OthersAreHeld'
      BY <1>2, <1>4, <2>2 DEF BackInv, OthersAreHeld
    <2>7. FundsAreBacked'
      BY <1>2, <2>2, <2>3, <2>4, <2>5 DEF BackInv, FundsAreBacked, Forgotten, Placed
    <2>8. QED
      BY <2>6, <2>7 DEF BackInv
  <1>9. QED
    BY <1>6, <1>7, <1>8

LEMMA BackNext ==
  ASSUME KeysTellTenants, TypeInv, ClaimInv, KeyInv, BackInv, [Next]_vars
  PROVE  BackInv'
  <1>1. CASE (\E m \in Promos : Deactivate(m)) \/ UNCHANGED vars
    BY <1>1 DEF Deactivate, vars, checkoutVars, staffVars, orderVars, providerVars, BackInv,
                HoldsAreOwn, OthersAreHeld, FundsAreBacked, MayRestOn, BeforeHold, Placed
  <1>2. CASE Restart
    <2>1. UNCHANGED <<request, status, paymentStatus, paymentRef, Placed>>
      BY <1>2 DEF Restart, orderVars, Placed
    <2>2. /\ \A c \in Checkouts : phase'[c] # "inserting"
          /\ \A p \in Staff : at'[p] # "committing"
          /\ \A c \in Checkouts : BeforeHold(c)' => BeforeHold(c)
      BY <1>2 DEF Restart, InFlight, BeforeHold
    <2>3. \/ Provider = "fake" /\ intent' = [r \in Checkouts |-> "none"] /\ byKey' = [k \in Keys |-> None]
          \/ UNCHANGED <<intent, byKey>>
      BY <1>2, RefsAssumption DEF Restart, ProviderRestart
    <2>4. \A k \in Keys : byKey[k] # None => byKey[k] \in Checkouts
      BY RefsAssumption DEF TypeInv, TypeOK, ProviderTypeOK
    <2>5. HoldsAreOwn'
      BY <2>1, <2>2, <2>3, <2>4 DEF BackInv, HoldsAreOwn, MayRestOn
    <2>6. OthersAreHeld'
      BY <2>1, <2>3 DEF BackInv, OthersAreHeld
    <2>7. FundsAreBacked'
      BY <2>1, <2>2, <2>3, <2>5 DEF BackInv, HoldsAreOwn, FundsAreBacked, Forgotten
    <2>8. QED
      BY <2>5, <2>6, <2>7 DEF BackInv
  <1>3. QED
    BY <1>1, <1>2, CheckoutKeepsBacked, StaffKeepsBacked DEF Next

LEMMA BackInvariance == KeysTellTenants => (Spec => [](TypeInv /\ KeyInv /\ BackInv))
  <1> SUFFICES ASSUME KeysTellTenants PROVE Spec => [](TypeInv /\ KeyInv /\ BackInv)
    OBVIOUS
  <1>1. (TypeInv /\ ClaimInv) /\ KeyInv /\ BackInv /\ [Next]_vars => KeyInv' /\ BackInv'
    BY KeyNext, BackNext
  <1>2. QED
    BY <1>1, KeyInit, BackInit, ClaimInvariance, PTL DEF Spec

\* Whatever answers are lost and whatever transactions roll back after the
\* money moved, no order claims money the provider did not move; only the
\* fake's memory may have been lost since (applyTransition).
THEOREM ProviderBacks == KeysTellTenants => (Spec => []ProviderBacksOrders)
  <1> SUFFICES ASSUME KeysTellTenants PROVE Spec => []ProviderBacksOrders
    OBVIOUS
  <1>1. BackInv => ProviderBacksOrders
    BY DEF BackInv, FundsAreBacked, Forgotten, ProviderBacksOrders
  <1>2. QED
    BY <1>1, BackInvariance, PTL

\* An order rests on the hold its own checkout opened, or one that another
\* attempt with its key opened and no other order rests on; and no other hold
\* is ever charged: what a failed or repeated checkout leaves behind is an
\* open hold (checkout, FakePaymentProvider.authorize).
THEOREM HoldsBelong == KeysTellTenants => (Spec => []HoldsBelongToOrders)
  <1> SUFFICES ASSUME KeysTellTenants PROVE Spec => []HoldsBelongToOrders
    OBVIOUS
  <1>1. TypeInv /\ KeyInv /\ BackInv => HoldsBelongToOrders
    <2> SUFFICES ASSUME TypeInv, KeyInv, BackInv PROVE HoldsBelongToOrders
      OBVIOUS
    <2>1. \A o, q \in Placed : o # q => paymentRef[o] # paymentRef[q]
      BY HoldsDiffer DEF BackInv
    <2>2. \A r \in Refs : intent[r] \in {"captured", "refunded"} => \E o \in Placed : paymentRef[o] = r
      BY RefsAssumption DEF BackInv, OthersAreHeld
    <2>3. QED
      BY <2>1, <2>2 DEF HoldsBelongToOrders
  <1>2. QED
    BY <1>1, BackInvariance, PTL

\* A diner who was told of a rejection has not been charged, as long as
\* advance is used for fulfilment only (NOTIFY_ON.REJECTED): the order reached
\* REJECTED, it cannot leave it, its funds are recorded voided, and the
\* provider has voided them, or has forgotten them.
THEOREM RejectedNotCharged ==
  KeysTellTenants /\ AdvanceIsFulfilment => (Spec => []RejectedMeansNotCharged)
  <1> SUFFICES ASSUME KeysTellTenants, AdvanceIsFulfilment
               PROVE  Spec => []RejectedMeansNotCharged
    OBVIOUS
  <1>1. BackInv /\ NewsInv /\ MoneyFollowsStatus => RejectedMeansNotCharged
    <2> SUFFICES ASSUME BackInv, NewsInv, MoneyFollowsStatus, NEW o \in Checkouts, "REJECTED" \in notified[o]
                 PROVE  intent[paymentRef[o]] \notin {"captured", "refunded"}
      BY DEF RejectedMeansNotCharged
    <2>1. o \in Placed /\ status[o] = "REJECTED"
      BY DEF NewsInv, NewsIsTrue, HasReached
    <2>2. MoneyIn("REJECTED") = {<<"voided", <<"authorize", "void">>>>}
      BY DEF MoneyIn
    <2>3. paymentStatus[o] = "voided"
      <3>1. <<paymentStatus[o], payments[o]>> \in MoneyIn(status[o])
        BY <2>1 DEF MoneyFollowsStatus
      <3>2. <<paymentStatus[o], payments[o]>> = <<"voided", <<"authorize", "void">>>>
        BY <2>1, <2>2, <3>1
      <3>3. QED
        BY <3>2
    <2>4. QED
      BY <2>1, <2>3 DEF BackInv, FundsAreBacked, Backing, Forgotten
  <1>2. (TypeInv /\ ClaimInv) /\ NewsInv /\ [Next]_vars => NewsInv'
    BY NewsNext
  <1>3. QED
    BY <1>1, <1>2, NewsInit, ClaimInvariance, BackInvariance, MoneyFollows, PTL DEF Spec

-----------------------------------------------------------------------------
\* The ledger half of LoyaltyMatchesCompletions: one row for every completed
\* order that earns, none for any other.
LedgerMatchesCompletions ==
  \A o \in Checkouts :
    ledger[o] = IF status[o] = "COMPLETE" /\ Earns(o, "COMPLETE") THEN 1 ELSE 0

LEMMA LedgerNext ==
  ASSUME TypeInv, ClaimInv, LedgerMatchesCompletions, [Next]_vars
  PROVE  LedgerMatchesCompletions'
  <1>1. /\ status \in [Checkouts -> OrderStatus \cup {None}]
        /\ ledger \in [Checkouts -> Nat]
    BY DEF TypeInv, TypeOK, OrderTypeOK
  <1>2. ASSUME UNCHANGED <<status, ledger, request>> PROVE LedgerMatchesCompletions'
    BY <1>2 DEF LedgerMatchesCompletions, Earns, PointsFor
  <1>3. ASSUME NEW c \in Checkouts, CheckoutNext(c) PROVE LedgerMatchesCompletions'
    <2>1. UNCHANGED <<ledger, request>>
      BY <1>3, CheckoutAnswers
         DEF CheckoutNext, Dedupe, Price, Redeem, Authorize, Place, AbandonCheckout, loyaltyVars
    <2>2. \A o \in Checkouts : status'[o] = "COMPLETE" <=> status[o] = "COMPLETE"
      BY <1>1, <1>3, CheckoutPlacesOwn, NullsAssumption DEF orderVars, Placed, OrderStatus
    <2>3. QED
      BY <2>1, <2>2 DEF LedgerMatchesCompletions, Earns, PointsFor
  <1>4. ASSUME NEW p \in Staff, Commit(p) PROVE LedgerMatchesCompletions'
    <2> SUFFICES ASSUME NEW o, o = job[p].order, NEW t, t = job[p].to
                 PROVE  LedgerMatchesCompletions'
      OBVIOUS
    <2>1. /\ o \in Checkouts /\ status[o] # "COMPLETE" /\ status'[o] = t
          /\ \A a \in Checkouts : a # o => status'[a] = status[a]
      <3>1. /\ o \in Placed /\ canTransition(status[o], t) /\ status'[o] = t
            /\ \A a \in Checkouts : a # o => status'[a] = status[a]
        BY <1>4, CommitMovesOne
      <3>2. ~canTransition("COMPLETE", t)
        BY DEF canTransition, LEGAL
      <3>3. QED
        BY <3>1, <3>2 DEF Placed
    <2>2. request' = request
      BY <1>4 DEF Commit, checkoutVars
    <2>3. ledger' = IF Earns(o, t) THEN [ledger EXCEPT ![o] = ledger[o] + 1] ELSE ledger
      BY <1>4 DEF Commit, loyaltyVars
    <2>4. ledger[o] = 0
      BY <2>1 DEF LedgerMatchesCompletions
    <2>5. Earns(o, t) <=> t = "COMPLETE" /\ Earns(o, "COMPLETE")
      BY DEF Earns
    <2>6. \A a \in Checkouts : ledger'[a] = IF a = o /\ Earns(o, t) THEN 1 ELSE ledger[a]
      BY <1>1, <2>1, <2>3, <2>4
    <2>7. \A a \in Checkouts : Earns(a, "COMPLETE")' <=> Earns(a, "COMPLETE")
      BY <2>2 DEF Earns, PointsFor
    <2>8. QED
      BY <2>1, <2>4, <2>5, <2>6, <2>7 DEF LedgerMatchesCompletions
  <1>5. ASSUME NEW p \in Staff, StaffNext(p), ~Commit(p) PROVE LedgerMatchesCompletions'
    BY <1>2, <1>5, StaffSteps, OnlyCommitWrites DEF orderVars, loyaltyVars
  <1>6. CASE (\E m \in Promos : Deactivate(m)) \/ Restart \/ UNCHANGED vars
    BY <1>2, <1>6 DEF Deactivate, Restart, vars, checkoutVars, orderVars, loyaltyVars
  <1>7. QED
    BY <1>3, <1>4, <1>5, <1>6 DEF Next

\* A completed order is rewarded once, whoever else tried to complete it, and
\* an order that is not complete is not rewarded (applyTransition's loyalty
\* block).
THEOREM RewardedOnce == Spec => []LedgerMatchesCompletions
  <1>1. Init => LedgerMatchesCompletions
    BY NullsAssumption DEF Init, LedgerMatchesCompletions, OrderStatus
  <1>2. (TypeInv /\ ClaimInv) /\ LedgerMatchesCompletions /\ [Next]_vars => LedgerMatchesCompletions'
    BY LedgerNext
  <1>3. QED
    BY <1>1, <1>2, ClaimInvariance, PTL DEF Spec

-----------------------------------------------------------------------------
\* The points half: an account is the sum over its diner's completed orders.
Worth == [o \in Checkouts |-> PointsFor(o)]

Rewarded(t, n) ==
  {o \in Placed : status[o] = "COMPLETE" /\ request[o].tenant = t /\ request[o].phone = n}

PointsMatchCompletions ==
  \A t \in Tenants, n \in Phones : points[<<t, n>>] = Total(Worth, Rewarded(t, n))

LEMMA WorthIsNat == TypeInv => \A o \in Checkouts : Worth[o] \in Nat /\ Worth[o] = PointsFor(o)
  BY BodiesAssumption, PointsAreNat DEF TypeInv, TypeOK, CheckoutTypeOK, Worth, PointsFor

\* The sum the model takes over PointsFor, as one over a function.
LEMMA PointsAreTotals ==
  ASSUME TypeInv, NEW S \in SUBSET Checkouts, IsFiniteSet(S)
  PROVE  MapThenSumSet(PointsFor, S) = Total(Worth, S)
  <1>. DEFINE Recursion(g, s) == IF s = {} THEN 0
                             ELSE PointsFor(CHOOSE x \in s : TRUE) + g[s \ {CHOOSE x \in s : TRUE}]
  <1>1. PICK iter : /\ MapThenSumSet(PointsFor, S) = iter[S]
                    /\ iter = CHOOSE g : g = [s \in SUBSET S |-> Recursion(g, s)]
    BY DEF MapThenSumSet, MapThenFoldSet
  <1>2. \A g : Sums(Worth, S, g) <=> g = [s \in SUBSET S |-> Recursion(g, s)]
    <2>1. \A g : \A s \in SUBSET S : Recursion(g, s) = Step(Worth, g, s)
      BY WorthIsNat DEF Step
    <2>. HIDE DEF Recursion
    <2>. QED
      BY <2>1 DEF Sums
  <1>3. \A x \in S : Worth[x] \in Nat
    BY WorthIsNat
  <1>4. \E g : Sums(Worth, S, g)
    BY <1>3, SumsAreTotals
  <1>5. Sums(Worth, S, iter)
    <2>. HIDE DEF Recursion
    <2>. QED
      BY <1>1, <1>2, <1>4
  <1>. QED
    BY <1>1, <1>3, <1>5, SumsAreTotals

LEMMA PointsNext ==
  ASSUME IsFiniteSet(Checkouts), TypeInv, ClaimInv, PointsMatchCompletions, [Next]_vars
  PROVE  PointsMatchCompletions'
  <1>1. /\ status \in [Checkouts -> OrderStatus \cup {None}]
        /\ points \in [Tenants \X Phones -> Nat]
        /\ request \in [Checkouts -> RequestBodies]
    BY DEF TypeInv, TypeOK, OrderTypeOK, CheckoutTypeOK
  <1>2. ASSUME UNCHANGED <<points, request>>,
               \A o \in Checkouts : status'[o] = "COMPLETE" <=> status[o] = "COMPLETE"
        PROVE  PointsMatchCompletions'
    <2>1. \A t \in Tenants, n \in Phones : Rewarded(t, n)' = Rewarded(t, n)
      BY <1>1, <1>2, NullsAssumption DEF Rewarded, Placed, OrderStatus
    <2>2. Worth' = Worth
      BY <1>2 DEF Worth, PointsFor
    <2>. QED
      BY <1>2, <2>1, <2>2 DEF PointsMatchCompletions
  <1>3. ASSUME NEW c \in Checkouts, CheckoutNext(c) PROVE PointsMatchCompletions'
    <2>1. UNCHANGED <<points, request>>
      BY <1>3, CheckoutAnswers
         DEF CheckoutNext, Dedupe, Price, Redeem, Authorize, Place, AbandonCheckout, loyaltyVars
    <2>2. \A o \in Checkouts : status'[o] = "COMPLETE" <=> status[o] = "COMPLETE"
      BY <1>1, <1>3, CheckoutPlacesOwn, NullsAssumption DEF orderVars, Placed, OrderStatus
    <2>3. QED
      BY <1>2, <2>1, <2>2
  <1>4. ASSUME NEW p \in Staff, Commit(p) PROVE PointsMatchCompletions'
    <2> SUFFICES ASSUME NEW o, o = job[p].order, NEW to, to = job[p].to
                 PROVE  PointsMatchCompletions'
      OBVIOUS
    <2>1. /\ o \in Checkouts /\ o \in Placed /\ status[o] # "COMPLETE" /\ status'[o] = to
          /\ \A a \in Checkouts : a # o => status'[a] = status[a]
          /\ Placed' = Placed
      <3>1. /\ o \in Placed /\ canTransition(status[o], to) /\ status'[o] = to
            /\ \A a \in Checkouts : a # o => status'[a] = status[a]
            /\ Placed' = Placed
        BY <1>4, CommitMovesOne
      <3>2. ~canTransition("COMPLETE", to)
        BY DEF canTransition, LEGAL
      <3>3. QED
        BY <3>1, <3>2 DEF Placed
    <2>2. request' = request /\ Worth' = Worth
      <3>1. request' = request
        BY <1>4 DEF Commit, checkoutVars
      <3>2. QED
        BY <3>1 DEF Worth, PointsFor
    <2>3. points' = IF Earns(o, to)
                    THEN [points EXCEPT ![<<request[o].tenant, request[o].phone>>] =
                            points[<<request[o].tenant, request[o].phone>>] + PointsFor(o)]
                    ELSE points
      BY <1>4 DEF Commit, loyaltyVars
    <2> SUFFICES ASSUME NEW t \in Tenants, NEW n \in Phones
                 PROVE  points'[<<t, n>>] = Total(Worth, Rewarded(t, n)')
      BY <2>2 DEF PointsMatchCompletions
    <2>4. points[<<t, n>>] = Total(Worth, Rewarded(t, n)) /\ points[<<t, n>>] \in Nat
      BY <1>1 DEF PointsMatchCompletions
    <2>5. n # None
      BY NullsAssumption
    <2>6. CASE to = "COMPLETE" /\ request[o].tenant = t /\ request[o].phone = n
      <3>1. Rewarded(t, n)' \ {o} = Rewarded(t, n) /\ o \in Rewarded(t, n)'
            /\ Rewarded(t, n)' \subseteq Checkouts
        BY <2>1, <2>2, <2>6 DEF Rewarded, Placed
      <3>2. IsFiniteSet(Rewarded(t, n)') /\ \A x \in Rewarded(t, n)' : Worth[x] \in Nat
        BY <3>1, FS_Subset, WorthIsNat
      <3> SUFFICES ASSUME NEW R, R = Rewarded(t, n)' PROVE points'[<<t, n>>] = Total(Worth, R)
        OBVIOUS
      <3>3. Total(Worth, R) = Worth[o] + Total(Worth, R \ {o})
        BY <3>1, <3>2, SumsAddUp
      <3>4. Worth[o] = PointsFor(o) /\ PointsFor(o) \in Nat
        BY <2>1, WorthIsNat
      <3>5. points'[<<t, n>>] = points[<<t, n>>] + PointsFor(o)
        <4>1. CASE PointsFor(o) > 0
          BY <1>1, <2>3, <2>5, <2>6, <4>1 DEF Earns
        <4>2. CASE PointsFor(o) = 0
          BY <2>3, <2>4, <2>6, <4>2 DEF Earns
        <4>. QED
          BY <3>4, <4>1, <4>2
      <3>. QED
        BY <2>4, <3>1, <3>3, <3>4, <3>5
    <2>7. CASE ~(to = "COMPLETE" /\ request[o].tenant = t /\ request[o].phone = n)
      <3>1. Rewarded(t, n)' = Rewarded(t, n)
        BY <2>1, <2>2, <2>7 DEF Rewarded, Placed
      <3>2. points'[<<t, n>>] = points[<<t, n>>]
        <4>1. CASE Earns(o, to)
          <5>1. <<request[o].tenant, request[o].phone>> # <<t, n>>
            BY <2>7, <4>1 DEF Earns
          <5>. QED
            BY <1>1, <2>3, <4>1, <5>1
        <4>2. CASE ~Earns(o, to)
          BY <2>3, <4>2
        <4>. QED
          BY <4>1, <4>2
      <3>. QED
        BY <2>4, <3>1, <3>2
    <2>. QED
      BY <2>6, <2>7
  <1>5. ASSUME NEW p \in Staff, StaffNext(p), ~Commit(p) PROVE PointsMatchCompletions'
    BY <1>2, <1>5, StaffSteps, OnlyCommitWrites DEF orderVars, loyaltyVars
  <1>6. CASE (\E m \in Promos : Deactivate(m)) \/ Restart \/ UNCHANGED vars
    BY <1>2, <1>6 DEF Deactivate, Restart, vars, checkoutVars, orderVars, loyaltyVars
  <1>7. QED
    BY <1>3, <1>4, <1>5, <1>6 DEF Next

LEMMA PointsInit == Init => PointsMatchCompletions
  <1> SUFFICES ASSUME Init, NEW t \in Tenants, NEW n \in Phones
               PROVE  points[<<t, n>>] = Total(Worth, Rewarded(t, n))
    BY DEF PointsMatchCompletions
  <1>1. Rewarded(t, n) = {} /\ points[<<t, n>>] = 0
    BY DEF Init, Rewarded, Placed
  <1>2. Total(Worth, {}) = 0
    BY FS_EmptySet, SumsAddUp
  <1>. QED
    BY <1>1, <1>2

\* A diner's account is the sum over the diner's completed orders, each counted
\* once, whoever completed them and in whatever order (applyTransition's
\* loyalty block): the commit that completes an order adds it to one account.
THEOREM LoyaltyMatches == IsFiniteSet(Checkouts) => (Spec => []LoyaltyMatchesCompletions)
  <1> SUFFICES ASSUME IsFiniteSet(Checkouts) PROVE Spec => []LoyaltyMatchesCompletions
    OBVIOUS
  <1>1. TypeInv /\ LedgerMatchesCompletions /\ PointsMatchCompletions => LoyaltyMatchesCompletions
    <2> SUFFICES ASSUME TypeInv, PointsMatchCompletions, NEW t \in Tenants, NEW n \in Phones
                 PROVE  points[<<t, n>>] = MapThenSumSet(PointsFor, Rewarded(t, n))
      BY DEF LoyaltyMatchesCompletions, LedgerMatchesCompletions, Rewarded
    <2>1. Rewarded(t, n) \in SUBSET Checkouts /\ IsFiniteSet(Rewarded(t, n))
      <3>1. Rewarded(t, n) \subseteq Checkouts
        BY DEF Rewarded, Placed
      <3>. QED
        BY <3>1, FS_Subset
    <2>. QED
      BY <2>1, PointsAreTotals DEF PointsMatchCompletions
  <1>2. (TypeInv /\ ClaimInv) /\ PointsMatchCompletions /\ [Next]_vars => PointsMatchCompletions'
    BY PointsNext
  <1>3. QED
    BY <1>1, <1>2, PointsInit, RewardedOnce, ClaimInvariance, PTL DEF Spec

=============================================================================
