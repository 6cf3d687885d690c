--------------------------- MODULE DeliveryProofs ---------------------------
(***************************************************************************)
(* The ledger of drivers' earnings, for every number of orders, drivers,   *)
(* amounts and callers.                                                    *)
(***************************************************************************)
EXTENDS Delivery, TLAPS

\* An earning's row is locked by one transaction at a time.
LocksAreExclusive ==
  \A c, e \in Callers, o \in Orders :
    c # e /\ LocksEarning(c, o) => ~LocksEarning(e, o)

\* What a transaction found when it got the lock is so until it ends.
DecisionsAreCurrent ==
  /\ \A d \in Dispatchers :
       /\ stage[d] = "assigning" => Rewrites(job[d].order)
       /\ stage[d] = "keeping" => ~Rewrites(job[d].order)
  /\ \A s \in Settlers : \A o \in closing[s] : Owed(o, account[s])

\* Who closed an earning is done, and will not deal with another driver.
SettlersAreDone ==
  \A o \in Orders :
    earning[o] # None /\ ~Open(o) => stage[earning[o].settledAt] = "done"

LedgerInv ==
  /\ TypeOK /\ LocksAreExclusive /\ DecisionsAreCurrent
  /\ SettlersAreDone /\ SettledForItsDriver /\ DriverIsOwed

LEMMA InitLedgerInv == Init => LedgerInv
  <1>. SUFFICES ASSUME Init PROVE LedgerInv
    OBVIOUS
  <1>1. TypeOK
    BY CallersAssumption DEF Init, TypeOK, Stages, Callers, Working
  <1>2. LocksAreExclusive /\ DecisionsAreCurrent
    BY CallersAssumption
    DEF Init, LocksAreExclusive, LocksEarning, DecisionsAreCurrent, Callers
  <1>3. SettlersAreDone /\ SettledForItsDriver /\ DriverIsOwed
    BY DEF Init, SettlersAreDone, SettledForItsDriver, DriverIsOwed, Open
  <1>. QED
    BY <1>1, <1>2, <1>3 DEF LedgerInv

-----------------------------------------------------------------------------
\* Rows that are there have their columns.
LEMMA RowsAreWhole ==
  ASSUME TypeOK
  PROVE  /\ \A o \in Orders : earning[o] # None => earning[o] \in EarningRow
         /\ \A o \in Orders : delivery[o] # None => delivery[o] \in DeliveryRow
         /\ \A d \in Dispatchers : job[d] # None => job[d] \in Job
  BY DEF TypeOK

LEMMA AssignKeepsTypes ==
  ASSUME TypeOK, NEW d \in Dispatchers, DispatcherNext(d)
  PROVE  TypeOK'
  <1>. USE CallersAssumption DEF Callers, Stages, Working
  <1>1. d \notin Settlers
    OBVIOUS
  <1>2. ASSUME NEW o \in Orders, NEW driver \in Drivers, NEW amount \in Amounts,
               assign(d, o, driver, amount)
        PROVE  TypeOK'
    <2>1. [order |-> o, driver |-> driver, amount |-> amount] \in Job
      BY DEF Job
    <2>. QED
      BY <1>1, <1>2, <2>1, NoRowAssumption DEF TypeOK, assign, Go
  <1>3. ASSUME NEW o \in Orders, NEW status \in DeliveryStatus, setStatus(d, o, status)
        PROVE  TypeOK'
    <2>1. [delivery[o] EXCEPT !.status = status] \in DeliveryRow
      BY <1>3, RowsAreWhole DEF setStatus, DeliveryRow
    <2>. QED
      BY <1>3, <2>1 DEF TypeOK, setStatus
  <1>4. CASE ClaimDelivery(d)
    BY <1>1, <1>4 DEF TypeOK, ClaimDelivery, Go
  <1>5. CASE ClaimEarning(d)
    BY <1>1, <1>5 DEF TypeOK, ClaimEarning, Go
  <1>6. CASE CommitAssign(d)
    <2>1. job[d] \in Job
      BY <1>6, RowsAreWhole DEF TypeOK, CommitAssign
    <2>2. Assigned(job[d]) \in DeliveryRow /\ Earned(job[d]) \in EarningRow
      BY <2>1, StatusAssumption DEF Assigned, Earned, DeliveryRow, EarningRow, Job
    <2>3. delivery' \in [Orders -> DeliveryRow \cup {None}]
      BY <1>6, <2>2 DEF TypeOK, CommitAssign
    <2>4. earning' \in [Orders -> EarningRow \cup {None}]
      BY <1>6, <2>2 DEF TypeOK, CommitAssign
    <2>. QED
      BY <1>1, <1>6, <2>3, <2>4 DEF TypeOK, CommitAssign, Go
  <1>7. CASE AbandonAssign(d)
    BY <1>1, <1>7 DEF TypeOK, AbandonAssign, Go
  <1>. QED
    BY <1>2, <1>3, <1>4, <1>5, <1>6, <1>7 DEF DispatcherNext

LEMMA EndSettleKeepsTypes ==
  ASSUME TypeOK, NEW s \in Settlers, EndSettle(s),
         earning' \in [Orders -> EarningRow \cup {None}]
  PROVE  TypeOK'
  BY CallersAssumption DEF TypeOK, EndSettle, Go, Callers, Stages, Working

LEMMA SettleKeepsTypes ==
  ASSUME LedgerInv, NEW s \in Settlers, SettlerNext(s)
  PROVE  TypeOK'
  <1>. USE CallersAssumption DEF LedgerInv, Callers, Stages, Working
  <1>1. s \notin Dispatchers
    OBVIOUS
  <1>2. ASSUME NEW driver \in Drivers, owed(s, driver)
        PROVE  TypeOK'
    <2>1. {<<o, earning[o].amount>> : o \in {p \in Orders : Owed(p, driver)}}
            \in SUBSET (Orders \X Amounts)
      BY RowsAreWhole DEF Owed, Open, EarningRow
    <2>. QED
      BY <1>1, <1>2, <2>1, NoSettlerAssumption DEF TypeOK, owed, Go
  <1>3. CASE settle(s)
    BY <1>1, <1>3 DEF TypeOK, settle, Go
  <1>4. ASSUME NEW o \in Orders, LockEarning(s, o)
        PROVE  TypeOK'
    BY <1>4 DEF TypeOK, LockEarning
  <1>5. CASE CommitSettle(s)
    <2>1. \A o \in closing[s] : earning[o] \in EarningRow
      BY RowsAreWhole DEF DecisionsAreCurrent, Owed, Open, TypeOK
    <2>2. \A o \in closing[s] : [earning[o] EXCEPT !.settledAt = s] \in EarningRow
      BY <2>1 DEF EarningRow
    <2>3. earning' \in [Orders -> EarningRow \cup {None}]
      BY <1>5, <2>2 DEF TypeOK, CommitSettle
    <2>. QED
      BY <1>5, <2>3, EndSettleKeepsTypes DEF CommitSettle
  <1>6. CASE Victim(s) \/ AbandonSettle(s)
    BY <1>6, EndSettleKeepsTypes DEF TypeOK, Victim, AbandonSettle
  <1>. QED
    BY <1>2, <1>3, <1>4, <1>5, <1>6 DEF SettlerNext

-----------------------------------------------------------------------------
\* Rows and settled accounts stay as they are, and nobody who is done starts
\* again.
LEMMA SameRows ==
  ASSUME LedgerInv, UNCHANGED <<delivery, earning>>,
         \A s \in Settlers : stage[s] = "done" => stage'[s] = "done" /\ account'[s] = account[s]
  PROVE  SettlersAreDone' /\ SettledForItsDriver' /\ DriverIsOwed'
  <1>1. \A o \in Orders : earning[o] # None /\ ~Open(o) => earning[o].settledAt \in Settlers
    BY RowsAreWhole DEF LedgerInv, Open, EarningRow
  <1>. QED
    BY <1>1 DEF LedgerInv, SettlersAreDone, SettledForItsDriver, DriverIsOwed, Open

LEMMA DispatcherKeepsLedgerInv ==
  ASSUME LedgerInv, NEW d \in Dispatchers, DispatcherNext(d)
  PROVE  LedgerInv'
  <1>. USE CallersAssumption DEF LedgerInv, Callers
  <1>1. TypeOK'
    BY AssignKeepsTypes
  <1>2. \A s \in Settlers : stage'[s] = stage[s]
    BY DEF TypeOK, DispatcherNext, assign, setStatus, ClaimDelivery, ClaimEarning, CommitAssign,
           AbandonAssign, Go
  <1>3. /\ UNCHANGED <<account, held, closing>>
        /\ \A e \in Dispatchers \ {d} : stage'[e] = stage[e] /\ job'[e] = job[e]
    BY DEF TypeOK, DispatcherNext, assign, setStatus, ClaimDelivery, ClaimEarning, CommitAssign,
           AbandonAssign, Go
  <1>4. CASE \/ \E o \in Orders, driver \in Drivers, amount \in Amounts :
                   assign(d, o, driver, amount)
             \/ ClaimDelivery(d)
             \/ AbandonAssign(d)
    <2>1. /\ stage'[d] \notin {"assigning", "keeping"}
          /\ UNCHANGED <<delivery, earning>>
      BY <1>4 DEF TypeOK, assign, ClaimDelivery, AbandonAssign, Go
    <2>2. LocksAreExclusive'
      BY <1>2, <1>3, <2>1 DEF LocksAreExclusive, LocksEarning
    <2>3. DecisionsAreCurrent'
      BY <1>2, <1>3, <2>1 DEF DecisionsAreCurrent, Rewrites, Owed, Open
    <2>. QED
      BY <1>1, <1>2, <1>3, <2>1, <2>2, <2>3, SameRows
  <1>5. ASSUME NEW o \in Orders, NEW status \in DeliveryStatus, setStatus(d, o, status)
        PROVE  LedgerInv'
    <2>1. UNCHANGED <<earning, stage, job>>
      BY <1>5 DEF setStatus
    <2>2. LocksAreExclusive' /\ DecisionsAreCurrent' /\ SettlersAreDone' /\ SettledForItsDriver'
      BY <1>3, <2>1
      DEF LocksAreExclusive, LocksEarning, DecisionsAreCurrent, Rewrites, Owed, Open,
          SettlersAreDone, SettledForItsDriver
    <2>3. \A p \in Orders :
            /\ delivery'[p] = None <=> delivery[p] = None
            /\ delivery[p] # None => delivery'[p].driver = delivery[p].driver
      <3>1. delivery[o] \in DeliveryRow /\ delivery[o] # None
        BY <1>5, RowsAreWhole DEF setStatus
      <3>2. [delivery[o] EXCEPT !.status = status] \in DeliveryRow
        BY <3>1 DEF DeliveryRow
      <3>3. [delivery[o] EXCEPT !.status = status].driver = delivery[o].driver
        BY <3>1 DEF DeliveryRow
      <3>. QED
        BY <1>5, <3>1, <3>2, <3>3, NoRowAssumption DEF setStatus, TypeOK
    <2>4. DriverIsOwed'
      BY <2>1, <2>3 DEF DriverIsOwed, Open
    <2>. QED
      BY <1>1, <2>2, <2>4
  <1>6. CASE ClaimEarning(d)
    <2>1. /\ stage' = [stage EXCEPT ![d] = IF Rewrites(job[d].order) THEN "assigning"
                                           ELSE "keeping"]
          /\ EarningFree(job[d].order)
          /\ UNCHANGED <<delivery, earning, job>>
      BY <1>6 DEF ClaimEarning, Go
    <2>2. stage'[d] = IF Rewrites(job[d].order) THEN "assigning" ELSE "keeping"
      BY <2>1 DEF TypeOK
    <2>3. LocksAreExclusive'
      BY <1>2, <1>3, <2>1, <2>2 DEF LocksAreExclusive, LocksEarning, EarningFree
    <2>4. DecisionsAreCurrent'
      BY <1>2, <1>3, <2>1, <2>2 DEF DecisionsAreCurrent, Rewrites, Owed, Open
    <2>. QED
      BY <1>1, <1>2, <1>3, <2>1, <2>3, <2>4, SameRows
  <1>7. CASE CommitAssign(d)
    <2>. DEFINE j == job[d]
    <2>1. j \in Job /\ j.order \in Orders
      BY <1>7, RowsAreWhole DEF TypeOK, CommitAssign, Job
    <2>2. /\ stage'[d] = "idle"
          /\ delivery'[j.order] = Assigned(j)
          /\ earning'[j.order] = IF stage[d] = "assigning" THEN Earned(j) ELSE earning[j.order]
          /\ \A o \in Orders \ {j.order} : delivery'[o] = delivery[o] /\ earning'[o] = earning[o]
          /\ LocksEarning(d, j.order)
          /\ stage[d] = "keeping" => ~Rewrites(j.order)
          /\ stage[d] \in {"assigning", "keeping"}
      BY <1>7, <2>1 DEF TypeOK, CommitAssign, Go, LocksEarning, DecisionsAreCurrent
    <2>3. /\ Earned(j) # None /\ Earned(j).settledAt = None /\ Earned(j).driver = j.driver
          /\ Assigned(j) # None /\ Assigned(j).driver = j.driver
      <3>1. Assigned(j) \in DeliveryRow /\ Earned(j) \in EarningRow
        BY <2>1, StatusAssumption DEF Assigned, Earned, DeliveryRow, EarningRow, Job
      <3>. QED
        BY <3>1, NoRowAssumption DEF Assigned, Earned
    <2>. HIDE DEF j
    <2>4. LocksAreExclusive'
      BY <1>2, <1>3, <2>2 DEF LocksAreExclusive, LocksEarning
    <2>5. DecisionsAreCurrent'
      <3>1. \A e \in Dispatchers \ {d} :
              stage[e] \in {"assigning", "keeping"} => job[e].order # j.order
        BY <2>1, <2>2 DEF LocksAreExclusive, LocksEarning
      <3>2. \A s \in Settlers : j.order \notin closing[s]
        BY <2>1, <2>2 DEF LocksAreExclusive, LocksEarning, TypeOK
      <3>3. \A e \in Dispatchers \ {d} : stage[e] # "idle" => job[e].order \in Orders
        BY RowsAreWhole DEF TypeOK, Job
      <3>4. \A e \in Dispatchers \ {d} :
              /\ stage'[e] = "assigning" => Rewrites(job[e].order)'
              /\ stage'[e] = "keeping" => ~Rewrites(job[e].order)'
        BY <1>3, <2>2, <3>1, <3>3 DEF DecisionsAreCurrent, Rewrites, Open
      <3>5. \A s \in Settlers : \A o \in closing[s] : Owed(o, account[s])'
        BY <1>3, <2>2, <3>2 DEF DecisionsAreCurrent, Owed, Open, TypeOK
      <3>. QED
        BY <1>3, <2>2, <3>4, <3>5 DEF DecisionsAreCurrent
    <2>6. \A o \in Orders :
            earning'[o] # None /\ ~Open(o)' =>
              /\ earning'[o] = earning[o] /\ ~Open(o)
              /\ earning[o].settledAt \in Settlers
      BY <2>2, <2>3, RowsAreWhole DEF Open, EarningRow
    <2>7. SettlersAreDone' /\ SettledForItsDriver'
      BY <1>2, <1>3, <2>6 DEF SettlersAreDone, SettledForItsDriver
    <2>8. DriverIsOwed'
      BY <2>1, <2>2, <2>3 DEF DriverIsOwed, Open, Rewrites
    <2>. QED
      BY <1>1, <2>4, <2>5, <2>7, <2>8
  <1>. QED
    BY <1>4, <1>5, <1>6, <1>7 DEF DispatcherNext

LEMMA SettlerKeepsLedgerInv ==
  ASSUME LedgerInv, NEW s \in Settlers, SettlerNext(s)
  PROVE  LedgerInv'
  <1>. USE CallersAssumption DEF LedgerInv, Callers
  <1>1. TypeOK'
    BY SettleKeepsTypes
  <1>2. /\ UNCHANGED <<delivery, job>>
        /\ \A d \in Dispatchers : stage'[d] = stage[d]
        /\ \A q \in Settlers \ {s} :
             /\ stage'[q] = stage[q] /\ account'[q] = account[q]
             /\ held'[q] = held[q] /\ closing'[q] = closing[q]
    BY DEF TypeOK, SettlerNext, owed, settle, LockEarning, CommitSettle, Victim, AbandonSettle,
           EndSettle, Go
  <1>3. ASSUME NEW driver \in Drivers, owed(s, driver)
        PROVE  LedgerInv'
    <2>1. /\ stage[s] = "new" /\ closing[s] = {}
          /\ UNCHANGED <<earning, held, closing>>
      BY <1>3 DEF owed, TypeOK, Working
    <2>2. LocksAreExclusive'
      BY <1>2, <2>1 DEF LocksAreExclusive, LocksEarning
    <2>3. DecisionsAreCurrent'
      BY <1>2, <2>1 DEF DecisionsAreCurrent, Rewrites, Owed, Open
    <2>. QED
      BY <1>1, <1>2, <2>1, <2>2, <2>3, SameRows
  <1>4. CASE settle(s)
    <2>1. stage[s] = "paying" /\ UNCHANGED <<earning, account, held, closing>>
      BY <1>4 DEF settle
    <2>2. LocksAreExclusive'
      BY <1>2, <2>1 DEF LocksAreExclusive, LocksEarning
    <2>3. DecisionsAreCurrent'
      BY <1>2, <2>1 DEF DecisionsAreCurrent, Rewrites, Owed, Open
    <2>. QED
      BY <1>1, <1>2, <2>1, <2>2, <2>3, SameRows
  <1>5. ASSUME NEW o \in Orders, LockEarning(s, o)
        PROVE  LedgerInv'
    <2>1. /\ EarningFree(o)
          /\ held'[s] = held[s] \cup {o}
          /\ \/ closing'[s] = closing[s] \cup {o} /\ Owed(o, account[s])
             \/ closing'[s] = closing[s]
          /\ UNCHANGED <<earning, stage, account>>
      BY <1>5 DEF LockEarning, TypeOK
    <2>2. LocksAreExclusive'
      BY <1>2, <2>1 DEF LocksAreExclusive, LocksEarning, EarningFree
    <2>3. DecisionsAreCurrent'
      BY <1>2, <2>1 DEF DecisionsAreCurrent, Rewrites, Owed, Open
    <2>. QED
      BY <1>1, <1>2, <2>1, <2>2, <2>3, SameRows
  <1>6. CASE Victim(s) \/ AbandonSettle(s)
    <2>1. /\ stage'[s] = "done" /\ held'[s] = {} /\ closing'[s] = {}
          /\ UNCHANGED <<earning, account>>
      BY <1>6 DEF Victim, AbandonSettle, EndSettle, Go, TypeOK
    <2>2. LocksAreExclusive'
      BY <1>2, <2>1 DEF LocksAreExclusive, LocksEarning
    <2>3. DecisionsAreCurrent'
      BY <1>2, <2>1 DEF DecisionsAreCurrent, Rewrites, Owed, Open
    <2>. QED
      BY <1>1, <1>2, <2>1, <2>2, <2>3, SameRows
  <1>7. CASE CommitSettle(s)
    <2>1. /\ stage'[s] = "done" /\ held'[s] = {} /\ closing'[s] = {}
          /\ UNCHANGED account
          /\ closing[s] \subseteq held[s] /\ closing[s] \subseteq Orders
      BY <1>7 DEF CommitSettle, EndSettle, Go, TypeOK
    <2>2. \A o \in closing[s] :
            /\ Open(o) /\ earning[o].driver = account[s]
            /\ earning'[o] # None /\ earning'[o].settledAt = s
            /\ earning'[o].driver = account[s]
            /\ LocksEarning(s, o)
      <3>1. \A o \in closing[s] :
              /\ Open(o) /\ earning[o].driver = account[s] /\ earning[o] \in EarningRow
              /\ earning'[o] = [earning[o] EXCEPT !.settledAt = s]
        BY <1>7, <2>1, RowsAreWhole DEF CommitSettle, DecisionsAreCurrent, Owed, Open
      <3>2. \A o \in closing[s] :
              /\ earning'[o] \in EarningRow /\ earning'[o].settledAt = s
              /\ earning'[o].driver = earning[o].driver
        BY <3>1 DEF EarningRow
      <3>. QED
        BY <2>1, <3>1, <3>2, NoRowAssumption DEF LocksEarning
    <2>3. \A o \in Orders \ closing[s] : earning'[o] = earning[o]
      BY <1>7 DEF CommitSettle
    <2>4. LocksAreExclusive'
      BY <1>2, <2>1 DEF LocksAreExclusive, LocksEarning
    <2>5. DecisionsAreCurrent'
      <3>1. ASSUME NEW d \in Dispatchers, stage[d] \in {"assigning", "keeping"}
            PROVE  job[d].order \in Orders \ closing[s]
        <4>1. job[d].order \in Orders /\ LocksEarning(d, job[d].order)
          BY <3>1, RowsAreWhole DEF TypeOK, Job, LocksEarning
        <4>. QED
          BY <2>2, <4>1 DEF LocksAreExclusive
      <3>2. ASSUME NEW q \in Settlers \ {s}, NEW o \in closing[q]
            PROVE  o \in Orders \ closing[s]
        <4>1. o \in Orders /\ LocksEarning(q, o)
          BY <3>2 DEF TypeOK, LocksEarning
        <4>. QED
          BY <2>2, <4>1 DEF LocksAreExclusive
      <3>3. \A d \in Dispatchers :
              /\ stage'[d] = "assigning" => Rewrites(job[d].order)'
              /\ stage'[d] = "keeping" => ~Rewrites(job[d].order)'
        BY <1>2, <2>3, <3>1 DEF DecisionsAreCurrent, Rewrites, Open
      <3>4. \A q \in Settlers : \A o \in closing'[q] : Owed(o, account[q])'
        BY <1>2, <2>1, <2>3, <3>2 DEF DecisionsAreCurrent, Owed, Open
      <3>. QED
        BY <3>3, <3>4 DEF DecisionsAreCurrent
    <2>6. \A o \in Orders \ closing[s] :
            earning[o] # None /\ ~Open(o) => earning[o].settledAt \in Settlers
      BY RowsAreWhole DEF Open, EarningRow
    <2>7. SettlersAreDone' /\ SettledForItsDriver'
      BY <1>2, <2>1, <2>2, <2>3, <2>6 DEF SettlersAreDone, SettledForItsDriver, Open
    <2>8. DriverIsOwed'
      BY <1>2, <2>2, <2>3, NoSettlerAssumption DEF DriverIsOwed, Open
    <2>. QED
      BY <1>1, <2>4, <2>5, <2>7, <2>8
  <1>. QED
    BY <1>3, <1>4, <1>5, <1>6, <1>7 DEF SettlerNext

LEMMA StutterKeepsLedgerInv == LedgerInv /\ UNCHANGED vars => LedgerInv'
  BY DEF LedgerInv, vars, TypeOK, LocksAreExclusive, LocksEarning, DecisionsAreCurrent, Rewrites,
         Owed, Open, SettlersAreDone, SettledForItsDriver, DriverIsOwed, Working

\* The ledger's invariant holds in every state.
THEOREM LedgerInvariance == Spec => []LedgerInv
  <1>1. LedgerInv /\ [Next]_vars => LedgerInv'
    BY DispatcherKeepsLedgerInv, SettlerKeepsLedgerInv, StutterKeepsLedgerInv DEF Next
  <1>. QED
    BY <1>1, InitLedgerInv, PTL DEF Spec

\* Rows and local variables have their types (deliveries, driver_earnings).
THEOREM LedgerTypeCorrect == Spec => []TypeOK
  BY LedgerInvariance, PTL DEF LedgerInv

\* A settlement only ever closes earnings of the driver it is for (settle).
THEOREM SettlesItsDriver == Spec => []SettledForItsDriver
  BY LedgerInvariance, PTL DEF LedgerInv

\* An order out for delivery has one earning, owed to its driver while it is
\* open (assign).
THEOREM OwedToTheDriver == Spec => []DriverIsOwed
  BY LedgerInvariance, PTL DEF LedgerInv

\* No step changes a settled earning (assign, settle).
THEOREM HistoryStays == Spec => SettledIsHistory
  <1>. DEFINE Kept == \A o \in Orders :
                earning[o] # None /\ ~Open(o) => earning'[o] = earning[o]
  <1>1. ASSUME LedgerInv, Next PROVE Kept
    <2>. USE CallersAssumption DEF LedgerInv, Callers
    <2>1. ASSUME NEW d \in Dispatchers, CommitAssign(d)
          PROVE  Kept
      <3>1. stage[d] = "assigning" => Rewrites(job[d].order)
        BY <1>1 DEF DecisionsAreCurrent
      <3>. QED
        BY <2>1, <3>1 DEF CommitAssign, Rewrites, TypeOK
    <2>2. ASSUME NEW s \in Settlers, CommitSettle(s)
          PROVE  Kept
      <3>1. \A o \in closing[s] : Open(o)
        BY <1>1 DEF DecisionsAreCurrent, Owed
      <3>. QED
        BY <2>2, <3>1 DEF CommitSettle
    <2>3. CASE UNCHANGED earning
      BY <2>3
    <2>. QED
      BY <1>1, <2>1, <2>2, <2>3
      DEF Next, DispatcherNext, SettlerNext, assign, setStatus, ClaimDelivery, ClaimEarning,
          AbandonAssign, owed, settle, LockEarning, Victim, AbandonSettle
  <1>2. LedgerInv /\ [Next]_vars => [Kept]_vars
    BY <1>1
  <1>. QED
    BY <1>2, LedgerInvariance, PTL DEF Spec, SettledIsHistory

=============================================================================
