------------------------------- MODULE Delivery ------------------------------
(***************************************************************************)
(* DeliveryService (vertical/restaurants/delivery.service.ts): deliveries, *)
(* and the ledger of what the restaurant owes its drivers.                 *)
(*                                                                         *)
(* assign writes two rows in one transaction, the order's delivery and     *)
(* then its earning; settle is one UPDATE over every earning that is open  *)
(* for a driver.  Both take row locks in turn and keep them to the commit. *)
(* PostgreSQL picks the rows of an UPDATE when the statement begins, locks *)
(* them one by one, and looks at each again once it has the lock.          *)
(*                                                                         *)
(* A settler is a process that reads what a driver is owed, pays it        *)
(* outside the system, and settles, once: its identity stands for the time *)
(* it settles at.  A dispatcher calls assign and setStatus again and again.*)
(***************************************************************************)
EXTENDS Naturals, FiniteSetsExt

CONSTANTS
  Orders,
  Drivers,          \* phone numbers
  Amounts,          \* earnings, in minor units
  Dispatchers,      \* callers of assign and setStatus
  Settlers,         \* callers of owed and settle
  DeliveryStatus,
  None

ASSUME CallersAssumption == Dispatchers \cap Settlers = {}
ASSUME AmountsAssumption == Amounts \subseteq Nat
ASSUME StatusAssumption == "assigned" \in DeliveryStatus
ASSUME NoSettlerAssumption == None \notin Settlers \cup Drivers

VARIABLES
  delivery,    \* the deliveries table, a row per order
  earning,     \* the driver_earnings table, a row per order
  stage,       \* where each caller is
  job,         \* what a dispatcher assigns
  account,     \* the driver a settler deals with
  tally,       \* the earnings whose sum a settler was told the driver is owed
  todo,        \* the rows a settler's UPDATE has yet to lock
  held,        \* the rows it has locked
  closing      \* those of them that it still had to close once it had the lock

vars == <<delivery, earning, stage, job, account, tally, todo, held, closing>>

Callers == Dispatchers \cup Settlers

DeliveryRow == [driver : Drivers, status : DeliveryStatus]

\* settledAt is null while the earning is open.
EarningRow == [driver : Drivers, amount : Amounts, settledAt : Settlers \cup {None}]

Job == [order : Orders, driver : Drivers, amount : Amounts]

ASSUME NoRowAssumption == None \notin DeliveryRow \cup EarningRow \cup Job

Stages == {"idle", "claiming", "posting", "assigning", "keeping",
           "new", "paying", "settling", "done"}

Working(s) == stage[s] = "settling"

\* Rows and local variables have their types; row locks belong to settlements
\* that are under way.
TypeOK ==
  /\ delivery \in [Orders -> DeliveryRow \cup {None}]
  /\ earning \in [Orders -> EarningRow \cup {None}]
  /\ stage \in [Callers -> Stages]
  /\ job \in [Dispatchers -> Job \cup {None}]
  /\ account \in [Settlers -> Drivers \cup {None}]
  /\ tally \in [Settlers -> SUBSET (Orders \X Amounts)]
  /\ todo \in [Settlers -> SUBSET Orders]
  /\ held \in [Settlers -> SUBSET Orders]
  /\ closing \in [Settlers -> SUBSET Orders]
  /\ \A d \in Dispatchers :
       /\ stage[d] \in {"idle", "claiming", "posting", "assigning", "keeping"}
       /\ stage[d] # "idle" <=> job[d] # None
  /\ \A s \in Settlers :
       /\ stage[s] \in {"new", "paying", "settling", "done"}
       /\ stage[s] \in {"paying", "settling"} => account[s] # None
       /\ ~Working(s) => todo[s] = {} /\ held[s] = {}
       /\ closing[s] \subseteq held[s]

Init ==
  /\ delivery = [o \in Orders |-> None]
  /\ earning = [o \in Orders |-> None]
  /\ stage = [c \in Callers |-> IF c \in Settlers THEN "new" ELSE "idle"]
  /\ job = [d \in Dispatchers |-> None]
  /\ account = [s \in Settlers |-> None]
  /\ tally = [s \in Settlers |-> {}]
  /\ todo = [s \in Settlers |-> {}]
  /\ held = [s \in Settlers |-> {}]
  /\ closing = [s \in Settlers |-> {}]

-----------------------------------------------------------------------------
(* row locks *)

LocksDelivery(d, o) ==
  stage[d] \in {"posting", "assigning", "keeping"} /\ job[d].order = o

LocksEarning(c, o) ==
  \/ c \in Dispatchers /\ stage[c] \in {"assigning", "keeping"} /\ job[c].order = o
  \/ c \in Settlers /\ o \in held[c]

DeliveryFree(o) == \A d \in Dispatchers : ~LocksDelivery(d, o)

EarningFree(o) == \A c \in Callers : ~LocksEarning(c, o)

Go(c, to) == stage' = [stage EXCEPT ![c] = to]

-----------------------------------------------------------------------------
(* assign, setStatus *)

assign(d, o, driver, amount) ==
  /\ stage[d] = "idle"
  /\ Go(d, "claiming")
  /\ job' = [job EXCEPT ![d] = [order |-> o, driver |-> driver, amount |-> amount]]
  /\ UNCHANGED <<delivery, earning, account, tally, todo, held, closing>>

\* INSERT INTO deliveries ... ON CONFLICT: the order's row, or its place in the
\* unique index, is this transaction's.
ClaimDelivery(d) ==
  /\ stage[d] = "claiming"
  /\ DeliveryFree(job[d].order)
  /\ Go(d, "posting")
  /\ UNCHANGED <<delivery, earning, job, account, tally, todo, held, closing>>

Open(o) == earning[o] # None /\ earning[o].settledAt = None

\* A settled earning is not rewritten.
Rewrites(o) == earning[o] = None \/ Open(o)

\* Slip: the row is looked at without its lock.
ClaimEarningAtOnce(d) ==
  /\ stage[d] = "posting"
  /\ Go(d, IF Rewrites(job[d].order) THEN "assigning" ELSE "keeping")
  /\ UNCHANGED <<delivery, earning, job, account, tally, todo, held, closing>>

\* INSERT INTO driver_earnings ... ON CONFLICT DO UPDATE ... WHERE: the lock is
\* kept whether or not the row is rewritten.
ClaimEarning(d) ==
  /\ stage[d] = "posting"
  /\ EarningFree(job[d].order)
  /\ Go(d, IF Rewrites(job[d].order) THEN "assigning" ELSE "keeping")
  /\ UNCHANGED <<delivery, earning, job, account, tally, todo, held, closing>>

Assigned(j) == [driver |-> j.driver, status |-> "assigned"]

Earned(j) == [driver |-> j.driver, amount |-> j.amount, settledAt |-> None]

\* Slip: ON CONFLICT DO NOTHING.
CommitAssignOnce(d) ==
  LET j == job[d] IN
  /\ stage[d] \in {"assigning", "keeping"}
  /\ delivery' = [delivery EXCEPT ![j.order] = Assigned(j)]
  /\ earning' = IF earning[j.order] = None THEN [earning EXCEPT ![j.order] = Earned(j)]
                ELSE earning
  /\ Go(d, "idle")
  /\ job' = [job EXCEPT ![d] = None]
  /\ UNCHANGED <<account, tally, todo, held, closing>>

CommitAssign(d) ==
  LET j == job[d] IN
  /\ stage[d] \in {"assigning", "keeping"}
  /\ delivery' = [delivery EXCEPT ![j.order] = Assigned(j)]
  /\ earning' = IF stage[d] = "assigning" THEN [earning EXCEPT ![j.order] = Earned(j)]
                ELSE earning
  /\ Go(d, "idle")
  /\ job' = [job EXCEPT ![d] = None]
  /\ UNCHANGED <<account, tally, todo, held, closing>>

\* One statement, any status to any other.
setStatus(d, o, status) ==
  /\ stage[d] = "idle"
  /\ delivery[o] # None
  /\ DeliveryFree(o)
  /\ delivery' = [delivery EXCEPT ![o].status = status]
  /\ UNCHANGED <<earning, stage, job, account, tally, todo, held, closing>>

-----------------------------------------------------------------------------
(* owed, settle *)

\* The filter that owed and settle share.
Owed(o, driver) == Open(o) /\ earning[o].driver = driver

owed(s, driver) ==
  /\ stage[s] = "new"
  /\ Go(s, "paying")
  /\ account' = [account EXCEPT ![s] = driver]
  /\ tally' = [tally EXCEPT ![s] =
                 {<<o, earning[o].amount>> : o \in {p \in Orders : Owed(p, driver)}}]
  /\ UNCHANGED <<delivery, earning, job, todo, held, closing>>

\* The statement begins and picks its rows.
settle(s) ==
  /\ stage[s] = "paying"
  /\ Go(s, "settling")
  /\ todo' = [todo EXCEPT ![s] = {o \in Orders : Owed(o, account[s])}]
  /\ UNCHANGED <<delivery, earning, job, account, tally, held, closing>>

\* Slip: the row is settled because it was picked.
LockEarningBlindly(s, o) ==
  /\ Working(s) /\ o \in todo[s]
  /\ EarningFree(o)
  /\ todo' = [todo EXCEPT ![s] = @ \ {o}]
  /\ held' = [held EXCEPT ![s] = @ \cup {o}]
  /\ closing' = [closing EXCEPT ![s] = @ \cup {o}]
  /\ UNCHANGED <<delivery, earning, stage, job, account, tally>>

\* The row is looked at again once it is locked.
LockEarning(s, o) ==
  /\ Working(s) /\ o \in todo[s]
  /\ EarningFree(o)
  /\ todo' = [todo EXCEPT ![s] = @ \ {o}]
  /\ held' = [held EXCEPT ![s] = @ \cup {o}]
  /\ closing' = IF Owed(o, account[s]) THEN [closing EXCEPT ![s] = @ \cup {o}] ELSE closing
  /\ UNCHANGED <<delivery, earning, stage, job, account, tally>>

\* Slip: locks that outlive the transaction.
EndSettleKeepsLocks(s) ==
  /\ Go(s, "done")
  /\ todo' = [todo EXCEPT ![s] = {}]
  /\ closing' = [closing EXCEPT ![s] = {}]
  /\ UNCHANGED <<delivery, job, account, tally, held>>

EndSettle(s) ==
  /\ Go(s, "done")
  /\ todo' = [todo EXCEPT ![s] = {}]
  /\ held' = [held EXCEPT ![s] = {}]
  /\ closing' = [closing EXCEPT ![s] = {}]
  /\ UNCHANGED <<delivery, job, account, tally>>

CommitSettle(s) ==
  /\ Working(s) /\ todo[s] = {}
  /\ earning' = [o \in Orders |->
       IF o \in closing[s] THEN [earning[o] EXCEPT !.settledAt = s] ELSE earning[o]]
  /\ EndSettle(s)

\* Settlements that each wait for a row another one of them has locked.
Deadlocked(S) ==
  \A s \in S :
    /\ Working(s) /\ todo[s] # {}
    /\ todo[s] \subseteq UNION {held[q] : q \in S \ {s}}

\* 40P01: the deadlock detector ends one of them.
Victim(s) ==
  /\ \E S \in SUBSET Settlers : s \in S /\ Deadlocked(S)
  /\ EndSettle(s)
  /\ UNCHANGED earning

-----------------------------------------------------------------------------
\* The connection or the process goes before the commit.
AbandonAssign(d) ==
  /\ stage[d] \in {"claiming", "posting", "assigning", "keeping"}
  /\ Go(d, "idle")
  /\ job' = [job EXCEPT ![d] = None]
  /\ UNCHANGED <<delivery, earning, account, tally, todo, held, closing>>

AbandonSettle(s) ==
  /\ stage[s] \in {"paying", "settling"}
  /\ EndSettle(s)
  /\ UNCHANGED earning

DispatcherNext(d) ==
  \/ \E o \in Orders, driver \in Drivers, amount \in Amounts : assign(d, o, driver, amount)
  \/ \E o \in Orders, status \in DeliveryStatus : setStatus(d, o, status)
  \/ ClaimDelivery(d)
  \/ ClaimEarning(d)
  \/ CommitAssign(d)
  \/ AbandonAssign(d)

SettlerNext(s) ==
  \/ \E driver \in Drivers : owed(s, driver)
  \/ settle(s)
  \/ \E o \in Orders : LockEarning(s, o)
  \/ CommitSettle(s)
  \/ Victim(s)
  \/ AbandonSettle(s)

Next ==
  \/ \E d \in Dispatchers : DispatcherNext(d)
  \/ \E s \in Settlers : SettlerNext(s)

Spec == Init /\ [][Next]_vars

-----------------------------------------------------------------------------
(* properties *)

\* "Never rewrite a SETTLED earning - that row is closed history": not by a
\* reassignment that began while it was open, not by a second settlement that
\* waited for the first.
SettledIsHistory ==
  [][\A o \in Orders :
       earning[o] # None /\ ~Open(o) => earning'[o] = earning[o]]_vars

\* A settlement closes earnings of the driver it is for, although an order may
\* be given to another driver between the picking of its row and the lock.
SettledForItsDriver ==
  \A o \in Orders :
    earning[o] # None /\ ~Open(o) => account[earning[o].settledAt] = earning[o].driver

\* "A second assign REASSIGNS (replaces the driver and earning)": an order that
\* is out for delivery has one earning, and while that is open it is owed to
\* whoever drives.
DriverIsOwed ==
  \A o \in Orders :
    /\ delivery[o] = None <=> earning[o] = None
    /\ Open(o) => earning[o].driver = delivery[o].driver

AmountOf(entry) == entry[2]

Closed(s) ==
  {<<o, earning[o].amount>> : o \in {p \in Orders : earning[p] # None /\ earning[p].settledAt = s}}

\* "Restaurant paid the driver (off-platform), mark the period settled": what a
\* settlement closes is at most what it was told to pay.  It does not hold: see
\* the README.
NothingClosedUnpaid ==
  \A s \in Settlers : MapThenSumSet(AmountOf, Closed(s)) <= MapThenSumSet(AmountOf, tally[s])

=============================================================================
