---------------------------- MODULE Reservations ----------------------------
(***************************************************************************)
(* ReservationService (vertical/restaurants/reservation.service.ts) of one *)
(* branch, the diner route that books through it, and the exclusion        *)
(* constraint ex_reservations_no_overlap that it rests on.                 *)
(*                                                                         *)
(* Each write is one statement in a transaction of its own.  PostgreSQL    *)
(* puts the new row version into the index first and looks for clashing    *)
(* versions afterwards: a committed one is a violation, one that another   *)
(* transaction is still writing is waited for, and when transactions wait  *)
(* for each other one of them is made to fail.  The model takes these as   *)
(* separate steps, because two callers interleave there.                   *)
(*                                                                         *)
(* A booking is a request that may create one row; its identity stands for *)
(* the row's fresh UUID.                                                   *)
(***************************************************************************)
EXTENDS Naturals, FiniteSets

CONSTANTS
  Bookings,    \* requests that may create a reservation
  Staff,       \* callers of setStatus, modify and promoteFromWaitlist
  Tables,
  Capacity,    \* of each table
  Windows,     \* the time spans that requests name
  Parties,     \* the party sizes that requests name
  SetTo,       \* the statuses staff set
  None

ASSUME WritersAssumption == Bookings \cap Staff = {}
ASSUME NoTableAssumption == None \notin Tables
ASSUME CapacityAssumption == Capacity \in [Tables -> Nat]
ASSUME WindowsAssumption == Windows \subseteq {w \in [start : Nat, end : Nat] : w.start < w.end}
ASSUME PartiesAssumption == Parties \subseteq Nat
ASSUME SetToAssumption ==
  SetTo \subseteq {"seated", "completed", "no_show", "cancelled"}

VARIABLES
  request,     \* what each booking asks for
  chosen,      \* the table it was offered or named
  answer,      \* what its caller was told
  row,         \* the reservations table as committed
  stage,       \* where each writer's transaction is
  pending,     \* the row version it has written and not committed
  broken       \* whether a transaction was lost to an unrelated failure

vars == <<request, chosen, answer, row, stage, pending, broken>>

Writers == Bookings \cup Staff

TERMINAL_STATUS == {"seated", "completed", "no_show", "cancelled"}
ReservationStatus == {"confirmed", "waitlisted"} \cup TERMINAL_STATUS
Answers == {"booked", "waitlisted", "no_table", "over_capacity", "slot_taken", "error"}

Row == [table : Tables \cup {None}, party : Parties, window : Windows,
        status : ReservationStatus]

Write == [id : Bookings, version : Row]

ASSUME NullAssumption == None \notin Write /\ None \notin Row /\ None \notin Answers

\* Every reservation row has a status its check constraint allows, and every
\* uncommitted version belongs to a transaction that is under way.
TypeOK ==
  /\ request \in [Bookings -> [party : Parties, window : Windows]]
  /\ chosen \in [Bookings -> Tables \cup {None}]
  /\ answer \in [Bookings -> Answers \cup {None}]
  /\ row \in [Bookings -> Row \cup {None}]
  /\ stage \in [Writers -> {"idle", "writing", "passed"}]
  /\ pending \in [Writers -> Write \cup {None}]
  /\ broken \in BOOLEAN
  /\ \A w \in Writers : stage[w] = "idle" <=> pending[w] = None

Init ==
  /\ request \in [Bookings -> [party : Parties, window : Windows]]
  /\ chosen = [b \in Bookings |-> None]
  /\ answer = [b \in Bookings |-> None]
  /\ row = [b \in Bookings |-> None]
  /\ stage = [w \in Writers |-> "idle"]
  /\ pending = [w \in Writers |-> None]
  /\ broken = FALSE

-----------------------------------------------------------------------------
(* the exclusion constraint *)

Overlap(v, w) == v.start < w.end /\ w.start < v.end

Active(r) == r # None /\ r.status \in {"confirmed", "seated"}

\* Slip: the constraint without its WHERE clause.
ClashAnyStatus(r, s) ==
  /\ r # None /\ s # None
  /\ r.table # None /\ r.table = s.table
  /\ Overlap(r.window, s.window)

\* A null table is equal to nothing.
Clash(r, s) ==
  /\ Active(r) /\ Active(s)
  /\ r.table # None /\ r.table = s.table
  /\ Overlap(r.window, s.window)

\* w has a version of row id that is not committed: it holds the row's lock.
Holds(w, id) == pending[w] # None /\ pending[w].id = id

\* What w must wait for: another transaction at work on a row of which the old
\* or the new version clashes with w's.
Waits(w, q) ==
  /\ stage[w] = "writing" /\ q # w
  /\ pending[q] # None
  /\ \/ Clash(pending[w].version, pending[q].version)
     \/ Clash(pending[w].version, row[pending[q].id])

\* A committed row that nobody is changing clashes with w's version.
Violates(w) ==
  \E d \in Bookings \ {pending[w].id} :
    /\ \A q \in Writers : ~Holds(q, d)
    /\ Clash(pending[w].version, row[d])

\* w is one of a set of transactions that all wait for each other.
InDeadlock(w) ==
  \E S \in SUBSET Writers :
    /\ w \in S
    /\ \A x \in S : (\E y \in S : Waits(x, y)) /\ (\E y \in S : Waits(y, x))

\* The statement of w: it takes the row's lock and writes a version, which the
\* constraint looks at unless nothing the index holds has changed.
Put(w, id, version) ==
  /\ stage[w] = "idle"
  /\ \A q \in Writers : ~Holds(q, id)
  /\ pending' = [pending EXCEPT ![w] = [id |-> id, version |-> version]]
  /\ stage' = [stage EXCEPT ![w] =
       IF /\ row[id] # None
          /\ [row[id] EXCEPT !.party = version.party] = version
       THEN "passed" ELSE "writing"]

\* w's transaction ends and its locks and uncommitted version go.
End(w) ==
  /\ stage' = [stage EXCEPT ![w] = "idle"]
  /\ pending' = [pending EXCEPT ![w] = None]

Told(w, what) ==
  answer' = IF w \in Bookings THEN [answer EXCEPT ![w] = what] ELSE answer

\* Slip: only committed rows are looked at.
PassCommitted(w) ==
  /\ stage[w] = "writing"
  /\ ~Violates(w)
  /\ stage' = [stage EXCEPT ![w] = "passed"]
  /\ UNCHANGED <<request, chosen, answer, row, pending, broken>>

\* No clash, nobody to wait for.
Pass(w) ==
  /\ stage[w] = "writing"
  /\ ~Violates(w)
  /\ \A q \in Writers : ~Waits(w, q)
  /\ stage' = [stage EXCEPT ![w] = "passed"]
  /\ UNCHANGED <<request, chosen, answer, row, pending, broken>>

\* Slip: the error is caught where it is raised and the transaction stays open.
ViolateSwallowed(w) ==
  /\ stage[w] = "writing"
  /\ Violates(w)
  /\ Told(w, "slot_taken")
  /\ UNCHANGED <<request, chosen, row, stage, pending, broken>>

\* Slip: what somebody else has written and not committed counts as taken.
ViolateEarly(w) ==
  /\ stage[w] = "writing"
  /\ Violates(w) \/ \E q \in Writers : Waits(w, q)
  /\ End(w)
  /\ Told(w, "slot_taken")
  /\ UNCHANGED <<request, chosen, row, broken>>

\* 23P01, which book turns into slot_taken.
Violate(w) ==
  /\ stage[w] = "writing"
  /\ Violates(w)
  /\ End(w)
  /\ Told(w, "slot_taken")
  /\ UNCHANGED <<request, chosen, row, broken>>

\* 40P01, which nobody catches: the deadlock detector picks w.
Victim(w) ==
  /\ InDeadlock(w)
  /\ End(w)
  /\ Told(w, "error")
  /\ UNCHANGED <<request, chosen, row, broken>>

Commit(w) ==
  /\ stage[w] = "passed"
  /\ row' = [row EXCEPT ![pending[w].id] = pending[w].version]
  /\ End(w)
  /\ Told(w, IF pending[w].version.status = "waitlisted" THEN "waitlisted" ELSE "booked")
  /\ UNCHANGED <<request, chosen, broken>>

\* The connection or the process goes before the commit.
Abandon(w) ==
  /\ stage[w] # "idle"
  /\ End(w)
  /\ Told(w, "error")
  /\ broken' = TRUE
  /\ UNCHANGED <<request, chosen, row>>

-----------------------------------------------------------------------------
(* operations *)

Fresh(b) == answer[b] = None /\ stage[b] = "idle" /\ chosen[b] = None

Free(t, window) ==
  \A d \in Bookings :
    Active(row[d]) /\ row[d].table = t => ~Overlap(row[d].window, window)

Offered(party, window) == {t \in Tables : party <= Capacity[t] /\ Free(t, window)}

\* The diner route: the smallest table that fits and is free by what is
\* committed now, or no table.
findAvailableTable(b) ==
  LET offered == Offered(request[b].party, request[b].window) IN
  /\ Fresh(b)
  /\ \/ /\ offered = {}
        /\ Told(b, "no_table")
        /\ UNCHANGED chosen
     \/ \E t \in offered :
          /\ \A u \in offered : Capacity[t] <= Capacity[u]
          /\ chosen' = [chosen EXCEPT ![b] = t]
          /\ UNCHANGED answer
  /\ UNCHANGED <<request, row, stage, pending, broken>>

\* A caller of book that names the table itself.
nameTable(b, t) ==
  /\ Fresh(b)
  /\ chosen' = [chosen EXCEPT ![b] = t]
  /\ UNCHANGED <<request, answer, row, stage, pending, broken>>

book(b) ==
  LET t == chosen[b] IN
  /\ answer[b] = None /\ t # None /\ stage[b] = "idle"
  /\ IF request[b].party > Capacity[t]
     THEN Told(b, "over_capacity") /\ UNCHANGED <<stage, pending>>
     ELSE /\ Put(b, b, [table |-> t, party |-> request[b].party,
                        window |-> request[b].window, status |-> "confirmed"])
          /\ UNCHANGED answer
  /\ UNCHANGED <<request, chosen, row, broken>>

addToWaitlist(b) ==
  /\ Fresh(b)
  /\ Put(b, b, [table |-> None, party |-> request[b].party,
                window |-> request[b].window, status |-> "waitlisted"])
  /\ UNCHANGED <<request, chosen, answer, row, broken>>

\* UPDATE ... WHERE id: takes the latest committed version once the row is free.
Update(s, id, version) ==
  /\ row[id] # None
  /\ Put(s, id, version)
  /\ UNCHANGED <<request, chosen, answer, row, broken>>

\* cancel is setStatus to "cancelled".
setStatus(s, id, status) == Update(s, id, [row[id] EXCEPT !.status = status])

modify(s, id, window, party) ==
  Update(s, id, [row[id] EXCEPT !.window = window, !.party = party])

promoteFromWaitlist(s, id, t) ==
  Update(s, id, [row[id] EXCEPT !.table = t, !.status = "confirmed"])

BookingNext(b) ==
  \/ findAvailableTable(b)
  \/ \E t \in Tables : nameTable(b, t)
  \/ book(b)
  \/ addToWaitlist(b)

StaffNext(s) ==
  \E id \in Bookings :
    \/ \E status \in SetTo : setStatus(s, id, status)
    \/ \E window \in Windows, party \in Parties : modify(s, id, window, party)
    \/ \E t \in Tables : promoteFromWaitlist(s, id, t)

WriterNext(w) ==
  \/ Pass(w)
  \/ Violate(w)
  \/ Victim(w)
  \/ Commit(w)
  \/ Abandon(w)

Next ==
  \/ \E b \in Bookings : BookingNext(b)
  \/ \E s \in Staff : StaffNext(s)
  \/ \E w \in Writers : WriterNext(w)

Spec == Init /\ [][Next]_vars

\* The database answers every statement and its deadlock detector runs; a
\* transaction that is woken again and again gets its turn.
Fairness ==
  \A w \in Writers :
    /\ SF_vars(Pass(w) \/ Violate(w) \/ Victim(w))
    /\ WF_vars(Commit(w))

FairSpec == Spec /\ Fairness

-----------------------------------------------------------------------------
(* properties *)

\* "Two overlapping active reservations for the same table cannot both commit,
\* even under concurrency", whichever operations brought them there: bookings,
\* changes of time, promotions, and statuses set again on closed reservations.
NoDoubleBooking ==
  \A a, b \in Bookings : a # b => ~Clash(row[a], row[b])

\* "Double-booking prevention is ATOMIC": to whoever sees rows and answers, each
\* request is decided at one instant, on what stands then.  A refusal names what
\* is true at that instant, a booking fits its table and is clear of the others,
\* and a change starts from the latest row (Calendar).
Cal == INSTANCE Calendar WITH asked <- request
ImplementsCalendar == Cal!CSpec

\* Every call ends, although writers wait for each other.
WritersFinish ==
  \A w \in Writers : stage[w] # "idle" ~> stage[w] = "idle"

\* "Exactly one wins": the bookings of a table never all lose to each other.
\* Once one is under way the table gets an active reservation, unless a
\* transaction is lost to something else (book under the constraint).
SomebodyGetsTheTable ==
  \A b \in Bookings :
    (stage[b] = "writing" /\ pending[b].version.table # None) ~>
      \/ broken
      \/ answer[b] = "booked"
      \/ \E d \in Bookings : Active(row[d]) /\ row[d].table = chosen[b]

\* A party is never larger than the table it is booked on ("party exceeds table
\* capacity").  It does not hold: see the README.
PartiesFit ==
  \A b \in Bookings :
    Active(row[b]) /\ row[b].table # None => row[b].party <= Capacity[row[b].table]

=============================================================================
