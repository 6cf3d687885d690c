------------------------------ MODULE Calendar ------------------------------
(***************************************************************************)
(* What the class comment of ReservationService promises of the book of a  *)
(* branch ("double-booking prevention is ATOMIC"): each request is decided *)
(* in one step, against the reservations that stand at that moment.  It    *)
(* gets a table that is free then, or learns why not, and the reason is    *)
(* true then; a refused request leaves nothing behind.  Staff change a     *)
(* reservation in one step too, from what it says then.                    *)
(***************************************************************************)
EXTENDS Naturals

CONSTANTS Bookings, Tables, Capacity, Windows, Parties, SetTo, None

VARIABLES
  asked,     \* what each request asks for
  row,       \* the reservations that stand
  answer     \* what each request was told

calendarVars == <<asked, row, answer>>

CInit ==
  /\ asked \in [Bookings -> [party : Parties, window : Windows]]
  /\ row = [b \in Bookings |-> None]
  /\ answer = [b \in Bookings |-> None]

(* Somebody else's reservation keeps the table for part of the time span.   *)
Taken(t, window, b) ==
  \E d \in Bookings \ {b} :
    /\ row[d] # None /\ row[d].table = t /\ row[d].status \in {"confirmed", "seated"}
    /\ row[d].window.start < window.end /\ window.start < row[d].window.end

Fits(b, t) == asked[b].party <= Capacity[t]

Answer(b, what) == answer[b] = None /\ answer' = [answer EXCEPT ![b] = what]

Enter(b, t, status) ==
  row' = [row EXCEPT ![b] = [table |-> t, party |-> asked[b].party,
                             window |-> asked[b].window, status |-> status]]

Reserve(b) ==
  \E t \in Tables :
    /\ Fits(b, t) /\ ~Taken(t, asked[b].window, b)
    /\ row[b] = None /\ Enter(b, t, "confirmed")
    /\ Answer(b, "booked")

Queue(b) ==
  /\ row[b] = None /\ Enter(b, None, "waitlisted")
  /\ Answer(b, "waitlisted")

Refuse(b) ==
  /\ row' = row
  /\ \/ /\ \A t \in Tables : Fits(b, t) => Taken(t, asked[b].window, b)
        /\ Answer(b, "no_table")
     \/ /\ \E t \in Tables : ~Fits(b, t)
        /\ Answer(b, "over_capacity")
     \/ /\ \E t \in Tables : Fits(b, t) /\ Taken(t, asked[b].window, b)
        /\ Answer(b, "slot_taken")
     \/ Answer(b, "error")

(* Staff make r of a reservation, unless that takes somebody else's table.   *)
Become(b, r) ==
  /\ row[b] # None
  /\ r.table # None /\ r.status \in {"confirmed", "seated"} => ~Taken(r.table, r.window, b)
  /\ row' = [row EXCEPT ![b] = r]
  /\ answer' = answer

Revise(b) ==
  \/ \E status \in SetTo : Become(b, [row[b] EXCEPT !.status = status])
  \/ \E window \in Windows, party \in Parties :
       Become(b, [row[b] EXCEPT !.window = window, !.party = party])
  \/ \E t \in Tables : Become(b, [row[b] EXCEPT !.table = t, !.status = "confirmed"])

CNext ==
  /\ asked' = asked
  /\ \E b \in Bookings : Reserve(b) \/ Queue(b) \/ Refuse(b) \/ Revise(b)

CSpec == CInit /\ [][CNext]_calendarVars
=============================================================================
