------------------------- MODULE ReservationsProofs -------------------------
(***************************************************************************)
(* No double booking, and the refinement of Calendar, for every number of  *)
(* requests, callers, tables and windows.                                  *)
(***************************************************************************)
EXTENDS Reservations, TLAPS

\* A row is locked by one transaction at a time.
RowLocks ==
  \A w, q \in Writers :
    w # q /\ pending[w] # None /\ pending[q] # None => pending[w].id # pending[q].id

\* A version the constraint has let pass clashes with no other committed row
\* and with no other version it has let pass.
PassedIsClear ==
  \A w \in Writers : stage[w] = "passed" =>
    /\ \A d \in Bookings : d # pending[w].id => ~Clash(pending[w].version, row[d])
    /\ \A q \in Writers : q # w /\ stage[q] = "passed" =>
         ~Clash(pending[w].version, pending[q].version)

BookingInv == TypeOK /\ RowLocks /\ PassedIsClear /\ NoDoubleBooking

LEMMA ClashIsSymmetric == \A r, s : Clash(r, s) => Clash(s, r)
  BY DEF Clash, Overlap

\* Two versions that the index cannot tell apart clash with the same rows.
LEMMA SameKeySameClash ==
  ASSUME NEW r, NEW s, NEW x, s # None,
         r.table = s.table, r.window = s.window, r.status = s.status,
         Clash(r, x)
  PROVE  Clash(s, x)
  BY DEF Clash, Active, Overlap

LEMMA InitBookingInv == Init => BookingInv
  <1> SUFFICES ASSUME Init PROVE BookingInv
    OBVIOUS
  <1>1. TypeOK
    BY DEF Init, TypeOK
  <1>2. RowLocks /\ PassedIsClear /\ NoDoubleBooking
    BY DEF Init, RowLocks, PassedIsClear, NoDoubleBooking, Clash, Active
  <1>3. QED
    BY <1>1, <1>2 DEF BookingInv

\* A statement that writes a version of a row nobody has locked.
LEMMA PutKeepsBookingInv ==
  ASSUME BookingInv, NEW w \in Writers, NEW id \in Bookings, NEW version \in Row,
         Put(w, id, version),
         UNCHANGED <<request, chosen, answer, row, broken>>
  PROVE  BookingInv'
  <1> DEFINE p == [id |-> id, version |-> version]
             key == row[id] # None /\ [row[id] EXCEPT !.party = version.party] = version
  <1> USE DEF BookingInv
  <1>1. p \in Write /\ p # None
    BY NullAssumption DEF Write
  <1>2. /\ pending' = [pending EXCEPT ![w] = p]
        /\ stage' = [stage EXCEPT ![w] = IF key THEN "passed" ELSE "writing"]
        /\ stage[w] = "idle" /\ pending[w] = None
        /\ \A q \in Writers : ~Holds(q, id)
    BY DEF Put, TypeOK
  <1>3. /\ pending'[w] = p
        /\ stage'[w] = (IF key THEN "passed" ELSE "writing")
        /\ \A q \in Writers : q # w => pending'[q] = pending[q] /\ stage'[q] = stage[q]
    BY <1>2 DEF TypeOK
  <1>4. TypeOK'
    BY <1>1, <1>2, <1>3 DEF TypeOK
  <1>5. RowLocks'
    BY <1>2, <1>3 DEF RowLocks, Holds
  <1>6. NoDoubleBooking'
    BY DEF NoDoubleBooking
  <1>7. PassedIsClear'
    <2>1. CASE ~key
      BY <1>3, <2>1 DEF PassedIsClear
    <2>2. CASE key
      <3>1. /\ row[id] \in Row
            /\ version.table = row[id].table /\ version.window = row[id].window
            /\ version.status = row[id].status
        BY <2>2 DEF TypeOK, Row
      <3>2. \A x : Clash(version, x) => Clash(row[id], x)
        BY <2>2, <3>1, SameKeySameClash
      <3>3. \A d \in Bookings : d # id => ~Clash(version, row[d])
        BY <3>2 DEF NoDoubleBooking
      <3>4. \A q \in Writers : q # w /\ stage[q] = "passed" =>
              /\ ~Clash(version, pending[q].version)
              /\ ~Clash(pending[q].version, version)
        <4> SUFFICES ASSUME NEW q \in Writers, q # w, stage[q] = "passed"
                     PROVE  /\ ~Clash(version, pending[q].version)
                            /\ ~Clash(pending[q].version, version)
          OBVIOUS
        <4>1. pending[q] # None /\ pending[q].id # id
          BY <1>2 DEF TypeOK, Holds
        <4>2. ~Clash(pending[q].version, row[id])
          BY <4>1 DEF PassedIsClear
        <4>3. QED
          BY <4>2, <3>2, ClashIsSymmetric
      <3>5. QED
        BY <1>3, <3>3, <3>4 DEF PassedIsClear
    <2>3. QED
      BY <2>1, <2>2
  <1>8. QED
    BY <1>4, <1>5, <1>6, <1>7

LEMMA BookingKeepsBookingInv ==
  ASSUME BookingInv, NEW b \in Bookings, BookingNext(b)
  PROVE  BookingInv'
  <1>1. b \in Writers
    BY DEF Writers
  <1>2. ASSUME UNCHANGED <<request, row, stage, pending, broken>>,
               chosen' \in [Bookings -> Tables \cup {None}],
               answer' \in [Bookings -> Answers \cup {None}]
        PROVE  BookingInv'
    BY <1>2 DEF BookingInv, TypeOK, RowLocks, PassedIsClear, NoDoubleBooking
  <1>3. CASE findAvailableTable(b)
    <2>1. /\ chosen' \in [Bookings -> Tables \cup {None}]
          /\ answer' \in [Bookings -> Answers \cup {None}]
      BY <1>3 DEF findAvailableTable, Offered, Told, Answers, BookingInv, TypeOK
    <2>2. QED
      BY <1>2, <1>3, <2>1 DEF findAvailableTable
  <1>4. ASSUME NEW t \in Tables, nameTable(b, t)
        PROVE  BookingInv'
    BY <1>2, <1>4 DEF nameTable, BookingInv, TypeOK
  <1>5. CASE book(b)
    <2> DEFINE version == [table |-> chosen[b], party |-> request[b].party,
                           window |-> request[b].window, status |-> "confirmed"]
    <2>1. CASE request[b].party > Capacity[chosen[b]]
      <3>1. answer' \in [Bookings -> Answers \cup {None}]
        BY <1>5, <2>1 DEF book, Told, Answers, BookingInv, TypeOK
      <3>2. QED
        BY <1>2, <1>5, <2>1, <3>1 DEF book, BookingInv, TypeOK
    <2>2. CASE ~(request[b].party > Capacity[chosen[b]])
      <3>1. version \in Row
        BY DEF BookingInv, TypeOK, Row, ReservationStatus
      <3>2. Put(b, b, version) /\ UNCHANGED <<request, chosen, answer, row, broken>>
        BY <1>5, <2>2 DEF book
      <3>3. QED
        BY <1>1, <3>1, <3>2, PutKeepsBookingInv
    <2>3. QED
      BY <2>1, <2>2
  <1>6. CASE addToWaitlist(b)
    <2> DEFINE version == [table |-> None, party |-> request[b].party,
                           window |-> request[b].window, status |-> "waitlisted"]
    <2>1. version \in Row
      BY DEF BookingInv, TypeOK, Row, ReservationStatus
    <2>2. Put(b, b, version) /\ UNCHANGED <<request, chosen, answer, row, broken>>
      BY <1>6 DEF addToWaitlist
    <2>3. QED
      BY <1>1, <2>1, <2>2, PutKeepsBookingInv
  <1>7. QED
    BY <1>3, <1>4, <1>5, <1>6 DEF BookingNext

LEMMA StaffKeepsBookingInv ==
  ASSUME BookingInv, NEW s \in Staff, StaffNext(s)
  PROVE  BookingInv'
  <1>1. s \in Writers
    BY DEF Writers
  <1>2. ASSUME NEW id \in Bookings, NEW version,
               row[id] \in Row => version \in Row, Update(s, id, version)
        PROVE  BookingInv'
    <2>1. version \in Row
      BY <1>2 DEF Update, BookingInv, TypeOK
    <2>2. Put(s, id, version) /\ UNCHANGED <<request, chosen, answer, row, broken>>
      BY <1>2 DEF Update
    <2>3. QED
      BY <1>1, <2>1, <2>2, PutKeepsBookingInv
  <1>3. ASSUME NEW id \in Bookings, NEW status \in SetTo, setStatus(s, id, status)
        PROVE  BookingInv'
    <2>1. row[id] \in Row => [row[id] EXCEPT !.status = status] \in Row
      BY SetToAssumption DEF Row, ReservationStatus, TERMINAL_STATUS
    <2>2. QED
      BY <1>2, <1>3, <2>1 DEF setStatus
  <1>4. ASSUME NEW id \in Bookings, NEW window \in Windows, NEW party \in Parties,
               modify(s, id, window, party)
        PROVE  BookingInv'
    <2>1. row[id] \in Row => [row[id] EXCEPT !.window = window, !.party = party] \in Row
      BY DEF Row
    <2>2. QED
      BY <1>2, <1>4, <2>1 DEF modify
  <1>5. ASSUME NEW id \in Bookings, NEW t \in Tables, promoteFromWaitlist(s, id, t)
        PROVE  BookingInv'
    <2>1. row[id] \in Row => [row[id] EXCEPT !.table = t, !.status = "confirmed"] \in Row
      BY DEF Row, ReservationStatus
    <2>2. QED
      BY <1>2, <1>5, <2>1 DEF promoteFromWaitlist
  <1>6. QED
    BY <1>3, <1>4, <1>5 DEF StaffNext

LEMMA WriterKeepsBookingInv ==
  ASSUME BookingInv, NEW w \in Writers, WriterNext(w)
  PROVE  BookingInv'
  <1> USE DEF BookingInv
  <1>1. \A what \in Answers : Told(w, what) => answer' \in [Bookings -> Answers \cup {None}]
    BY DEF Told, TypeOK
  <1>2. CASE Pass(w)
    <2>1. /\ stage' = [stage EXCEPT ![w] = "passed"] /\ stage[w] = "writing"
          /\ UNCHANGED <<row, pending>>
          /\ pending[w] # None
      BY <1>2 DEF Pass, TypeOK
    <2>2. TypeOK'
      BY <1>2, <2>1 DEF Pass, TypeOK
    <2>3. RowLocks' /\ NoDoubleBooking'
      BY <2>1 DEF RowLocks, NoDoubleBooking
    <2>4. \A d \in Bookings : d # pending[w].id => ~Clash(pending[w].version, row[d])
      <3> SUFFICES ASSUME NEW d \in Bookings, d # pending[w].id
                   PROVE  ~Clash(pending[w].version, row[d])
        OBVIOUS
      <3>1. CASE \A q \in Writers : ~Holds(q, d)
        BY <1>2, <3>1 DEF Pass, Violates
      <3>2. CASE \E q \in Writers : Holds(q, d)
        <4>1. PICK q \in Writers : pending[q] # None /\ pending[q].id = d
          BY <3>2 DEF Holds
        <4>2. q # w
          BY <4>1
        <4>3. QED
          BY <1>2, <2>1, <4>1, <4>2 DEF Pass, Waits
      <3>3. QED
        BY <3>1, <3>2
    <2>5. \A q \in Writers : q # w /\ stage[q] = "passed" =>
            /\ ~Clash(pending[w].version, pending[q].version)
            /\ ~Clash(pending[q].version, pending[w].version)
      BY <1>2, <2>1, ClashIsSymmetric DEF Pass, Waits, TypeOK
    <2>6. PassedIsClear'
      BY <2>1, <2>4, <2>5 DEF PassedIsClear, TypeOK
    <2>7. QED
      BY <2>2, <2>3, <2>6
  <1>3. ASSUME End(w), NEW what \in Answers, Told(w, what),
               UNCHANGED <<request, chosen, row>>, broken' \in BOOLEAN
        PROVE  BookingInv'
    <2>1. /\ stage' = [stage EXCEPT ![w] = "idle"]
          /\ pending' = [pending EXCEPT ![w] = None]
      BY <1>3 DEF End
    <2>2. /\ stage'[w] = "idle" /\ pending'[w] = None
          /\ \A q \in Writers : q # w => stage'[q] = stage[q] /\ pending'[q] = pending[q]
      BY <2>1 DEF TypeOK
    <2>3. TypeOK'
      BY <1>1, <1>3, <2>1, <2>2 DEF TypeOK
    <2>4. RowLocks' /\ NoDoubleBooking' /\ PassedIsClear'
      BY <1>3, <2>2 DEF RowLocks, NoDoubleBooking, PassedIsClear
    <2>5. QED
      BY <2>3, <2>4
  <1>4. CASE Commit(w)
    <2> DEFINE id == pending[w].id
               v == pending[w].version
    <2>1. /\ stage[w] = "passed" /\ pending[w] \in Write /\ id \in Bookings /\ v \in Row
          /\ row' = [row EXCEPT ![id] = v]
          /\ End(w)
          /\ UNCHANGED <<request, chosen, broken>>
      BY <1>4 DEF Commit, TypeOK, Write
    <2>2. /\ stage' = [stage EXCEPT ![w] = "idle"]
          /\ pending' = [pending EXCEPT ![w] = None]
      BY <2>1 DEF End
    <2>3. /\ stage'[w] = "idle" /\ pending'[w] = None
          /\ \A q \in Writers : q # w => stage'[q] = stage[q] /\ pending'[q] = pending[q]
      BY <2>2 DEF TypeOK
    <2>4. answer' \in [Bookings -> Answers \cup {None}]
      BY <1>1, <1>4 DEF Commit, Answers
    <2>5. TypeOK'
      BY <2>1, <2>2, <2>3, <2>4 DEF TypeOK
    <2>6. RowLocks'
      BY <2>3 DEF RowLocks
    <2>7. row'[id] = v /\ \A d \in Bookings : d # id => row'[d] = row[d]
      BY <2>1 DEF TypeOK
    <2>8. \A d \in Bookings : d # id => ~Clash(v, row[d]) /\ ~Clash(row[d], v)
      BY <2>1, ClashIsSymmetric DEF PassedIsClear
    <2>9. NoDoubleBooking'
      BY <2>7, <2>8 DEF NoDoubleBooking
    <2>10. PassedIsClear'
      <3> SUFFICES ASSUME NEW q \in Writers, stage'[q] = "passed"
                   PROVE  /\ \A d \in Bookings : d # pending'[q].id =>
                               ~Clash(pending'[q].version, row'[d])
                          /\ \A x \in Writers : x # q /\ stage'[x] = "passed" =>
                               ~Clash(pending'[q].version, pending'[x].version)
        BY DEF PassedIsClear
      <3>1. q # w /\ stage[q] = "passed" /\ pending'[q] = pending[q]
        BY <2>3
      <3>2. ~Clash(pending[q].version, v)
        BY <2>1, <3>1 DEF PassedIsClear
      <3>3. QED
        BY <2>3, <2>7, <3>1, <3>2 DEF PassedIsClear
    <2>11. QED
      BY <2>5, <2>6, <2>9, <2>10
  <1>5. CASE Violate(w) \/ Victim(w) \/ Abandon(w)
    <2>1. \E what \in Answers : Told(w, what)
      BY <1>5 DEF Violate, Victim, Abandon, Answers
    <2>2. /\ End(w) /\ UNCHANGED <<request, chosen, row>> /\ broken' \in BOOLEAN
      BY <1>5 DEF Violate, Victim, Abandon, TypeOK
    <2>3. QED
      BY <1>3, <2>1, <2>2
  <1>6. QED
    BY <1>2, <1>4, <1>5 DEF WriterNext

THEOREM BookingInvariance == Spec => []BookingInv
  <1>1. BookingInv /\ [Next]_vars => BookingInv'
    <2> SUFFICES ASSUME BookingInv, [Next]_vars PROVE BookingInv'
      OBVIOUS
    <2>1. CASE UNCHANGED vars
      BY <2>1 DEF vars, BookingInv, TypeOK, RowLocks, PassedIsClear, NoDoubleBooking
    <2>2. QED
      BY <2>1, BookingKeepsBookingInv, StaffKeepsBookingInv, WriterKeepsBookingInv DEF Next
  <1>2. QED
    BY <1>1, InitBookingInv, PTL DEF Spec

\* No two active reservations of one table ever overlap, however many callers
\* book, move, promote and re-open reservations at once (book, modify,
\* setStatus, promoteFromWaitlist under ex_reservations_no_overlap).
THEOREM NeverDoubleBooked == Spec => []NoDoubleBooking
  <1>1. BookingInv => NoDoubleBooking
    BY DEF BookingInv
  <1>2. QED
    BY <1>1, BookingInvariance, PTL

\* Columns, answers and transactions keep their types.
THEOREM ReservationTypeCorrect == Spec => []TypeOK
  <1>1. BookingInv => TypeOK
    BY DEF BookingInv
  <1>2. QED
    BY <1>1, BookingInvariance, PTL

-----------------------------------------------------------------------------
(* The book of the branch as a calendar. *)

\* The row a booking writes: on a table that its party fits, or on the waitlist.
Entry(b, t, status) ==
  [table |-> t, party |-> request[b].party, window |-> request[b].window, status |-> status]

\* What staff may make of a row.
Revises(r, version) ==
  \/ \E status \in SetTo : version = [r EXCEPT !.status = status]
  \/ \E window \in Windows, party \in Parties :
       version = [r EXCEPT !.window = window, !.party = party]
  \/ \E t \in Tables : version = [r EXCEPT !.table = t, !.status = "confirmed"]

\* What a transaction has written is what its caller asked for, made of the row
\* that is still committed: a booking has no row and no answer yet, and nobody
\* gets at a row that a staff caller is changing.
IntentsAreCurrent ==
  \A w \in Writers : pending[w] # None =>
    /\ w \in Bookings =>
         /\ pending[w].id = w /\ answer[w] = None
         /\ \/ \E t \in Tables : /\ request[w].party <= Capacity[t]
                                 /\ pending[w].version = Entry(w, t, "confirmed")
            \/ pending[w].version = Entry(w, None, "waitlisted")
    /\ w \in Staff =>
         /\ row[pending[w].id] # None
         /\ Revises(row[pending[w].id], pending[w].version)

UnansweredHaveNoRow == \A b \in Bookings : answer[b] = None => row[b] = None

CalendarInv == BookingInv /\ IntentsAreCurrent /\ UnansweredHaveNoRow

\* To be taken is to clash with a committed row.
LEMMA TakenMeansClash ==
  ASSUME NEW v \in Row, NEW b \in Bookings, v.table # None, v.status \in {"confirmed", "seated"}
  PROVE  Cal!Taken(v.table, v.window, b) <=> \E d \in Bookings \ {b} : Clash(v, row[d])
  <1>1. \A d : Clash(v, row[d]) <=>
          /\ row[d] # None /\ row[d].table = v.table /\ row[d].status \in {"confirmed", "seated"}
          /\ row[d].window.start < v.window.end /\ v.window.start < row[d].window.end
    <2>1. v # None
      BY NullAssumption
    <2>. QED
      BY <2>1 DEF Clash, Active, Overlap
  <1>. QED
    BY <1>1 DEF Cal!Taken


\* Steps that leave a writer's caller as it was and write no row.
LEMMA PutKeepsCalendarInv ==
  ASSUME CalendarInv, BookingInv', NEW w \in Writers, NEW id \in Bookings, NEW version,
         Put(w, id, version), UNCHANGED <<request, chosen, answer, row, broken>>,
         w \in Bookings =>
           /\ id = w /\ answer[w] = None
           /\ \/ \E t \in Tables : request[w].party <= Capacity[t] /\ version = Entry(w, t, "confirmed")
              \/ version = Entry(w, None, "waitlisted"),
         w \in Staff => row[id] # None /\ Revises(row[id], version)
  PROVE  CalendarInv'
  <1>1. /\ pending' = [pending EXCEPT ![w] = [id |-> id, version |-> version]]
        /\ pending \in [Writers -> Write \cup {None}]
    BY DEF Put, CalendarInv, BookingInv, TypeOK
  <1>2. /\ pending'[w].id = id /\ pending'[w].version = version
        /\ \A q \in Writers : q # w => pending'[q] = pending[q]
    BY <1>1
  <1>3. UnansweredHaveNoRow'
    BY DEF CalendarInv, UnansweredHaveNoRow
  <1>4. IntentsAreCurrent'
    <2>. SUFFICES ASSUME NEW q \in Writers, pending'[q] # None
                  PROVE  /\ q \in Bookings =>
                              /\ pending'[q].id = q /\ answer'[q] = None
                              /\ \/ \E t \in Tables : /\ request'[q].party <= Capacity[t]
                                                      /\ pending'[q].version = Entry(q, t, "confirmed")'
                                 \/ pending'[q].version = Entry(q, None, "waitlisted")'
                         /\ q \in Staff =>
                              /\ row'[pending'[q].id] # None
                              /\ Revises(row'[pending'[q].id], pending'[q].version)
      BY DEF IntentsAreCurrent
    <2>0. /\ request' = request /\ answer' = answer /\ row' = row
          /\ \A t, status : Entry(q, t, status)' = Entry(q, t, status)
      BY DEF Entry
    <2>1. CASE q = w
      BY <1>2, <2>0, <2>1
    <2>2. CASE q # w
      <3>1. pending'[q] = pending[q] /\ pending[q] # None
        BY <1>2, <2>2
      <3>. QED
        BY <2>0, <3>1 DEF CalendarInv, IntentsAreCurrent
    <2>. QED
      BY <2>1, <2>2
  <1>. QED
    BY <1>3, <1>4 DEF CalendarInv

\* A caller is told something, and what it had written, if anything, is gone.
LEMMA TellingKeepsCalendarInv ==
  ASSUME CalendarInv, BookingInv', NEW w \in Writers, NEW what \in Answers, Told(w, what),
         pending' = [pending EXCEPT ![w] = None], request' = request, row' = row
  PROVE  CalendarInv'
  <1>1. /\ pending'[w] = None
        /\ \A q \in Writers : q # w => pending'[q] = pending[q]
    BY DEF CalendarInv, BookingInv, TypeOK
  <1>2. /\ \A b \in Bookings : b # w => answer'[b] = answer[b]
        /\ w \in Bookings => answer'[w] # None
    BY NullAssumption DEF Told, CalendarInv, BookingInv, TypeOK
  <1>3. \A q, t, status : Entry(q, t, status)' = Entry(q, t, status)
    BY DEF Entry
  <1>4. UnansweredHaveNoRow'
    BY <1>2 DEF CalendarInv, UnansweredHaveNoRow
  <1>5. IntentsAreCurrent'
    BY <1>1, <1>2, <1>3 DEF CalendarInv, IntentsAreCurrent
  <1>. QED
    BY <1>4, <1>5 DEF CalendarInv

\* Whoever learns of a request sees nothing change, or a step of the calendar.
CalendarStep == [Cal!CNext]_(Cal!calendarVars)

LEMMA NothingSeen ==
  ASSUME request' = request, row' = row, answer' = answer
  PROVE  CalendarStep
  BY DEF CalendarStep, Cal!calendarVars

LEMMA RefusalIsSeen ==
  ASSUME NEW b \in Bookings, Cal!Refuse(b), request' = request
  PROVE  CalendarStep
  BY DEF CalendarStep, Cal!CNext

LEMMA BookingIsCalendar ==
  ASSUME CalendarInv, BookingInv', NEW b \in Bookings, BookingNext(b)
  PROVE  CalendarInv' /\ CalendarStep
  <1>1. b \in Writers /\ b \notin Staff
    BY WritersAssumption DEF Writers
  <1>2. CASE findAvailableTable(b)
    <2>1. /\ answer[b] = None /\ row[b] = None /\ pending[b] = None
          /\ pending' = pending /\ pending = [pending EXCEPT ![b] = None]
          /\ UNCHANGED <<request, row>>
      BY <1>1, <1>2 DEF findAvailableTable, Fresh, CalendarInv, UnansweredHaveNoRow, BookingInv, TypeOK
    <2>2. CASE answer' = answer
      <3>1. CalendarInv'
        BY <2>1, <2>2 DEF CalendarInv, UnansweredHaveNoRow, IntentsAreCurrent, Entry
      <3>. QED
        BY <2>1, <2>2, <3>1, NothingSeen
    <2>3. CASE Offered(request[b].party, request[b].window) = {} /\ Told(b, "no_table")
      <3>1. CalendarInv'
        BY <1>1, <2>1, <2>3, TellingKeepsCalendarInv DEF Answers
      <3>2. \A t \in Tables : Cal!Fits(b, t) => Cal!Taken(t, request[b].window, b)
        <4>. SUFFICES ASSUME NEW t \in Tables, request[b].party <= Capacity[t]
                      PROVE  Cal!Taken(t, request[b].window, b)
          BY DEF Cal!Fits
        <4>1. PICK d \in Bookings : /\ Active(row[d]) /\ row[d].table = t
                                    /\ Overlap(row[d].window, request[b].window)
          BY <2>3 DEF Offered, Free
        <4>2. d # b
          BY <2>1, <4>1 DEF Active
        <4>. QED
          BY <4>1, <4>2 DEF Cal!Taken, Active, Overlap
      <3>3. Cal!Refuse(b)
        BY <2>1, <2>3, <3>2 DEF Cal!Refuse, Cal!Answer, Told
      <3>. QED
        BY <2>1, <3>1, <3>3, RefusalIsSeen
    <2>. QED
      BY <1>2, <2>2, <2>3 DEF findAvailableTable
  <1>3. ASSUME NEW t \in Tables, nameTable(b, t)
        PROVE  CalendarInv' /\ CalendarStep
    <2>1. UNCHANGED <<request, row, answer, pending>>
      BY <1>3 DEF nameTable
    <2>2. CalendarInv'
      BY <2>1 DEF CalendarInv, UnansweredHaveNoRow, IntentsAreCurrent, Entry
    <2>. QED
      BY <2>1, <2>2, NothingSeen
  <1>4. CASE book(b)
    <2>1. /\ answer[b] = None /\ chosen[b] \in Tables /\ pending[b] = None
          /\ UNCHANGED <<request, chosen, row, broken>>
      BY <1>1, <1>4 DEF book, CalendarInv, BookingInv, TypeOK
    <2>2. CASE request[b].party > Capacity[chosen[b]]
      <3>1. pending' = pending /\ pending = [pending EXCEPT ![b] = None] /\ Told(b, "over_capacity")
        BY <1>1, <1>4, <2>1, <2>2 DEF book, CalendarInv, BookingInv, TypeOK
      <3>2. CalendarInv'
        BY <1>1, <2>1, <3>1, TellingKeepsCalendarInv DEF Answers
      <3>3. ~(request[b].party <= Capacity[chosen[b]])
        <4>1. request[b].party \in Nat /\ Capacity[chosen[b]] \in Nat
          BY <2>1, PartiesAssumption, CapacityAssumption DEF CalendarInv, BookingInv, TypeOK
        <4>. QED
          BY <2>2, <4>1
      <3>4. Cal!Refuse(b)
        BY <2>1, <3>1, <3>3 DEF Cal!Refuse, Cal!Answer, Cal!Fits, Told
      <3>. QED
        BY <2>1, <3>2, <3>4, RefusalIsSeen
    <2>3. CASE ~(request[b].party > Capacity[chosen[b]])
      <3>1. /\ Put(b, b, Entry(b, chosen[b], "confirmed"))
            /\ UNCHANGED <<request, chosen, answer, row, broken>>
        BY <1>4, <2>3 DEF book, Entry
      <3>2. request[b].party <= Capacity[chosen[b]]
        <4>1. request[b].party \in Nat /\ Capacity[chosen[b]] \in Nat
          BY <2>1, PartiesAssumption, CapacityAssumption DEF CalendarInv, BookingInv, TypeOK
        <4>. QED
          BY <2>3, <4>1
      <3>3. CalendarInv'
        <4>. DEFINE version == Entry(b, chosen[b], "confirmed")
        <4>1. \E t \in Tables : request[b].party <= Capacity[t] /\ version = Entry(b, t, "confirmed")
          BY <2>1, <3>2
        <4>. HIDE DEF version
        <4>. QED
          BY <1>1, <2>1, <3>1, <4>1, PutKeepsCalendarInv DEF version
      <3>. QED
        BY <3>1, <3>3, NothingSeen
    <2>. QED
      BY <2>2, <2>3
  <1>5. CASE addToWaitlist(b)
    <2>1. /\ Put(b, b, Entry(b, None, "waitlisted"))
          /\ UNCHANGED <<request, chosen, answer, row, broken>>
          /\ answer[b] = None
      BY <1>5 DEF addToWaitlist, Entry, Fresh
    <2>2. CalendarInv'
      BY <1>1, <2>1, PutKeepsCalendarInv
    <2>. QED
      BY <2>1, <2>2, NothingSeen
  <1>. QED
    BY <1>2, <1>3, <1>4, <1>5 DEF BookingNext

LEMMA StaffIsCalendar ==
  ASSUME CalendarInv, BookingInv', NEW s \in Staff, StaffNext(s)
  PROVE  CalendarInv' /\ CalendarStep
  <1>1. s \in Writers /\ s \notin Bookings
    BY WritersAssumption DEF Writers
  <1>2. ASSUME NEW id \in Bookings, NEW version, Revises(row[id], version), Update(s, id, version)
        PROVE  CalendarInv' /\ CalendarStep
    <2>1. Put(s, id, version) /\ row[id] # None /\ UNCHANGED <<request, chosen, answer, row, broken>>
      BY <1>2 DEF Update
    <2>2. CalendarInv'
      BY <1>1, <1>2, <2>1, PutKeepsCalendarInv
    <2>. QED
      BY <2>1, <2>2, NothingSeen
  <1>3. ASSUME NEW id \in Bookings, NEW status \in SetTo, setStatus(s, id, status)
        PROVE  CalendarInv' /\ CalendarStep
    <2>1. Revises(row[id], [row[id] EXCEPT !.status = status])
      BY Zenon DEF Revises
    <2>. QED
      BY <1>2, <1>3, <2>1 DEF setStatus
  <1>4. ASSUME NEW id \in Bookings, NEW window \in Windows, NEW party \in Parties,
               modify(s, id, window, party)
        PROVE  CalendarInv' /\ CalendarStep
    <2>1. Revises(row[id], [row[id] EXCEPT !.window = window, !.party = party])
      BY Zenon DEF Revises
    <2>. QED
      BY <1>2, <1>4, <2>1 DEF modify
  <1>5. ASSUME NEW id \in Bookings, NEW t \in Tables, promoteFromWaitlist(s, id, t)
        PROVE  CalendarInv' /\ CalendarStep
    <2>1. Revises(row[id], [row[id] EXCEPT !.table = t, !.status = "confirmed"])
      BY Zenon DEF Revises
    <2>. QED
      BY <1>2, <1>5, <2>1 DEF promoteFromWaitlist
  <1>. QED
    BY <1>3, <1>4, <1>5 DEF StaffNext

LEMMA CommitIsCalendar ==
  ASSUME CalendarInv, BookingInv', NEW w \in Writers, Commit(w)
  PROVE  CalendarInv' /\ CalendarStep
  <1>. DEFINE id == pending[w].id
              v == pending[w].version
  <1>1. /\ stage[w] = "passed" /\ pending[w] # None /\ id \in Bookings /\ v \in Row
        /\ row' = [row EXCEPT ![id] = v] /\ request' = request
        /\ Told(w, IF v.status = "waitlisted" THEN "waitlisted" ELSE "booked")
        /\ pending' = [pending EXCEPT ![w] = None]
    BY DEF Commit, End, CalendarInv, BookingInv, TypeOK, Write
  <1>2. \A d \in Bookings \ {id} : ~Clash(v, row[d])
    BY <1>1 DEF CalendarInv, BookingInv, PassedIsClear
  <1>3. v.table # None /\ v.status \in {"confirmed", "seated"} => ~Cal!Taken(v.table, v.window, id)
    BY <1>1, <1>2, TakenMeansClash
  <1>4. /\ pending'[w] = None
        /\ \A q \in Writers : q # w => pending'[q] = pending[q]
        /\ \A q \in Writers : q # w /\ pending[q] # None => pending[q].id # id
        /\ row'[id] = v /\ \A d \in Bookings : d # id => row'[d] = row[d]
    BY <1>1 DEF CalendarInv, BookingInv, TypeOK, RowLocks
  <1>5. /\ \A b \in Bookings : b # w => answer'[b] = answer[b]
        /\ w \in Bookings => answer'[w] # None
    BY <1>1, NullAssumption DEF Told, Answers, CalendarInv, BookingInv, TypeOK
  <1>6. w \in Bookings =>
          /\ id = w /\ answer[w] = None
          /\ \/ \E t \in Tables : request[w].party <= Capacity[t] /\ v = Entry(w, t, "confirmed")
             \/ v = Entry(w, None, "waitlisted")
    BY <1>1 DEF CalendarInv, IntentsAreCurrent
  <1>7. w \in Staff => row[id] # None /\ Revises(row[id], v)
    BY <1>1 DEF CalendarInv, IntentsAreCurrent
  <1>8. (w \in Bookings /\ w \notin Staff) \/ (w \in Staff /\ w \notin Bookings)
    BY WritersAssumption DEF Writers
  <1>. HIDE DEF id, v
  <1>9. UnansweredHaveNoRow'
    <2>. SUFFICES ASSUME NEW b \in Bookings, answer'[b] = None PROVE row'[b] = None
      BY DEF UnansweredHaveNoRow
    <2>1. b # w /\ answer[b] = None /\ row[b] = None
      BY <1>5 DEF CalendarInv, UnansweredHaveNoRow
    <2>2. b # id
      BY <1>6, <1>7, <1>8, <2>1
    <2>. QED
      BY <1>4, <2>1, <2>2
  <1>10. IntentsAreCurrent'
    <2>. SUFFICES ASSUME NEW q \in Writers, pending'[q] # None
                  PROVE  /\ q \in Bookings =>
                              /\ pending'[q].id = q /\ answer'[q] = None
                              /\ \/ \E t \in Tables : /\ request'[q].party <= Capacity[t]
                                                      /\ pending'[q].version = Entry(q, t, "confirmed")'
                                 \/ pending'[q].version = Entry(q, None, "waitlisted")'
                         /\ q \in Staff =>
                              /\ row'[pending'[q].id] # None
                              /\ Revises(row'[pending'[q].id], pending'[q].version)
      BY DEF IntentsAreCurrent
    <2>1. q # w /\ pending'[q] = pending[q] /\ pending[q].id # id /\ pending[q].id \in Bookings
      BY <1>4 DEF CalendarInv, BookingInv, TypeOK, Write
    <2>2. row'[pending[q].id] = row[pending[q].id]
      BY <1>4, <2>1
    <2>3. \A t, status : Entry(q, t, status)' = Entry(q, t, status)
      BY <1>1 DEF Entry
    <2>. QED
      BY <1>1, <1>5, <2>1, <2>2, <2>3 DEF CalendarInv, IntentsAreCurrent
  <1>11. CalendarInv'
    BY <1>9, <1>10 DEF CalendarInv
  <1>12. CASE w \in Bookings
    <2>1. id = w /\ answer[w] = None /\ row[w] = None
      BY <1>6, <1>12 DEF CalendarInv, UnansweredHaveNoRow
    <2>2. CASE v = Entry(w, None, "waitlisted")
      <3>1. Told(w, "waitlisted")
        BY <1>1, <2>2 DEF Entry
      <3>2. Cal!Queue(w)
        BY <1>1, <1>12, <2>1, <2>2, <3>1 DEF Cal!Queue, Cal!Enter, Cal!Answer, Told, Entry
      <3>. QED
        BY <1>1, <1>11, <1>12, <3>2 DEF CalendarStep, Cal!CNext
    <2>3. CASE \E t \in Tables : request[w].party <= Capacity[t] /\ v = Entry(w, t, "confirmed")
      <3>1. PICK t \in Tables : request[w].party <= Capacity[t] /\ v = Entry(w, t, "confirmed")
        BY <2>3
      <3>2. v.table = t /\ v.window = request[w].window /\ v.status = "confirmed"
        BY <3>1 DEF Entry
      <3>3. Told(w, "booked") /\ ~Cal!Taken(t, request[w].window, w)
        BY <1>1, <1>3, <2>1, <3>2, NoTableAssumption
      <3>4. Cal!Reserve(w)
        BY <1>1, <1>12, <2>1, <3>1, <3>3 DEF Cal!Reserve, Cal!Fits, Cal!Enter, Cal!Answer, Told, Entry
      <3>. QED
        BY <1>1, <1>11, <1>12, <3>4 DEF CalendarStep, Cal!CNext
    <2>. QED
      BY <1>6, <1>12, <2>2, <2>3
  <1>13. CASE w \in Staff
    <2>1. answer' = answer
      BY <1>1, <1>8, <1>13 DEF Told
    <2>2. Cal!Become(id, v)
      BY <1>1, <1>3, <1>7, <1>13, <2>1 DEF Cal!Become
    <2>3. Cal!Revise(id)
      BY <1>7, <1>13, <2>2 DEF Cal!Revise, Revises
    <2>. QED
      BY <1>1, <1>11, <2>3 DEF CalendarStep, Cal!CNext
  <1>. QED
    BY <1>8, <1>12, <1>13

LEMMA WriterIsCalendar ==
  ASSUME CalendarInv, BookingInv', NEW w \in Writers, WriterNext(w)
  PROVE  CalendarInv' /\ CalendarStep
  <1>1. CASE Pass(w)
    <2>1. UNCHANGED <<request, row, answer, pending>>
      BY <1>1 DEF Pass
    <2>2. CalendarInv'
      BY <2>1 DEF CalendarInv, UnansweredHaveNoRow, IntentsAreCurrent, Entry
    <2>. QED
      BY <2>1, <2>2, NothingSeen
  <1>2. CASE Commit(w)
    BY <1>2, CommitIsCalendar
  <1>3. ASSUME NEW what \in Answers, Told(w, what), End(w), UNCHANGED <<request, row>>, stage[w] # "idle",
               w \in Bookings /\ answer[w] = None /\ Cal!Answer(w, what) => Cal!Refuse(w)
        PROVE  CalendarInv' /\ CalendarStep
    <2>1. CalendarInv'
      BY <1>3, TellingKeepsCalendarInv DEF End
    <2>2. CASE w \in Bookings
      <3>1. answer[w] = None
        BY <1>3, <2>2 DEF CalendarInv, BookingInv, TypeOK, IntentsAreCurrent
      <3>2. Cal!Refuse(w)
        BY <1>3, <2>2, <3>1 DEF Told, Cal!Answer
      <3>. QED
        BY <1>3, <2>1, <2>2, <3>2, RefusalIsSeen
    <2>3. CASE w \notin Bookings
      BY <1>3, <2>1, <2>3, NothingSeen DEF Told
    <2>. QED
      BY <2>2, <2>3
  <1>4. CASE Violate(w)
    <2>1. /\ stage[w] = "writing" /\ pending[w] # None /\ pending[w].version \in Row
          /\ row' = row
      BY <1>4 DEF Violate, CalendarInv, BookingInv, TypeOK, Write
    <2>2. ASSUME w \in Bookings, Cal!Answer(w, "slot_taken") PROVE Cal!Refuse(w)
      <3>. DEFINE v == pending[w].version
      <3>1. PICK d \in Bookings : d # pending[w].id /\ Clash(v, row[d])
        BY <1>4 DEF Violate, Violates
      <3>2. /\ pending[w].id = w
            /\ \/ \E t \in Tables : request[w].party <= Capacity[t] /\ v = Entry(w, t, "confirmed")
               \/ v = Entry(w, None, "waitlisted")
        BY <2>1, <2>2 DEF CalendarInv, IntentsAreCurrent
      <3>. HIDE DEF v
      <3>3. v.table # None /\ v.status \in {"confirmed", "seated"}
        BY <3>1 DEF Clash, Active
      <3>4. PICK t \in Tables : request[w].party <= Capacity[t] /\ v = Entry(w, t, "confirmed")
        BY <3>2, <3>3 DEF Entry
      <3>5. Cal!Taken(v.table, v.window, w)
        BY <2>1, <2>2, <3>1, <3>2, <3>3, TakenMeansClash DEF v
      <3>6. v.table = t /\ v.window = request[w].window
        BY <3>4 DEF Entry
      <3>7. Cal!Fits(w, t) /\ Cal!Taken(t, request[w].window, w)
        BY <3>4, <3>5, <3>6 DEF Cal!Fits
      <3>. QED
        BY <2>1, <2>2, <3>7 DEF Cal!Refuse
    <2>. QED
      BY <1>3, <1>4, <2>1, <2>2 DEF Violate, Answers
  <1>5. CASE Victim(w) \/ Abandon(w)
    <2>1. /\ stage[w] # "idle" /\ Told(w, "error") /\ End(w) /\ UNCHANGED <<request, row>>
      BY <1>5 DEF Victim, Abandon, InDeadlock, Waits
    <2>2. Cal!Answer(w, "error") => Cal!Refuse(w)
      BY <2>1 DEF Cal!Refuse
    <2>. QED
      BY <1>3, <2>1, <2>2 DEF Answers
  <1>. QED
    BY <1>1, <1>2, <1>4, <1>5 DEF WriterNext

\* The service is the calendar that its comment promises: every answer and every
\* change is decided at one instant on the reservations that stand at that
\* instant, however statements, waits, deadlocks and aborts interleave (book,
\* findAvailableTable, setStatus, modify and promoteFromWaitlist).
THEOREM ServiceImplementsCalendar == Spec => ImplementsCalendar
  <1>1. Init => CalendarInv
    BY InitBookingInv DEF CalendarInv, Init, IntentsAreCurrent, UnansweredHaveNoRow
  <1>2. Init => Cal!CInit
    BY DEF Init, Cal!CInit
  <1>3. CalendarInv /\ BookingInv' /\ [Next]_vars => CalendarInv' /\ [Cal!CNext]_(Cal!calendarVars)
    <2>. SUFFICES ASSUME CalendarInv, BookingInv', [Next]_vars PROVE CalendarInv' /\ CalendarStep
      BY DEF CalendarStep
    <2>1. CASE UNCHANGED vars
      <3>1. UNCHANGED <<request, row, answer, pending>>
        BY <2>1 DEF vars
      <3>2. CalendarInv'
        BY <3>1 DEF CalendarInv, UnansweredHaveNoRow, IntentsAreCurrent, Entry
      <3>. QED
        BY <3>1, <3>2, NothingSeen
    <2>. QED
      BY <2>1, BookingIsCalendar, StaffIsCalendar, WriterIsCalendar DEF Next
  <1>. QED
    BY <1>1, <1>2, <1>3, BookingInvariance, PTL DEF Spec, ImplementsCalendar, Cal!CSpec

=============================================================================
