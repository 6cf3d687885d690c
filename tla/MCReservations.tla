--------------------------- MODULE MCReservations ---------------------------
(***************************************************************************)
(* Reservations of a branch with two tables: two requests that may book,   *)
(* be waitlisted or be refused, one staff caller, two overlapping windows. *)
(***************************************************************************)
EXTENDS Reservations, TLC

CONSTANTS t1, t2

\* Parties of two fit both tables; larger ones fit the larger table only.
MCCapacity == (t1 :> 2) @@ (t2 :> 4)

\* A table that the party does not fit.
MCTightCapacity == (t1 :> 1) @@ (t2 :> 2)

MCWindows == {[start |-> 0, end |-> 2], [start |-> 1, end |-> 3]}

\* One status that keeps the table and one of the three that give it back.
MCSetTo == {"seated", "cancelled"}

MCParty == {2}

MCParties == {2, 4}
=============================================================================
