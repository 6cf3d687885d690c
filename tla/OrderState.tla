----------------------------- MODULE OrderState -----------------------------
(***************************************************************************)
(* The order state machine of vertical/restaurants/order-state.ts: which   *)
(* status changes are legal.  It has no state of its own; OrderService     *)
(* consults it before it claims a transition.                              *)
(***************************************************************************)

OrderStatus ==
  {"NEW", "ACCEPTED", "PREPARING", "READY", "OUT_FOR_DELIVERY", "PICKED_UP",
   "DELIVERED", "COMPLETE", "REJECTED", "CANCELLED"}

\* The statuses reachable in one step from each status.
LEGAL ==
  [NEW              |-> {"ACCEPTED", "REJECTED", "CANCELLED"},
   ACCEPTED         |-> {"PREPARING", "CANCELLED"},
   PREPARING        |-> {"READY", "CANCELLED"},
   READY            |-> {"OUT_FOR_DELIVERY", "PICKED_UP"},
   OUT_FOR_DELIVERY |-> {"DELIVERED"},
   PICKED_UP        |-> {"COMPLETE"},
   DELIVERED        |-> {"COMPLETE"},
   COMPLETE         |-> {},
   REJECTED         |-> {},
   CANCELLED        |-> {}]

canTransition(from, to) == from \in OrderStatus /\ to \in LEGAL[from]

=============================================================================
