--------------------------- MODULE OrderLifecycle ---------------------------
(***************************************************************************)
(* What OrderService promises the rest of the system about one order, as   *)
(* its class comment puts it: an order appears with its funds authorized,  *)
(* moves only along the legal transitions, accept captures, reject voids,  *)
(* cancel voids or refunds according to whether the funds were captured,   *)
(* and every other move leaves the money alone.  Each change is one        *)
(* indivisible step: no reader sees a status whose money has not moved.    *)
(***************************************************************************)
EXTENDS OrderState

CONSTANTS Orders, AdvanceTo, None

VARIABLES
  status,         \* None before the order exists
  paymentStatus   \* what the order says of its money

lifecycleVars == <<status, paymentStatus>>

LInit ==
  /\ status = [o \in Orders |-> None]
  /\ paymentStatus = [o \in Orders |-> None]

Appear(o) ==
  /\ status[o] = None
  /\ status' = [status EXCEPT ![o] = "NEW"]
  /\ paymentStatus' = [paymentStatus EXCEPT ![o] = "authorized"]

Become(o, to, pay) ==
  /\ canTransition(status[o], to)
  /\ status' = [status EXCEPT ![o] = to]
  /\ paymentStatus' = [paymentStatus EXCEPT ![o] = pay]

BeAccepted(o) == Become(o, "ACCEPTED", "captured")

BeRejected(o) == Become(o, "REJECTED", "voided")

BeCancelled(o) ==
  Become(o, "CANCELLED",
         IF paymentStatus[o] = "captured" THEN "refunded" ELSE "voided")

BeAdvanced(o, to) == Become(o, to, paymentStatus[o])

LNext ==
  \E o \in Orders :
    \/ Appear(o)
    \/ BeAccepted(o)
    \/ BeRejected(o)
    \/ BeCancelled(o)
    \/ \E to \in AdvanceTo : BeAdvanced(o, to)

LSpec == LInit /\ [][LNext]_lifecycleVars

=============================================================================
