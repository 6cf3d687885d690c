-------------------------- MODULE MCOrderLifecycle --------------------------
(***************************************************************************)
(* One order in the hands of two staff callers while its client retries    *)
(* the checkout, on the gateway adapter, whose answers can be lost.        *)
(***************************************************************************)
EXTENDS OrderService

CONSTANTS t1, k1, n1, m1

\* Every attempt is the same checkout with the same key, so one order comes
\* out and the other attempt is a retry.
MCBodies ==
  {[tenant |-> t1, key |-> k1, total |-> 250, promo |-> None, phone |-> n1]}

\* The statuses the staff console offers.
MCConsole == {"PREPARING", "READY", "OUT_FOR_DELIVERY", "PICKED_UP", "DELIVERED", "COMPLETE"}

\* The statuses the staff API accepts: any.
MCApi == OrderStatus

MCCaps == [m \in Promos |-> 2]
=============================================================================
