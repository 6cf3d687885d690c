----------------------------- MODULE MCCheckout -----------------------------
(***************************************************************************)
(* Two checkout attempts racing each other on the in-process provider:     *)
(* retries with one key, attempts without a key, a promotion with a cap of *)
(* one, and one staff caller working on whatever orders come out.          *)
(***************************************************************************)
EXTENDS OrderService, TLC

CONSTANTS t1, k1, n1, m1

\* A keyed checkout that uses the code, so that two attempts may be a retry; a
\* keyless one that uses it; a keyless one for nothing, which the fake declines.
MCBodies ==
  {[tenant |-> t1, key |-> k1, total |-> 100, promo |-> m1, phone |-> None],
   [tenant |-> t1, key |-> None, total |-> 100, promo |-> m1, phone |-> n1],
   [tenant |-> t1, key |-> None, total |-> 0, promo |-> None, phone |-> None]}

MCOne == [m \in Promos |-> 1]

MCNoAdvance == {}
=============================================================================
