--------------------------- MODULE PaymentProvider --------------------------
(***************************************************************************)
(* The two-phase money contract of modules/payments and its two            *)
(* implementations: "fake" (FakePaymentProvider, the in-process default)   *)
(* and "moyasar" (MoyasarPaymentProvider, HTTP calls to the gateway).      *)
(*                                                                         *)
(* A payment reference is a fresh identifier made by the provider.  Every  *)
(* authorization asks for at most one, so the model names a reference by   *)
(* the checkout attempt that opened it.                                    *)
(*                                                                         *)
(* What the gateway behind the moyasar adapter accepts is not in the       *)
(* repository; the model takes the legality the fake enforces, which the   *)
(* code describes as "the same legal transitions a real gateway would".    *)
(***************************************************************************)
EXTENDS Naturals

CONSTANTS
  Provider,   \* "fake" or "moyasar": what payments.module.ts selected
  Refs,       \* payment references, one per checkout attempt
  Keys,       \* idempotency keys clients use
  None        \* a null column, an absent optional field

ASSUME ProviderAssumption == Provider \in {"fake", "moyasar"}
ASSUME NoneAssumption == None \notin Refs \cup Keys

VARIABLES
  intent,     \* the provider's record of each payment: its status or "none"
  byKey       \* the fake's map from idempotency key to payment reference

PaymentStatus == {"authorized", "captured", "voided", "refunded"}
Money == {"capture", "void", "refund"}

ProviderTypeOK ==
  /\ intent \in [Refs -> PaymentStatus \cup {"none"}]
  /\ byKey \in [Keys -> Refs \cup {None}]

ProviderInit ==
  /\ intent = [r \in Refs |-> "none"]
  /\ byKey = [k \in Keys |-> None]

\* The fake answers a key it has seen with the payment it opened then,
\* whatever that payment's status, amount or merchant.
Remembered(key) == Provider = "fake" /\ key # None /\ byKey[key] # None

\* Slip: the payment is taken at once instead of held (manual: false).
OpenHoldAndCapture(r, key, amount) ==
  /\ ~Remembered(key)
  /\ Provider = "fake" => amount > 0
  /\ intent[r] = "none"
  /\ intent' = [intent EXCEPT ![r] = "captured"]
  /\ UNCHANGED byKey

\* Funds are held under the new reference r.  The fake refuses an amount that
\* is not positive; the gateway opens a new hold for every call.
OpenHold(r, key, amount) ==
  /\ ~Remembered(key)
  /\ Provider = "fake" => amount > 0
  /\ intent[r] = "none"
  /\ intent' = [intent EXCEPT ![r] = "authorized"]
  /\ byKey' = IF Provider = "fake" /\ key # None
              THEN [byKey EXCEPT ![key] = r]
              ELSE byKey

\* The status a payment must have for a money call, and the one it ends in.
StatusBefore(money) == IF money = "refund" THEN "captured" ELSE "authorized"

\* Slip: the gateway's word for a captured payment is passed on unmapped.
MoneyResultUnmapped(money) ==
  CASE money = "capture" -> "paid"
    [] money = "void"    -> "voided"
    [] money = "refund"  -> "refunded"

MoneyResult(money) ==
  CASE money = "capture" -> "captured"
    [] money = "void"    -> "voided"
    [] money = "refund"  -> "refunded"

MoveMoney(r, money) ==
  /\ intent[r] = StatusBefore(money)
  /\ intent' = [intent EXCEPT ![r] = MoneyResult(money)]
  /\ UNCHANGED byKey

\* The fake keeps its payments in process memory; the gateway keeps its own.
ProviderRestart ==
  IF Provider = "fake"
  THEN /\ intent' = [r \in Refs |-> "none"]
       /\ byKey' = [k \in Keys |-> None]
  ELSE UNCHANGED <<intent, byKey>>

=============================================================================
