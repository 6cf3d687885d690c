------------------------------ MODULE OnceOnly ------------------------------
(* What the class comment of ToolDispatcher promises its callers ("every     *)
(* dispatch is idempotent (per tenant + key) ... effects happen at most      *)
(* once"): the effect of a key is made by one call, all at once, and from    *)
(* then on calls that bring the key are told what that call returned.        *)
CONSTANTS Calls, KeyOf, none

VARIABLES made,   \* the calls whose effect is in the database
          told    \* what each call was told: none, the call that made the result, or "error"

Same(c, d) == c = d \/ (KeyOf[c] # none /\ KeyOf[c] = KeyOf[d])

OInit == made = {} /\ told = [c \in Calls |-> none]

(* A call makes the effect of its key, which nobody has made; the caller     *)
(* learns of it unless the answer is lost.                                   *)
Make(c) ==
  /\ told[c] = none
  /\ \A d \in made : ~Same(c, d)
  /\ made' = made \union {c}
  /\ \E r \in {c, "error"} : told' = [told EXCEPT ![c] = r]

(* A call is told what another call made.                                    *)
Repeat(c) ==
  /\ told[c] = none
  /\ \E d \in made : Same(c, d) /\ told' = [told EXCEPT ![c] = d]
  /\ made' = made

(* Calls fail, any number of them at once, and leave nothing behind.         *)
Fail ==
  /\ \E F \in SUBSET {c \in Calls : told[c] = none} :
       told' = [c \in Calls |-> IF c \in F THEN "error" ELSE told[c]]
  /\ made' = made

ONext == Fail \/ \E c \in Calls : Make(c) \/ Repeat(c)
OSpec == OInit /\ [][ONext]_<<made, told>>
=============================================================================
