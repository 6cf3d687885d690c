----------------------------- MODULE MCServices -----------------------------
(* The dispatcher, the notifications, access and onboarding, the guardrails  *)
(* of a checkout, and the storefront, in one instance. They share no rows    *)
(* and call nobody, so nothing is learned from their interleavings: part     *)
(* says which of them acts in a behaviour, and the others keep still.        *)
EXTENDS ToolDispatcher, Notifications, Access, Guardrails, Storefront, TLC

CONSTANTS
  Parts,                \* the components this instance runs
  c1, c2, c3, c4, k1, t1, t2,
  m1, m2, m3, d1, alice, bob,
  r1, a1, a2, s1, s2, slug,
  i1, l1, l2, cart1, cart2, p1, p2, key1, key2

VARIABLE part

(* Two calls bring one key to different tools, a third to the first again;   *)
(* the last has no key and no confirmation, which its tool asks for.         *)
MCKeyOf == c1 :> k1 @@ c2 :> k1 @@ c3 :> k1 @@ c4 :> none
MCToolOf == c1 :> t1 @@ c2 :> t2 @@ c3 :> t1 @@ c4 :> t2

MCTo == m1 :> alice @@ m2 :> alice @@ m3 :> bob
MCDedupeKeyOf == m1 :> d1 @@ m2 :> d1 @@ m3 :> unset

(* Alice runs the platform and asks twice for a restaurant of Bob's under    *)
(* one slug; Bob works there with a session of his own.                      *)
MCUserOf == s1 :> alice @@ s2 :> bob
MCTokenOf == r1 :> s2 @@ a1 :> s1 @@ a2 :> s1
MCSlugOf == a1 :> slug @@ a2 :> slug
MCOwnerOf == a1 :> bob @@ a2 :> bob

(* A day has eight units of three hours; local time is one ahead. Windows:   *)
(* 9 to 21; 12 to 3; the hours of the faq's test; and none entered.          *)
MCWeeks == {[d \in WEEKDAYS |-> IF d = 5 THEN {<<4, 7>>} ELSE {<<3, 5>>, <<6, 7>>}],
            [d \in WEEKDAYS |-> {<<4, 1>>}],
            1 :> {<<3, 7>>} @@ 5 :> {<<4, 0>>},
            <<>>}
MCLine(unit, delta, quantity) ==
  [unit |-> unit, delta |-> delta, quantity |-> quantity,
   groups |-> {[name |-> "size", min |-> 1, max |-> 1, required |-> TRUE, options |-> 2]},
   picked |-> [group \in {"size"} |-> IF delta = 0 THEN 1 ELSE -delta]]
MCBaskets == {<<>>, <<MCLine(5, 0, 1), MCLine(5, -2, 1)>>, <<MCLine(0, -1, 1)>>, <<MCLine(0, 0, 1)>>,
              <<MCLine(7, 0, 3), MCLine(8, -1, 1)>>}
MCPromos == {[kind |-> "percent", value |-> 50, minOrder |-> 0],
             [kind |-> "percent", value |-> 101, minOrder |-> 0],
             [kind |-> "amount", value |-> 40, minOrder |-> 25]}

(* No code looks at the sign of the fee that a caller names.                 *)
MCFees == {-3, 0, 9}

MCItemOf == l1 :> i1 @@ l2 :> i1

(* Carts, rows, checkouts and keys are told apart by nothing but their       *)
(* names, so the names are given in the order of their first use.            *)
NamedInOrder ==
  /\ cart[cart2] # "absent" => cart[cart1] # "absent"
  /\ inCart[l2] # null => inCart[l1] # null
  /\ stage[p2] # "idle" => stage[p1] # "idle"
  /\ key[p1] # key2

Init ==
  /\ part \in Parts
  /\ ToolInit /\ NotifyInit /\ AccessInit /\ GuardInit /\ StoreInit

Next ==
  /\ part' = part
  /\ \/ part = "tools" /\ ToolNext /\ UNCHANGED <<notifyVars, accessVars, guardVars, storeVars>>
     \/ part = "notifications" /\ NotifyNext /\ UNCHANGED <<toolVars, accessVars, guardVars, storeVars>>
     \/ part = "access" /\ AccessNext /\ UNCHANGED <<toolVars, notifyVars, guardVars, storeVars>>
     \/ part = "guardrails" /\ GuardNext /\ UNCHANGED <<toolVars, notifyVars, accessVars, storeVars>>
     \/ part = "storefront" /\ StoreNext /\ NamedInOrder' /\ UNCHANGED <<toolVars, notifyVars, accessVars, guardVars>>

(* A component that keeps still has nothing under way.                       *)
Fairness == ToolFairness /\ NotifyFairness /\ AccessFairness /\ StoreFairness

Spec == Init /\ [][Next]_<<part, toolVars, notifyVars, accessVars, guardVars, storeVars>>
FairSpec == Spec /\ Fairness

(* Every dispatch, notification, request and checkout that began ends: each  *)
(* is made once, so it is enough that again and again none is under way.     *)
EveryCallEnds == []<>(ToolIsQuiet /\ NotifyIsQuiet /\ AccessIsQuiet /\ StoreIsQuiet)
=============================================================================
