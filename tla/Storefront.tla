----------------------------- MODULE Storefront -----------------------------
(* The menu of a branch (MenuService, CatalogService), carts (CartService)   *)
(* and what becomes of a cart in a checkout. Staff put items on the menu,    *)
(* "86" them and switch them off at the branch, each in one transaction.     *)
(* A cart's checkout is three transactions: it reads the cart's rows, calls  *)
(* OrderService.checkout with them, and closes the cart. The middle one is   *)
(* reduced here to what concerns carts and the menu: the lookup of the key,  *)
(* the two reads it makes of each line's item, and the insert, which meets   *)
(* the unique index; its other guards, the provider and its locks are a      *)
(* choice to fail (OrderService and Guardrails model them).                  *)
EXTENDS FiniteSets

CONSTANTS
  Items,        \* items of the catalog
  Lines,        \* rows that callers add to carts
  ItemOf,       \* the item of a row
  Carts,
  Checkouts,    \* requests to check a cart out
  OrderKeys,    \* idempotency keys, which the route insists on
  null

ASSUME StoreAssumption ==
  /\ ItemOf \in [Lines -> Items]
  /\ null \notin Carts \union Checkouts \union OrderKeys \union Lines
  /\ \A rows \in SUBSET Lines : rows # null

VARIABLES
  item,         \* catalog_items.status, or "absent"
  override,     \* menu_availability of the branch: "none", "on" or "off"
  cart,         \* carts.status, or "absent"
  inCart,       \* cart_items: the cart of each row, or null
  ordered,      \* orders with their items: the rows a checkout's order took, or null
  stage,        \* where a checkout stands
  from,         \* the cart it names, or null
  key,          \* the key it brings, or null
  taken,        \* the cart's rows as it read them
  unchecked,    \* those whose item is still to be looked at
  half,         \* the row whose item has been read and whose override has not, or null
  order,        \* the order it answers with, named by the checkout that placed it, or null
  sold,         \* history: the items that were on sale at some moment since it began
  here          \* history: those that were not switched off at some moment since then

menuVars == <<item, override>>
cartVars == <<cart, inCart>>
checkoutVars == <<stage, from, key, taken, unchecked, half, order>>
storeVars == <<menuVars, cartVars, ordered, checkoutVars, sold, here>>

ItemStatus == {"available", "sold_out"}
CartStatus == {"active", "checked_out"}
Stages == {"idle", "lines", "dedupe", "resolve", "place", "close", "done", "failed"}

StoreTypeOK ==
  /\ item \in [Items -> ItemStatus \union {"absent"}]
  /\ override \in [Items -> {"none", "on", "off"}]
  /\ cart \in [Carts -> CartStatus \union {"absent"}]
  /\ inCart \in [Lines -> Carts \union {null}]
  /\ ordered \in [Checkouts -> (SUBSET Lines) \union {null}]
  /\ stage \in [Checkouts -> Stages]
  /\ from \in [Checkouts -> Carts \union {null}]
  /\ key \in [Checkouts -> OrderKeys \union {null}]
  /\ taken \in [Checkouts -> SUBSET Lines]
  /\ unchecked \in [Checkouts -> SUBSET Lines]
  /\ half \in [Checkouts -> Lines \union {null}]
  /\ order \in [Checkouts -> Checkouts \union {null}]
  /\ sold \in [Checkouts -> SUBSET Items]
  /\ here \in [Checkouts -> SUBSET Items]

StoreInit ==
  /\ item = [i \in Items |-> "absent"]
  /\ override = [i \in Items |-> "none"]
  /\ cart = [c \in Carts |-> "absent"]
  /\ inCart = [l \in Lines |-> null]
  /\ ordered = [p \in Checkouts |-> null]
  /\ stage = [p \in Checkouts |-> "idle"]
  /\ from = [p \in Checkouts |-> null]
  /\ key = [p \in Checkouts |-> null]
  /\ taken = [p \in Checkouts |-> {}]
  /\ unchecked = [p \in Checkouts |-> {}]
  /\ half = [p \in Checkouts |-> null]
  /\ order = [p \in Checkouts |-> null]
  /\ sold = [p \in Checkouts |-> {}]
  /\ here = [p \in Checkouts |-> {}]

OnSale == {i \in Items : item[i] = "available"}
NotOff == {i \in Items : override[i] # "off"}
Rows(c) == {l \in Lines : inCart[l] = c}
Running == {p \in Checkouts : stage[p] \notin {"idle", "done", "failed"}}

(* Every change of the menu is seen by the checkouts that are under way.     *)
Witness ==
  /\ sold' = [p \in Checkouts |-> IF p \in Running THEN sold[p] \union {i \in Items : item'[i] = "available"} ELSE sold[p]]
  /\ here' = [p \in Checkouts |-> IF p \in Running THEN here[p] \union {i \in Items : override'[i] # "off"} ELSE here[p]]

createItem(i) ==
  /\ item[i] = "absent"
  /\ item' = [item EXCEPT ![i] = "available"]
  /\ UNCHANGED <<override, cartVars, ordered, checkoutVars>>
  /\ Witness

setSoldOut(i, soldOut) ==
  /\ item[i] # "absent"
  /\ item' = [item EXCEPT ![i] = IF soldOut THEN "sold_out" ELSE "available"]
  /\ UNCHANGED <<override, cartVars, ordered, checkoutVars>>
  /\ Witness

setBranchAvailability(i, available) ==
  /\ item[i] # "absent"
  /\ override' = [override EXCEPT ![i] = IF available THEN "on" ELSE "off"]
  /\ UNCHANGED <<item, cartVars, ordered, checkoutVars>>
  /\ Witness

createCart(c) ==
  /\ cart[c] = "absent"
  /\ cart' = [cart EXCEPT ![c] = "active"]
  /\ UNCHANGED <<menuVars, inCart, ordered, checkoutVars, sold, here>>

(* Whatever the cart's status, and whether the item is on sale or not.       *)
addItem(l, c) ==
  /\ inCart[l] = null
  /\ cart[c] # "absent" /\ item[ItemOf[l]] # "absent"
  /\ inCart' = [inCart EXCEPT ![l] = c]
  /\ UNCHANGED <<menuVars, cart, ordered, checkoutVars, sold, here>>

MenuNext ==
  \E i \in Items : createItem(i) \/ \E b \in BOOLEAN : setSoldOut(i, b) \/ setBranchAvailability(i, b)
CartNext == \E c \in Carts : createCart(c) \/ \E l \in Lines : addItem(l, c)

Enter(p, where) == stage' = [stage EXCEPT ![p] = where]
InCart(p) == Rows(from[p])
Placed(k) == {p \in Checkouts : ordered[p] # null /\ key[p] = k}

(* The path names the cart and the body brings the key, each as the caller   *)
(* likes: a key that came with one cart may come with another.               *)
checkoutCart(p, c, k) ==
  /\ stage[p] = "idle"
  /\ cart[c] # "absent"
  /\ Enter(p, "lines")
  /\ from' = [from EXCEPT ![p] = c]
  /\ key' = [key EXCEPT ![p] = k]
  /\ sold' = [sold EXCEPT ![p] = OnSale]
  /\ here' = [here EXCEPT ![p] = NotOff]
  /\ UNCHANGED <<menuVars, cartVars, ordered, taken, unchecked, half, order>>

(* A plausible slip: the rows are fetched by pages, each with a statement of *)
(* its own, in no order that is stable.                                      *)
ReadLinesByPages(p) ==
  /\ stage[p] = "lines"
  /\ \E page \in SUBSET InCart(p) : taken' = [taken EXCEPT ![p] = @ \union page]
  /\ \E next \in {"lines", "dedupe"} : Enter(p, next)
  /\ UNCHANGED <<menuVars, cartVars, ordered, from, key, unchecked, half, order, sold, here>>

ReadLines(p) ==
  /\ stage[p] = "lines"
  /\ taken' = [taken EXCEPT ![p] = InCart(p)]
  /\ Enter(p, "dedupe")
  /\ UNCHANGED <<menuVars, cartVars, ordered, from, key, unchecked, half, order, sold, here>>

(* The key is known: its order is the answer. An empty cart is refused.      *)
Dedupe(p) ==
  /\ stage[p] = "dedupe"
  /\ \/ \E q \in Placed(key[p]) : order' = [order EXCEPT ![p] = q] /\ Enter(p, "close") /\ UNCHANGED unchecked
     \/ /\ Placed(key[p]) = {}
        /\ Enter(p, IF taken[p] = {} THEN "failed" ELSE "resolve")
        /\ unchecked' = [unchecked EXCEPT ![p] = taken[p]]
        /\ UNCHANGED order
  /\ UNCHANGED <<menuVars, cartVars, ordered, from, key, taken, half, sold, here>>

(* resolveLines: an item's status, and then its override at the branch.      *)
ReadItem(p) ==
  /\ stage[p] = "resolve" /\ half[p] = null
  /\ \E l \in unchecked[p] :
       IF ItemOf[l] \in OnSale
         THEN half' = [half EXCEPT ![p] = l] /\ UNCHANGED stage
         ELSE Enter(p, "failed") /\ UNCHANGED half
  /\ UNCHANGED <<menuVars, cartVars, ordered, from, key, taken, unchecked, order, sold, here>>

(* A plausible slip: as in quote, no branch is passed to resolveLines.       *)
ReadNoOverride(p) ==
  /\ half[p] # null
  /\ half' = [half EXCEPT ![p] = null]
  /\ unchecked' = [unchecked EXCEPT ![p] = @ \ {half[p]}]
  /\ Enter(p, IF unchecked[p] = {half[p]} THEN "place" ELSE "resolve")
  /\ UNCHANGED <<menuVars, cartVars, ordered, from, key, taken, order, sold, here>>

ReadOverride(p) ==
  /\ half[p] # null
  /\ half' = [half EXCEPT ![p] = null]
  /\ IF ItemOf[half[p]] \in NotOff
       THEN /\ unchecked' = [unchecked EXCEPT ![p] = @ \ {half[p]}]
            /\ Enter(p, IF unchecked[p] = {half[p]} THEN "place" ELSE "resolve")
       ELSE Enter(p, "failed") /\ UNCHANGED unchecked
  /\ UNCHANGED <<menuVars, cartVars, ordered, from, key, taken, order, sold, here>>

(* The order and its items, unless the key has been used meanwhile. The      *)
(* answer of the database may be lost.                                       *)
Place(p) ==
  /\ stage[p] = "place"
  /\ IF Placed(key[p]) # {}
       THEN Enter(p, "failed") /\ UNCHANGED <<ordered, order>>
       ELSE /\ ordered' = [ordered EXCEPT ![p] = taken[p]]
            /\ \/ order' = [order EXCEPT ![p] = p] /\ Enter(p, "close")
               \/ Enter(p, "failed") /\ UNCHANGED order
  /\ UNCHANGED <<menuVars, cartVars, from, key, taken, unchecked, half, sold, here>>

(* Whatever order was the answer, the cart that was named is closed. The     *)
(* answer of the database may be lost here too.                              *)
Close(p) ==
  /\ stage[p] = "close"
  /\ cart' = [cart EXCEPT ![from[p]] = "checked_out"]
  /\ \E end \in {"done", "failed"} : Enter(p, end)
  /\ UNCHANGED <<menuVars, inCart, ordered, from, key, taken, unchecked, half, order, sold, here>>

(* A plausible slip: the cart is closed whatever became of the order.        *)
CheckoutFailsClosing(p) ==
  /\ p \in Running
  /\ cart' = [cart EXCEPT ![from[p]] = "checked_out"]
  /\ Enter(p, "failed")
  /\ half' = [half EXCEPT ![p] = null]
  /\ UNCHANGED <<menuVars, inCart, ordered, from, key, taken, unchecked, order, sold, here>>

(* Another guard of the checkout refuses, the provider declines, a statement *)
(* fails, or the process stops, with the order placed or not.                *)
CheckoutFails(p) ==
  /\ p \in Running
  /\ Enter(p, "failed")
  /\ half' = [half EXCEPT ![p] = null]
  /\ UNCHANGED <<menuVars, cartVars, ordered, from, key, taken, unchecked, order, sold, here>>

Step(p) ==
  ReadLines(p) \/ Dedupe(p) \/ ReadItem(p) \/ ReadOverride(p) \/ Place(p) \/ Close(p)
StoreNext ==
  \/ MenuNext \/ CartNext
  \/ \E p \in Checkouts : Step(p) \/ CheckoutFails(p) \/ \E c \in Carts, k \in OrderKeys : checkoutCart(p, c, k)
StoreSpec == StoreInit /\ [][StoreNext]_storeVars
StoreFairness == \A p \in Checkouts : WF_storeVars(Step(p))

----------------------------------------------------------------------------
(* Another checkout brought p's key for another cart.                        *)
KeyStrayed(p) == \E q \in Checkouts : key[q] = key[p] /\ from[q] # from[p]

(* A cart is closed only when a checkout that named it has an order, and     *)
(* that order is of rows of the cart. Closing is a transaction of its own,   *)
(* after the order's, and a retry that finds its key does not look at the    *)
(* cart: so the second part is promised only for a key that was brought for  *)
(* one cart. A key that was used for cart A and comes with cart B is         *)
(* answered with A's order, and closes B.                                    *)
ClosedCartsWereOrdered ==
  /\ \A c \in Carts : cart[c] = "checked_out" => \E p \in Checkouts : from[p] = c /\ order[p] # null
  /\ \A p \in Checkouts : stage[p] = "done" => cart[from[p]] = "checked_out"
  /\ \A p \in Checkouts : order[p] # null =>
       /\ ordered[order[p]] \notin {null, {}}
       /\ KeyStrayed(p) \/ ordered[order[p]] \subseteq InCart(p)

(* An order takes the cart as it stood at one moment, however many callers   *)
(* add to it meanwhile: of two orders of a cart, one continues the other.    *)
OrdersAreSnapshots ==
  \A p, q \in Checkouts :
    ordered[p] # null /\ ordered[q] # null /\ from[p] = from[q] =>
      ordered[p] \subseteq ordered[q] \/ ordered[q] \subseteq ordered[p]

(* "An explicit availability override to false at this branch gates          *)
(* ordering even when the item is globally available": what was off the menu *)
(* for as long as the checkout ran is not in its order. (The two reads see   *)
(* two moments: no one moment need have had the item both on sale and on.)   *)
EightySixedIsNotOrdered ==
  \A p \in Checkouts : ordered[p] # null =>
    {ItemOf[l] : l \in ordered[p]} \subseteq sold[p] \intersect here[p]

(* "Turn the cart into an order via the single money path, then close the    *)
(* cart": a row of a cart is sold once. The status is written and never      *)
(* read, so another key sells the rows again.                                *)
RowsSoldOnce ==
  \A p, q \in Checkouts :
    p # q /\ ordered[p] # null /\ ordered[q] # null => ordered[p] \intersect ordered[q] = {}

(* No checkout is under way.                                                 *)
StoreIsQuiet == Running = {}
=============================================================================
