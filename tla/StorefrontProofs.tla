-------------------------- MODULE StorefrontProofs --------------------------
(* Theorems about Storefront, for any number of items, carts, rows and       *)
(* checkouts.                                                                *)
EXTENDS Storefront, TLAPS

Began(p) == stage[p] # "idle"
ItemsOf(rows) == {ItemOf[l] : l \in rows}

(* What a checkout knows of its cart and its order, stage by stage.          *)
KnowsItsRows(p) ==
  /\ Began(p) => from[p] \in Carts /\ key[p] \in OrderKeys
  /\ stage[p] \in {"idle", "lines"} => taken[p] = {} /\ unchecked[p] = {}
  /\ stage[p] \in {"idle", "lines", "dedupe", "resolve", "place"} => ordered[p] = null
  /\ stage[p] \in {"resolve", "place"} => taken[p] # {}
  /\ Began(p) => taken[p] \subseteq InCart(p)
  /\ ordered[p] # null => Began(p) /\ ordered[p] = taken[p] /\ taken[p] # {}

KnowsItsOrder(p) ==
  /\ stage[p] \in {"close", "done"} => order[p] # null
  /\ order[p] # null =>
       /\ stage[p] \in {"close", "done", "failed"}
       /\ order[p] \in Checkouts
       /\ ordered[order[p]] # null
       /\ key[order[p]] = key[p]

(* What it has looked at was on sale and on the menu since it began; as long *)
(* as it runs, what is so now counts too.                                    *)
LooksAtItems(p) ==
  /\ half[p] # null => stage[p] = "resolve" /\ half[p] \in unchecked[p] /\ ItemOf[half[p]] \in sold[p]
  /\ stage[p] = "place" => unchecked[p] = {}
  /\ stage[p] \in {"resolve", "place"} =>
       \A l \in taken[p] \ unchecked[p] : ItemOf[l] \in sold[p] /\ ItemOf[l] \in here[p]
  /\ p \in Running => OnSale \subseteq sold[p] /\ NotOff \subseteq here[p]

Comparable(S, T) == S \subseteq T \/ T \subseteq S
SnapshotsNest ==
  \A p, q \in Checkouts :
    Began(p) /\ Began(q) /\ from[p] = from[q] => Comparable(taken[p], taken[q])

ClosedWereOrdered ==
  /\ \A c \in Carts : cart[c] = "checked_out" =>
       \E p \in Checkouts : order[p] # null /\ from[p] = c
  /\ \A p \in Checkouts : stage[p] = "done" => cart[from[p]] = "checked_out"

StoreInv ==
  /\ StoreTypeOK
  /\ \A p \in Checkouts : KnowsItsRows(p) /\ KnowsItsOrder(p) /\ LooksAtItems(p)
  /\ SnapshotsNest /\ ClosedWereOrdered /\ EightySixedIsNotOrdered

LEMMA InitStoreInv == StoreInit => StoreInv
  <1>. SUFFICES ASSUME StoreInit PROVE StoreInv
    OBVIOUS
  <1>. USE StoreAssumption DEF StoreInit
  <1>1. StoreTypeOK
    BY DEF StoreTypeOK, ItemStatus, CartStatus, Stages
  <1>2. \A p \in Checkouts : KnowsItsRows(p) /\ KnowsItsOrder(p) /\ LooksAtItems(p)
    BY DEF KnowsItsRows, KnowsItsOrder, LooksAtItems, Began, Running
  <1>3. SnapshotsNest /\ ClosedWereOrdered /\ EightySixedIsNotOrdered
    BY DEF SnapshotsNest, ClosedWereOrdered, EightySixedIsNotOrdered, Began
  <1>. QED
    BY <1>1, <1>2, <1>3 DEF StoreInv

----------------------------------------------------------------------------
(* A change of the menu: those who run see it, the others do not care.       *)
LEMMA MenuKeepsInv ==
  ASSUME StoreInv, MenuNext
  PROVE  StoreInv'
  <1>. USE DEF StoreInv, menuVars, cartVars, checkoutVars
  <1>1. /\ UNCHANGED <<cart, inCart, ordered, stage, from, key, taken, unchecked, half, order>>
        /\ Witness
        /\ item' \in [Items -> ItemStatus \union {"absent"}]
        /\ override' \in [Items -> {"none", "on", "off"}]
    BY DEF MenuNext, createItem, setSoldOut, setBranchAvailability, StoreTypeOK, ItemStatus
  <1>2. /\ sold' \in [Checkouts -> SUBSET Items] /\ here' \in [Checkouts -> SUBSET Items]
        /\ \A p \in Checkouts : sold[p] \subseteq sold'[p] /\ here[p] \subseteq here'[p]
    BY <1>1 DEF Witness, StoreTypeOK, OnSale, NotOff
  <1>3. \A p \in Running : OnSale' \subseteq sold'[p] /\ NotOff' \subseteq here'[p]
    BY <1>1 DEF Witness, OnSale, NotOff, Running
  <1>4. StoreTypeOK'
    BY <1>1, <1>2 DEF StoreTypeOK
  <1>5. ASSUME NEW p \in Checkouts
        PROVE  (KnowsItsRows(p) /\ KnowsItsOrder(p) /\ LooksAtItems(p))'
    <2>1. (KnowsItsRows(p) /\ KnowsItsOrder(p))'
      BY <1>1 DEF KnowsItsRows, KnowsItsOrder, Began, InCart, Rows
    <2>2. LooksAtItems(p)'
      BY <1>1, <1>2, <1>3 DEF LooksAtItems, Running
    <2>. QED
      BY <2>1, <2>2
  <1>6. SnapshotsNest' /\ ClosedWereOrdered'
    BY <1>1 DEF SnapshotsNest, ClosedWereOrdered, Began
  <1>7. EightySixedIsNotOrdered'
    BY <1>1, <1>2 DEF EightySixedIsNotOrdered
  <1>. QED
    BY <1>4, <1>5, <1>6, <1>7

(* Carts and their rows only grow.                                           *)
LEMMA CartKeepsInv ==
  ASSUME StoreInv, CartNext
  PROVE  StoreInv'
  <1>. USE StoreAssumption DEF StoreInv, menuVars, checkoutVars
  <1>1. /\ UNCHANGED <<item, override, ordered, stage, from, key, taken, unchecked, half, order, sold, here>>
        /\ cart' \in [Carts -> CartStatus \union {"absent"}]
        /\ inCart' \in [Lines -> Carts \union {null}]
        /\ \A c \in Carts : cart'[c] = "checked_out" <=> cart[c] = "checked_out"
        /\ \A l \in Lines : inCart[l] # null => inCart'[l] = inCart[l]
    BY DEF CartNext, createCart, addItem, StoreTypeOK, CartStatus
  <1>2. StoreTypeOK'
    BY <1>1 DEF StoreTypeOK
  <1>3. ASSUME NEW p \in Checkouts
        PROVE  (KnowsItsRows(p) /\ KnowsItsOrder(p) /\ LooksAtItems(p))'
    <2>1. Began(p) => InCart(p) \subseteq InCart(p)'
      <3>1. Began(p) => from[p] \in Carts
        BY DEF KnowsItsRows
      <3>. QED
        BY <1>1, <3>1 DEF InCart, Rows
    <2>2. KnowsItsRows(p)'
      BY <1>1, <2>1 DEF KnowsItsRows, Began
    <2>3. (KnowsItsOrder(p) /\ LooksAtItems(p))'
      BY <1>1 DEF KnowsItsOrder, LooksAtItems, Running, OnSale, NotOff
    <2>. QED
      BY <2>2, <2>3
  <1>4. SnapshotsNest' /\ EightySixedIsNotOrdered'
    BY <1>1 DEF SnapshotsNest, Began, EightySixedIsNotOrdered
  <1>5. ClosedWereOrdered'
    <2>1. \A p \in Checkouts : stage[p] = "done" => from[p] \in Carts
      BY DEF KnowsItsRows, Began
    <2>. QED
      BY <1>1, <2>1 DEF ClosedWereOrdered
  <1>. QED
    BY <1>2, <1>3, <1>4, <1>5

----------------------------------------------------------------------------
(* A step of p leaves the menu, the rows of carts and other checkouts alone, *)
(* and what p has ordered.                                                   *)
StepOf(p) ==
  /\ UNCHANGED <<item, override, inCart>>
  /\ \A q \in Checkouts \ {p} :
       /\ stage'[q] = stage[q] /\ from'[q] = from[q] /\ key'[q] = key[q] /\ taken'[q] = taken[q]
       /\ unchecked'[q] = unchecked[q] /\ half'[q] = half[q] /\ order'[q] = order[q]
       /\ sold'[q] = sold[q] /\ here'[q] = here[q] /\ ordered'[q] = ordered[q]
  /\ ordered[p] # null => ordered'[p] = ordered[p] /\ key'[p] = key[p]
  /\ order[p] # null => order'[p] = order[p] /\ from'[p] = from[p]

FitsTheMenu(p) ==
  ordered[p] # null => {ItemOf[l] : l \in ordered[p]} \subseteq sold[p] \intersect here[p]

LEMMA StepsKeepInv ==
  ASSUME StoreInv, NEW p \in Checkouts, StepOf(p), StoreTypeOK',
         (KnowsItsRows(p) /\ KnowsItsOrder(p) /\ LooksAtItems(p))',
         FitsTheMenu(p)',
         \/ taken'[p] = taken[p] /\ (Began(p) => from'[p] = from[p])
         \/ taken'[p] = {}
         \/ taken'[p] = InCart(p) /\ from'[p] = from[p] /\ Began(p),
         ClosedWereOrdered'
  PROVE  StoreInv'
  <1>. USE DEF StoreInv
  <1>1. ASSUME NEW q \in Checkouts, q # p
        PROVE  (KnowsItsRows(q) /\ KnowsItsOrder(q) /\ LooksAtItems(q) /\ FitsTheMenu(q))'
    <2>1. (KnowsItsRows(q) /\ LooksAtItems(q))'
      BY <1>1 DEF StepOf, KnowsItsRows, LooksAtItems, Began, InCart, Rows, Running, OnSale, NotOff
    <2>2. KnowsItsOrder(q)'
      BY <1>1 DEF StepOf, KnowsItsOrder
    <2>3. FitsTheMenu(q)'
      BY <1>1 DEF StepOf, FitsTheMenu, EightySixedIsNotOrdered
    <2>. QED
      BY <2>1, <2>2, <2>3
  <1>2. ASSUME NEW q \in Checkouts, q # p, (Began(p) /\ Began(q))', (from[p] = from[q])'
        PROVE  Comparable(taken'[p], taken'[q])
    <2>1. taken'[q] = taken[q] /\ from'[q] = from[q] /\ Began(q)
      BY <1>2 DEF StepOf, Began
    <2>2. CASE taken'[p] = taken[p] /\ Began(p) /\ from'[p] = from[p]
      BY <1>2, <2>1, <2>2 DEF SnapshotsNest, Comparable
    <2>3. CASE taken'[p] = {} \/ (~Began(p) /\ taken'[p] = taken[p])
      BY <2>3 DEF KnowsItsRows, Began, Comparable
    <2>4. CASE taken'[p] = InCart(p) /\ from'[p] = from[p] /\ Began(p)
      BY <1>2, <2>1, <2>4 DEF KnowsItsRows, InCart, Comparable
    <2>5. \/ taken'[p] = taken[p] /\ (Began(p) => from'[p] = from[p])
          \/ taken'[p] = {}
          \/ taken'[p] = InCart(p) /\ from'[p] = from[p] /\ Began(p)
      OBVIOUS
    <2>. QED
      BY ONLY <2>2, <2>3, <2>4, <2>5
  <1>3. ASSUME NEW q \in Checkouts, NEW r \in Checkouts, q # p, r # p,
               (Began(q) /\ Began(r))', (from[q] = from[r])'
        PROVE  Comparable(taken'[q], taken'[r])
    BY <1>3 DEF StepOf, SnapshotsNest, Began
  <1>4. SnapshotsNest'
    <2>. SUFFICES ASSUME NEW q \in Checkouts, NEW r \in Checkouts,
                         (Began(q) /\ Began(r))', (from[q] = from[r])'
                  PROVE  Comparable(taken'[q], taken'[r])
      BY DEF SnapshotsNest, Comparable
    <2>1. CASE q = p /\ r = p
      BY <2>1 DEF Comparable
    <2>2. CASE q = p /\ r # p
      BY <1>2, <2>2
    <2>3. CASE q # p /\ r = p
      BY <1>2, <2>3 DEF Comparable
    <2>. QED
      BY <1>3, <2>1, <2>2, <2>3
  <1>5. EightySixedIsNotOrdered'
    BY <1>1 DEF FitsTheMenu, EightySixedIsNotOrdered
  <1>. QED
    BY <1>1, <1>4, <1>5

(* Nothing closes a cart; an order that stands keeps the closed ones so.     *)
LEMMA NoClosing ==
  ASSUME StoreInv, NEW p \in Checkouts, StepOf(p), UNCHANGED cart, stage'[p] # "done"
  PROVE  ClosedWereOrdered'
  BY DEF StoreInv, ClosedWereOrdered, StepOf
----------------------------------------------------------------------------
LEMMA BeginKeepsInv ==
  ASSUME StoreInv, NEW p \in Checkouts, NEW c \in Carts, NEW k \in OrderKeys, checkoutCart(p, c, k)
  PROVE  StoreInv'
  <1>. USE DEF StoreInv, checkoutCart, Enter, menuVars, cartVars
  <1>1. StoreTypeOK'
    BY DEF StoreTypeOK, Stages, OnSale, NotOff
  <1>2. StepOf(p)
    BY DEF StoreTypeOK, StepOf, KnowsItsRows, KnowsItsOrder, Began
  <1>3. (KnowsItsRows(p) /\ KnowsItsOrder(p) /\ LooksAtItems(p))' /\ FitsTheMenu(p)'
    BY DEF StoreTypeOK, KnowsItsRows, KnowsItsOrder, LooksAtItems, FitsTheMenu, Began, Running, OnSale, NotOff
  <1>4. taken'[p] = {} /\ stage'[p] # "done"
    BY DEF StoreTypeOK, KnowsItsRows
  <1>. QED
    BY <1>1, <1>2, <1>3, <1>4, StepsKeepInv, NoClosing

LEMMA ReadLinesKeepsInv ==
  ASSUME StoreInv, NEW p \in Checkouts, ReadLines(p)
  PROVE  StoreInv'
  <1>. USE DEF StoreInv, ReadLines, Enter, menuVars, cartVars
  <1>1. StoreTypeOK'
    BY DEF StoreTypeOK, Stages, InCart, Rows
  <1>2. StepOf(p)
    BY DEF StoreTypeOK, StepOf, KnowsItsRows, Began
  <1>3. (KnowsItsRows(p) /\ KnowsItsOrder(p) /\ LooksAtItems(p))' /\ FitsTheMenu(p)'
    BY DEF StoreTypeOK, KnowsItsRows, KnowsItsOrder, LooksAtItems, FitsTheMenu, Began, Running, OnSale,
           NotOff, InCart, Rows
  <1>4. taken'[p] = InCart(p) /\ from'[p] = from[p] /\ Began(p) /\ stage'[p] # "done"
    BY DEF StoreTypeOK, Began
  <1>. QED
    BY <1>1, <1>2, <1>3, <1>4, StepsKeepInv, NoClosing

LEMMA DedupeKeepsInv ==
  ASSUME StoreInv, NEW p \in Checkouts, Dedupe(p)
  PROVE  StoreInv'
  <1>. USE DEF StoreInv, Dedupe, Enter, menuVars, cartVars
  <1>1. StoreTypeOK'
    BY DEF StoreTypeOK, Stages, Placed
  <1>2. StepOf(p)
    BY DEF StoreTypeOK, StepOf, KnowsItsOrder
  <1>3. (KnowsItsRows(p) /\ LooksAtItems(p))' /\ FitsTheMenu(p)'
    BY DEF StoreTypeOK, KnowsItsRows, LooksAtItems, FitsTheMenu, Began, Running, OnSale, NotOff, InCart, Rows
  <1>4. KnowsItsOrder(p)'
    BY StoreAssumption DEF StoreTypeOK, KnowsItsOrder, Placed
  <1>5. taken'[p] = taken[p] /\ from'[p] = from[p] /\ stage'[p] # "done"
    BY DEF StoreTypeOK
  <1>. QED
    BY <1>1, <1>2, <1>3, <1>4, <1>5, StepsKeepInv, NoClosing

LEMMA ReadItemKeepsInv ==
  ASSUME StoreInv, NEW p \in Checkouts, ReadItem(p)
  PROVE  StoreInv'
  <1>. USE DEF StoreInv, ReadItem, Enter, menuVars, cartVars
  <1>1. StoreTypeOK'
    BY DEF StoreTypeOK, Stages
  <1>2. StepOf(p)
    BY DEF StoreTypeOK, StepOf
  <1>3. (KnowsItsRows(p) /\ KnowsItsOrder(p))' /\ FitsTheMenu(p)'
    BY DEF StoreTypeOK, KnowsItsRows, KnowsItsOrder, FitsTheMenu, Began, InCart, Rows
  <1>4. LooksAtItems(p)'
    BY DEF StoreTypeOK, LooksAtItems, Running, OnSale, NotOff
  <1>5. taken'[p] = taken[p] /\ from'[p] = from[p] /\ stage'[p] # "done"
    BY DEF StoreTypeOK
  <1>. QED
    BY <1>1, <1>2, <1>3, <1>4, <1>5, StepsKeepInv, NoClosing

LEMMA ReadOverrideKeepsInv ==
  ASSUME StoreInv, NEW p \in Checkouts, ReadOverride(p)
  PROVE  StoreInv'
  <1>. USE DEF StoreInv, ReadOverride, Enter, menuVars, cartVars
  <1>1. StoreTypeOK'
    BY StoreAssumption DEF StoreTypeOK, Stages
  <1>2. StepOf(p)
    BY DEF StoreTypeOK, StepOf
  <1>3. stage[p] = "resolve" /\ half[p] \in unchecked[p] /\ ItemOf[half[p]] \in sold[p]
    BY DEF LooksAtItems
  <1>4. (KnowsItsRows(p) /\ KnowsItsOrder(p))' /\ FitsTheMenu(p)'
    BY <1>3 DEF StoreTypeOK, KnowsItsRows, KnowsItsOrder, FitsTheMenu, Began, InCart, Rows
  <1>5. LooksAtItems(p)'
    <2>1. OnSale \subseteq sold[p] /\ NotOff \subseteq here[p]
      BY <1>3 DEF LooksAtItems, Running
    <2>. QED
      BY <1>3, <2>1 DEF StoreTypeOK, LooksAtItems, Running, OnSale, NotOff
  <1>6. taken'[p] = taken[p] /\ from'[p] = from[p] /\ stage'[p] # "done"
    BY <1>3 DEF StoreTypeOK
  <1>. QED
    BY <1>1, <1>2, <1>4, <1>5, <1>6, StepsKeepInv, NoClosing

LEMMA PlaceKeepsInv ==
  ASSUME StoreInv, NEW p \in Checkouts, Place(p)
  PROVE  StoreInv'
  <1>. USE DEF StoreInv, Place, Enter, menuVars, cartVars
  <1>1. StoreTypeOK'
    BY DEF StoreTypeOK, Stages
  <1>2. StepOf(p)
    BY DEF StoreTypeOK, StepOf, KnowsItsRows, KnowsItsOrder
  <1>3. taken[p] # null
    BY StoreAssumption DEF StoreTypeOK
  <1>4. KnowsItsRows(p)'
    BY <1>3 DEF StoreTypeOK, KnowsItsRows, Began, InCart, Rows
  <1>5. KnowsItsOrder(p)'
    BY <1>3, StoreAssumption DEF StoreTypeOK, KnowsItsOrder
  <1>6. LooksAtItems(p)'
    BY DEF StoreTypeOK, LooksAtItems, Running, OnSale, NotOff
  <1>7. FitsTheMenu(p)'
    BY DEF StoreTypeOK, FitsTheMenu, LooksAtItems, KnowsItsRows
  <1>8. taken'[p] = taken[p] /\ from'[p] = from[p] /\ stage'[p] # "done"
    BY DEF StoreTypeOK
  <1>. QED
    BY <1>1, <1>2, <1>4, <1>5, <1>6, <1>7, <1>8, StepsKeepInv, NoClosing

LEMMA CloseKeepsInv ==
  ASSUME StoreInv, NEW p \in Checkouts, Close(p)
  PROVE  StoreInv'
  <1>. USE DEF StoreInv, Close, Enter, menuVars
  <1>1. from[p] \in Carts
    BY DEF KnowsItsRows, Began
  <1>2. StoreTypeOK'
    BY <1>1 DEF StoreTypeOK, Stages, CartStatus
  <1>3. StepOf(p)
    BY DEF StoreTypeOK, StepOf
  <1>4. (KnowsItsRows(p) /\ KnowsItsOrder(p) /\ LooksAtItems(p))' /\ FitsTheMenu(p)'
    BY DEF StoreTypeOK, KnowsItsRows, KnowsItsOrder, LooksAtItems, FitsTheMenu, EightySixedIsNotOrdered,
           Began, Running, InCart, Rows
  <1>5. ClosedWereOrdered'
    <2>1. order[p] # null
      BY DEF KnowsItsOrder
    <2>2. \A c \in Carts : cart'[c] = IF c = from[p] THEN "checked_out" ELSE cart[c]
      BY DEF StoreTypeOK
    <2>3. \A q \in Checkouts : stage'[q] = "done" => q = p \/ stage[q] = "done"
      BY DEF StoreTypeOK
    <2>4. \A q \in Checkouts : stage[q] = "done" => from[q] \in Carts
      BY DEF KnowsItsRows, Began
    <2>. QED
      BY <1>1, <2>1, <2>2, <2>3, <2>4 DEF ClosedWereOrdered
  <1>6. taken'[p] = taken[p] /\ from'[p] = from[p]
    BY DEF StoreTypeOK
  <1>. QED
    BY <1>2, <1>3, <1>4, <1>5, <1>6, StepsKeepInv

LEMMA FailureKeepsInv ==
  ASSUME StoreInv, NEW p \in Checkouts, CheckoutFails(p)
  PROVE  StoreInv'
  <1>. USE DEF StoreInv, CheckoutFails, Enter, menuVars, cartVars
  <1>1. StoreTypeOK'
    BY DEF StoreTypeOK, Stages
  <1>2. StepOf(p)
    BY DEF StoreTypeOK, StepOf
  <1>3. (KnowsItsRows(p) /\ KnowsItsOrder(p) /\ LooksAtItems(p))' /\ FitsTheMenu(p)'
    BY DEF StoreTypeOK, KnowsItsRows, KnowsItsOrder, LooksAtItems, FitsTheMenu, EightySixedIsNotOrdered,
           Began, Running, InCart, Rows
  <1>4. taken'[p] = taken[p] /\ from'[p] = from[p] /\ stage'[p] # "done"
    BY DEF StoreTypeOK
  <1>. QED
    BY <1>1, <1>2, <1>3, <1>4, StepsKeepInv, NoClosing

LEMMA NextKeepsInv == StoreInv /\ [StoreNext]_storeVars => StoreInv'
  <1>. SUFFICES ASSUME StoreInv, [StoreNext]_storeVars PROVE StoreInv'
    OBVIOUS
  <1>1. CASE MenuNext \/ CartNext
    BY <1>1, MenuKeepsInv, CartKeepsInv
  <1>2. ASSUME NEW p \in Checkouts, Step(p) PROVE StoreInv'
    BY <1>2, ReadLinesKeepsInv, DedupeKeepsInv, ReadItemKeepsInv, ReadOverrideKeepsInv,
       PlaceKeepsInv, CloseKeepsInv DEF Step
  <1>3. ASSUME NEW p \in Checkouts, NEW c \in Carts, NEW k \in OrderKeys, checkoutCart(p, c, k) PROVE StoreInv'
    BY <1>3, BeginKeepsInv
  <1>4. ASSUME NEW p \in Checkouts, CheckoutFails(p) PROVE StoreInv'
    BY <1>4, FailureKeepsInv
  <1>5. CASE UNCHANGED storeVars
    BY <1>5
    DEF storeVars, menuVars, cartVars, checkoutVars, StoreInv, StoreTypeOK, KnowsItsRows, KnowsItsOrder,
        LooksAtItems, SnapshotsNest, ClosedWereOrdered, EightySixedIsNotOrdered, Began, InCart, Rows,
        Running, OnSale, NotOff
  <1>. QED
    BY <1>1, <1>2, <1>3, <1>4, <1>5 DEF StoreNext

LEMMA StoreInvHolds == StoreSpec => []StoreInv
  BY InitStoreInv, NextKeepsInv, PTL DEF StoreSpec

----------------------------------------------------------------------------
(* Columns and local variables keep their types.                             *)
THEOREM StoreTypeCorrect == StoreSpec => []StoreTypeOK
  <1>1. StoreInv => StoreTypeOK
    BY DEF StoreInv
  <1>. QED
    BY <1>1, StoreInvHolds, PTL

(* A cart is closed only when a checkout that named it has an order; and an  *)
(* order that answers a checkout is not empty, and is of rows of the cart    *)
(* that was named unless the key was brought for another cart as well.       *)
THEOREM ClosedForAnOrder == StoreSpec => []ClosedCartsWereOrdered
  <1>1. StoreInv => ClosedCartsWereOrdered
    <2>. SUFFICES ASSUME StoreInv PROVE ClosedCartsWereOrdered
      OBVIOUS
    <2>1. ASSUME NEW p \in Checkouts, order[p] # null
          PROVE  /\ ordered[order[p]] \notin {null, {}}
                 /\ KeyStrayed(p) \/ ordered[order[p]] \subseteq InCart(p)
      <3>1. PICK q \in Checkouts : q = order[p] /\ ordered[q] # null /\ key[q] = key[p]
        BY <2>1 DEF StoreInv, KnowsItsOrder
      <3>2. ordered[q] # {} /\ ordered[q] \subseteq Rows(from[q])
        BY <3>1 DEF StoreInv, KnowsItsRows, InCart
      <3>. QED
        BY <3>1, <3>2 DEF KeyStrayed, InCart
    <2>. QED
      BY <2>1 DEF StoreInv, ClosedWereOrdered, ClosedCartsWereOrdered
  <1>. QED
    BY <1>1, StoreInvHolds, PTL

(* Of two orders of one cart, one continues the other.                       *)
THEOREM OrdersNest == StoreSpec => []OrdersAreSnapshots
  <1>1. StoreInv => OrdersAreSnapshots
    BY DEF StoreInv, KnowsItsRows, SnapshotsNest, Comparable, OrdersAreSnapshots
  <1>. QED
    BY <1>1, StoreInvHolds, PTL

(* What was sold out, or off the branch's menu, for as long as a checkout    *)
(* ran is not in its order.                                                  *)
THEOREM OffTheMenuIsNotOrdered == StoreSpec => []EightySixedIsNotOrdered
  <1>1. StoreInv => EightySixedIsNotOrdered
    BY DEF StoreInv
  <1>. QED
    BY <1>1, StoreInvHolds, PTL
=============================================================================
