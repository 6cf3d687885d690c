----------------------------- MODULE Guardrails -----------------------------
(* What a merchant sets and a checkout is held to (order.service.ts calls    *)
(* them the checkout guardrails): opening hours, the minimum order, a        *)
(* promotion, and the totals that come out. priced is the request that is    *)
(* being priced at this moment; the reads behind it are the checkout's own   *)
(* transaction, whose races OrderService models.                             *)
EXTENDS Pricing, Sequences

CONSTANTS
  Weeks,        \* the opening hours merchants enter: functions from weekdays
  Minimums,     \* minimum orders
  Promos,       \* promotions merchants ask for: [kind, value, minOrder]
  Baskets,      \* the lines of a request, sequences of [unit, delta, quantity, groups,
                \* picked]: the item's price, what the modifiers add to it, how many, the
                \* item's modifier groups, and how many options are picked by group name
  Fees,         \* delivery fees: nobody validates what a route is given
  Slack,        \* how far in the past a scheduled time may lie (a minute)
  Horizon,      \* how far ahead (SCHEDULE_HORIZON_MS)
  FirstInstant, LastInstant,   \* the time the model runs
  noPromo, nothing

(* Windows are two times of day (HH:MM in the code, up to 24:00).            *)
ASSUME MerchantAssumption ==
  /\ \A week \in Weeks :
       /\ DOMAIN week \subseteq WEEKDAYS
       /\ \A day \in DOMAIN week : week[day] \subseteq (0..DAY) \X (0..DAY)
  /\ Minimums \subseteq Nat /\ Fees \subseteq Int
  /\ noPromo \notin Promos /\ \A p \in Promos : p.value \in Int
  /\ {Slack, Horizon, FirstInstant, LastInstant} \subseteq Nat

(* Prices, what modifiers add to them and quantities are integers, and items *)
(* have the groups that the menu service lets a merchant write.              *)
ASSUME BasketAssumption ==
  \A basket \in Baskets :
    /\ IsFiniteSet(DOMAIN basket)
    /\ \A i \in DOMAIN basket :
         /\ {basket[i].unit, basket[i].delta, basket[i].quantity} \subseteq Int
         /\ validateModifierGroups(basket[i].groups)

VARIABLES hours, minOrder, promo, now, priced

branchVars == <<hours, minOrder>>
guardVars == <<branchVars, promo, now, priced>>

(* A branch is created without hours, which keeps it open.                   *)
GuardInit ==
  /\ hours = <<>>
  /\ minOrder = 0
  /\ promo = noPromo
  /\ now = FirstInstant
  /\ priced = nothing

(* RestaurantService.updateBranch: the settings in the patch.                *)
updateBranch ==
  /\ hours' \in Weeks /\ minOrder' \in Minimums
  /\ priced' = nothing
  /\ UNCHANGED <<promo, now>>

(* PromotionService.create, whose guard speaks of percentages; the table     *)
(* refuses negative values (ck_promotions_value) and a second row of a code  *)
(* (uq_promotions_code).                                                     *)
createPromo(p) ==
  /\ promo = noPromo
  /\ p.value >= 0 /\ (p.kind = "percent" => p.value <= 100)
  /\ promo' = p
  /\ priced' = nothing
  /\ UNCHANGED <<branchVars, now>>

Tick ==
  /\ now < LastInstant
  /\ now' = now + 1
  /\ priced' = nothing
  /\ UNCHANGED <<branchVars, promo>>

(* Every line picks as many options of each group as the group allows.      *)
WellModified(basket) == \A i \in DOMAIN basket : enforced(basket[i].groups, basket[i].picked)

(* Why a request is refused, "no" if it is not; wanted is the instant it is  *)
(* scheduled for, or now. A quantity or a unit price that cannot be priced   *)
(* is an error that no code names.                                           *)
Refusal(basket, withPromo, wanted) ==
  IF basket = <<>> THEN "bad_item"
  ELSE IF ~WellModified(basket) THEN "bad_modifier"
  ELSE IF ~priceable(basket) THEN "error"
  ELSE IF Subtotal(basket) < minOrder THEN "below_minimum"
  ELSE IF wanted < now - Slack \/ wanted > now + Horizon THEN "bad_schedule"
  ELSE IF DOMAIN hours # {} /\ ~isOpenAt(hours, wanted) THEN "closed"
  ELSE IF withPromo /\ (promo = noPromo \/ Subtotal(basket) < promo.minOrder) THEN "bad_promo"
  ELSE "no"

(* checkout up to the provider: its guards, in their order, and its totals.  *)
checkout(basket, fee, withPromo, wanted) ==
  LET refused == Refusal(basket, withPromo, wanted)
      discount == IF withPromo THEN discountOf(promo, Subtotal(basket)) ELSE 0
  IN /\ priced' = [at |-> wanted, fee |-> fee, refused |-> refused,
                   bill |-> IF refused = "no" THEN computeTotals(basket, fee, discount) ELSE nothing]
     /\ UNCHANGED <<branchVars, promo, now>>

GuardNext ==
  \/ updateBranch \/ Tick
  \/ \E p \in Promos : createPromo(p)
  \/ \E basket \in Baskets, fee \in Fees, withPromo \in BOOLEAN :
       \E wanted \in (now - Slack - 1)..(now + Horizon + 1) : checkout(basket, fee, withPromo, wanted)
GuardSpec == GuardInit /\ [][GuardNext]_guardVars

----------------------------------------------------------------------------
(* A request is turned away as "closed" only when the branch is closed, and  *)
(* priced only when it is open, at the branch's own time. The code asks one  *)
(* weekday's windows, so this holds for hours that stay within a day, and    *)
(* for hours past midnight only when they are the same every day.            *)
OpenWhenItMeansTo ==
  priced # nothing /\ DOMAIN hours # {} /\ (NoWindowPassesMidnight(hours) \/ EveryDayAlike(hours)) =>
    /\ priced.refused = "closed" => ~MeansOpen(hours, priced.at)
    /\ priced.refused \in {"no", "bad_promo"} => MeansOpen(hours, priced.at)

(* What a bill charges is what its parts come to; VAT is 15 per cent of what *)
(* is paid for the items, to the nearest unit; a promotion, whatever value   *)
(* the merchant gave it, never makes the order dearer.                       *)
BillsAddUp ==
  priced # nothing /\ priced.refused = "no" =>
    LET bill == priced.bill
        base == bill.subtotal - bill.discount
        gap == 100 * bill.vat - 15 * base
    IN /\ 0 <= base /\ base <= bill.subtotal
       /\ -50 <= gap /\ gap <= 50
       /\ bill.total = base + bill.vat + priced.fee
       /\ bill.total <= Totals(bill.subtotal, priced.fee, 0).total
=============================================================================
