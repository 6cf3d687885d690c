------------------------------ MODULE Pricing ------------------------------
(* The pure parts of a checkout: totals (pricing.ts), the discount of a      *)
(* promotion (resolvePromo), modifier groups (validateModifierGroups and     *)
(* what resolveLines enforces of them) and opening hours (isOpenAt). Amounts *)
(* are integers, in minor units. Times are integers too: an instant counts   *)
(* from midnight UTC of a Sunday, in units of which a day has DAY.           *)
EXTENDS Integers, FiniteSets, FiniteSetsExt

CONSTANTS DAY, BRANCH_TZ_OFFSET

ASSUME DayAssumption ==
  DAY \in Nat \ {0} /\ BRANCH_TZ_OFFSET \in 0..(DAY - 1)

VAT_RATE_PERCENT == 15
WEEKDAYS == 0..6

Least(a, b) == IF a <= b THEN a ELSE b
Greatest(a, b) == IF a >= b THEN a ELSE b

(* Math.round(amount * percent / 100): the nearest integer, halves up.       *)
PercentOf(percent, amount) == (2 * percent * amount + 100) \div 200

(* What modifiers add to the unit price is one amount here, delta.           *)
effectiveUnit(line) == line.unit + line.delta
lineTotal(line) == effectiveUnit(line) * line.quantity
priceable(lines) == \A i \in DOMAIN lines : lines[i].quantity > 0 /\ effectiveUnit(lines[i]) >= 0
Subtotal(lines) == MapThenSumSet(LAMBDA i : lineTotal(lines[i]), DOMAIN lines)

(* A plausible slip: VAT of the base before the discount.                    *)
TotalsUndiscountedVat(subtotal, fee, asked) ==
  LET discount == Greatest(0, Least(asked, subtotal))
      vat == PercentOf(VAT_RATE_PERCENT, subtotal)
  IN [subtotal |-> subtotal, discount |-> discount, vat |-> vat,
      total |-> (subtotal - discount) + vat + fee]

Totals(subtotal, fee, asked) ==
  LET discount == Greatest(0, Least(asked, subtotal))
      vat == PercentOf(VAT_RATE_PERCENT, subtotal - discount)
  IN [subtotal |-> subtotal, discount |-> discount, vat |-> vat,
      total |-> (subtotal - discount) + vat + fee]

computeTotals(lines, fee, asked) == Totals(Subtotal(lines), fee, asked)

discountOf(promo, subtotal) ==
  IF promo.kind = "percent" THEN PercentOf(promo.value, subtotal)
                            ELSE Least(promo.value, subtotal)

----------------------------------------------------------------------------
(* A group: [name, min, max, required, options], options being their number. *)
(* Selections count by the group's name.                                     *)
validateModifierGroups(groups) ==
  \A g \in groups :
    /\ 0 <= g.min /\ g.min <= g.max /\ g.max <= g.options
    /\ g.required => g.min >= 1

minOf(g) == IF g.required THEN Greatest(1, g.min) ELSE g.min
enforced(groups, picked) ==
  \A g \in groups : minOf(g) <= picked[g.name] /\ picked[g.name] <= g.max

----------------------------------------------------------------------------
(* hours gives some weekdays their windows, pairs <<open, close>> of times of   *)
(* day. A window whose close is not after its open runs past midnight, and   *)
(* is read as the two ends of one and the same day.                          *)
(* A plausible slip: the hours are compared with the time in UTC.            *)
isOpenAtUtc(hours, at) ==
  LET day == (at \div DAY) % 7
      time == at % DAY
  IN day \in DOMAIN hours /\ \E w \in hours[day] :
       IF w[2] > w[1] THEN w[1] <= time /\ time < w[2] ELSE w[1] <= time \/ time < w[2]

isOpenAt(hours, at) ==
  LET day == ((at + BRANCH_TZ_OFFSET) \div DAY) % 7
      time == (at + BRANCH_TZ_OFFSET) % DAY
  IN day \in DOMAIN hours /\ \E w \in hours[day] :
       IF w[2] > w[1] THEN w[1] <= time /\ time < w[2] ELSE w[1] <= time \/ time < w[2]

(* What the merchant means: a window opens on its day and closes at the next *)
(* closing time, on the following day if need be.                            *)
Length(w) == IF w[2] > w[1] THEN w[2] - w[1] ELSE w[2] - w[1] + DAY
MeansOpen(hours, at) ==
  \E d \in DOMAIN hours : \E w \in hours[d] :
    (at + BRANCH_TZ_OFFSET - (d * DAY + w[1])) % (7 * DAY) < Length(w)

NoWindowPassesMidnight(hours) == \A d \in DOMAIN hours : \A w \in hours[d] : w[2] > w[1]
EveryDayAlike(hours) == DOMAIN hours = WEEKDAYS /\ \A d \in WEEKDAYS : hours[d] = hours[0]
=============================================================================
