----------------------------- MODULE ShoppingAdvice -----------------------------
(***************************************************************************)
(* What the server answers about prices, and keeps nothing of: what a line *)
(* of a shopping list will cost at its store, and at which retailers the   *)
(* whole list is bought best. Rational numbers are pairs, not reduced.     *)
(***************************************************************************)
EXTENDS Integers, Sequences, FiniteSets, FiniteSetsExt

CONSTANTS
  PricedLines,     \* lines of a list, with the latest price of their product
  Shelves,         \* sequences of offers
  Needs,           \* sequences of requirements
  Journeys,        \* costs of going to a retailer
  RetailerPenalty, \* retailerPenaltyMinor
  MostRetailers,   \* maxRetailers
  MissingPenalty   \* added for each missing item

ASSUME AdviceAssumption == RetailerPenalty \in Nat /\ MostRetailers \in Nat \ {0} /\ MissingPenalty \in Nat

VARIABLES
  asked,     \* "estimate" or "plans"
  line,      \* the line to estimate
  offers, needs, journey,
  answer

adviceVars == <<asked, line, offers, needs, journey, answer>>

NoAnswer == [status |-> "none"]
NoLine   == [store |-> FALSE]
NoPrice  == -1    \* no price has been observed at the store

--------------------------------------------------------------------------------

Thousand(unit) == IF unit \in {"kg", "l"} THEN 1000 ELSE 1

BaseUnit(unit) == CASE unit = "kg" -> "g" [] unit = "l" -> "ml" [] OTHER -> unit

\* normalizeQuantity: a rational amount of the base unit.
InBaseUnit(amount, unit) == [n |-> amount.n * Thousand(unit), d |-> amount.d]

MassOrVolume == {"g", "kg", "ml", "l"}

\* massOrVolumePackage: that of the observation, or that of the product.
PackageOf(l) ==
  LET known == {p \in {1, 2} : l.packages[p].unit \in MassOrVolume /\ l.packages[p].amount.n > 0}
  IN IF known = {} THEN <<>> ELSE <<l.packages[Min(known)]>>

\* roundRationalHalfUp
HalfUp(r) == (r.n \div r.d) + (IF 2 * (r.n % r.d) >= r.d THEN 1 ELSE 0)

Unpriced(reason) == [status |-> reason]
Priced(r)        == [status |-> "priced", minor |-> HalfUp(r)]

\* estimateLine
Estimated(l) ==
  IF ~l.store THEN Unpriced("store-required")
  ELSE IF ~l.product THEN Unpriced("product-required")
  ELSE IF l.price = NoPrice THEN Unpriced("price-missing")
  ELSE IF l.unit \notin MassOrVolume THEN Priced([n |-> l.price * l.quantity, d |-> 1])
  ELSE IF PackageOf(l) = <<>> \/ BaseUnit(PackageOf(l)[1].unit) # BaseUnit(l.unit)
    THEN Unpriced("not-comparable")
  ELSE LET p == InBaseUnit(PackageOf(l)[1].amount, PackageOf(l)[1].unit)
           r == InBaseUnit([n |-> l.quantity, d |-> 1], l.unit)
       IN Priced([n |-> l.price * p.d * r.n, d |-> p.n])

--------------------------------------------------------------------------------

\* normalizeOffer
ShippingOf(o)  == IF o.freeDelivery THEN 0 ELSE o.shipping
EffectiveOf(o) == o.price + ShippingOf(o) - o.promotion

Eligible(need, shops) ==
  {i \in DOMAIN offers :
     /\ offers[i].item = need.item /\ offers[i].retailer \in shops /\ offers[i].inStock
     /\ offers[i].exact \/ (~need.exactRequired /\ need.substitutionAllowed)}

\* selectBestOffer: the cheapest, then the surest, then the first by its id.
IsBetter(i, j) ==
  \/ EffectiveOf(offers[i]) < EffectiveOf(offers[j])
  \/ /\ EffectiveOf(offers[i]) = EffectiveOf(offers[j])
     /\ \/ offers[i].confidence > offers[j].confidence
        \/ offers[i].confidence = offers[j].confidence /\ i <= j

BestOffer(need, shops) == {i \in Eligible(need, shops) : \A j \in Eligible(need, shops) : IsBetter(i, j)}

\* buildPlan
PlanAt(shops, penalty) ==
  LET selected == [n \in DOMAIN needs |-> BestOffer(needs[n], shops)]
      missing  == {n \in DOMAIN needs : selected[n] = {}}
      bought   == [n \in DOMAIN needs \ missing |-> CHOOSE i \in selected[n] : TRUE]
      used     == {offers[bought[n]].retailer : n \in DOMAIN bought}
      products == MapThenSumSet(LAMBDA n : offers[bought[n]].price - offers[bought[n]].promotion, DOMAIN bought)
      shipping == MapThenSumSet(LAMBDA r : Max({ShippingOf(offers[bought[n]]) :
                                                  n \in {m \in DOMAIN bought : offers[bought[m]].retailer = r}}), used)
      travel   == MapThenSumSet(LAMBDA r : journey[r], shops)
  IN [shops |-> shops, used |-> used, missing |-> missing,
      total |-> products + shipping + travel + (Cardinality(shops) - 1) * penalty
                  + Cardinality(missing) * MissingPenalty]

\* choose: the cheapest, then the one with the fewest retailers.
IsChosen(p, plans) ==
  \A q \in plans : p.total < q.total \/ (p.total = q.total /\ Cardinality(p.shops) <= Cardinality(q.shops))

Chosen(plans) == CHOOSE p \in plans : IsChosen(p, plans)

RetailersOnOffer == {offers[i].retailer : i \in DOMAIN offers}

RetailerSets == {s \in SUBSET RetailersOnOffer : Cardinality(s) \in 1 .. MostRetailers}

--------------------------------------------------------------------------------

AdviceInit ==
  /\ answer = NoAnswer
  /\ \/ asked = "estimate" /\ line \in PricedLines /\ offers = <<>> /\ needs = <<>> /\ journey = <<>>
     \/ asked = "plans" /\ line = NoLine /\ offers \in Shelves /\ needs \in Needs /\ journey \in Journeys

EstimateLine ==
  /\ asked = "estimate" /\ answer = NoAnswer
  /\ answer' = Estimated(line)
  /\ UNCHANGED <<asked, line, offers, needs, journey>>

\* optimizeBasket
OptimizeBasket ==
  /\ asked = "plans" /\ answer = NoAnswer /\ offers # <<>>
  /\ answer' = [status   |-> "planned",
                single   |-> Chosen({PlanAt({r}, 0) : r \in RetailersOnOffer}),
                balanced |-> Chosen({PlanAt(s, RetailerPenalty) : s \in RetailerSets}),
                saving   |-> Chosen({PlanAt(s, 0) : s \in RetailerSets})]
  /\ UNCHANGED <<asked, line, offers, needs, journey>>

AdviceNext == EstimateLine \/ OptimizeBasket

AdviceSpec == AdviceInit /\ [][AdviceNext]_adviceVars

--------------------------------------------------------------------------------

\* The same quantity in the smaller unit, and the same package in the smaller unit.
InSmallerUnits(l) ==
  [l EXCEPT !.quantity = @ * (IF l.unit \in {"kg", "l"} THEN 1000 ELSE 1), !.unit = BaseUnit(@),
            !.packages = [p \in {1, 2} |->
               [amount |-> [n |-> @[p].amount.n * (IF @[p].unit \in {"kg", "l"} THEN 1000 ELSE 1), d |-> @[p].amount.d],
                unit |-> BaseUnit(@[p].unit)]]]

\* An estimate does not depend on the units the list and the package are written in, and
\* twice the quantity costs twice as much, but for the cents of the rounding.
EstimateIsOfTheQuantity ==
  asked = "estimate" /\ answer # NoAnswer =>
    /\ answer = Estimated(InSmallerUnits(line))
    /\ answer.status = "priced" =>
         Estimated([line EXCEPT !.quantity = 2 * @]).minor - 2 * answer.minor \in {-1, 0, 1}

Planned == asked = "plans" /\ answer # NoAnswer

\* Nobody is sent to a retailer where nothing is bought, unless nothing is bought at all.
NoIdleTrip ==
  Planned => \A p \in {answer.balanced, answer.saving} : p.used = {} \/ p.shops = p.used

\* What is on offer at all is bought, if all retailers may be visited.
NothingLeftOut ==
  Planned /\ Cardinality(RetailersOnOffer) <= MostRetailers =>
    \A n \in answer.saving.missing : Eligible(needs[n], RetailersOnOffer) = {}

\* Fewer restrictions never make a plan dearer.
PlansOrdered == Planned => answer.saving.total <= answer.balanced.total /\ answer.balanced.total <= answer.single.total

AdviceTypeOK == asked \in {"estimate", "plans"} /\ "status" \in DOMAIN answer

\* The advice is about what was asked: the quantity, and the whole list.
AdviceSound == EstimateIsOfTheQuantity /\ NoIdleTrip /\ NothingLeftOut /\ PlansOrdered
================================================================================
