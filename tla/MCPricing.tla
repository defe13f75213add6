------------------------------ MODULE MCPricing ------------------------------
EXTENDS Pricing, TLC

\* An open night at a price of nothing, and one that is dear and long, or closed.
MCRules ==
  {[price |-> 0, min_stay |-> 1, closed_to_arrival |-> FALSE, closed_to_departure |-> FALSE],
   [price |-> 2, min_stay |-> 2, closed_to_arrival |-> FALSE, closed_to_departure |-> TRUE]}

Sent(plan, price, breakfast, meal) ==
  [plan |-> plan, price |-> price, breakfast |-> breakfast, meal |-> meal, custom |-> 1,
   extras |-> [x \in Extras |-> IF plan = "active" THEN 1 ELSE Refused]]

MCBundles ==
  {Sent("absent", 0, "no_breakfast", Refused), Sent("absent", 0, "hotel_default", Refused),
   Sent("active", 1, "included", 1)}

PricingSymmetry == Permutations(Editors)
=============================================================================
