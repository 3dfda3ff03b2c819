------------------------------- MODULE MCTill -------------------------------
(* Two variants: taxed by its product, not its category, and untaxed.       *)
EXTENDS Till

CONSTANTS tea, pen, teaDeal, shopDeal, clubDeal

MCItem == {tea, pen}
MCPrice == [i \in Item |-> IF i = tea THEN 300 ELSE 50]
MCProductTax == [i \in Item |-> IF i = tea THEN 10 ELSE NoRate]
MCCategoryTax == [i \in Item |-> IF i = tea THEN 5 ELSE 0]

Percent(n) == [type |-> "PERCENTAGE", part |-> n, whole |-> 100]
Fixed(n) == [type |-> "FIXED_AMOUNT", part |-> n, whole |-> 1]
Catalogued(d, id, scope, auto, targets) ==
  [id |-> id, type |-> d.type, part |-> d.part, whole |-> d.whole,
   scope |-> scope, auto |-> auto, targets |-> targets]
Own(d) == [id |-> NotGiven, type |-> d.type, part |-> d.part, whole |-> d.whole]

(* A running deal on tea, a running one on the order and a deal to pick.   *)
MCCatalog == {
  Catalogued(Fixed(100), teaDeal, LineScope, TRUE, {tea}),
  Catalogued(Percent(10), shopDeal, OrderScope, TRUE, {}),
  Catalogued(Percent(50), clubDeal, LineScope, FALSE, {}) }

(* A price typed for one line, and a fixed amount off an order.            *)
MCCustom == [i \in Item |->
  IF i = tea THEN {Own([type |-> "PERCENTAGE", part |-> 250, whole |-> 300])} ELSE {}]
MCCustomOrder == {Own(Fixed(120))}
=============================================================================
