-------------------------------- MODULE Till --------------------------------
(***************************************************************************)
(* The point of sale (frontend/src/app/(dashboard)/pos, components/pos,    *)
(* hooks/pos, lib/pos-engine.ts, lib/money.ts) against the checks of       *)
(* OrdersService.create: one cashier's cart, its discounts and totals, the *)
(* barcode field and the checkout that is in flight.                       *)
(*                                                                         *)
(* Amounts of the cart are whole cents; the server does not round a tax    *)
(* before it compares, so its totals are hundredths of a cent (rates are   *)
(* whole percents).  A percentage is a fraction part/whole: a price typed  *)
(* into the line dialog becomes (base - price)/base.  The order of the     *)
(* lines, customer and salesperson, product search and printing are left   *)
(* out; catalog and prices do not change during the behaviour.             *)
(***************************************************************************)
EXTENDS Integers, Sequences, FiniteSets, Functions, SequencesExt

CONSTANTS
  Item,        \* variants on sale
  Price,       \* Price[i], in cents
  ProductTax,  \* ProductTax[i]: the rate of the product, or NoRate
  CategoryTax, \* CategoryTax[i]: the rate of its category, zero without one
  Catalog,     \* the active discounts, as GET /discounts returns them
  Custom,      \* Custom[i]: discounts the line dialog makes for i
  CustomOrder, \* discounts the order dialog makes
  Tendered,    \* amounts a cashier types
  NoRate, NoCheckout, NotGiven,
  MaxUnits,    \* bounds: units put into carts,
  MaxClicks,   \* discounts, suppressions and payment fields touched,
  MaxLosses    \* answers of a created order lost

LineScope == "LINE_ITEM"
OrderScope == "ORDER"
Method == {"CASH", "CARD"}

ASSUME TillAssumption ==
  /\ Price \in [Item -> Nat] /\ CategoryTax \in [Item -> Nat]
  /\ ProductTax \in [Item -> Nat \cup {NoRate}]
  /\ Tendered \subseteq Nat /\ MaxUnits \in Nat /\ MaxClicks \in Nat /\ MaxLosses \in Nat

(* A discount the server lists has an id of its own; one a dialog makes    *)
(* has none.  Both dialogs, and the DTO of the server, take amounts from   *)
(* zero up.                                                                *)
IsDiscount(d) == d.part \in Nat /\ d.whole \in Nat \ {0}

ASSUME DiscountAssumption ==
  /\ IsFiniteSet(Item) /\ IsFiniteSet(Catalog)
  /\ \A d \in Catalog : IsDiscount(d) /\ d.id # NotGiven
  /\ \A d, e \in Catalog : d.id = e.id => d = e
  /\ \A d \in CustomOrder \cup UNION {Custom[i] : i \in Item} : IsDiscount(d) /\ d.id = NotGiven

VARIABLES
  qty,        \* qty[i]: the cart line of i, zero without one
  picked,     \* picked[i]: the discounts set on the line of i
  overall,    \* orderDiscounts of useCart
  suppressed, \* suppressedAutoIds
  method,     \* paymentMethod
  paid,       \* amountPaid, NotGiven while empty
  scans,      \* barcodes being resolved, with the quantity the page showed
  checkout,   \* the payload in flight, or NoCheckout
  answer,     \* what the server has made of it
  entered,    \* history: entered[i]: units put in less units taken off
  sold,       \* sold[i]: units of i on orders the server created
  crossed,    \* history: the cart changed under a scan or a checkout, or an
              \* answer was lost
  units, clicks, losses

cart == <<qty, picked, overall, suppressed>>
payment == <<method, paid>>
flight == <<scans, checkout, answer>>
tillHistory == <<entered, sold, crossed, units, clicks, losses>>
tillVars == <<cart, payment, flight, tillHistory>>

TillInit ==
  /\ qty = [i \in Item |-> 0]
  /\ picked = [i \in Item |-> <<>>]
  /\ overall = <<>> /\ suppressed = {}
  /\ method = "CASH" /\ paid = NotGiven
  /\ scans = {} /\ checkout = NoCheckout /\ answer = "none"
  /\ entered = [i \in Item |-> 0] /\ sold = [i \in Item |-> 0]
  /\ crossed = FALSE /\ units = 0 /\ clicks = 0 /\ losses = 0

-----------------------------------------------------------------------------
(* Pricing: money.ts and pos-engine.ts.                                    *)

Lesser(a, b) == IF a < b THEN a ELSE b

(* Math.round of a non-negative quotient.                                  *)
Rounded(n, d) == (2 * n + d) \div (2 * d)
Pct(base, part, whole) == Rounded(base * part, whole)

ApplyDiscount(base, d) ==
  IF d.type = "PERCENTAGE" THEN Pct(base, d.part, d.whole) ELSE Lesser(d.part, base)

Applied(base, ds) == [k \in DOMAIN ds |-> ApplyDiscount(base, ds[k])]
Sum(amounts) == SumFunction(amounts)
SumDiscounts(base, ds) == Lesser(Sum(Applied(base, ds)), base)

(* Each amount as it is sent: capped by what the ones before it left.      *)
SplitUncapped(base, ds) == Applied(base, ds)
SplitAmounts(base, ds) ==
  [k \in DOMAIN ds |->
     Lesser(Applied(base, ds)[k],
            base - Lesser(SumFunctionOnSet(Applied(base, ds), 1 .. k - 1), base))]

(* Auto discounts first; the first of each catalog discount counts.        *)
Dedupe(ds) ==
  LET first == {k \in DOMAIN ds : ds[k].id = NotGiven \/ \A m \in 1 .. k - 1 : ds[m].id # ds[k].id}
  IN [n \in 1 .. Cardinality(first) |->
        ds[CHOOSE k \in first : Cardinality({m \in first : m <= k}) = n]]

(* isEligibleNow and the split by scope.  maxUses is never in the answer   *)
(* of the API, so it never excludes a discount.                            *)
AutoDiscounts(scope) == {d \in Catalog : d.auto /\ d.scope = scope /\ d.id \notin suppressed}
Targets(d, i) == d.targets = {} \/ i \in d.targets
AsLineDiscount(d) == [id |-> d.id, type |-> d.type, part |-> d.part, whole |-> d.whole]
Listed(ds) == [k \in 1 .. Cardinality(ds) |-> AsLineDiscount(SetToSeq(ds)[k])]

AutoLineFor(i) == Listed({d \in AutoDiscounts(LineScope) : Targets(d, i)})
Discounts(i) == Dedupe(AutoLineFor(i) \o picked[i])
OrderDiscounts == Dedupe(Listed(AutoDiscounts(OrderScope)) \o overall)

CartRate(i) == IF ProductTax[i] = NoRate THEN 0 ELSE ProductTax[i]
LineGross(i) == Price[i] * qty[i]
Taxable(i) == LineGross(i) - SumDiscounts(LineGross(i), Discounts(i))
LineNet(i) == Taxable(i) + Pct(Taxable(i), CartRate(i), 100)

InCart == {i \in Item : qty[i] > 0}
LinesNet == Sum([i \in InCart |-> LineNet(i)])
GrandTotal == LinesNet - Sum(SplitAmounts(LinesNet, OrderDiscounts))

-----------------------------------------------------------------------------
(* The cart.                                                               *)

Touch == clicks < MaxClicks /\ clicks' = clicks + 1
(* The cart changes: a scan or a checkout under way did not see it.        *)
Changes(others) == crossed' = (crossed \/ others # {} \/ checkout # NoCheckout)

(* addVariantToCart: an existing line is set to one more than shown.       *)
Shown(i) == qty[i]
AddedTo(i, shown) == IF shown > 0 THEN (IF qty[i] > 0 THEN shown + 1 ELSE 0) ELSE qty[i] + 1
Put(i, shown) ==
  /\ qty' = [qty EXCEPT ![i] = AddedTo(i, shown)]
  /\ entered' = [entered EXCEPT ![i] = @ + 1]
  /\ UNCHANGED <<picked, overall, suppressed>>

AddVariant(i) ==
  /\ units < MaxUnits /\ units' = units + 1
  /\ Put(i, Shown(i))
  /\ Changes(scans)
  /\ UNCHANGED <<payment, flight, sold, clicks, losses>>

(* handleKeyDown: one barcode is resolved at a time, and onScan is the one *)
(* of the page as it was then.                                             *)
NeverBusy == FALSE
Busy == scans # {}
PressEnter(i) ==
  /\ units < MaxUnits /\ units' = units + 1
  /\ ~Busy
  /\ scans' = scans \cup {[item |-> i, shown |-> Shown(i), nth |-> units]}
  /\ UNCHANGED <<cart, payment, checkout, answer, entered, sold, crossed, clicks, losses>>

ScanResolves(s) ==
  /\ Put(s.item, s.shown)
  /\ scans' = scans \ {s}
  /\ Changes({})
  /\ UNCHANGED <<payment, checkout, answer, sold, units, clicks, losses>>

(* "Product not found".                                                    *)
ScanFails(s) ==
  /\ scans' = scans \ {s}
  /\ UNCHANGED <<cart, payment, checkout, answer, tillHistory>>

(* A line that reaches zero is dropped, with its discounts.                *)
SetQuantity(i, n) ==
  /\ qty' = [qty EXCEPT ![i] = n]
  /\ picked' = IF n = 0 THEN [picked EXCEPT ![i] = <<>>] ELSE picked
  /\ entered' = [entered EXCEPT ![i] = @ + n - qty[i]]
  /\ Changes(scans)
  /\ UNCHANGED <<overall, suppressed, payment, flight, sold, clicks, losses>>

Plus(i) == qty[i] > 0 /\ units < MaxUnits /\ units' = units + 1 /\ SetQuantity(i, qty[i] + 1)
Minus(i) == qty[i] > 0 /\ SetQuantity(i, qty[i] - 1) /\ UNCHANGED units
RemoveItem(i) == qty[i] > 0 /\ SetQuantity(i, 0) /\ UNCHANGED units

(* clearCart.  The payment method stays.                                   *)
Emptied ==
  /\ qty' = [i \in Item |-> 0] /\ picked' = [i \in Item |-> <<>>]
  /\ overall' = <<>> /\ suppressed' = {} /\ paid' = NotGiven
KeepsCart == UNCHANGED <<qty, picked, overall, suppressed, paid>>
ClearCart == Emptied

Clear ==
  /\ InCart # {}
  /\ Emptied
  /\ entered' = [i \in Item |-> entered[i] - qty[i]]
  /\ Changes(scans)
  /\ UNCHANGED <<method, flight, sold, units, clicks, losses>>

-----------------------------------------------------------------------------
(* Discounts.                                                              *)

Offered(i) ==
  Custom[i] \cup {AsLineDiscount(d) : d \in {c \in Catalog : c.scope = LineScope /\ Targets(c, i)}}
OfferedOnOrder ==
  CustomOrder \cup {AsLineDiscount(d) : d \in {c \in Catalog : c.scope = OrderScope}}

DiscountsOnly == UNCHANGED <<qty, payment, flight, entered, sold, units, losses>> /\ Changes({})

(* The merged list, auto entries included, becomes the line's own.         *)
ApplyLineDiscount(i, d) ==
  /\ qty[i] > 0 /\ Touch
  /\ picked' = [picked EXCEPT ![i] = Append(Discounts(i), d)]
  /\ UNCHANGED <<overall, suppressed>> /\ DiscountsOnly

(* The page numbers the chips that are not auto and removes that index     *)
(* from the merged list.                                                   *)
AutoIds == {d.id : d \in {c \in AutoDiscounts(LineScope) : \E i \in InCart : Targets(c, i)} \cup AutoDiscounts(OrderScope)}
Manual(ds) == {k \in DOMAIN ds : ds[k].id \notin AutoIds}
RemoveLineDiscount(i, k) ==
  /\ qty[i] > 0 /\ Touch
  /\ k \in 1 .. Cardinality(Manual(Discounts(i)))
  /\ picked' = [picked EXCEPT ![i] = RemoveAt(Discounts(i), k)]
  /\ UNCHANGED <<overall, suppressed>> /\ DiscountsOnly

Suppress(d) ==
  /\ InCart # {} /\ d.id \in AutoIds /\ Touch
  /\ suppressed' = suppressed \cup {d.id}
  /\ UNCHANGED <<picked, overall>> /\ DiscountsOnly

AddOrderDiscount(d) ==
  /\ InCart # {} /\ Touch
  /\ overall' = Append(overall, d)
  /\ UNCHANGED <<picked, suppressed>> /\ DiscountsOnly

RemoveOrderDiscount(k) ==
  /\ InCart # {} /\ Touch
  /\ k \in 1 .. Cardinality(Manual(OrderDiscounts))
  /\ overall' = RemoveAt(overall, k)
  /\ UNCHANGED <<picked, suppressed>> /\ DiscountsOnly

-----------------------------------------------------------------------------
(* Payment.                                                                *)

ChangeMethod(m) ==
  /\ InCart # {} /\ m # method /\ Touch
  /\ method' = m /\ paid' = GrandTotal
  /\ UNCHANGED <<cart, flight, entered, sold, crossed, units, losses>>

TypeAmount(a) ==
  /\ InCart # {} /\ method = "CASH" /\ a # paid /\ Touch
  /\ paid' = a
  /\ UNCHANGED <<cart, method, flight, entered, sold, crossed, units, losses>>

Paying == IF paid = NotGiven THEN GrandTotal ELSE paid
Difference(a, b) == IF a < b THEN b - a ELSE a - b

(* handleCheckout up to the request: the checks and the payload.  The      *)
(* discounts sent keep the numbers they have in the cart.                  *)
AmountsSent(base, ds) ==
  [k \in {m \in DOMAIN ds : SplitAmounts(base, ds)[m] > 0} |->
     [id |-> ds[k].id, amount |-> SplitAmounts(base, ds)[k]]]
Payload ==
  [items |-> [i \in InCart |-> [qty |-> qty[i], discounts |-> AmountsSent(LineGross(i), Discounts(i))]],
   discounts |-> AmountsSent(LinesNet, OrderDiscounts),
   method |-> method, paid |-> Paying, total |-> GrandTotal]

Checkout ==
  /\ checkout = NoCheckout
  /\ InCart # {}
  /\ method = "CASH" => Paying >= GrandTotal
  /\ method = "CARD" => Difference(Paying, GrandTotal) <= 1
  /\ checkout' = Payload
  /\ answer' = "none"
  /\ crossed' = (crossed \/ scans # {})
  /\ UNCHANGED <<cart, payment, scans, entered, sold, units, clicks, losses>>

-----------------------------------------------------------------------------
(* OrdersService.create: amounts in hundredths of a cent.                  *)

Amount(x) == x.amount
Given(ds) == Sum([k \in DOMAIN ds |-> Amount(ds[k])])
ServerRate(i) == IF ProductTax[i] = NoRate THEN CategoryTax[i] ELSE ProductTax[i]
PostDiscount(c, i) == Price[i] * c.items[i].qty - Given(c.items[i].discounts)
LineTax(c, i) == PostDiscount(c, i) * ServerRate(i)
ServerTotal(c) ==
  Sum([i \in DOMAIN c.items |-> 100 * PostDiscount(c, i) + LineTax(c, i)])
  - 100 * Given(c.discounts)

(* assertLineDiscountTargets.                                              *)
OnTarget(c) ==
  \A i \in DOMAIN c.items : \A k \in DOMAIN c.items[i].discounts : \A d \in Catalog :
    d.scope = LineScope /\ d.id = c.items[i].discounts[k].id => Targets(d, i)
LinesCovered(c) == \A i \in DOMAIN c.items : PostDiscount(c, i) >= 0
PaymentFits(c) ==
  /\ ServerTotal(c) >= 0
  /\ 100 * c.paid >= ServerTotal(c)
  /\ c.method # "CASH" => 100 * c.paid = ServerTotal(c)

Accepts(c) == OnTarget(c) /\ LinesCovered(c) /\ PaymentFits(c)

ServerSells ==
  /\ checkout # NoCheckout /\ answer = "none"
  /\ Accepts(checkout)
  /\ answer' = "order"
  /\ sold' = [i \in Item |-> sold[i] + IF i \in DOMAIN checkout.items
                                        THEN checkout.items[i].qty ELSE 0]
  /\ UNCHANGED <<cart, payment, scans, checkout, entered, crossed, units, clicks, losses>>

(* The checks above, or any other refusal: stock, salesperson, an outage.  *)
ServerRefuses ==
  /\ checkout # NoCheckout /\ answer = "none"
  /\ answer' = "error"
  /\ UNCHANGED <<cart, payment, scans, checkout, tillHistory>>

(* The page resumes: receipt and clearCart, or an error and the cart kept. *)
CheckoutSucceeds ==
  /\ checkout # NoCheckout /\ answer = "order"
  /\ ClearCart
  /\ checkout' = NoCheckout /\ answer' = "none"
  /\ crossed' = (crossed \/ scans # {})
  /\ UNCHANGED <<method, scans, entered, sold, units, clicks, losses>>

CheckoutFails ==
  /\ checkout # NoCheckout /\ answer = "error"
  /\ checkout' = NoCheckout /\ answer' = "none"
  /\ UNCHANGED <<cart, payment, scans, tillHistory>>

(* The order exists and the page hears of an error.                        *)
AnswerLost ==
  /\ checkout # NoCheckout /\ answer = "order"
  /\ losses < MaxLosses /\ losses' = losses + 1
  /\ checkout' = NoCheckout /\ answer' = "none"
  /\ crossed' = TRUE
  /\ UNCHANGED <<cart, payment, scans, entered, sold, units, clicks>>

(* Nobody is at the till.                                                  *)
Idle == InCart = {} /\ scans = {} /\ checkout = NoCheckout /\ UNCHANGED tillVars

-----------------------------------------------------------------------------
TillNext ==
  \/ \E i \in Item :
       \/ AddVariant(i) \/ PressEnter(i) \/ Plus(i) \/ Minus(i) \/ RemoveItem(i)
       \/ \E d \in Offered(i) : ApplyLineDiscount(i, d)
       \/ \E k \in 1 .. MaxClicks : RemoveLineDiscount(i, k)
  \/ \E s \in scans : ScanResolves(s) \/ ScanFails(s)
  \/ \E d \in Catalog : Suppress(d)
  \/ \E d \in OfferedOnOrder : AddOrderDiscount(d)
  \/ \E k \in 1 .. MaxClicks : RemoveOrderDiscount(k)
  \/ \E m \in Method : ChangeMethod(m)
  \/ \E a \in Tendered : TypeAmount(a)
  \/ Idle
  \/ Clear \/ Checkout \/ ServerSells \/ ServerRefuses \/ CheckoutSucceeds \/ CheckoutFails \/ AnswerLost

TillSpec == TillInit /\ [][TillNext]_tillVars

-----------------------------------------------------------------------------
(* The properties.                                                         *)

(* Where cart and server use the same rate and every tax is whole cents.   *)
TaxAgrees(c) ==
  \A i \in DOMAIN c.items : CartRate(i) = ServerRate(i) /\ LineTax(c, i) % 100 = 0

(* "the displayed grand total equals the sum actually sent to the          *)
(* backend": whatever discounts were stacked, suppressed or removed, the   *)
(* server finds every discount on its target and within its line, computes *)
(* the total that was displayed, and accepts it as payment.                *)
DisplayedTotalIsCharged ==
  checkout # NoCheckout /\ TaxAgrees(checkout) =>
    /\ OnTarget(checkout) /\ LinesCovered(checkout)
    /\ ServerTotal(checkout) = 100 * checkout.total
    /\ checkout.paid = checkout.total => PaymentFits(checkout)

(* Every unit scanned, tapped or added is in the cart or was sold, once,   *)
(* unless the cart changed under a scan or a checkout or an answer was     *)
(* lost: the page guards none of these.                                    *)
EveryUnitAccounted ==
  ~crossed /\ answer # "order" => \A i \in Item : entered[i] = qty[i] + sold[i]
=============================================================================
