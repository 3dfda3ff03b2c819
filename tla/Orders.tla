------------------------------- MODULE Orders -------------------------------
(***************************************************************************)
(* OrdersService after the sale (backend/src/orders): createAdjustment     *)
(* (returns, exchanges and added items) and voidOrder, beside create.      *)
(*                                                                         *)
(* Both read the Order row without locking it, work from that snapshot     *)
(* through all their stock movements and write the row last, just before   *)
(* the commit, so its lock is never held across another statement.         *)
(***************************************************************************)
EXTENDS Sales

CONSTANTS
  Adjustment,  \* the adjustments a client may submit
  Voidable     \* the orders a manager may void

ReturnLine == [item : Nat \ {0}, qty : Nat \ {0}, restock : BOOLEAN]
AdjustmentType == [order : OrderId, returns : Seq(ReturnLine), sales : Seq(Line),
                   links : Seq(Discount), valid : BOOLEAN]

ASSUME AdjustmentAssumption == Adjustment \subseteq AdjustmentType
ASSUME VoidableAssumption == Voidable \subseteq OrderId
ASSUME NoAdjustmentAssumption == NoOrder \notin AdjustmentType

(* The orders placed before are as their sale left them; what happens to   *)
(* an order later is a step of the system.                                 *)
ASSUME FreshAssumption ==
  \A p \in Past : Placed[p].status = "COMPLETED" /\ Placed[p].refunded = 0

VARIABLES
  adjusts,   \* the OrderAdjustment table with its items, by transaction
  restored,  \* restored[o][i]: units of item i the ORDER_VOID movements of o put back
  draft,     \* draft[t]: the adjustment t serves, in its memory
  snap,      \* snap[t]: the order as t read it
  plan       \* plan[t][i]: units of item i a void decided to put back

adjustVars == <<adjusts, restored, draft, snap, plan>>
ordersVars == <<salesVars, adjustVars>>

OrdersInit ==
  /\ SalesInit
  /\ adjusts = [t \in Tx |-> NoOrder]
  /\ restored = [o \in OrderId |-> [i \in 1 .. 0 |-> 0]]
  /\ draft = [t \in Tx |-> NoOrder]
  /\ snap = [t \in Tx |-> NoOrder]
  /\ plan = [t \in Tx |-> <<>>]

-----------------------------------------------------------------------------
(* What the handlers compute.                                              *)

(* The columns grandTotal of an order and total of its items.              *)
GrandTotal(order) == ToCents(Due(order))
Total(line) == line.subtotal + ToCents(line.tax)

(* computeEffectiveUnitRefundMap: what was paid for a unit of item i, the  *)
(* order's discounts allocated by subtotal and each division rounded.      *)
Subtotals(order) == SumFunction([i \in DOMAIN order.lines |-> order.lines[i].subtotal])
Share(order, i) ==
  IF Subtotals(order) > 0
  THEN Nearest(Cent * (order.discount * order.lines[i].subtotal), Subtotals(order))
  ELSE 0
LineWorth(order, i) == Cent * Total(order.lines[i]) - Share(order, i)
EffectiveUnit(order, i) == Nearest(LineWorth(order, i), order.lines[i].qty)

Amended == {t \in Tx : adjusts[t] # NoOrder}
AdjustsOf(o) == {t \in Amended : adjusts[t].order = o}

ReturnedIn(a, i) ==
  SumFunctionOnSet([k \in DOMAIN a.returns |-> a.returns[k].qty],
                   {k \in DOMAIN a.returns : a.returns[k].item = i})

(* getReturnedQuantityMap over the committed adjustments of an order.      *)
Returned(o, i) ==
  SumFunctionOnSet([t \in AdjustsOf(o) |-> ReturnedIn(adjusts[t], i)], AdjustsOf(o))

IgnoresReturns(o, order, i) == order.lines[i].qty
Remaining(o, order, i) == order.lines[i].qty - Returned(o, i)

(* Each requested line is compared with what remained before the request.  *)
Returnable(order, o, returns) ==
  \A k \in DOMAIN returns :
    /\ returns[k].item \in DOMAIN order.lines
    /\ returns[k].qty <= Remaining(o, order, returns[k].item)

(* What is paid back for a returned line, and for all, before a column     *)
(* rounds it.                                                              *)
LineRefund(order, line) == line.qty * EffectiveUnit(order, line.item)
Refund(order, returns) == SumFunction([k \in DOMAIN returns |-> LineRefund(order, returns[k])])

RefundsTheCharge(order, a) ==
  Cent * order.refunded + Refund(order, a.returns) + Gross(a.sales)
NewRefunded(order, a) == Cent * order.refunded + Refund(order, a.returns)

(* The elements of s at the positions in I, in their order: what a loop    *)
(* over s that passes over the others works on.                            *)
Kept(s, I) ==
  LET upTo[k \in 0 .. Len(s)] ==
        IF k = 0 THEN <<>>
        ELSE IF k \in I THEN Append(upTo[k - 1], s[k]) ELSE upTo[k - 1]
  IN upTo[Len(s)]

(* The adjustment that would put a returned line back; a line that is not  *)
(* restocked has none.                                                     *)
ReturnSteps(order, returns) ==
  [k \in DOMAIN returns |->
     [op |-> "adjust", row |-> order.lines[returns[k].item].row, qty |-> returns[k].qty]]
PutBack(order, returns) ==
  Kept(ReturnSteps(order, returns), {k \in DOMAIN returns : returns[k].restock})

(* Refunded once the refunds, unrounded, reach the total paid.             *)
RefundedBeyondTotal(order, total, refund) ==
  IF total > Cent * GrandTotal(order) THEN "REFUNDED"
  ELSE IF refund > 0 THEN "PARTIALLY_REFUNDED" ELSE order.status
StatusAfter(order, total, refund) ==
  IF total >= Cent * GrandTotal(order) THEN "REFUNDED"
  ELSE IF refund > 0 THEN "PARTIALLY_REFUNDED" ELSE order.status

-----------------------------------------------------------------------------
(* createAdjustment.                                                       *)

OpenAdjust(t, a) ==
  /\ Begin(t, <<>>)
  /\ draft' = [draft EXCEPT ![t] = a]
  /\ snap' = [snap EXCEPT ![t] = orders[a.order]]
  /\ stage' = [stage EXCEPT ![t] = "adjust"]
  /\ UNCHANGED <<orders, counter, usage, sale, held, adjusts, restored, plan>>

(* The rest of a handler that fails: nothing of it remains.                *)
Refuse(t) ==
  /\ Rollback(t)
  /\ UNCHANGED <<saleVars, adjustVars>>

(* A missing order, "Cancelled orders cannot be adjusted", an item of      *)
(* another order, "Cannot return more than remaining" or an invalid sale   *)
(* item.  The returned quantities are read after the order.                *)
NeverCancelled(order) == FALSE
Cancelled(order) == order.status = "CANCELLED"
Acceptable(t) ==
  /\ snap[t] # NoOrder
  /\ ~Cancelled(snap[t])
  /\ Returnable(snap[t], draft[t].order, draft[t].returns)
  /\ draft[t].valid

PlanAdjust(t) ==
  /\ Adjusting(t, PutBack(snap[t], draft[t].returns) \o TakeOut(draft[t].sales))
  /\ stage' = [stage EXCEPT ![t] = "adjusting"]
  /\ UNCHANGED <<orders, counter, usage, sale, held, adjustVars>>

ReadReturns(t) ==
  /\ pc[t] = "read" /\ stage[t] = "adjust"
  /\ IF Acceptable(t) THEN PlanAdjust(t) ELSE Refuse(t)

(* order.update writes status and refundedTotal, whose column rounds it,   *)
(* computed from the snapshot.                                             *)
CommitAdjust(t) ==
  LET a == draft[t]
      refund == Refund(snap[t], a.returns)
      total == NewRefunded(snap[t], a)
  IN /\ stage[t] = "adjusting"
     /\ Commit(t)
     /\ adjusts' = [adjusts EXCEPT ![t] = a]
     /\ orders' = [orders EXCEPT ![a.order].refunded = ToCents(total),
                                 ![a.order].status = StatusAfter(snap[t], total, refund)]
     /\ usage' = [d \in Discount |-> usage[d] + Uses(a.links, d)]
     /\ UNCHANGED <<counter, sale, stage, held, restored, draft, snap, plan>>

-----------------------------------------------------------------------------
(* voidOrder.                                                              *)

OpenVoid(t, o) ==
  /\ Begin(t, <<>>)
  /\ draft' = [draft EXCEPT ![t] = [order |-> o]]
  /\ snap' = [snap EXCEPT ![t] = orders[o]]
  /\ stage' = [stage EXCEPT ![t] = "void"]
  /\ UNCHANGED <<orders, counter, usage, sale, held, adjusts, restored, plan>>

(* What a void puts back of each item: what was sold less what came back   *)
(* already, and nothing of an order that is refunded.                      *)
RestoreAll(order, o) == [i \in DOMAIN order.lines |-> order.lines[i].qty]
RestoreCompleted(order, o) ==
  [i \in DOMAIN order.lines |->
     IF order.status = "COMPLETED" THEN order.lines[i].qty ELSE 0]
ToRestore(order, o) ==
  [i \in DOMAIN order.lines |->
     IF order.status \in {"COMPLETED", "PARTIALLY_REFUNDED"} /\ Remaining(o, order, i) > 0
     THEN Remaining(o, order, i) ELSE 0]

PlanVoid(t) ==
  LET back == ToRestore(snap[t], draft[t].order)
      all == [i \in DOMAIN back |->
                [op |-> "adjust", row |-> snap[t].lines[i].row, qty |-> back[i]]]
  IN /\ plan' = [plan EXCEPT ![t] = back]
     /\ Adjusting(t, Kept(all, {i \in DOMAIN back : back[i] > 0}))
     /\ stage' = [stage EXCEPT ![t] = "voiding"]
     /\ UNCHANGED <<orders, counter, usage, sale, held, adjusts, restored, draft, snap>>

(* "Order not found", "Order already cancelled".                           *)
ReadRestores(t) ==
  /\ pc[t] = "read" /\ stage[t] = "void"
  /\ IF snap[t] # NoOrder /\ ~Cancelled(snap[t]) THEN PlanVoid(t) ELSE Refuse(t)

Restored(o, i) == IF i \in DOMAIN restored[o] THEN restored[o][i] ELSE 0

CommitVoid(t) ==
  LET o == draft[t].order
  IN /\ stage[t] = "voiding"
     /\ Commit(t)
     /\ orders' = [orders EXCEPT ![o].status = "CANCELLED"]
     /\ restored' = [restored EXCEPT ![o] =
                       [i \in DOMAIN plan[t] |-> Restored(o, i) + plan[t][i]]]
     /\ UNCHANGED <<counter, usage, sale, stage, held, adjusts, draft, snap, plan>>

-----------------------------------------------------------------------------
OrdersStatement(t) ==
  \/ SaleStatement(t) /\ UNCHANGED adjustVars
  \/ ReadReturns(t) \/ CommitAdjust(t)
  \/ ReadRestores(t) \/ CommitVoid(t)

OrdersTerminating == (\A t \in Tx : pc[t] \in Ended) /\ UNCHANGED ordersVars

OrdersNext ==
  \/ \E t \in Tx :
       \/ \E s \in Sale : OpenSale(t, s) /\ UNCHANGED adjustVars
       \/ \E a \in Adjustment : OpenAdjust(t, a)
       \/ \E o \in Voidable : OpenVoid(t, o)
       \/ OrdersStatement(t)
       \/ SaleStep(t, Fail(t)) /\ UNCHANGED adjustVars
  \/ OrdersTerminating

OrdersSpec == OrdersInit /\ [][OrdersNext]_ordersVars

-----------------------------------------------------------------------------
(* The properties.                                                         *)

(* Until the first return or void, sales take turns: the lock on the store *)
(* keeps them from losing an update of a level, which adjustStock reads    *)
(* without a lock, and from waiting for each other in a cycle.             *)
TurnsUntilAmended ==
  (\A t \in Tx : stage[t] \in {"none", "counter", "lines"}) => SalesTakeTurns

(* "Cannot return more than remaining": no item comes back more often than *)
(* it was sold.                                                            *)
ReturnsWithinSold ==
  \A o \in Orders : \A i \in DOMAIN orders[o].lines :
    Returned(o, i) <= orders[o].lines[i].qty

(* Requests that do not overlap and name each item to return once.  The    *)
(* handler checks neither.                                                 *)
NamesOnce(returns) == \A k, m \in DOMAIN returns : returns[k].item = returns[m].item => k = m
Orderly == ~overlapped /\ \A t \in Tx : adjusts[t] # NoOrder => NamesOnce(adjusts[t].returns)

(* No item costs less than nothing: the order's discounts, which may       *)
(* exceed the subtotals by the taxes, leave each line its share.           *)
Covered(order) == \A i \in DOMAIN order.lines : EffectiveUnit(order, i) >= 0

(* The units that did not come back, and twice what roundings may hide of  *)
(* them: half a cent by each adjustment, by each line and by the total,    *)
(* half a tick by each division.                                           *)
Outstanding(o) ==
  SumFunction([i \in DOMAIN orders[o].lines |->
                 Remaining(o, orders[o], i) * EffectiveUnit(orders[o], i)])
Slack(o) ==
  LET lines == orders[o].lines
  IN Cent * (Cardinality(AdjustsOf(o)) + Len(lines) + 1)
       + Len(lines) + SumFunction([i \in DOMAIN lines |-> lines[i].qty])

(* An order in which no unit is so cheap that roundings may hide it.       *)
Priced(o) == \A i \in DOMAIN orders[o].lines : 2 * EffectiveUnit(orders[o], i) > Slack(o)

(* A unit comes back once, by a return or by a void of its order, however  *)
(* many are made in an orderly sequence.                                   *)
UnitsComeBackOnce ==
  Orderly => \A o \in Orders : \A i \in DOMAIN orders[o].lines :
    Returned(o, i) + Restored(o, i) <= orders[o].lines[i].qty

(* After a void every unit of a priced order has come back.                *)
CancelledOrdersComeBack ==
  Orderly => \A o \in Orders : orders[o].status = "CANCELLED" /\ Priced(o) =>
    \A i \in DOMAIN orders[o].lines :
      Returned(o, i) + Restored(o, i) = orders[o].lines[i].qty

(* The column refundAmount of an adjustment, and what those of an order    *)
(* add up to.                                                              *)
RefundAmount == [t \in Amended |-> ToCents(Refund(orders[adjusts[t].order], adjusts[t].returns))]
RefundsOf(o) == SumFunctionOnSet(RefundAmount, AdjustsOf(o))

WholeCents(order) == \A i \in DOMAIN order.lines : EffectiveUnit(order, i) % Cent = 0

(* refundedTotal is what the adjustments of the order paid back, and the   *)
(* status follows from it: a partially refunded order shows its whole      *)
(* total paid back only where a unit is not worth whole cents, and what    *)
(* an order refunded in full did not get back is within the roundings.     *)
StatusFollowsRefunds ==
  Orderly => \A o \in Orders : Covered(orders[o]) =>
    LET order == orders[o]
    IN /\ order.refunded = RefundsOf(o)
       /\ order.status = "COMPLETED" => order.refunded = 0
       /\ order.status = "PARTIALLY_REFUNDED" =>
            /\ order.refunded <= GrandTotal(order)
            /\ WholeCents(order) => order.refunded < GrandTotal(order)
       /\ order.status = "REFUNDED" =>
            order.refunded >= GrandTotal(order) /\ 2 * Outstanding(o) <= Slack(o)

(* "Cancelled orders cannot be adjusted", "Order already cancelled": a     *)
(* cancelled order stays as it is.                                         *)
CancelledIsFinal ==
  [][~overlapped' => \A o \in Orders :
       orders[o].status = "CANCELLED" => orders'[o] = orders[o]]_ordersVars

(* Adjustments that overlap can only lose refunds from refundedTotal: an   *)
(* order never shows more paid back than its adjustments paid.             *)
RefundsNeverOverstated ==
  \A o \in Orders : Covered(orders[o]) => orders[o].refunded <= RefundsOf(o)

(* A discount has been used once by every order, and once by every         *)
(* adjustment, that links it, however many of its lines do; a void leaves  *)
(* the count as it is.                                                     *)
UsageCountsDocuments ==
  \A d \in Discount :
    usage[d] = Cardinality({o \in Orders \ Past : d \in Range(orders[o].links)})
               + Cardinality({t \in Amended : d \in Range(adjusts[t].links)})

(* What the documents say of row r: sales and exchanged-for items took     *)
(* units out, restocked returns and voids put them back.                   *)
RestockedBy(order, a, r) ==
  SumFunctionOnSet([k \in DOMAIN a.returns |-> a.returns[k].qty],
    {k \in DOMAIN a.returns : a.returns[k].restock /\ order.lines[a.returns[k].item].row = r})
Restocked(r) ==
  SumFunctionOnSet([t \in Amended |-> RestockedBy(orders[adjusts[t].order], adjusts[t], r)], Amended)
VoidedIn(r) ==
  SumFunctionOnSet([o \in Orders |->
      SumFunctionOnSet([i \in DOMAIN orders[o].lines |-> Restored(o, i)],
                       {i \in DOMAIN orders[o].lines : orders[o].lines[i].row = r})], Orders)
SoldIn(lines, r) ==
  SumFunctionOnSet([i \in DOMAIN lines |-> lines[i].qty],
                   {i \in DOMAIN lines : lines[i].row = r})
SoldTotal(r) == SumFunctionOnSet([o \in Orders |-> SoldIn(orders[o].lines, r)], Orders)
Resold(r) == SumFunctionOnSet([t \in Amended |-> SoldIn(adjusts[t].sales, r)], Amended)
Documented(r) == Restocked(r) + VoidedIn(r) - SoldTotal(r) - Resold(r)

(* The ledger moves exactly as orders, adjustments and voids say, whatever *)
(* overlaps or fails.                                                      *)
LedgerFollowsDocuments ==
  [][\A r \in Row : moved'[r] - Documented(r)' = moved[r] - Documented(r)]_ordersVars
=============================================================================
