------------------------------ MODULE Reports ------------------------------
(***************************************************************************)
(* ReportsService (backend/src/reports): what the sales, refund, cost and  *)
(* stock reports read out of the tables that Orders writes.                *)
(*                                                                         *)
(* A report is a function of the committed state.  Its date range is a set *)
(* of ids: an order belongs to a range by its own creation, an adjustment  *)
(* by its own too, so a refund may fall in a range without its sale.       *)
(* Paging, sorting, labels and the tax report are left out.                *)
(*                                                                         *)
(* Beside the tables of Orders stand the costs: what a variant costs now,  *)
(* which product edits and receipts change, and what it cost when a        *)
(* request read it, which the items that the request creates keep.         *)
(***************************************************************************)
EXTENDS Orders

CONSTANTS
  Variant,         \* Variant[r]: the id, product and category of row r's variant
  Offer,           \* Offer[r]: the SupplierProduct rows of r's variant
  OrderColumns,    \* OrderColumns[o]: cashier and payment method of order o
  AdjustColumns,   \* AdjustColumns[t]: the same of t's adjustment
  OpeningCost,     \* OpeningCost[v]: the cost of variant v at the start
  PastCost,        \* PastCost[p]: what the goods of p cost when they were sold
  NewCost          \* the costs an edit or a receipt may set

VariantId == {Variant[r].id : r \in Row}

ASSUME ColumnsAssumption ==
  /\ DOMAIN Variant = Row /\ DOMAIN Offer = Row
  /\ DOMAIN OrderColumns = OrderId /\ DOMAIN AdjustColumns = Tx
  /\ IsFiniteSet(Store) /\ IsFiniteSet(Row)
ASSUME CostAssumption ==
  /\ OpeningCost \in [VariantId -> Nat] /\ NewCost \subseteq Nat
  /\ PastCost \in [Past -> [Row -> Nat]]

VARIABLES
  cost,    \* cost[v]: ProductVariant.cost
  costAt   \* costAt[x][r]: the cost of r's variant as the request of x read it

reportsVars == <<ordersVars, cost, costAt>>

CostNow == [r \in Row |-> cost[Variant[r].id]]

ReportsInit ==
  /\ OrdersInit
  /\ cost = OpeningCost
  /\ costAt = [x \in OrderId |-> IF x \in Past THEN PastCost[x] ELSE CostNow]

(* A sale reads the variants when it starts, an adjustment after the       *)
(* returns it has accepted; unitCostSnapshot keeps what they read.         *)
ReadsVariants(t) ==
  \/ stage[t] = "none" /\ stage'[t] = "counter"
  \/ stage[t] = "adjust" /\ stage'[t] = "adjusting"

OrdersStep ==
  /\ OrdersNext
  /\ costAt' = [x \in OrderId |-> IF x \in Tx /\ ReadsVariants(x) THEN CostNow ELSE costAt[x]]
  /\ UNCHANGED cost

(* An edit of the product, or a receipt that blends the cost.              *)
SetCost(v, c) ==
  /\ cost[v] # c
  /\ cost' = [cost EXCEPT ![v] = c]
  /\ UNCHANGED <<ordersVars, costAt>>

ReportsNext == OrdersStep \/ \E v \in VariantId, c \in NewCost : SetCost(v, c)

ReportsSpec == ReportsInit /\ [][ReportsNext]_reportsVars

-----------------------------------------------------------------------------
(* The rows the queries start from; p is the range.                        *)

SaleStatuses == {"COMPLETED", "PARTIALLY_REFUNDED", "REFUNDED"}

SaleOrders(p) == {o \in Orders \cap p : orders[o].status \in SaleStatuses}
SaleItemsOf(p) == UNION {{<<o, i>> : i \in DOMAIN orders[o].lines} : o \in SaleOrders(p)}
Adjusted(p) == {t \in Tx \cap p : adjusts[t] # NoOrder}
ReturnItemsOf(p) == UNION {{<<t, k>> : k \in DOMAIN adjusts[t].returns} : t \in Adjusted(p)}

SaleTotal == [o \in Orders |-> GrandTotal(orders[o])]
Refunding(p) == {t \in Adjusted(p) : RefundAmount[t] > 0}

Sold(x) == orders[x[1]].lines[x[2]]
Return(x) == adjusts[x[1]].returns[x[2]]
ReturnedLine(x) == orders[adjusts[x[1]].order].lines[Return(x).item]

-----------------------------------------------------------------------------
(* summary.                                                                *)

SalesTotal(p) == SumFunctionOnSet(SaleTotal, SaleOrders(p))
RefundTotal(p) == SumFunctionOnSet(RefundAmount, Refunding(p))

(* What items cost, each at the unit cost the order or adjustment it       *)
(* belongs to gives its row: v = costAt for the snapshots.                 *)
CostSold(v, p) == SumFunction([x \in SaleItemsOf(p) |-> v[x[1]][Sold(x).row] * Sold(x).qty])

EveryReturn(x) == TRUE
BackOnShelf(x) == Return(x).restock
CostReturned(v, p) ==
  SumFunction([x \in {y \in ReturnItemsOf(p) : BackOnShelf(y)} |->
                 v[adjusts[x[1]].order][ReturnedLine(x).row] * Return(x).qty])

Summary(p) ==
  LET revenue == SalesTotal(p) - RefundTotal(p)
      spent == CostSold(costAt, p) - CostReturned(costAt, p)
  IN [sales |-> Cardinality(SaleOrders(p)), refunds |-> Cardinality(Refunding(p)),
      revenue |-> revenue, cost |-> spent, profit |-> revenue - spent]

-----------------------------------------------------------------------------
(* The breakdowns.  Sales and refunds are grouped apart and joined on the  *)
(* key: by product, category or supplier over the items, by payment        *)
(* method, cashier or store over the documents.                            *)

GroupsSold(sold, returned) == sold
GroupsJoined(sold, returned) == sold \cup returned   \* FULL OUTER JOIN

(* An item counts for its total less its share of the order's discounts,   *)
(* summed exactly and rounded by group; a returned item for the column     *)
(* subtotal, rounded when it was stored.                                   *)
SaleValue(p) == [x \in SaleItemsOf(p) |-> LineWorth(orders[x[1]], x[2])]
RefundValue(p) ==
  [x \in ReturnItemsOf(p) |-> ToCents(LineRefund(orders[adjusts[x[1]].order], Return(x)))]
Round2(ticks) == HalfUp(ticks, Cent)

ItemReport(key, p) ==
  LET soldAs == [x \in SaleItemsOf(p) |-> key[Sold(x).row]]
      backAs == [x \in ReturnItemsOf(p) |-> key[ReturnedLine(x).row]]
  IN [g \in GroupsJoined(Range(soldAs), Range(backAs)) |->
        [net |-> Round2(SumFunctionOnSet(SaleValue(p), {x \in SaleItemsOf(p) : soldAs[x] = g})),
         refund |-> SumFunctionOnSet(RefundValue(p), {x \in ReturnItemsOf(p) : backAs[x] = g})]]

DocumentReport(groups, saleKey, refundKey, p) ==
  [g \in groups |->
     [net |-> SumFunctionOnSet(SaleTotal, {o \in SaleOrders(p) : saleKey[o] = g}),
      refund |-> SumFunctionOnSet(RefundAmount, {t \in Refunding(p) : refundKey[t] = g})]]

Product == [r \in Row |-> Variant[r].product]
Category == [r \in Row |-> Variant[r].category]   \* '__none__' is a category too

(* The primary supplier: the cheapest offer, then the lowest id.           *)
PrimarySupplier ==
  [r \in Row |->
     IF Offer[r] = {} THEN 0
     ELSE (CHOOSE s \in Offer[r] :
             \A u \in Offer[r] : \/ s.cost < u.cost
                                 \/ s.cost = u.cost /\ s.supplier <= u.supplier).supplier]

ProductSales(p) == ItemReport(Product, p)
CategorySales(p) == ItemReport(Category, p)
SupplierSales(p) == ItemReport(PrimarySupplier, p)

ColumnReport(c, p) ==
  LET soldAs == [o \in SaleOrders(p) |-> OrderColumns[o][c]]
      backAs == [t \in Refunding(p) |-> AdjustColumns[t][c]]
  IN DocumentReport(GroupsJoined(Range(soldAs), Range(backAs)), soldAs, backAs, p)
SalesCount(p) == ColumnReport("method", p)
UserSales(p) == ColumnReport("cashier", p)

(* Every store is listed; an adjustment is of the store of its order.      *)
StoreSales(p) ==
  DocumentReport(Store, [o \in Orders |-> orders[o].store],
                 [t \in Amended |-> orders[adjusts[t].order].store], p)

(* currentStock: rows above zero, valued at the variant's cost of today.   *)
StockValue ==
  SumFunction([r \in {s \in Row : level[s] # Absent /\ level[s] > 0} |-> level[r] * CostNow[r]])

-----------------------------------------------------------------------------
(* The properties.                                                         *)

Balance(report) == SumFunction([g \in DOMAIN report |-> report[g].net - report[g].refund])

(* Twice what the roundings on the way may add up to: half a cent by every *)
(* group, order, item and adjustment in the range, half a tick by every    *)
(* allocation of a discount.                                               *)
Roundings(report, p) ==
  Cent * (Cardinality(DOMAIN report) + Cardinality(SaleOrders(p)) + Cardinality(SaleItemsOf(p))
            + Cardinality(Adjusted(p)) + Cardinality(ReturnItemsOf(p)))
    + Cardinality(SaleItemsOf(p))

Reconciles(report, p) ==
  LET gap == 2 * Cent * (Balance(report) - Summary(p).revenue)
  IN gap <= Roundings(report, p) /\ -gap <= Roundings(report, p)

(* "so every breakdown reconciles": whatever the range and whatever was    *)
(* refunded, voided or raced, a breakdown by document balances to the      *)
(* revenue of the summary, and one by item but for roundings.  A group     *)
(* that only has refunds in the range counts.                              *)
BreakdownsReconcile ==
  \A p \in {OrderId, Tx} :
    LET revenue == Summary(p).revenue
    IN /\ Balance(SalesCount(p)) = revenue
       /\ Balance(UserSales(p)) = revenue
       /\ Balance(StoreSales(p)) = revenue
       /\ (\A o \in Orders : Covered(orders[o])) =>
            /\ Reconciles(ProductSales(p), p)
            /\ Reconciles(CategorySales(p), p)
            /\ Reconciles(SupplierSales(p), p)

(* The items an exchange or an added sale takes out: no report reads them. *)
ExtraItems == UNION {{<<t, k>> : k \in DOMAIN adjusts[t].sales} : t \in Amended}
Extra(x) == adjusts[x[1]].sales[x[2]]
CostUnreported(v) == SumFunction([x \in ExtraItems |-> v[x[1]][Extra(x).row] * Extra(x).qty])

(* What goods out of stock cost, and by how much that changed since they   *)
(* went out.                                                               *)
CostOut(v) == CostSold(v, OrderId) - CostReturned(v, OrderId) + CostUnreported(v)
Revaluation ==
  CostOut([x \in OrderId |-> [r \in Row |-> CostNow[r] - costAt[x][r]]])

Assets == StockValue + Summary(OrderId).cost + CostUnreported(costAt) + Revaluation

(* Requests did not overlap, and no order was voided after a refund.       *)
Tidy == ~overlapped /\ \A o \in Orders : orders[o].status = "CANCELLED" => AdjustsOf(o) = {}

(* The stock report and the cost of the summary are two views of the same  *)
(* goods: through any tidy sequence of sales, returns, write-offs,         *)
(* exchanges and voids, what leaves the stock value is cost of goods sold  *)
(* or of exchanged-for items, and comes back with them, but for what the   *)
(* goods that are out gained or lost while they were out or being sold.    *)
CostBalancesStock ==
  [][Tidy' /\ cost' = cost => Assets' = Assets]_reportsVars
=============================================================================
