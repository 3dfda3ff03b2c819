------------------------------- MODULE Sales -------------------------------
(***************************************************************************)
(* OrdersService.create (backend/src/orders): the checkout of a sale.      *)
(*                                                                         *)
(* One transaction validates the sale, takes the next receipt number of    *)
(* the store, creates the order, takes every line out of stock through     *)
(* adjustStock and counts the use of the discounts it links.  Taking the   *)
(* receipt number updates the Store row, so it locks that row until the    *)
(* transaction ends.                                                       *)
(*                                                                         *)
(* A money column holds whole cents; the handlers compute with Decimals,   *)
(* written here in ticks, of which Cent make a cent.  A line carries its   *)
(* subtotal after its own discounts and the tax percentOf computed of it.  *)
(***************************************************************************)
EXTENDS Stock, FiniteSets, Functions

CONSTANTS
  Cent,      \* the ticks of a cent: how finely a Decimal is rounded
  Store,     \* the stores
  Past,      \* orders placed before the behaviour starts
  Placed,    \* Placed[p]: what those orders are
  Discount,  \* catalog discounts
  Sale,      \* the sales a client may submit
  NoOrder,   \* the value of an order, or of a sale, that does not exist
  NoStore

OrderId == Tx \cup Past   \* an order is named after the transaction creating it
Line == {line \in [row : Row, qty : Nat \ {0}, subtotal : Nat, tax : Nat] :
           line.subtotal = 0 => line.tax = 0}
Status == {"COMPLETED", "PARTIALLY_REFUNDED", "REFUNDED", "CANCELLED"}
SaleType == [store : Store, lines : Seq(Line), links : Seq(Discount),
             discount : Nat, valid : BOOLEAN]
OrderType == [store : Store, lines : Seq(Line), links : Seq(Discount), discount : Nat,
              receipt : Nat, status : Status, refunded : Int]
StoreRow == [store : Store, counter : Nat]

(* A quotient rounded to a whole number: half up, or half away from zero,  *)
(* as a Decimal and a numeric column are.                                  *)
HalfUp(a, b) == (2 * a + b) \div (2 * b)
Nearest(a, b) == IF a < 0 THEN -HalfUp(-a, b) ELSE HalfUp(a, b)
ToCents(ticks) == Nearest(ticks, Cent)

(* What a sale comes to, tax added and the order's discounts taken off.    *)
Gross(lines) ==
  SumFunction([i \in DOMAIN lines |-> Cent * lines[i].subtotal + lines[i].tax])
Due(s) == Gross(s.lines) - Cent * s.discount

ASSUME CentAssumption == Cent \in Nat \ {0}
ASSUME SaleAssumption == Sale \subseteq SaleType
ASSUME PlacedAssumption ==
  Placed \in [Past -> OrderType] /\ \A p \in Past : Due(Placed[p]) >= 0
ASSUME NamesAssumption ==
  Past \cap Tx = {} /\ NoStore \notin StoreRow /\ NoOrder \notin OrderType \cup SaleType

VARIABLES
  orders,   \* the Order table with its items: orders[o], or NoOrder
  counter,  \* counter[s]: Store.receiptCounter, committed
  usage,    \* usage[d]: Discount.usageCount, committed
  sale,     \* sale[t]: the request of t, in its memory
  stage,    \* stage[t]: how far t's handler is
  held      \* held[t]: the Store row t has written and so locked, or NoStore

saleVars == <<orders, counter, usage, sale, stage, held>>
salesVars == <<stockVars, saleVars>>

PlacedIn(s) == {p \in Past : Placed[p].store = s}

(* The orders placed before were numbered as these are; a row belongs to   *)
(* one store, so sales of different stores have no row in common.          *)
ASSUME PastAssumption ==
  /\ IsFiniteSet(Past)
  /\ \A s \in Store : {Placed[p].receipt : p \in PlacedIn(s)} = 1 .. Cardinality(PlacedIn(s))
ASSUME RowsAssumption ==
  \A s, z \in Sale : s.store # z.store =>
    \A i \in DOMAIN s.lines, j \in DOMAIN z.lines : s.lines[i].row # z.lines[j].row

SalesInit ==
  /\ StockInit
  /\ orders = [o \in OrderId |-> IF o \in Past THEN Placed[o] ELSE NoOrder]
  /\ counter = [s \in Store |-> Cardinality(PlacedIn(s))]
  /\ usage = [d \in Discount |-> 0]
  /\ sale = [t \in Tx |-> NoOrder]
  /\ stage = [t \in Tx |-> "none"]
  /\ held = [t \in Tx |-> NoStore]

-----------------------------------------------------------------------------
(* The parts of a sale.                                                    *)

(* The adjustments that take the lines out of stock.                       *)
TakeOut(lines) == [i \in DOMAIN lines |->
                     [op |-> "adjust", row |-> lines[i].row, qty |-> -lines[i].qty]]

(* A discount linked by the order and by several lines is used once.       *)
EveryLink(links, d) == Cardinality({i \in DOMAIN links : links[i] = d})
Uses(links, d) == IF d \in Range(links) THEN 1 ELSE 0

(* The UPDATE of the store's receiptCounter waits for its row lock.        *)
NoStoreLock(t, s) == TRUE
StoreFree(t, s) == \A u \in Tx \ {t} : held[u] # NoStore => held[u].store # s

-----------------------------------------------------------------------------
(* The operation.                                                          *)

(* The transaction opens and reads what it validates the sale against.     *)
OpenSale(t, s) ==
  /\ Begin(t, <<>>)
  /\ sale' = [sale EXCEPT ![t] = s]
  /\ stage' = [stage EXCEPT ![t] = "counter"]
  /\ UNCHANGED <<orders, counter, usage, held>>

(* A rolled back transaction releases the store as well.                   *)
ReleaseStore(t) == held' = [held EXCEPT ![t] = NoStore]

(* "Order discounts exceed order total"; `valid' stands for the rest: the  *)
(* variants, the salesperson, the discounts, and what was paid.            *)
Accepted(s) == s.valid /\ Due(s) >= 0

RejectSale(t) ==
  /\ pc[t] = "read" /\ stage[t] = "counter"
  /\ ~Accepted(sale[t])
  /\ Rollback(t)
  /\ ReleaseStore(t)
  /\ UNCHANGED <<orders, counter, usage, sale, stage>>

(* store.update increments receiptCounter and returns it: the number of    *)
(* the order.  The row stays locked until t ends; adjustStock on every     *)
(* line follows.                                                           *)
TakeReceipt(t) ==
  /\ pc[t] = "read" /\ stage[t] = "counter"
  /\ Accepted(sale[t])
  /\ StoreFree(t, sale[t].store)
  /\ held' = [held EXCEPT ![t] =
                 [store |-> sale[t].store, counter |-> counter[sale[t].store] + 1]]
  /\ stage' = [stage EXCEPT ![t] = "lines"]
  /\ Adjusting(t, TakeOut(sale[t].lines))
  /\ UNCHANGED <<orders, counter, usage, sale>>

NewOrder(s, number) ==
  [store |-> s.store, lines |-> s.lines, links |-> s.links, discount |-> s.discount,
   receipt |-> number, status |-> "COMPLETED", refunded |-> 0]

(* The usage counts of the linked discounts go up, and the order, its      *)
(* receipt number, the stock and the counts are committed together.        *)
CommitSale(t) ==
  LET s == sale[t]
  IN /\ stage[t] = "lines"
     /\ Commit(t)
     /\ orders' = [orders EXCEPT ![t] = NewOrder(s, held[t].counter)]
     /\ counter' = [counter EXCEPT ![s.store] = held[t].counter]
     /\ usage' = [d \in Discount |-> usage[d] + Uses(s.links, d)]
     /\ ReleaseStore(t)
     /\ UNCHANGED <<sale, stage>>

(* adjustStock's statements, and failures at any point; either may end the *)
(* transaction.                                                            *)
SaleStep(t, A) ==
  /\ A
  /\ IF pc'[t] = "aborted" THEN ReleaseStore(t) ELSE UNCHANGED held
  /\ UNCHANGED <<orders, counter, usage, sale, stage>>

SaleStatement(t) ==
  \/ RejectSale(t)
  \/ TakeReceipt(t)
  \/ SaleStep(t, Statement(t))
  \/ CommitSale(t)

SalesTerminating == (\A t \in Tx : pc[t] \in Ended) /\ UNCHANGED salesVars

SalesNext ==
  \/ \E t \in Tx :
       \/ \E s \in Sale : OpenSale(t, s)
       \/ SaleStatement(t)
       \/ SaleStep(t, Fail(t))
  \/ SalesTerminating

SalesSpec == SalesInit /\ [][SalesNext]_salesVars

-----------------------------------------------------------------------------
(* The properties.                                                         *)

Orders == {o \in OrderId : orders[o] # NoOrder}
OrdersOf(s) == {o \in Orders : orders[o].store = s}

(* Whatever sales overlap or fail, the orders of a store carry the numbers *)
(* 1 to receiptCounter, each once: no receipt is skipped or repeated.      *)
ReceiptsGapless ==
  \A s \in Store :
    /\ {orders[o].receipt : o \in OrdersOf(s)} = 1 .. counter[s]
    /\ Cardinality(OrdersOf(s)) = counter[s]

(* Sales alone never lose an update of a level, although adjustStock reads *)
(* it without a lock, nor wait for each other in a cycle, although they    *)
(* may list the same variants in opposite orders: the lock on the store,   *)
(* taken before the first line, makes the sales of a store take turns.     *)
SalesTakeTurns == raced = {} /\ \A t \in Tx : ~InWaitCycle(t)
=============================================================================
