----------------------------- MODULE MCReports -----------------------------
(* Two variants of which one changes its cost, an order placed before and  *)
(* two requests.                                                           *)
EXTENDS Reports, TLC

CONSTANTS shop, rowA, rowB, d1, p1, t1, t2

MCTx == {t1, t2}
MCRow == {rowA, rowB}
MCStore == {shop}
MCPast == {p1}
MCDiscount == {d1}
MCOpening == {[r \in MCRow |-> 1]}

Sell(r, n, amount, tax) == [row |-> r, qty |-> n, subtotal |-> amount, tax |-> tax]
Back(i, n, re) == [item |-> i, qty |-> n, restock |-> re]
Adjust(o, rs, ss) ==
  [order |-> o, returns |-> rs, sales |-> ss, links |-> <<>>, valid |-> TRUE]

MCPlaced == [p \in MCPast |->
  [store |-> shop, lines |-> <<Sell(rowA, 3, 1000, 825), Sell(rowB, 1, 300, 0)>>,
   links |-> <<>>, discount |-> 26, receipt |-> 1, status |-> "COMPLETED", refunded |-> 0]]

(* A discount of a cent over two products.                                 *)
MCSale == {[store |-> shop, lines |-> <<Sell(rowA, 1, 500, 0), Sell(rowB, 1, 500, 0)>>,
            links |-> <<>>, discount |-> 1, valid |-> TRUE]}

(* A return, a write-off, both items, an exchange, an added item, and a    *)
(* return on an order made meanwhile.                                      *)
MCAdjustment == {
  Adjust(p1, <<Back(1, 1, TRUE)>>, <<>>),
  Adjust(p1, <<Back(1, 2, FALSE)>>, <<>>),
  Adjust(p1, <<Back(1, 2, TRUE), Back(2, 1, FALSE)>>, <<>>),
  Adjust(p1, <<Back(2, 1, TRUE)>>, <<Sell(rowA, 1, 500, 413)>>),
  Adjust(p1, <<>>, <<Sell(rowB, 1, 300, 0)>>) }
  \cup {Adjust(o, <<Back(2, 1, TRUE)>>, <<>>) : o \in Tx}
MCVoidable == MCPast \cup Tx

(* Two products of one category, the second without a supplier; a manager  *)
(* adjusts in cash what the cashier sold by card.                          *)
MCVariant == [r \in MCRow |-> [id |-> r, product |-> r, category |-> "drinks"]]
MCOffer == [r \in MCRow |-> IF r = rowA THEN {[supplier |-> 2, cost |-> 2],
                                              [supplier |-> 1, cost |-> 2]} ELSE {}]
MCOrderColumns == [o \in OrderId |-> [cashier |-> "cashier", method |-> "CARD"]]
MCAdjustColumns == [t \in Tx |-> [cashier |-> "manager", method |-> "CASH"]]
MCOpeningCost == [r \in MCRow |-> IF r = rowA THEN 200 ELSE 90]
MCPastCost == [p \in MCPast |-> [r \in MCRow |-> IF r = rowA THEN 150 ELSE 90]]

MCSymmetry == Permutations(Tx)
=============================================================================
