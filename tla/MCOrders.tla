------------------------------ MODULE MCOrders ------------------------------
(* A store with two variants and an order of four units placed before, and *)
(* a branch with one.                                                      *)
EXTENDS Orders, TLC

CONSTANTS shop, branch, rowA, rowB, rowC, d1, p1, t1, t2, t3

MCTx2 == {t1, t2}
MCTx3 == {t1, t2, t3}
MCRow == {rowA, rowB, rowC}
MCStore == {shop, branch}
MCPast == {p1}
MCDiscount == {d1}
MCOpening == {[r \in MCRow |-> 1]}

Sell(r, n, amount, tax) == [row |-> r, qty |-> n, subtotal |-> amount, tax |-> tax]
Back(i, n, re) == [item |-> i, qty |-> n, restock |-> re]
Adjust(o, rs, ss, ds) ==
  [order |-> o, returns |-> rs, sales |-> ss, links |-> ds, valid |-> TRUE]

(* Three units of which none is worth whole cents, taxed, and an order     *)
(* discount over both items: whether returning all of it makes the order   *)
(* REFUNDED depends on the order in which it comes back.                   *)
MCPlaced == [p \in MCPast |->
  [store |-> shop, lines |-> <<Sell(rowA, 3, 1000, 825), Sell(rowB, 1, 300, 0)>>,
   links |-> <<>>, discount |-> 26, receipt |-> 1, status |-> "COMPLETED", refunded |-> 0]]

(* A sale with a free item, and a discount its order and a line link, the  *)
(* same variants in the opposite order, one of the branch, and one whose   *)
(* discount exceeds its total.                                             *)
Submit(st, ls, ds, off) ==
  [store |-> st, lines |-> ls, links |-> ds, discount |-> off, valid |-> TRUE]
MCSale == {
  Submit(shop, <<Sell(rowB, 1, 0, 0), Sell(rowA, 1, 500, 0)>>, <<d1, d1>>, 10),
  Submit(shop, <<Sell(rowA, 1, 500, 0), Sell(rowB, 1, 300, 0)>>, <<>>, 0),
  Submit(branch, <<Sell(rowC, 1, 500, 0)>>, <<d1>>, 10),
  Submit(branch, <<Sell(rowC, 1, 500, 0)>>, <<d1>>, 501) }

(* A return, a write-off, both items, one item named twice, an exchange    *)
(* that links a discount twice, an added item that may be short, a return  *)
(* on an order made meanwhile, and an invalid one.                         *)
MCAdjustment == {
  Adjust(p1, <<Back(1, 1, TRUE)>>, <<>>, <<>>),
  Adjust(p1, <<Back(1, 2, FALSE)>>, <<>>, <<>>),
  Adjust(p1, <<Back(1, 2, TRUE), Back(2, 1, TRUE)>>, <<>>, <<>>),
  Adjust(p1, <<Back(1, 2, TRUE), Back(1, 1, TRUE)>>, <<>>, <<>>),
  Adjust(p1, <<Back(2, 1, TRUE)>>, <<Sell(rowA, 1, 500, 413)>>, <<d1, d1>>),
  Adjust(p1, <<>>, <<Sell(rowB, 2, 600, 0)>>, <<>>),
  [Adjust(p1, <<Back(2, 1, TRUE)>>, <<>>, <<>>) EXCEPT !.valid = FALSE] }
  \cup {Adjust(o, <<Back(2, 1, TRUE)>>, <<>>, <<>>) : o \in Tx}

(* The same order item on two return lines of one request.                 *)
MCRepeated == {Adjust(p1, <<Back(1, 2, TRUE), Back(1, 2, TRUE)>>, <<>>, <<>>),
               Adjust(p1, <<Back(2, 1, TRUE)>>, <<>>, <<>>)}

MCVoidable == MCPast \cup Tx
MCSymmetry == Permutations(Tx)
=============================================================================
