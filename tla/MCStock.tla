------------------------------ MODULE MCStock ------------------------------
(* Stock on two rows, each stocked or not there yet, and two requests of   *)
(* up to three lines.                                                      *)
EXTENDS StockRefinement, TLC

CONSTANTS r1, r2, t1, t2

Adjust(r, d) == [op |-> "adjust", row |-> r, qty |-> d]
Count(r, n) == [op |-> "count", row |-> r, qty |-> n]
Reorder(r) == [op |-> "reorder", row |-> r, qty |-> 0]

MCTx == {t1, t2}
MCRow == {r1, r2}
MCOpening == {[r \in MCRow |-> IF r = r1 THEN 2 ELSE v] : v \in {1, Absent}}

(* Two-line requests lock the rows in both orders; some touch a row twice  *)
(* and some fail on a later line.                                          *)
MCRequest == {
  <<Adjust(r1, -2)>>, <<Adjust(r1, 1)>>, <<Adjust(r2, 1)>>, <<Adjust(r1, 0)>>,
  <<Adjust(r1, -1), Adjust(r2, -1)>>,
  <<Adjust(r2, 1), Adjust(r1, -1)>>,
  <<Adjust(r1, -1), Adjust(r1, -1)>>,
  <<Adjust(r2, -1), Adjust(r1, -1), Adjust(r2, -1)>>,
  <<Adjust(r1, 1), Adjust(r2, 2), Adjust(r1, -3)>>,
  <<Count(r1, 1)>>, <<Count(r2, 1)>>, <<Count(r1, 0)>>, <<Reorder(r1)>>, <<Reorder(r2)>> }
=============================================================================
