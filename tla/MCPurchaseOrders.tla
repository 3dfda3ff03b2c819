-------------------------- MODULE MCPurchaseOrders --------------------------
(* Orders of store a for two variants; store b holds one of them as well.  *)
EXTENDS PurchaseOrders, TLC

CONSTANTS a, b, a1, a2, b1, v1, v2, p1, p2, admin, clerkB, t1, t2

MCTx2 == {t1, t2}
MCRow == {a1, a2, b1}
MCOutlet == {a, b}
MCUser == {admin, clerkB}
MCActsFor == [u \in User |-> IF u = clerkB THEN {b} ELSE {a, b}]
MCOpening == {[r \in MCRow |-> CASE r = a2 -> Absent [] r = b1 -> 2 [] OTHER -> 1]}
MCVariant == {v1, v2}
MCVariantOf == [r \in MCRow |-> IF r = a2 THEN v2 ELSE v1]
MCFirstCost == [v \in MCVariant |-> IF v = v1 THEN 10 ELSE 0]

Buy(r, n, c) == [into |-> r, qty |-> n, unitCost |-> c]
Got(i, n) == [item |-> i, qty |-> n]

(* A draft of two variants and a submitted order of one variant on two     *)
(* lines at two prices.                                                    *)
MCEarlier == {p1, p2}
MCRaised == [d \in MCEarlier |-> IF d = p1
  THEN [number |-> 1, store |-> a, received |-> <<0, 0>>, status |-> "DRAFT",
        lines |-> <<Buy(a1, 2, 13), Buy(a2, 1, 7)>>]
  ELSE [number |-> 2, store |-> a, received |-> <<0, 0>>, status |-> "ORDERED",
        lines |-> <<Buy(a1, 1, 4), Buy(a1, 2, 25)>>]]

MCDraft == {
  [store |-> a, lines |-> <<Buy(a2, 1, 9), Buy(a1, 1, 6)>>, valid |-> TRUE],
  [store |-> b, lines |-> <<Buy(b1, 1, 6)>>, valid |-> FALSE] }

(* Both lines in both orders, a part, nothing, too much, a line named      *)
(* twice, an unknown line.                                                 *)
MCReceipt == {
  <<Got(1, 1), Got(2, 1)>>, <<Got(2, 1), Got(1, 1)>>, <<Got(1, 0), Got(2, 2)>>,
  <<Got(1, 2), Got(2, 1)>>, <<Got(1, 1)>>, <<Got(1, 0)>>, <<Got(2, 3)>>, <<Got(2, 2), Got(2, 1)>>, <<Got(3, 1)>> }
=============================================================================
