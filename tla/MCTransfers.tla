---------------------------- MODULE MCTransfers ----------------------------
(* Transfers between stores a and b, each holding two variants.            *)
EXTENDS Transfers, TLC

CONSTANTS a, b, a1, a2, b1, b2, p1, p2, admin, clerkB, t1, t2, t3

MCTx2 == {t1, t2}
MCTx3 == {t1, t2, t3}
MCRow == {a1, a2, b1, b2}
MCOutlet == {a, b}
MCUser == {admin, clerkB}
MCAdmin == {admin}
MCActsFor == [u \in User |-> IF u = clerkB THEN {b} ELSE {a, b}]
MCOpening == {[r \in MCRow |-> CASE r = b2 -> Absent [] r = a1 -> 4 [] OTHER -> 2]}

Send(r, s, n) == [from |-> r, into |-> s, qty |-> n]
Got(i, n) == [item |-> i, qty |-> n]

(* A draft of two lines and a transfer on its way, which lists the same    *)
(* variants in the opposite order.                                         *)
MCEarlier == {p1, p2}
MCDraftPlaced(st) == [number |-> 1, from |-> a, to |-> b, received |-> <<0, 0>>,
  lines |-> <<Send(a1, b1, 2), Send(a2, b2, 1)>>, status |-> st]
MCRaised == [d \in MCEarlier |-> IF d = p1 THEN MCDraftPlaced("DRAFT")
  ELSE [number |-> 2, from |-> a, to |-> b, received |-> <<0, 0>>,
        lines |-> <<Send(a2, b2, 1), Send(a1, b1, 2)>>, status |-> "IN_TRANSIT"]]

(* A draft that repeats a variant, one with equal stores, an invalid one.  *)
MCDraft == {
  [from |-> a, to |-> b, lines |-> <<Send(a1, b1, 2), Send(a1, b1, 1)>>, valid |-> TRUE],
  [from |-> b, to |-> b, lines |-> <<Send(b1, b1, 1)>>, valid |-> TRUE],
  [from |-> b, to |-> a, lines |-> <<Send(b1, a1, 1)>>, valid |-> FALSE] }

(* Two lines in both orders, of which some refuse one or the other order;  *)
(* a line named twice with one between of which nothing came; an unknown   *)
(* line.                                                                   *)
MCReceipt == {
  <<Got(1, 1), Got(2, 1)>>, <<Got(2, 2), Got(1, 1)>>, <<Got(2, 1), Got(1, 0), Got(2, 1)>>,
  <<Got(3, 1)>> }

MCSymmetry == Permutations(Tx)
=============================================================================
