----------------------------- MODULE MCPayouts -----------------------------
(* A salesperson and an administrator, two orders of two days, an          *)
(* adjustment of one of them, and three calls that take and edit snapshots *)
(* meanwhile.                                                              *)
EXTENDS Payouts, TLC

CONSTANTS ann, bob, o1, o2, c1, c2, c3

MCCall == {c1, c2, c3}
MCSymmetry == Permutations(Call)
MCEmployee == {ann, bob}
Row(role, enabled, base, rate) ==
  [role |-> role, enabled |-> enabled, active |-> TRUE, base |-> base, rate |-> rate]
MCAdmin == Row("ADMIN", TRUE, 12, 0)
MCHired == [e \in MCEmployee |-> IF e = ann THEN Row("EMPLOYEE", TRUE, 7, 2500) ELSE MCAdmin]
MCUserChange == {MCAdmin}

MCOrder == {o1, o2}
MCSold == [o \in MCOrder |-> [by |-> ann, day |-> IF o = o1 THEN 1 ELSE 2,
                              total |-> IF o = o1 THEN 10 ELSE 6]]
MCAmendment == {[order |-> o1, day |-> 1, refund |-> 4, charge |-> 3]}

MCSnapshot == {[user |-> ann, from |-> 1, to |-> 2, adj |-> 4],
               [user |-> bob, from |-> 2, to |-> 1, adj |-> 0]}
MCEdit == {[status |-> "PAID", adj |-> Unset], [status |-> Unset, adj |-> 5],
           [status |-> "CANCELLED", adj |-> -3]}
=============================================================================
