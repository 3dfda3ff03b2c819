----------------------------- MODULE MCSession -----------------------------
(* Two tabs of one browser: two requests in one, one in the other.         *)
EXTENDS Session

CONSTANTS b1, b2, r1, r2, r3

MCTab == {b1, b2}
MCRequest == {r1, r2, r3}
MCTabOf == [r \in MCRequest |-> IF r = r3 THEN b2 ELSE b1]
=============================================================================
