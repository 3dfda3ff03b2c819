--------------------------- MODULE AtomicLedger ---------------------------
(***************************************************************************)
(* What the inventory service promises of the movement ledger, without its *)
(* statements, locks and interleavings: a request takes effect at a single *)
(* point, where it either posts every movement it asked for or none.       *)
(***************************************************************************)
EXTENDS Integers, Sequences, Functions

CONSTANTS Tx, Row, Request

VARIABLES books, request, outcome

ledgerVars == <<books, request, outcome>>

(* What the adjustments of q add up to on row r.                           *)
Total(q, r) ==
  SumFunctionOnSet([i \in DOMAIN q |-> q[i].qty],
                   {i \in DOMAIN q : q[i].op = "adjust" /\ q[i].row = r})

Counted(q) == {q[i].row : i \in {j \in DOMAIN q : q[j].op = "count"}}

Init ==
  /\ books \in [Row -> Int]
  /\ request = [t \in Tx |-> <<>>]
  /\ outcome = [t \in Tx |-> "idle"]

Accept(t) ==
  /\ outcome[t] = "idle"
  /\ request'[t] \in Request
  /\ \A u \in Tx \ {t} : request'[u] = request[u]
  /\ outcome' = [outcome EXCEPT ![t] = "open"]
  /\ UNCHANGED books

(* All of it: adjustments post their sum; a count posts what it finds      *)
(* missing, which the ledger alone cannot tell.                            *)
Post(t) ==
  /\ outcome[t] = "open"
  /\ \A r \in Row \ Counted(request[t]) : books'[r] = books[r] + Total(request[t], r)
  /\ outcome' = [outcome EXCEPT ![t] = "posted"]
  /\ UNCHANGED request

(* None of it.                                                             *)
Refuse(t) ==
  /\ outcome[t] = "open"
  /\ outcome' = [outcome EXCEPT ![t] = "refused"]
  /\ UNCHANGED <<books, request>>

Next == \E t \in Tx : Accept(t) \/ Post(t) \/ Refuse(t)

Spec == Init /\ [][Next]_ledgerVars
=============================================================================
