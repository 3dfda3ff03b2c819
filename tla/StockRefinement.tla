-------------------------- MODULE StockRefinement --------------------------
(***************************************************************************)
(* The statements of Stock implement AtomicLedger.                         *)
(***************************************************************************)
EXTENDS Stock

Outcome(p) ==
  CASE p = "idle" -> "idle"
    [] p \in Open -> "open"
    [] p = "committed" -> "posted"
    [] p = "aborted" -> "refused"

Ledger == INSTANCE AtomicLedger WITH
  books <- moved,
  outcome <- [t \in Tx |-> Outcome(pc[t])]

(* However requests interleave, each posts all of its movements at its     *)
(* commit or, when it fails at any line, none: an order whose last item is *)
(* short leaves no trace of the items before it.                           *)
RequestsAreAllOrNothing == Ledger!Spec
=============================================================================
