------------------------------- MODULE Stock -------------------------------
(***************************************************************************)
(* InventoryService (backend/src/inventory): the quantity on hand of every *)
(* (store, variant) pair and the ledger of StockMovement rows, as the      *)
(* concurrent transactions of the backend read and write them.             *)
(*                                                                         *)
(* One action is one SQL statement of adjustStock, recordCount or          *)
(* setReorder.  The database is PostgreSQL at its default isolation, READ  *)
(* COMMITTED: no call of the backend asks for another.  A SELECT sees what *)
(* is committed (or was written by its own transaction) and locks nothing; *)
(* an INSERT or UPDATE locks the row until its transaction ends.           *)
(* Existence checks of the store and the variant are abstracted: Row holds *)
(* existing pairs only.  Prices, users and notes on a movement are left    *)
(* out; `moved' keeps the sum of StockMovement.quantity of each row.       *)
(***************************************************************************)
EXTENDS Integers, Sequences

CONSTANTS
  Tx,       \* transactions, each serving one request
  Row,      \* (store, variant) pairs
  Opening,  \* the stock the system may start from
  Request,  \* the requests a transaction may serve: sequences of steps
  Absent,   \* the value of a row that does not exist
  NoWrite   \* "this transaction has not written this row"

Op == {"adjust", "count", "reorder"}
Step == [op : Op, row : Row, qty : Int]

ASSUME AbsentAssumption == Absent \notin Int
ASSUME NoWriteAssumption == NoWrite \notin Int /\ NoWrite # Absent
ASSUME OpeningAssumption == Opening \subseteq [Row -> Nat \cup {Absent}]
ASSUME RequestAssumption ==
  /\ Request \subseteq Seq(Step)
  /\ \A q \in Request : \A i \in 1 .. Len(q) : q[i].op = "count" => q[i].qty \in Nat

VARIABLES
  level,    \* level[r]: committed InventoryLevel.quantity, or Absent
  moved,    \* moved[r]: sum of the committed StockMovement.quantity of r
  work,     \* work[t][r]: quantity t has written and not committed; t locks r
  posted,   \* posted[t][r]: movements t has inserted and not committed
  request,  \* request[t]: the request t serves
  todo,     \* todo[t]: the steps of it still to run
  basis,    \* basis[t]: level.quantity as t's last upsert returned it
  pc,       \* pc[t]: where t is
  stale,    \* history: rows t overwrote from an outdated basis, uncommitted
  raced,    \* history: rows such a write has been committed to
  overlapped \* history: a transaction began while another was open

history  == <<stale, raced, overlapped>>
stockVars == <<level, moved, work, posted, request, todo, basis, pc, stale, raced, overlapped>>

Open == {"read", "insert", "act"}
Ended == {"committed", "aborted"}
PC == {"idle"} \cup Open \cup Ended

Qty(v) == IF v = Absent THEN 0 ELSE v
NoWrites == [r \in Row |-> NoWrite]
NoMoves  == [r \in Row |-> 0]

Current(t) == Head(todo[t])
Target(t)  == Current(t).row

(* What t's next statement sees in row r: its own write, else the          *)
(* committed row.                                                          *)
Sees(t, r) == IF work[t][r] # NoWrite THEN work[t][r] ELSE level[r]

(* adjustStock reads through the client it was given, `tx', so it sees its *)
(* own transaction's writes.                                               *)
ReadsOutsideTx(t, r) == level[r]
Reads(t, r) == Sees(t, r)

(* The quantity may reach zero but not pass it.                            *)
SufficientForSome(newQty) == newQty >= -1
Sufficient(newQty) == newQty >= 0

(* setReorder names no quantity in its update.                             *)
ResetsQuantity(v) == 0
KeepsQuantity(v) == Qty(v)

(* No other open transaction holds row r.                                  *)
Free(t, r) == \A u \in Tx \ {t} : work[u][r] = NoWrite

StockInit ==
  /\ level \in Opening
  /\ moved = [r \in Row |-> Qty(level[r])]
  /\ work = [t \in Tx |-> NoWrites]
  /\ posted = [t \in Tx |-> NoMoves]
  /\ request = [t \in Tx |-> <<>>]
  /\ todo = [t \in Tx |-> <<>>]
  /\ basis = [t \in Tx |-> 0]
  /\ pc = [t \in Tx |-> "idle"]
  /\ stale = [t \in Tx |-> {}]
  /\ raced = {}
  /\ overlapped = FALSE

-----------------------------------------------------------------------------
(* The operations.                                                         *)

(* A request reaches the service and opens a transaction ($transaction in  *)
(* manualAdjust and recordCount; setReorder is a statement of its own).    *)
Begin(t, steps) ==
  /\ pc[t] = "idle"
  /\ overlapped' = (overlapped \/ \E u \in Tx : pc[u] \in Open)
  /\ request' = [request EXCEPT ![t] = steps]
  /\ todo' = [todo EXCEPT ![t] = steps]
  /\ pc' = [pc EXCEPT ![t] = "read"]
  /\ UNCHANGED <<level, moved, work, posted, basis, stale, raced>>

(* Everything t wrote is discarded.                                        *)
Rollback(t) ==
  /\ work' = [work EXCEPT ![t] = NoWrites]
  /\ posted' = [posted EXCEPT ![t] = NoMoves]
  /\ stale' = [stale EXCEPT ![t] = {}]
  /\ todo' = [todo EXCEPT ![t] = <<>>]
  /\ pc' = [pc EXCEPT ![t] = "aborted"]
  /\ UNCHANGED <<level, moved, request, basis, raced, overlapped>>

(* A handler of another service has adjustStock run these steps next.      *)
Adjusting(t, steps) ==
  /\ todo' = [todo EXCEPT ![t] = steps]
  /\ UNCHANGED <<level, moved, work, posted, request, basis, pc, history>>

At(t, where) == pc[t] = where /\ todo[t] # <<>>

(* "Stock delta cannot be zero".                                           *)
ZeroDelta(t) ==
  /\ At(t, "read")
  /\ Current(t).op = "adjust" /\ Current(t).qty = 0
  /\ Rollback(t)

Upserting(t) ==
  /\ At(t, "read")
  /\ \/ Current(t).op = "adjust" /\ Current(t).qty # 0
     \/ Current(t).op = "count"

(* inventoryLevel.upsert with `update: {}' on a row that exists: with      *)
(* nothing to update it is a plain SELECT, which takes no lock.            *)
UpsertFound(t) ==
  /\ Upserting(t)
  /\ Reads(t, Target(t)) # Absent
  /\ basis' = [basis EXCEPT ![t] = Reads(t, Target(t))]
  /\ pc' = [pc EXCEPT ![t] = "act"]
  /\ UNCHANGED <<level, moved, work, posted, request, todo, stale, raced, overlapped>>

(* The same upsert finds no row: its INSERT comes next.                    *)
UpsertMissing(t) ==
  /\ Upserting(t)
  /\ Reads(t, Target(t)) = Absent
  /\ pc' = [pc EXCEPT ![t] = "insert"]
  /\ UNCHANGED <<level, moved, work, posted, request, todo, basis, stale, raced, overlapped>>

(* The INSERT waits for whoever holds the (storeId, variantId) key.        *)
UpsertInsert(t) ==
  /\ At(t, "insert")
  /\ Free(t, Target(t))
  /\ level[Target(t)] = Absent
  /\ work' = [work EXCEPT ![t][Target(t)] = 0]
  /\ basis' = [basis EXCEPT ![t] = 0]
  /\ pc' = [pc EXCEPT ![t] = "act"]
  /\ UNCHANGED <<level, moved, posted, request, todo, stale, raced, overlapped>>

(* The row was committed by another since: the unique index rejects the    *)
(* INSERT and the transaction fails.                                       *)
UpsertConflict(t) ==
  /\ At(t, "insert")
  /\ Free(t, Target(t))
  /\ level[Target(t)] # Absent
  /\ Rollback(t)

(* inventoryLevel.update writes the ABSOLUTE quantity computed from basis, *)
(* and stockMovement.create the signed delta.                              *)
AdjustWrite(t) ==
  LET r == Target(t)
      newQty == basis[t] + Current(t).qty
  IN /\ At(t, "act") /\ Current(t).op = "adjust"
     /\ Sufficient(newQty)
     /\ Free(t, r)
     /\ work' = [work EXCEPT ![t][r] = newQty]
     /\ posted' = [posted EXCEPT ![t][r] = @ + Current(t).qty]
     /\ stale' = [stale EXCEPT ![t] = IF Sees(t, r) = basis[t] THEN @ ELSE @ \cup {r}]
     /\ todo' = [todo EXCEPT ![t] = Tail(@)]
     /\ pc' = [pc EXCEPT ![t] = "read"]
     /\ UNCHANGED <<level, moved, request, basis, raced, overlapped>>

SkipInsufficient(t) ==
  /\ At(t, "act") /\ Current(t).op = "adjust"
  /\ ~Sufficient(basis[t] + Current(t).qty)
  /\ todo' = [todo EXCEPT ![t] = Tail(@)]
  /\ pc' = [pc EXCEPT ![t] = "read"]
  /\ UNCHANGED <<level, moved, work, posted, request, basis, stale, raced, overlapped>>

RetryInsufficient(t) ==
  /\ At(t, "act") /\ Current(t).op = "adjust"
  /\ ~Sufficient(basis[t] + Current(t).qty)
  /\ pc' = [pc EXCEPT ![t] = "read"]
  /\ UNCHANGED <<level, moved, work, posted, request, todo, basis, stale, raced, overlapped>>

(* "Insufficient stock".                                                   *)
Insufficient(t) ==
  /\ At(t, "act") /\ Current(t).op = "adjust"
  /\ ~Sufficient(basis[t] + Current(t).qty)
  /\ Rollback(t)

(* recordCount turns the count into a delta against the level it read, and *)
(* has adjustStock, which reads the level again, apply it.                 *)
CountCompare(t) ==
  LET delta == Current(t).qty - basis[t]
      adjust == [op |-> "adjust", row |-> Target(t), qty |-> delta]
  IN /\ At(t, "act") /\ Current(t).op = "count"
     /\ todo' = [todo EXCEPT ![t] = IF delta = 0 THEN Tail(@) ELSE <<adjust>> \o Tail(@)]
     /\ pc' = [pc EXCEPT ![t] = "read"]
     /\ UNCHANGED <<level, moved, work, posted, request, basis, stale, raced, overlapped>>

(* setReorder: INSERT ... ON CONFLICT DO UPDATE of the thresholds.  It     *)
(* locks the row, creates it with quantity 0 when there is none and leaves *)
(* the quantity of an existing row as it is.                               *)
SetReorder(t) ==
  LET r == Target(t)
  IN /\ At(t, "read") /\ Current(t).op = "reorder"
     /\ Free(t, r)
     /\ work' = [work EXCEPT ![t][r] = KeepsQuantity(Sees(t, r))]
     /\ todo' = [todo EXCEPT ![t] = Tail(@)]
     /\ UNCHANGED <<level, moved, posted, request, basis, pc, stale, raced, overlapped>>

Done(t) == pc[t] = "read" /\ todo[t] = <<>>

(* COMMIT: the writes become visible and the locks are released.           *)
Commit(t) ==
  /\ Done(t)
  /\ level' = [r \in Row |-> Sees(t, r)]
  /\ moved' = [r \in Row |-> moved[r] + posted[t][r]]
  /\ raced' = raced \cup stale[t]
  /\ work' = [work EXCEPT ![t] = NoWrites]
  /\ posted' = [posted EXCEPT ![t] = NoMoves]
  /\ stale' = [stale EXCEPT ![t] = {}]
  /\ pc' = [pc EXCEPT ![t] = "committed"]
  /\ UNCHANGED <<request, todo, basis, overlapped>>

(* The transaction fails where it stands: the connection or the server is  *)
(* lost, or the interactive transaction exceeds Prisma's time limit.       *)
Fail(t) == pc[t] \in Open /\ Rollback(t)

(* t's next statement needs the lock u holds.                              *)
Locking(t) ==
  \/ pc[t] = "insert"
  \/ At(t, "act") /\ Current(t).op = "adjust" /\ Sufficient(basis[t] + Current(t).qty)
  \/ At(t, "read") /\ Current(t).op = "reorder"
WaitsFor(t, u) == t # u /\ Locking(t) /\ work[u][Target(t)] # NoWrite

(* t is in a cycle of `waits': it belongs to a set of transactions each of  *)
(* which waits for one of them and is waited for by one of them.           *)
InCycle(t, waits) ==
  \E S \in SUBSET Tx :
    /\ t \in S
    /\ \A u \in S : (\E v \in S : <<u, v>> \in waits) /\ (\E v \in S : <<v, u>> \in waits)
InWaitCycle(t) == InCycle(t, {w \in Tx \X Tx : WaitsFor(w[1], w[2])})

(* PostgreSQL's deadlock detector fails a member of a cycle of waits.      *)
DeadlockAbort(t) == InWaitCycle(t) /\ Rollback(t)

(* The statements of one open transaction.                                 *)
Statement(t) ==
  \/ ZeroDelta(t)
  \/ UpsertFound(t)
  \/ UpsertMissing(t)
  \/ UpsertInsert(t)
  \/ UpsertConflict(t)
  \/ AdjustWrite(t)
  \/ Insufficient(t)
  \/ CountCompare(t)
  \/ SetReorder(t)
  \/ DeadlockAbort(t)

(* Every request has been answered.                                        *)
Terminating == (\A t \in Tx : pc[t] \in Ended) /\ UNCHANGED stockVars

InventoryNext ==
  \/ \E t \in Tx :
       \/ \E q \in Request : Begin(t, q)
       \/ Statement(t)
       \/ Commit(t)
       \/ Fail(t)
  \/ Terminating

InventorySpec == StockInit /\ [][InventoryNext]_stockVars

(* Node's event loop and PostgreSQL's lock queues run every statement that *)
(* can run; nothing obliges a client to send a request, or a connection to *)
(* fail.                                                                   *)
FairInventorySpec ==
  InventorySpec /\ \A t \in Tx : WF_stockVars(Statement(t) \/ Commit(t))

-----------------------------------------------------------------------------
(* The properties.                                                         *)

(* The types of the variables.                                             *)
StockTypeOK ==
  /\ level \in [Row -> Int \cup {Absent}]
  /\ moved \in [Row -> Int]
  /\ work \in [Tx -> [Row -> Int \cup {NoWrite}]]
  /\ posted \in [Tx -> [Row -> Int]]
  /\ request \in [Tx -> Seq(Step)]
  /\ todo \in [Tx -> Seq(Step)]
  /\ basis \in [Tx -> Int]
  /\ pc \in [Tx -> PC]
  /\ stale \in [Tx -> SUBSET Row]
  /\ raced \in SUBSET Row
  /\ overlapped \in BOOLEAN

(* However requests interleave, the quantity on hand that adjustStock      *)
(* leaves behind is never negative.                                        *)
NeverNegative == \A r \in Row : Qty(level[r]) >= 0

(* Once a level has been overwritten from an outdated read, it says no     *)
(* more about the ledger; every other level is the sum of its movements,   *)
(* through aborts, conflicts, counts and rows two requests create at once. *)
BooksBalance == \A r \in Row \ raced : Qty(level[r]) = moved[r]

(* "Atomically adjusts InventoryLevel and writes a StockMovement": every   *)
(* level is the sum of its movements.                                      *)
LevelIsSumOfMovements == \A r \in Row : Qty(level[r]) = moved[r]

(* As long as no request has overlapped another, no write was made from an *)
(* outdated read, even where one request adjusts a row twice.              *)
SerialRequestsNeverRace == ~overlapped => raced = {}

(* Every request that was accepted is answered: its transaction commits or *)
(* fails, whatever rows it and the others lock and in whatever order.      *)
RequestsEnd == \A t \in Tx : pc[t] \in Open ~> pc[t] \in Ended
=============================================================================
