---------------------------- MODULE StockProofs ----------------------------
(***************************************************************************)
(* For every set of transactions, rows and requests: the types of Stock,   *)
(* that no level is negative, that a level nobody overwrote from an        *)
(* outdated read is the sum of its movements, that serial requests never   *)
(* make such a write, and that the statements implement AtomicLedger.      *)
(***************************************************************************)
EXTENDS StockRefinement, SequenceTheorems, Sums, TLAPS

(* The row locks are exclusive.                                            *)
Exclusive ==
  \A t, u \in Tx : \A r \in Row :
    t # u => work[t][r] = NoWrite \/ work[u][r] = NoWrite

(* What a transaction did to a row it does not hold: nothing.              *)
OnlyLocked ==
  \A t \in Tx : \A r \in Row :
    work[t][r] = NoWrite => posted[t][r] = 0 /\ r \notin stale[t]

(* A pending write is never negative and, unless made from an outdated     *)
(* read, is the ledger with the pending movements.                         *)
WorkNatural ==
  \A t \in Tx : \A r \in Row : work[t][r] # NoWrite => work[t][r] >= 0
WorkBalances ==
  \A t \in Tx : \A r \in Row :
    work[t][r] # NoWrite /\ r \notin stale[t] /\ r \notin raced
      => work[t][r] = moved[r] + posted[t][r]

(* A transaction about to insert a row has not written it.                 *)
InsertsUnwritten ==
  \A t \in Tx : At(t, "insert") => work[t][Target(t)] = NoWrite

StockInv ==
  /\ StockTypeOK
  /\ NeverNegative
  /\ BooksBalance
  /\ Exclusive
  /\ OnlyLocked
  /\ WorkNatural
  /\ WorkBalances
  /\ InsertsUnwritten

-----------------------------------------------------------------------------
(* The head of a non-empty list of steps is a step, and the rest is a list *)
(* of steps: for every statement that works on the current step.           *)
LEMMA StepTypes ==
  ASSUME NEW s \in Seq(Step), s # <<>>
  PROVE  /\ Head(s) \in Step
         /\ Head(s).row \in Row
         /\ Head(s).qty \in Int
         /\ Tail(s) \in Seq(Step)
<1>1. Head(s) \in Step /\ Tail(s) \in Seq(Step)
  BY HeadTailProperties
<1> QED
  BY <1>1 DEF Step

(* Rollback leaves the committed data as it is and forgets what its        *)
(* transaction wrote, so it keeps the invariant.                           *)
LEMMA RollbackInv ==
  ASSUME StockInv, NEW t \in Tx, Rollback(t)
  PROVE  StockInv'
<1> USE NoWriteAssumption, AbsentAssumption
<1>1. StockTypeOK'
  BY DEF StockInv, StockTypeOK, Rollback, NoWrites, NoMoves, PC, Ended
<1>2. NeverNegative' /\ BooksBalance'
  BY DEF StockInv, NeverNegative, BooksBalance, Rollback
<1>3. Exclusive' /\ WorkNatural'
  BY DEF StockInv, StockTypeOK, Exclusive, WorkNatural, Rollback, NoWrites
<1>4. OnlyLocked' /\ WorkBalances'
  BY DEF StockInv, StockTypeOK, OnlyLocked, WorkBalances, Rollback, NoWrites, NoMoves
<1>5. InsertsUnwritten'
  BY DEF StockInv, StockTypeOK, InsertsUnwritten, At, Target, Current, Rollback
<1> QED
  BY <1>1, <1>2, <1>3, <1>4, <1>5 DEF StockInv

(* A write of q to row r by t, who alone may hold r, with movement d:      *)
(* the statements that write, adjustStock's update and the two inserts.    *)
LEMMA WriteInv ==
  ASSUME StockInv, NEW t \in Tx, NEW r \in Row, NEW q \in Nat, NEW d \in Int,
         NEW s \in SUBSET Row,
         Free(t, r), pc'[t] # "insert",
         s = stale[t] \/ s = stale[t] \cup {r},
         r \notin s => \/ work[t][r] # NoWrite /\ q = work[t][r] + d
                       \/ work[t][r] = NoWrite /\ q = Qty(level[r]) + d,
         work' = [work EXCEPT ![t][r] = q],
         posted' = [posted EXCEPT ![t][r] = @ + d],
         stale' = [stale EXCEPT ![t] = s],
         UNCHANGED <<level, moved, raced>>,
         \A u \in Tx \ {t} : pc'[u] = pc[u] /\ todo'[u] = todo[u],
         StockTypeOK'
  PROVE  StockInv'
<1> USE NoWriteAssumption, AbsentAssumption
<1>1. NeverNegative' /\ BooksBalance'
  BY DEF StockInv, NeverNegative, BooksBalance
<1>0. \A u \in Tx, x \in Row :
        /\ work'[u][x] = IF u = t /\ x = r THEN q ELSE work[u][x]
        /\ posted'[u][x] = IF u = t /\ x = r THEN posted[u][x] + d ELSE posted[u][x]
        /\ stale'[u] = IF u = t THEN s ELSE stale[u]
  BY DEF StockInv, StockTypeOK
<1>2. Exclusive'
  BY <1>0 DEF StockInv, Exclusive, Free
<1>3. OnlyLocked' /\ WorkNatural'
  BY <1>0 DEF StockInv, OnlyLocked, WorkNatural
<1>4. WorkBalances'
  <2> SUFFICES ASSUME NEW u \in Tx, NEW x \in Row,
                      work'[u][x] # NoWrite, x \notin stale'[u], x \notin raced
               PROVE  work'[u][x] = moved[x] + posted'[u][x]
    BY DEF WorkBalances
  <2>1. CASE u = t /\ x = r
    <3>1. /\ work'[t][r] = q
          /\ posted'[t][r] = posted[t][r] + d
          /\ r \notin s /\ r \notin stale[t]
          /\ moved[r] \in Int /\ posted[t][r] \in Int
      BY <2>1 DEF StockInv, StockTypeOK
    <3>2. CASE work[t][r] # NoWrite
      BY <2>1, <3>1, <3>2 DEF StockInv, StockTypeOK, WorkBalances
    <3>3. CASE work[t][r] = NoWrite
      <4>1. posted[t][r] = 0
        BY <3>3 DEF StockInv, OnlyLocked
      <4>2. Qty(level[r]) = moved[r]
        BY <2>1 DEF StockInv, BooksBalance
      <4> QED
        BY <2>1, <3>1, <3>3, <4>1, <4>2
    <3> QED
      BY <3>2, <3>3
  <2>2. CASE ~(u = t /\ x = r)
    <3>1. work'[u][x] = work[u][x] /\ posted'[u][x] = posted[u][x]
      BY <2>2 DEF StockInv, StockTypeOK
    <3>2. x \notin stale[u]
      BY <2>2 DEF StockInv, StockTypeOK
    <3> QED
      BY <3>1, <3>2 DEF StockInv, WorkBalances
  <2> QED
    BY <2>1, <2>2
<1>5. InsertsUnwritten'
  BY DEF StockInv, StockTypeOK, InsertsUnwritten, At, Target, Current
<1> QED
  BY <1>1, <1>2, <1>3, <1>4, <1>5 DEF StockInv

LEMMA StockInitInv == StockInit => StockInv
<1> SUFFICES ASSUME StockInit PROVE StockInv
  OBVIOUS
<1> USE NoWriteAssumption, AbsentAssumption, OpeningAssumption DEF StockInit
<1>1. StockTypeOK
  <2>1. overlapped \in BOOLEAN
    OBVIOUS
  <2>2. /\ level \in [Row -> Int \cup {Absent}]
        /\ moved \in [Row -> Int]
        /\ work \in [Tx -> [Row -> Int \cup {NoWrite}]]
        /\ posted \in [Tx -> [Row -> Int]]
        /\ basis \in [Tx -> Int]
        /\ pc \in [Tx -> PC]
    BY DEF NoWrites, NoMoves, PC, Qty
  <2>3. /\ request \in [Tx -> Seq(Step)]
        /\ todo \in [Tx -> Seq(Step)]
        /\ stale \in [Tx -> SUBSET Row]
        /\ raced \in SUBSET Row
    OBVIOUS
  <2> QED
    BY <2>1, <2>2, <2>3 DEF StockTypeOK
<1>2. NeverNegative /\ BooksBalance
  BY DEF NeverNegative, BooksBalance, Qty
<1>3. Exclusive /\ OnlyLocked /\ WorkNatural /\ WorkBalances /\ InsertsUnwritten
  BY DEF Exclusive, OnlyLocked, WorkNatural, WorkBalances, InsertsUnwritten, At,
         NoWrites, NoMoves
<1> QED
  BY <1>1, <1>2, <1>3 DEF StockInv

LEMMA CommitInv ==
  ASSUME StockInv, NEW t \in Tx, Commit(t)
  PROVE  StockInv'
<1> USE NoWriteAssumption, AbsentAssumption
<1>1. StockTypeOK'
  BY DEF StockInv, StockTypeOK, Commit, Sees, NoWrites, NoMoves, PC, Ended
<1>2. NeverNegative'
  BY DEF StockInv, StockTypeOK, NeverNegative, WorkNatural, Commit, Sees, Qty
<1>3. BooksBalance'
  <2> SUFFICES ASSUME NEW r \in Row, r \notin raced, r \notin stale[t]
               PROVE  Qty(Sees(t, r)) = moved[r] + posted[t][r]
    BY DEF Commit, BooksBalance
  <2>1. CASE work[t][r] = NoWrite
    BY <2>1 DEF StockInv, StockTypeOK, BooksBalance, OnlyLocked, Sees, Qty
  <2>2. CASE work[t][r] # NoWrite
    BY <2>2 DEF StockInv, StockTypeOK, WorkBalances, Sees, Qty
  <2> QED
    BY <2>1, <2>2
<1>4. Exclusive' /\ OnlyLocked' /\ WorkNatural'
  BY DEF StockInv, StockTypeOK, Exclusive, OnlyLocked, WorkNatural, Commit,
         NoWrites, NoMoves
<1>5. WorkBalances'
  <2> SUFFICES ASSUME NEW u \in Tx, NEW r \in Row,
                      work'[u][r] # NoWrite, r \notin stale'[u], r \notin raced'
               PROVE  work'[u][r] = moved'[r] + posted'[u][r]
    BY DEF WorkBalances
  <2>1. u # t
    BY DEF Commit, StockInv, StockTypeOK, NoWrites
  <2>2. /\ work'[u][r] = work[u][r] /\ posted'[u][r] = posted[u][r]
        /\ r \notin stale[u] /\ r \notin raced
    BY <2>1 DEF Commit, StockInv, StockTypeOK
  <2>3. posted[t][r] = 0
    BY <2>1, <2>2 DEF StockInv, Exclusive, OnlyLocked
  <2>4. moved'[r] = moved[r]
    BY <2>3 DEF Commit, StockInv, StockTypeOK
  <2> QED
    BY <2>2, <2>4 DEF StockInv, WorkBalances
<1>6. InsertsUnwritten'
  BY DEF StockInv, StockTypeOK, InsertsUnwritten, At, Target, Current, Commit
<1> QED
  BY <1>1, <1>2, <1>3, <1>4, <1>5, <1>6 DEF StockInv

LEMMA BeginInv ==
  ASSUME StockInv, NEW t \in Tx, NEW q \in Seq(Step), Begin(t, q)
  PROVE  StockInv'
<1>1. StockTypeOK'
  BY DEF StockInv, StockTypeOK, Begin, PC, Open
<1>2. /\ NeverNegative' /\ BooksBalance' /\ Exclusive' /\ OnlyLocked'
      /\ WorkNatural' /\ WorkBalances'
  BY DEF StockInv, NeverNegative, BooksBalance, Exclusive, OnlyLocked,
         WorkNatural, WorkBalances, Begin
<1>3. InsertsUnwritten'
  BY DEF StockInv, StockTypeOK, InsertsUnwritten, At, Target, Current, Begin
<1> QED
  BY <1>1, <1>2, <1>3 DEF StockInv

(* A service that has adjustStock run steps keeps the invariant of Stock.  *)
LEMMA AdjustingInv ==
  ASSUME StockInv, NEW t \in Tx, NEW q \in Seq(Step), pc[t] = "read", Adjusting(t, q)
  PROVE  StockInv'
<1>1. StockTypeOK'
  BY DEF StockInv, StockTypeOK, Adjusting, history
<1>2. /\ NeverNegative' /\ BooksBalance' /\ Exclusive' /\ OnlyLocked'
      /\ WorkNatural' /\ WorkBalances'
  BY DEF StockInv, NeverNegative, BooksBalance, Exclusive, OnlyLocked,
         WorkNatural, WorkBalances, Adjusting, history
<1>3. InsertsUnwritten'
  BY DEF StockInv, StockTypeOK, InsertsUnwritten, At, Target, Current, Adjusting
<1> QED
  BY <1>1, <1>2, <1>3 DEF StockInv

LEMMA StatementInv ==
  ASSUME StockInv, NEW t \in Tx, Statement(t)
  PROVE  StockInv'
<1> USE NoWriteAssumption, AbsentAssumption
<1>0. /\ StockTypeOK
      /\ todo[t] \in Seq(Step) /\ basis[t] \in Int /\ pc[t] \in PC
  BY DEF StockInv, StockTypeOK
<1>1. CASE ZeroDelta(t)
  BY <1>1, RollbackInv DEF ZeroDelta
<1>2. CASE UpsertConflict(t)
  BY <1>2, RollbackInv DEF UpsertConflict
<1>3. CASE Insufficient(t)
  BY <1>3, RollbackInv DEF Insufficient
<1>4. CASE DeadlockAbort(t)
  BY <1>4, RollbackInv DEF DeadlockAbort
<1>5. CASE UpsertFound(t) \/ UpsertMissing(t) \/ CountCompare(t)
  <2>1. todo[t] # <<>> /\ UNCHANGED <<level, moved, work, posted, stale, raced>>
    BY <1>5 DEF UpsertFound, UpsertMissing, CountCompare, Upserting, At
  <2>2. Head(todo[t]) \in Step /\ Target(t) \in Row /\ Current(t).qty \in Int
        /\ Tail(todo[t]) \in Seq(Step)
    BY <1>0, <2>1, StepTypes DEF Target, Current
  <2>3. StockTypeOK'
    <3>1. CASE UpsertFound(t)
      BY <1>0, <2>1, <2>2, <3>1 DEF StockTypeOK, UpsertFound, Reads, Sees, PC, Open
    <3>2. CASE UpsertMissing(t)
      BY <1>0, <2>1, <3>2 DEF StockTypeOK, UpsertMissing, PC, Open
    <3>3. CASE CountCompare(t)
      <4>1. [op |-> "adjust", row |-> Target(t), qty |-> Current(t).qty - basis[t]] \in Step
        BY <1>0, <2>2 DEF Step, Op
      <4> QED
        BY <1>0, <2>1, <2>2, <3>3, <4>1 DEF StockTypeOK, CountCompare, PC, Open
    <3> QED
      BY <1>5, <3>1, <3>2, <3>3
  <2>4. /\ NeverNegative' /\ BooksBalance' /\ Exclusive' /\ OnlyLocked'
        /\ WorkNatural' /\ WorkBalances'
    BY <2>1 DEF StockInv, NeverNegative, BooksBalance, Exclusive, OnlyLocked,
                WorkNatural, WorkBalances
  <2>5. InsertsUnwritten'
    <3> SUFFICES ASSUME NEW u \in Tx, At(u, "insert")'
                 PROVE  work'[u][Target(u)'] = NoWrite
      BY DEF InsertsUnwritten
    <3>1. CASE u = t
      BY <1>0, <1>5, <2>1, <2>2, <3>1
         DEF UpsertFound, UpsertMissing, CountCompare, StockTypeOK, At, Target,
             Current, Sees, Reads
    <3>2. CASE u # t
      BY <1>0, <1>5, <2>1, <3>2
         DEF UpsertFound, UpsertMissing, CountCompare, StockInv, StockTypeOK,
             InsertsUnwritten, At, Target, Current
    <3> QED
      BY <3>1, <3>2
  <2> QED
    BY <2>3, <2>4, <2>5 DEF StockInv
<1>6. CASE UpsertInsert(t)
  <2>1. todo[t] # <<>> /\ Target(t) \in Row
    BY <1>0, <1>6, StepTypes DEF UpsertInsert, At, Target, Current
  <2>2. work[t][Target(t)] = NoWrite /\ Target(t) \notin stale[t]
    BY <1>6, <2>1 DEF UpsertInsert, StockInv, InsertsUnwritten, OnlyLocked
  <2>3. StockTypeOK'
    BY <1>0, <1>6, <2>1 DEF UpsertInsert, StockTypeOK, PC, Open
  <2>4. posted' = [posted EXCEPT ![t][Target(t)] = @ + 0]
    BY <1>0, <1>6, <2>1 DEF UpsertInsert, StockTypeOK
  <2>5. stale' = [stale EXCEPT ![t] = stale[t]] /\ stale[t] \in SUBSET Row
    BY <1>0, <1>6 DEF UpsertInsert, StockTypeOK
  <2>6. pc'[t] # "insert" /\ \A u \in Tx \ {t} : pc'[u] = pc[u] /\ todo'[u] = todo[u]
    BY <1>0, <1>6 DEF UpsertInsert, StockTypeOK
  <2>7. Free(t, Target(t)) /\ UNCHANGED <<level, moved, raced>>
        /\ work' = [work EXCEPT ![t][Target(t)] = 0]
    BY <1>6 DEF UpsertInsert
  <2>8. work[t][Target(t)] = NoWrite /\ 0 = Qty(level[Target(t)]) + 0
    BY <1>6, <2>2 DEF UpsertInsert, Qty
  <2>9. 0 \in Nat /\ 0 \in Int
    OBVIOUS
  <2> QED
    BY <2>1, <2>3, <2>4, <2>5, <2>6, <2>7, <2>8, <2>9, WriteInv
<1>7. CASE AdjustWrite(t)
  <2> DEFINE r == Target(t)
             q == basis[t] + Current(t).qty
             s == IF Sees(t, r) = basis[t] THEN stale[t] ELSE stale[t] \cup {r}
  <2>1. todo[t] # <<>> /\ r \in Row /\ Current(t).qty \in Int
        /\ Tail(todo[t]) \in Seq(Step)
    BY <1>0, <1>7, StepTypes DEF AdjustWrite, At, Target, Current
  <2>2. q \in Nat /\ Free(t, r)
    BY <1>0, <1>7, <2>1 DEF AdjustWrite, Sufficient
  <2>3. s \in SUBSET Row /\ (s = stale[t] \/ s = stale[t] \cup {r})
    BY <1>0, <2>1 DEF StockTypeOK
  <2>4. r \notin s => \/ work[t][r] # NoWrite /\ q = work[t][r] + Current(t).qty
                      \/ work[t][r] = NoWrite /\ q = Qty(level[r]) + Current(t).qty
    BY <1>0, <2>1 DEF StockTypeOK, Sees, Qty
  <2>5. StockTypeOK'
    BY <1>0, <1>7, <2>1, <2>2, <2>3 DEF AdjustWrite, StockTypeOK, PC, Open
  <2>6. /\ work' = [work EXCEPT ![t][r] = q]
        /\ posted' = [posted EXCEPT ![t][r] = @ + Current(t).qty]
        /\ stale' = [stale EXCEPT ![t] = s]
        /\ UNCHANGED <<level, moved, raced>>
    BY <1>0, <1>7 DEF AdjustWrite, StockTypeOK
  <2>7. pc'[t] # "insert" /\ \A u \in Tx \ {t} : pc'[u] = pc[u] /\ todo'[u] = todo[u]
    BY <1>0, <1>7 DEF AdjustWrite, StockTypeOK
  <2> HIDE DEF r, q, s
  <2> QED
    BY <2>1, <2>2, <2>3, <2>4, <2>5, <2>6, <2>7, WriteInv
<1>8. CASE SetReorder(t)
  <2> DEFINE r == Target(t)
             q == Qty(Sees(t, r))
  <2>1. todo[t] # <<>> /\ r \in Row /\ Tail(todo[t]) \in Seq(Step)
    BY <1>0, <1>8, StepTypes DEF SetReorder, At, Target, Current
  <2>2. q \in Nat
    BY <1>0, <2>1 DEF StockInv, StockTypeOK, NeverNegative, WorkNatural, Sees, Qty
  <2>3. \/ work[t][r] # NoWrite /\ q = work[t][r] + 0
        \/ work[t][r] = NoWrite /\ q = Qty(level[r]) + 0
    BY <1>0, <2>1, <2>2 DEF StockTypeOK, Sees, Qty
  <2>4. StockTypeOK'
    BY <1>0, <1>8, <2>1, <2>2 DEF SetReorder, KeepsQuantity, StockTypeOK
  <2>5. /\ work' = [work EXCEPT ![t][r] = q]
        /\ posted' = [posted EXCEPT ![t][r] = @ + 0]
        /\ stale' = [stale EXCEPT ![t] = stale[t]] /\ stale[t] \in SUBSET Row
        /\ UNCHANGED <<level, moved, raced>>
    BY <1>0, <1>8, <2>1 DEF SetReorder, KeepsQuantity, StockTypeOK
  <2>6. /\ pc'[t] # "insert" /\ Free(t, r)
        /\ \A u \in Tx \ {t} : pc'[u] = pc[u] /\ todo'[u] = todo[u]
    BY <1>0, <1>8 DEF SetReorder, StockTypeOK, At
  <2>7. 0 \in Int
    OBVIOUS
  <2> HIDE DEF r, q
  <2> QED
    BY <2>1, <2>2, <2>3, <2>4, <2>5, <2>6, <2>7, WriteInv
<1> QED
  BY <1>1, <1>2, <1>3, <1>4, <1>5, <1>6, <1>7, <1>8 DEF Statement

LEMMA NextStockInv == StockInv /\ [InventoryNext]_stockVars => StockInv'
<1> SUFFICES ASSUME StockInv, [InventoryNext]_stockVars
             PROVE  StockInv'
  OBVIOUS
<1>1. ASSUME NEW t \in Tx, NEW q \in Request, Begin(t, q)
      PROVE  StockInv'
  BY <1>1, BeginInv, RequestAssumption
<1>2. ASSUME NEW t \in Tx, Statement(t)
      PROVE  StockInv'
  BY <1>2, StatementInv
<1>3. ASSUME NEW t \in Tx, Commit(t)
      PROVE  StockInv'
  BY <1>3, CommitInv
<1>4. ASSUME NEW t \in Tx, Fail(t)
      PROVE  StockInv'
  BY <1>4, RollbackInv DEF Fail
<1>5. CASE UNCHANGED stockVars
  BY <1>5 DEF stockVars, StockInv, StockTypeOK, NeverNegative, BooksBalance,
              Exclusive, OnlyLocked, WorkNatural, WorkBalances, InsertsUnwritten,
              At, Target, Current
<1> QED
  BY <1>1, <1>2, <1>3, <1>4, <1>5 DEF InventoryNext, Terminating

THEOREM StockInvariant == InventorySpec => []StockInv
BY StockInitInv, NextStockInv, PTL DEF InventorySpec

(* The variables of the inventory service keep their types.                *)
THEOREM StockTypes == InventorySpec => []StockTypeOK
<1>1. StockInv => StockTypeOK
  BY DEF StockInv
<1> QED
  BY <1>1, StockInvariant, PTL

(* No interleaving of adjustments, counts and failures leaves a negative   *)
(* quantity on hand.                                                       *)
THEOREM StockNeverNegative == InventorySpec => []NeverNegative
<1>1. StockInv => NeverNegative
  BY DEF StockInv
<1> QED
  BY <1>1, StockInvariant, PTL

(* A level that no write from an outdated read was committed to is the sum *)
(* of its movements.                                                       *)
THEOREM StockBooksBalance == InventorySpec => []BooksBalance
<1>1. StockInv => BooksBalance
  BY DEF StockInv
<1> QED
  BY <1>1, StockInvariant, PTL

-----------------------------------------------------------------------------
(* Serial requests.  A transaction alone writes from what it still sees.   *)
Alone == \A t, u \in Tx : pc[t] \in Open /\ pc[u] \in Open => t = u
NothingStale == raced = {} /\ \A t \in Tx : stale[t] = {}
BasisCurrent == \A t \in Tx : At(t, "act") => basis[t] = Sees(t, Target(t))

Serial == Alone /\ NothingStale /\ BasisCurrent
SerialInv == ~overlapped => Serial

(* A statement of t is made while t is open, moves no program counter but  *)
(* its own and begins nothing.                                             *)
LEMMA StatementOwn ==
  ASSUME StockTypeOK, NEW t \in Tx, Statement(t) \/ Commit(t) \/ Fail(t)
  PROVE  /\ pc[t] \in Open
         /\ overlapped' = overlapped
         /\ \A u \in Tx \ {t} : pc'[u] = pc[u] /\ stale'[u] = stale[u]
<1> USE DEF StockTypeOK, Rollback, Open, At, Done
<1>1. CASE Commit(t) \/ Fail(t)
  BY <1>1 DEF Commit, Fail
<1>2. CASE ZeroDelta(t) \/ UpsertConflict(t) \/ Insufficient(t)
  BY <1>2 DEF ZeroDelta, UpsertConflict, Insufficient
<1>3. CASE DeadlockAbort(t)
  <2>1. PICK u \in Tx : WaitsFor(t, u)
    BY <1>3 DEF DeadlockAbort, InWaitCycle, InCycle
  <2>2. pc[t] \in Open
    BY <2>1 DEF WaitsFor, Locking
  <2> QED
    BY <1>3, <2>2 DEF DeadlockAbort
<1>4. CASE UpsertFound(t) \/ UpsertMissing(t) \/ UpsertInsert(t)
  BY <1>4 DEF UpsertFound, UpsertMissing, UpsertInsert, Upserting
<1>5. CASE AdjustWrite(t) \/ CountCompare(t) \/ SetReorder(t)
  BY <1>5 DEF AdjustWrite, CountCompare, SetReorder
<1> QED
  BY <1>1, <1>2, <1>3, <1>4, <1>5 DEF Statement

LEMMA SerialStep ==
  ASSUME StockTypeOK, Serial, NEW t \in Tx, Statement(t) \/ Commit(t) \/ Fail(t)
  PROVE  Serial'
<1>1. /\ pc[t] \in Open
      /\ \A u \in Tx \ {t} : pc'[u] = pc[u] /\ stale'[u] = stale[u]
  BY StatementOwn
<1>2. \A u \in Tx \ {t} : pc'[u] \notin Open
  BY <1>1 DEF Serial, Alone
<1>3. Alone'
  BY <1>2 DEF Alone
<1>4. SUFFICES raced' = {} /\ stale'[t] = {}
               /\ (At(t, "act")' => basis'[t] = Sees(t, Target(t))')
  <2>1. \A u \in Tx \ {t} : ~At(u, "act")'
    BY <1>2 DEF At, Open
  <2> QED
    BY <1>1, <1>3, <1>4, <2>1 DEF Serial, NothingStale, BasisCurrent
<1>5. stale[t] = {} /\ raced = {}
  BY DEF Serial, NothingStale
<1> USE DEF StockTypeOK
<1>6. ASSUME Rollback(t)
      PROVE  raced' = {} /\ stale'[t] = {} /\ ~At(t, "act")'
  BY <1>5, <1>6 DEF Rollback, At
<1>7. CASE Fail(t) \/ ZeroDelta(t) \/ UpsertConflict(t) \/ Insufficient(t) \/ DeadlockAbort(t)
  BY <1>6, <1>7 DEF Fail, ZeroDelta, UpsertConflict, Insufficient, DeadlockAbort
<1>8. CASE Commit(t)
  BY <1>5, <1>8 DEF Commit, At
<1>9. CASE UpsertFound(t)
  BY <1>5, <1>9 DEF UpsertFound, Reads, Sees, Target, Current
<1>10. CASE UpsertMissing(t) \/ CountCompare(t) \/ SetReorder(t)
  BY <1>5, <1>10 DEF UpsertMissing, CountCompare, SetReorder, At
<1>11. CASE UpsertInsert(t)
  <2>1. todo[t] # <<>> /\ Target(t) \in Row
    BY <1>11, StepTypes DEF UpsertInsert, At, Target, Current
  <2> QED
    BY <1>5, <1>11, <2>1, NoWriteAssumption DEF UpsertInsert, Sees, Target, Current
<1>12. CASE AdjustWrite(t)
  <2>1. Sees(t, Target(t)) = basis[t]
    BY <1>12 DEF Serial, BasisCurrent, AdjustWrite
  <2> QED
    BY <1>5, <1>12, <2>1 DEF AdjustWrite, At
<1> QED
  BY <1>7, <1>8, <1>9, <1>10, <1>11, <1>12 DEF Statement

(* A request that begins while none is open begins alone.                  *)
LEMMA SerialBegin ==
  ASSUME StockTypeOK, SerialInv, NEW t \in Tx, NEW q, Begin(t, q), ~overlapped'
  PROVE  Serial'
<1>1. ~overlapped /\ \A u \in Tx : pc[u] \notin Open
  BY DEF Begin
<1>2. \A u \in Tx \ {t} : pc'[u] \notin Open
  BY <1>1 DEF Begin, StockTypeOK
<1>3. pc'[t] = "read" /\ UNCHANGED <<stale, raced>>
  BY DEF Begin, StockTypeOK
<1>4. \A u \in Tx : ~At(u, "act")'
  BY <1>2, <1>3 DEF At, Open
<1> QED
  BY <1>1, <1>2, <1>3, <1>4 DEF SerialInv, Serial, Alone, NothingStale, BasisCurrent

LEMMA NextSerialInv ==
  StockTypeOK /\ SerialInv /\ [InventoryNext]_stockVars => SerialInv'
<1> SUFFICES ASSUME StockTypeOK, SerialInv, [InventoryNext]_stockVars, ~overlapped'
             PROVE  Serial'
  BY DEF SerialInv
<1>1. ASSUME NEW t \in Tx, NEW q \in Request, Begin(t, q)
      PROVE  Serial'
  BY <1>1, SerialBegin
<1>2. ASSUME NEW t \in Tx, Statement(t) \/ Commit(t) \/ Fail(t)
      PROVE  Serial'
  <2>1. Serial
    BY <1>2, StatementOwn DEF SerialInv
  <2> QED
    BY <1>2, <2>1, SerialStep
<1>3. CASE UNCHANGED stockVars
  BY <1>3 DEF stockVars, SerialInv, Serial, Alone, NothingStale, BasisCurrent, At, Sees,
              Target, Current
<1> QED
  BY <1>1, <1>2, <1>3 DEF InventoryNext, Terminating

LEMMA InitSerialInv == StockInit => SerialInv
BY DEF StockInit, SerialInv, Serial, Alone, NothingStale, BasisCurrent, At, Open

(* Requests that have not overlapped never wrote from an outdated read.    *)
THEOREM StockSerial == InventorySpec => []SerialRequestsNeverRace
<1>1. SerialInv => SerialRequestsNeverRace
  BY DEF SerialInv, Serial, NothingStale, SerialRequestsNeverRace
<1> QED
  BY <1>1, NextSerialInv, InitSerialInv, StockTypes, PTL DEF InventorySpec

(* So until requests overlap every level is the sum of its movements: what *)
(* "atomically adjusts" promises, and overlapping requests break.          *)
THEOREM StockSerialBooks == InventorySpec => [](~overlapped => LevelIsSumOfMovements)
<1>1. BooksBalance /\ SerialRequestsNeverRace => (~overlapped => LevelIsSumOfMovements)
  BY DEF BooksBalance, SerialRequestsNeverRace, LevelIsSumOfMovements
<1> QED
  BY <1>1, StockBooksBalance, StockSerial, PTL

-----------------------------------------------------------------------------
(* The steps of a request as one sum: what they would change row r by.     *)
Moves(step, r) == IF step.row = r THEN step.qty ELSE 0
Effect(steps, r) ==
  SumFunctionOnSet([i \in DOMAIN steps |-> Moves(steps[i], r)], DOMAIN steps)

LEMMA EffectTypes ==
  ASSUME NEW s \in Seq(Step), NEW r
  PROVE  /\ Effect(s, r) \in Int
         /\ IsFiniteSet(1 .. Len(s)) /\ DOMAIN s = 1 .. Len(s) /\ Len(s) \in Nat
         /\ \A i \in 1 .. Len(s) : Moves(s[i], r) \in Int
         /\ IntValued([i \in 1 .. Len(s) |-> Moves(s[i], r)], 1 .. Len(s))
<1>1. DOMAIN s = 1 .. Len(s) /\ Len(s) \in Nat /\ \A i \in 1 .. Len(s) : s[i] \in Step
  OBVIOUS
<1>2. \A i \in 1 .. Len(s) : Moves(s[i], r) \in Int
  BY <1>1 DEF Moves, Step
<1>3. IntValued([i \in 1 .. Len(s) |-> Moves(s[i], r)], 1 .. Len(s))
  BY <1>2 DEF IntValued
<1>4. IsFiniteSet(1 .. Len(s))
  BY <1>1, FS_Interval
<1>5. SumFunctionOnSet([i \in 1 .. Len(s) |-> Moves(s[i], r)], 1 .. Len(s)) \in Int
  BY <1>3, <1>4, SumInt
<1> QED
  BY <1>1, <1>2, <1>3, <1>4, <1>5 DEF Effect

LEMMA EffectEmpty == ASSUME NEW r PROVE Effect(<<>>, r) = 0
<1>1. DOMAIN <<>> = {}
  OBVIOUS
<1> QED
  BY <1>1, SumEmpty DEF Effect

LEMMA EffectConcat ==
  ASSUME NEW s \in Seq(Step), NEW z \in Seq(Step), NEW r
  PROVE  Effect(s \o z, r) = Effect(s, r) + Effect(z, r)
<1> DEFINE f == [i \in DOMAIN s |-> Moves(s[i], r)]
           g == [i \in DOMAIN z |-> Moves(z[i], r)]
           h == [i \in DOMAIN (s \o z) |-> Moves((s \o z)[i], r)]
<1>1. /\ DOMAIN s = 1 .. Len(s) /\ DOMAIN z = 1 .. Len(z)
      /\ Len(s) \in Nat /\ Len(z) \in Nat
      /\ IntValued(f, 1 .. Len(s)) /\ IntValued(g, 1 .. Len(z))
  BY EffectTypes
<1>2. DOMAIN (s \o z) = 1 .. Len(s) + Len(z)
  OBVIOUS
<1>3. \A i \in 1 .. Len(s) : h[i] = f[i]
  OBVIOUS
<1>4. \A i \in 1 .. Len(z) : h[Len(s) + i] = g[i]
  OBVIOUS
<1> HIDE DEF f, g, h
<1>5. SumFunctionOnSet(h, 1 .. Len(s) + Len(z))
        = SumFunctionOnSet(f, 1 .. Len(s)) + SumFunctionOnSet(g, 1 .. Len(z))
  BY <1>1, <1>3, <1>4, SumConcat
<1> QED
  BY <1>1, <1>2, <1>5 DEF Effect, f, g, h

LEMMA EffectOne ==
  ASSUME NEW step \in Step, NEW r
  PROVE  Effect(<<step>>, r) = Moves(step, r)
<1> DEFINE f == [i \in {1} |-> Moves(<<step>>[i], r)]
<1>1. DOMAIN <<step>> = {1} /\ f[1] = Moves(step, r) /\ Moves(step, r) \in Int
  BY DEF Moves, Step
<1>2. SumFunctionOnSet(f, {1}) = f[1]
  <2> HIDE DEF f
  <2> QED
    BY <1>1, SumOne
<1> QED
  BY <1>1, <1>2 DEF Effect

LEMMA EffectTail ==
  ASSUME NEW s \in Seq(Step), s # <<>>, NEW r
  PROVE  Effect(s, r) = Moves(Head(s), r) + Effect(Tail(s), r)
<1>1. Head(s) \in Step /\ Tail(s) \in Seq(Step) /\ s = <<Head(s)>> \o Tail(s)
  BY HeadTailProperties
<1>2. <<Head(s)>> \in Seq(Step)
  BY <1>1
<1>3. Effect(<<Head(s)>> \o Tail(s), r) = Effect(<<Head(s)>>, r) + Effect(Tail(s), r)
  BY <1>1, <1>2, EffectConcat
<1>4. Effect(<<Head(s)>> \o Tail(s), r) = Effect(s, r)
  BY <1>1, Zenon
<1> QED
  BY <1>1, <1>3, <1>4, EffectOne

(* adjustStock posts what it does: until t ends, what it has posted and    *)
(* what its remaining adjustments would post is the same sum.              *)
Adjusts(steps) == \A i \in 1 .. Len(steps) : steps[i].op = "adjust"

LEMMA StatementEffect ==
  ASSUME StockTypeOK, NEW t \in Tx, Statement(t), Adjusts(todo[t]), pc'[t] # "aborted"
  PROVE  /\ \A r \in Row : posted'[t][r] + Effect(todo'[t], r) = posted[t][r] + Effect(todo[t], r)
         /\ Adjusts(todo'[t]) /\ todo'[t] \in Seq(Step) /\ posted'[t] \in [Row -> Int]
         /\ moved' = moved /\ pc'[t] \in Open
         /\ \A u \in Tx \ {t} : posted'[u] = posted[u] /\ todo'[u] = todo[u]
<1>0. todo[t] \in Seq(Step) /\ posted[t] \in [Row -> Int]
  BY DEF StockTypeOK
<1>1. ~Rollback(t)
  BY DEF StockTypeOK, Rollback
<1>2. CASE UpsertFound(t) \/ UpsertMissing(t) \/ UpsertInsert(t)
  <2>1. UNCHANGED <<moved, posted, todo>> /\ pc'[t] \in {"act", "insert"}
    BY <1>2 DEF UpsertFound, UpsertMissing, UpsertInsert, StockTypeOK
  <2> QED
    BY <1>0, <2>1 DEF Open
<1>3. CASE AdjustWrite(t)
  <2>1. todo[t] # <<>>
    BY <1>3 DEF AdjustWrite, At
  <2>2. /\ Head(todo[t]) \in Step /\ Tail(todo[t]) \in Seq(Step) /\ Head(todo[t]).qty \in Int
        /\ Head(todo[t]).row \in Row
        /\ Len(Tail(todo[t])) = Len(todo[t]) - 1
        /\ \A i \in 1 .. Len(Tail(todo[t])) : Tail(todo[t])[i] = todo[t][i + 1]
    BY <1>0, <2>1, StepTypes, HeadTailProperties
  <2>3. /\ posted' = [posted EXCEPT ![t][Head(todo[t]).row] = @ + Head(todo[t]).qty]
        /\ todo' = [todo EXCEPT ![t] = Tail(todo[t])]
        /\ moved' = moved /\ pc'[t] = "read"
    BY <1>3 DEF AdjustWrite, Target, Current, StockTypeOK
  <2>4. /\ todo'[t] = Tail(todo[t])
        /\ \A u \in Tx \ {t} : posted'[u] = posted[u] /\ todo'[u] = todo[u]
        /\ \A r \in Row : posted'[t][r] = posted[t][r] + Moves(Head(todo[t]), r)
        /\ posted'[t] \in [Row -> Int]
    BY <1>0, <2>2, <2>3 DEF StockTypeOK, Moves
  <2>5. ASSUME NEW r \in Row
        PROVE  posted'[t][r] + Effect(todo'[t], r) = posted[t][r] + Effect(todo[t], r)
    <3>1. Effect(todo[t], r) = Moves(Head(todo[t]), r) + Effect(Tail(todo[t]), r)
      BY <1>0, <2>1, EffectTail
    <3>2. Effect(Tail(todo[t]), r) \in Int
      BY <2>2, EffectTypes
    <3>4. Moves(Head(todo[t]), r) \in Int
      BY <2>2 DEF Moves
    <3>3. Effect(todo'[t], r) = Effect(Tail(todo[t]), r)
      BY <2>4
    <3> QED
      BY <1>0, <2>4, <3>1, <3>2, <3>3, <3>4
  <2>6. Adjusts(todo'[t])
    <3>1. \A i \in 1 .. Len(Tail(todo[t])) : i + 1 \in 1 .. Len(todo[t])
      BY <1>0, <2>2
    <3> QED
      BY <2>2, <2>4, <3>1 DEF Adjusts
  <2> QED
    BY <2>2, <2>3, <2>4, <2>5, <2>6 DEF Open
<1>4. CASE CountCompare(t) \/ SetReorder(t)
  <2>1. todo[t] # <<>> /\ Head(todo[t]).op # "adjust"
    BY <1>4 DEF CountCompare, SetReorder, At, Current
  <2>2. Head(todo[t]) = todo[t][1] /\ 1 \in 1 .. Len(todo[t])
    BY <1>0, <2>1
  <2> QED
    BY <2>1, <2>2 DEF Adjusts
<1> QED
  BY <1>1, <1>2, <1>3, <1>4
     DEF Statement, ZeroDelta, UpsertConflict, Insufficient, DeadlockAbort

-----------------------------------------------------------------------------
(* The refinement of AtomicLedger.                                         *)

(* What a request still has to post on row r, as one sum with the          *)
(* quantities of counts and reorders erased.                               *)
Erased(step) == [step EXCEPT !.qty = IF step.op = "adjust" THEN step.qty ELSE 0]
Adjustments(s) == [i \in 1 .. Len(s) |-> Erased(s[i])]
Posts(step, r) == IF step.op = "adjust" /\ step.row = r THEN step.qty ELSE 0

LEMMA LedgerSum ==
  ASSUME NEW f, NEW S
  PROVE  Ledger!SumFunctionOnSet(f, S) = SumFunctionOnSet(f, S)
BY Zenon DEF SumFunctionOnSet, FoldFunctionOnSet, MapThenFoldSet,
             Ledger!SumFunctionOnSet, Ledger!FoldFunctionOnSet, Ledger!MapThenFoldSet

LEMMA AdjustmentsTotal ==
  ASSUME NEW s \in Seq(Step), NEW r
  PROVE  /\ Adjustments(s) \in Seq(Step)
         /\ Ledger!Total(s, r) = Effect(Adjustments(s), r)
         /\ Ledger!Total(s, r) \in Int
<1>1. DOMAIN s = 1 .. Len(s) /\ Len(s) \in Nat /\ \A i \in 1 .. Len(s) : s[i] \in Step
  OBVIOUS
<1>2. \A i \in 1 .. Len(s) : Erased(s[i]) \in Step
  BY <1>1 DEF Erased, Step
<1>3. /\ Adjustments(s) \in Seq(Step) /\ Len(Adjustments(s)) = Len(s) /\ DOMAIN Adjustments(s) = 1 .. Len(s)
      /\ \A i \in 1 .. Len(s) : Adjustments(s)[i] = Erased(s[i])
  BY <1>1, <1>2 DEF Adjustments
<1> DEFINE f == [i \in DOMAIN s |-> s[i].qty]
           g == [i \in DOMAIN Adjustments(s) |-> Moves(Adjustments(s)[i], r)]
           S == DOMAIN Adjustments(s)
           T == {i \in DOMAIN s : s[i].op = "adjust" /\ s[i].row = r}
<1>4. T \in SUBSET S /\ S = 1 .. Len(s)
  BY <1>1, <1>3
<1>5. (\A i \in T : g[i] = f[i]) /\ (\A i \in T : f[i] \in Int)
  BY <1>1, <1>3 DEF Moves, Erased, Step
<1>6. \A i \in S \ T : g[i] = 0
  BY <1>1, <1>3 DEF Moves, Erased, Step
<1>7. IsFiniteSet(S)
  BY <1>1, <1>4, FS_Interval
<1> HIDE DEF f, g, S, T
<1>8. IntValued(f, T)
  BY <1>5 DEF IntValued
<1>9. SumFunctionOnSet(g, S) = SumFunctionOnSet(f, T)
  <2>1. (\A x \in T : g[x] = f[x]) /\ T \in SUBSET S
    BY <1>4, <1>5
  <2> QED
    BY ONLY <1>6, <1>7, <1>8, <2>1, SumWhere
<1>10. Ledger!Total(s, r) = SumFunctionOnSet(f, T)
  BY LedgerSum DEF Ledger!Total, f, T
<1>11. Effect(Adjustments(s), r) = SumFunctionOnSet(g, S)
  BY DEF Effect, g, S
<1> QED
  BY <1>3, <1>9, <1>10, <1>11, EffectTypes

LEMMA TotalEmpty == ASSUME NEW r PROVE Ledger!Total(<<>>, r) = 0
<1>1. <<>> \in Seq(Step) /\ Adjustments(<<>>) = <<>>
  BY DEF Adjustments
<1> QED
  BY <1>1, AdjustmentsTotal, EffectEmpty

LEMMA TotalTail ==
  ASSUME NEW s \in Seq(Step), s # <<>>, NEW r
  PROVE  /\ Ledger!Total(s, r) = Posts(Head(s), r) + Ledger!Total(Tail(s), r)
         /\ Ledger!Total(Tail(s), r) \in Int /\ Posts(Head(s), r) \in Int
<1>1. Head(s) \in Step /\ Tail(s) \in Seq(Step)
  BY StepTypes
<1>2. Adjustments(s) \in Seq(Step) /\ Adjustments(Tail(s)) \in Seq(Step)
  BY <1>1, AdjustmentsTotal
<1>3. Len(s) \in Nat \ {0} /\ Len(Tail(s)) = Len(s) - 1
  BY HeadTailProperties
<1>4. Adjustments(s) # <<>> /\ Len(Adjustments(s)) = Len(s)
  BY <1>3 DEF Adjustments
<1>5. Head(Adjustments(s)) = Erased(Head(s))
  BY <1>2, <1>3, <1>4 DEF Adjustments
<1>6. Tail(Adjustments(s)) = Adjustments(Tail(s))
  <2>1. Tail(Adjustments(s)) \in Seq(Step) /\ Len(Tail(Adjustments(s))) = Len(s) - 1
    BY <1>2, <1>4, HeadTailProperties
  <2>2. Len(Adjustments(Tail(s))) = Len(s) - 1
    BY <1>3 DEF Adjustments
  <2>3. \A i \in 1 .. Len(s) - 1 : Tail(Adjustments(s))[i] = Adjustments(Tail(s))[i]
    <3> TAKE i \in 1 .. Len(s) - 1
    <3>1. i + 1 \in 1 .. Len(s)
      BY <1>3
    <3>2. Tail(Adjustments(s))[i] = Adjustments(s)[i + 1] /\ Tail(s)[i] = s[i + 1]
      BY <1>2, <1>3, <1>4
    <3> QED
      BY <1>3, <3>1, <3>2 DEF Adjustments
  <2> QED
    BY <1>2, <2>1, <2>2, <2>3, SeqEqual
<1>7. Moves(Erased(Head(s)), r) = Posts(Head(s), r) /\ Posts(Head(s), r) \in Int
  BY <1>1 DEF Moves, Erased, Posts, Step
<1>8. Effect(Adjustments(s), r) = Moves(Erased(Head(s)), r) + Effect(Adjustments(Tail(s)), r)
  BY <1>2, <1>4, <1>5, <1>6, EffectTail
<1>9. /\ Ledger!Total(s, r) = Effect(Adjustments(s), r)
      /\ Ledger!Total(Tail(s), r) = Effect(Adjustments(Tail(s)), r)
      /\ Ledger!Total(Tail(s), r) \in Int
  BY <1>1, AdjustmentsTotal
<1> QED
  BY <1>7, <1>8, <1>9

-----------------------------------------------------------------------------
(* Every count still to be made is one the request asked for; on the other *)
(* rows, what t has posted and what it has still to post is what it was    *)
(* asked to.                                                               *)
Accounted(t) ==
  /\ \A i \in 1 .. Len(todo[t]) :
       todo[t][i].op = "count" => todo[t][i].row \in Ledger!Counted(request[t])
  /\ \A r \in Row \ Ledger!Counted(request[t]) :
       posted[t][r] + Ledger!Total(todo[t], r) = Ledger!Total(request[t], r)

AccountedInv ==
  \A t \in Tx :
    /\ pc[t] = "idle" => \A r \in Row : posted[t][r] = 0
    /\ pc[t] \in Open => Accounted(t)

LEMMA AccountedInit == StockInit => AccountedInv
<1> SUFFICES ASSUME StockInit, NEW t \in Tx
             PROVE  (\A r \in Row : posted[t][r] = 0) /\ pc[t] = "idle"
  BY DEF AccountedInv, Open
<1> QED
  BY DEF StockInit, NoMoves

(* A step that leaves what a transaction posts alone keeps what it owes.   *)
LEMMA AccountedKept ==
  ASSUME NEW t \in Tx, UNCHANGED <<posted[t], todo[t], request[t]>>
  PROVE  Accounted(t)' <=> Accounted(t)
BY DEF Accounted

(* The rest of a list of steps has its counts among those of the list.     *)
LEMMA RestOfSteps ==
  ASSUME NEW s \in Seq(Step), s # <<>>, NEW R,
         \A i \in 1 .. Len(s) : s[i].op = "count" => s[i].row \in R
  PROVE  /\ Head(s) \in Step /\ Tail(s) \in Seq(Step)
         /\ Head(s).op = "count" => Head(s).row \in R
         /\ \A i \in 1 .. Len(Tail(s)) : Tail(s)[i].op = "count" => Tail(s)[i].row \in R
<1>1. Head(s) \in Step /\ Tail(s) \in Seq(Step) /\ Head(s) = s[1] /\ 1 \in 1 .. Len(s)
  BY StepTypes
<1>2. ASSUME NEW i \in 1 .. Len(Tail(s))
      PROVE  i + 1 \in 1 .. Len(s) /\ Tail(s)[i] = s[i + 1]
  OBVIOUS
<1> QED
  BY <1>1, <1>2

(* The statements of t: they post what they take off the list, and a count *)
(* becomes an adjustment of a row that is counted.                         *)
LEMMA AccountedStatement ==
  ASSUME StockTypeOK, NEW t \in Tx, Accounted(t), Statement(t), pc'[t] # "aborted"
  PROVE  Accounted(t)' /\ moved' = moved /\ request' = request /\ pc'[t] \in Open
<1>0. todo[t] \in Seq(Step) /\ posted[t] \in [Row -> Int]
  BY DEF StockTypeOK
<1>1. ~Rollback(t)
  BY DEF StockTypeOK, Rollback
<1>2. CASE UpsertFound(t) \/ UpsertMissing(t) \/ UpsertInsert(t)
  <2>1. UNCHANGED <<moved, request, posted, todo>> /\ pc'[t] \in {"act", "insert"}
    BY <1>2 DEF UpsertFound, UpsertMissing, UpsertInsert, StockTypeOK
  <2> QED
    BY <2>1 DEF Open, Accounted
<1> DEFINE s == todo[t]
           R == Ledger!Counted(request[t])
<1>3. ASSUME request' = request, moved' = moved, pc'[t] = "read", s # <<>>,
             todo'[t] \in Seq(Step),
             \A i \in 1 .. Len(todo'[t]) : todo'[t][i].op = "count" => todo'[t][i].row \in R,
             \A r \in Row \ R :
               posted'[t][r] + Ledger!Total(todo'[t], r) = posted[t][r] + Ledger!Total(s, r)
      PROVE  Accounted(t)' /\ moved' = moved /\ request' = request /\ pc'[t] \in Open
  <2>1. Ledger!Counted(request[t])' = Ledger!Counted(request[t])
    BY <1>3 DEF Ledger!Counted
  <2>2. \A r \in Row : Ledger!Total(request[t], r)' = Ledger!Total(request[t], r)
    BY <1>3 DEF Ledger!Total
  <2>3. \A r \in Row : Ledger!Total(todo[t], r)' = Ledger!Total(todo'[t], r)
    BY DEF Ledger!Total
  <2> QED
    BY <1>3, <2>1, <2>2, <2>3 DEF Accounted, Open
<1>4. \A i \in 1 .. Len(s) : s[i].op = "count" => s[i].row \in R
  BY DEF Accounted
<1> HIDE DEF R
<1>5. ASSUME s # <<>>
      PROVE  /\ Head(s) \in Step /\ Tail(s) \in Seq(Step)
             /\ Head(s).op = "count" => Head(s).row \in R
             /\ \A i \in 1 .. Len(Tail(s)) : Tail(s)[i].op = "count" => Tail(s)[i].row \in R
             /\ \A r \in Row : /\ Ledger!Total(s, r) = Posts(Head(s), r) + Ledger!Total(Tail(s), r)
                              /\ Ledger!Total(Tail(s), r) \in Int /\ Posts(Head(s), r) \in Int
  <2>1. \A r \in Row : /\ Ledger!Total(s, r) = Posts(Head(s), r) + Ledger!Total(Tail(s), r)
                      /\ Ledger!Total(Tail(s), r) \in Int /\ Posts(Head(s), r) \in Int
    BY <1>0, <1>5, TotalTail
  <2> QED
    BY ONLY <1>0, <1>4, <1>5, <2>1, RestOfSteps
<1>6. CASE AdjustWrite(t)
  <2>1. s # <<>> /\ Head(s).op = "adjust"
    BY <1>6 DEF AdjustWrite, At, Current
  <2>2. /\ posted' = [posted EXCEPT ![t][Head(s).row] = @ + Head(s).qty]
        /\ todo' = [todo EXCEPT ![t] = Tail(s)]
        /\ UNCHANGED <<moved, request>> /\ pc'[t] = "read"
    BY <1>6 DEF AdjustWrite, Target, Current, StockTypeOK
  <2>3. /\ todo'[t] = Tail(s)
        /\ \A r \in Row : posted'[t][r] = posted[t][r] + Posts(Head(s), r)
    BY <1>0, <1>5, <2>1, <2>2 DEF StockTypeOK, Posts, Step
  <2>4. \A r \in Row \ R :
          posted'[t][r] + Ledger!Total(todo'[t], r) = posted[t][r] + Ledger!Total(s, r)
    BY <1>0, <1>5, <2>1, <2>3
  <2> QED
    BY <1>3, <1>5, <2>1, <2>2, <2>3, <2>4
<1>7. CASE SetReorder(t)
  <2>1. s # <<>> /\ Head(s).op = "reorder" /\ pc[t] = "read"
    BY <1>7 DEF SetReorder, At, Current
  <2>2. todo'[t] = Tail(s) /\ UNCHANGED <<moved, posted, request, pc>>
    BY <1>7 DEF SetReorder, StockTypeOK
  <2>3. \A r \in Row : Posts(Head(s), r) = 0
    BY <2>1 DEF Posts
  <2>4. \A r \in Row \ R :
          posted'[t][r] + Ledger!Total(todo'[t], r) = posted[t][r] + Ledger!Total(s, r)
    BY <1>0, <1>5, <2>1, <2>2, <2>3
  <2> QED
    BY <1>3, <1>5, <2>1, <2>2, <2>4
<1>8. CASE CountCompare(t)
  <2> DEFINE delta == Head(s).qty - basis[t]
             adjust == [op |-> "adjust", row |-> Head(s).row, qty |-> delta]
  <2>1. s # <<>> /\ Head(s).op = "count"
    BY <1>8 DEF CountCompare, At, Current
  <2>2. /\ todo'[t] = IF delta = 0 THEN Tail(s) ELSE <<adjust>> \o Tail(s)
        /\ UNCHANGED <<moved, posted, request>> /\ pc'[t] = "read"
    BY <1>8 DEF CountCompare, Current, Target, StockTypeOK
  <2>3. \A r \in Row \ R : Posts(Head(s), r) = 0 /\ Posts(adjust, r) = 0
    BY <1>5, <2>1 DEF Posts
  <2>4. adjust \in Step /\ adjust.op = "adjust"
    BY <1>5, <2>1 DEF Step, Op, StockTypeOK
  <2> HIDE DEF delta, adjust
  <2>5. CASE delta = 0
    <3>1. \A r \in Row \ R :
            posted'[t][r] + Ledger!Total(todo'[t], r) = posted[t][r] + Ledger!Total(s, r)
      BY <1>0, <1>5, <2>1, <2>2, <2>3, <2>5
    <3> QED
      BY <1>3, <1>5, <2>1, <2>2, <2>5, <3>1
  <2>6. CASE delta # 0
    <3> DEFINE z == <<adjust>> \o Tail(s)
    <3>1. Tail(s) \in Seq(Step) /\ Len(Tail(s)) \in Nat
      BY <1>5, <2>1
    <3>2. /\ z \in Seq(Step) /\ z # <<>> /\ Head(z) = adjust /\ Len(z) = Len(Tail(s)) + 1
          /\ z[1] = adjust
          /\ \A i \in 1 .. Len(Tail(s)) : z[i + 1] = Tail(s)[i]
      BY <2>4, <3>1
    <3>3. Tail(z) = Tail(s)
      BY <2>4, <3>1, <3>2
    <3> HIDE DEF z
    <3>4. \A i \in 1 .. Len(z) : z[i].op = "count" => z[i].row \in R
      <4> TAKE i \in 1 .. Len(z)
      <4>1. CASE i = 1
        BY <2>4, <3>2, <4>1
      <4>2. CASE i # 1
        <5>1. i - 1 \in 1 .. Len(Tail(s)) /\ (i - 1) + 1 = i
          BY <3>1, <3>2, <4>2
        <5>2. z[(i - 1) + 1] = Tail(s)[i - 1]
          BY <3>2, <5>1
        <5> QED
          BY <1>5, <2>1, <5>1, <5>2
      <4> QED
        BY <4>1, <4>2
    <3>5. \A r \in Row \ R :
            posted'[t][r] + Ledger!Total(z, r) = posted[t][r] + Ledger!Total(s, r)
      <4> TAKE r \in Row \ R
      <4>1. Ledger!Total(z, r) = Posts(adjust, r) + Ledger!Total(Tail(s), r)
        BY <3>2, <3>3, TotalTail
      <4> QED
        BY <1>0, <1>5, <2>1, <2>2, <2>3, <4>1
    <3>6. todo'[t] = z
      BY <2>2, <2>6 DEF z
    <3> QED
      BY <1>3, <2>1, <2>2, <3>2, <3>4, <3>5, <3>6
  <2> QED
    BY <2>5, <2>6
<1> QED
  BY <1>1, <1>2, <1>6, <1>7, <1>8
     DEF Statement, ZeroDelta, UpsertConflict, Insufficient, DeadlockAbort

(* What the other transactions owe does not change.                        *)
LEMMA OthersAccounted ==
  ASSUME NEW t \in Tx, AccountedInv,
         \A u \in Tx \ {t} : /\ pc'[u] = pc[u] /\ posted'[u] = posted[u]
                             /\ todo'[u] = todo[u] /\ request'[u] = request[u],
         pc'[t] \notin {"idle"} \cup Open \/ (pc'[t] \in Open /\ Accounted(t)')
  PROVE  AccountedInv'
<1>1. ASSUME NEW u \in Tx, u # t
      PROVE  /\ (pc[u] = "idle")' => \A r \in Row : (posted[u][r] = 0)'
             /\ (pc[u] \in Open)' => Accounted(u)'
  <2>1. UNCHANGED <<pc[u], posted[u], todo[u], request[u]>>
    BY <1>1
  <2> QED
    BY <2>1, AccountedKept DEF AccountedInv, Open
<1>2. pc'[t] # "idle" /\ (pc'[t] \in Open => Accounted(t)')
  BY DEF Open
<1> QED
  BY <1>1, <1>2 DEF AccountedInv, Open

LEMMA Outcomes ==
  /\ Outcome("idle") = "idle" /\ Outcome("committed") = "posted" /\ Outcome("aborted") = "refused"
  /\ \A p \in Open : Outcome(p) = "open"
<1>1. Outcome("idle") = "idle"
  BY DEF Outcome, Open
<1>2. Outcome("committed") = "posted"
  BY DEF Outcome, Open
<1>3. Outcome("aborted") = "refused"
  BY DEF Outcome, Open
<1>4. \A p \in Open : Outcome(p) = "open"
  BY DEF Outcome, Open
<1> QED
  BY <1>1, <1>2, <1>3, <1>4

LEMMA OutcomeChange ==
  ASSUME StockTypeOK, NEW t \in Tx, NEW p, pc' = [pc EXCEPT ![t] = p]
  PROVE  [u \in Tx |-> Outcome(pc[u])]' = [[u \in Tx |-> Outcome(pc[u])] EXCEPT ![t] = Outcome(p)]
<1>1. \A u \in Tx : pc'[u] = IF u = t THEN p ELSE pc[u]
  BY DEF StockTypeOK
<1>2. \A u \in Tx : Outcome(pc'[u]) = IF u = t THEN Outcome(p) ELSE Outcome(pc[u])
  BY <1>1
<1> HIDE DEF Outcome
<1> QED
  BY <1>2

(* A request that arrives is accepted.                                     *)
LEMMA BeginIsAccepted ==
  ASSUME StockTypeOK, AccountedInv, NEW t \in Tx, NEW q \in Request, Begin(t, q)
  PROVE  AccountedInv' /\ Ledger!Accept(t)
<1>1. /\ pc[t] = "idle" /\ UNCHANGED <<moved, posted>> /\ request'[t] = q /\ todo'[t] = q
      /\ pc' = [pc EXCEPT ![t] = "read"] /\ pc'[t] = "read" /\ q \in Seq(Step)
      /\ \A u \in Tx \ {t} : pc'[u] = pc[u] /\ todo'[u] = todo[u] /\ request'[u] = request[u]
  BY RequestAssumption DEF Begin, StockTypeOK
<1>2. \A r \in Row : posted'[t][r] = 0
  BY <1>1 DEF AccountedInv
<1>3. \A r \in Row : Ledger!Total(q, r) \in Int
  BY <1>1, AdjustmentsTotal
<1>4. /\ Ledger!Counted(request[t])' = {q[i].row : i \in {j \in DOMAIN q : q[j].op = "count"}}
      /\ \A r \in Row : /\ Ledger!Total(request[t], r)' = Ledger!Total(q, r)
                       /\ Ledger!Total(todo[t], r)' = Ledger!Total(q, r)
  BY <1>1 DEF Ledger!Counted, Ledger!Total
<1>5. DOMAIN q = 1 .. Len(q)
  BY <1>1
<1>6. Accounted(t)'
  BY <1>1, <1>2, <1>3, <1>4, <1>5 DEF Accounted
<1>7. AccountedInv'
  BY <1>1, <1>6, OthersAccounted DEF Open
<1>8. [u \in Tx |-> Outcome(pc[u])]' = [[u \in Tx |-> Outcome(pc[u])] EXCEPT ![t] = "open"]
  <2>1. Outcome("read") = "open"
    BY Outcomes DEF Open
  <2>2. [u \in Tx |-> Outcome(pc[u])]' = [[u \in Tx |-> Outcome(pc[u])] EXCEPT ![t] = Outcome("read")]
    BY <1>1, OutcomeChange
  <2> QED
    BY <2>1, <2>2, Zenon
<1>9. [u \in Tx |-> Outcome(pc[u])][t] = "idle"
  BY <1>1, Outcomes
<1> QED
  BY <1>1, <1>7, <1>8, <1>9 DEF Ledger!Accept

(* A commit posts all a request asked for.                                 *)
LEMMA CommitIsPosted ==
  ASSUME StockTypeOK, AccountedInv, NEW t \in Tx, Commit(t)
  PROVE  AccountedInv' /\ Ledger!Post(t)
<1>1. /\ pc[t] = "read" /\ todo[t] = <<>> /\ UNCHANGED <<request, todo>>
      /\ moved' = [r \in Row |-> moved[r] + posted[t][r]]
      /\ pc' = [pc EXCEPT ![t] = "committed"] /\ pc'[t] = "committed"
      /\ \A u \in Tx \ {t} : pc'[u] = pc[u] /\ posted'[u] = posted[u]
  BY DEF Commit, Done, StockTypeOK
<1>2. AccountedInv'
  BY <1>1, OthersAccounted DEF Open
<1>3. Accounted(t) /\ posted[t] \in [Row -> Int]
  BY <1>1 DEF AccountedInv, Open, StockTypeOK
<1>4. \A r \in Row \ Ledger!Counted(request[t]) : posted[t][r] = Ledger!Total(request[t], r)
  BY <1>1, <1>3, TotalEmpty DEF Accounted
<1>5. \A r \in Row \ Ledger!Counted(request[t]) : moved'[r] = moved[r] + Ledger!Total(request[t], r)
  BY <1>1, <1>4
<1>6. [u \in Tx |-> Outcome(pc[u])]' = [[u \in Tx |-> Outcome(pc[u])] EXCEPT ![t] = "posted"]
  <2>1. Outcome("committed") = "posted"
    BY Outcomes DEF Open
  <2>2. [u \in Tx |-> Outcome(pc[u])]' = [[u \in Tx |-> Outcome(pc[u])] EXCEPT ![t] = Outcome("committed")]
    BY <1>1, OutcomeChange
  <2> QED
    BY <2>1, <2>2, Zenon
<1>7. [u \in Tx |-> Outcome(pc[u])][t] = "open"
  BY <1>1 DEF Outcome, Open
<1> QED
  BY <1>1, <1>2, <1>5, <1>6, <1>7 DEF Ledger!Post

(* A transaction that ends in any other way posts nothing.                 *)
LEMMA RollbackIsRefused ==
  ASSUME StockTypeOK, AccountedInv, NEW t \in Tx, Rollback(t), pc[t] \in Open
  PROVE  AccountedInv' /\ Ledger!Refuse(t)
<1>1. /\ UNCHANGED <<moved, request>>
      /\ pc' = [pc EXCEPT ![t] = "aborted"] /\ pc'[t] = "aborted"
      /\ \A u \in Tx \ {t} : pc'[u] = pc[u] /\ posted'[u] = posted[u] /\ todo'[u] = todo[u]
  BY DEF Rollback, StockTypeOK
<1>2. AccountedInv'
  BY <1>1, OthersAccounted DEF Open
<1>3. [u \in Tx |-> Outcome(pc[u])]' = [[u \in Tx |-> Outcome(pc[u])] EXCEPT ![t] = "refused"]
  <2>1. Outcome("aborted") = "refused"
    BY Outcomes DEF Open
  <2>2. [u \in Tx |-> Outcome(pc[u])]' = [[u \in Tx |-> Outcome(pc[u])] EXCEPT ![t] = Outcome("aborted")]
    BY <1>1, OutcomeChange
  <2> QED
    BY <2>1, <2>2, Zenon
<1>4. [u \in Tx |-> Outcome(pc[u])][t] = "open"
  BY DEF Outcome, Open
<1> QED
  BY <1>1, <1>2, <1>3, <1>4 DEF Ledger!Refuse

(* Every other statement is invisible in the ledger.                       *)
LEMMA StatementIsInvisible ==
  ASSUME StockTypeOK, AccountedInv, NEW t \in Tx, Statement(t), ~Rollback(t)
  PROVE  AccountedInv' /\ UNCHANGED <<moved, request, [u \in Tx |-> Outcome(pc[u])]>>
<1>1. pc[t] \in Open /\ \A u \in Tx \ {t} : pc'[u] = pc[u]
  BY StatementOwn
<1>2. Accounted(t)
  BY <1>1 DEF AccountedInv
<1>3. /\ pc'[t] # "aborted" /\ DOMAIN pc' = Tx
      /\ \A u \in Tx \ {t} : posted'[u] = posted[u] /\ todo'[u] = todo[u]
  BY DEF Statement, ZeroDelta, UpsertConflict, Insufficient, DeadlockAbort, UpsertFound,
         UpsertMissing, UpsertInsert, AdjustWrite, CountCompare, SetReorder, StockTypeOK, At, Upserting
<1>4. Accounted(t)' /\ moved' = moved /\ request' = request /\ pc'[t] \in Open
  BY <1>2, <1>3, AccountedStatement
<1>5. AccountedInv'
  BY <1>1, <1>3, <1>4, OthersAccounted
<1>6. Outcome(pc[t]) = "open" /\ Outcome(pc'[t]) = "open"
  BY <1>1, <1>4 DEF Outcome, Open
<1>7. \A u \in Tx : Outcome(pc[u])' = Outcome(pc[u])
  BY <1>1, <1>6
<1> QED
  BY <1>4, <1>5, <1>7

LEMMA NextIsLedgerStep ==
  StockTypeOK /\ AccountedInv /\ [InventoryNext]_stockVars
    => AccountedInv' /\ [Ledger!Next]_(Ledger!ledgerVars)
<1> SUFFICES ASSUME StockTypeOK, AccountedInv, [InventoryNext]_stockVars
             PROVE  AccountedInv' /\ [Ledger!Next]_(Ledger!ledgerVars)
  OBVIOUS
<1>1. ASSUME NEW t \in Tx, NEW q \in Request, Begin(t, q)
      PROVE  AccountedInv' /\ Ledger!Next
  BY <1>1, BeginIsAccepted DEF Ledger!Next
<1>2. ASSUME NEW t \in Tx, Commit(t)
      PROVE  AccountedInv' /\ Ledger!Next
  BY <1>2, CommitIsPosted DEF Ledger!Next
<1>3. ASSUME NEW t \in Tx, Statement(t) \/ Fail(t)
      PROVE  AccountedInv' /\ [Ledger!Next]_(Ledger!ledgerVars)
  <2>1. pc[t] \in Open
    BY <1>3, StatementOwn
  <2>2. CASE Rollback(t)
    BY <2>1, <2>2, RollbackIsRefused DEF Ledger!Next
  <2>3. CASE ~Rollback(t)
    <3>1. AccountedInv' /\ UNCHANGED <<moved, request, [u \in Tx |-> Outcome(pc[u])]>>
      BY <1>3, <2>3, StatementIsInvisible DEF Fail
    <3> QED
      BY <3>1 DEF Ledger!ledgerVars
  <2> QED
    BY <2>2, <2>3
<1>4. CASE UNCHANGED stockVars
  <2>1. UNCHANGED <<moved, request, pc, posted, todo>>
    BY <1>4 DEF stockVars
  <2>2. AccountedInv'
    BY <2>1, AccountedKept DEF AccountedInv
  <2> QED
    BY <2>1, <2>2 DEF Ledger!ledgerVars
<1> QED
  BY <1>1, <1>2, <1>3, <1>4 DEF InventoryNext, Terminating

(* The statements, locks and failures of any number of requests implement  *)
(* the ledger that posts every request at once or not at all.              *)
THEOREM StockImplementsLedger == InventorySpec => RequestsAreAllOrNothing
<1>1. StockInit => Ledger!Init
  <2> SUFFICES ASSUME StockInit PROVE Ledger!Init
    OBVIOUS
  <2>1. moved \in [Row -> Int]
    BY OpeningAssumption, StockInitInv DEF StockInv, StockTypeOK
  <2>2. [t \in Tx |-> Outcome(pc[t])] = [t \in Tx |-> "idle"]
    BY Outcomes DEF StockInit
  <2> QED
    BY <2>1, <2>2 DEF Ledger!Init, StockInit
<1> QED
  BY <1>1, NextIsLedgerStep, AccountedInit, StockTypes, PTL
     DEF InventorySpec, RequestsAreAllOrNothing, Ledger!Spec
=============================================================================
