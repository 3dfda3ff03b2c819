---------------------------- MODULE OrdersProofs ----------------------------
(***************************************************************************)
(* For any number of sales, adjustments and voids.                         *)
(*                                                                         *)
(* Checkouts alone: what the lock on the store's row protects.  The        *)
(* receipts of a store have no gaps and no repetitions, the uses of a      *)
(* discount are counted, and the sales of a store take turns at its stock, *)
(* which adjustStock reads without a lock.                                 *)
(*                                                                         *)
(* Whatever overlaps: no order shows more refunded than its adjustments    *)
(* paid, the ledger moves as the documents say, levels are natural and     *)
(* follow the ledger but for writes from outdated reads, receipts have no  *)
(* gaps, the uses of a discount are the documents that link it, and every  *)
(* breakdown of the reports adds up to the summary, exactly or but for     *)
(* the roundings it is made of.                                            *)
(*                                                                         *)
(* Sales, adjustments and voids that do not overlap: units, refunds and    *)
(* status agree but for roundings, a cancelled order stays as it is, and   *)
(* what leaves the stock value is cost of sales, whatever costs changed    *)
(* between; although adjustments and voids decide from a copy of the order *)
(* they read before their stock movements and write the whole status back  *)
(* afterwards.                                                             *)
(***************************************************************************)
EXTENDS Reports, StockProofs, Sums

(* Checkouts alone.                                                        *)
Stages == {"none", "counter", "lines"}

SaleTypes ==
  /\ orders \in [OrderId -> OrderType \cup {NoOrder}]
  /\ counter \in [Store -> Nat]
  /\ usage \in [Discount -> Nat]
  /\ sale \in [Tx -> Sale \cup {NoOrder}]
  /\ stage \in [Tx -> Stages]
  /\ held \in [Tx -> StoreRow \cup {NoStore}]

(* Whoever is past its receipt number holds its store, alone, with the     *)
(* number after the last one given; its order is not there yet.            *)
StoreHeld ==
  /\ \A t \in Tx : pc[t] \in Open => sale[t] \in Sale /\ stage[t] # "none"
  /\ \A t \in Tx : pc[t] # "committed" => orders[t] = NoOrder
  /\ \A t \in Tx : held[t] # NoStore <=> pc[t] \in Open /\ stage[t] = "lines"
  /\ \A t \in Tx : held[t] # NoStore =>
       /\ held[t].store = sale[t].store
       /\ held[t].counter = counter[sale[t].store] + 1
  /\ \A t, u \in Tx : held[t] # NoStore /\ held[u] # NoStore /\ t # u =>
       sale[t].store # sale[u].store

(* What a transaction writes and has still to write are rows of its sale,  *)
(* once it holds the store.                                                *)
Sells(t, r) == \E i \in DOMAIN sale[t].lines : sale[t].lines[i].row = r
SellsOwnRows ==
  /\ \A t \in Tx : \A r \in Row : work[t][r] # NoWrite => held[t] # NoStore /\ Sells(t, r)
  /\ \A t \in Tx : pc[t] \in Open /\ todo[t] # <<>> =>
       /\ held[t] # NoStore
       /\ \A i \in 1 .. Len(todo[t]) : todo[t][i].op = "adjust" /\ Sells(t, todo[t][i].row)
  /\ \A t \in Tx : pc[t] \in {"insert", "act"} => todo[t] # <<>>

(* So no read of a level is outdated when it is used.                      *)
TurnsTaken == SellsOwnRows /\ NothingStale /\ BasisCurrent

Numbered ==
  /\ ReceiptsGapless
  /\ \A s \in Store : IsFiniteSet(OrdersOf(s))

(* A discount has been used once by every order that links it.             *)
LinkedBy(d) == {o \in Orders \ Past : d \in Range(orders[o].links)}
UsageCountsOrders == \A d \in Discount : usage[d] = Cardinality(LinkedBy(d))
Counted == UsageCountsOrders /\ \A d \in Discount : IsFiniteSet(LinkedBy(d))

SalesInv == StockInv /\ SaleTypes /\ StoreHeld /\ TurnsTaken /\ Numbered /\ Counted

-----------------------------------------------------------------------------
(* The steps that adjustStock is given are steps.                          *)
LEMMA TakeOutTypes ==
  ASSUME NEW s \in Sale
  PROVE  /\ TakeOut(s.lines) \in Seq(Step)
         /\ Len(TakeOut(s.lines)) = Len(s.lines)
         /\ \A i \in 1 .. Len(s.lines) :
              TakeOut(s.lines)[i].op = "adjust" /\ TakeOut(s.lines)[i].row = s.lines[i].row
<1>1. s.lines \in Seq(Line)
  BY SaleAssumption DEF SaleType
<1>2. DOMAIN s.lines = 1 .. Len(s.lines) /\ Len(s.lines) \in Nat
  BY <1>1
<1>3. \A i \in 1 .. Len(s.lines) : s.lines[i] \in Line
  BY <1>1
<1>4. \A i \in 1 .. Len(s.lines) :
        [op |-> "adjust", row |-> s.lines[i].row, qty |-> -s.lines[i].qty] \in Step
  BY <1>3 DEF Line, Step, Op
<1> QED
  BY <1>2, <1>4 DEF TakeOut

(* The sales of two stores that are held have no row in common.            *)
LEMMA SalesApart ==
  ASSUME StoreHeld, NEW t \in Tx, NEW u \in Tx, NEW r, t # u,
         held[t] # NoStore, held[u] # NoStore, Sells(t, r)
  PROVE  ~Sells(u, r)
<1>1. sale[t] \in Sale /\ sale[u] \in Sale /\ sale[t].store # sale[u].store
  BY DEF StoreHeld
<1> QED
  BY <1>1, RowsAssumption DEF Sells

(* A rolled back sale leaves nothing and lets the store go.                *)
LEMMA AbortSaleInv ==
  ASSUME SalesInv, NEW t \in Tx, pc[t] \in Open, Rollback(t), ReleaseStore(t),
         UNCHANGED <<orders, counter, usage, sale, stage>>
  PROVE  SalesInv'
<1> USE NoWriteAssumption, AbsentAssumption
<1>0. StockTypeOK
  BY DEF SalesInv, StockInv
<1>1. StockInv'
  BY RollbackInv DEF SalesInv
<1>2. SaleTypes'
  BY DEF SalesInv, SaleTypes, ReleaseStore
<1>3. /\ pc'[t] = "aborted" /\ held'[t] = NoStore /\ todo'[t] = <<>>
      /\ \A r \in Row : work'[t][r] = NoWrite
      /\ \A u \in Tx \ {t} : /\ pc'[u] = pc[u] /\ held'[u] = held[u]
                             /\ work'[u] = work[u] /\ todo'[u] = todo[u]
      /\ \A u \in Tx : stale'[u] = IF u = t THEN {} ELSE stale[u]
      /\ raced' = raced /\ basis' = basis /\ level' = level
  BY <1>0 DEF SalesInv, SaleTypes, StockTypeOK, Rollback, ReleaseStore, NoWrites
<1>4. StoreHeld'
  BY <1>3 DEF SalesInv, StoreHeld, Open
<1>5. SellsOwnRows' /\ NothingStale'
  BY <1>3 DEF SalesInv, TurnsTaken, SellsOwnRows, Sells, NothingStale, Open
<1>6. BasisCurrent'
  BY <1>3 DEF SalesInv, TurnsTaken, BasisCurrent, At, Sees, Target, Current
<1>7. Numbered' /\ Counted'
  BY DEF SalesInv, Numbered, ReceiptsGapless, OrdersOf, Orders, Counted,
         UsageCountsOrders, LinkedBy
<1> QED
  BY <1>1, <1>2, <1>4, <1>5, <1>6, <1>7 DEF SalesInv, TurnsTaken

LEMMA SalesInitInv == SalesInit => SalesInv
<1> SUFFICES ASSUME SalesInit PROVE SalesInv
  OBVIOUS
<1> USE DEF SalesInit
<1>0. StockInit
  OBVIOUS
<1>1. StockInv
  BY <1>0, StockInitInv
<1>2. SaleTypes
  <2>1. orders \in [OrderId -> OrderType \cup {NoOrder}]
    BY PlacedAssumption DEF OrderId
  <2>2. \A s \in Store : PlacedIn(s) \in SUBSET Past /\ Cardinality(PlacedIn(s)) \in Nat
    BY PastAssumption, FS_Subset, FS_CardinalityType DEF PlacedIn
  <2> QED
    BY <2>1, <2>2 DEF SaleTypes, Stages
<1>3. StoreHeld
  <2>1. \A t \in Tx : pc[t] = "idle" /\ stage[t] = "none" /\ held[t] = NoStore
    BY <1>0 DEF StockInit
  <2>2. \A t \in Tx : orders[t] = NoOrder
    BY NamesAssumption DEF OrderId
  <2> QED
    BY <2>1, <2>2 DEF StoreHeld, Open
<1>4. TurnsTaken
  BY <1>0 DEF StockInit, TurnsTaken, SellsOwnRows, NothingStale, BasisCurrent, At, NoWrites
<1>5. Orders = Past /\ \A o \in Past : orders[o] = Placed[o]
  BY NamesAssumption, PlacedAssumption DEF Orders, OrderId
<1>6. \A s \in Store : OrdersOf(s) = PlacedIn(s)
  BY <1>5 DEF OrdersOf, PlacedIn
<1>7. Numbered
  <2> SUFFICES ASSUME NEW s \in Store
               PROVE  /\ {orders[o].receipt : o \in OrdersOf(s)} = 1 .. counter[s]
                      /\ Cardinality(OrdersOf(s)) = counter[s]
                      /\ IsFiniteSet(OrdersOf(s))
    BY DEF Numbered, ReceiptsGapless
  <2>1. OrdersOf(s) = PlacedIn(s) /\ PlacedIn(s) \subseteq Past
    BY <1>6 DEF PlacedIn
  <2>2. {orders[o].receipt : o \in OrdersOf(s)} = {Placed[o].receipt : o \in PlacedIn(s)}
    BY <1>5, <2>1
  <2> QED
    BY <2>1, <2>2, PastAssumption, FS_Subset
<1>8. Counted
  <2>1. \A d \in Discount : LinkedBy(d) = {}
    BY <1>5 DEF LinkedBy
  <2> QED
    BY <2>1, FS_EmptySet DEF Counted, UsageCountsOrders, LinkedBy
<1> QED
  BY <1>1, <1>2, <1>3, <1>4, <1>7, <1>8 DEF SalesInv

LEMMA OpenSaleInv ==
  ASSUME SalesInv, NEW t \in Tx, NEW s \in Sale, OpenSale(t, s)
  PROVE  SalesInv'
<1>0. StockTypeOK /\ SaleTypes /\ StoreHeld
  BY DEF SalesInv, StockInv
<1>1. StockInv'
  <2>1. <<>> \in Seq(Step)
    OBVIOUS
  <2> QED
    BY <2>1, BeginInv DEF SalesInv, OpenSale
<1>2. SaleTypes'
  BY <1>0 DEF SaleTypes, OpenSale, Stages
<1>3. /\ pc[t] = "idle" /\ pc'[t] = "read" /\ todo'[t] = <<>>
      /\ sale'[t] = s /\ stage'[t] = "counter" /\ held[t] = NoStore
      /\ \A u \in Tx \ {t} : /\ pc'[u] = pc[u] /\ todo'[u] = todo[u]
                             /\ sale'[u] = sale[u] /\ stage'[u] = stage[u]
      /\ UNCHANGED <<level, work, basis, stale, raced, orders, counter, usage, held>>
  BY <1>0 DEF OpenSale, Begin, StockTypeOK, SaleTypes, StoreHeld, Open
<1>4. StoreHeld'
  BY <1>0, <1>3 DEF StoreHeld, Open
<1>5. SellsOwnRows'
  BY <1>3 DEF SalesInv, TurnsTaken, SellsOwnRows, Sells
<1>6. NothingStale' /\ BasisCurrent'
  BY <1>3 DEF SalesInv, TurnsTaken, NothingStale, BasisCurrent, At, Sees, Target, Current
<1>7. Numbered' /\ Counted'
  BY <1>3 DEF SalesInv, Numbered, ReceiptsGapless, OrdersOf, Orders, Counted,
              UsageCountsOrders, LinkedBy
<1> QED
  BY <1>1, <1>2, <1>4, <1>5, <1>6, <1>7 DEF SalesInv, TurnsTaken

(* Nobody else holds the store, so nobody holds a row of this sale.        *)
LEMMA TakeReceiptInv ==
  ASSUME SalesInv, NEW t \in Tx, TakeReceipt(t)
  PROVE  SalesInv'
<1> DEFINE s == sale[t]
<1>0. StockTypeOK /\ SaleTypes /\ StoreHeld /\ SellsOwnRows
  BY DEF SalesInv, StockInv, TurnsTaken
<1>1. s \in Sale /\ s.store \in Store /\ pc[t] = "read"
  BY <1>0, SaleAssumption DEF TakeReceipt, StoreHeld, Open, SaleType
<1>2. TakeOut(s.lines) \in Seq(Step) /\ Adjusting(t, TakeOut(s.lines))
  BY <1>1, TakeOutTypes DEF TakeReceipt
<1>3. StockInv'
  BY <1>1, <1>2, AdjustingInv DEF SalesInv
<1>4. [store |-> s.store, counter |-> counter[s.store] + 1] \in StoreRow
  BY <1>0, <1>1 DEF SaleTypes, StoreRow
<1>5. SaleTypes'
  BY <1>0, <1>4 DEF SaleTypes, TakeReceipt, Stages
<1>6. /\ held'[t] = [store |-> s.store, counter |-> counter[s.store] + 1]
      /\ held'[t] # NoStore
      /\ stage'[t] = "lines" /\ todo'[t] = TakeOut(s.lines)
      /\ \A u \in Tx \ {t} : /\ held'[u] = held[u] /\ stage'[u] = stage[u]
                             /\ todo'[u] = todo[u]
      /\ UNCHANGED <<level, work, basis, pc, stale, raced, orders, counter, usage, sale>>
  BY <1>0, <1>2, <1>4, NamesAssumption
     DEF TakeReceipt, Adjusting, history, StockTypeOK, SaleTypes
<1>7. \A u \in Tx \ {t} : held[u] # NoStore => sale[u].store # s.store
  BY <1>0 DEF TakeReceipt, StoreFree, StoreHeld
<1>8. StoreHeld'
  <2>1. /\ \A u \in Tx : pc'[u] \in Open => sale'[u] \in Sale /\ stage'[u] # "none"
        /\ \A u \in Tx : pc'[u] # "committed" => orders'[u] = NoOrder
        /\ \A u \in Tx : held'[u] # NoStore <=> pc'[u] \in Open /\ stage'[u] = "lines"
    BY <1>0, <1>1, <1>6 DEF StoreHeld, Open
  <2>2. \A u \in Tx : held'[u] # NoStore =>
          /\ held'[u].store = sale'[u].store
          /\ held'[u].counter = counter'[sale'[u].store] + 1
    BY <1>0, <1>6 DEF StoreHeld
  <2>3. \A u, v \in Tx : held'[u] # NoStore /\ held'[v] # NoStore /\ u # v =>
          sale'[u].store # sale'[v].store
    BY <1>0, <1>6, <1>7 DEF StoreHeld
  <2> QED
    BY <2>1, <2>2, <2>3 DEF StoreHeld
<1>9. SellsOwnRows'
  <2>1. \A i \in 1 .. Len(todo'[t]) : todo'[t][i].op = "adjust" /\ Sells(t, todo'[t][i].row)
    <3>1. DOMAIN s.lines = 1 .. Len(s.lines)
      BY <1>1, SaleAssumption DEF SaleType
    <3>2. \A i \in 1 .. Len(s.lines) : Sells(t, s.lines[i].row)
      BY <3>1 DEF Sells
    <3>3. /\ Len(TakeOut(s.lines)) = Len(s.lines)
          /\ \A i \in 1 .. Len(s.lines) :
               TakeOut(s.lines)[i].op = "adjust" /\ TakeOut(s.lines)[i].row = s.lines[i].row
      BY <1>1, TakeOutTypes
    <3> HIDE DEF s
    <3>4. todo'[t] = TakeOut(s.lines)
      BY <1>6
    <3> QED
      BY <3>2, <3>3, <3>4
  <2>2. \A u \in Tx : \A r : Sells(u, r)' <=> Sells(u, r)
    BY <1>6 DEF Sells
  <2>3. \A u \in Tx \ {t} : pc'[u] \in Open /\ todo'[u] # <<>> =>
          /\ held'[u] # NoStore
          /\ \A i \in 1 .. Len(todo'[u]) : todo'[u][i].op = "adjust" /\ Sells(u, todo'[u][i].row)
    BY <1>0, <1>6 DEF SellsOwnRows
  <2>4. \A u \in Tx : \A r \in Row : work'[u][r] # NoWrite => held'[u] # NoStore /\ Sells(u, r)
    BY <1>0, <1>6 DEF SellsOwnRows
  <2>5. \A u \in Tx : pc'[u] \in {"insert", "act"} => todo'[u] # <<>>
    BY <1>0, <1>1, <1>6 DEF SellsOwnRows
  <2> QED
    BY <1>6, <2>1, <2>2, <2>3, <2>4, <2>5 DEF SellsOwnRows
<1>10. NothingStale' /\ BasisCurrent'
  BY <1>1, <1>6 DEF SalesInv, TurnsTaken, NothingStale, BasisCurrent, At, Sees, Target, Current
<1>11. Numbered' /\ Counted'
  BY <1>6 DEF SalesInv, Numbered, ReceiptsGapless, OrdersOf, Orders, Counted,
              UsageCountsOrders, LinkedBy
<1> QED
  BY <1>3, <1>5, <1>8, <1>9, <1>10, <1>11 DEF SalesInv, TurnsTaken

-----------------------------------------------------------------------------
(* The statements of adjustStock.  A step of t that only prepares or       *)
(* writes its own rows, with what Stock says of it: the tables and the     *)
(* store stay as they are.                                                 *)
LEMMA ProgressInv ==
  ASSUME SalesInv, NEW t \in Tx, pc[t] \in Open, pc'[t] \in Open, StockInv',
         held[t] # NoStore,
         UNCHANGED <<level, raced, stale>>, UNCHANGED saleVars,
         \A u \in Tx \ {t} : /\ pc'[u] = pc[u] /\ todo'[u] = todo[u]
                            /\ work'[u] = work[u] /\ basis'[u] = basis[u],
         \A r \in Row : work'[t][r] # NoWrite => work[t][r] # NoWrite \/ Sells(t, r),
         todo'[t] = todo[t] \/ (todo[t] # <<>> /\ todo'[t] = Tail(todo[t])),
         pc'[t] = "read" \/ todo'[t] # <<>>,
         At(t, "act")' => basis'[t] = Sees(t, Target(t))'
  PROVE  SalesInv'
<1>0. StockTypeOK /\ SaleTypes /\ StoreHeld /\ SellsOwnRows /\ BasisCurrent
  BY DEF SalesInv, StockInv, TurnsTaken
<1>1. SaleTypes'
  BY <1>0 DEF SaleTypes, saleVars
<1>2. StoreHeld'
  BY <1>0 DEF StoreHeld, saleVars, Open, Ended
<1>3. SellsOwnRows'
  <2>0. UNCHANGED <<sale, held>>
    BY DEF saleVars
  <2>2. \A u \in Tx : \A r \in Row : work'[u][r] # NoWrite => held'[u] # NoStore /\ Sells(u, r)
    BY <1>0, <2>0 DEF SellsOwnRows
  <2>3. \A u \in Tx \ {t} : pc'[u] \in Open /\ todo'[u] # <<>> =>
          /\ held'[u] # NoStore
          /\ \A i \in 1 .. Len(todo'[u]) : todo'[u][i].op = "adjust" /\ Sells(u, todo'[u][i].row)
    BY <1>0, <2>0 DEF SellsOwnRows
  <2>4. ASSUME todo'[t] # <<>>, NEW i \in 1 .. Len(todo'[t])
        PROVE  todo'[t][i].op = "adjust" /\ Sells(t, todo'[t][i].row)
    <3>1. todo[t] \in Seq(Step) /\ todo[t] # <<>>
      BY <1>0, <2>4 DEF StockTypeOK
    <3>2. \E j \in 1 .. Len(todo[t]) : todo'[t][i] = todo[t][j]
      <4>1. CASE todo'[t] = todo[t]
        BY <2>4, <4>1
      <4>2. CASE todo'[t] = Tail(todo[t])
        <5>1. Len(Tail(todo[t])) = Len(todo[t]) - 1
          BY <3>1, HeadTailProperties
        <5>2. i + 1 \in 1 .. Len(todo[t]) /\ Tail(todo[t])[i] = todo[t][i + 1]
          BY <2>4, <3>1, <4>2, <5>1, HeadTailProperties
        <5> QED
          BY <4>2, <5>2
      <4> QED
        BY <4>1, <4>2
    <3> QED
      BY <1>0, <3>1, <3>2 DEF SellsOwnRows
  <2> QED
    <3>1. held'[t] # NoStore
      BY <2>0
    <3>2. \A u \in Tx : pc'[u] \in Open /\ todo'[u] # <<>> =>
            /\ held'[u] # NoStore
            /\ \A i \in 1 .. Len(todo'[u]) :
                 todo'[u][i].op = "adjust" /\ Sells(u, todo'[u][i].row)
      BY <2>3, <2>4, <3>1
    <3>3. \A u \in Tx : pc'[u] \in {"insert", "act"} => todo'[u] # <<>>
      BY <1>0 DEF SellsOwnRows
    <3> QED
      BY <2>0, <2>2, <3>2, <3>3 DEF SellsOwnRows, Sells
<1>4. NothingStale'
  BY DEF SalesInv, TurnsTaken, NothingStale
<1>5. BasisCurrent'
  BY <1>0 DEF BasisCurrent, At, Sees, Target, Current
<1>6. Numbered' /\ Counted'
  <2>1. Numbered /\ Counted /\ UNCHANGED <<orders, counter, usage>>
    BY DEF SalesInv, saleVars
  <2>2. Numbered'
    BY <2>1 DEF Numbered, ReceiptsGapless, OrdersOf, Orders
  <2>3. Counted'
    BY <2>1 DEF Counted, UsageCountsOrders, LinkedBy, Orders
  <2> QED
    BY <2>2, <2>3
<1> QED
  BY <1>1, <1>2, <1>3, <1>4, <1>5, <1>6 DEF SalesInv, TurnsTaken

LEMMA SaleStatementInv ==
  ASSUME SalesInv, NEW t \in Tx, SaleStep(t, Statement(t))
  PROVE  SalesInv'
<1> USE NoWriteAssumption, AbsentAssumption
<1>0. StockTypeOK /\ StockInv /\ SaleTypes /\ StoreHeld /\ SellsOwnRows /\ BasisCurrent
      /\ NothingStale
  BY DEF SalesInv, StockInv, TurnsTaken
<1>1. StockInv' /\ Statement(t) /\ UNCHANGED <<orders, counter, usage, sale, stage>>
  BY <1>0, StatementInv DEF SaleStep
<1>2. pc[t] \in Open
  BY <1>0, <1>1, StatementOwn
<1>3. CASE Rollback(t)
  <2>1. pc'[t] = "aborted"
    BY <1>0, <1>3 DEF Rollback, StockTypeOK
  <2> QED
    BY <1>1, <1>2, <1>3, <2>1, AbortSaleInv DEF SaleStep
<1>4. ASSUME todo[t] # <<>>
      PROVE  /\ Head(todo[t]) \in Step /\ Target(t) \in Row
             /\ Current(t).op = "adjust" /\ Sells(t, Target(t)) /\ held[t] # NoStore
  <2>1. todo[t] \in Seq(Step) /\ 1 \in 1 .. Len(todo[t]) /\ Head(todo[t]) = todo[t][1]
    BY <1>0, <1>4 DEF StockTypeOK
  <2> QED
    BY <1>0, <1>2, <1>4, <2>1, StepTypes DEF SellsOwnRows, Target, Current
<1>5. ASSUME pc'[t] # "aborted"
      PROVE  UNCHANGED saleVars
  BY <1>1, <1>5 DEF SaleStep, saleVars
<1>6. CASE UpsertFound(t)
  <2>1. todo[t] # <<>> /\ pc'[t] = "act" /\ basis'[t] = Sees(t, Target(t))
        /\ UNCHANGED <<level, work, raced, stale, todo>>
        /\ \A u \in Tx \ {t} : pc'[u] = pc[u] /\ basis'[u] = basis[u]
    BY <1>0, <1>6 DEF UpsertFound, Upserting, At, Reads, StockTypeOK
  <2>2. basis'[t] = Sees(t, Target(t))'
    BY <2>1 DEF Sees, Target, Current
  <2>3. /\ pc'[t] \in Open /\ held[t] # NoStore /\ UNCHANGED saleVars
        /\ \A u \in Tx \ {t} : /\ pc'[u] = pc[u] /\ todo'[u] = todo[u]
                               /\ work'[u] = work[u] /\ basis'[u] = basis[u]
        /\ \A r \in Row : work'[t][r] # NoWrite => work[t][r] # NoWrite \/ Sells(t, r)
        /\ todo'[t] = todo[t] \/ (todo[t] # <<>> /\ todo'[t] = Tail(todo[t]))
        /\ pc'[t] = "read" \/ todo'[t] # <<>>
    <3>1. pc'[t] \in Open /\ pc'[t] # "aborted" /\ todo[t] # <<>>
      BY <2>1 DEF Open
    <3>2. held[t] # NoStore /\ Sells(t, Target(t)) /\ UNCHANGED saleVars
      BY <1>4, <1>5, <3>1
    <3> QED
      BY <3>1, <3>2, <2>1
  <2> QED
    BY <1>1, <1>2, <2>1, <2>2, <2>3, ProgressInv
<1>7. CASE UpsertMissing(t)
  <2>1. todo[t] # <<>> /\ pc'[t] = "insert"
        /\ UNCHANGED <<level, work, raced, stale, todo, basis>>
        /\ \A u \in Tx \ {t} : pc'[u] = pc[u]
    BY <1>0, <1>7 DEF UpsertMissing, Upserting, At, StockTypeOK
  <2>3. /\ pc'[t] \in Open /\ held[t] # NoStore /\ UNCHANGED saleVars
        /\ \A u \in Tx \ {t} : /\ pc'[u] = pc[u] /\ todo'[u] = todo[u]
                               /\ work'[u] = work[u] /\ basis'[u] = basis[u]
        /\ \A r \in Row : work'[t][r] # NoWrite => work[t][r] # NoWrite \/ Sells(t, r)
        /\ todo'[t] = todo[t] \/ (todo[t] # <<>> /\ todo'[t] = Tail(todo[t]))
        /\ pc'[t] = "read" \/ todo'[t] # <<>>
    <3>1. pc'[t] \in Open /\ pc'[t] # "aborted" /\ todo[t] # <<>>
      BY <2>1 DEF Open
    <3>2. held[t] # NoStore /\ Sells(t, Target(t)) /\ UNCHANGED saleVars
      BY <1>4, <1>5, <3>1
    <3> QED
      BY <3>1, <3>2, <2>1
  <2>2. ~At(t, "act")'
    BY <2>1 DEF At
  <2> QED
    BY <1>1, <1>2, <2>1, <2>2, <2>3, ProgressInv
<1>8. CASE UpsertInsert(t)
  <2>1. /\ todo[t] # <<>> /\ pc'[t] = "act" /\ basis'[t] = 0
        /\ UNCHANGED <<level, raced, stale, todo>>
        /\ \A u \in Tx \ {t} : pc'[u] = pc[u] /\ basis'[u] = basis[u] /\ work'[u] = work[u]
        /\ \A r \in Row : work'[t][r] = IF r = Target(t) THEN 0 ELSE work[t][r]
    BY <1>0, <1>4, <1>8 DEF UpsertInsert, At, StockTypeOK
  <2>2. basis'[t] = Sees(t, Target(t))'
    <3>1. Target(t)' = Target(t) /\ Target(t) \in Row
      BY <1>4, <2>1 DEF Target, Current
    <3>2. work'[t][Target(t)] = 0
      BY <2>1, <3>1
    <3> QED
      BY <2>1, <3>1, <3>2 DEF Sees
  <2>3. /\ pc'[t] \in Open /\ held[t] # NoStore /\ UNCHANGED saleVars
        /\ \A u \in Tx \ {t} : /\ pc'[u] = pc[u] /\ todo'[u] = todo[u]
                               /\ work'[u] = work[u] /\ basis'[u] = basis[u]
        /\ \A r \in Row : work'[t][r] # NoWrite => work[t][r] # NoWrite \/ Sells(t, r)
        /\ todo'[t] = todo[t] \/ (todo[t] # <<>> /\ todo'[t] = Tail(todo[t]))
        /\ pc'[t] = "read" \/ todo'[t] # <<>>
    <3>1. pc'[t] \in Open /\ pc'[t] # "aborted" /\ todo[t] # <<>>
      BY <2>1 DEF Open
    <3>2. held[t] # NoStore /\ Sells(t, Target(t)) /\ UNCHANGED saleVars
      BY <1>4, <1>5, <3>1
    <3> QED
      BY <3>1, <3>2, <2>1
  <2> QED
    BY <1>1, <1>2, <2>1, <2>2, <2>3, ProgressInv
<1>9. CASE AdjustWrite(t)
  <2>1. todo[t] # <<>> /\ Sees(t, Target(t)) = basis[t]
    BY <1>0, <1>9 DEF AdjustWrite, At, BasisCurrent
  <2>2. stale' = stale
    BY <1>0, <1>9, <2>1 DEF AdjustWrite, StockTypeOK
  <2>3. /\ pc'[t] = "read" /\ todo'[t] = Tail(todo[t])
        /\ UNCHANGED <<level, raced, basis>>
        /\ \A u \in Tx \ {t} : pc'[u] = pc[u] /\ todo'[u] = todo[u] /\ work'[u] = work[u]
        /\ \A r \in Row : r # Target(t) => work'[t][r] = work[t][r]
    BY <1>0, <1>9 DEF AdjustWrite, StockTypeOK
  <2>4. /\ pc'[t] \in Open /\ held[t] # NoStore /\ UNCHANGED saleVars
        /\ \A u \in Tx \ {t} : /\ pc'[u] = pc[u] /\ todo'[u] = todo[u]
                               /\ work'[u] = work[u] /\ basis'[u] = basis[u]
        /\ \A r \in Row : work'[t][r] # NoWrite => work[t][r] # NoWrite \/ Sells(t, r)
        /\ todo'[t] = todo[t] \/ (todo[t] # <<>> /\ todo'[t] = Tail(todo[t]))
        /\ pc'[t] = "read" \/ todo'[t] # <<>>
    <3>1. pc'[t] \in Open /\ pc'[t] # "aborted" /\ todo[t] # <<>>
      BY <2>1, <2>2, <2>3 DEF Open
    <3>2. held[t] # NoStore /\ Sells(t, Target(t)) /\ UNCHANGED saleVars
      BY <1>4, <1>5, <3>1
    <3> QED
      BY <3>1, <3>2, <2>1, <2>2, <2>3
  <2>5. ~At(t, "act")'
    BY <2>3 DEF At
  <2> QED
    BY <1>1, <1>2, <2>2, <2>3, <2>4, <2>5, ProgressInv
<1>10. CASE CountCompare(t) \/ SetReorder(t)
  BY <1>4, <1>10 DEF CountCompare, SetReorder, At
<1> QED
  BY <1>1, <1>3, <1>6, <1>7, <1>8, <1>9, <1>10
     DEF Statement, ZeroDelta, UpsertConflict, Insufficient, DeadlockAbort

-----------------------------------------------------------------------------
(* The commit of a sale.                                                   *)

(* It publishes rows no other open sale names: what others read stays.     *)
LEMMA CommitTurns ==
  ASSUME SalesInv, NEW t \in Tx, CommitSale(t)
  PROVE  TurnsTaken'
<1> USE NoWriteAssumption, AbsentAssumption
<1>0. /\ StockTypeOK /\ SaleTypes /\ StoreHeld
      /\ SellsOwnRows /\ BasisCurrent /\ NothingStale
  BY DEF SalesInv, StockInv, TurnsTaken
<1>1. pc[t] \in Open /\ held[t] # NoStore
  BY <1>0 DEF CommitSale, Commit, Done, StoreHeld, Open
<1>2. /\ pc'[t] = "committed" /\ held'[t] = NoStore
      /\ \A r \in Row : work'[t][r] = NoWrite
      /\ \A u \in Tx \ {t} : pc'[u] = pc[u] /\ held'[u] = held[u] /\ work'[u] = work[u]
      /\ \A u \in Tx : stale'[u] = IF u = t THEN {} ELSE stale[u]
      /\ raced' = raced \cup stale[t]
      /\ \A r \in Row : level'[r] = Sees(t, r)
      /\ UNCHANGED <<todo, basis, sale>>
  BY <1>0 DEF CommitSale, Commit, ReleaseStore, StockTypeOK, SaleTypes, NoWrites
<1>3. SellsOwnRows'
  <2>1. \A u \in Tx : \A r \in Row : work'[u][r] # NoWrite => held'[u] # NoStore /\ Sells(u, r)
    BY <1>0, <1>2 DEF SellsOwnRows
  <2>2. \A u \in Tx : pc'[u] \in Open /\ todo'[u] # <<>> =>
          /\ held'[u] # NoStore
          /\ \A i \in 1 .. Len(todo'[u]) : todo'[u][i].op = "adjust" /\ Sells(u, todo'[u][i].row)
    BY <1>0, <1>2 DEF SellsOwnRows, Open
  <2>3. \A u \in Tx : pc'[u] \in {"insert", "act"} => todo'[u] # <<>>
    BY <1>0, <1>2 DEF SellsOwnRows
  <2> QED
    BY <1>2, <2>1, <2>2, <2>3 DEF SellsOwnRows, Sells
<1>4. NothingStale'
  BY <1>0, <1>2 DEF NothingStale
<1>5. BasisCurrent'
  <2> SUFFICES ASSUME NEW u \in Tx, At(u, "act")'
               PROVE  basis'[u] = Sees(u, Target(u))'
    BY DEF BasisCurrent
  <2>1. u # t /\ pc[u] = "act" /\ todo[u] # <<>> /\ todo' = todo /\ basis' = basis
    BY <1>2 DEF At
  <2>2. Target(u) \in Row /\ held[u] # NoStore /\ Sells(u, Target(u))
    <3>1. todo[u] \in Seq(Step) /\ 1 \in 1 .. Len(todo[u]) /\ Head(todo[u]) = todo[u][1]
      BY <1>0, <2>1 DEF StockTypeOK
    <3> QED
      BY <1>0, <2>1, <3>1, StepTypes DEF SellsOwnRows, Target, Current, Open
  <2>3. ~Sells(t, Target(u))
    BY <1>0, <1>1, <2>1, <2>2, SalesApart
  <2>4. work[t][Target(u)] = NoWrite
    BY <1>0, <2>2, <2>3 DEF SellsOwnRows
  <2>5. level'[Target(u)] = level[Target(u)] /\ work'[u] = work[u]
    BY <1>2, <2>1, <2>2, <2>4 DEF Sees
  <2>6. basis[u] = Sees(u, Target(u))
    BY <1>0, <2>1 DEF BasisCurrent, At
  <2> QED
    BY <2>1, <2>5, <2>6 DEF Sees, Target, Current
<1> QED
  BY <1>3, <1>4, <1>5 DEF TurnsTaken

(* The order that gets the number after the last of its store.             *)
LEMMA NextReceipt ==
  ASSUME Numbered, counter \in [Store -> Nat], NEW s \in Store,
         NEW t, t \notin Orders, Orders' = Orders \cup {t},
         orders'[t].store = s, orders'[t].receipt = counter[s] + 1,
         \A o \in Orders : orders'[o].store = orders[o].store
                           /\ orders'[o].receipt = orders[o].receipt,
         counter' = [counter EXCEPT ![s] = counter[s] + 1]
  PROVE  Numbered'
<1> SUFFICES ASSUME NEW z \in Store
             PROVE  /\ {orders'[o].receipt : o \in OrdersOf(z)'} = 1 .. counter'[z]
                    /\ Cardinality(OrdersOf(z)') = counter'[z]
                    /\ IsFiniteSet(OrdersOf(z)')
  BY DEF Numbered, ReceiptsGapless
<1>1. /\ {orders[o].receipt : o \in OrdersOf(z)} = 1 .. counter[z]
      /\ Cardinality(OrdersOf(z)) = counter[z] /\ counter[z] \in Nat
      /\ IsFiniteSet(OrdersOf(z)) /\ OrdersOf(z) \subseteq Orders
  BY DEF Numbered, ReceiptsGapless, OrdersOf
<1>2. CASE z = s
  <2>1. OrdersOf(z)' = OrdersOf(z) \cup {t} /\ t \notin OrdersOf(z)
    BY <1>2 DEF OrdersOf
  <2>2. counter'[z] = counter[z] + 1
    BY <1>2
  <2>3. {orders'[o].receipt : o \in OrdersOf(z)'} =
          {orders[o].receipt : o \in OrdersOf(z)} \cup {counter[z] + 1}
    BY <1>1, <1>2, <2>1
  <2>4. Cardinality(OrdersOf(z)') = counter[z] + 1 /\ IsFiniteSet(OrdersOf(z)')
    BY <1>1, <2>1, FS_AddElement
  <2>5. (1 .. counter[z]) \cup {counter[z] + 1} = 1 .. counter[z] + 1
    BY <1>1
  <2> QED
    BY <1>1, <2>2, <2>3, <2>4, <2>5
<1>3. CASE z # s
  <2>1. OrdersOf(z)' = OrdersOf(z)
    BY <1>3 DEF OrdersOf
  <2>2. counter'[z] = counter[z]
    BY <1>3
  <2>3. {orders'[o].receipt : o \in OrdersOf(z)'} = {orders[o].receipt : o \in OrdersOf(z)}
    BY <1>1, <2>1
  <2> QED
    BY <1>1, <2>1, <2>2, <2>3
<1> QED
  BY <1>2, <1>3

(* The order is new and carries the number after the last of its store.    *)
LEMMA CommitNumbers ==
  ASSUME SalesInv, NEW t \in Tx, CommitSale(t)
  PROVE  SaleTypes' /\ StoreHeld' /\ Numbered' /\ Counted'
<1> DEFINE s == sale[t]
           new == NewOrder(s, held[t].counter)
<1>0. StockTypeOK /\ SaleTypes /\ StoreHeld
  BY DEF SalesInv, StockInv
<1>1. /\ pc[t] \in Open /\ pc[t] # "committed" /\ held[t] # NoStore
      /\ s \in Sale /\ s \in SaleType /\ orders[t] = NoOrder
      /\ held[t].counter = counter[s.store] + 1
  BY <1>0, SaleAssumption DEF CommitSale, Commit, Done, StoreHeld, Open
<1>2. s.store \in Store /\ s.links \in Seq(Discount) /\ counter[s.store] \in Nat
  BY <1>0, <1>1 DEF SaleType, SaleTypes
<1>3. new \in OrderType /\ new # NoOrder
  BY <1>1, <1>2, NamesAssumption DEF NewOrder, OrderType, SaleType, Status
<1>4. /\ orders' = [orders EXCEPT ![t] = new]
      /\ counter' = [counter EXCEPT ![s.store] = held[t].counter]
      /\ usage' = [d \in Discount |-> usage[d] + Uses(s.links, d)]
      /\ held' = [held EXCEPT ![t] = NoStore]
      /\ pc' = [pc EXCEPT ![t] = "committed"]
      /\ UNCHANGED <<sale, stage>>
  BY DEF CommitSale, Commit, ReleaseStore
<1>5. t \in OrderId /\ t \notin Past
  BY NamesAssumption DEF OrderId
<1>6. /\ Orders' = Orders \cup {t} /\ t \notin Orders
      /\ orders'[t] = new /\ \A o \in Orders : orders'[o] = orders[o]
  BY <1>0, <1>1, <1>3, <1>4, <1>5 DEF SaleTypes, Orders
<1>7. SaleTypes'
  BY <1>0, <1>1, <1>2, <1>3, <1>4, <1>5 DEF SaleTypes, Uses
<1>8. StoreHeld'
  <2>1. /\ pc'[t] = "committed" /\ held'[t] = NoStore
        /\ \A u \in Tx \ {t} :
             pc'[u] = pc[u] /\ held'[u] = held[u] /\ orders'[u] = orders[u]
    BY <1>0, <1>4, <1>5 DEF SaleTypes, StockTypeOK, OrderId
  <2>2. \A u \in Tx \ {t} : held[u] # NoStore => counter'[sale[u].store] = counter[sale[u].store]
    BY <1>0, <1>1, <1>2, <1>4 DEF StoreHeld, SaleTypes
  <2> QED
    BY <1>0, <1>4, <2>1, <2>2 DEF StoreHeld, Open
<1>9. Numbered'
  <2>1. new.store = s.store /\ new.receipt = counter[s.store] + 1
    BY <1>1 DEF NewOrder
  <2>2. counter' = [counter EXCEPT ![s.store] = counter[s.store] + 1]
    BY <1>1, <1>4
  <2>3. Numbered /\ counter \in [Store -> Nat]
    BY <1>0 DEF SalesInv, SaleTypes
  <2> HIDE DEF s, new
  <2> QED
    BY <1>2, <1>6, <2>1, <2>2, <2>3, NextReceipt
<1>10. Counted'
  <2> SUFFICES ASSUME NEW d \in Discount
               PROVE  /\ usage'[d] = Cardinality(LinkedBy(d)')
                      /\ IsFiniteSet(LinkedBy(d)')
    BY DEF Counted, UsageCountsOrders, LinkedBy
  <2>1. usage[d] = Cardinality(LinkedBy(d)) /\ IsFiniteSet(LinkedBy(d)) /\ usage[d] \in Nat
    BY <1>0 DEF SalesInv, Counted, UsageCountsOrders, LinkedBy, SaleTypes
  <2>2. new.links = s.links
    BY DEF NewOrder
  <2>3. usage'[d] = usage[d] + Uses(s.links, d)
    BY <1>4
  <2>4. CASE d \in Range(s.links)
    <3>1. LinkedBy(d)' = LinkedBy(d) \cup {t} /\ t \notin LinkedBy(d)
      BY <1>5, <1>6, <2>2, <2>4 DEF LinkedBy
    <3> QED
      BY <2>1, <2>3, <2>4, <3>1, FS_AddElement DEF Uses
  <2>5. CASE d \notin Range(s.links)
    <3>1. LinkedBy(d)' = LinkedBy(d)
      BY <1>5, <1>6, <2>2, <2>5 DEF LinkedBy
    <3> QED
      BY <2>1, <2>3, <2>5, <3>1 DEF Uses
  <2> QED
    BY <2>4, <2>5
<1> QED
  BY <1>7, <1>8, <1>9, <1>10

-----------------------------------------------------------------------------
LEMMA NextSalesInv == SalesInv /\ [SalesNext]_salesVars => SalesInv'
<1> SUFFICES ASSUME SalesInv, [SalesNext]_salesVars
             PROVE  SalesInv'
  OBVIOUS
<1>1. ASSUME NEW t \in Tx, NEW s \in Sale, OpenSale(t, s)
      PROVE  SalesInv'
  BY <1>1, OpenSaleInv
<1>2. ASSUME NEW t \in Tx, RejectSale(t)
      PROVE  SalesInv'
  BY <1>2, AbortSaleInv DEF RejectSale, Open
<1>3. ASSUME NEW t \in Tx, TakeReceipt(t)
      PROVE  SalesInv'
  BY <1>3, TakeReceiptInv
<1>4. ASSUME NEW t \in Tx, SaleStep(t, Statement(t))
      PROVE  SalesInv'
  BY <1>4, SaleStatementInv
<1>5. ASSUME NEW t \in Tx, SaleStep(t, Fail(t))
      PROVE  SalesInv'
  <2>1. pc'[t] = "aborted"
    BY <1>5 DEF SaleStep, Fail, Rollback, SalesInv, StockInv, StockTypeOK
  <2> QED
    BY <1>5, <2>1, AbortSaleInv DEF SaleStep, Fail
<1>6. ASSUME NEW t \in Tx, CommitSale(t)
      PROVE  SalesInv'
  <2>1. StockInv'
    BY <1>6, CommitInv DEF CommitSale, SalesInv
  <2> QED
    BY <1>6, <2>1, CommitTurns, CommitNumbers DEF SalesInv
<1>7. CASE UNCHANGED salesVars
  <2>1. UNCHANGED stockVars /\ UNCHANGED saleVars
    BY <1>7 DEF salesVars
  <2>2. StockInv'
    BY <2>1, NextStockInv DEF SalesInv
  <2>3. SaleTypes' /\ StoreHeld'
    BY <2>1 DEF SalesInv, SaleTypes, StoreHeld, stockVars, saleVars
  <2>5. Numbered' /\ Counted'
    BY <2>1 DEF SalesInv, Numbered, ReceiptsGapless, OrdersOf, Orders, Counted,
                UsageCountsOrders, LinkedBy, saleVars
  <2>4. TurnsTaken'
    BY <2>1 DEF SalesInv, TurnsTaken, SellsOwnRows, Sells, NothingStale, BasisCurrent, At,
                Sees, Target, Current, stockVars, saleVars
  <2> QED
    BY <2>2, <2>3, <2>4, <2>5 DEF SalesInv
<1> QED
  BY <1>1, <1>2, <1>3, <1>4, <1>5, <1>6, <1>7
     DEF SalesNext, SaleStatement, SalesTerminating

(* The inductive invariant: the store lock and what it protects.           *)
THEOREM SalesInvariant == SalesSpec => []SalesInv
BY SalesInitInv, NextSalesInv, PTL DEF SalesSpec

(* The orders of a store carry the numbers 1 to receiptCounter, each once. *)
THEOREM SalesReceiptsGapless == SalesSpec => []ReceiptsGapless
<1>1. SalesInv => ReceiptsGapless
  BY DEF SalesInv, Numbered
<1> QED
  BY <1>1, SalesInvariant, PTL

(* A discount has been used once by every order that links it.             *)
THEOREM SalesUsageCounts == SalesSpec => []UsageCountsOrders
<1>1. SalesInv => UsageCountsOrders
  BY DEF SalesInv, Counted
<1> QED
  BY <1>1, SalesInvariant, PTL

(* Two sales that may touch a row are of one store, and only one of them   *)
(* holds it: nobody waits for anybody else's row.                          *)
LEMMA NobodyWaits ==
  ASSUME SalesInv, NEW t \in Tx, NEW u \in Tx
  PROVE  ~WaitsFor(t, u)
<1> SUFFICES ASSUME WaitsFor(t, u)
             PROVE  FALSE
  OBVIOUS
<1>0. StockTypeOK /\ StoreHeld /\ SellsOwnRows
  BY DEF SalesInv, StockInv, TurnsTaken
<1>1. CASE todo[t] = <<>>
  <2>1. pc[t] = "insert"
    BY <1>1 DEF WaitsFor, Locking, At
  <2> QED
    BY <1>0, <1>1, <2>1 DEF SellsOwnRows
<1>2. CASE todo[t] # <<>>
  <2>1. todo[t] \in Seq(Step) /\ 1 \in 1 .. Len(todo[t]) /\ Head(todo[t]) = todo[t][1]
    BY <1>0, <1>2 DEF StockTypeOK
  <2>2. pc[t] \in Open /\ t # u /\ work[u][Target(t)] # NoWrite
    BY DEF WaitsFor, Locking, At, Open
  <2>3. Target(t) \in Row /\ held[t] # NoStore /\ Sells(t, Target(t))
    BY <1>0, <1>2, <2>1, <2>2, StepTypes DEF SellsOwnRows, Target, Current
  <2>4. held[u] # NoStore /\ Sells(u, Target(t))
    BY <1>0, <2>2, <2>3 DEF SellsOwnRows
  <2> QED
    BY <1>0, <2>2, <2>3, <2>4, SalesApart
<1> QED
  BY <1>1, <1>2

LEMMA TurnsTaking == SalesInv => SalesTakeTurns
<1> SUFFICES ASSUME SalesInv PROVE SalesTakeTurns
  OBVIOUS
<1>1. \A t \in Tx : ~InWaitCycle(t)
  BY NobodyWaits DEF InWaitCycle, InCycle
<1> QED
  BY <1>1 DEF SalesTakeTurns, SalesInv, TurnsTaken, NothingStale

(* Sales neither lose an update of a level nor deadlock.                   *)
THEOREM SalesSerialised == SalesSpec => []SalesTakeTurns
BY TurnsTaking, SalesInvariant, PTL

(* So under checkouts alone, however many, no level is ever negative and   *)
(* every level is the sum of its movements.                                *)
THEOREM SalesBooksBalance == SalesSpec => [](NeverNegative /\ LevelIsSumOfMovements)
<1>1. SalesInv => NeverNegative /\ LevelIsSumOfMovements
  BY DEF SalesInv, StockInv, TurnsTaken, NothingStale, BooksBalance, LevelIsSumOfMovements
<1> QED
  BY <1>1, SalesInvariant, PTL

-----------------------------------------------------------------------------
(* Sales, adjustments and voids.                                           *)
Amending == {"adjust", "adjusting", "void", "voiding"}
Decided == {"adjusting", "voiding"}

(* A program counter and a memory for every transaction.                   *)
Slots ==
  /\ pc \in [Tx -> PC]
  /\ DOMAIN orders = OrderId
  /\ stage = [t \in Tx |-> stage[t]]
  /\ DOMAIN snap = Tx /\ DOMAIN draft = Tx

(* The order a transaction creates appears with its commit.                *)
OwnOrder == \A t \in Tx : pc[t] # "committed" => orders[t] = NoOrder

(* The copy an open adjustment or void works from is the order as it is,   *)
(* and past the checks that order exists and is not cancelled.             *)
CopyIsCurrent ==
  \A t \in Tx : pc[t] \in Open /\ stage[t] \in Amending => snap[t] = orders[draft[t].order]
StillLive ==
  \A t \in Tx : pc[t] \in Open /\ stage[t] \in Decided => snap[t] # NoOrder /\ ~Cancelled(snap[t])

OrdersInv == Slots /\ (~overlapped => Alone /\ OwnOrder /\ CopyIsCurrent /\ StillLive)

-----------------------------------------------------------------------------
LEMMA OrdersInitInv == OrdersInit => OrdersInv
<1> SUFFICES ASSUME OrdersInit PROVE OrdersInv
  OBVIOUS
<1>1. pc = [t \in Tx |-> "idle"]
  BY DEF OrdersInit, SalesInit, StockInit
<1>2. Slots
  BY <1>1 DEF Slots, OrdersInit, SalesInit, PC
<1>3. OwnOrder
  BY NamesAssumption DEF OwnOrder, OrdersInit, SalesInit, OrderId
<1> QED
  BY <1>1, <1>2, <1>3 DEF OrdersInv, Alone, CopyIsCurrent, StillLive, Open

(* A statement of adjustStock moves t's program counter and no other.      *)
LEMMA StatementMoves ==
  ASSUME Slots, NEW t \in Tx, Statement(t) \/ Fail(t)
  PROVE  /\ pc[t] \in Open /\ overlapped' = overlapped
         /\ \E where \in Open \cup {"aborted"} : pc' = [pc EXCEPT ![t] = where]
<1> USE DEF Rollback, Open, At
<1>1. CASE Fail(t)
  BY <1>1 DEF Fail
<1>2. CASE ZeroDelta(t) \/ UpsertConflict(t) \/ Insufficient(t)
  BY <1>2 DEF ZeroDelta, UpsertConflict, Insufficient
<1>3. CASE DeadlockAbort(t)
  <2>1. PICK u \in Tx : WaitsFor(t, u)
    BY <1>3 DEF DeadlockAbort, InWaitCycle, InCycle
  <2>2. pc[t] \in Open
    BY <2>1 DEF WaitsFor, Locking
  <2> QED
    BY <1>3, <2>2 DEF DeadlockAbort
<1>4. CASE UpsertFound(t) \/ UpsertMissing(t) \/ UpsertInsert(t)
  BY <1>4 DEF UpsertFound, UpsertMissing, UpsertInsert, Upserting
<1>5. CASE AdjustWrite(t) \/ CountCompare(t)
  BY <1>5 DEF AdjustWrite, CountCompare
<1>6. CASE SetReorder(t)
  <2>1. pc' = [pc EXCEPT ![t] = "read"]
    BY <1>6 DEF SetReorder, Slots
  <2> QED
    BY <1>6, <2>1 DEF SetReorder
<1> QED
  BY <1>1, <1>2, <1>3, <1>4, <1>5, <1>6 DEF Statement

(* While t is the only open transaction, the others have nothing to say.   *)
LEMMA OthersAreClosed ==
  ASSUME Slots, Alone, NEW t \in Tx, pc[t] \in Open,
         NEW where \in PC, pc' = [pc EXCEPT ![t] = where]
  PROVE  \A u \in Tx : pc'[u] \in Open => u = t
BY DEF Slots, Alone

(* A step of t that leaves the orders alone keeps the invariant if it      *)
(* keeps what t itself read, or closes t.                                  *)
LEMMA KeepsOrders ==
  ASSUME OrdersInv, NEW t \in Tx, pc[t] \in Open, overlapped' = overlapped, orders' = orders,
         NEW where \in Open \cup {"aborted"}, pc' = [pc EXCEPT ![t] = where],
         NEW now, stage' = [stage EXCEPT ![t] = now], UNCHANGED <<snap, draft>>,
         where \in Open => /\ now \in Amending => stage[t] \in Amending
                           /\ now \in Decided => snap[t] # NoOrder /\ ~Cancelled(snap[t])
  PROVE  OrdersInv'
<1>0. where \in PC /\ where # "committed" /\ Slots
  BY DEF PC, Open, Ended, OrdersInv
<1>1. Slots'
  BY <1>0 DEF Slots
<1>2. ASSUME ~overlapped' PROVE Alone' /\ OwnOrder' /\ CopyIsCurrent' /\ StillLive'
  <2>1. Alone /\ OwnOrder /\ CopyIsCurrent
    BY <1>2 DEF OrdersInv
  <2>2. \A u \in Tx : pc'[u] \in Open => u = t
    BY <1>0, <2>1, OthersAreClosed
  <2>3. Alone'
    BY <2>2 DEF Alone
  <2>4. OwnOrder'
    BY <1>0, <2>1 DEF OwnOrder, Slots, Open
  <2>5. pc'[t] = where /\ stage'[t] = now
    BY <1>0 DEF Slots
  <2>6. CopyIsCurrent'
    BY <2>1, <2>2, <2>5 DEF CopyIsCurrent
  <2>7. StillLive'
    BY <2>2, <2>5 DEF StillLive
  <2> QED
    BY <2>3, <2>4, <2>6, <2>7
<1> QED
  BY <1>1, <1>2 DEF OrdersInv

(* A transaction begins while nobody is open, or overlaps.                 *)
LEMMA BeginsAlone ==
  ASSUME OrdersInv, NEW t \in Tx, NEW q, Begin(t, q), orders' = orders, NEW now,
         stage' = [stage EXCEPT ![t] = now], now \notin Decided,
         DOMAIN snap' = Tx /\ DOMAIN draft' = Tx,
         now \in Amending => snap'[t] = orders[draft'[t].order]
  PROVE  OrdersInv'
<1>0. pc' = [pc EXCEPT ![t] = "read"] /\ pc[t] = "idle" /\ Slots
  BY DEF Begin, OrdersInv
<1>1. Slots'
  BY <1>0 DEF Slots, PC, Open
<1>2. ASSUME ~overlapped' PROVE Alone' /\ OwnOrder' /\ CopyIsCurrent' /\ StillLive'
  <2>1. ~overlapped /\ \A u \in Tx : pc[u] \notin Open
    BY <1>2 DEF Begin
  <2>2. \A u \in Tx : pc'[u] \in Open => u = t
    BY <1>0, <2>1 DEF Slots
  <2>3. OwnOrder'
    BY <1>0, <2>1 DEF OrdersInv, OwnOrder, Slots
  <2>4. stage'[t] = now
    BY <1>0 DEF Slots
  <2> QED
    BY <2>2, <2>3, <2>4 DEF Alone, CopyIsCurrent, StillLive
<1> QED
  BY <1>1, <1>2 DEF OrdersInv

(* A commit closes t; the row it writes is its own or the one it read.     *)
LEMMA CommitsAlone ==
  ASSUME OrdersInv, NEW t \in Tx, Commit(t), NEW o \in OrderId, NEW row,
         orders' = [orders EXCEPT ![o] = row],
         UNCHANGED <<stage, snap, draft>>,
         ~overlapped => o = t \/ orders[o] # NoOrder
  PROVE  OrdersInv'
<1>0. pc' = [pc EXCEPT ![t] = "committed"] /\ pc[t] \in Open /\ Slots /\ overlapped' = overlapped
  BY DEF Commit, Done, Open, OrdersInv
<1>1. Slots'
  BY <1>0 DEF Slots, PC, Ended
<1>2. ASSUME ~overlapped' PROVE Alone' /\ OwnOrder' /\ CopyIsCurrent' /\ StillLive'
  <2>1. Alone /\ OwnOrder
    BY <1>0, <1>2 DEF OrdersInv
  <2>2. \A u \in Tx : pc'[u] \notin Open
    BY <1>0, <2>1 DEF Slots, Alone, Open
  <2>3. ASSUME NEW u \in Tx, pc'[u] # "committed" PROVE orders'[u] = NoOrder
    <3>1. u # t /\ pc[u] # "committed"
      BY <1>0, <2>3 DEF Slots
    <3>2. orders[u] = NoOrder
      BY <2>1, <3>1 DEF OwnOrder
    <3> QED
      BY <1>0, <1>2, <3>1, <3>2 DEF Slots
  <2> QED
    BY <2>2, <2>3 DEF Alone, OwnOrder, CopyIsCurrent, StillLive
<1> QED
  BY <1>1, <1>2 DEF OrdersInv

-----------------------------------------------------------------------------
(* One lemma for the handlers of a sale, one for the others.               *)
LEMMA SaleStepOrders ==
  ASSUME OrdersInv, NEW t \in Tx, SaleStatement(t) \/ SaleStep(t, Fail(t)),
         UNCHANGED adjustVars
  PROVE  OrdersInv'
<1> USE DEF adjustVars
<1>0. Slots /\ stage = [stage EXCEPT ![t] = stage[t]]
  BY DEF OrdersInv, Slots
<1>1. CASE RejectSale(t)
  <2>1. pc' = [pc EXCEPT ![t] = "aborted"] /\ pc[t] \in Open /\ overlapped' = overlapped
    BY <1>1 DEF RejectSale, Rollback, Open
  <2>2. UNCHANGED <<orders, stage, snap, draft>>
    BY <1>1 DEF RejectSale
  <2>3. "aborted" \notin Open
    BY DEF Open
  <2> QED
    BY <1>0, <2>1, <2>2, <2>3, KeepsOrders
<1>2. CASE TakeReceipt(t)
  <2>1. pc' = [pc EXCEPT ![t] = "read"] /\ pc[t] \in Open /\ overlapped' = overlapped
    BY <1>0, <1>2 DEF TakeReceipt, Adjusting, history, Open, Slots
  <2>2. stage' = [stage EXCEPT ![t] = "lines"] /\ UNCHANGED <<orders, snap, draft>>
    BY <1>2 DEF TakeReceipt
  <2>3. "lines" \notin Amending /\ "lines" \notin Decided /\ "read" \in Open
    BY DEF Amending, Decided, Open
  <2> QED
    BY <2>1, <2>2, <2>3, KeepsOrders
<1>3. CASE SaleStep(t, Statement(t)) \/ SaleStep(t, Fail(t))
  <2>1. UNCHANGED <<orders, stage, snap, draft>>
    BY <1>3 DEF SaleStep
  <2>2. Statement(t) \/ Fail(t)
    BY <1>3 DEF SaleStep
  <2>3. PICK where \in Open \cup {"aborted"} : pc' = [pc EXCEPT ![t] = where]
    BY <1>0, <2>2, StatementMoves
  <2>4. pc[t] \in Open /\ overlapped' = overlapped
    BY <1>0, <2>2, StatementMoves
  <2>5. CASE ~overlapped
    <3>1. stage[t] \in Decided => snap[t] # NoOrder /\ ~Cancelled(snap[t])
      BY <2>4, <2>5 DEF OrdersInv, StillLive
    <3> QED
      BY <1>0, <2>1, <2>3, <2>4, <3>1, KeepsOrders
  <2>6. CASE overlapped
    <3>1. Slots'
      BY <1>0, <2>1, <2>3 DEF Slots, PC, Ended
    <3> QED
      BY <2>4, <2>6, <3>1 DEF OrdersInv
  <2> QED
    BY <2>5, <2>6
<1>4. CASE CommitSale(t)
  <2>1. orders' = [orders EXCEPT ![t] = NewOrder(sale[t], held[t].counter)] /\ Commit(t)
    BY <1>4 DEF CommitSale
  <2>2. UNCHANGED <<stage, snap, draft>> /\ t \in OrderId
    BY <1>4 DEF CommitSale, OrderId
  <2> QED
    BY <2>1, <2>2, CommitsAlone
<1> QED
  BY <1>1, <1>2, <1>3, <1>4 DEF SaleStatement

LEMMA AmendStepOrders ==
  ASSUME OrdersInv, NEW t \in Tx,
         ReadReturns(t) \/ CommitAdjust(t) \/ ReadRestores(t) \/ CommitVoid(t)
  PROVE  OrdersInv'
<1>0. Slots
  BY DEF OrdersInv
<1>1. CASE Refuse(t) /\ pc[t] = "read"
  <2>1. pc' = [pc EXCEPT ![t] = "aborted"] /\ pc[t] \in Open /\ overlapped' = overlapped
    BY <1>1 DEF Refuse, Rollback, Open
  <2>2. UNCHANGED <<orders, snap, draft>> /\ stage' = [stage EXCEPT ![t] = stage[t]]
    BY <1>0, <1>1 DEF Refuse, saleVars, adjustVars, Slots
  <2>3. "aborted" \notin Open
    BY DEF Open
  <2> QED
    BY <2>1, <2>2, <2>3, KeepsOrders
<1>2. ASSUME NEW now \in Decided, stage' = [stage EXCEPT ![t] = now],
             stage[t] \in Amending, snap[t] # NoOrder, ~Cancelled(snap[t]), pc[t] = "read",
             UNCHANGED <<pc, overlapped, orders, snap, draft>>
      PROVE  OrdersInv'
  <2>1. pc' = [pc EXCEPT ![t] = "read"] /\ pc[t] \in Open /\ "read" \in Open
    BY <1>0, <1>2 DEF Slots, Open
  <2> QED
    BY <1>2, <2>1, KeepsOrders
<1>3. CASE ReadReturns(t)
  <2>1. CASE ~Refuse(t)
    <3>1. Acceptable(t) /\ PlanAdjust(t) /\ pc[t] = "read" /\ stage[t] = "adjust"
      BY <1>3, <2>1 DEF ReadReturns
    <3>2. stage' = [stage EXCEPT ![t] = "adjusting"] /\ snap[t] # NoOrder /\ ~Cancelled(snap[t])
      BY <3>1 DEF PlanAdjust, Acceptable
    <3>3. UNCHANGED <<pc, overlapped, orders, snap, draft>>
      BY <3>1 DEF PlanAdjust, Adjusting, history, adjustVars
    <3> QED
      BY <1>2, <3>1, <3>2, <3>3 DEF Decided, Amending
  <2> QED
    BY <1>1, <1>3, <2>1 DEF ReadReturns
<1>4. CASE ReadRestores(t)
  <2>1. CASE ~Refuse(t)
    <3>1. PlanVoid(t) /\ pc[t] = "read" /\ stage[t] = "void" /\ snap[t] # NoOrder /\ ~Cancelled(snap[t])
      BY <1>4, <2>1 DEF ReadRestores
    <3>2. stage' = [stage EXCEPT ![t] = "voiding"]
      BY <3>1 DEF PlanVoid
    <3>3. UNCHANGED <<pc, overlapped, orders, snap, draft>>
      BY <3>1 DEF PlanVoid, Adjusting, history
    <3> QED
      BY <1>2, <3>1, <3>2, <3>3 DEF Decided, Amending
  <2> QED
    BY <1>1, <1>4, <2>1 DEF ReadRestores
<1>5. ASSUME Commit(t), stage[t] \in Decided
      PROVE  ~overlapped => orders[draft[t].order] # NoOrder
  <2>1. pc[t] \in Open
    BY <1>5 DEF Commit, Done, Open
  <2> QED
    BY <1>5, <2>1 DEF OrdersInv, CopyIsCurrent, StillLive, Decided, Amending
<1>6. CASE CommitAdjust(t)
  <2> DEFINE o == draft[t].order
  <2>1. Commit(t) /\ stage[t] = "adjusting" /\ UNCHANGED <<stage, snap, draft>>
    BY <1>6 DEF CommitAdjust
  <2>2. PICK total, status : orders' = [orders EXCEPT ![o].refunded = total, ![o].status = status]
    BY <1>6 DEF CommitAdjust
  <2>3. orders' = [orders EXCEPT ![o] = [[orders[o] EXCEPT !.refunded = total] EXCEPT !.status = status]]
    BY <2>2
  <2>4. CASE o \in OrderId
    BY <1>5, <2>1, <2>3, <2>4, CommitsAlone DEF Decided
  <2>5. CASE o \notin OrderId
    <3>1. orders' = [orders EXCEPT ![t] = orders[t]] /\ t \in OrderId
      BY <1>0, <2>3, <2>5 DEF Slots, OrderId
    <3> QED
      BY <2>1, <3>1, CommitsAlone
  <2> QED
    BY <2>4, <2>5
<1>7. CASE CommitVoid(t)
  <2> DEFINE o == draft[t].order
  <2>1. Commit(t) /\ stage[t] = "voiding" /\ UNCHANGED <<stage, snap, draft>>
    BY <1>7 DEF CommitVoid
  <2>2. orders' = [orders EXCEPT ![o] = [orders[o] EXCEPT !.status = "CANCELLED"]]
    BY <1>7 DEF CommitVoid
  <2>3. CASE o \in OrderId
    BY <1>5, <2>1, <2>2, <2>3, CommitsAlone DEF Decided
  <2>4. CASE o \notin OrderId
    <3>1. orders' = [orders EXCEPT ![t] = orders[t]] /\ t \in OrderId
      BY <1>0, <2>2, <2>4 DEF Slots, OrderId
    <3> QED
      BY <2>1, <3>1, CommitsAlone
  <2> QED
    BY <2>3, <2>4
<1> QED
  BY <1>3, <1>4, <1>6, <1>7

LEMMA OpenStepOrders ==
  ASSUME OrdersInv, NEW t \in Tx,
         \/ \E s \in Sale : OpenSale(t, s) /\ UNCHANGED adjustVars
         \/ \E a \in Adjustment : OpenAdjust(t, a)
         \/ \E o \in Voidable : OpenVoid(t, o)
  PROVE  OrdersInv'
<1>0. Slots /\ "counter" \notin Amending /\ \A now \in {"counter", "adjust", "void"} : now \notin Decided
  BY DEF OrdersInv, Amending, Decided
<1>1. CASE \E s \in Sale : OpenSale(t, s) /\ UNCHANGED adjustVars
  <2>1. Begin(t, <<>>) /\ orders' = orders /\ stage' = [stage EXCEPT ![t] = "counter"]
    BY <1>1 DEF OpenSale
  <2>2. DOMAIN snap' = Tx /\ DOMAIN draft' = Tx
    BY <1>0, <1>1 DEF adjustVars, Slots
  <2> QED
    BY <1>0, <2>1, <2>2, BeginsAlone
<1>2. ASSUME NEW a \in Adjustment, OpenAdjust(t, a) PROVE OrdersInv'
  <2>1. Begin(t, <<>>) /\ orders' = orders /\ stage' = [stage EXCEPT ![t] = "adjust"]
    BY <1>2 DEF OpenAdjust
  <2>2. DOMAIN snap' = Tx /\ DOMAIN draft' = Tx /\ snap'[t] = orders[draft'[t].order]
    BY <1>0, <1>2 DEF OpenAdjust, Slots
  <2> QED
    BY <1>0, <2>1, <2>2, BeginsAlone
<1>3. ASSUME NEW o \in Voidable, OpenVoid(t, o) PROVE OrdersInv'
  <2>1. Begin(t, <<>>) /\ orders' = orders /\ stage' = [stage EXCEPT ![t] = "void"]
    BY <1>3 DEF OpenVoid
  <2>2. DOMAIN snap' = Tx /\ DOMAIN draft' = Tx /\ snap'[t] = orders[draft'[t].order]
    BY <1>0, <1>3 DEF OpenVoid, Slots
  <2> QED
    BY <1>0, <2>1, <2>2, BeginsAlone
<1> QED
  BY <1>1, <1>2, <1>3

LEMMA NextOrdersInv == OrdersInv /\ [OrdersNext]_ordersVars => OrdersInv'
<1> SUFFICES ASSUME OrdersInv, [OrdersNext]_ordersVars PROVE OrdersInv'
  OBVIOUS
<1>1. CASE UNCHANGED ordersVars
  BY <1>1 DEF ordersVars, salesVars, stockVars, saleVars, adjustVars, OrdersInv, Slots, Alone,
              OwnOrder, CopyIsCurrent, StillLive
<1> QED
  BY <1>1, OpenStepOrders, SaleStepOrders, AmendStepOrders
     DEF OrdersNext, OrdersStatement, OrdersTerminating

(* The inductive invariant of sales, adjustments and voids.                *)
THEOREM OrdersInvariant == OrdersSpec => []OrdersInv
BY OrdersInitInv, NextOrdersInv, PTL DEF OrdersSpec

(* A step that overlaps no other leaves a cancelled order as it is.        *)
LEMMA CancelledStays ==
  ASSUME OrdersInv, OrdersNext, ~overlapped', NEW o \in Orders, orders[o].status = "CANCELLED"
  PROVE  orders'[o] = orders[o]
<1>0. Slots /\ o \in OrderId /\ orders[o] # NoOrder
  BY DEF OrdersInv, Orders
<1>1. ASSUME NEW t \in Tx, CommitSale(t) PROVE orders'[o] = orders[o]
  <2>1. overlapped' = overlapped /\ pc[t] # "committed"
    BY <1>1 DEF CommitSale, Commit, Done
  <2>2. orders[t] = NoOrder
    BY <2>1 DEF OrdersInv, OwnOrder
  <2> QED
    BY <1>0, <1>1, <2>2 DEF CommitSale
<1>2. ASSUME NEW t \in Tx, CommitAdjust(t) \/ CommitVoid(t) PROVE orders'[o] = orders[o]
  <2>1. overlapped' = overlapped /\ pc[t] \in Open /\ stage[t] \in Decided
    BY <1>2 DEF CommitAdjust, CommitVoid, Commit, Done, Open, Decided
  <2>2. ~Cancelled(orders[draft[t].order])
    BY <2>1 DEF OrdersInv, CopyIsCurrent, StillLive, Decided, Amending
  <2>3. o # draft[t].order
    BY <2>2 DEF Cancelled
  <2>4. CASE CommitVoid(t)
    <3>1. orders' = [orders EXCEPT ![draft[t].order].status = "CANCELLED"]
      BY <2>4 DEF CommitVoid
    <3> QED
      BY <1>0, <2>3, <3>1 DEF Slots
  <2>5. CASE CommitAdjust(t)
    <3>1. PICK total, status : orders' = [orders EXCEPT ![draft[t].order].refunded = total,
                                                        ![draft[t].order].status = status]
      BY <2>5 DEF CommitAdjust
    <3> QED
      BY <1>0, <2>3, <3>1 DEF Slots
  <2> QED
    BY <1>2, <2>4, <2>5
<1>3. CASE orders' = orders
  BY <1>3
<1>4. ASSUME NEW t \in Tx, RejectSale(t) \/ TakeReceipt(t) \/ SaleStep(t, Statement(t))
                            \/ SaleStep(t, Fail(t)) \/ ReadReturns(t) \/ ReadRestores(t)
      PROVE  orders' = orders
  BY <1>4 DEF RejectSale, TakeReceipt, SaleStep, ReadReturns, ReadRestores, PlanAdjust, PlanVoid,
              Refuse, saleVars
<1>5. ASSUME NEW t \in Tx, \/ \E s \in Sale : OpenSale(t, s)
                           \/ \E a \in Adjustment : OpenAdjust(t, a)
                           \/ \E v \in Voidable : OpenVoid(t, v)
      PROVE  orders' = orders
  BY <1>5 DEF OpenSale, OpenAdjust, OpenVoid
<1>6. CASE OrdersTerminating
  BY <1>6 DEF OrdersTerminating, ordersVars, salesVars, saleVars
<1> QED
  BY <1>1, <1>2, <1>3, <1>4, <1>5, <1>6 DEF OrdersNext, OrdersStatement, SaleStatement

(* "Order already cancelled": no adjustment, void or sale that does not    *)
(* overlap another changes a cancelled order.                              *)
THEOREM OrdersCancelledIsFinal == OrdersSpec => CancelledIsFinal
<1>1. OrdersInv /\ [OrdersNext]_ordersVars
        => [~overlapped' => \A o \in Orders :
              orders[o].status = "CANCELLED" => orders'[o] = orders[o]]_ordersVars
  BY CancelledStays
<1> QED
  BY <1>1, OrdersInvariant, PTL DEF OrdersSpec, CancelledIsFinal

-----------------------------------------------------------------------------
(* The loop behind Kept: the sequence it has built after n positions.      *)
Passes(f, s, I, n) ==
  f = [k \in 0 .. n |-> IF k = 0 THEN <<>>
                        ELSE IF k \in I THEN Append(f[k - 1], s[k]) ELSE f[k - 1]]

LEMMA PassesExists ==
  ASSUME NEW T, NEW s \in Seq(T), NEW I
  PROVE  \E f \in [0 .. Len(s) -> Seq(T)] : Passes(f, s, I, Len(s))
<1> DEFINE G == {n \in Nat : n <= Len(s) => \E f \in [0 .. n -> Seq(T)] : Passes(f, s, I, n)}
<1>1. 0 \in G
  <2>1. [k \in 0 .. 0 |-> <<>>] \in [0 .. 0 -> Seq(T)]
    OBVIOUS
  <2>2. Passes([k \in 0 .. 0 |-> <<>>], s, I, 0)
    BY DEF Passes
  <2> QED
    BY <2>1, <2>2
<1>2. ASSUME NEW n \in Nat, n \in G PROVE n + 1 \in G
  <2> SUFFICES ASSUME n + 1 <= Len(s)
               PROVE  \E f \in [0 .. n + 1 -> Seq(T)] : Passes(f, s, I, n + 1)
    OBVIOUS
  <2>1. PICK f \in [0 .. n -> Seq(T)] : Passes(f, s, I, n)
    BY <1>2
  <2> DEFINE last == IF n + 1 \in I THEN Append(f[n], s[n + 1]) ELSE f[n]
             g == [k \in 0 .. n + 1 |-> IF k = n + 1 THEN last ELSE f[k]]
  <2>2. last \in Seq(T)
    OBVIOUS
  <2>3. g \in [0 .. n + 1 -> Seq(T)]
    BY <2>2
  <2>4. \A k \in 0 .. n : f[k] = IF k = 0 THEN <<>>
                                  ELSE IF k \in I THEN Append(f[k - 1], s[k]) ELSE f[k - 1]
    BY <2>1 DEF Passes
  <2>5. \A k \in 0 .. n + 1 : g[k] = IF k = 0 THEN <<>>
                                      ELSE IF k \in I THEN Append(g[k - 1], s[k]) ELSE g[k - 1]
    <3> SUFFICES ASSUME NEW k \in 0 .. n + 1
                 PROVE  g[k] = IF k = 0 THEN <<>>
                               ELSE IF k \in I THEN Append(g[k - 1], s[k]) ELSE g[k - 1]
      OBVIOUS
    <3>1. CASE k = n + 1
      <4>1. g[k] = last /\ g[k - 1] = f[n] /\ k # 0
        BY <3>1
      <4> QED
        BY <3>1, <4>1
    <3>2. CASE k # n + 1
      <4>1. k \in 0 .. n /\ g[k] = f[k] /\ (k # 0 => g[k - 1] = f[k - 1])
        BY <3>2
      <4> HIDE DEF g
      <4> QED
        BY <2>4, <4>1
    <3> QED
      BY <3>1, <3>2
  <2>6. Passes(g, s, I, n + 1)
    <3> HIDE DEF g
    <3> QED
      BY <2>3, <2>5 DEF Passes
  <2> QED
    BY <2>3, <2>6
<1>3. Nat \subseteq G
  <2> HIDE DEF G
  <2> QED
    BY <1>1, <1>2, NatSetInduction
<1> QED
  BY <1>3

LEMMA KeptPasses ==
  ASSUME NEW T, NEW s \in Seq(T), NEW I
  PROVE  \E f : Passes(f, s, I, Len(s)) /\ Kept(s, I) = f[Len(s)]
<1> DEFINE c == CHOOSE f : Passes(f, s, I, Len(s))
<1>1. Passes(c, s, I, Len(s))
  BY PassesExists
<1>2. Kept(s, I) = c[Len(s)]
  BY DEF Kept, Passes
<1> QED
  BY <1>1, <1>2

(* What a step of s does to row r, unless the loop passes over it.         *)
KeptMoves(s, I, r) == [i \in DOMAIN s |-> IF i \in I THEN Moves(s[i], r) ELSE 0]

LEMMA KeptEffect ==
  ASSUME NEW s \in Seq(Step), NEW I
  PROVE  /\ Kept(s, I) \in Seq(Step)
         /\ Adjusts(s) => Adjusts(Kept(s, I))
         /\ \A r : Effect(Kept(s, I), r) = SumFunctionOnSet(KeptMoves(s, I, r), DOMAIN s)
<1>1. PICK f : Passes(f, s, I, Len(s)) /\ Kept(s, I) = f[Len(s)]
  BY KeptPasses
<1>2. Len(s) \in Nat /\ DOMAIN s = 1 .. Len(s) /\ \A i \in 1 .. Len(s) : s[i] \in Step
  OBVIOUS
<1>3. f[0] = <<>> /\ \A k \in 1 .. Len(s) : f[k] = IF k \in I THEN Append(f[k - 1], s[k]) ELSE f[k - 1]
  <2>1. \A k \in 0 .. Len(s) : f[k] = IF k = 0 THEN <<>>
                                     ELSE IF k \in I THEN Append(f[k - 1], s[k]) ELSE f[k - 1]
    BY <1>1, Zenon DEF Passes
  <2>2. 0 \in 0 .. Len(s) /\ \A k \in 1 .. Len(s) : k \in 0 .. Len(s) /\ k # 0
    BY <1>2
  <2> QED
    BY <2>1, <2>2
<1> DEFINE sum(n, r) == SumFunctionOnSet(KeptMoves(s, I, r), 1 .. n)
           Good(n) == /\ f[n] \in Seq(Step)
                      /\ Adjusts(s) => Adjusts(f[n])
                      /\ \A r : Effect(f[n], r) = sum(n, r)
           G == {n \in Nat : n <= Len(s) => Good(n)}
<1>4. \A r : \A n \in 0 .. Len(s) : IntValued(KeptMoves(s, I, r), 1 .. n)
  <2> SUFFICES ASSUME NEW r, NEW n \in 0 .. Len(s), NEW i \in 1 .. n
               PROVE  KeptMoves(s, I, r)[i] \in Int
    BY DEF IntValued
  <2>1. i \in DOMAIN s /\ s[i] \in Step
    BY <1>2
  <2>2. Moves(s[i], r) \in Int
    BY <2>1 DEF Moves, Step
  <2> QED
    BY <2>1, <2>2 DEF KeptMoves
<1>5. 0 \in G
  <2>1. 1 .. 0 = {} /\ <<>> \in Seq(Step) /\ Adjusts(<<>>)
    BY DEF Adjusts
  <2>2. \A r : Effect(f[0], r) = sum(0, r)
    BY <1>3, <2>1, EffectEmpty, SumEmpty
  <2> QED
    BY <1>3, <2>1, <2>2
<1>6. ASSUME NEW n \in Nat, n \in G PROVE n + 1 \in G
  <2> SUFFICES ASSUME n + 1 <= Len(s) PROVE Good(n + 1)
    OBVIOUS
  <2>1. n \in 0 .. Len(s) /\ n + 1 \in 1 .. Len(s) /\ n + 1 \in 0 .. Len(s) /\ Good(n)
    BY <1>2, <1>6
  <2>2. s[n + 1] \in Step /\ <<s[n + 1]>> \in Seq(Step) /\ n + 1 \in DOMAIN s
    BY <1>2, <2>1
  <2>3. f[n + 1] = IF n + 1 \in I THEN f[n] \o <<s[n + 1]>> ELSE f[n]
    <3>1. Append(f[n], s[n + 1]) = f[n] \o <<s[n + 1]>>
      BY <2>1, <2>2
    <3>2. (n + 1) - 1 = n
      OBVIOUS
    <3> QED
      BY <1>3, <2>1, <3>1, <3>2
  <2>4. f[n + 1] \in Seq(Step)
    BY <2>1, <2>2, <2>3
  <2>5. ASSUME Adjusts(s) PROVE Adjusts(f[n + 1])
    <3>1. Adjusts(f[n]) /\ s[n + 1].op = "adjust" /\ f[n] \in Seq(Step)
      BY <2>1, <2>5 DEF Adjusts
    <3>2. Adjusts(f[n] \o <<s[n + 1]>>)
      <4> SUFFICES ASSUME NEW i \in 1 .. Len(f[n] \o <<s[n + 1]>>)
                   PROVE  (f[n] \o <<s[n + 1]>>)[i].op = "adjust"
        BY DEF Adjusts
      <4>1. CASE i \in 1 .. Len(f[n])
        <5>1. (f[n] \o <<s[n + 1]>>)[i] = f[n][i]
          BY <2>2, <3>1, <4>1
        <5> QED
          BY <3>1, <4>1, <5>1 DEF Adjusts
      <4>2. CASE i = Len(f[n]) + 1
        <5>1. (f[n] \o <<s[n + 1]>>)[i] = s[n + 1]
          BY <2>2, <3>1, <4>2
        <5> QED
          BY <3>1, <5>1
      <4>3. i \in 1 .. Len(f[n]) \/ i = Len(f[n]) + 1
        BY <2>2, <3>1
      <4> QED
        BY <4>1, <4>2, <4>3
    <3> QED
      BY <2>3, <3>1, <3>2
  <2>6. ASSUME NEW r PROVE Effect(f[n + 1], r) = sum(n + 1, r)
    <3>1. sum(n + 1, r) = sum(n, r) + KeptMoves(s, I, r)[n + 1]
      BY <1>4, <2>1, SumLast
    <3>2. KeptMoves(s, I, r)[n + 1] = IF n + 1 \in I THEN Moves(s[n + 1], r) ELSE 0
      BY <2>2 DEF KeptMoves
    <3>3. Effect(f[n], r) = sum(n, r) /\ f[n] \in Seq(Step)
      BY <2>1
    <3>4. Effect(f[n], r) \in Int
      BY <3>3, EffectTypes
    <3>5. Effect(f[n] \o <<s[n + 1]>>, r) = Effect(f[n], r) + Moves(s[n + 1], r)
      <4>1. Effect(f[n] \o <<s[n + 1]>>, r) = Effect(f[n], r) + Effect(<<s[n + 1]>>, r)
        BY <2>2, <3>3, EffectConcat
      <4>2. Effect(<<s[n + 1]>>, r) = Moves(s[n + 1], r)
        BY <2>2, EffectOne
      <4> QED
        BY <4>1, <4>2
    <3> QED
      BY <2>3, <3>1, <3>2, <3>3, <3>4, <3>5
  <2> QED
    BY <2>4, <2>5, <2>6
<1>7. Nat \subseteq G
  <2> HIDE DEF G
  <2> QED
    BY <1>5, <1>6, NatSetInduction
<1>8. Good(Len(s))
  BY <1>2, <1>7
<1> QED
  BY <1>1, <1>2, <1>8

-----------------------------------------------------------------------------
(* Sales, adjustments and voids that overlap in any way.                   *)

AllStages == Stages \cup Amending
Named == {[order |-> o] : o \in OrderId}

AmendTypes ==
  /\ orders \in [OrderId -> OrderType \cup {NoOrder}]
  /\ counter \in [Store -> Nat]
  /\ sale \in [Tx -> Sale \cup {NoOrder}]
  /\ stage \in [Tx -> AllStages]
  /\ held \in [Tx -> StoreRow \cup {NoStore}]
  /\ adjusts \in [Tx -> Adjustment \cup {NoOrder}]
  /\ restored \in [OrderId -> Seq(Nat)]
  /\ draft \in [Tx -> Adjustment \cup Named \cup {NoOrder}]
  /\ snap \in [Tx -> OrderType \cup {NoOrder}]
  /\ plan \in [Tx -> Seq(Nat)]

(* The items that are returned are items of the order.                     *)
Within(returns, lines) == \A k \in DOMAIN returns : returns[k].item \in DOMAIN lines

(* The tables: what an adjustment or a void says of an order, it says of   *)
(* one that exists, and nothing is written before its commit; no order     *)
(* gives more discount than it comes to.                                   *)
Recorded ==
  /\ \A t \in Tx : pc[t] # "committed" => orders[t] = NoOrder /\ adjusts[t] = NoOrder
  /\ \A t \in Amended : /\ orders[adjusts[t].order] # NoOrder
                        /\ Within(adjusts[t].returns, orders[adjusts[t].order].lines)
  /\ \A o \in OrderId : DOMAIN restored[o] # {} =>
       orders[o] # NoOrder /\ DOMAIN restored[o] = DOMAIN orders[o].lines
  /\ \A o \in Orders : Due(orders[o]) >= 0
  /\ IsFiniteSet(Amended) /\ IsFiniteSet(Orders)

(* What an order was sold as.                                              *)
SameItems(order, other) == order.lines = other.lines /\ order.discount = other.discount

(* What refundedTotal shows is part of what the adjustments paid back.     *)
RefundsStated ==
  \A o \in Orders : Covered(orders[o]) =>
    orders[o].refunded \in Nat /\ orders[o].refunded <= RefundsOf(o)

(* What an open transaction holds in its memory, by its stage.             *)
Handling(t) ==
  /\ stage[t] # "none"
  /\ stage[t] \in {"counter", "lines"} => sale[t] \in Sale
  /\ stage[t] = "lines" => held[t] \in StoreRow /\ Due(sale[t]) >= 0
  /\ stage[t] \in {"adjust", "adjusting"} => draft[t] \in Adjustment
  /\ stage[t] \in {"void", "voiding"} => draft[t] \in Named
  /\ stage[t] \in Decided => snap[t] \in OrderType
  /\ stage[t] = "adjusting" => Within(draft[t].returns, snap[t].lines)
  /\ stage[t] = "voiding" => DOMAIN plan[t] = DOMAIN snap[t].lines

(* An order that was read is still there, with the same items, and it      *)
(* paid back no more than its adjustments have by now.                     *)
Copied(t) ==
  stage[t] \in Amending /\ snap[t] # NoOrder =>
    LET order == orders[draft[t].order]
    IN /\ order # NoOrder
       /\ SameItems(order, snap[t])
       /\ Covered(order) =>
            snap[t].refunded \in Nat /\ snap[t].refunded <= RefundsOf(draft[t].order)

Handled == \A t \in Tx : pc[t] \in Open => Handling(t) /\ Copied(t)

AmendInv == StockInv /\ AmendTypes /\ Recorded /\ RefundsStated /\ Handled

Local(u) == <<pc[u], stage[u], sale[u], held[u], draft[u], snap[u], plan[u]>>

-----------------------------------------------------------------------------
(* Rounding.                                                               *)

LEMMA DivBounds ==
  ASSUME NEW n \in Int, NEW d \in Nat \ {0}
  PROVE  /\ n \div d \in Int
         /\ (n \div d) * d <= n /\ n < (n \div d + 1) * d
OBVIOUS

LEMMA SmallMultiple ==
  ASSUME NEW z \in Int, NEW d \in Nat \ {0}, z * d < d, -d < z * d
  PROVE  z = 0
<1>1. CASE z >= 1
  <2>1. PICK k \in Nat : z = k + 1
    BY <1>1
  <2>2. z * d = k * d + d /\ k * d \in Nat
    BY <2>1
  <2> QED
    BY <2>2
<1>2. CASE z <= -1
  <2>1. PICK k \in Nat : z = -k - 1
    BY <1>2
  <2>2. z * d = -(k * d) - d /\ k * d \in Nat
    BY <2>1
  <2> QED
    BY <2>2
<1> QED
  BY <1>1, <1>2

(* A rounded quotient is at most half of the divisor away.                 *)
LEMMA HalfUpBounds ==
  ASSUME NEW a \in Int, NEW b \in Nat \ {0}
  PROVE  /\ HalfUp(a, b) \in Int
         /\ 2 * (HalfUp(a, b) * b - a) <= b /\ -b < 2 * (HalfUp(a, b) * b - a)
<1> DEFINE q == HalfUp(a, b)
<1>1. q = (2 * a + b) \div (2 * b) /\ 2 * a + b \in Int /\ 2 * b \in Nat \ {0}
  BY DEF HalfUp
<1>2. q \in Int /\ q * (2 * b) <= 2 * a + b /\ 2 * a + b < (q + 1) * (2 * b)
  BY <1>1, DivBounds
<1> HIDE DEF q
<1>3. q * (2 * b) = 2 * (q * b) /\ (q + 1) * (2 * b) = 2 * (q * b) + 2 * b /\ q * b \in Int
  BY <1>2
<1>4. 2 * (q * b - a) <= b /\ -b < 2 * (q * b - a)
  BY <1>2, <1>3
<1> QED
  BY <1>2, <1>4 DEF q

LEMMA HalfUpNat ==
  ASSUME NEW a \in Nat, NEW b \in Nat \ {0}
  PROVE  HalfUp(a, b) \in Nat
<1> DEFINE q == HalfUp(a, b)
<1>1. q \in Int /\ -b < 2 * (q * b - a)
  BY HalfUpBounds
<1> HIDE DEF q
<1>2. CASE q < 0
  <2>1. PICK k \in Nat : q = -k - 1
    BY <1>1, <1>2
  <2>2. q * b = -(k * b) - b /\ k * b \in Nat
    BY <2>1
  <2> QED
    BY <1>1, <2>2
<1> QED
  BY <1>1, <1>2 DEF q

LEMMA NearestBounds ==
  ASSUME NEW a \in Int, NEW b \in Nat \ {0}
  PROVE  /\ Nearest(a, b) \in Int
         /\ Near(2 * (Nearest(a, b) * b), 2 * a, b)
         /\ a >= 0 => Nearest(a, b) \in Nat
<1>1. CASE a < 0
  <2> DEFINE q == HalfUp(-a, b)
  <2>1. q \in Int /\ 2 * (q * b + a) <= b /\ -b < 2 * (q * b + a)
    <3>1. -a \in Int
      OBVIOUS
    <3>2. q \in Int /\ 2 * (q * b - (-a)) <= b /\ -b < 2 * (q * b - (-a))
      BY <3>1, HalfUpBounds
    <3> HIDE DEF q
    <3>3. q * b \in Int
      BY <3>2
    <3> QED
      BY <3>2, <3>3
  <2>2. Nearest(a, b) = -q
    BY <1>1 DEF Nearest
  <2> HIDE DEF q
  <2>3. (-q) * b = -(q * b) /\ q * b \in Int
    BY <2>1
  <2> QED
    BY <1>1, <2>1, <2>2, <2>3 DEF Near
<1>2. CASE a >= 0
  <2> DEFINE q == HalfUp(a, b)
  <2>1. q \in Int /\ 2 * (q * b - a) <= b /\ -b < 2 * (q * b - a)
    BY HalfUpBounds
  <2>2. q \in Nat
    BY <1>2, HalfUpNat
  <2>3. Nearest(a, b) = q
    BY <1>2 DEF Nearest
  <2> HIDE DEF q
  <2>4. q * b \in Int
    BY <2>1
  <2> QED
    BY <2>1, <2>2, <2>3, <2>4 DEF Near
<1> QED
  BY <1>1, <1>2

(* Whole numbers need no rounding, and pass through it.                    *)
LEMMA NearestShift ==
  ASSUME NEW a \in Nat, NEW n \in Nat, NEW b \in Nat \ {0}
  PROVE  Nearest(b * n + a, b) = n + Nearest(a, b)
<1> DEFINE x == HalfUp(a, b)
           y == HalfUp(b * n + a, b)
<1>1. b * n + a \in Nat
  OBVIOUS
<1>2. /\ x \in Int /\ 2 * (x * b - a) <= b /\ -b < 2 * (x * b - a)
      /\ y \in Int /\ 2 * (y * b - (b * n + a)) <= b /\ -b < 2 * (y * b - (b * n + a))
  BY <1>1, HalfUpBounds
<1> HIDE DEF x, y
<1> DEFINE z == y - n - x
<1>3. z \in Int /\ z * b = y * b - b * n - x * b
      /\ y * b \in Int /\ b * n \in Int /\ x * b \in Int
  BY <1>2
<1> HIDE DEF z
<1>4. z * b < b /\ -b < z * b
  BY <1>2, <1>3
<1>5. z = 0
  BY <1>3, <1>4, SmallMultiple
<1>6. Nearest(a, b) = x /\ Nearest(b * n + a, b) = y
  BY <1>1 DEF Nearest, x, y
<1> QED
  BY <1>2, <1>5, <1>6 DEF z

LEMMA NearestZero == \A b \in Nat \ {0} : Nearest(0, b) = 0
<1> SUFFICES ASSUME NEW b \in Nat \ {0} PROVE Nearest(0, b) = 0
  OBVIOUS
<1>1. /\ Nearest(0, b) \in Nat /\ Near(2 * (Nearest(0, b) * b), 2 * 0, b)
  BY NearestBounds
<1> DEFINE z == Nearest(0, b)
<1> HIDE DEF z
<1>2. z \in Nat /\ 2 * (z * b) <= b /\ z * b \in Nat
  BY <1>1 DEF Near, z
<1>3. z * b < b /\ -b < z * b
  BY <1>2
<1>4. z = 0
  BY <1>2, <1>3, SmallMultiple
<1> QED
  BY <1>4 DEF z

LEMMA CentsShift ==
  ASSUME NEW x \in Nat, NEW n \in Nat
  PROVE  /\ ToCents(Cent * n + x) = n + ToCents(x) /\ ToCents(x) \in Nat
         /\ ToCents(Cent * n) = n
<1>1. ToCents(Cent * n + x) = n + ToCents(x)
  BY CentAssumption, NearestShift DEF ToCents
<1>2. ToCents(Cent * n) = n
  <2>1. Nearest(Cent * n + 0, Cent) = n + Nearest(0, Cent) /\ Nearest(0, Cent) = 0
    BY CentAssumption, NearestShift, NearestZero
  <2>2. Cent * n + 0 = Cent * n
    BY CentAssumption
  <2> QED
    BY <2>1, <2>2 DEF ToCents
<1> QED
  BY <1>1, <1>2, CentAssumption, NearestBounds DEF ToCents

LEMMA CentsNear ==
  ASSUME NEW x \in Int
  PROVE  /\ ToCents(x) \in Int /\ Cent * ToCents(x) \in Int
         /\ Near(2 * (Cent * ToCents(x)), 2 * x, Cent)
<1>1. /\ ToCents(x) \in Int /\ Near(2 * (ToCents(x) * Cent), 2 * x, Cent)
  BY CentAssumption, NearestBounds DEF ToCents
<1>2. ToCents(x) * Cent = Cent * ToCents(x) /\ Cent * ToCents(x) \in Int
  BY <1>1, CentAssumption
<1> QED
  BY <1>1, <1>2

(* What is below a whole number of cents is not rounded above it.          *)
LEMMA CentsBelow ==
  ASSUME NEW x \in Int, NEW n \in Int
  PROVE  /\ x <= Cent * n => ToCents(x) <= n
         /\ x >= Cent * n => ToCents(x) >= n
<1> DEFINE q == ToCents(x)
<1>1. q \in Int /\ Cent * q \in Int /\ Near(2 * (Cent * q), 2 * x, Cent)
  BY CentsNear
<1> HIDE DEF q
<1>2. Cent * n \in Int
  BY CentAssumption
<1>3. ASSUME x <= Cent * n, q > n PROVE FALSE
  <2>1. PICK k \in Nat : q = n + 1 + k
    BY <1>1, <1>3
  <2>2. Cent * q = Cent * n + Cent + Cent * k /\ Cent * k \in Nat
    BY <2>1, CentAssumption
  <2> QED
    BY <1>1, <1>2, <1>3, <2>2, CentAssumption DEF Near
<1>4. ASSUME x >= Cent * n, q < n PROVE FALSE
  <2>1. PICK k \in Nat : q = n - 1 - k
    BY <1>1, <1>4
  <2>2. Cent * q = Cent * n - Cent - Cent * k /\ Cent * k \in Nat
    BY <2>1, CentAssumption
  <2> QED
    BY <1>1, <1>2, <1>4, <2>2, CentAssumption DEF Near
<1> QED
  BY <1>1, <1>3, <1>4 DEF q

-----------------------------------------------------------------------------
(* What the data of the requests are.                                      *)
LEMMA LinesTypes ==
  ASSUME NEW lines \in Seq(Line)
  PROVE  /\ Len(lines) \in Nat /\ DOMAIN lines = 1 .. Len(lines) /\ IsFiniteSet(DOMAIN lines)
         /\ \A i \in DOMAIN lines :
              /\ lines[i].row \in Row /\ lines[i].qty \in Nat \ {0}
              /\ lines[i].subtotal \in Nat /\ lines[i].tax \in Nat
              /\ lines[i].subtotal = 0 => lines[i].tax = 0
<1>1. Len(lines) \in Nat /\ DOMAIN lines = 1 .. Len(lines) /\ \A i \in DOMAIN lines : lines[i] \in Line
  OBVIOUS
<1>2. IsFiniteSet(DOMAIN lines)
  BY <1>1, FS_Interval
<1> QED
  BY <1>1, <1>2 DEF Line

LEMMA ReturnsTypes ==
  ASSUME NEW returns \in Seq(ReturnLine)
  PROVE  /\ Len(returns) \in Nat /\ DOMAIN returns = 1 .. Len(returns)
         /\ IsFiniteSet(DOMAIN returns)
         /\ \A k \in DOMAIN returns : returns[k].qty \in Nat \ {0}
<1>1. /\ Len(returns) \in Nat /\ DOMAIN returns = 1 .. Len(returns)
      /\ \A k \in DOMAIN returns : returns[k] \in ReturnLine
  OBVIOUS
<1>2. IsFiniteSet(DOMAIN returns)
  BY <1>1, FS_Interval
<1> QED
  BY <1>1, <1>2 DEF ReturnLine

LEMMA AdjustmentTypes ==
  ASSUME NEW a \in Adjustment
  PROVE  /\ a # NoOrder /\ a.order \in OrderId
         /\ a.returns \in Seq(ReturnLine) /\ a.sales \in Seq(Line)
BY AdjustmentAssumption, NoAdjustmentAssumption DEF AdjustmentType

LEMMA OrderTypes ==
  ASSUME NEW order \in OrderType
  PROVE  /\ order # NoOrder /\ order.lines \in Seq(Line) /\ order.discount \in Nat
         /\ order.refunded \in Int /\ order.status \in Status
BY NamesAssumption DEF OrderType

(* What a unit is worth depends on what was sold only.                     *)
LEMMA SameWorth ==
  ASSUME NEW order, NEW other, SameItems(order, other)
  PROVE  /\ \A i : EffectiveUnit(order, i) = EffectiveUnit(other, i)
         /\ (Covered(order) <=> Covered(other)) /\ Due(order) = Due(other)
         /\ GrandTotal(order) = GrandTotal(other)
         /\ \A returns : Refund(order, returns) = Refund(other, returns)
<1> USE DEF SameItems
<1>1. \A i : Share(order, i) = Share(other, i)
  BY DEF Share, Subtotals
<1>2. \A i : EffectiveUnit(order, i) = EffectiveUnit(other, i)
  BY <1>1 DEF EffectiveUnit, LineWorth
<1>3. Due(order) = Due(other)
  BY DEF Due
<1>4. \A line : LineRefund(order, line) = LineRefund(other, line)
  BY <1>2 DEF LineRefund
<1> QED
  BY <1>2, <1>3, <1>4 DEF Covered, GrandTotal, Refund

(* What was sold of an order: the lines, and the discounts.                *)
Items(order) == order.lines \in Seq(Line) /\ order.discount \in Nat

LEMMA SubtotalsTypes ==
  ASSUME NEW order, Items(order)
  PROVE  /\ NatValued([i \in DOMAIN order.lines |-> order.lines[i].subtotal], DOMAIN order.lines)
         /\ Subtotals(order) =
              SumFunctionOnSet([i \in DOMAIN order.lines |-> order.lines[i].subtotal],
                               DOMAIN order.lines)
         /\ Subtotals(order) \in Nat
<1> DEFINE I == DOMAIN order.lines
           f == [i \in I |-> order.lines[i].subtotal]
<1>1. IsFiniteSet(I) /\ \A i \in I : order.lines[i].subtotal \in Nat
  BY LinesTypes DEF Items
<1>2. NatValued(f, I)
  BY <1>1 DEF NatValued
<1>3. Subtotals(order) = SumFunctionOnSet(f, I)
  <2>1. Subtotals(order) = SumFunction(f) /\ DOMAIN f = I
    BY DEF Subtotals
  <2> HIDE DEF f, I
  <2> QED
    BY <2>1, SumDomain
<1> QED
  BY <1>1, <1>2, <1>3, SumNat

LEMMA UnitTypes ==
  ASSUME NEW order, Items(order), NEW i \in DOMAIN order.lines
  PROVE  /\ Total(order.lines[i]) \in Nat /\ Share(order, i) \in Int
         /\ LineWorth(order, i) \in Int /\ EffectiveUnit(order, i) \in Int
         /\ Covered(order) => EffectiveUnit(order, i) \in Nat
<1>1. /\ order.lines[i].subtotal \in Nat /\ order.lines[i].tax \in Nat
      /\ order.lines[i].qty \in Nat \ {0} /\ order.discount \in Nat
  BY LinesTypes DEF Items
<1>2. Total(order.lines[i]) \in Nat
  BY <1>1, CentsShift DEF Total
<1>3. Share(order, i) \in Int
  <2>1. Subtotals(order) \in Nat
    BY SubtotalsTypes
  <2>2. CASE Subtotals(order) > 0
    <3>1. Cent * (order.discount * order.lines[i].subtotal) \in Int /\ Subtotals(order) \in Nat \ {0}
      <4>1. \A m, n, k \in Nat : k * (m * n) \in Int
        OBVIOUS
      <4> QED
        BY <1>1, <2>1, <2>2, <4>1, CentAssumption
    <3> QED
      BY <2>2, <3>1, NearestBounds DEF Share
  <2>3. CASE ~(Subtotals(order) > 0)
    BY <2>3 DEF Share
  <2> QED
    BY <2>2, <2>3
<1>4. LineWorth(order, i) \in Int
  <2>1. Cent * Total(order.lines[i]) \in Int
    BY <1>2, CentAssumption
  <2> QED
    BY <1>3, <2>1 DEF LineWorth
<1>5. EffectiveUnit(order, i) \in Int
  BY <1>1, <1>4, NearestBounds DEF EffectiveUnit
<1> QED
  BY <1>2, <1>3, <1>4, <1>5 DEF Covered

(* A refund is a sum over the returned lines, and natural where no unit is *)
(* worth less than nothing.                                                *)
LEMMA RefundTypes ==
  ASSUME NEW order, Items(order), NEW returns \in Seq(ReturnLine), Within(returns, order.lines)
  PROVE  /\ IntValued([k \in DOMAIN returns |-> LineRefund(order, returns[k])], DOMAIN returns)
         /\ Refund(order, returns) =
              SumFunctionOnSet([k \in DOMAIN returns |-> LineRefund(order, returns[k])],
                               DOMAIN returns)
         /\ Refund(order, returns) \in Int
         /\ Covered(order) =>
              /\ Refund(order, returns) \in Nat
              /\ \A k \in DOMAIN returns : LineRefund(order, returns[k]) \in Nat
<1> DEFINE K == DOMAIN returns
           f == [k \in K |-> LineRefund(order, returns[k])]
<1>1. IsFiniteSet(K) /\ DOMAIN f = K
  BY ReturnsTypes
<1>2. \A k \in K : /\ f[k] \in Int
                   /\ Covered(order) => f[k] \in Nat
  <2> SUFFICES ASSUME NEW k \in K
               PROVE  /\ LineRefund(order, returns[k]) \in Int
                      /\ Covered(order) => LineRefund(order, returns[k]) \in Nat
    OBVIOUS
  <2>1. returns[k].qty \in Nat /\ returns[k].item \in DOMAIN order.lines
    BY ReturnsTypes DEF Within
  <2>2. /\ EffectiveUnit(order, returns[k].item) \in Int
        /\ Covered(order) => EffectiveUnit(order, returns[k].item) \in Nat
    BY <2>1, UnitTypes
  <2>3. \A n \in Nat : \A m \in Int : n * m \in Int /\ (m \in Nat => n * m \in Nat)
    OBVIOUS
  <2> QED
    BY <2>1, <2>2, <2>3 DEF LineRefund
<1>3. IntValued(f, K) /\ (Covered(order) => NatValued(f, K))
  BY <1>2 DEF IntValued, NatValued
<1>4. Refund(order, returns) = SumFunctionOnSet(f, K)
  <2>1. Refund(order, returns) = SumFunction(f)
    BY DEF Refund
  <2> HIDE DEF f, K
  <2> QED
    BY <1>1, <2>1, SumDomain
<1>5. /\ SumFunctionOnSet(f, K) \in Int
      /\ Covered(order) => SumFunctionOnSet(f, K) \in Nat
  <2> HIDE DEF f, K
  <2> QED
    BY <1>1, <1>3, SumInt, SumNat
<1> QED
  BY <1>2, <1>3, <1>4, <1>5

(* The refunds of an order that is there.                                  *)
LEMMA RefundAmountOf ==
  ASSUME AmendTypes, Recorded, NEW t \in Amended
  PROVE  LET o == adjusts[t].order
         IN /\ o \in OrderId /\ orders[o] \in OrderType /\ Items(orders[o])
            /\ adjusts[t].returns \in Seq(ReturnLine)
            /\ Within(adjusts[t].returns, orders[o].lines)
            /\ RefundAmount[t] = ToCents(Refund(orders[o], adjusts[t].returns))
            /\ RefundAmount[t] \in Int
            /\ Covered(orders[o]) => RefundAmount[t] \in Nat
<1> DEFINE o == adjusts[t].order
<1>1. t \in Tx /\ adjusts[t] \in Adjustment
  BY DEF Amended, AmendTypes
<1>2. orders[o] # NoOrder /\ Within(adjusts[t].returns, orders[o].lines)
  BY DEF Recorded
<1>3. o \in OrderId /\ adjusts[t].returns \in Seq(ReturnLine)
  BY <1>1, AdjustmentTypes
<1>4. orders[o] \in OrderType /\ Items(orders[o])
  BY <1>2, <1>3, OrderTypes DEF AmendTypes, Items
<1>5. /\ Refund(orders[o], adjusts[t].returns) \in Int
      /\ Covered(orders[o]) => Refund(orders[o], adjusts[t].returns) \in Nat
  BY <1>2, <1>3, <1>4, RefundTypes
<1>6. RefundAmount[t] = ToCents(Refund(orders[o], adjusts[t].returns))
  BY DEF RefundAmount
<1> QED
  BY <1>2, <1>3, <1>4, <1>5, <1>6, CentsNear, CentsShift

LEMMA RefundsTypes ==
  ASSUME AmendTypes, Recorded, NEW o \in OrderId
  PROVE  /\ IsFiniteSet(AdjustsOf(o)) /\ IntValued(RefundAmount, AdjustsOf(o))
         /\ RefundsOf(o) \in Int
         /\ Covered(orders[o]) => RefundsOf(o) \in Nat
<1>1. IsFiniteSet(AdjustsOf(o))
  BY FS_Subset DEF Recorded, AdjustsOf
<1>2. \A t \in AdjustsOf(o) : /\ RefundAmount[t] \in Int
                              /\ Covered(orders[o]) => RefundAmount[t] \in Nat
  <2> SUFFICES ASSUME NEW t \in AdjustsOf(o)
               PROVE  /\ RefundAmount[t] \in Int
                      /\ Covered(orders[o]) => RefundAmount[t] \in Nat
    OBVIOUS
  <2>1. t \in Amended /\ adjusts[t].order = o
    BY DEF AdjustsOf
  <2> QED
    BY <2>1, RefundAmountOf
<1>3. /\ IntValued(RefundAmount, AdjustsOf(o))
      /\ Covered(orders[o]) => NatValued(RefundAmount, AdjustsOf(o))
  BY <1>2 DEF IntValued, NatValued
<1> QED
  BY <1>1, <1>3, SumInt, SumNat DEF RefundsOf

-----------------------------------------------------------------------------
(* A step of t.                                                            *)
StepOf(t) ==
  \/ \E s \in Sale : OpenSale(t, s) /\ UNCHANGED adjustVars
  \/ \E a \in Adjustment : OpenAdjust(t, a)
  \/ \E o \in Voidable : OpenVoid(t, o)
  \/ OrdersStatement(t)
  \/ SaleStep(t, Fail(t)) /\ UNCHANGED adjustVars

LEMMA TypesAreSlots ==
  ASSUME StockTypeOK, AmendTypes
  PROVE  Slots
BY DEF StockTypeOK, AmendTypes, Slots

(* The others wait: what they hold in memory stays as it is.               *)
LEMMA OthersKeep ==
  ASSUME StockTypeOK, AmendTypes, NEW t \in Tx, StepOf(t), NEW u \in Tx \ {t}
  PROVE  Local(u)' = Local(u)
<1> USE DEF Local, saleVars, adjustVars
<1>0. Slots
  BY TypesAreSlots
<1>1. CASE \E s \in Sale : OpenSale(t, s) /\ UNCHANGED adjustVars
  BY <1>0, <1>1 DEF OpenSale, Begin, Slots, AmendTypes
<1>2. CASE \/ \E a \in Adjustment : OpenAdjust(t, a)
           \/ \E o \in Voidable : OpenVoid(t, o)
  BY <1>0, <1>2 DEF OpenAdjust, OpenVoid, Begin, Slots, AmendTypes
<1>3. CASE (RejectSale(t) \/ TakeReceipt(t) \/ CommitSale(t)) /\ UNCHANGED adjustVars
  BY <1>0, <1>3 DEF RejectSale, TakeReceipt, CommitSale, ReleaseStore, Rollback, Adjusting, Commit,
              Slots, AmendTypes
<1>4. CASE (SaleStep(t, Statement(t)) \/ SaleStep(t, Fail(t))) /\ UNCHANGED adjustVars
  <2>1. Statement(t) \/ Fail(t)
    BY <1>4 DEF SaleStep
  <2>2. pc'[u] = pc[u]
    BY <1>0, <2>1, StatementMoves DEF Slots
  <2>3. held'[u] = held[u]
    BY <1>4 DEF SaleStep, ReleaseStore, AmendTypes
  <2> QED
    BY <1>4, <2>2, <2>3 DEF SaleStep
<1>5. CASE ReadReturns(t) \/ ReadRestores(t)
  BY <1>0, <1>5 DEF ReadReturns, ReadRestores, PlanAdjust, PlanVoid, Refuse, Rollback, Adjusting,
              Slots, AmendTypes
<1>6. CASE CommitAdjust(t) \/ CommitVoid(t)
  BY <1>0, <1>6 DEF CommitAdjust, CommitVoid, Commit, Slots, AmendTypes
<1> QED
  BY <1>1, <1>2, <1>3, <1>4, <1>5, <1>6 DEF StepOf, OrdersStatement, SaleStatement

-----------------------------------------------------------------------------
(* The steps adjustStock is given.                                         *)
LEMMA TakeOutSteps ==
  ASSUME NEW lines \in Seq(Line)
  PROVE  TakeOut(lines) \in Seq(Step) /\ Adjusts(TakeOut(lines))
<1>1. /\ Len(lines) \in Nat /\ DOMAIN lines = 1 .. Len(lines)
      /\ \A i \in DOMAIN lines : lines[i].row \in Row /\ lines[i].qty \in Nat
  BY LinesTypes
<1>2. \A i \in 1 .. Len(lines) :
        [op |-> "adjust", row |-> lines[i].row, qty |-> -lines[i].qty] \in Step
  BY <1>1 DEF Step, Op
<1>3. TakeOut(lines) = [i \in 1 .. Len(lines) |->
                         [op |-> "adjust", row |-> lines[i].row, qty |-> -lines[i].qty]]
  BY <1>1 DEF TakeOut
<1> QED
  BY <1>1, <1>2, <1>3 DEF Adjusts

LEMMA ReturnStepsTypes ==
  ASSUME NEW order, order.lines \in Seq(Line), NEW returns \in Seq(ReturnLine),
         Within(returns, order.lines)
  PROVE  ReturnSteps(order, returns) \in Seq(Step) /\ Adjusts(ReturnSteps(order, returns))
<1>1. /\ Len(returns) \in Nat /\ DOMAIN returns = 1 .. Len(returns)
      /\ \A k \in DOMAIN returns : returns[k].qty \in Nat
      /\ \A k \in DOMAIN returns : order.lines[returns[k].item].row \in Row
  BY ReturnsTypes, LinesTypes DEF Within
<1> DEFINE step(k) == [op |-> "adjust", row |-> order.lines[returns[k].item].row, qty |-> returns[k].qty]
<1>2. \A k \in 1 .. Len(returns) : step(k) \in Step /\ step(k).op = "adjust"
  BY <1>1 DEF Step, Op
<1>3. ReturnSteps(order, returns) = [k \in 1 .. Len(returns) |-> step(k)]
  BY <1>1 DEF ReturnSteps
<1> HIDE DEF step
<1> QED
  BY <1>1, <1>2, <1>3 DEF Adjusts

LEMMA PutBackTypes ==
  ASSUME NEW order, order.lines \in Seq(Line), NEW returns \in Seq(ReturnLine),
         Within(returns, order.lines), NEW lines \in Seq(Line)
  PROVE  /\ PutBack(order, returns) \in Seq(Step) /\ Adjusts(PutBack(order, returns))
         /\ PutBack(order, returns) \o TakeOut(lines) \in Seq(Step)
         /\ Adjusts(PutBack(order, returns) \o TakeOut(lines))
<1>1. PutBack(order, returns) \in Seq(Step) /\ Adjusts(PutBack(order, returns))
  BY ReturnStepsTypes, KeptEffect DEF PutBack
<1>2. TakeOut(lines) \in Seq(Step) /\ Adjusts(TakeOut(lines))
  BY TakeOutSteps
<1>3. ASSUME NEW q \in Seq(Step), NEW z \in Seq(Step), Adjusts(q), Adjusts(z)
      PROVE  q \o z \in Seq(Step) /\ Adjusts(q \o z)
  <2>1. q \o z \in Seq(Step) /\ Len(q) \in Nat /\ Len(z) \in Nat /\ Len(q \o z) = Len(q) + Len(z)
    OBVIOUS
  <2>2. ASSUME NEW i \in 1 .. Len(q \o z) PROVE (q \o z)[i].op = "adjust"
    <3>1. CASE i <= Len(q)
      <4>1. (q \o z)[i] = q[i] /\ i \in 1 .. Len(q)
        BY <2>1, <3>1
      <4> QED
        BY <1>3, <4>1 DEF Adjusts
    <3>2. CASE i > Len(q)
      <4>1. (q \o z)[i] = z[i - Len(q)] /\ i - Len(q) \in 1 .. Len(z)
        BY <2>1, <3>2
      <4> QED
        BY <1>3, <4>1 DEF Adjusts
    <3> QED
      BY <2>1, <3>1, <3>2
  <2> QED
    BY <2>1, <2>2 DEF Adjusts
<1> QED
  BY <1>1, <1>2, <1>3

(* The units returned of an item.                                          *)
LEMMA ReturnedInTypes ==
  ASSUME NEW a \in Adjustment, NEW i
  PROVE  ReturnedIn(a, i) \in Nat
<1> DEFINE f == [k \in DOMAIN a.returns |-> a.returns[k].qty]
           K == {k \in DOMAIN a.returns : a.returns[k].item = i}
<1>1. a.returns \in Seq(ReturnLine)
  BY AdjustmentTypes
<1>2. IsFiniteSet(DOMAIN a.returns) /\ \A k \in DOMAIN a.returns : a.returns[k].qty \in Nat
  BY <1>1, ReturnsTypes
<1>3. IsFiniteSet(K) /\ NatValued(f, K)
  BY <1>2, FS_Subset DEF NatValued
<1>4. SumFunctionOnSet(f, K) \in Nat
  <2> HIDE DEF f, K
  <2> QED
    BY <1>3, SumNat
<1> QED
  BY <1>4 DEF ReturnedIn

ReturnedBy(o, i) == [t \in AdjustsOf(o) |-> ReturnedIn(adjusts[t], i)]

LEMMA ReturnedTypes ==
  ASSUME AmendTypes, Recorded, NEW o, NEW i
  PROVE  /\ IsFiniteSet(AdjustsOf(o)) /\ NatValued(ReturnedBy(o, i), AdjustsOf(o))
         /\ Returned(o, i) = SumFunctionOnSet(ReturnedBy(o, i), AdjustsOf(o))
         /\ Returned(o, i) \in Nat
<1>1. IsFiniteSet(AdjustsOf(o))
  BY FS_Subset DEF Recorded, AdjustsOf
<1>2. NatValued(ReturnedBy(o, i), AdjustsOf(o))
  <2> SUFFICES ASSUME NEW t \in AdjustsOf(o) PROVE ReturnedIn(adjusts[t], i) \in Nat
    BY DEF NatValued, ReturnedBy
  <2>1. adjusts[t] \in Adjustment
    BY DEF AdjustsOf, Amended, AmendTypes
  <2> QED
    BY <2>1, ReturnedInTypes
<1>3. Returned(o, i) = SumFunctionOnSet(ReturnedBy(o, i), AdjustsOf(o))
  BY DEF Returned, ReturnedBy
<1> QED
  BY <1>1, <1>2, <1>3, SumNat

(* What a void plans, and the steps it asks for.                           *)
VoidSteps(order, back) ==
  [i \in DOMAIN back |-> [op |-> "adjust", row |-> order.lines[i].row, qty |-> back[i]]]

LEMMA RestoreTypes ==
  ASSUME AmendTypes, Recorded, NEW o, NEW order, order.lines \in Seq(Line)
  PROVE  /\ ToRestore(order, o) \in Seq(Nat)
         /\ DOMAIN ToRestore(order, o) = DOMAIN order.lines
         /\ VoidSteps(order, ToRestore(order, o)) \in Seq(Step)
         /\ Adjusts(VoidSteps(order, ToRestore(order, o)))
<1> DEFINE n == Len(order.lines)
<1>1. /\ n \in Nat /\ DOMAIN order.lines = 1 .. n
      /\ \A i \in 1 .. n : order.lines[i].row \in Row /\ order.lines[i].qty \in Nat
  BY LinesTypes
<1>2. \A i \in 1 .. n : Remaining(o, order, i) \in Int
  BY <1>1, ReturnedTypes DEF Remaining
<1> DEFINE back == ToRestore(order, o)
<1>3. back = [i \in 1 .. n |->
                IF order.status \in {"COMPLETED", "PARTIALLY_REFUNDED"} /\ Remaining(o, order, i) > 0
                THEN Remaining(o, order, i) ELSE 0]
  BY <1>1 DEF ToRestore
<1>4. DOMAIN back = 1 .. n /\ \A i \in 1 .. n : back[i] \in Nat
  BY <1>2, <1>3
<1>5. back \in Seq(Nat)
  <2>1. back = [i \in 1 .. n |-> back[i]]
    BY <1>3
  <2> HIDE DEF back, n
  <2>2. back \in [1 .. n -> Nat]
    BY <1>4, <2>1
  <2> QED
    BY <1>1, <2>2
<1> HIDE DEF back
<1> DEFINE step(i) == [op |-> "adjust", row |-> order.lines[i].row, qty |-> back[i]]
<1>6. \A i \in 1 .. n : step(i) \in Step /\ step(i).op = "adjust"
  BY <1>1, <1>4 DEF Step, Op
<1>7. VoidSteps(order, back) = [i \in 1 .. n |-> step(i)]
  BY <1>4 DEF VoidSteps
<1> HIDE DEF step
<1>8. VoidSteps(order, back) \in Seq(Step) /\ Adjusts(VoidSteps(order, back))
  BY <1>1, <1>6, <1>7 DEF Adjusts
<1> QED
  BY <1>1, <1>4, <1>5, <1>8 DEF back

-----------------------------------------------------------------------------
(* The steps that leave the tables as they are.                            *)
LEMMA RefundsQuiet ==
  ASSUME UNCHANGED <<orders, adjusts>>
  PROVE  Amended' = Amended /\ Orders' = Orders /\ \A o : RefundsOf(o)' = RefundsOf(o)
BY DEF RefundsOf, RefundAmount, Amended, AdjustsOf, Orders

LEMMA QuietStep ==
  ASSUME AmendInv, NEW t \in Tx, StepOf(t), pc[t] # "committed",
         UNCHANGED <<orders, adjusts, restored>>, StockInv', AmendTypes',
         \/ pc'[t] \notin Open
         \/ Handling(t)' /\ Copied(t)'
  PROVE  AmendInv'
<1>1. \A u \in Tx \ {t} : Local(u)' = Local(u)
  BY OthersKeep DEF AmendInv, StockInv
<1>2. \A u \in Tx \ {t} : pc'[u] = pc[u]
  BY <1>1 DEF Local
<1>3. Amended' = Amended /\ Orders' = Orders
  BY DEF Amended, Orders
<1>4. Recorded'
  <2>1. \A u \in Tx : pc'[u] # "committed" => orders[u] = NoOrder /\ adjusts[u] = NoOrder
    BY <1>2 DEF AmendInv, Recorded
  <2> QED
    BY <1>3, <2>1 DEF AmendInv, Recorded, Within
<1>5. \A o : RefundsOf(o)' = RefundsOf(o)
  BY RefundsQuiet
<1>6. RefundsStated'
  BY <1>3, <1>5 DEF AmendInv, RefundsStated
<1>7. ASSUME NEW u \in Tx, pc'[u] \in Open PROVE Handling(u)' /\ Copied(u)'
  <2>1. CASE u = t
    BY <1>7, <2>1
  <2>2. CASE u # t
    <3>1. /\ pc'[u] = pc[u] /\ stage'[u] = stage[u] /\ sale'[u] = sale[u] /\ held'[u] = held[u]
          /\ draft'[u] = draft[u] /\ snap'[u] = snap[u] /\ plan'[u] = plan[u]
      BY <1>1, <2>2 DEF Local
    <3>2. Handling(u) /\ Copied(u)
      BY <1>7, <3>1 DEF AmendInv, Handled
    <3>3. Handling(u)'
      BY <3>1, <3>2 DEF Handling, Within
    <3>4. Copied(u)'
      BY <1>5, <3>1, <3>2 DEF Copied, SameItems
    <3> QED
      BY <3>3, <3>4
  <2> QED
    BY <2>1, <2>2
<1> QED
  BY <1>4, <1>6, <1>7 DEF AmendInv, Handled

LEMMA OpenStepAmends ==
  ASSUME AmendInv, NEW t \in Tx,
         \/ \E s \in Sale : OpenSale(t, s) /\ UNCHANGED adjustVars
         \/ \E a \in Adjustment : OpenAdjust(t, a)
         \/ \E o \in Voidable : OpenVoid(t, o)
  PROVE  AmendInv'
<1>0. StepOf(t) /\ StockInv /\ AmendTypes /\ RefundsStated
  BY DEF StepOf, AmendInv
<1>1. Begin(t, <<>>) /\ UNCHANGED <<orders, adjusts, restored>>
  BY DEF OpenSale, OpenAdjust, OpenVoid, adjustVars
<1>2. pc[t] # "committed" /\ <<>> \in Seq(Step)
  BY <1>1 DEF Begin
<1>3. StockInv'
  BY <1>0, <1>1, <1>2, BeginInv
<1>4. \A o \in OrderId : orders[o] # NoOrder /\ Covered(orders[o]) =>
        orders[o].refunded \in Nat /\ orders[o].refunded <= RefundsOf(o)
  BY <1>0 DEF RefundsStated, Orders
<1>5. \A o : RefundsOf(o)' = RefundsOf(o)
  BY <1>1, RefundsQuiet
<1>6. ASSUME NEW s \in Sale, OpenSale(t, s), UNCHANGED adjustVars
      PROVE  AmendTypes' /\ Handling(t)' /\ Copied(t)'
  <2>1. AmendTypes'
    BY <1>0, <1>6 DEF AmendTypes, OpenSale, adjustVars, AllStages, Stages
  <2>2. stage'[t] = "counter" /\ sale'[t] = s
    BY <1>0, <1>6 DEF AmendTypes, OpenSale
  <2> QED
    BY <2>1, <2>2 DEF Handling, Copied, Amending, Decided
<1>7. ASSUME NEW a \in Adjustment, OpenAdjust(t, a)
      PROVE  AmendTypes' /\ Handling(t)' /\ Copied(t)'
  <2>1. a.order \in OrderId
    BY AdjustmentTypes
  <2>2. AmendTypes'
    BY <1>0, <1>7, <2>1 DEF AmendTypes, OpenAdjust, AllStages, Amending
  <2>3. stage'[t] = "adjust" /\ draft'[t] = a /\ snap'[t] = orders[a.order] /\ orders' = orders
    BY <1>0, <1>7 DEF AmendTypes, OpenAdjust
  <2>4. Handling(t)'
    BY <2>3 DEF Handling, Decided
  <2>5. Copied(t)'
    BY <1>4, <1>5, <2>1, <2>3 DEF Copied, SameItems
  <2> QED
    BY <2>2, <2>4, <2>5
<1>8. ASSUME NEW o \in Voidable, OpenVoid(t, o)
      PROVE  AmendTypes' /\ Handling(t)' /\ Copied(t)'
  <2>1. o \in OrderId /\ [order |-> o] \in Named
    BY VoidableAssumption DEF Named
  <2>2. AmendTypes'
    BY <1>0, <1>8, <2>1 DEF AmendTypes, OpenVoid, AllStages, Amending
  <2>3. stage'[t] = "void" /\ draft'[t] = [order |-> o] /\ snap'[t] = orders[o] /\ orders' = orders
    BY <1>0, <1>8 DEF AmendTypes, OpenVoid
  <2>4. Handling(t)'
    BY <2>1, <2>3 DEF Handling, Decided
  <2>5. Copied(t)'
    BY <1>4, <1>5, <2>1, <2>3 DEF Copied, SameItems
  <2> QED
    BY <2>2, <2>4, <2>5
<1> QED
  BY <1>0, <1>1, <1>2, <1>3, <1>6, <1>7, <1>8, QuietStep

(* A transaction that fails leaves nothing.                                *)
LEMMA FailureAmends ==
  ASSUME AmendInv, NEW t \in Tx, StepOf(t), pc[t] \in Open, Rollback(t),
         ReleaseStore(t) \/ UNCHANGED held,
         UNCHANGED <<orders, counter, sale, stage, adjustVars>>
  PROVE  AmendInv'
<1>1. StockInv'
  BY RollbackInv DEF AmendInv
<1>2. AmendTypes'
  BY DEF AmendInv, AmendTypes, ReleaseStore, adjustVars
<1>3. pc'[t] \notin Open /\ pc[t] # "committed"
  BY DEF AmendInv, StockInv, StockTypeOK, Rollback, Open
<1>4. UNCHANGED <<orders, adjusts, restored>>
  BY DEF adjustVars
<1> QED
  BY <1>1, <1>2, <1>3, <1>4, QuietStep

(* A step that goes on in the same stage.                                  *)
LEMMA WorkAmends ==
  ASSUME AmendInv, NEW t \in Tx, SaleStep(t, Statement(t)), UNCHANGED adjustVars
  PROVE  AmendInv'
<1>0. StepOf(t) /\ StockInv /\ AmendTypes /\ Slots /\ Statement(t)
  BY TypesAreSlots DEF StepOf, OrdersStatement, SaleStatement, SaleStep, AmendInv, StockInv
<1>1. StockInv'
  BY <1>0, StatementInv
<1>2. pc[t] \in Open /\ pc[t] # "committed"
  BY <1>0, StatementMoves DEF Open
<1>3. AmendTypes'
  BY <1>0 DEF SaleStep, AmendTypes, ReleaseStore, adjustVars
<1>4. UNCHANGED <<orders, counter, usage, sale, stage, adjustVars>>
  BY DEF SaleStep
<1>5. ASSUME pc'[t] \in Open PROVE Handling(t)' /\ Copied(t)'
  <2>1. held' = held
    BY <1>5 DEF SaleStep, Open
  <2>2. Handling(t) /\ Copied(t)
    BY <1>2 DEF AmendInv, Handled
  <2>3. \A o : RefundsOf(o)' = RefundsOf(o)
    BY <1>4, RefundsQuiet DEF adjustVars
  <2> QED
    BY <1>4, <2>1, <2>2, <2>3 DEF Handling, Copied, SameItems, Within, adjustVars
<1> QED
  BY <1>0, <1>1, <1>2, <1>3, <1>4, <1>5, QuietStep DEF adjustVars

LEMMA TakeReceiptAmends ==
  ASSUME AmendInv, NEW t \in Tx, TakeReceipt(t), UNCHANGED adjustVars
  PROVE  AmendInv'
<1>0. StepOf(t) /\ StockInv /\ AmendTypes /\ pc[t] = "read" /\ pc[t] \in Open
  BY DEF StepOf, OrdersStatement, SaleStatement, TakeReceipt, AmendInv, Open
<1>1. sale[t] \in Sale
  BY <1>0 DEF TakeReceipt, AmendInv, Handled, Handling
<1>2. sale[t].lines \in Seq(Line) /\ sale[t].store \in Store
  BY <1>1, SaleAssumption DEF SaleType
<1>3. StockInv'
  BY <1>0, <1>2, TakeOutSteps, AdjustingInv DEF TakeReceipt
<1> DEFINE row == [store |-> sale[t].store, counter |-> counter[sale[t].store] + 1]
<1>4. row \in StoreRow
  BY <1>0, <1>2 DEF AmendTypes, StoreRow
<1>5. /\ held' = [held EXCEPT ![t] = row] /\ stage' = [stage EXCEPT ![t] = "lines"]
      /\ UNCHANGED <<orders, counter, sale, adjustVars>>
  BY DEF TakeReceipt
<1> HIDE DEF row
<1>6. AmendTypes'
  BY <1>0, <1>4, <1>5 DEF AmendTypes, adjustVars, AllStages, Stages
<1>7. held'[t] = row /\ stage'[t] = "lines" /\ sale'[t] = sale[t]
  BY <1>0, <1>5 DEF AmendTypes
<1>8. Handling(t)' /\ Copied(t)'
  <2>1. Due(sale[t]) >= 0
    BY DEF TakeReceipt, Accepted
  <2> QED
    BY <1>1, <1>4, <1>7, <2>1 DEF Handling, Copied, Decided, Amending
<1> QED
  BY <1>0, <1>3, <1>5, <1>6, <1>8, QuietStep DEF adjustVars

LEMMA ReadReturnsAmends ==
  ASSUME AmendInv, NEW t \in Tx, ReadReturns(t)
  PROVE  AmendInv'
<1>0. StepOf(t) /\ StockInv /\ AmendTypes /\ pc[t] = "read" /\ pc[t] \in Open /\ stage[t] = "adjust"
  BY DEF StepOf, OrdersStatement, ReadReturns, AmendInv, Open
<1>1. CASE Refuse(t)
  BY <1>0, <1>1, FailureAmends DEF Refuse, saleVars
<1>2. CASE Acceptable(t) /\ PlanAdjust(t)
  <2> DEFINE a == draft[t]
             order == snap[t]
  <2>1. Handling(t) /\ Copied(t) /\ a \in Adjustment
    BY <1>0 DEF AmendInv, Handled, Handling
  <2>2. order \in OrderType /\ order.lines \in Seq(Line)
    BY <1>0, <1>2, OrderTypes DEF Acceptable, AmendTypes
  <2>3. Within(a.returns, order.lines)
    BY <1>2 DEF Acceptable, Returnable, Within
  <2>4. a.returns \in Seq(ReturnLine) /\ a.sales \in Seq(Line)
    BY <2>1, AdjustmentTypes
  <2>5. StockInv'
    BY <1>0, <1>2, <2>2, <2>3, <2>4, PutBackTypes, AdjustingInv DEF PlanAdjust
  <2>6. /\ stage' = [stage EXCEPT ![t] = "adjusting"]
        /\ UNCHANGED <<orders, counter, sale, held, adjustVars>>
    BY <1>2 DEF PlanAdjust
  <2>7. AmendTypes'
    BY <1>0, <2>6 DEF AmendTypes, adjustVars, AllStages, Amending
  <2>8. stage'[t] = "adjusting" /\ draft'[t] = a /\ snap'[t] = order
    BY <1>0, <2>6 DEF AmendTypes, adjustVars
  <2>9. Handling(t)'
    BY <2>1, <2>2, <2>3, <2>8 DEF Handling
  <2>10. Copied(t)'
    <3>1. stage[t] \in Amending
      BY <1>0 DEF Amending
    <3>2. \A o : RefundsOf(o)' = RefundsOf(o)
      BY <2>6, RefundsQuiet DEF adjustVars
    <3> QED
      BY <2>1, <2>6, <2>8, <3>1, <3>2 DEF Copied, adjustVars
  <2> QED
    BY <1>0, <2>5, <2>6, <2>7, <2>9, <2>10, QuietStep DEF adjustVars
<1> QED
  BY <1>1, <1>2 DEF ReadReturns

LEMMA ReadRestoresAmends ==
  ASSUME AmendInv, NEW t \in Tx, ReadRestores(t)
  PROVE  AmendInv'
<1>0. /\ StepOf(t) /\ StockInv /\ AmendTypes /\ Recorded
      /\ pc[t] = "read" /\ pc[t] \in Open /\ stage[t] = "void"
  BY DEF StepOf, OrdersStatement, ReadRestores, AmendInv, Open
<1>1. CASE Refuse(t)
  BY <1>0, <1>1, FailureAmends DEF Refuse, saleVars
<1>2. CASE snap[t] # NoOrder /\ PlanVoid(t)
  <2> DEFINE order == snap[t]
             o == draft[t].order
             back == ToRestore(order, o)
             steps == VoidSteps(order, back)
             kept == Kept(steps, {i \in DOMAIN back : back[i] > 0})
  <2>1. Handling(t) /\ Copied(t) /\ draft[t] \in Named
    BY <1>0 DEF AmendInv, Handled, Handling
  <2>2. order \in OrderType /\ order.lines \in Seq(Line)
    BY <1>0, <1>2, OrderTypes DEF AmendTypes
  <2>3. back \in Seq(Nat) /\ DOMAIN back = DOMAIN order.lines /\ steps \in Seq(Step)
    BY <1>0, <2>2, RestoreTypes
  <2>4. kept \in Seq(Step)
    <3> HIDE DEF steps, back
    <3> QED
      BY <2>3, KeptEffect
  <2>5. /\ plan' = [plan EXCEPT ![t] = back] /\ stage' = [stage EXCEPT ![t] = "voiding"]
        /\ Adjusting(t, kept)
        /\ UNCHANGED <<orders, counter, sale, held, adjusts, restored, draft, snap>>
    BY <1>2 DEF PlanVoid, VoidSteps
  <2> HIDE DEF kept, steps, back
  <2>6. StockInv'
    BY <1>0, <2>4, <2>5, AdjustingInv
  <2>7. AmendTypes'
    BY <1>0, <2>3, <2>5 DEF AmendTypes, AllStages, Amending
  <2>8. stage'[t] = "voiding" /\ plan'[t] = back
    BY <1>0, <2>5 DEF AmendTypes
  <2>9. Handling(t)'
    BY <2>1, <2>2, <2>3, <2>5, <2>8 DEF Handling
  <2>10. Copied(t)'
    <3>1. stage[t] \in Amending
      BY <1>0 DEF Amending
    <3>2. \A p : RefundsOf(p)' = RefundsOf(p)
      BY <2>5, RefundsQuiet
    <3> QED
      BY <2>1, <2>5, <2>8, <3>1, <3>2 DEF Copied
  <2> QED
    BY <1>0, <2>5, <2>6, <2>7, <2>9, <2>10, QuietStep
<1> QED
  BY <1>1, <1>2 DEF ReadRestores

-----------------------------------------------------------------------------
(* The commits.                                                            *)

(* Once an order is written, what it was sold as stays.                    *)
ItemsStay == \A p \in OrderId : orders[p] # NoOrder =>
               orders'[p] # NoOrder /\ SameItems(orders'[p], orders[p])

LEMMA NoOrderNoAdjusts ==
  ASSUME Recorded, NEW p, orders[p] = NoOrder
  PROVE  AdjustsOf(p) = {}
BY DEF Recorded, AdjustsOf

LEMMA AmountStays ==
  ASSUME AmendTypes, Recorded, ItemsStay, NEW t \in Amended, adjusts'[t] = adjusts[t]
  PROVE  t \in Amended' /\ RefundAmount'[t] = RefundAmount[t]
<1> DEFINE o == adjusts[t].order
<1>1. o \in OrderId /\ orders[o] # NoOrder
  BY RefundAmountOf, OrderTypes
<1>2. \A returns : Refund(orders'[o], returns) = Refund(orders[o], returns)
  BY <1>1, SameWorth DEF ItemsStay
<1>3. t \in Amended'
  BY DEF Amended
<1> QED
  BY <1>2, <1>3 DEF RefundAmount

LEMMA SumsStay ==
  ASSUME AmendTypes, Recorded, ItemsStay, adjusts' = adjusts, NEW p \in OrderId
  PROVE  /\ AdjustsOf(p)' = AdjustsOf(p) /\ RefundsOf(p)' = RefundsOf(p)
         /\ \A i : Returned(p, i)' = Returned(p, i)
<1>1. AdjustsOf(p)' = AdjustsOf(p)
  BY DEF AdjustsOf, Amended
<1>2. \A i : Returned(p, i)' = Returned(p, i)
  BY <1>1 DEF Returned
<1>3. \A t \in AdjustsOf(p) : RefundAmount'[t] = RefundAmount[t]
  BY AmountStays DEF AdjustsOf
<1>4. IsFiniteSet(AdjustsOf(p)) /\ IntValued(RefundAmount, AdjustsOf(p))
  BY RefundsTypes
<1>5. SumFunctionOnSet(RefundAmount, AdjustsOf(p)) = SumFunctionOnSet(RefundAmount', AdjustsOf(p))
  BY <1>3, <1>4, SumSame
<1> QED
  BY <1>1, <1>2, <1>5 DEF RefundsOf

LEMMA SumsGrow ==
  ASSUME AmendTypes, Recorded, ItemsStay, NEW t \in Tx, adjusts[t] = NoOrder,
         NEW a \in Adjustment, adjusts' = [adjusts EXCEPT ![t] = a],
         orders[a.order] # NoOrder, Within(a.returns, orders[a.order].lines),
         NEW p \in OrderId
  PROVE  /\ AdjustsOf(p)' = IF p = a.order THEN AdjustsOf(p) \cup {t} ELSE AdjustsOf(p)
         /\ RefundsOf(p)' = RefundsOf(p)
                              + IF p = a.order THEN ToCents(Refund(orders[p], a.returns)) ELSE 0
         /\ \A i : Returned(p, i)' = Returned(p, i)
                                     + IF p = a.order THEN ReturnedIn(a, i) ELSE 0
<1> DEFINE A == AdjustsOf(p)
<1>0. a # NoOrder /\ a.order \in OrderId /\ a.returns \in Seq(ReturnLine)
  BY AdjustmentTypes
<1>1. /\ adjusts'[t] = a /\ (\A u \in Tx \ {t} : adjusts'[u] = adjusts[u])
      /\ A' = (IF p = a.order THEN A \cup {t} ELSE A) /\ t \notin A /\ A \subseteq Tx
  BY <1>0 DEF AdjustsOf, Amended, AmendTypes
<1>2. \A u \in A : adjusts'[u] = adjusts[u]
  BY <1>1
<1>3. ASSUME NEW i
      PROVE  Returned(p, i)' = Returned(p, i) + IF p = a.order THEN ReturnedIn(a, i) ELSE 0
  <2> DEFINE f == ReturnedBy(p, i)
             g == [u \in A' |-> ReturnedIn(adjusts'[u], i)]
  <2>1. Returned(p, i)' = SumFunctionOnSet(g, A')
    BY DEF Returned
  <2>2. /\ IsFiniteSet(A) /\ NatValued(f, A) /\ Returned(p, i) = SumFunctionOnSet(f, A)
        /\ Returned(p, i) \in Nat
    BY ReturnedTypes
  <2>3. IntValued(f, A) /\ ReturnedIn(a, i) \in Nat
    BY <2>2, ReturnedInTypes DEF IntValued, NatValued
  <2>4. \A u \in A : g[u] = f[u]
    BY <1>1, <1>2 DEF ReturnedBy
  <2>5. CASE p = a.order
    <3>1. A' = A \cup {t} /\ g[t] = ReturnedIn(a, i)
      BY <1>1, <2>5
    <3> HIDE DEF f, g, A
    <3>3. /\ IsFiniteSet(A) /\ t \notin A /\ IntValued(f, A) /\ (\A u \in A : g[u] = f[u])
          /\ g[t] \in Int
      BY <1>1, <2>2, <2>3, <2>4, <3>1
    <3>2. SumFunctionOnSet(g, A \cup {t}) = SumFunctionOnSet(f, A) + g[t]
      BY ONLY <3>3, SumGrow
    <3> QED
      BY <2>1, <2>2, <2>5, <3>1, <3>2
  <2>6. CASE p # a.order
    <3>1. A' = A
      BY <1>1, <2>6
    <3> HIDE DEF f, g
    <3>2. SumFunctionOnSet(f, A) = SumFunctionOnSet(g, A)
      BY <2>2, <2>3, <2>4, SumSame
    <3> QED
      BY <2>1, <2>2, <2>6, <3>1, <3>2
  <2> QED
    BY <2>5, <2>6
<1>4. RefundsOf(p)' = RefundsOf(p)
                        + IF p = a.order THEN ToCents(Refund(orders[p], a.returns)) ELSE 0
  <2> DEFINE f == RefundAmount
             g == RefundAmount'
  <2>1. RefundsOf(p)' = SumFunctionOnSet(g, A') /\ RefundsOf(p) = SumFunctionOnSet(f, A)
    BY DEF RefundsOf
  <2>2. IsFiniteSet(A) /\ IntValued(f, A) /\ RefundsOf(p) \in Int
    BY RefundsTypes
  <2>3. \A u \in A : g[u] = f[u]
    BY <1>2, AmountStays DEF AdjustsOf
  <2>4. CASE p = a.order
    <3>1. /\ orders[p] \in OrderType /\ Items(orders[p])
          /\ SameItems(orders'[p], orders[p])
      BY <1>0, <2>4, OrderTypes DEF ItemsStay, AmendTypes, Items
    <3>2. Refund(orders'[p], a.returns) = Refund(orders[p], a.returns)
      BY <3>1, SameWorth
    <3>3. t \in Amended' /\ adjusts'[t].order = p /\ adjusts'[t].returns = a.returns
      BY <1>0, <1>1, <2>4 DEF Amended
    <3>4. g[t] = ToCents(Refund(orders[p], a.returns))
      BY <3>2, <3>3 DEF RefundAmount
    <3>5. g[t] \in Int
      BY <1>0, <2>4, <3>1, <3>4, RefundTypes, CentsNear
    <3>6. A' = A \cup {t} /\ t \notin A
      BY <1>1, <2>4
    <3> HIDE DEF f, g, A
    <3>7. SumFunctionOnSet(g, A \cup {t}) = SumFunctionOnSet(f, A) + g[t]
      BY ONLY <2>2, <2>3, <3>5, <3>6, SumGrow
    <3> QED
      BY <2>1, <2>2, <2>4, <3>4, <3>6, <3>7
  <2>5. CASE p # a.order
    <3>1. A' = A
      BY <1>1, <2>5
    <3> HIDE DEF f, g, A
    <3>2. SumFunctionOnSet(f, A) = SumFunctionOnSet(g, A)
      BY <2>2, <2>3, SumSame
    <3> QED
      BY <2>1, <2>2, <2>5, <3>1, <3>2
  <2> QED
    BY <2>4, <2>5
<1> QED
  BY <1>1, <1>3, <1>4

(* After a commit that kept the items, whoever is still open has what it   *)
(* read.                                                                   *)
LEMMA CommitAmends ==
  ASSUME AmendInv, NEW t \in Tx, StepOf(t), Commit(t), AmendTypes', Recorded',
         ItemsStay, RefundsStated',
         \A p \in OrderId : orders[p] # NoOrder /\ Covered(orders[p]) =>
           RefundsOf(p)' \in Int /\ RefundsOf(p) <= RefundsOf(p)'
  PROVE  AmendInv'
<1>0. StockInv /\ AmendTypes /\ Recorded /\ StockTypeOK
  BY DEF AmendInv, StockInv
<1>1. StockInv'
  BY <1>0, CommitInv
<1>2. pc'[t] \notin Open
  BY <1>0 DEF Commit, StockTypeOK, Open
<1>3. ASSUME NEW u \in Tx, pc'[u] \in Open PROVE Handling(u)' /\ Copied(u)'
  <2>1. u \in Tx \ {t}
    BY <1>2, <1>3
  <2>2. Local(u)' = Local(u)
    BY <1>0, <2>1, OthersKeep
  <2>3. /\ pc'[u] = pc[u] /\ stage'[u] = stage[u] /\ sale'[u] = sale[u] /\ held'[u] = held[u]
        /\ draft'[u] = draft[u] /\ snap'[u] = snap[u] /\ plan'[u] = plan[u]
    BY <2>2 DEF Local
  <2>4. Handling(u) /\ Copied(u)
    BY <1>3, <2>3 DEF AmendInv, Handled
  <2>5. Handling(u)'
    BY <2>3, <2>4 DEF Handling, Within
  <2>6. Copied(u)'
    <3> SUFFICES ASSUME stage[u] \in Amending, snap[u] # NoOrder
                 PROVE  LET order == orders'[draft[u].order]
                        IN /\ order # NoOrder
                           /\ SameItems(order, snap[u])
                           /\ Covered(order) =>
                                /\ snap[u].refunded \in Nat
                                /\ snap[u].refunded <= RefundsOf(draft[u].order)'
      BY <2>3 DEF Copied, SameItems
    <3>0. PICK p \in OrderId : p = draft[u].order
      BY <2>4, AdjustmentTypes DEF Handling, Amending, Named
    <3>1. /\ orders[p] # NoOrder /\ SameItems(orders[p], snap[u])
          /\ Covered(orders[p]) =>
               snap[u].refunded \in Nat /\ snap[u].refunded <= RefundsOf(p)
      BY <2>4, <3>0 DEF Copied
    <3>3. orders'[p] # NoOrder /\ SameItems(orders'[p], orders[p])
      BY <3>1 DEF ItemsStay
    <3>4. Covered(orders'[p]) <=> Covered(orders[p])
      BY <3>3, SameWorth
    <3>5. RefundsOf(p) \in Int
      BY <1>0, RefundsTypes
    <3>6. Covered(orders[p]) => RefundsOf(p)' \in Int /\ RefundsOf(p) <= RefundsOf(p)'
      BY <3>1
    <3>7. Covered(orders'[p]) =>
            snap[u].refunded \in Nat /\ snap[u].refunded <= RefundsOf(p)'
      BY <3>1, <3>4, <3>5, <3>6
    <3>8. draft'[u].order = p
      BY <2>3, <3>0
    <3> QED
      BY <3>0, <3>1, <3>3, <3>7, <3>8 DEF SameItems
  <2> QED
    BY <2>5, <2>6
<1> QED
  BY <1>1, <1>3 DEF AmendInv, Handled

LEMMA CommitSaleAmends ==
  ASSUME AmendInv, NEW t \in Tx, CommitSale(t), UNCHANGED adjustVars
  PROVE  /\ AmendInv' /\ ItemsStay
         /\ orders[t] = NoOrder /\ orders' = [orders EXCEPT ![t] = NewOrder(sale[t], held[t].counter)]
         /\ NewOrder(sale[t], held[t].counter) \in OrderType
         /\ \A p \in OrderId : RefundsOf(p)' = RefundsOf(p) /\ \A i : Returned(p, i)' = Returned(p, i)
<1> DEFINE new == NewOrder(sale[t], held[t].counter)
<1>0. /\ StepOf(t) /\ StockInv /\ AmendTypes /\ Recorded /\ Commit(t) /\ stage[t] = "lines"
      /\ pc[t] = "read" /\ t \in OrderId
  BY DEF StepOf, OrdersStatement, SaleStatement, CommitSale, Commit, Done, AmendInv, OrderId
<1>1. sale[t] \in Sale /\ held[t] \in StoreRow
  BY <1>0 DEF AmendInv, Handled, Handling, Open
<1>2. new \in OrderType /\ new # NoOrder /\ held[t].counter \in Nat
  <2>1. sale[t] \in SaleType
    BY <1>1, SaleAssumption
  <2>2. new \in OrderType /\ held[t].counter \in Nat
    BY <1>1, <2>1 DEF SaleType, StoreRow, NewOrder, OrderType, Status
  <2> QED
    BY <2>2, OrderTypes
<1>3. orders[t] = NoOrder /\ orders' = [orders EXCEPT ![t] = new]
  BY <1>0 DEF CommitSale, Recorded
<1>13. Due(new) >= 0
  <2>1. Due(sale[t]) >= 0
    BY <1>0 DEF AmendInv, Handled, Handling, Open
  <2>2. SameItems(new, sale[t])
    BY DEF NewOrder, SameItems
  <2> QED
    BY <2>1, <2>2, SameWorth
<1> HIDE DEF new
<1>4. AmendTypes'
  <2>1. orders' \in [OrderId -> OrderType \cup {NoOrder}]
    BY <1>0, <1>2, <1>3 DEF AmendTypes
  <2>2. counter' \in [Store -> Nat] /\ held' \in [Tx -> StoreRow \cup {NoStore}]
    BY <1>0, <1>2 DEF AmendTypes, CommitSale, ReleaseStore
  <2> QED
    BY <1>0, <2>1, <2>2 DEF AmendTypes, CommitSale, adjustVars
<1>5. /\ orders'[t] = new /\ \A p \in OrderId \ {t} : orders'[p] = orders[p]
      /\ Orders' = Orders \cup {t}
  BY <1>0, <1>2, <1>3 DEF AmendTypes, Orders
<1>6. ItemsStay
  BY <1>3, <1>5 DEF ItemsStay, SameItems
<1>7. \A p \in OrderId : RefundsOf(p)' = RefundsOf(p) /\ \A i : Returned(p, i)' = Returned(p, i)
  BY <1>0, <1>6, SumsStay DEF adjustVars
<1>8. \A u \in Tx : pc'[u] # "committed" => pc[u] # "committed" /\ u # t
  BY <1>0 DEF Commit, StockInv, StockTypeOK
<1>9. Recorded'
  <2>1. \A u \in Tx : pc'[u] # "committed" => orders'[u] = NoOrder /\ adjusts'[u] = NoOrder
    BY <1>0, <1>5, <1>8 DEF Recorded, adjustVars, OrderId
  <2>2. Amended' = Amended /\ adjusts' = adjusts /\ restored' = restored
    BY DEF Amended, adjustVars
  <2>3. \A u \in Amended : /\ orders'[adjusts[u].order] # NoOrder
                           /\ Within(adjusts[u].returns, orders'[adjusts[u].order].lines)
    <3> SUFFICES ASSUME NEW u \in Amended
                 PROVE  /\ orders'[adjusts[u].order] # NoOrder
                        /\ Within(adjusts[u].returns, orders'[adjusts[u].order].lines)
      OBVIOUS
    <3>1. adjusts[u].order \in OrderId
      BY <1>0, AdjustmentTypes DEF Amended, AmendTypes
    <3> QED
      BY <1>0, <1>6, <3>1 DEF Recorded, ItemsStay, SameItems
  <2>4. \A p \in OrderId : DOMAIN restored[p] # {} =>
          orders'[p] # NoOrder /\ DOMAIN restored[p] = DOMAIN orders'[p].lines
    BY <1>0, <1>6 DEF Recorded, ItemsStay, SameItems
  <2>5. IsFiniteSet(Amended) /\ IsFiniteSet(Orders')
    BY <1>0, <1>5, FS_AddElement DEF Recorded
  <2>6. \A p \in Orders' : Due(orders'[p]) >= 0
    BY <1>0, <1>5, <1>13 DEF Recorded, Orders
  <2> QED
    BY <2>1, <2>2, <2>3, <2>4, <2>5, <2>6 DEF Recorded, Within
<1>10. RefundsStated'
  <2> SUFFICES ASSUME NEW p \in Orders', Covered(orders'[p])
               PROVE  orders'[p].refunded \in Nat /\ orders'[p].refunded <= RefundsOf(p)'
    BY DEF RefundsStated
  <2>1. p \in OrderId
    BY DEF Orders
  <2>2. CASE p = t
    <3>1. orders'[p].refunded = 0
      BY <1>5, <2>2 DEF new, NewOrder
    <3>2. RefundsOf(p) = 0
      BY <1>0, <1>3, <2>2, NoOrderNoAdjusts, SumEmpty DEF RefundsOf
    <3> QED
      BY <1>7, <2>1, <3>1, <3>2
  <2>3. CASE p # t
    BY <1>5, <1>7, <2>1, <2>3 DEF AmendInv, RefundsStated
  <2> QED
    BY <2>2, <2>3
<1>11. \A p \in OrderId : RefundsOf(p)' \in Int /\ RefundsOf(p) <= RefundsOf(p)'
  BY <1>0, <1>7, RefundsTypes
<1>12. AmendInv'
  BY <1>0, <1>4, <1>6, <1>9, <1>10, <1>11, CommitAmends
<1> QED
  BY <1>2, <1>3, <1>6, <1>7, <1>12 DEF new

(* What an adjustment that commits knows.                                  *)
LEMMA AdjustingKnows ==
  ASSUME AmendInv, NEW t \in Tx, CommitAdjust(t)
  PROVE  /\ StepOf(t) /\ Commit(t) /\ pc[t] = "read" /\ stage[t] = "adjusting"
         /\ draft[t] \in Adjustment /\ snap[t] \in OrderType /\ draft[t].order \in OrderId
         /\ Within(draft[t].returns, snap[t].lines) /\ Items(snap[t])
         /\ draft[t].returns \in Seq(ReturnLine)
         /\ orders[draft[t].order] \in OrderType /\ SameItems(orders[draft[t].order], snap[t])
         /\ Covered(snap[t]) =>
              snap[t].refunded \in Nat /\ snap[t].refunded <= RefundsOf(draft[t].order)
         /\ adjusts[t] = NoOrder
         /\ Refund(snap[t], draft[t].returns) \in Int
         /\ Covered(snap[t]) => Refund(snap[t], draft[t].returns) \in Nat
<1>0. /\ StepOf(t) /\ AmendTypes /\ Recorded /\ Commit(t) /\ stage[t] = "adjusting" /\ pc[t] = "read"
  BY DEF StepOf, OrdersStatement, CommitAdjust, Commit, Done, AmendInv
<1>1. Handling(t) /\ Copied(t)
  BY <1>0 DEF AmendInv, Handled, Open
<1>2. draft[t] \in Adjustment /\ snap[t] \in OrderType /\ Within(draft[t].returns, snap[t].lines)
  BY <1>0, <1>1 DEF Handling, Decided
<1>3. /\ draft[t].order \in OrderId /\ draft[t].returns \in Seq(ReturnLine)
      /\ snap[t] # NoOrder /\ Items(snap[t])
  BY <1>2, AdjustmentTypes, OrderTypes DEF Items
<1>4. /\ orders[draft[t].order] # NoOrder /\ SameItems(orders[draft[t].order], snap[t])
      /\ Covered(orders[draft[t].order]) =>
           snap[t].refunded \in Nat /\ snap[t].refunded <= RefundsOf(draft[t].order)
  BY <1>0, <1>1, <1>3 DEF Copied, Amending
<1>5. orders[draft[t].order] \in OrderType /\ adjusts[t] = NoOrder
  BY <1>0, <1>3, <1>4 DEF AmendTypes, Recorded
<1>6. Covered(orders[draft[t].order]) <=> Covered(snap[t])
  BY <1>4, SameWorth
<1> QED
  BY <1>0, <1>2, <1>3, <1>4, <1>5, <1>6, RefundTypes

LEMMA CommitAdjustAmends ==
  ASSUME AmendInv, NEW t \in Tx, CommitAdjust(t)
  PROVE  /\ AmendInv' /\ ItemsStay
         /\ orders' = [orders EXCEPT ![draft[t].order] =
                          [orders[draft[t].order] EXCEPT
                             !.refunded = ToCents(NewRefunded(snap[t], draft[t])),
                             !.status = StatusAfter(snap[t], NewRefunded(snap[t], draft[t]),
                                                    Refund(snap[t], draft[t].returns))]]
         /\ adjusts' = [adjusts EXCEPT ![t] = draft[t]]
         /\ \A p \in OrderId :
              RefundsOf(p)' = RefundsOf(p)
                + IF p = draft[t].order THEN ToCents(Refund(snap[t], draft[t].returns)) ELSE 0
<1> DEFINE a == draft[t]
           o == a.order
           refund == Refund(snap[t], a.returns)
           total == NewRefunded(snap[t], a)
           status == StatusAfter(snap[t], total, refund)
           row == [orders[o] EXCEPT !.refunded = ToCents(total), !.status = status]
<1>0. /\ StepOf(t) /\ Commit(t) /\ a \in Adjustment /\ snap[t] \in OrderType /\ o \in OrderId
      /\ Within(a.returns, snap[t].lines) /\ orders[o] \in OrderType
      /\ SameItems(orders[o], snap[t]) /\ adjusts[t] = NoOrder /\ refund \in Int
      /\ Covered(snap[t]) =>
           snap[t].refunded \in Nat /\ snap[t].refunded <= RefundsOf(o) /\ refund \in Nat
  BY AdjustingKnows
<1>1. StockInv /\ AmendTypes /\ Recorded
  BY DEF AmendInv
<1>2. snap[t].refunded \in Int /\ snap[t].status \in Status /\ a # NoOrder /\ orders[o] # NoOrder
  BY <1>0, OrderTypes, AdjustmentTypes
<1>3. /\ total = Cent * snap[t].refunded + refund /\ total \in Int /\ ToCents(total) \in Int
      /\ Covered(snap[t]) => ToCents(total) = snap[t].refunded + ToCents(refund)
                              /\ ToCents(refund) \in Nat
  <2>1. total = Cent * snap[t].refunded + refund
    BY DEF NewRefunded
  <2>2. Cent * snap[t].refunded \in Int
    BY <1>2, CentAssumption
  <2> HIDE DEF total, refund
  <2>3. total \in Int /\ ToCents(total) \in Int
    BY <1>0, <2>1, <2>2, CentsNear
  <2>4. Covered(snap[t]) => ToCents(total) = snap[t].refunded + ToCents(refund)
                             /\ ToCents(refund) \in Nat
    BY <1>0, <2>1, CentsShift
  <2> QED
    BY <2>1, <2>3, <2>4
<1>4. status \in Status
  BY <1>2 DEF StatusAfter, Status
<1>5. /\ orders' = [orders EXCEPT ![o] = row] /\ adjusts' = [adjusts EXCEPT ![t] = a]
      /\ UNCHANGED <<counter, sale, stage, held, restored, draft, snap, plan>>
  BY DEF CommitAdjust
<1>18. Refund(orders[o], a.returns) = refund /\ (Covered(orders[o]) <=> Covered(snap[t]))
  BY <1>0, SameWorth
<1> HIDE DEF total, status, refund
<1>6. row \in OrderType /\ SameItems(row, orders[o]) /\ row.refunded = ToCents(total)
  BY <1>0, <1>3, <1>4 DEF OrderType, SameItems
<1>7. row # NoOrder
  BY <1>6, OrderTypes
<1> HIDE DEF row, o, a
<1>8. AmendTypes'
  BY <1>0, <1>1, <1>5, <1>6 DEF AmendTypes
<1>9. /\ orders'[o] = row /\ (\A p \in OrderId \ {o} : orders'[p] = orders[p])
      /\ Orders' = Orders
  BY <1>0, <1>1, <1>2, <1>5, <1>7 DEF AmendTypes, Orders
<1>10. ItemsStay
  BY <1>6, <1>7, <1>9 DEF ItemsStay, SameItems
<1>11. \A p \in OrderId :
         RefundsOf(p)' = RefundsOf(p) + IF p = o THEN ToCents(refund) ELSE 0
  <2>1. Within(a.returns, orders[o].lines)
    BY <1>0 DEF SameItems
  <2> QED
    BY <1>0, <1>1, <1>2, <1>5, <1>10, <1>18, <2>1, SumsGrow DEF o
<1>12. \A u \in Tx : pc'[u] # "committed" => pc[u] # "committed" /\ u # t
  BY <1>0, <1>1 DEF Commit, StockInv, StockTypeOK
<1>13. /\ adjusts'[t] = a /\ (\A u \in Tx \ {t} : adjusts'[u] = adjusts[u])
       /\ Amended' = Amended \cup {t}
  BY <1>1, <1>2, <1>5 DEF AmendTypes, Amended
<1>14. Recorded'
  <2>1. \A u \in Tx : pc'[u] # "committed" => orders'[u] = NoOrder /\ adjusts'[u] = NoOrder
    <3> SUFFICES ASSUME NEW u \in Tx, pc'[u] # "committed"
                 PROVE  orders'[u] = NoOrder /\ adjusts'[u] = NoOrder
      OBVIOUS
    <3>1. orders[u] = NoOrder /\ adjusts[u] = NoOrder /\ u # t /\ u \in OrderId
      BY <1>1, <1>12 DEF Recorded, OrderId
    <3> QED
      BY <1>2, <1>9, <1>13, <3>1
  <2>2. \A u \in Amended' : /\ orders'[adjusts'[u].order] # NoOrder
                            /\ Within(adjusts'[u].returns, orders'[adjusts'[u].order].lines)
    <3> SUFFICES ASSUME NEW u \in Amended'
                 PROVE  /\ orders'[adjusts'[u].order] # NoOrder
                        /\ Within(adjusts'[u].returns, orders'[adjusts'[u].order].lines)
      OBVIOUS
    <3>1. CASE u = t
      BY <1>0, <1>6, <1>7, <1>9, <1>13, <3>1 DEF o, SameItems
    <3>2. CASE u # t
      <4>1. u \in Amended /\ adjusts'[u] = adjusts[u] /\ adjusts[u].order \in OrderId
        BY <1>1, <1>13, <3>2, AdjustmentTypes DEF Amended, AmendTypes
      <4> QED
        BY <1>1, <1>10, <4>1 DEF Recorded, ItemsStay, SameItems
    <3> QED
      BY <3>1, <3>2
  <2>3. \A p \in OrderId : DOMAIN restored'[p] # {} =>
          orders'[p] # NoOrder /\ DOMAIN restored'[p] = DOMAIN orders'[p].lines
    BY <1>1, <1>5, <1>10 DEF Recorded, ItemsStay, SameItems
  <2>4. IsFiniteSet(Amended') /\ IsFiniteSet(Orders')
    BY <1>1, <1>9, <1>13, FS_AddElement DEF Recorded
  <2>5. \A p \in Orders' : Due(orders'[p]) >= 0
    BY <1>1, <1>9, <1>10, SameWorth DEF Recorded, ItemsStay, Orders
  <2> QED
    BY <2>1, <2>2, <2>3, <2>4, <2>5 DEF Recorded, Within
<1>15. \A p \in OrderId : orders[p] # NoOrder /\ Covered(orders[p]) =>
         RefundsOf(p)' \in Int /\ RefundsOf(p) <= RefundsOf(p)'
  <2> SUFFICES ASSUME NEW p \in OrderId, Covered(orders[p])
               PROVE  RefundsOf(p)' \in Int /\ RefundsOf(p) <= RefundsOf(p)'
    OBVIOUS
  <2>1. RefundsOf(p) \in Int
    BY <1>1, RefundsTypes
  <2>2. p = o => ToCents(refund) \in Nat
    BY <1>3, <1>18
  <2> QED
    BY <1>11, <2>1, <2>2
<1>16. RefundsStated'
  <2> SUFFICES ASSUME NEW p \in Orders', Covered(orders'[p])
               PROVE  orders'[p].refunded \in Nat /\ orders'[p].refunded <= RefundsOf(p)'
    BY DEF RefundsStated
  <2>1. p \in OrderId /\ p \in Orders /\ RefundsOf(p) \in Int
    BY <1>1, <1>9, RefundsTypes DEF Orders
  <2>2. CASE p = o
    <3>1. RefundsOf(p)' = RefundsOf(p) + ToCents(refund)
      BY <1>0, <1>11, <2>1, <2>2
    <3>2. Covered(snap[t])
      BY <1>6, <1>9, <1>18, <2>2, SameWorth
    <3>3. orders'[p].refunded = snap[t].refunded + ToCents(refund)
      BY <1>3, <1>6, <1>9, <2>2, <3>2
    <3> QED
      BY <1>0, <1>3, <2>1, <2>2, <3>1, <3>2, <3>3
  <2>3. CASE p # o
    BY <1>9, <1>11, <2>1, <2>3 DEF AmendInv, RefundsStated
  <2> QED
    BY <2>2, <2>3
<1>17. AmendInv'
  BY <1>0, <1>8, <1>10, <1>14, <1>15, <1>16, CommitAmends
<1> QED
  BY <1>5, <1>10, <1>11, <1>17 DEF row, o, a, total, status, refund

(* What a void that commits knows, and what it writes.                     *)
LEMMA VoidingKnows ==
  ASSUME AmendInv, NEW t \in Tx, CommitVoid(t)
  PROVE  /\ StepOf(t) /\ Commit(t) /\ pc[t] = "read" /\ stage[t] = "voiding"
         /\ snap[t] \in OrderType /\ draft[t].order \in OrderId
         /\ DOMAIN plan[t] = DOMAIN snap[t].lines /\ plan[t] \in Seq(Nat)
         /\ orders[draft[t].order] \in OrderType /\ SameItems(orders[draft[t].order], snap[t])
<1>0. /\ StepOf(t) /\ AmendTypes /\ Recorded /\ Commit(t) /\ stage[t] = "voiding" /\ pc[t] = "read"
  BY DEF StepOf, OrdersStatement, CommitVoid, Commit, Done, AmendInv
<1>1. Handling(t) /\ Copied(t)
  BY <1>0 DEF AmendInv, Handled, Open
<1>2. draft[t] \in Named /\ snap[t] \in OrderType /\ DOMAIN plan[t] = DOMAIN snap[t].lines
  BY <1>0, <1>1 DEF Handling, Decided
<1>3. draft[t].order \in OrderId /\ snap[t] # NoOrder
  BY <1>2, OrderTypes DEF Named
<1>4. orders[draft[t].order] # NoOrder /\ SameItems(orders[draft[t].order], snap[t])
  BY <1>0, <1>1, <1>3 DEF Copied, Amending
<1>5. orders[draft[t].order] \in OrderType /\ plan[t] \in Seq(Nat)
  BY <1>0, <1>3, <1>4 DEF AmendTypes
<1> QED
  BY <1>0, <1>2, <1>3, <1>4, <1>5

LEMMA RestoredTypes ==
  ASSUME AmendTypes, NEW o \in OrderId, NEW i
  PROVE  Restored(o, i) \in Nat
BY DEF AmendTypes, Restored

LEMMA CommitVoidAmends ==
  ASSUME AmendInv, NEW t \in Tx, CommitVoid(t)
  PROVE  /\ AmendInv' /\ ItemsStay
         /\ orders' = [orders EXCEPT ![draft[t].order] = [orders[draft[t].order] EXCEPT !.status = "CANCELLED"]]
         /\ adjusts' = adjusts
         /\ \A p \in OrderId : \A i :
              Restored(p, i)' = Restored(p, i)
                + IF p = draft[t].order /\ i \in DOMAIN snap[t].lines THEN plan[t][i] ELSE 0
<1> DEFINE o == draft[t].order
           row == [orders[o] EXCEPT !.status = "CANCELLED"]
           back == [i \in DOMAIN plan[t] |-> Restored(o, i) + plan[t][i]]
<1>0. /\ StepOf(t) /\ Commit(t) /\ snap[t] \in OrderType /\ o \in OrderId
      /\ DOMAIN plan[t] = DOMAIN snap[t].lines /\ plan[t] \in Seq(Nat)
      /\ orders[o] \in OrderType /\ SameItems(orders[o], snap[t])
      /\ orders[o].lines = snap[t].lines
  BY VoidingKnows DEF SameItems
<1>1. StockInv /\ AmendTypes /\ Recorded
  BY DEF AmendInv
<1>2. /\ orders' = [orders EXCEPT ![o] = row] /\ restored' = [restored EXCEPT ![o] = back]
      /\ UNCHANGED <<counter, usage, sale, stage, held, adjusts, draft, snap, plan>>
  BY DEF CommitVoid
<1>3. row \in OrderType /\ row # NoOrder /\ SameItems(row, orders[o]) /\ row.refunded = orders[o].refunded
  <2>1. row \in OrderType /\ SameItems(row, orders[o]) /\ row.refunded = orders[o].refunded
    BY <1>0 DEF OrderType, Status, SameItems
  <2> HIDE DEF row
  <2> QED
    BY <2>1, OrderTypes
<1>4. back \in Seq(Nat) /\ DOMAIN back = DOMAIN orders[o].lines
  <2>1. \A i \in DOMAIN plan[t] : back[i] \in Nat
    <3> SUFFICES ASSUME NEW i \in DOMAIN plan[t] PROVE Restored(o, i) + plan[t][i] \in Nat
      OBVIOUS
    <3>1. plan[t][i] \in Nat /\ Restored(o, i) \in Nat
      BY <1>0, <1>1, RestoredTypes
    <3> QED
      BY <3>1
  <2>2. DOMAIN plan[t] = 1 .. Len(plan[t]) /\ Len(plan[t]) \in Nat
    BY <1>0
  <2>3. back = [i \in 1 .. Len(plan[t]) |-> back[i]] /\ DOMAIN back = DOMAIN plan[t]
    BY <2>2
  <2> HIDE DEF back
  <2>4. back \in [1 .. Len(plan[t]) -> Nat]
    BY <2>1, <2>2, <2>3
  <2> QED
    BY <1>0, <2>2, <2>3, <2>4
<1>5. \A p \in OrderId : \A i :
        Restored(p, i)' = Restored(p, i)
          + IF p = o /\ i \in DOMAIN snap[t].lines THEN plan[t][i] ELSE 0
  <2> SUFFICES ASSUME NEW p \in OrderId, NEW i
               PROVE  Restored(p, i)' = Restored(p, i)
                        + IF p = o /\ i \in DOMAIN snap[t].lines THEN plan[t][i] ELSE 0
    OBVIOUS
  <2>1. Restored(p, i) \in Nat
    BY <1>1, RestoredTypes
  <2>2. CASE p # o
    <3>1. restored'[p] = restored[p]
      BY <1>1, <1>2, <2>2 DEF AmendTypes
    <3> QED
      BY <2>1, <2>2, <3>1 DEF Restored
  <2>3. CASE p = o
    <3>1. restored'[p] = back
      BY <1>0, <1>1, <1>2, <2>3 DEF AmendTypes
    <3>2. CASE i \in DOMAIN snap[t].lines
      <4>1. Restored(p, i)' = Restored(o, i) + plan[t][i]
        BY <1>0, <3>1, <3>2 DEF Restored
      <4> QED
        BY <2>3, <3>2, <4>1
    <3>3. CASE i \notin DOMAIN snap[t].lines
      <4>1. Restored(p, i)' = 0
        BY <1>0, <3>1, <3>3 DEF Restored
      <4>2. i \notin DOMAIN restored[o]
        BY <1>0, <1>1, <3>3 DEF Recorded
      <4> QED
        BY <2>3, <3>3, <4>1, <4>2 DEF Restored
    <3> QED
      BY <3>2, <3>3
  <2> QED
    BY <2>2, <2>3
<1> HIDE DEF row, o, back
<1>6. AmendTypes'
  BY <1>0, <1>1, <1>2, <1>3, <1>4 DEF AmendTypes
<1>7. orders[o] # NoOrder
  BY <1>0, OrderTypes
<1>8. /\ orders'[o] = row /\ (\A p \in OrderId \ {o} : orders'[p] = orders[p] /\ restored'[p] = restored[p])
      /\ Orders' = Orders /\ restored'[o] = back
  BY <1>0, <1>1, <1>2, <1>3, <1>7 DEF AmendTypes, Orders
<1>9. ItemsStay
  BY <1>3, <1>8 DEF ItemsStay, SameItems
<1>10. \A p \in OrderId : RefundsOf(p)' = RefundsOf(p)
  BY <1>1, <1>2, <1>9, SumsStay
<1>11. \A u \in Tx : pc'[u] # "committed" => pc[u] # "committed" /\ u # t
  BY <1>0, <1>1 DEF Commit, StockInv, StockTypeOK
<1>12. Recorded'
  <2>1. \A u \in Tx : pc'[u] # "committed" => orders'[u] = NoOrder /\ adjusts'[u] = NoOrder
    <3> SUFFICES ASSUME NEW u \in Tx, pc'[u] # "committed"
                 PROVE  orders'[u] = NoOrder /\ adjusts'[u] = NoOrder
      OBVIOUS
    <3>1. orders[u] = NoOrder /\ adjusts[u] = NoOrder /\ u \in OrderId
      BY <1>1, <1>11 DEF Recorded, OrderId
    <3> QED
      BY <1>2, <1>7, <1>8, <3>1
  <2>2. \A u \in Amended : /\ orders'[adjusts[u].order] # NoOrder
                           /\ Within(adjusts[u].returns, orders'[adjusts[u].order].lines)
    <3> SUFFICES ASSUME NEW u \in Amended
                 PROVE  /\ orders'[adjusts[u].order] # NoOrder
                        /\ Within(adjusts[u].returns, orders'[adjusts[u].order].lines)
      OBVIOUS
    <3>1. adjusts[u].order \in OrderId
      BY <1>1, AdjustmentTypes DEF Amended, AmendTypes
    <3> QED
      BY <1>1, <1>9, <3>1 DEF Recorded, ItemsStay, SameItems
  <2>3. \A p \in OrderId : DOMAIN restored'[p] # {} =>
          orders'[p] # NoOrder /\ DOMAIN restored'[p] = DOMAIN orders'[p].lines
    BY <1>1, <1>3, <1>4, <1>8, <1>9 DEF Recorded, ItemsStay, SameItems
  <2>4. Amended' = Amended
    BY <1>2 DEF Amended
  <2>5. \A p \in Orders : Due(orders'[p]) >= 0
    BY <1>1, <1>9, SameWorth DEF Recorded, ItemsStay, Orders
  <2> QED
    BY <1>1, <1>2, <1>8, <2>1, <2>2, <2>3, <2>4, <2>5 DEF Recorded, Within
<1>13. RefundsStated'
  <2> SUFFICES ASSUME NEW p \in Orders, Covered(orders'[p])
               PROVE  orders'[p].refunded \in Nat /\ orders'[p].refunded <= RefundsOf(p)'
    BY <1>8 DEF RefundsStated
  <2>1. p \in OrderId /\ orders[p] # NoOrder
    BY DEF Orders
  <2>2. Covered(orders[p]) /\ orders'[p].refunded = orders[p].refunded
    BY <1>3, <1>8, <1>9, <2>1, SameWorth DEF ItemsStay
  <2> QED
    BY <1>10, <2>1, <2>2 DEF AmendInv, RefundsStated
<1>14. \A p \in OrderId : RefundsOf(p)' \in Int /\ RefundsOf(p) <= RefundsOf(p)'
  BY <1>1, <1>10, RefundsTypes
<1>15. AmendInv'
  BY <1>0, <1>6, <1>9, <1>12, <1>13, <1>14, CommitAmends
<1> QED
  BY <1>2, <1>5, <1>9, <1>15 DEF row, o

-----------------------------------------------------------------------------
LEMMA AmendInitInv == OrdersInit => AmendInv
<1> SUFFICES ASSUME OrdersInit PROVE AmendInv
  OBVIOUS
<1>0. SalesInit /\ StockInit
  BY DEF OrdersInit, SalesInit
<1>1. StockInv
  BY <1>0, StockInitInv
<1>2. pc = [t \in Tx |-> "idle"]
  BY <1>0 DEF StockInit
<1>3. orders \in [OrderId -> OrderType \cup {NoOrder}]
  BY <1>0, PlacedAssumption DEF SalesInit
<1>4. counter \in [Store -> Nat]
  <2>1. \A s \in Store : Cardinality(PlacedIn(s)) \in Nat
    BY PastAssumption, FS_Subset, FS_CardinalityType DEF PlacedIn
  <2> QED
    BY <1>0, <2>1 DEF SalesInit
<1>5. /\ [i \in 1 .. 0 |-> 0] \in Seq(Nat) /\ <<>> \in Seq(Nat)
      /\ DOMAIN [i \in 1 .. 0 |-> 0] = {}
  OBVIOUS
<1>6. AmendTypes
  BY <1>0, <1>3, <1>4, <1>5 DEF AmendTypes, OrdersInit, SalesInit, AllStages, Stages
<1>7. Amended = {} /\ Orders \subseteq Past
  BY <1>0 DEF Amended, OrdersInit, Orders, SalesInit, OrderId
<1>8. Recorded
  <2>1. \A t \in Tx : orders[t] = NoOrder /\ adjusts[t] = NoOrder
    BY <1>0, NamesAssumption DEF OrdersInit, SalesInit, OrderId
  <2>2. \A o \in OrderId : DOMAIN restored[o] = {}
    BY <1>5 DEF OrdersInit
  <2>3. IsFiniteSet(Amended) /\ IsFiniteSet(Orders)
    BY <1>7, PastAssumption, FS_Subset, FS_EmptySet
  <2>4. \A o \in Orders : Due(orders[o]) >= 0
    BY <1>0, <1>7, PlacedAssumption DEF SalesInit, OrderId
  <2> QED
    BY <1>7, <2>1, <2>2, <2>3, <2>4 DEF Recorded
<1>9. RefundsStated
  <2> SUFFICES ASSUME NEW o \in Orders, Covered(orders[o])
               PROVE  orders[o].refunded \in Nat /\ orders[o].refunded <= RefundsOf(o)
    BY DEF RefundsStated
  <2>1. o \in Past /\ o \in OrderId /\ orders[o] = Placed[o]
    BY <1>0, <1>7 DEF SalesInit, OrderId
  <2>2. orders[o].refunded = 0
    BY <2>1, FreshAssumption
  <2>3. RefundsOf(o) \in Nat
    BY <1>6, <1>8, <2>1, RefundsTypes
  <2> QED
    BY <2>2, <2>3
<1>10. Handled
  BY <1>2 DEF Handled, Open
<1> QED
  BY <1>1, <1>6, <1>8, <1>9, <1>10 DEF AmendInv

LEMMA StutterAmends ==
  ASSUME AmendInv, UNCHANGED ordersVars
  PROVE  AmendInv'
<1> USE DEF ordersVars, salesVars, stockVars, saleVars, adjustVars
<1>1. StockInv'
  BY DEF AmendInv, StockInv, StockTypeOK, NeverNegative, BooksBalance,
         Exclusive, OnlyLocked, WorkNatural, WorkBalances, InsertsUnwritten, At, Target, Current
<1>2. AmendTypes'
  BY DEF AmendInv, AmendTypes
<1>3. Recorded'
  BY DEF AmendInv, Recorded, Within, Amended, Orders
<1>4. \A o : RefundsOf(o)' = RefundsOf(o)
  BY RefundsQuiet
<1>5. RefundsStated'
  BY <1>4 DEF AmendInv, RefundsStated, Orders
<1>6. Handled'
  BY <1>4 DEF AmendInv, Handled, Handling, Copied, SameItems, Within
<1> QED
  BY <1>1, <1>2, <1>3, <1>5, <1>6 DEF AmendInv

LEMMA StepAmends ==
  ASSUME AmendInv, NEW t \in Tx, StepOf(t)
  PROVE  AmendInv'
<1>1. CASE RejectSale(t) /\ UNCHANGED adjustVars
  BY <1>1, FailureAmends DEF RejectSale, Open
<1>2. CASE SaleStep(t, Fail(t)) /\ UNCHANGED adjustVars
  <2>1. Rollback(t) /\ pc[t] \in Open /\ (ReleaseStore(t) \/ UNCHANGED held)
    BY <1>2 DEF SaleStep, Fail
  <2> QED
    BY <1>2, <2>1, FailureAmends DEF SaleStep
<1> QED
  BY <1>1, <1>2, OpenStepAmends, TakeReceiptAmends, WorkAmends, CommitSaleAmends,
     ReadReturnsAmends, CommitAdjustAmends, ReadRestoresAmends, CommitVoidAmends
     DEF StepOf, OrdersStatement, SaleStatement

LEMMA NextAmendInv == AmendInv /\ [OrdersNext]_ordersVars => AmendInv'
<1> SUFFICES ASSUME AmendInv, [OrdersNext]_ordersVars PROVE AmendInv'
  OBVIOUS
<1>1. CASE \E t \in Tx : StepOf(t)
  BY <1>1, StepAmends
<1>2. CASE UNCHANGED ordersVars
  BY <1>2, StutterAmends
<1> QED
  BY <1>1, <1>2 DEF OrdersNext, OrdersTerminating, StepOf

(* The inductive invariant of sales, adjustments and voids, however they   *)
(* overlap.                                                                *)
THEOREM OrdersAmends == OrdersSpec => []AmendInv
BY AmendInitInv, NextAmendInv, PTL DEF OrdersSpec

(* However adjustments overlap, an order never shows more refunded than    *)
(* its adjustments paid back: order.update writes a total computed from a  *)
(* copy, which can only miss refunds.                                      *)
THEOREM OrdersRefunds == OrdersSpec => []RefundsNeverOverstated
<1>1. AmendInv => RefundsNeverOverstated
  BY DEF AmendInv, RefundsStated, RefundsNeverOverstated
<1> QED
  BY <1>1, OrdersAmends, PTL

-----------------------------------------------------------------------------
(* Stock, receipts and uses of discounts, however sales, adjustments and   *)
(* voids overlap.                                                          *)

(* Adjustments and voids of the store's orders take no lock on the store:  *)
(* their stock writes may be outdated, but no level goes below zero and    *)
(* only an outdated write parts a level from its movements.                *)
THEOREM OrdersBooksBalance == OrdersSpec => [](NeverNegative /\ BooksBalance)
<1>1. AmendInv => NeverNegative /\ BooksBalance
  BY DEF AmendInv, StockInv
<1> QED
  BY <1>1, OrdersAmends, PTL

(* A sale past its receipt number, and nothing else, holds a store: alone, *)
(* and with the number after the last one given.                           *)
StoreLocked ==
  /\ \A t \in Tx : held[t] # NoStore <=> pc[t] \in Open /\ stage[t] = "lines"
  /\ \A t \in Tx : held[t] # NoStore =>
       /\ held[t].store = sale[t].store
       /\ held[t].counter = counter[sale[t].store] + 1
  /\ \A t, u \in Tx : held[t] # NoStore /\ held[u] # NoStore /\ t # u =>
       sale[t].store # sale[u].store

AmendedWith(d) == {t \in Amended : d \in Range(adjusts[t].links)}
UsesCounted == usage \in [Discount -> Nat] /\ UsageCountsDocuments

NumberingInv == AmendInv /\ StoreLocked /\ Numbered /\ UsesCounted

LEMMA NumberingInitInv == OrdersInit => NumberingInv
<1> SUFFICES ASSUME OrdersInit PROVE NumberingInv
  OBVIOUS
<1>1. SalesInit
  BY DEF OrdersInit
<1>2. AmendInv
  BY AmendInitInv
<1>3. SalesInv
  BY <1>1, SalesInitInv
<1>4. StoreLocked /\ Numbered
  BY <1>3 DEF SalesInv, StoreHeld, StoreLocked
<1>5. Amended = {}
  BY DEF Amended, OrdersInit
<1>6. UsesCounted
  <2>1. usage \in [Discount -> Nat] /\ UsageCountsOrders
    BY <1>3 DEF SalesInv, SaleTypes, Counted
  <2> SUFFICES ASSUME NEW d \in Discount
               PROVE  usage[d] = Cardinality(LinkedBy(d)) + Cardinality(AmendedWith(d))
    BY <2>1 DEF UsesCounted, UsageCountsDocuments, LinkedBy, AmendedWith
  <2>2. AmendedWith(d) = {}
    BY <1>5 DEF AmendedWith
  <2>3. Cardinality(AmendedWith(d)) = 0
    BY <2>2, FS_EmptySet
  <2>4. usage[d] \in Nat /\ usage[d] = Cardinality(LinkedBy(d))
    BY <2>1 DEF UsageCountsOrders, LinkedBy
  <2> QED
    BY <2>3, <2>4
<1> QED
  BY <1>2, <1>4, <1>6 DEF NumberingInv

(* Orders keep what they were created with.                                *)
LEMMA NumbersStay ==
  ASSUME Numbered, Orders' = Orders, counter' = counter,
         \A o \in Orders : orders'[o].store = orders[o].store
                           /\ orders'[o].receipt = orders[o].receipt
  PROVE  Numbered'
<1>1. \A s \in Store : OrdersOf(s)' = OrdersOf(s)
  BY DEF OrdersOf
<1>2. \A s \in Store :
        {orders'[o].receipt : o \in OrdersOf(s)} = {orders[o].receipt : o \in OrdersOf(s)}
  BY DEF OrdersOf
<1> QED
  BY <1>1, <1>2 DEF Numbered, ReceiptsGapless

(* A step of t that writes no table: it may let its store go.              *)
LEMMA TablesStay ==
  ASSUME NumberingInv, AmendInv', NEW t \in Tx,
         UNCHANGED <<orders, counter, usage, adjusts>>,
         \A u \in Tx \ {t} : /\ pc'[u] = pc[u] /\ stage'[u] = stage[u]
                            /\ sale'[u] = sale[u] /\ held'[u] = held[u],
         held'[t] # NoStore <=> pc'[t] \in Open /\ stage'[t] = "lines",
         held'[t] # NoStore => held'[t] = held[t] /\ sale'[t] = sale[t]
  PROVE  NumberingInv'
<1>1. StoreLocked'
  BY DEF NumberingInv, StoreLocked
<1>2. Numbered'
  BY NumbersStay DEF NumberingInv, Orders
<1>3. UsesCounted'
  BY DEF NumberingInv, UsesCounted, UsageCountsDocuments, Orders, Amended
<1> QED
  BY <1>1, <1>2, <1>3 DEF NumberingInv

(* Statements, failures and refusals.                                      *)
LEMMA WorkNumbers ==
  ASSUME NumberingInv, AmendInv', NEW t \in Tx, pc[t] \in Open,
         NEW where \in Open \cup {"aborted"}, pc' = [pc EXCEPT ![t] = where],
         IF where = "aborted" THEN ReleaseStore(t) \/ (held[t] = NoStore /\ held' = held)
                              ELSE held' = held,
         UNCHANGED <<orders, counter, usage, sale, stage, adjusts>>
  PROVE  NumberingInv'
<1>1. pc \in [Tx -> PC] /\ held \in [Tx -> StoreRow \cup {NoStore}] /\ "aborted" \notin Open
  BY DEF NumberingInv, AmendInv, StockInv, StockTypeOK, AmendTypes, Open
<1>2. /\ pc'[t] = where
      /\ \A u \in Tx \ {t} : pc'[u] = pc[u] /\ held'[u] = held[u]
  BY <1>1 DEF ReleaseStore
<1>3. CASE where = "aborted"
  <2>1. held'[t] = NoStore
    BY <1>1, <1>3 DEF ReleaseStore
  <2> QED
    BY <1>1, <1>2, <1>3, <2>1, TablesStay
<1>4. CASE where # "aborted"
  <2>1. held'[t] # NoStore <=> pc'[t] \in Open /\ stage'[t] = "lines"
    BY <1>2, <1>4 DEF NumberingInv, StoreLocked
  <2> QED
    BY <1>2, <1>4, <2>1, TablesStay
<1> QED
  BY <1>3, <1>4

(* A transaction that begins holds nothing.                                *)
LEMMA OpenNumbers ==
  ASSUME NumberingInv, AmendInv', NEW t \in Tx, Begin(t, <<>>),
         NEW now, now # "lines", stage' = [stage EXCEPT ![t] = now],
         \A u \in Tx \ {t} : sale'[u] = sale[u],
         UNCHANGED <<orders, counter, usage, adjusts, held>>
  PROVE  NumberingInv'
<1>1. pc \in [Tx -> PC] /\ stage \in [Tx -> AllStages]
  BY DEF NumberingInv, AmendInv, StockInv, StockTypeOK, AmendTypes
<1>2. /\ pc[t] = "idle" /\ stage'[t] = now
      /\ \A u \in Tx \ {t} : pc'[u] = pc[u] /\ stage'[u] = stage[u]
  BY <1>1 DEF Begin
<1>3. held'[t] = NoStore
  BY <1>2 DEF NumberingInv, StoreLocked, Open
<1> QED
  BY <1>2, <1>3, TablesStay

(* An adjustment or void that goes on holds nothing either.                *)
LEMMA PlanNumbers ==
  ASSUME NumberingInv, AmendInv', NEW t \in Tx, pc' = pc, stage[t] # "lines",
         NEW now, now # "lines", stage' = [stage EXCEPT ![t] = now],
         UNCHANGED <<orders, counter, usage, sale, adjusts, held>>
  PROVE  NumberingInv'
<1>1. stage \in [Tx -> AllStages]
  BY DEF NumberingInv, AmendInv, AmendTypes
<1>2. stage'[t] = now /\ \A u \in Tx \ {t} : stage'[u] = stage[u]
  BY <1>1
<1>3. held'[t] = NoStore
  BY DEF NumberingInv, StoreLocked
<1> QED
  BY <1>2, <1>3, TablesStay

LEMMA ReadingNumbers ==
  ASSUME NumberingInv, AmendInv', NEW t \in Tx, ReadReturns(t) \/ ReadRestores(t)
  PROVE  NumberingInv'
<1>1. pc[t] = "read" /\ stage[t] \in Amending /\ pc[t] \in Open /\ stage[t] # "lines"
  BY DEF ReadReturns, ReadRestores, Amending, Open
<1>2. CASE Refuse(t)
  <2>1. pc' = [pc EXCEPT ![t] = "aborted"] /\ held[t] = NoStore /\ held' = held
    BY <1>1, <1>2 DEF Refuse, Rollback, saleVars, NumberingInv, StoreLocked
  <2>2. UNCHANGED <<orders, counter, usage, sale, stage, adjusts>>
    BY <1>2 DEF Refuse, saleVars, adjustVars
  <2> QED
    BY <1>1, <2>1, <2>2, WorkNumbers
<1>3. CASE PlanAdjust(t)
  BY <1>1, <1>3, PlanNumbers DEF PlanAdjust, Adjusting, history, adjustVars
<1>4. CASE PlanVoid(t)
  BY <1>1, <1>4, PlanNumbers DEF PlanVoid, Adjusting, history
<1> QED
  BY <1>2, <1>3, <1>4 DEF ReadReturns, ReadRestores

(* The store is free, so nobody else has its next number.                  *)
LEMMA TakeReceiptNumbers ==
  ASSUME NumberingInv, AmendInv', NEW t \in Tx, TakeReceipt(t), UNCHANGED adjustVars
  PROVE  NumberingInv'
<1> DEFINE s == sale[t].store
           row == [store |-> s, counter |-> counter[s] + 1]
<1>0. AmendTypes /\ pc \in [Tx -> PC] /\ pc[t] = "read" /\ stage[t] = "counter" /\ pc[t] \in Open
  BY DEF NumberingInv, AmendInv, StockInv, StockTypeOK, TakeReceipt, Open
<1>1. UNCHANGED <<orders, counter, usage, sale, adjusts, pc>>
  BY DEF TakeReceipt, Adjusting, history, adjustVars
<1>2. sale[t] \in Sale /\ s \in Store
  BY <1>0, SaleAssumption DEF NumberingInv, AmendInv, Handled, Handling, SaleType
<1>3. row \in StoreRow /\ row # NoStore
  BY <1>0, <1>2, NamesAssumption DEF AmendTypes, StoreRow
<1>4. /\ held'[t] = row /\ stage'[t] = "lines"
      /\ \A u \in Tx \ {t} : held'[u] = held[u] /\ stage'[u] = stage[u]
  BY <1>0 DEF TakeReceipt, AmendTypes
<1>5. \A u \in Tx \ {t} : held[u] # NoStore => sale[u].store # s
  BY DEF TakeReceipt, StoreFree, NumberingInv, StoreLocked
<1>6. StoreLocked'
  <2>1. \A u \in Tx : held'[u] # NoStore <=> pc'[u] \in Open /\ stage'[u] = "lines"
    BY <1>0, <1>1, <1>3, <1>4 DEF NumberingInv, StoreLocked
  <2>2. \A u \in Tx : held'[u] # NoStore =>
          /\ held'[u].store = sale'[u].store
          /\ held'[u].counter = counter'[sale'[u].store] + 1
    BY <1>1, <1>4 DEF NumberingInv, StoreLocked
  <2>3. \A u, v \in Tx : held'[u] # NoStore /\ held'[v] # NoStore /\ u # v =>
          sale'[u].store # sale'[v].store
    BY <1>1, <1>4, <1>5 DEF NumberingInv, StoreLocked
  <2> QED
    BY <2>1, <2>2, <2>3 DEF StoreLocked
<1>7. Numbered'
  BY <1>1, NumbersStay DEF NumberingInv, Orders
<1>8. UsesCounted'
  BY <1>1 DEF NumberingInv, UsesCounted, UsageCountsDocuments, Orders, Amended
<1> QED
  BY <1>6, <1>7, <1>8 DEF NumberingInv

(* An order takes its number; what links a discount, counts once.          *)
LEMMA CommitSaleNumbers ==
  ASSUME NumberingInv, AmendInv', NEW t \in Tx, CommitSale(t), UNCHANGED adjustVars
  PROVE  NumberingInv'
<1> DEFINE s == sale[t]
           new == NewOrder(s, held[t].counter)
<1>0. /\ AmendTypes /\ Recorded /\ StoreLocked /\ pc \in [Tx -> PC]
      /\ pc[t] \in Open /\ pc[t] # "committed" /\ stage[t] = "lines"
  BY DEF NumberingInv, AmendInv, StockInv, StockTypeOK, CommitSale, Commit, Done, Open
<1>1. /\ s \in Sale /\ s.store \in Store /\ s.lines \in Seq(Line) /\ s.links \in Seq(Discount)
      /\ s.discount \in Nat /\ held[t] # NoStore
  BY <1>0, SaleAssumption DEF NumberingInv, AmendInv, Handled, Handling, SaleType, StoreLocked
<1>2. held[t].counter = counter[s.store] + 1 /\ counter[s.store] \in Nat
  BY <1>0, <1>1 DEF StoreLocked, AmendTypes
<1>3. /\ orders' = [orders EXCEPT ![t] = new]
      /\ counter' = [counter EXCEPT ![s.store] = held[t].counter]
      /\ usage' = [d \in Discount |-> usage[d] + Uses(s.links, d)]
      /\ held' = [held EXCEPT ![t] = NoStore]
      /\ pc' = [pc EXCEPT ![t] = "committed"]
      /\ UNCHANGED <<sale, stage, adjusts>>
  BY DEF CommitSale, Commit, ReleaseStore, adjustVars
<1>4. new.store = s.store /\ new.receipt = counter[s.store] + 1 /\ new.links = s.links
  BY <1>2 DEF NewOrder
<1>5. t \in OrderId /\ t \notin Past /\ orders[t] = NoOrder
  BY <1>0, NamesAssumption DEF OrderId, Recorded
<1>6. new # NoOrder
  <2>1. orders'[t] = new
    BY <1>0, <1>3, <1>5 DEF AmendTypes
  <2>2. new \in OrderType
    BY <1>1, <1>2 DEF NewOrder, OrderType, SaleType, Status
  <2> HIDE DEF new
  <2> QED
    BY <2>2, OrderTypes
<1> HIDE DEF new, s
<1>7. /\ Orders' = Orders \cup {t} /\ t \notin Orders /\ orders'[t] = new
      /\ \A o \in Orders : orders'[o] = orders[o]
  BY <1>0, <1>3, <1>5, <1>6 DEF AmendTypes, Orders
<1>8. StoreLocked'
  <2>1. /\ pc'[t] = "committed" /\ held'[t] = NoStore
        /\ \A u \in Tx \ {t} : pc'[u] = pc[u] /\ held'[u] = held[u]
    BY <1>0, <1>3 DEF AmendTypes
  <2>2. \A u \in Tx \ {t} : held[u] # NoStore => counter'[sale[u].store] = counter[sale[u].store]
    BY <1>0, <1>1, <1>3 DEF StoreLocked, AmendTypes, s
  <2> QED
    BY <1>0, <1>3, <2>1, <2>2 DEF StoreLocked, Open
<1>9. Numbered'
  <2>1. counter' = [counter EXCEPT ![s.store] = counter[s.store] + 1]
    BY <1>2, <1>3
  <2>2. Numbered /\ counter \in [Store -> Nat]
    BY <1>0 DEF NumberingInv, AmendTypes
  <2>3. \A o \in Orders : orders'[o].store = orders[o].store
                          /\ orders'[o].receipt = orders[o].receipt
    BY <1>7
  <2> QED
    BY <1>1, <1>4, <1>7, <2>1, <2>2, <2>3, NextReceipt
<1>10. UsesCounted'
  <2> SUFFICES ASSUME NEW d \in Discount
               PROVE  /\ usage'[d] \in Nat
                      /\ usage'[d] = Cardinality(LinkedBy(d)') + Cardinality(AmendedWith(d)')
    BY <1>3 DEF UsesCounted, UsageCountsDocuments, LinkedBy, AmendedWith
  <2>1. /\ usage[d] = Cardinality(LinkedBy(d)) + Cardinality(AmendedWith(d)) /\ usage[d] \in Nat
        /\ IsFiniteSet(LinkedBy(d)) /\ IsFiniteSet(AmendedWith(d))
    BY <1>0, FS_Subset DEF NumberingInv, UsesCounted, UsageCountsDocuments, LinkedBy, AmendedWith, Recorded
  <2>2. Cardinality(LinkedBy(d)) \in Nat /\ Cardinality(AmendedWith(d)) \in Nat
    BY <2>1, FS_CardinalityType
  <2>3. AmendedWith(d)' = AmendedWith(d) /\ usage'[d] = usage[d] + Uses(s.links, d)
    BY <1>3 DEF AmendedWith, Amended
  <2>4. CASE d \in Range(s.links)
    <3>1. LinkedBy(d)' = LinkedBy(d) \cup {t} /\ t \notin LinkedBy(d)
      BY <1>4, <1>5, <1>7, <2>4 DEF LinkedBy
    <3>2. Cardinality(LinkedBy(d)') = Cardinality(LinkedBy(d)) + 1
      BY <2>1, <3>1, FS_AddElement
    <3> QED
      BY <2>1, <2>2, <2>3, <2>4, <3>2 DEF Uses
  <2>5. CASE d \notin Range(s.links)
    <3>1. LinkedBy(d)' = LinkedBy(d)
      BY <1>4, <1>5, <1>7, <2>5 DEF LinkedBy
    <3> QED
      BY <2>1, <2>2, <2>3, <2>5, <3>1 DEF Uses
  <2> QED
    BY <2>4, <2>5
<1> QED
  BY <1>8, <1>9, <1>10 DEF NumberingInv

(* A committed adjustment or void writes its order but not what it was     *)
(* created with, and holds no store.                                       *)
LEMMA CommitKeepsNumbers ==
  ASSUME NumberingInv, NEW t \in Tx, Commit(t), stage[t] # "lines",
         NEW o \in OrderId, orders[o] # NoOrder, NEW row, row # NoOrder,
         row.store = orders[o].store, row.receipt = orders[o].receipt,
         row.links = orders[o].links, orders' = [orders EXCEPT ![o] = row],
         UNCHANGED <<counter, sale, stage, held>>
  PROVE  /\ StoreLocked' /\ Numbered'
         /\ \A d : LinkedBy(d)' = LinkedBy(d)
<1>0. AmendTypes /\ pc \in [Tx -> PC] /\ pc' = [pc EXCEPT ![t] = "committed"]
  BY DEF NumberingInv, AmendInv, StockInv, StockTypeOK, Commit
<1>1. /\ Orders' = Orders
      /\ \A p \in Orders : /\ orders'[p].store = orders[p].store
                           /\ orders'[p].receipt = orders[p].receipt
                           /\ orders'[p].links = orders[p].links
  BY <1>0 DEF AmendTypes, Orders
<1>2. Numbered'
  BY <1>1, NumbersStay DEF NumberingInv
<1>3. \A d : LinkedBy(d)' = LinkedBy(d)
  BY <1>1 DEF LinkedBy
<1>4. StoreLocked'
  <2>1. held[t] = NoStore /\ pc'[t] = "committed" /\ \A u \in Tx \ {t} : pc'[u] = pc[u]
    BY <1>0 DEF NumberingInv, StoreLocked
  <2> QED
    BY <2>1 DEF NumberingInv, StoreLocked, Open
<1> QED
  BY <1>2, <1>3, <1>4

LEMMA CommitAdjustNumbers ==
  ASSUME NumberingInv, AmendInv', NEW t \in Tx, CommitAdjust(t)
  PROVE  NumberingInv'
<1> DEFINE a == draft[t]
           o == a.order
           total == NewRefunded(snap[t], a)
           status == StatusAfter(snap[t], total, Refund(snap[t], a.returns))
           row == [orders[o] EXCEPT !.refunded = ToCents(total), !.status = status]
<1>0. AmendInv /\ AmendTypes /\ Recorded /\ Commit(t) /\ stage[t] = "adjusting"
  BY DEF NumberingInv, AmendInv, CommitAdjust
<1>1. pc[t] \in Open /\ pc[t] # "committed"
  BY <1>0 DEF Commit, Done, Open
<1>2. /\ a \in Adjustment /\ snap[t] \in OrderType /\ snap[t] # NoOrder
      /\ Copied(t) /\ stage[t] \in Amending
  BY <1>0, <1>1, OrderTypes DEF AmendInv, Handled, Handling, Decided, Amending
<1>3. o \in OrderId /\ orders[o] # NoOrder /\ a.links \in Seq(Discount)
  BY <1>2, AdjustmentTypes, AdjustmentAssumption DEF Copied, AdjustmentType
<1>4. orders[o] \in OrderType
  BY <1>0, <1>3 DEF AmendTypes
<1>5. adjusts[t] = NoOrder /\ a # NoOrder
  BY <1>0, <1>1, <1>2, AdjustmentAssumption, NoAdjustmentAssumption DEF Recorded
<1>6. /\ orders' = [orders EXCEPT ![o] = row] /\ adjusts' = [adjusts EXCEPT ![t] = a]
      /\ usage' = [d \in Discount |-> usage[d] + Uses(a.links, d)]
      /\ UNCHANGED <<counter, sale, stage, held>>
  BY DEF CommitAdjust
<1>7. /\ row.store = orders[o].store /\ row.receipt = orders[o].receipt
      /\ row.links = orders[o].links
  BY <1>4 DEF OrderType
<1>8. row # NoOrder
  <2>1. orders'[o] = row
    BY <1>0, <1>3, <1>6 DEF AmendTypes
  <2>2. orders'[o] # NoOrder
    <3>1. t \in Amended'
      <4> HIDE DEF a
      <4> QED
        BY <1>0, <1>5, <1>6 DEF Amended, AmendTypes
    <3>2. adjusts'[t] = a
      BY <1>0, <1>6 DEF AmendTypes
    <3> HIDE DEF row
    <3> QED
      BY <3>1, <3>2 DEF AmendInv, Recorded
  <2> QED
    BY <2>1, <2>2
<1> HIDE DEF a, row
<1>9. /\ StoreLocked' /\ Numbered' /\ \A d : LinkedBy(d)' = LinkedBy(d)
  BY <1>0, <1>3, <1>6, <1>7, <1>8, CommitKeepsNumbers
<1>10. UsesCounted'
  <2> SUFFICES ASSUME NEW d \in Discount
               PROVE  /\ usage'[d] \in Nat
                      /\ usage'[d] = Cardinality(LinkedBy(d)') + Cardinality(AmendedWith(d)')
    BY <1>6 DEF UsesCounted, UsageCountsDocuments, LinkedBy, AmendedWith
  <2>1. /\ usage[d] = Cardinality(LinkedBy(d)) + Cardinality(AmendedWith(d)) /\ usage[d] \in Nat
        /\ IsFiniteSet(LinkedBy(d)) /\ IsFiniteSet(AmendedWith(d))
    BY <1>0, FS_Subset DEF NumberingInv, UsesCounted, UsageCountsDocuments, LinkedBy, AmendedWith, Recorded
  <2>2. Cardinality(LinkedBy(d)) \in Nat /\ Cardinality(AmendedWith(d)) \in Nat
    BY <2>1, FS_CardinalityType
  <2>3. LinkedBy(d)' = LinkedBy(d) /\ usage'[d] = usage[d] + Uses(a.links, d)
    BY <1>6, <1>9
  <2>4. /\ Amended' = Amended \cup {t} /\ t \notin Amended /\ adjusts'[t] = a
        /\ \A u \in Amended : adjusts'[u] = adjusts[u]
    BY <1>0, <1>5, <1>6 DEF Amended, AmendTypes
  <2>5. CASE d \in Range(a.links)
    <3>1. AmendedWith(d)' = AmendedWith(d) \cup {t} /\ t \notin AmendedWith(d)
      BY <2>4, <2>5 DEF AmendedWith
    <3>2. Cardinality(AmendedWith(d)') = Cardinality(AmendedWith(d)) + 1
      BY <2>1, <3>1, FS_AddElement
    <3> QED
      BY <2>1, <2>2, <2>3, <2>5, <3>2 DEF Uses
  <2>6. CASE d \notin Range(a.links)
    <3>1. AmendedWith(d)' = AmendedWith(d)
      BY <2>4, <2>6 DEF AmendedWith
    <3> QED
      BY <2>1, <2>2, <2>3, <2>6, <3>1 DEF Uses
  <2> QED
    BY <2>5, <2>6
<1> QED
  BY <1>9, <1>10 DEF NumberingInv

LEMMA CommitVoidNumbers ==
  ASSUME NumberingInv, AmendInv', NEW t \in Tx, CommitVoid(t)
  PROVE  NumberingInv'
<1> DEFINE o == draft[t].order
           row == [orders[o] EXCEPT !.status = "CANCELLED"]
<1>1. /\ Commit(t) /\ stage[t] = "voiding" /\ o \in OrderId /\ orders[o] \in OrderType
  BY VoidingKnows DEF NumberingInv
<1>2. orders[o] # NoOrder
  BY <1>1, OrderTypes
<1>3. row \in OrderType /\ row.store = orders[o].store /\ row.receipt = orders[o].receipt
      /\ row.links = orders[o].links
  BY <1>1 DEF OrderType, Status
<1>4. /\ orders' = [orders EXCEPT ![o] = row]
      /\ UNCHANGED <<counter, usage, sale, stage, held, adjusts>>
  BY DEF CommitVoid
<1> HIDE DEF row
<1>5. row # NoOrder
  BY <1>3, OrderTypes
<1>6. /\ StoreLocked' /\ Numbered' /\ \A d : LinkedBy(d)' = LinkedBy(d)
  BY <1>1, <1>2, <1>3, <1>4, <1>5, CommitKeepsNumbers
<1>7. UsesCounted'
  BY <1>4, <1>6 DEF NumberingInv, UsesCounted, UsageCountsDocuments, LinkedBy, Amended
<1> QED
  BY <1>6, <1>7 DEF NumberingInv

LEMMA StepNumbers ==
  ASSUME NumberingInv, NEW t \in Tx, StepOf(t)
  PROVE  NumberingInv'
<1>0. AmendInv /\ Slots /\ AmendInv' /\ AmendTypes
  BY StepAmends, TypesAreSlots DEF NumberingInv, AmendInv, StockInv
<1>1. ASSUME SaleStep(t, Statement(t)) \/ SaleStep(t, Fail(t)), UNCHANGED adjustVars
      PROVE  NumberingInv'
  <2>1. Statement(t) \/ Fail(t)
    BY <1>1 DEF SaleStep
  <2>2. PICK where \in Open \cup {"aborted"} : pc' = [pc EXCEPT ![t] = where]
    BY <1>0, <2>1, StatementMoves
  <2>3. pc[t] \in Open /\ pc'[t] = where
    BY <1>0, <2>1, <2>2, StatementMoves DEF Slots
  <2> QED
    BY <1>0, <1>1, <2>2, <2>3, WorkNumbers DEF SaleStep, adjustVars
<1>2. ASSUME RejectSale(t), UNCHANGED adjustVars PROVE NumberingInv'
  <2>1. pc' = [pc EXCEPT ![t] = "aborted"] /\ pc[t] \in Open
    BY <1>2 DEF RejectSale, Rollback, Open
  <2> QED
    BY <1>0, <1>2, <2>1, WorkNumbers DEF RejectSale, adjustVars
<1>3. ASSUME NEW s \in Sale, OpenSale(t, s), UNCHANGED adjustVars PROVE NumberingInv'
  <2>1. \A u \in Tx \ {t} : sale'[u] = sale[u]
    BY <1>0, <1>3 DEF OpenSale, AmendTypes
  <2> QED
    BY <1>0, <1>3, <2>1, OpenNumbers DEF OpenSale, adjustVars
<1>4. ASSUME NEW a \in Adjustment, OpenAdjust(t, a) PROVE NumberingInv'
  BY <1>0, <1>4, OpenNumbers DEF OpenAdjust
<1>5. ASSUME NEW o \in Voidable, OpenVoid(t, o) PROVE NumberingInv'
  BY <1>0, <1>5, OpenNumbers DEF OpenVoid
<1> QED
  BY <1>0, <1>1, <1>2, <1>3, <1>4, <1>5, TakeReceiptNumbers, CommitSaleNumbers,
     ReadingNumbers, CommitAdjustNumbers, CommitVoidNumbers
     DEF StepOf, OrdersStatement, SaleStatement

LEMMA NextNumberingInv == NumberingInv /\ [OrdersNext]_ordersVars => NumberingInv'
<1> SUFFICES ASSUME NumberingInv, [OrdersNext]_ordersVars PROVE NumberingInv'
  OBVIOUS
<1>1. CASE \E t \in Tx : StepOf(t)
  BY <1>1, StepNumbers
<1>2. CASE UNCHANGED ordersVars
  <2>1. AmendInv'
    BY <1>2, StutterAmends DEF NumberingInv
  <2>2. UNCHANGED <<orders, counter, usage, sale, stage, held, adjusts, pc>>
    BY <1>2 DEF ordersVars, salesVars, stockVars, saleVars, adjustVars
  <2>3. StoreLocked'
    BY <2>2 DEF NumberingInv, StoreLocked
  <2>4. Numbered'
    BY <2>2, NumbersStay DEF NumberingInv, Orders
  <2>5. UsesCounted'
    BY <2>2 DEF NumberingInv, UsesCounted, UsageCountsDocuments, Orders, Amended
  <2> QED
    BY <2>1, <2>3, <2>4, <2>5 DEF NumberingInv
<1> QED
  BY <1>1, <1>2 DEF OrdersNext, OrdersTerminating, StepOf

(* The store lock and the counts, under adjustments and voids as well.     *)
THEOREM OrdersNumbering == OrdersSpec => []NumberingInv
BY NumberingInitInv, NextNumberingInv, PTL DEF OrdersSpec

(* Receipts stay without a gap or a repetition, whatever is returned,      *)
(* exchanged and voided meanwhile.                                         *)
THEOREM OrdersReceiptsGapless == OrdersSpec => []ReceiptsGapless
<1>1. NumberingInv => ReceiptsGapless
  BY DEF NumberingInv, Numbered
<1> QED
  BY <1>1, OrdersNumbering, PTL

(* A discount has been used once by every order and every adjustment that  *)
(* links it, whatever overlaps.                                            *)
THEOREM OrdersUsage == OrdersSpec => []UsageCountsDocuments
<1>1. NumberingInv => UsageCountsDocuments
  BY DEF NumberingInv, UsesCounted
<1> QED
  BY <1>1, OrdersNumbering, PTL

(* Until the first return or void, what happened are sales: the system is  *)
(* the one of the checkouts, with what the lock on the store protects.     *)
OnlySold == \A t \in Tx : stage[t] \in Stages
Unstarted == \A t \in Tx : pc[t] = "idle" => stage[t] = "none"
TurnsInv == AmendInv /\ Unstarted /\ (OnlySold => SalesInv)

LEMMA TurnsInitInv == OrdersInit => TurnsInv
<1> SUFFICES ASSUME OrdersInit PROVE TurnsInv
  OBVIOUS
<1>1. SalesInit
  BY DEF OrdersInit
<1>2. Unstarted
  BY <1>1 DEF SalesInit, Unstarted
<1> QED
  BY <1>1, <1>2, AmendInitInv, SalesInitInv DEF TurnsInv

(* A transaction that has begun stays so.                                  *)
LEMMA StaysStarted ==
  ASSUME AmendInv, Unstarted, NEW t \in Tx, StepOf(t)
  PROVE  Unstarted'
<1>0. StockTypeOK /\ AmendTypes /\ Slots
  BY TypesAreSlots DEF AmendInv, StockInv
<1>1. \A u \in Tx \ {t} : pc'[u] = pc[u] /\ stage'[u] = stage[u]
  BY <1>0, OthersKeep DEF Local
<1>2. pc'[t] # "idle"
  <2>1. CASE \/ \E s \in Sale : OpenSale(t, s)
             \/ \E a \in Adjustment : OpenAdjust(t, a)
             \/ \E o \in Voidable : OpenVoid(t, o)
    BY <1>0, <2>1 DEF OpenSale, OpenAdjust, OpenVoid, Begin, Slots
  <2>2. CASE RejectSale(t) \/ TakeReceipt(t) \/ CommitSale(t)
    BY <1>0, <2>2 DEF RejectSale, TakeReceipt, CommitSale, Rollback, Adjusting, Commit, Slots
  <2>3. CASE SaleStep(t, Statement(t)) \/ SaleStep(t, Fail(t))
    <3>1. Statement(t) \/ Fail(t)
      BY <2>3 DEF SaleStep
    <3> QED
      BY <1>0, <3>1, StatementMoves DEF Slots, Open
  <2>4. CASE ReadReturns(t) \/ ReadRestores(t)
    BY <1>0, <2>4 DEF ReadReturns, ReadRestores, PlanAdjust, PlanVoid, Refuse, Rollback,
                      Adjusting, Slots
  <2>5. CASE CommitAdjust(t) \/ CommitVoid(t)
    BY <1>0, <2>5 DEF CommitAdjust, CommitVoid, Commit, Slots
  <2> QED
    BY <2>1, <2>2, <2>3, <2>4, <2>5 DEF StepOf, OrdersStatement, SaleStatement
<1> QED
  BY <1>1, <1>2 DEF Unstarted

(* A step after which no return or void has begun is one of a sale, and so *)
(* were those before it.                                                   *)
LEMMA StepSells ==
  ASSUME AmendInv, Unstarted, NEW t \in Tx, StepOf(t), OnlySold'
  PROVE  OnlySold /\ SalesNext
<1>0. StockTypeOK /\ AmendTypes /\ Slots
  BY TypesAreSlots DEF AmendInv, StockInv
<1>1. \A u \in Tx \ {t} : stage[u] \in Stages
  BY <1>0, OthersKeep DEF Local, OnlySold
<1>2. stage'[t] \in Stages
  BY DEF OnlySold
<1>3. CASE \E s \in Sale : OpenSale(t, s)
  <2>1. stage[t] \in Stages
    BY <1>3 DEF OpenSale, Begin, Unstarted, Stages
  <2> QED
    BY <1>1, <1>3, <2>1 DEF OnlySold, SalesNext
<1>4. CASE SaleStatement(t) \/ SaleStep(t, Fail(t))
  <2>1. stage[t] \in Stages
    BY <1>2, <1>4 DEF SaleStatement, RejectSale, TakeReceipt, SaleStep, CommitSale, Stages
  <2> QED
    BY <1>1, <1>4, <2>1 DEF OnlySold, SalesNext
<1>5. CASE \/ \E a \in Adjustment : OpenAdjust(t, a)
           \/ \E o \in Voidable : OpenVoid(t, o)
  BY <1>0, <1>2, <1>5 DEF OpenAdjust, OpenVoid, Slots, Stages
<1>6. CASE ReadReturns(t) \/ ReadRestores(t)
  BY <1>0, <1>2, <1>6 DEF ReadReturns, ReadRestores, PlanAdjust, PlanVoid, Refuse, saleVars,
                          Slots, Stages
<1>7. CASE CommitAdjust(t) \/ CommitVoid(t)
  BY <1>2, <1>7 DEF CommitAdjust, CommitVoid, Stages
<1> QED
  BY <1>3, <1>4, <1>5, <1>6, <1>7 DEF StepOf, OrdersStatement

LEMMA NextTurnsInv == TurnsInv /\ [OrdersNext]_ordersVars => TurnsInv'
<1> SUFFICES ASSUME TurnsInv, [OrdersNext]_ordersVars PROVE TurnsInv'
  OBVIOUS
<1>0. AmendInv'
  BY NextAmendInv DEF TurnsInv
<1>1. ASSUME NEW t \in Tx, StepOf(t) PROVE TurnsInv'
  BY <1>0, <1>1, StaysStarted, StepSells, NextSalesInv DEF TurnsInv
<1>2. CASE UNCHANGED ordersVars
  <2>1. UNCHANGED salesVars /\ UNCHANGED <<pc, stage>>
    BY <1>2 DEF ordersVars, salesVars, stockVars, saleVars
  <2>2. Unstarted' /\ (OnlySold' => OnlySold)
    BY <2>1 DEF TurnsInv, Unstarted, OnlySold
  <2> QED
    BY <1>0, <2>1, <2>2, NextSalesInv DEF TurnsInv
<1> QED
  BY <1>1, <1>2 DEF OrdersNext, OrdersTerminating, StepOf

(* Until the first return or void, however many sales overlap, they take   *)
(* turns: none waits for another in a cycle, and none loses an update.     *)
THEOREM OrdersTurns == OrdersSpec => []TurnsUntilAmended
<1>1. ASSUME TurnsInv PROVE TurnsUntilAmended
  <2> SUFFICES ASSUME OnlySold PROVE SalesTakeTurns
    BY DEF TurnsUntilAmended, OnlySold, Stages
  <2>1. SalesInv
    BY <1>1 DEF TurnsInv
  <2> QED
    BY <2>1, TurnsTaking
<1>2. OrdersSpec => []TurnsInv
  BY TurnsInitInv, NextTurnsInv, PTL DEF OrdersSpec
<1> QED
  BY <1>1, <1>2, PTL

-----------------------------------------------------------------------------
(* Refunds and returns agree item by item.                                 *)

PaidBack(order, a) == [i \in DOMAIN order.lines |-> ReturnedIn(a, i) * EffectiveUnit(order, i)]

LEMMA RefundByItem ==
  ASSUME NEW order, Items(order), NEW a \in Adjustment, Within(a.returns, order.lines)
  PROVE  /\ Refund(order, a.returns) = SumFunctionOnSet(PaidBack(order, a), DOMAIN order.lines)
         /\ IntValued(PaidBack(order, a), DOMAIN order.lines)
<1> DEFINE K == DOMAIN a.returns
           I == DOMAIN order.lines
           qty == [k \in K |-> a.returns[k].qty]
           item(k) == a.returns[k].item
           unit(i) == EffectiveUnit(order, i)
           cell(k, i) == IF item(k) = i THEN qty[k] * unit(i) ELSE 0
           f == [k \in K |-> [i \in I |-> cell(k, i)]]
           row == [k \in K |-> SumFunctionOnSet(f[k], I)]
           column == [i \in I |-> SumFunctionOnSet([k \in K |-> f[k][i]], K)]
           each == [k \in K |-> qty[k] * unit(item(k))]
<1>0. /\ IsFiniteSet(K) /\ IsFiniteSet(I)
      /\ \A k \in K : qty[k] \in Nat /\ item(k) \in I
      /\ \A i \in I : unit(i) \in Int
  <2>1. a.returns \in Seq(ReturnLine) /\ order.lines \in Seq(Line)
    BY AdjustmentTypes DEF Items
  <2> QED
    BY <2>1, ReturnsTypes, LinesTypes, UnitTypes DEF Within
<1> HIDE DEF K, I, qty, item, unit
<1>10. \A m \in Nat : \A n \in Int : m * n \in Int
  OBVIOUS
<1>1. \A k \in K, i \in I : cell(k, i) \in Int
  BY <1>0, <1>10
<1>2. f \in [K -> [I -> Int]]
  BY <1>1
<1> HIDE DEF cell
<1>3. SumFunctionOnSet(row, K) = SumFunctionOnSet(column, I)
  <2> HIDE DEF f
  <2> QED
    BY <1>0, <1>2, SumSwap
<1>4. ASSUME NEW k \in K PROVE row[k] = each[k] /\ each[k] \in Int
  <2>1. f[k][item(k)] = qty[k] * unit(item(k)) /\ \A i \in I \ {item(k)} : f[k][i] = 0
    BY <1>0 DEF cell
  <2>2. row[k] = SumFunctionOnSet(f[k], I) /\ each[k] = qty[k] * unit(item(k))
    OBVIOUS
  <2>3. each[k] \in Int /\ item(k) \in I
    BY <1>0, <1>10
  <2>4. SumFunctionOnSet(f[k], {item(k)}) = f[k][item(k)]
    <3> HIDE DEF f, row, each
    <3> QED
      BY <2>1, <2>2, <2>3, SumOne
  <2>5. SumFunctionOnSet(f[k], I) = SumFunctionOnSet(f[k], {item(k)})
    <3>1. IntValued(f[k], {item(k)}) /\ {item(k)} \in SUBSET I
      BY <2>1, <2>2, <2>3 DEF IntValued
    <3>2. \A i \in I \ {item(k)} : f[k][i] = 0
      BY <2>1
    <3> DEFINE g == f[k]
               T == {item(k)}
    <3>3. IntValued(g, T) /\ T \in SUBSET I /\ \A i \in I \ T : g[i] = 0
      BY <3>1, <3>2
    <3> HIDE DEF f, g, T
    <3>4. SumFunctionOnSet(g, I) = SumFunctionOnSet(g, T)
      BY <1>0, <3>3, SumWhere
    <3> QED
      BY <3>4 DEF g, T
  <2> QED
    BY <2>1, <2>2, <2>3, <2>4, <2>5
<1>5. SumFunctionOnSet(each, K) = SumFunctionOnSet(row, K)
  <2> HIDE DEF row, each
  <2>1. IntValued(each, K) /\ \A k \in K : each[k] = row[k]
    BY <1>4 DEF IntValued
  <2> QED
    BY <1>0, <2>1, SumSame
<1>6. Refund(order, a.returns) = SumFunctionOnSet(each, K)
  <2>0. each = [k \in DOMAIN a.returns |-> LineRefund(order, a.returns[k])]
    BY DEF LineRefund, K, qty, unit, item
  <2>1. Refund(order, a.returns) = SumFunction(each) /\ DOMAIN each = K
    BY <2>0 DEF Refund, K
  <2> HIDE DEF each
  <2> QED
    BY <2>1, SumDomain
<1> DEFINE paid == PaidBack(order, a)
<1>7. ASSUME NEW i \in I PROVE column[i] = paid[i] /\ paid[i] \in Int
  <2> DEFINE slice == [k \in K |-> f[k][i]]
             N == {k \in K : item(k) = i}
             part == [k \in K |-> qty[k] * unit(i)]
  <2>1. column[i] = SumFunctionOnSet(slice, K)
    OBVIOUS
  <2>2. ReturnedIn(a, i) = SumFunctionOnSet(qty, N)
    BY DEF ReturnedIn, K, qty, item
  <2>3. paid[i] = ReturnedIn(a, i) * unit(i) /\ ReturnedIn(a, i) \in Nat /\ unit(i) \in Int
    BY <1>0, ReturnedInTypes DEF PaidBack, I, unit
  <2>4. /\ \A k \in N : slice[k] = part[k] /\ part[k] = qty[k] * unit(i)
        /\ \A k \in K \ N : slice[k] = 0
        /\ N \in SUBSET K
    BY DEF cell
  <2>5. IsFiniteSet(N) /\ IntValued(qty, N) /\ IntValued(part, N)
    <3>1. \A k \in N : qty[k] \in Nat /\ part[k] \in Int
      BY <1>0, <1>10, <2>3, <2>4
    <3> QED
      BY <1>0, <2>4, <3>1, FS_Subset DEF IntValued
  <2> HIDE DEF slice, N, part
  <2>6. SumFunctionOnSet(part, N) = SumFunctionOnSet(qty, N) * unit(i)
    BY <2>3, <2>4, <2>5, SumTimes
  <2>7. SumFunctionOnSet(slice, K) = SumFunctionOnSet(part, N)
    BY <1>0, <2>4, <2>5, SumWhere
  <2>8. paid[i] \in Int
    <3> HIDE DEF paid
    <3> QED
      BY <1>10, <2>3
  <2> QED
    BY <2>1, <2>2, <2>3, <2>6, <2>7, <2>8
<1>8. IntValued(paid, I)
  BY <1>7 DEF IntValued
<1>9. SumFunctionOnSet(paid, I) = SumFunctionOnSet(column, I)
  <2> HIDE DEF paid, column
  <2>1. IntValued(paid, I) /\ \A i \in I : paid[i] = column[i]
    BY <1>7 DEF IntValued
  <2> QED
    BY <1>0, <2>1, SumSame
<1> QED
  BY <1>3, <1>5, <1>6, <1>8, <1>9 DEF I

(* The value of what came back of an order, and what its adjustments paid  *)
(* back before each was rounded.                                           *)
ValueReturned(o) ==
  [i \in DOMAIN orders[o].lines |-> Returned(o, i) * EffectiveUnit(orders[o], i)]
RefundTicks(o) == [t \in AdjustsOf(o) |-> Refund(orders[o], adjusts[t].returns)]

LEMMA RefundsByItem ==
  ASSUME AmendTypes, Recorded, NEW o \in OrderId, orders[o] # NoOrder
  PROVE  /\ SumFunctionOnSet(RefundTicks(o), AdjustsOf(o))
              = SumFunctionOnSet(ValueReturned(o), DOMAIN orders[o].lines)
         /\ IntValued(ValueReturned(o), DOMAIN orders[o].lines)
<1> DEFINE A == AdjustsOf(o)
           I == DOMAIN orders[o].lines
           unit(i) == EffectiveUnit(orders[o], i)
           f == [t \in A |-> PaidBack(orders[o], adjusts[t])]
           row == [t \in A |-> SumFunctionOnSet(f[t], I)]
           column == [i \in I |-> SumFunctionOnSet([t \in A |-> f[t][i]], A)]
<1>0. /\ Items(orders[o]) /\ IsFiniteSet(A) /\ IsFiniteSet(I)
      /\ \A i \in I : unit(i) \in Int
  <2>1. Items(orders[o]) /\ orders[o].lines \in Seq(Line)
    BY OrderTypes DEF AmendTypes, Items
  <2> QED
    BY <2>1, LinesTypes, RefundsTypes, UnitTypes
<1>1. \A t \in A : /\ adjusts[t] \in Adjustment /\ Within(adjusts[t].returns, orders[o].lines)
                   /\ adjusts[t].order = o
  BY DEF AdjustsOf, Amended, AmendTypes, Recorded
<1>2. \A t \in A : /\ Refund(orders[o], adjusts[t].returns) = SumFunctionOnSet(f[t], I)
                   /\ IntValued(f[t], I)
  BY <1>0, <1>1, RefundByItem
<1>3. \A t \in A : f[t] \in [I -> Int] /\ \A i \in I : f[t][i] = ReturnedIn(adjusts[t], i) * unit(i)
  <2> SUFFICES ASSUME NEW t \in A
               PROVE  f[t] \in [I -> Int] /\ \A i \in I : f[t][i] = ReturnedIn(adjusts[t], i) * unit(i)
    OBVIOUS
  <2>1. \A i \in I : f[t][i] = ReturnedIn(adjusts[t], i) * unit(i)
    BY DEF PaidBack
  <2>2. f[t] = [i \in I |-> f[t][i]]
    BY DEF PaidBack
  <2>3. \A i \in I : f[t][i] \in Int
    BY <1>2 DEF IntValued
  <2> HIDE DEF f, I
  <2> QED
    BY <2>1, <2>2, <2>3
<1>4. f \in [A -> [I -> Int]]
  <2>1. \A t \in A : PaidBack(orders[o], adjusts[t]) \in [I -> Int]
    BY <1>3
  <2> QED
    BY <2>1
<1> HIDE DEF f
<1>5. SumFunctionOnSet(row, A) = SumFunctionOnSet(column, I)
  BY <1>0, <1>4, SumSwap
<1>6. SumFunctionOnSet(RefundTicks(o), A) = SumFunctionOnSet(row, A)
  <2>1. \A t \in A : RefundTicks(o)[t] = row[t] /\ row[t] \in Int
    <3> SUFFICES ASSUME NEW t \in A PROVE RefundTicks(o)[t] = row[t] /\ row[t] \in Int
      OBVIOUS
    <3>1. SumFunctionOnSet(f[t], I) \in Int
      BY <1>0, <1>2, SumInt
    <3> QED
      BY <1>2, <3>1 DEF RefundTicks
  <2>2. IntValued(RefundTicks(o), A)
    BY <2>1 DEF IntValued
  <2> HIDE DEF row, A
  <2> QED
    BY <1>0, <2>1, <2>2, SumSame
<1>10. \A m \in Nat : \A n \in Int : m * n \in Int
  OBVIOUS
<1>7. ASSUME NEW i \in I PROVE column[i] = ValueReturned(o)[i] /\ ValueReturned(o)[i] \in Int
  <2> DEFINE slice == [t \in A |-> f[t][i]]
  <2>1. column[i] = SumFunctionOnSet(slice, A)
    OBVIOUS
  <2>2. /\ NatValued(ReturnedBy(o, i), A) /\ Returned(o, i) = SumFunctionOnSet(ReturnedBy(o, i), A)
        /\ Returned(o, i) \in Nat
    BY ReturnedTypes
  <2>3. \A t \in A : slice[t] = ReturnedBy(o, i)[t] * unit(i)
    BY <1>3 DEF ReturnedBy
  <2>4. IntValued(ReturnedBy(o, i), A) /\ unit(i) \in Int
    BY <1>0, <2>2 DEF IntValued, NatValued
  <2>5. SumFunctionOnSet(slice, A) = SumFunctionOnSet(ReturnedBy(o, i), A) * unit(i)
    <3> HIDE DEF slice, A, unit
    <3> QED
      BY <1>0, <2>3, <2>4, SumTimes
  <2>6. ValueReturned(o)[i] = Returned(o, i) * unit(i)
    BY DEF ValueReturned
  <2>7. Returned(o, i) * unit(i) \in Int
    <3> HIDE DEF unit
    <3> QED
      BY <1>0, <1>10, <2>2
  <2> QED
    BY <2>1, <2>2, <2>5, <2>6, <2>7
<1>8. IntValued(ValueReturned(o), I)
  BY <1>7 DEF IntValued
<1>9. SumFunctionOnSet(ValueReturned(o), I) = SumFunctionOnSet(column, I)
  <2> HIDE DEF column
  <2>1. \A i \in I : ValueReturned(o)[i] = column[i]
    BY <1>7
  <2> HIDE DEF I
  <2> QED
    BY <1>0, <1>8, <2>1, SumSame
<1> QED
  BY <1>5, <1>6, <1>8, <1>9

(* The columns refundAmount of an order add up to what its items that came *)
(* back are worth, but for half a cent each.                               *)
LEMMA RefundsNear ==
  ASSUME AmendTypes, Recorded, NEW o \in OrderId, orders[o] # NoOrder
  PROVE  Near(2 * (Cent * RefundsOf(o)),
              2 * SumFunctionOnSet(ValueReturned(o), DOMAIN orders[o].lines),
              Cent * Cardinality(AdjustsOf(o)))
<1> DEFINE A == AdjustsOf(o)
           ticks == RefundTicks(o)
           c == 2 * Cent
           f == [t \in A |-> RefundAmount[t] * c]
           g == [t \in A |-> ticks[t] * 2]
<1>1. IsFiniteSet(A) /\ IntValued(RefundAmount, A) /\ RefundsOf(o) \in Int
  BY RefundsTypes
<1>2. ASSUME NEW t \in A
      PROVE  /\ RefundAmount[t] \in Int /\ ticks[t] \in Int
             /\ f[t] \in Int /\ g[t] \in Int /\ Near(f[t], g[t], Cent)
  <2>1. t \in Amended /\ adjusts[t].order = o
    BY DEF AdjustsOf
  <2>2. /\ RefundAmount[t] = ToCents(ticks[t]) /\ Items(orders[o])
        /\ adjusts[t].returns \in Seq(ReturnLine) /\ Within(adjusts[t].returns, orders[o].lines)
    BY <2>1, RefundAmountOf DEF RefundTicks
  <2>3. ticks[t] \in Int
    BY <2>2, RefundTypes DEF RefundTicks
  <2>4. /\ ToCents(ticks[t]) \in Int /\ Cent * ToCents(ticks[t]) \in Int
        /\ Near(2 * (Cent * ToCents(ticks[t])), 2 * ticks[t], Cent)
    BY <2>3, CentsNear
  <2>5. f[t] = RefundAmount[t] * c /\ g[t] = ticks[t] * 2
    OBVIOUS
  <2> HIDE DEF ticks, f, g
  <2>6. /\ RefundAmount[t] * c = 2 * (Cent * RefundAmount[t])
        /\ RefundAmount[t] \in Int
    BY <2>2, <2>4, CentAssumption
  <2> QED
    BY <2>2, <2>3, <2>4, <2>5, <2>6
<1>3. /\ IntValued(f, A) /\ IntValued(g, A) /\ IntValued(ticks, A)
      /\ \A t \in A : Near(f[t], g[t], Cent)
      /\ \A t \in A : f[t] = RefundAmount[t] * c /\ g[t] = ticks[t] * 2
  BY <1>2 DEF IntValued
<1>4. RefundsOf(o) = SumFunctionOnSet(RefundAmount, A)
  BY DEF RefundsOf
<1>5. SumFunctionOnSet(ticks, A) = SumFunctionOnSet(ValueReturned(o), DOMAIN orders[o].lines)
  BY RefundsByItem
<1> HIDE DEF f, g, ticks, A
<1>6. Cent \in Nat /\ c \in Int /\ 2 \in Int
  BY CentAssumption
<1>7. Near(SumFunctionOnSet(f, A), SumFunctionOnSet(g, A), Cent * Cardinality(A))
  BY <1>1, <1>3, <1>6, SumNearBy
<1>8. SumFunctionOnSet(f, A) = RefundsOf(o) * c
  <2> DEFINE amount == RefundAmount
  <2>0. /\ IntValued(amount, A) /\ c \in Int /\ IsFiniteSet(A)
        /\ \A t \in A : f[t] = amount[t] * c
    BY <1>1, <1>3, <1>6
  <2> HIDE DEF c, amount
  <2>1. SumFunctionOnSet(f, A) = SumFunctionOnSet(amount, A) * c
    BY <2>0, SumTimes
  <2> QED
    BY <1>4, <2>1 DEF amount
<1>9. SumFunctionOnSet(g, A) = SumFunctionOnSet(ticks, A) * 2
  BY <1>3, <1>6, <1>1, SumTimes
<1>10. SumFunctionOnSet(ticks, A) \in Int
  BY <1>1, <1>3, SumInt
<1>11. RefundsOf(o) * c = 2 * (Cent * RefundsOf(o))
  BY <1>1, <1>6
<1> QED
  BY <1>5, <1>7, <1>8, <1>9, <1>10, <1>11 DEF A

(* What the lines of an order come to, and what they are worth.            *)
LEMMA GrossTypes ==
  ASSUME NEW lines \in Seq(Line)
  PROVE  LET each == [i \in DOMAIN lines |-> Cent * lines[i].subtotal + lines[i].tax]
         IN /\ Gross(lines) = SumFunctionOnSet(each, DOMAIN lines)
            /\ NatValued(each, DOMAIN lines) /\ Gross(lines) \in Nat
<1> DEFINE I == DOMAIN lines
           each == [i \in I |-> Cent * lines[i].subtotal + lines[i].tax]
<1>1. IsFiniteSet(I) /\ \A i \in I : lines[i].subtotal \in Nat /\ lines[i].tax \in Nat
  BY LinesTypes
<1>2. NatValued(each, I)
  <2>1. \A m, n \in Nat : Cent * m + n \in Nat
    BY CentAssumption
  <2> QED
    BY <1>1, <2>1 DEF NatValued
<1>3. Gross(lines) = SumFunctionOnSet(each, I)
  <2>1. Gross(lines) = SumFunction(each) /\ DOMAIN each = I
    BY DEF Gross
  <2> HIDE DEF each, I
  <2> QED
    BY <2>1, SumDomain
<1>4. SumFunctionOnSet(each, I) \in Nat
  <2> HIDE DEF each, I
  <2> QED
    BY <1>1, <1>2, SumNat
<1> QED
  BY <1>2, <1>3, <1>4

LEMMA CountTo ==
  ASSUME NEW n \in Nat
  PROVE  Cardinality(1 .. n) = n
<1>1. Cardinality(1 .. n) = IF 1 > n THEN 0 ELSE n - 1 + 1
  BY FS_Interval
<1> QED
  BY <1>1

Shares(order) == [i \in DOMAIN order.lines |-> Share(order, i)]

LEMMA SharesNear ==
  ASSUME NEW order, Items(order), Due(order) >= 0
  PROVE  /\ IntValued(Shares(order), DOMAIN order.lines)
         /\ Near(2 * SumFunctionOnSet(Shares(order), DOMAIN order.lines),
                 2 * (Cent * order.discount), Len(order.lines))
<1> DEFINE I == DOMAIN order.lines
           n == Len(order.lines)
           shares == Shares(order)
           S == Subtotals(order)
           D == Cent * order.discount
           sub == [i \in I |-> order.lines[i].subtotal]
<1>1. /\ IsFiniteSet(I) /\ n \in Nat /\ I = 1 .. n
      /\ \A i \in I : /\ order.lines[i].subtotal \in Nat /\ order.lines[i].tax \in Nat
                      /\ order.lines[i].subtotal = 0 => order.lines[i].tax = 0
  BY LinesTypes DEF Items
<1>2. NatValued(sub, I) /\ S = SumFunctionOnSet(sub, I) /\ S \in Nat
  BY SubtotalsTypes
<1>3. D \in Nat /\ order.discount \in Nat
  BY CentAssumption DEF Items
<1>4. IntValued(shares, I) /\ \A i \in I : shares[i] = Share(order, i) /\ shares[i] \in Int
  BY UnitTypes DEF Shares, IntValued
<1>5. Cardinality(I) = n
  BY <1>1, CountTo
<1>6. SumFunctionOnSet(shares, I) \in Int
  <2> HIDE DEF shares
  <2> QED
    BY <1>1, <1>4, SumInt
<1>7. CASE S > 0
  <2> DEFINE c == 2 * S
             e == 2 * D
             f == [i \in I |-> shares[i] * c]
             g == [i \in I |-> sub[i] * e]
  <2>1. ASSUME NEW i \in I PROVE f[i] \in Int /\ g[i] \in Int /\ Near(f[i], g[i], S)
    <3> DEFINE m == order.lines[i].subtotal
    <3>1. m \in Nat /\ sub[i] = m /\ S \in Nat \ {0} /\ Cent * (order.discount * m) \in Int
      <4>1. \A k, x, y \in Nat : k * (x * y) \in Int
        OBVIOUS
      <4> QED
        BY <1>1, <1>2, <1>3, <1>7, <4>1, CentAssumption
    <3>2. shares[i] = Nearest(Cent * (order.discount * m), S)
      BY <1>4, <1>7 DEF Share
    <3> HIDE DEF m, shares, S
    <3>3. shares[i] \in Int /\ Near(2 * (shares[i] * S), 2 * (Cent * (order.discount * m)), S)
      BY <3>1, <3>2, NearestBounds
    <3>4. f[i] = 2 * (shares[i] * S)
      BY <1>2, <3>3
    <3>5. g[i] = 2 * (Cent * (order.discount * m))
      <4>1. \A k, x, y \in Nat : y * (2 * (k * x)) = 2 * (k * (x * y))
        OBVIOUS
      <4>2. g[i] = m * (2 * (Cent * order.discount))
        BY <3>1
      <4> QED
        BY <1>3, <3>1, <4>1, <4>2, CentAssumption
    <3>6. shares[i] * S \in Int
      BY <1>2, <3>3
    <3> QED
      BY <3>1, <3>3, <3>4, <3>5, <3>6
  <2>3. c \in Int /\ e \in Int
    BY <1>2, <1>3
  <2>10. \A i \in I : f[i] = shares[i] * c /\ g[i] = sub[i] * e
    OBVIOUS
  <2> HIDE DEF f, g, sub, shares, c, e, S, D, n
  <2>2. /\ IntValued(f, I) /\ IntValued(g, I) /\ IntValued(sub, I)
        /\ \A i \in I : f[i] = shares[i] * c /\ g[i] = sub[i] * e /\ Near(f[i], g[i], S)
    BY <1>2, <2>1, <2>10 DEF IntValued, NatValued
  <2>4. Near(SumFunctionOnSet(f, I), SumFunctionOnSet(g, I), S * n)
    BY <1>1, <1>2, <1>5, <2>2, SumNearBy
  <2>5. SumFunctionOnSet(f, I) = SumFunctionOnSet(shares, I) * c
    BY <1>1, <1>4, <2>2, <2>3, SumTimes
  <2>6. SumFunctionOnSet(g, I) = S * e
    BY <1>1, <1>2, <2>2, <2>3, SumTimes
  <2> DEFINE x == 2 * SumFunctionOnSet(shares, I) - 2 * D
  <2>7. x \in Int /\ SumFunctionOnSet(f, I) - SumFunctionOnSet(g, I) = S * x
    <3>1. \A p, q, r \in Int : q * (2 * p) - p * (2 * r) = p * (2 * q - 2 * r)
      OBVIOUS
    <3> QED
      BY <1>2, <1>3, <1>6, <2>5, <2>6, <3>1 DEF c, e
  <2>8. S * x <= S * n /\ -(S * x) <= S * n
    <3>1. S * x \in Int /\ S * n \in Int
      BY <1>1, <1>2, <2>7
    <3>2. SumFunctionOnSet(f, I) \in Int /\ SumFunctionOnSet(g, I) \in Int
      BY <1>1, <2>2, SumInt
    <3> QED
      BY <2>4, <2>7, <3>1, <3>2 DEF Near
  <2> HIDE DEF x
  <2>9. x <= n /\ -x <= n
    <3>1. \A p \in Nat, y, m \in Int : p > 0 /\ p * y <= p * m => y <= m
      <4> SUFFICES ASSUME NEW p \in Nat, NEW y \in Int, NEW m \in Int, p > 0, y > m
                   PROVE  p * y > p * m
        OBVIOUS
      <4>1. PICK k \in Nat : y = m + 1 + k
        OBVIOUS
      <4>2. p * y = p * m + p + p * k /\ p * k \in Nat /\ p * m \in Int
        BY <4>1
      <4> QED
        BY <4>2
    <3>2. S * (-x) = -(S * x) /\ -x \in Int
      BY <1>2, <2>7
    <3>3. S * (-x) <= S * n /\ S * x <= S * n /\ n \in Int
      BY <1>1, <2>8, <3>2
    <3> QED
      BY <1>2, <1>7, <2>7, <3>1, <3>2, <3>3
  <2> QED
    BY <1>3, <1>4, <1>6, <2>9 DEF Near, x, n, D, shares
<1>8. CASE S = 0
  <2>1. \A i \in I : order.lines[i].subtotal = 0
    <3> SUFFICES ASSUME NEW i \in I PROVE order.lines[i].subtotal = 0
      OBVIOUS
    <3>1. sub[i] = order.lines[i].subtotal /\ order.lines[i].subtotal \in Nat
      BY <1>1
    <3> HIDE DEF sub
    <3>2. sub[i] <= SumFunctionOnSet(sub, I)
      BY <1>1, <1>2, SumAtLeast
    <3> QED
      BY <1>2, <1>8, <3>1, <3>2
  <2> DEFINE each == [i \in I |-> Cent * order.lines[i].subtotal + order.lines[i].tax]
  <2>2. Gross(order.lines) = SumFunctionOnSet(each, I)
    BY GrossTypes DEF Items
  <2>3. \A i \in I : each[i] = 0
    <3>1. Cent * 0 + 0 = 0
      BY CentAssumption
    <3> QED
      BY <1>1, <2>1, <3>1
  <2>4. SumFunctionOnSet(each, I) = 0
    <3> HIDE DEF each
    <3> QED
      BY <1>1, <2>3, SumZero
  <2>5. D = 0
    <3> HIDE DEF D
    <3>1. Due(order) = 0 - D
      BY <2>2, <2>4 DEF Due, D
    <3> QED
      BY <1>3, <3>1
  <2>6. \A i \in I : shares[i] = 0
    BY <1>4, <1>8 DEF Share
  <2>7. SumFunctionOnSet(shares, I) = 0
    <3> HIDE DEF shares
    <3> QED
      BY <1>1, <2>6, SumZero
  <2> HIDE DEF D, shares, n
  <2>8. Near(2 * SumFunctionOnSet(shares, I), 2 * D, n)
    BY <1>1, <2>5, <2>7 DEF Near
  <2> QED
    BY <1>4, <2>8 DEF D, shares, n
<1> QED
  BY <1>2, <1>7, <1>8

Worths(order) == [i \in DOMAIN order.lines |-> LineWorth(order, i)]

LEMMA WorthsNear ==
  ASSUME NEW order, Items(order), Due(order) >= 0
  PROVE  /\ IntValued(Worths(order), DOMAIN order.lines)
         /\ GrandTotal(order) \in Nat
         /\ Near(2 * SumFunctionOnSet(Worths(order), DOMAIN order.lines),
                 2 * (Cent * GrandTotal(order)),
                 Cent * (Len(order.lines) + 1) + Len(order.lines))
<1> DEFINE I == DOMAIN order.lines
           n == Len(order.lines)
           shares == Shares(order)
           worths == Worths(order)
           total == [i \in I |-> Cent * Total(order.lines[i])]
           each == [i \in I |-> Cent * order.lines[i].subtotal + order.lines[i].tax]
           f == [i \in I |-> total[i] * 2]
           g == [i \in I |-> each[i] * 2]
<1>1. /\ IsFiniteSet(I) /\ n \in Nat /\ I = 1 .. n
      /\ \A i \in I : order.lines[i].subtotal \in Nat /\ order.lines[i].tax \in Nat
  BY LinesTypes DEF Items
<1>2. Cardinality(I) = n
  BY <1>1, CountTo
<1>3. Gross(order.lines) = SumFunctionOnSet(each, I) /\ NatValued(each, I) /\ Gross(order.lines) \in Nat
  BY GrossTypes DEF Items
<1>4. ASSUME NEW i \in I
      PROVE  /\ total[i] \in Int /\ each[i] \in Int /\ shares[i] \in Int
             /\ worths[i] = total[i] - shares[i] /\ Near(f[i], g[i], Cent)
             /\ f[i] = total[i] * 2 /\ g[i] = each[i] * 2
  <2> DEFINE m == order.lines[i].subtotal
             x == order.lines[i].tax
  <2>1. m \in Nat /\ x \in Nat /\ Total(order.lines[i]) = m + ToCents(x)
    BY <1>1 DEF Total
  <2>2. shares[i] \in Int /\ worths[i] = total[i] - shares[i]
    BY UnitTypes DEF Shares, Worths, LineWorth
  <2>3. total[i] = Cent * Total(order.lines[i]) /\ each[i] = Cent * m + x
    OBVIOUS
  <2> HIDE DEF m, x, total, each, shares, worths
  <2>4. /\ ToCents(x) \in Int /\ Cent * ToCents(x) \in Int
        /\ Near(2 * (Cent * ToCents(x)), 2 * x, Cent)
    BY <2>1, CentsNear
  <2>5. total[i] = Cent * m + Cent * ToCents(x) /\ Cent * m \in Int
    BY <2>1, <2>3, <2>4, CentAssumption
  <2>6. Near(total[i] * 2, each[i] * 2, Cent)
    BY <2>1, <2>3, <2>4, <2>5, CentAssumption DEF Near
  <2> QED
    BY <2>1, <2>2, <2>3, <2>4, <2>5, <2>6
<1> HIDE DEF total, each, shares, worths, f, g, n
<1>5. /\ IntValued(total, I) /\ IntValued(each, I) /\ IntValued(shares, I) /\ IntValued(worths, I)
      /\ IntValued(f, I) /\ IntValued(g, I)
  BY <1>4 DEF IntValued
<1>6. /\ \A i \in I : f[i] = total[i] * 2 /\ g[i] = each[i] * 2 /\ Near(f[i], g[i], Cent)
      /\ \A i \in I : worths[i] = total[i] - shares[i]
  BY <1>4
<1>7. Near(2 * SumFunctionOnSet(shares, I), 2 * (Cent * order.discount), n)
  BY SharesNear DEF shares, n
<1>8. Due(order) = Gross(order.lines) - Cent * order.discount
  BY DEF Due
<1>9. Cent \in Nat /\ 2 \in Int /\ Cent * order.discount \in Nat
  BY CentAssumption DEF Items
<1>10. Near(SumFunctionOnSet(f, I), SumFunctionOnSet(g, I), Cent * n)
  BY <1>1, <1>2, <1>5, <1>6, <1>9, SumNearBy
<1>11. /\ SumFunctionOnSet(f, I) = SumFunctionOnSet(total, I) * 2
       /\ SumFunctionOnSet(g, I) = SumFunctionOnSet(each, I) * 2
  BY <1>1, <1>5, <1>6, <1>9, SumTimes
<1>12. SumFunctionOnSet(worths, I) = SumFunctionOnSet(total, I) - SumFunctionOnSet(shares, I)
  BY <1>1, <1>5, <1>6, SumMinus
<1>13. /\ SumFunctionOnSet(total, I) \in Int /\ SumFunctionOnSet(each, I) \in Int
       /\ SumFunctionOnSet(shares, I) \in Int
  BY <1>1, <1>5, SumInt
<1>14. Due(order) \in Nat
  BY <1>3, <1>8, <1>9
<1>15. /\ GrandTotal(order) = ToCents(Due(order)) /\ ToCents(Due(order)) \in Nat
       /\ Cent * ToCents(Due(order)) \in Int
       /\ Near(2 * (Cent * ToCents(Due(order))), 2 * Due(order), Cent)
  BY <1>14, CentsNear, CentsShift DEF GrandTotal
<1>16. Cent * (n + 1) + n = Cent * n + Cent + n /\ Cent * n \in Int
  BY <1>1, <1>9
<1>17. Near(2 * SumFunctionOnSet(worths, I), 2 * (Cent * GrandTotal(order)), Cent * (n + 1) + n)
  <2> DEFINE d == Due(order)
             y == Cent * ToCents(d)
             z == Cent * order.discount
  <2>1. d = SumFunctionOnSet(each, I) - z /\ z \in Nat /\ d \in Nat
    BY <1>3, <1>8, <1>9, <1>14
  <2>2. GrandTotal(order) = ToCents(d) /\ y \in Int /\ Near(2 * y, 2 * d, Cent)
    BY <1>15
  <2>3. Near(2 * SumFunctionOnSet(shares, I), 2 * z, n)
    BY <1>7
  <2> HIDE DEF z
  <2>4. y = Cent * GrandTotal(order)
    BY <2>2
  <2> HIDE DEF d, y
  <2> DEFINE k == Cent * n
  <2>6. k \in Int /\ SumFunctionOnSet(f, I) - SumFunctionOnSet(g, I) <= k
        /\ SumFunctionOnSet(g, I) - SumFunctionOnSet(f, I) <= k
    BY <1>10, <1>16 DEF Near
  <2> HIDE DEF k
  <2>7. Near(2 * SumFunctionOnSet(worths, I), 2 * y, k + Cent + n)
    <3> DEFINE T == SumFunctionOnSet(total, I)
               E == SumFunctionOnSet(each, I)
               v == SumFunctionOnSet(shares, I)
    <3>1. /\ T \in Int /\ E \in Int /\ v \in Int /\ d = E - z
          /\ Near(T * 2, E * 2, k) /\ Near(2 * v, 2 * z, n)
          /\ SumFunctionOnSet(worths, I) = T - v
      BY <1>11, <1>12, <1>13, <2>1, <2>3, <2>6 DEF Near
    <3>3. /\ n \in Int /\ z \in Int /\ y \in Int /\ k \in Int /\ Cent \in Int
          /\ Near(2 * y, 2 * d, Cent)
      BY <1>1, <1>9, <2>1, <2>2, <2>6
    <3> HIDE DEF T, E, v
    <3>2. Near(2 * (T - v), 2 * y, k + Cent + n)
      BY <3>1, <3>3 DEF Near
    <3> QED
      BY <3>1, <3>2
  <2>5. Near(2 * SumFunctionOnSet(worths, I), 2 * y, Cent * n + Cent + n)
    BY <2>7 DEF k
  <2> QED
    BY <1>16, <2>4, <2>5
<1> QED
  BY <1>5, <1>15, <1>17 DEF worths, n

ValueSold(order) ==
  [i \in DOMAIN order.lines |-> order.lines[i].qty * EffectiveUnit(order, i)]
Units(order) == [i \in DOMAIN order.lines |-> order.lines[i].qty]

(* An order's units are worth its total, but for the roundings.            *)
LEMMA SoldNear ==
  ASSUME NEW order, Items(order), Due(order) >= 0
  PROVE  /\ IntValued(ValueSold(order), DOMAIN order.lines)
         /\ NatValued(Units(order), DOMAIN order.lines)
         /\ Near(2 * SumFunctionOnSet(ValueSold(order), DOMAIN order.lines),
                 2 * (Cent * GrandTotal(order)),
                 Cent * (Len(order.lines) + 1) + Len(order.lines)
                   + SumFunctionOnSet(Units(order), DOMAIN order.lines))
<1> DEFINE I == DOMAIN order.lines
           n == Len(order.lines)
           worths == Worths(order)
           sold == ValueSold(order)
           units == Units(order)
           f == [i \in I |-> sold[i] * 2]
           g == [i \in I |-> worths[i] * 2]
<1>1. IsFiniteSet(I) /\ n \in Nat
  BY LinesTypes DEF Items
<1>2. ASSUME NEW i \in I
      PROVE  /\ sold[i] \in Int /\ worths[i] \in Int /\ units[i] \in Nat
             /\ f[i] = sold[i] * 2 /\ g[i] = worths[i] * 2 /\ Near(f[i], g[i], units[i])
  <2> DEFINE u == EffectiveUnit(order, i)
             w == LineWorth(order, i)
             q == order.lines[i].qty
  <2>1. u \in Int /\ w \in Int /\ q \in Nat \ {0}
    BY UnitTypes, LinesTypes DEF Items
  <2>2. u = Nearest(w, q)
    BY DEF EffectiveUnit
  <2>3. sold[i] = q * u /\ worths[i] = w /\ units[i] = q
    BY DEF ValueSold, Worths, Units
  <2> HIDE DEF u, w, q, sold, worths, units
  <2>4. Near(2 * (u * q), 2 * w, q)
    BY <2>1, <2>2, NearestBounds
  <2>5. q * u = u * q /\ q * u \in Int
    BY <2>1
  <2>6. Near(sold[i] * 2, worths[i] * 2, units[i])
    BY <2>1, <2>3, <2>4, <2>5
  <2> QED
    BY <2>1, <2>3, <2>5, <2>6
<1> HIDE DEF sold, worths, units, f, g, n
<1>3. /\ IntValued(sold, I) /\ IntValued(worths, I) /\ NatValued(units, I) /\ IntValued(units, I)
      /\ IntValued(f, I) /\ IntValued(g, I)
  BY <1>2 DEF IntValued, NatValued
<1>4. \A i \in I : f[i] = sold[i] * 2 /\ g[i] = worths[i] * 2 /\ Near(f[i], g[i], units[i])
  BY <1>2
<1>5. /\ GrandTotal(order) \in Nat
      /\ Near(2 * SumFunctionOnSet(worths, I), 2 * (Cent * GrandTotal(order)), Cent * (n + 1) + n)
  BY WorthsNear DEF worths, n
<1>6. Near(SumFunctionOnSet(f, I), SumFunctionOnSet(g, I), SumFunctionOnSet(units, I))
  BY <1>1, <1>3, <1>4, SumNear
<1>7. /\ SumFunctionOnSet(f, I) = SumFunctionOnSet(sold, I) * 2
      /\ SumFunctionOnSet(g, I) = SumFunctionOnSet(worths, I) * 2
  <2>1. 2 \in Int
    OBVIOUS
  <2> QED
    BY <1>1, <1>3, <1>4, <2>1, SumTimes
<1>8. /\ SumFunctionOnSet(sold, I) \in Int /\ SumFunctionOnSet(worths, I) \in Int
      /\ SumFunctionOnSet(units, I) \in Int
  BY <1>1, <1>3, SumInt
<1>9. Cent * GrandTotal(order) \in Int /\ Cent * (n + 1) \in Int
  BY <1>1, <1>5, CentAssumption
<1>10. Near(2 * SumFunctionOnSet(sold, I), 2 * (Cent * GrandTotal(order)),
            Cent * (n + 1) + n + SumFunctionOnSet(units, I))
  <2> DEFINE x == Cent * GrandTotal(order)
             y == Cent * (n + 1)
  <2>1. x \in Int /\ y \in Int /\ Near(2 * SumFunctionOnSet(worths, I), 2 * x, y + n)
    BY <1>5, <1>9
  <2> HIDE DEF x, y
  <2>2. Near(2 * SumFunctionOnSet(sold, I), 2 * x, y + n + SumFunctionOnSet(units, I))
    BY <1>1, <1>6, <1>7, <1>8, <2>1 DEF Near
  <2> QED
    BY <2>2 DEF x, y
<1> QED
  BY <1>3, <1>10 DEF sold, units, n

(* What is still out of an order is worth what was sold less what came     *)
(* back.                                                                   *)
ValueOut(o) ==
  [i \in DOMAIN orders[o].lines |->
     Remaining(o, orders[o], i) * EffectiveUnit(orders[o], i)]

LEMMA OutstandingTypes ==
  ASSUME AmendTypes, Recorded, NEW o \in Orders
  PROVE  /\ Items(orders[o]) /\ o \in OrderId /\ Due(orders[o]) >= 0
         /\ Outstanding(o) = SumFunctionOnSet(ValueOut(o), DOMAIN orders[o].lines)
         /\ IntValued(ValueOut(o), DOMAIN orders[o].lines)
         /\ Outstanding(o) =
              SumFunctionOnSet(ValueSold(orders[o]), DOMAIN orders[o].lines)
                - SumFunctionOnSet(ValueReturned(o), DOMAIN orders[o].lines)
         /\ Slack(o) = Cent * (Cardinality(AdjustsOf(o)) + Len(orders[o].lines) + 1)
                         + Len(orders[o].lines)
                         + SumFunctionOnSet(Units(orders[o]), DOMAIN orders[o].lines)
         /\ Slack(o) \in Nat
<1> DEFINE I == DOMAIN orders[o].lines
           n == Len(orders[o].lines)
           units == Units(orders[o])
           out == ValueOut(o)
           sold == ValueSold(orders[o])
           back == ValueReturned(o)
<1>1. o \in OrderId /\ orders[o] # NoOrder /\ Items(orders[o]) /\ Due(orders[o]) >= 0
  BY OrderTypes DEF Orders, AmendTypes, Items, Recorded
<1>2. IsFiniteSet(I) /\ n \in Nat /\ IsFiniteSet(AdjustsOf(o))
  BY <1>1, LinesTypes, RefundsTypes DEF Items
<1>3. IntValued(sold, I) /\ NatValued(units, I)
  BY <1>1, SoldNear
<1>4. IntValued(back, I)
  BY <1>1, RefundsByItem
<1>5. ASSUME NEW i \in I PROVE out[i] = sold[i] - back[i] /\ out[i] \in Int
  <2> DEFINE u == EffectiveUnit(orders[o], i)
             q == orders[o].lines[i].qty
             r == Returned(o, i)
  <2>1. u \in Int /\ q \in Nat /\ r \in Nat
    BY <1>1, UnitTypes, LinesTypes, ReturnedTypes DEF Items
  <2>2. out[i] = (q - r) * u /\ sold[i] = q * u /\ back[i] = r * u
    BY DEF ValueOut, ValueSold, ValueReturned, Remaining
  <2> HIDE DEF u, q, r, out, sold, back
  <2>3. (q - r) * u = q * u - r * u /\ (q - r) * u \in Int
    BY <2>1
  <2> QED
    BY <2>2, <2>3
<1> HIDE DEF out, sold, back, units, n
<1>6. IntValued(out, I)
  BY <1>5 DEF IntValued
<1>7. SumFunctionOnSet(out, I) = SumFunctionOnSet(sold, I) - SumFunctionOnSet(back, I)
  BY <1>2, <1>3, <1>4, <1>5, SumMinus
<1>8. Outstanding(o) = SumFunctionOnSet(out, I)
  <2>1. Outstanding(o) = SumFunction(out) /\ DOMAIN out = I
    BY DEF Outstanding, ValueOut, out
  <2> QED
    BY <2>1, SumDomain
<1>9. Slack(o) = Cent * (Cardinality(AdjustsOf(o)) + n + 1) + n + SumFunctionOnSet(units, I)
  <2>1. /\ Slack(o) = Cent * (Cardinality(AdjustsOf(o)) + n + 1) + n + SumFunction(units)
        /\ DOMAIN units = I
    BY DEF Slack, Units, units, n
  <2> QED
    BY <2>1, SumDomain
<1>10. Slack(o) \in Nat
  <2>1. SumFunctionOnSet(units, I) \in Nat /\ Cardinality(AdjustsOf(o)) \in Nat
    BY <1>2, <1>3, SumNat, FS_CardinalityType
  <2>2. \A m \in Nat : Cent * m \in Nat
    BY CentAssumption
  <2> QED
    BY <1>2, <1>9, <2>1, <2>2
<1> QED
  BY <1>1, <1>6, <1>7, <1>8, <1>9, <1>10 DEF out, sold, back, units, n

(* When what was paid back reaches the total, what is still out is within  *)
(* the roundings, and in an order without cheap units nothing is.          *)
LEMMA FullyRefunded ==
  ASSUME AmendTypes, Recorded, NEW o \in Orders, RefundsOf(o) >= GrandTotal(orders[o])
  PROVE  2 * Outstanding(o) <= Slack(o)
<1> DEFINE I == DOMAIN orders[o].lines
           n == Len(orders[o].lines)
           a == Cardinality(AdjustsOf(o))
           S == SumFunctionOnSet(ValueSold(orders[o]), I)
           B == SumFunctionOnSet(ValueReturned(o), I)
           U == SumFunctionOnSet(Units(orders[o]), I)
           x == Cent * GrandTotal(orders[o])
           y == Cent * RefundsOf(o)
<1>1. /\ Items(orders[o]) /\ o \in OrderId /\ Due(orders[o]) >= 0 /\ orders[o] # NoOrder
      /\ Outstanding(o) = S - B
      /\ Slack(o) = Cent * (a + n + 1) + n + U
  BY OutstandingTypes DEF Orders
<1>2. n \in Nat /\ a \in Nat /\ IsFiniteSet(I) /\ RefundsOf(o) \in Int
  BY <1>1, LinesTypes, RefundsTypes, FS_CardinalityType DEF Items
<1>3. GrandTotal(orders[o]) \in Nat
  BY <1>1, WorthsNear
<1>4. /\ IntValued(ValueSold(orders[o]), I) /\ NatValued(Units(orders[o]), I)
      /\ IntValued(ValueReturned(o), I)
      /\ Near(2 * S, 2 * x, Cent * (n + 1) + n + U)
      /\ Near(2 * y, 2 * B, Cent * a)
  BY <1>1, SoldNear, RefundsByItem, RefundsNear
<1>5. S \in Int /\ B \in Int /\ U \in Int
  <2> DEFINE sold == ValueSold(orders[o])
             back == ValueReturned(o)
             units == Units(orders[o])
  <2>1. IntValued(sold, I) /\ IntValued(back, I) /\ NatValued(units, I)
    BY <1>4
  <2> HIDE DEF sold, back, units
  <2>2. /\ SumFunctionOnSet(sold, I) \in Int /\ SumFunctionOnSet(back, I) \in Int
        /\ SumFunctionOnSet(units, I) \in Nat
    BY <1>2, <2>1, SumInt, SumNat
  <2> QED
    BY <2>2 DEF sold, back, units
<1>6. \A p, q \in Int : p <= q => Cent * p <= Cent * q /\ Cent * p \in Int /\ Cent * q \in Int
  <2> SUFFICES ASSUME NEW p \in Int, NEW q \in Int, p <= q
               PROVE  Cent * p <= Cent * q /\ Cent * p \in Int /\ Cent * q \in Int
    OBVIOUS
  <2>1. PICK k \in Nat : q = p + k
    OBVIOUS
  <2>2. Cent * q = Cent * p + Cent * k /\ Cent * k \in Nat /\ Cent * p \in Int
    BY <2>1, CentAssumption
  <2> QED
    BY <2>2
<1>7. x <= y /\ x \in Int /\ y \in Int
  BY <1>2, <1>3, <1>6
<1> DEFINE c == Cent * (n + 1)
           d == Cent * a
<1>8. Cent * (a + n + 1) = c + d /\ c \in Int /\ d \in Int
  <2>1. a \in Nat /\ n \in Nat /\ Cent \in Nat
    BY <1>2, CentAssumption
  <2> HIDE DEF a, n
  <2>2. Cent * (n + 1 + a) = Cent * (n + 1) + Cent * a /\ n + 1 + a = a + n + 1
    BY <2>1
  <2>3. Cent * (n + 1) \in Int /\ Cent * a \in Int
    BY <2>1
  <2> QED
    BY <2>2, <2>3
<1>9. /\ Near(2 * S, 2 * x, c + n + U) /\ Near(2 * y, 2 * B, d)
      /\ Outstanding(o) = S - B /\ Slack(o) = c + d + n + U
  BY <1>1, <1>4, <1>8
<1> HIDE DEF S, B, U, x, y, c, d, n, a
<1> QED
  BY <1>2, <1>5, <1>7, <1>8, <1>9 DEF Near

(* A natural number that another is below is that one and some more.       *)
LEMMA Surplus ==
  ASSUME NEW x \in Nat, NEW g \in Nat, x >= g
  PROVE  \E k \in Nat : x = g + k
<1>1. x - g \in Nat /\ x = g + (x - g)
  OBVIOUS
<1> QED
  BY <1>1

LEMMA NothingHidden ==
  ASSUME AmendTypes, Recorded, NEW o \in Orders, Priced(o), 2 * Outstanding(o) <= Slack(o),
         \A i \in DOMAIN orders[o].lines : Returned(o, i) <= orders[o].lines[i].qty
  PROVE  \A i \in DOMAIN orders[o].lines : Returned(o, i) = orders[o].lines[i].qty
<1> DEFINE I == DOMAIN orders[o].lines
           out == ValueOut(o)
<1>1. /\ Items(orders[o]) /\ o \in OrderId /\ Slack(o) \in Nat
      /\ Outstanding(o) = SumFunctionOnSet(out, I) /\ IntValued(out, I)
  BY OutstandingTypes
<1>2. IsFiniteSet(I)
  BY <1>1, LinesTypes DEF Items
<1>3. ASSUME NEW i \in I
      PROVE  /\ Returned(o, i) \in Nat /\ orders[o].lines[i].qty \in Nat
             /\ EffectiveUnit(orders[o], i) \in Nat /\ 2 * EffectiveUnit(orders[o], i) > Slack(o)
             /\ out[i] = (orders[o].lines[i].qty - Returned(o, i)) * EffectiveUnit(orders[o], i)
             /\ out[i] \in Nat
  <2> DEFINE u == EffectiveUnit(orders[o], i)
             q == orders[o].lines[i].qty
             r == Returned(o, i)
  <2>1. u \in Int /\ q \in Nat /\ r \in Nat /\ r <= q
    BY <1>1, UnitTypes, LinesTypes, ReturnedTypes DEF Items
  <2>2. out[i] = (q - r) * u
    BY DEF ValueOut, Remaining
  <2>3. 2 * u > Slack(o)
    BY DEF Priced
  <2> HIDE DEF u, q, r, out
  <2>4. u \in Nat /\ q - r \in Nat
    BY <1>1, <2>1, <2>3
  <2>5. (q - r) * u \in Nat
    BY <2>4
  <2> QED
    BY <2>1, <2>2, <2>3, <2>4, <2>5 DEF u, q, r
<1> HIDE DEF out
<1>4. NatValued(out, I)
  BY <1>3 DEF NatValued
<1>5. ASSUME NEW i \in I, Returned(o, i) # orders[o].lines[i].qty PROVE FALSE
  <2> DEFINE u == EffectiveUnit(orders[o], i)
             m == orders[o].lines[i].qty - Returned(o, i)
  <2>5. /\ Returned(o, i) \in Nat /\ orders[o].lines[i].qty \in Nat
        /\ u \in Nat /\ 2 * u > Slack(o) /\ out[i] = m * u
        /\ Returned(o, i) <= orders[o].lines[i].qty
    BY <1>3, <1>5
  <2>6. m \in Nat /\ m >= 1
    BY <1>5, <2>5
  <2>1. u \in Nat /\ 2 * u > Slack(o) /\ m \in Nat /\ m >= 1 /\ out[i] = m * u
    BY <2>5, <2>6
  <2>2. out[i] <= Outstanding(o) /\ Outstanding(o) \in Nat
    BY <1>1, <1>2, <1>4, SumAtLeast, SumNat
  <2> HIDE DEF u, m
  <2>3. PICK k \in Nat : m = 1 + k
    <3>1. 1 \in Nat
      OBVIOUS
    <3> QED
      BY ONLY <2>6, <3>1, Surplus
  <2>4. m * u = k * u + u /\ k * u \in Nat
    BY ONLY <2>1, <2>3
  <2> QED
    BY <1>1, <2>1, <2>2, <2>4
<1> QED
  BY <1>5

-----------------------------------------------------------------------------
(* Requests that do not overlap and name each item to return once.         *)

BackOnce(o) ==
  \A i \in DOMAIN orders[o].lines : Returned(o, i) + Restored(o, i) <= orders[o].lines[i].qty
OnlyVoidsRestore(o) ==
  orders[o].status # "CANCELLED" => \A i \in DOMAIN orders[o].lines : Restored(o, i) = 0
AllBack(o) ==
  orders[o].status = "CANCELLED" /\ Priced(o) =>
    \A i \in DOMAIN orders[o].lines : Returned(o, i) + Restored(o, i) = orders[o].lines[i].qty
StatusFits(o) ==
  Covered(orders[o]) =>
    /\ orders[o].refunded = RefundsOf(o)
    /\ orders[o].status = "COMPLETED" => orders[o].refunded = 0
    /\ orders[o].status = "PARTIALLY_REFUNDED" =>
         /\ orders[o].refunded <= GrandTotal(orders[o])
         /\ WholeCents(orders[o]) => orders[o].refunded < GrandTotal(orders[o])
    /\ orders[o].status = "REFUNDED" =>
         orders[o].refunded >= GrandTotal(orders[o]) /\ 2 * Outstanding(o) <= Slack(o)

(* What an adjustment or a void found when it decided still holds when it  *)
(* commits.                                                                *)
StillFits(t) ==
  /\ stage[t] = "adjusting" => Returnable(snap[t], draft[t].order, draft[t].returns)
  /\ stage[t] = "voiding" => plan[t] = ToRestore(snap[t], draft[t].order)

OrderFits(o) == BackOnce(o) /\ OnlyVoidsRestore(o) /\ AllBack(o) /\ StatusFits(o)
OrderlyFits == /\ \A o \in Orders : OrderFits(o)
               /\ \A t \in Tx : pc[t] \in Open => StillFits(t)

OrderlyInv == AmendInv /\ OrdersInv /\ (Orderly => OrderlyFits)

-----------------------------------------------------------------------------
(* Each item is named once, so what one adjustment returns of an item is   *)
(* within any bound its lines keep.                                        *)
LEMMA ReturnedInOnce ==
  ASSUME NEW a \in Adjustment, NamesOnce(a.returns), NEW i, NEW n \in Nat,
         \A k \in DOMAIN a.returns : a.returns[k].item = i => a.returns[k].qty <= n
  PROVE  ReturnedIn(a, i) <= n
<1> DEFINE f == [k \in DOMAIN a.returns |-> a.returns[k].qty]
           K == {k \in DOMAIN a.returns : a.returns[k].item = i}
<1>1. ReturnedIn(a, i) = SumFunctionOnSet(f, K)
  BY DEF ReturnedIn
<1>2. \A k \in DOMAIN a.returns : a.returns[k].qty \in Nat
  BY AdjustmentTypes, ReturnsTypes
<1>3. CASE K = {}
  <2> HIDE DEF f, K
  <2> QED
    BY <1>1, <1>3, SumEmpty
<1>4. CASE K # {}
  <2>1. PICK k \in K : TRUE
    BY <1>4
  <2>2. K = {k}
    BY <2>1 DEF NamesOnce
  <2>3. f[k] \in Nat /\ f[k] <= n
    BY <1>2, <2>1
  <2> HIDE DEF f, K
  <2>4. SumFunctionOnSet(f, {k}) = f[k]
    <3>1. f[k] \in Int
      BY ONLY <2>3
    <3> QED
      BY ONLY <3>1, SumOne
  <2> QED
    BY <1>1, <2>2, <2>3, <2>4
<1> QED
  BY <1>3, <1>4

(* What rounding leaves out of an order that is paid back in full, as a    *)
(* fact of every state.                                                    *)
PaidInFull ==
  AmendTypes /\ Recorded =>
    \A o \in Orders : RefundsOf(o) >= GrandTotal(orders[o]) => 2 * Outstanding(o) <= Slack(o)
LEMMA FullyRefundedNow == PaidInFull
BY FullyRefunded DEF PaidInFull
LEMMA FullyRefundedNext == PaidInFull'
BY FullyRefundedNow, PTL

(* Where every unit is worth whole cents, so is a refund.                  *)
LEMMA WholeDivision ==
  ASSUME NEW n \in Int, NEW d \in Nat \ {0}, n % d = 0
  PROVE  n \div d \in Int /\ n = (n \div d) * d
OBVIOUS

LEMMA WholeRefund ==
  ASSUME NEW order, Items(order), NEW returns \in Seq(ReturnLine), Within(returns, order.lines),
         WholeCents(order)
  PROVE  \E m \in Int : Refund(order, returns) = m * Cent
<1> DEFINE K == DOMAIN returns
           f == [k \in K |-> LineRefund(order, returns[k])]
           g == [k \in K |-> returns[k].qty * (EffectiveUnit(order, returns[k].item) \div Cent)]
<1>1. IsFiniteSet(K) /\ Cent \in Int
  BY ReturnsTypes, CentAssumption
<1>2. ASSUME NEW k \in K PROVE g[k] \in Int /\ f[k] = g[k] * Cent
  <2> DEFINE u == EffectiveUnit(order, returns[k].item)
             q == returns[k].qty
             m == u \div Cent
  <2>1. q \in Nat /\ u \in Int /\ u % Cent = 0
    BY ReturnsTypes, UnitTypes DEF Within, WholeCents
  <2>2. f[k] = q * u /\ g[k] = q * m
    BY DEF LineRefund
  <2> HIDE DEF u, q, f, g
  <2>3. m \in Int /\ u = m * Cent
    BY <2>1, CentAssumption, WholeDivision
  <2> HIDE DEF m
  <2>4. q * (m * Cent) = (q * m) * Cent /\ q * m \in Int
    BY <1>1, <2>1, <2>3
  <2> QED
    BY <2>2, <2>3, <2>4
<1>3. Refund(order, returns) = SumFunctionOnSet(f, K)
  BY RefundTypes
<1> HIDE DEF f, g, K
<1>4. IntValued(g, K)
  BY <1>2 DEF IntValued
<1>5. SumFunctionOnSet(f, K) = SumFunctionOnSet(g, K) * Cent /\ SumFunctionOnSet(g, K) \in Int
  BY <1>1, <1>2, <1>4, SumTimes, SumInt
<1> QED
  BY <1>3, <1>5

(* A step keeps the account of every order it does not touch.              *)
LEMMA OrderStays ==
  ASSUME NEW o, OrderFits(o), orders'[o] = orders[o], RefundsOf(o)' = RefundsOf(o),
         AdjustsOf(o)' = AdjustsOf(o),
         \A i : Returned(o, i)' = Returned(o, i) /\ Restored(o, i)' = Restored(o, i)
  PROVE  OrderFits(o)'
<1>1. BackOnce(o)' /\ OnlyVoidsRestore(o)'
  BY DEF OrderFits, BackOnce, OnlyVoidsRestore
<1>2. Slack(o)' = Slack(o) /\ Outstanding(o)' = Outstanding(o)
  BY DEF Slack, Outstanding, Remaining
<1>3. (Priced(o)' <=> Priced(o))
  BY <1>2 DEF Priced
<1>4. AllBack(o)'
  BY <1>3 DEF OrderFits, AllBack
<1>5. StatusFits(o)'
  BY <1>2 DEF OrderFits, StatusFits
<1> QED
  BY <1>1, <1>4, <1>5 DEF OrderFits

LEMMA ReturnedStays ==
  ASSUME adjusts' = adjusts, NEW o, NEW i
  PROVE  Returned(o, i)' = Returned(o, i)
BY DEF Returned, AdjustsOf, Amended

(* Requests overlap only when one begins.                                  *)
LEMMA SerialBefore ==
  ASSUME Slots, NEW t \in Tx, StepOf(t), ~overlapped'
  PROVE  ~overlapped
<1>1. CASE \E q : Begin(t, q)
  BY <1>1 DEF Begin
<1>2. CASE Statement(t) \/ Fail(t)
  BY <1>2, StatementMoves
<1>3. CASE Rollback(t) \/ Commit(t) \/ \E q : Adjusting(t, q)
  BY <1>3 DEF Rollback, Commit, Adjusting, history
<1> QED
  BY <1>1, <1>2, <1>3
     DEF StepOf, OpenSale, OpenAdjust, OpenVoid, OrdersStatement, SaleStatement, RejectSale,
         TakeReceipt, CommitSale, SaleStep, ReadReturns, ReadRestores, PlanAdjust, PlanVoid,
         Refuse, CommitAdjust, CommitVoid

(* A committed adjustment stays.                                           *)
LEMMA AdjustsKept ==
  ASSUME AmendInv, NEW t \in Tx, StepOf(t), NEW u \in Tx, adjusts[u] # NoOrder
  PROVE  adjusts'[u] = adjusts[u]
<1>1. CASE CommitAdjust(t)
  <2>1. adjusts[t] = NoOrder /\ AmendTypes
    BY <1>1, AdjustingKnows DEF AmendInv
  <2> QED
    BY <1>1, <2>1 DEF CommitAdjust, AmendTypes
<1>2. CASE adjusts' = adjusts
  BY <1>2
<1> QED
  BY <1>1, <1>2
     DEF StepOf, OpenAdjust, OpenVoid, OrdersStatement, adjustVars,
         ReadReturns, ReadRestores, PlanAdjust, PlanVoid, Refuse, CommitVoid

(* An orderly behaviour was orderly before.                                *)
LEMMA OrderlyBefore ==
  ASSUME OrderlyInv, NEW t \in Tx, StepOf(t), Orderly'
  PROVE  Orderly /\ ~overlapped /\ ~overlapped' /\ OrderlyFits /\ Alone /\ CopyIsCurrent /\ StillLive
<1>0. StockTypeOK /\ AmendTypes /\ Recorded /\ Slots /\ ~overlapped'
  BY TypesAreSlots DEF OrderlyInv, AmendInv, StockInv, Orderly
<1>1. ~overlapped
  BY <1>0, SerialBefore
<1>2. \A u \in Tx : adjusts[u] # NoOrder => adjusts'[u] = adjusts[u]
  BY AdjustsKept DEF OrderlyInv
<1>3. Orderly
  BY <1>1, <1>2 DEF Orderly
<1> QED
  BY <1>0, <1>1, <1>3 DEF OrderlyInv, OrdersInv

(* A step that writes no order, adjustment or void.                        *)
LEMMA QuietFits ==
  ASSUME OrderlyInv, NEW t \in Tx, StepOf(t), UNCHANGED <<orders, adjusts, restored>>, Orderly',
         pc'[t] \in Open => StillFits(t)'
  PROVE  OrderlyFits'
<1>0. StockTypeOK /\ AmendTypes /\ Recorded
  BY DEF OrderlyInv, AmendInv, StockInv
<1>1. OrderlyFits
  BY OrderlyBefore
<1>2. \A o, i : Returned(o, i)' = Returned(o, i)
  BY ReturnedStays
<1>3. ASSUME NEW o \in Orders' PROVE OrderFits(o)'
  <2>1. o \in Orders /\ orders'[o] = orders[o] /\ \A i : Restored(o, i)' = Restored(o, i)
    BY DEF Orders, Restored
  <2>2. RefundsOf(o)' = RefundsOf(o) /\ AdjustsOf(o)' = AdjustsOf(o)
    BY RefundsQuiet DEF AdjustsOf, Amended
  <2> QED
    BY <1>1, <1>2, <2>1, <2>2, OrderStays DEF OrderlyFits
<1>4. ASSUME NEW u \in Tx, pc'[u] \in Open PROVE StillFits(u)'
  <2>1. CASE u = t
    BY <1>4, <2>1
  <2>2. CASE u # t
    <3>1. Local(u)' = Local(u)
      BY <1>0, <2>2, OthersKeep
    <3>2. /\ pc'[u] = pc[u] /\ stage'[u] = stage[u] /\ draft'[u] = draft[u]
          /\ snap'[u] = snap[u] /\ plan'[u] = plan[u]
      BY <3>1 DEF Local
    <3>3. StillFits(u)
      BY <1>1, <1>4, <3>2 DEF OrderlyFits
    <3> QED
      BY <1>2, <3>2, <3>3 DEF StillFits, Returnable, ToRestore, Remaining
  <2> QED
    BY <2>1, <2>2
<1> QED
  BY <1>3, <1>4 DEF OrderlyFits

(* A commit closes the only transaction that was open.                     *)
LEMMA CommitFits ==
  ASSUME OrderlyInv, NEW t \in Tx, StepOf(t), Commit(t), Orderly', \A o \in Orders' : OrderFits(o)'
  PROVE  OrderlyFits'
<1>1. Alone /\ StockTypeOK
  BY OrderlyBefore DEF OrderlyInv, AmendInv, StockInv
<1>2. pc[t] \in Open /\ pc' = [pc EXCEPT ![t] = "committed"]
  BY DEF Commit, Done, Open
<1>3. \A u \in Tx : pc'[u] \notin Open
  BY <1>1, <1>2 DEF Alone, StockTypeOK, Open
<1> QED
  BY <1>3 DEF OrderlyFits

LEMMA CommitSaleFits ==
  ASSUME OrderlyInv, NEW t \in Tx, CommitSale(t), UNCHANGED adjustVars, Orderly'
  PROVE  OrderlyFits'
<1> DEFINE new == NewOrder(sale[t], held[t].counter)
<1>0. /\ AmendInv /\ AmendTypes /\ Recorded /\ StepOf(t) /\ Commit(t) /\ t \in OrderId
  BY DEF OrderlyInv, AmendInv, StepOf, OrdersStatement, SaleStatement, CommitSale, OrderId
<1>1. /\ orders[t] = NoOrder /\ orders' = [orders EXCEPT ![t] = new] /\ new \in OrderType
      /\ \A p \in OrderId : RefundsOf(p)' = RefundsOf(p) /\ \A i : Returned(p, i)' = Returned(p, i)
  BY <1>0, CommitSaleAmends
<1>2. orders'[t] = new /\ \A p \in OrderId \ {t} : orders'[p] = orders[p]
  BY <1>0, <1>1 DEF AmendTypes
<1>3. \A p, i : Restored(p, i)' = Restored(p, i)
  BY DEF Restored, adjustVars
<1>4. OrderlyFits
  BY <1>0, OrderlyBefore
<1>5. OrderFits(t)'
  <2>1. AdjustsOf(t) = {}
    BY <1>0, <1>1, NoOrderNoAdjusts
  <2>2. RefundsOf(t) = 0 /\ \A i : Returned(t, i) = 0
    BY <2>1, SumEmpty DEF RefundsOf, Returned
  <2>3. \A i : Restored(t, i) = 0
    BY <1>0, <1>1 DEF Recorded, Restored
  <2>4. new.lines \in Seq(Line) /\ new.refunded = 0 /\ new.status = "COMPLETED"
    BY <1>1, OrderTypes DEF NewOrder
  <2>5. \A i \in DOMAIN new.lines : new.lines[i].qty \in Nat \ {0}
    BY <2>4, LinesTypes
  <2> HIDE DEF new
  <2>6. \A i : Returned(t, i)' = 0 /\ Restored(t, i)' = 0
    BY <1>0, <1>1, <1>3, <2>2, <2>3
  <2>7. RefundsOf(t)' = 0
    BY <1>0, <1>1, <2>2
  <2>8. BackOnce(t)' /\ OnlyVoidsRestore(t)' /\ AllBack(t)'
    BY <1>2, <2>4, <2>5, <2>6 DEF BackOnce, OnlyVoidsRestore, AllBack
  <2>9. StatusFits(t)'
    BY <1>2, <2>4, <2>7 DEF StatusFits
  <2> QED
    BY <2>8, <2>9 DEF OrderFits
<1>6. ASSUME NEW p \in Orders', p # t PROVE OrderFits(p)'
  <2>1. p \in OrderId /\ orders'[p] = orders[p] /\ p \in Orders
    BY <1>2, <1>6 DEF Orders
  <2>2. AdjustsOf(p)' = AdjustsOf(p)
    BY DEF AdjustsOf, Amended, adjustVars
  <2> QED
    BY <1>1, <1>3, <1>4, <2>1, <2>2, OrderStays DEF OrderlyFits
<1> QED
  BY <1>0, <1>5, <1>6, CommitFits

LEMMA AdjustmentFits ==
  ASSUME OrderlyInv, NEW t \in Tx, CommitAdjust(t), Orderly', NEW a, a = draft[t], NEW o, o = a.order
  PROVE  OrderlyFits'
<1> DEFINE refund == Refund(snap[t], a.returns)
           total == NewRefunded(snap[t], a)
           status == StatusAfter(snap[t], total, refund)
           row == [orders[o] EXCEPT !.refunded = ToCents(total), !.status = status]
<1>0. AmendInv /\ AmendTypes /\ Recorded
  BY DEF OrderlyInv, AmendInv
<1>1. /\ StepOf(t) /\ Commit(t) /\ pc[t] = "read" /\ stage[t] = "adjusting"
      /\ a \in Adjustment /\ a.returns \in Seq(ReturnLine)
      /\ o \in OrderId /\ adjusts[t] = NoOrder
      /\ Within(a.returns, orders[o].lines) /\ orders[o] \in OrderType
      /\ Items(orders[o]) /\ refund \in Int /\ Refund(orders[o], a.returns) = refund
  BY <1>0, AdjustingKnows, SameWorth DEF SameItems, Items
<1>2. Orderly /\ OrderlyFits /\ CopyIsCurrent /\ StillLive
  BY <1>1, OrderlyBefore
<1>3. /\ snap[t] = orders[o] /\ orders[o].status # "CANCELLED"
      /\ Returnable(orders[o], o, a.returns)
  <2>1. pc[t] \in Open /\ stage[t] \in Amending /\ stage[t] \in Decided
    BY <1>1 DEF Open, Amending, Decided
  <2> QED
    BY <1>1, <1>2, <2>1 DEF CopyIsCurrent, StillLive, Cancelled, OrderlyFits, StillFits
<1>4. /\ orders' = [orders EXCEPT ![o] = row] /\ ItemsStay
      /\ adjusts' = [adjusts EXCEPT ![t] = a]
  BY <1>0, CommitAdjustAmends
<1>5. NamesOnce(a.returns)
  <2>1. adjusts'[t] = a /\ a # NoOrder
    BY <1>0, <1>1, <1>4, AdjustmentTypes DEF AmendTypes
  <2> QED
    BY <2>1 DEF Orderly
<1>6. /\ orders[o] # NoOrder /\ orders[o].lines \in Seq(Line) /\ orders[o].refunded \in Int
      /\ o \in Orders
  BY <1>1, OrderTypes DEF Orders
<1>7. total = Cent * orders[o].refunded + refund
  BY <1>3 DEF NewRefunded
<1>8. /\ row.lines = orders[o].lines /\ row.discount = orders[o].discount
      /\ row.refunded = ToCents(total) /\ row.status = status
  BY <1>1 DEF OrderType
<1>9. status = IF total >= Cent * GrandTotal(orders[o]) THEN "REFUNDED"
               ELSE IF refund > 0 THEN "PARTIALLY_REFUNDED" ELSE orders[o].status
  BY <1>3 DEF StatusAfter
<1> HIDE DEF row, status, total, refund
<1>10. orders'[o] = row /\ \A p \in OrderId \ {o} : orders'[p] = orders[p]
  BY <1>0, <1>1, <1>4 DEF AmendTypes
<1>11. \A p \in OrderId :
         /\ AdjustsOf(p)' = IF p = o THEN AdjustsOf(p) \cup {t} ELSE AdjustsOf(p)
         /\ RefundsOf(p)' = RefundsOf(p)
                              + IF p = o THEN ToCents(Refund(orders[p], a.returns)) ELSE 0
         /\ \A i : Returned(p, i)' = Returned(p, i) + IF p = o THEN ReturnedIn(a, i) ELSE 0
  <2>1. /\ orders[a.order] # NoOrder /\ Within(a.returns, orders[a.order].lines)
        /\ a \in Adjustment /\ adjusts[t] = NoOrder /\ adjusts' = [adjusts EXCEPT ![t] = a]
    BY <1>1, <1>4, <1>6
  <2>2. AmendTypes /\ Recorded /\ ItemsStay
    BY <1>0, <1>4
  <2> SUFFICES ASSUME NEW p \in OrderId
               PROVE  /\ AdjustsOf(p)' = IF p = o THEN AdjustsOf(p) \cup {t} ELSE AdjustsOf(p)
                      /\ RefundsOf(p)' = RefundsOf(p)
                           + IF p = o THEN ToCents(Refund(orders[p], a.returns)) ELSE 0
                      /\ \A i : Returned(p, i)' = Returned(p, i) + IF p = o THEN ReturnedIn(a, i) ELSE 0
    OBVIOUS
  <2>3. /\ AdjustsOf(p)' = IF p = a.order THEN AdjustsOf(p) \cup {t} ELSE AdjustsOf(p)
        /\ RefundsOf(p)' = RefundsOf(p)
             + IF p = a.order THEN ToCents(Refund(orders[p], a.returns)) ELSE 0
        /\ \A i : Returned(p, i)' = Returned(p, i) + IF p = a.order THEN ReturnedIn(a, i) ELSE 0
    BY ONLY <2>1, <2>2, t \in Tx, p \in OrderId, SumsGrow
  <2> QED
    BY ONLY <2>3, o = a.order
<1>12. \A p, i : Restored(p, i)' = Restored(p, i)
  BY DEF CommitAdjust, Restored
<1>13. OrderFits(o)
  BY <1>2, <1>6 DEF OrderlyFits
<1>14. /\ GrandTotal(orders[o]) \in Nat /\ SameItems(row, orders[o])
       /\ GrandTotal(row) = GrandTotal(orders[o])
       /\ Covered(row) <=> Covered(orders[o])
       /\ WholeCents(row) <=> WholeCents(orders[o])
  <2>1. SameItems(row, orders[o])
    BY <1>8 DEF SameItems
  <2>2. GrandTotal(orders[o]) \in Nat
    BY <1>0, <1>1, <1>6, WorthsNear DEF Recorded
  <2>3. \A i : EffectiveUnit(row, i) = EffectiveUnit(orders[o], i)
    BY <2>1, SameWorth
  <2> QED
    BY <1>8, <2>1, <2>2, <2>3, SameWorth DEF WholeCents
<1>15. ASSUME Covered(orders[o])
       PROVE  /\ orders[o].refunded \in Nat /\ refund \in Nat /\ total \in Int
              /\ orders[o].refunded = RefundsOf(o)
              /\ ToCents(total) = orders[o].refunded + ToCents(refund)
              /\ ToCents(total) = RefundsOf(o)'
  <2>1. orders[o].refunded \in Nat /\ orders[o].refunded = RefundsOf(o)
    BY <1>0, <1>6, <1>13, <1>15 DEF AmendInv, RefundsStated, OrderFits, StatusFits
  <2>2. refund \in Nat
    BY <1>1, <1>15, RefundTypes
  <2>3. total \in Int
    BY <1>7, <2>1, <2>2, CentAssumption
  <2>4. ToCents(total) = orders[o].refunded + ToCents(refund)
    BY <1>7, <2>1, <2>2, CentsShift
  <2>5. RefundsOf(o)' = RefundsOf(o) + ToCents(refund)
    BY <1>1, <1>11
  <2> QED
    BY <2>1, <2>2, <2>3, <2>4, <2>5
<1>16. ASSUME NEW i \in DOMAIN orders[o].lines
       PROVE  /\ Returned(o, i)' = Returned(o, i) + ReturnedIn(a, i)
              /\ Returned(o, i)' <= orders[o].lines[i].qty
              /\ Restored(o, i)' = 0
              /\ Returned(o, i) \in Nat /\ ReturnedIn(a, i) \in Nat
              /\ orders[o].lines[i].qty \in Nat
  <2>1. /\ Returned(o, i) \in Nat /\ ReturnedIn(a, i) \in Nat /\ orders[o].lines[i].qty \in Nat
        /\ Restored(o, i) = 0 /\ Returned(o, i) <= orders[o].lines[i].qty
    <3>1. Returned(o, i) \in Nat /\ ReturnedIn(a, i) \in Nat /\ orders[o].lines[i].qty \in Nat
      BY <1>0, <1>1, <1>6, ReturnedTypes, ReturnedInTypes, LinesTypes
    <3>2. Restored(o, i) = 0 /\ Returned(o, i) + Restored(o, i) <= orders[o].lines[i].qty
      BY <1>3, <1>13 DEF OrderFits, OnlyVoidsRestore, BackOnce
    <3> QED
      BY <3>1, <3>2
  <2> DEFINE n == orders[o].lines[i].qty - Returned(o, i)
  <2>2. n \in Nat
    BY <2>1
  <2>3. \A k \in DOMAIN a.returns : a.returns[k].item = i => a.returns[k].qty <= n
    BY <1>3 DEF Returnable, Remaining
  <2>4. ReturnedIn(a, i) <= n
    <3> HIDE DEF n
    <3> QED
      BY <1>1, <1>5, <2>2, <2>3, ReturnedInOnce
  <2>5. Returned(o, i)' = Returned(o, i) + ReturnedIn(a, i)
    BY <1>1, <1>11
  <2> QED
    BY <1>12, <2>1, <2>4, <2>5
<1>17. BackOnce(o)' /\ OnlyVoidsRestore(o)'
  BY <1>8, <1>10, <1>16 DEF BackOnce, OnlyVoidsRestore
<1>18. status # "CANCELLED"
  BY <1>3, <1>9
<1>19. AllBack(o)'
  BY <1>8, <1>10, <1>18 DEF AllBack
<1>20. Covered(orders[o]) /\ status = "REFUNDED" =>
         /\ ToCents(total) >= GrandTotal(orders[o])
         /\ 2 * Outstanding(o)' <= Slack(o)'
  <2> SUFFICES ASSUME Covered(orders[o]), status = "REFUNDED"
               PROVE  ToCents(total) >= GrandTotal(orders[o]) /\ 2 * Outstanding(o)' <= Slack(o)'
    OBVIOUS
  <2> DEFINE G == Cent * GrandTotal(orders[o])
  <2>1. total >= G
    <3>1. CASE orders[o].status = "REFUNDED"
      <4> DEFINE x == orders[o].refunded
                 g == GrandTotal(orders[o])
      <4>1. x \in Nat /\ g \in Nat /\ x >= g /\ refund \in Nat /\ total = Cent * x + refund
        BY <1>7, <1>13, <1>14, <1>15, <3>1 DEF OrderFits, StatusFits
      <4>5. x \in Nat /\ g \in Nat /\ x >= g
        BY <4>1
      <4> HIDE DEF x, g
      <4>2. PICK k \in Nat : x = g + k
        BY ONLY <4>5, Surplus
      <4>3. Cent * x = Cent * g + Cent * k /\ Cent * k \in Nat /\ Cent * g \in Nat
        BY <4>1, <4>2, CentAssumption
      <4>4. total >= Cent * g
        BY <4>1, <4>3
      <4> QED
        BY <4>4 DEF g
    <3>2. CASE orders[o].status # "REFUNDED"
      BY <1>9, <3>2
    <3> QED
      BY <3>1, <3>2
  <2>2. ToCents(total) >= GrandTotal(orders[o])
    BY <1>14, <1>15, <2>1, CentsBelow
  <2>3. o \in Orders' /\ RefundsOf(o)' >= GrandTotal(orders'[o])
    <3>1. row # NoOrder
      BY <1>4, <1>6, <1>10, <1>1 DEF ItemsStay
    <3> QED
      BY <1>1, <1>10, <1>14, <1>15, <2>2, <3>1 DEF Orders
  <2>4. AmendTypes' /\ Recorded'
    BY <1>0, CommitAdjustAmends DEF AmendInv
  <2> QED
    BY <2>2, <2>3, <2>4, FullyRefundedNext DEF PaidInFull
<1>24. Covered(orders[o]) /\ status = "PARTIALLY_REFUNDED" =>
         /\ ToCents(total) <= GrandTotal(orders[o])
         /\ WholeCents(orders[o]) => ToCents(total) < GrandTotal(orders[o])
  <2> SUFFICES ASSUME Covered(orders[o]), status = "PARTIALLY_REFUNDED"
               PROVE  /\ ToCents(total) <= GrandTotal(orders[o])
                      /\ WholeCents(orders[o]) => ToCents(total) < GrandTotal(orders[o])
    OBVIOUS
  <2>1. ~(total >= Cent * GrandTotal(orders[o]))
    BY <1>9
  <2>2. Cent * GrandTotal(orders[o]) \in Int
    BY <1>14, CentAssumption
  <2>3. total < Cent * GrandTotal(orders[o])
    BY <1>15, <2>1, <2>2
  <2>4. ToCents(total) <= GrandTotal(orders[o])
    BY <1>14, <1>15, <2>2, <2>3, CentsBelow
  <2>5. ASSUME WholeCents(orders[o]) PROVE ToCents(total) < GrandTotal(orders[o])
    <3> DEFINE x == orders[o].refunded
               g == GrandTotal(orders[o])
    <3>1. PICK m \in Int : refund = m * Cent
      BY <1>1, <2>5, WholeRefund
    <3>2. x \in Nat /\ g \in Nat /\ refund \in Nat /\ total = Cent * x + refund /\ total < Cent * g
      BY <1>7, <1>14, <1>15, <2>3
    <3> HIDE DEF x, g
    <3>3. m \in Nat
      <4>1. CASE m < 0
        <5>1. PICK k \in Nat : m = -k - 1
          BY <4>1
        <5>2. m * Cent = -(k * Cent) - Cent /\ k * Cent \in Nat
          BY <5>1, CentAssumption
        <5> QED
          BY <3>1, <3>2, <5>2, CentAssumption
      <4> QED
        BY <4>1
    <3>4. total = Cent * (x + m) /\ x + m \in Nat
      BY <3>1, <3>2, <3>3, CentAssumption
    <3>5. ToCents(total) = x + m
      BY <3>4, CentsShift
    <3>6. x + m < g
      <4>1. CASE x + m >= g
        <5>1. PICK k \in Nat : x + m = g + k
          BY <3>2, <3>4, <4>1
        <5>2. Cent * (x + m) = Cent * g + Cent * k /\ Cent * k \in Nat /\ Cent * g \in Nat
          BY <3>2, <5>1, CentAssumption
        <5> QED
          BY <3>2, <3>4, <5>2
      <4> QED
        BY <3>2, <3>4, <4>1
    <3> QED
      BY <3>5, <3>6 DEF g
  <2> QED
    BY <2>4, <2>5
<1>21. StatusFits(o)'
  <2> SUFFICES ASSUME Covered(orders[o])
               PROVE  /\ row.refunded = RefundsOf(o)'
                      /\ row.status = "COMPLETED" => row.refunded = 0
                      /\ row.status = "PARTIALLY_REFUNDED" =>
                           /\ row.refunded <= GrandTotal(row)
                           /\ WholeCents(row) => row.refunded < GrandTotal(row)
                      /\ row.status = "REFUNDED" =>
                           row.refunded >= GrandTotal(row) /\ 2 * Outstanding(o)' <= Slack(o)'
    BY <1>10, <1>14 DEF StatusFits
  <2>1. ASSUME status = "COMPLETED" PROVE ToCents(total) = 0
    <3>1. refund = 0 /\ orders[o].status = "COMPLETED"
      BY <1>9, <1>15, <2>1
    <3>2. orders[o].refunded = 0
      BY <1>13, <3>1 DEF OrderFits, StatusFits
    <3>3. total = Cent * 0
      BY <1>7, <3>1, <3>2, CentAssumption
    <3> QED
      BY <3>3, CentsShift
  <2> QED
    BY <1>8, <1>14, <1>15, <1>20, <1>24, <2>1
<1>22. ASSUME NEW p \in Orders', p # o PROVE OrderFits(p)'
  <2>1. p \in OrderId /\ orders'[p] = orders[p] /\ p \in Orders
    BY <1>10, <1>22 DEF Orders
  <2>2. RefundsOf(p) \in Int /\ \A i : Returned(p, i) \in Nat
    BY <1>0, <2>1, RefundsTypes, ReturnedTypes
  <2>3. /\ RefundsOf(p)' = RefundsOf(p) /\ \A i : Returned(p, i)' = Returned(p, i)
        /\ AdjustsOf(p)' = AdjustsOf(p)
    BY <1>11, <1>22, <2>1, <2>2
  <2> QED
    BY <1>2, <1>12, <2>1, <2>3, OrderStays DEF OrderlyFits
<1>23. OrderFits(o)'
  BY <1>17, <1>19, <1>21 DEF OrderFits
<1> QED
  BY <1>1, <1>22, <1>23, CommitFits

LEMMA CommitAdjustFits ==
  ASSUME OrderlyInv, NEW t \in Tx, CommitAdjust(t), Orderly'
  PROVE  OrderlyFits'
BY AdjustmentFits

LEMMA VoidFits ==
  ASSUME OrderlyInv, NEW t \in Tx, CommitVoid(t), Orderly', NEW o, o = draft[t].order
  PROVE  OrderlyFits'
<1> DEFINE row == [orders[o] EXCEPT !.status = "CANCELLED"]
<1>0. AmendInv /\ AmendTypes /\ Recorded
  BY DEF OrderlyInv, AmendInv
<1>1. /\ StepOf(t) /\ Commit(t) /\ pc[t] = "read" /\ stage[t] = "voiding" /\ o \in OrderId
      /\ orders[o] \in OrderType /\ snap[t].lines = orders[o].lines
  BY <1>0, VoidingKnows DEF SameItems
<1>2. Orderly /\ OrderlyFits /\ CopyIsCurrent /\ StillLive
  BY <1>1, OrderlyBefore
<1>3. /\ snap[t] = orders[o] /\ orders[o].status # "CANCELLED"
      /\ plan[t] = ToRestore(orders[o], o)
  <2>1. pc[t] \in Open /\ stage[t] \in Amending /\ stage[t] \in Decided
    BY <1>1 DEF Open, Amending, Decided
  <2> QED
    BY <1>1, <1>2, <2>1 DEF CopyIsCurrent, StillLive, Cancelled, OrderlyFits, StillFits
<1>4. /\ orders' = [orders EXCEPT ![o] = row] /\ ItemsStay /\ adjusts' = adjusts
      /\ \A p \in OrderId : \A i :
           Restored(p, i)' = Restored(p, i)
             + IF p = o /\ i \in DOMAIN orders[o].lines THEN plan[t][i] ELSE 0
  BY <1>0, <1>3, CommitVoidAmends
<1>5. /\ orders[o] # NoOrder /\ orders[o].lines \in Seq(Line) /\ orders[o].status \in Status
      /\ o \in Orders
  BY <1>1, OrderTypes DEF Orders
<1>6. row.lines = orders[o].lines /\ row.discount = orders[o].discount
      /\ row.refunded = orders[o].refunded /\ row.status = "CANCELLED"
  BY <1>1 DEF OrderType
<1> HIDE DEF row
<1>7. orders'[o] = row /\ \A p \in OrderId \ {o} : orders'[p] = orders[p]
  BY <1>0, <1>1, <1>4 DEF AmendTypes
<1>8. \A p \in OrderId : /\ RefundsOf(p)' = RefundsOf(p) /\ AdjustsOf(p)' = AdjustsOf(p)
                          /\ \A i : Returned(p, i)' = Returned(p, i)
  BY <1>0, <1>4, SumsStay
<1>9. OrderFits(o)
  BY <1>1, <1>2, <1>5 DEF OrderlyFits, Orders
<1>10. (Priced(o)' <=> Priced(o)) /\ (Covered(row) <=> Covered(orders[o]))
  <2>1. SameItems(row, orders[o])
    BY <1>6 DEF SameItems
  <2>2. Slack(o)' = Slack(o)
    BY <1>1, <1>6, <1>7, <1>8 DEF Slack
  <2>3. \A i : EffectiveUnit(row, i) = EffectiveUnit(orders[o], i)
    BY <2>1, SameWorth
  <2> QED
    BY <1>6, <1>7, <2>1, <2>2, <2>3, SameWorth DEF Priced
<1>11. ASSUME NEW i \in DOMAIN orders[o].lines
       PROVE  /\ Returned(o, i)' + Restored(o, i)' <= orders[o].lines[i].qty
              /\ Priced(o) => Returned(o, i)' + Restored(o, i)' = orders[o].lines[i].qty
  <2>1. /\ Returned(o, i) \in Nat /\ orders[o].lines[i].qty \in Nat
        /\ Restored(o, i) = 0 /\ Returned(o, i) <= orders[o].lines[i].qty
    <3>1. Returned(o, i) \in Nat /\ orders[o].lines[i].qty \in Nat
      BY <1>0, <1>5, ReturnedTypes, LinesTypes
    <3>2. Restored(o, i) = 0 /\ Returned(o, i) + Restored(o, i) <= orders[o].lines[i].qty
      BY <1>3, <1>9 DEF OrderFits, OnlyVoidsRestore, BackOnce
    <3> QED
      BY <3>1, <3>2
  <2>2. Restored(o, i)' = plan[t][i] /\ Returned(o, i)' = Returned(o, i)
    <3>1. plan[t][i] \in Int
      BY <1>0, <1>3, <1>5, RestoreTypes
    <3> QED
      BY <1>1, <1>4, <1>8, <2>1, <3>1
  <2>3. plan[t][i] = IF /\ orders[o].status \in {"COMPLETED", "PARTIALLY_REFUNDED"}
                        /\ orders[o].lines[i].qty - Returned(o, i) > 0
                     THEN orders[o].lines[i].qty - Returned(o, i) ELSE 0
    BY <1>3 DEF ToRestore, Remaining
  <2>4. ASSUME Priced(o), orders[o].status \notin {"COMPLETED", "PARTIALLY_REFUNDED"}
        PROVE  Returned(o, i) = orders[o].lines[i].qty
    <3>1. orders[o].status = "REFUNDED"
      BY <1>3, <1>5, <2>4 DEF Status
    <3>2. Covered(orders[o])
      <4>1. Slack(o) \in Nat /\ Items(orders[o])
        BY <1>0, <1>5, OutstandingTypes
      <4> SUFFICES ASSUME NEW j \in DOMAIN orders[o].lines PROVE EffectiveUnit(orders[o], j) >= 0
        BY DEF Covered
      <4>2. EffectiveUnit(orders[o], j) \in Int /\ 2 * EffectiveUnit(orders[o], j) > Slack(o)
        BY <2>4, <4>1, UnitTypes DEF Priced
      <4> QED
        BY <4>1, <4>2
    <3>3. 2 * Outstanding(o) <= Slack(o)
      BY <1>9, <3>1, <3>2 DEF OrderFits, StatusFits
    <3>4. \A j \in DOMAIN orders[o].lines : Returned(o, j) <= orders[o].lines[j].qty
      <4> SUFFICES ASSUME NEW j \in DOMAIN orders[o].lines
                   PROVE  Returned(o, j) <= orders[o].lines[j].qty
        OBVIOUS
      <4>1. Returned(o, j) \in Nat
        BY <1>0, ReturnedTypes
      <4>2. Restored(o, j) = 0 /\ Returned(o, j) + Restored(o, j) <= orders[o].lines[j].qty
        BY <1>3, <1>9 DEF OrderFits, OnlyVoidsRestore, BackOnce
      <4> QED
        BY <4>1, <4>2
    <3> QED
      BY <1>0, <1>5, <2>4, <3>3, <3>4, NothingHidden
  <2> QED
    BY <2>1, <2>2, <2>3, <2>4
<1>12. OrderFits(o)'
  <2>1. BackOnce(o)' /\ OnlyVoidsRestore(o)' /\ AllBack(o)'
    BY <1>6, <1>7, <1>10, <1>11 DEF BackOnce, OnlyVoidsRestore, AllBack
  <2>2. StatusFits(o)'
    BY <1>1, <1>6, <1>7, <1>8, <1>9, <1>10 DEF OrderFits, StatusFits
  <2> QED
    BY <2>1, <2>2 DEF OrderFits
<1>13. ASSUME NEW p \in Orders', p # o PROVE OrderFits(p)'
  <2>1. p \in OrderId /\ orders'[p] = orders[p] /\ p \in Orders
    BY <1>7, <1>13 DEF Orders
  <2>2. \A i : Restored(p, i)' = Restored(p, i)
    <3>1. \A i : Restored(p, i) \in Nat
      BY <1>0, <2>1, RestoredTypes
    <3> QED
      BY <1>4, <1>13, <2>1, <3>1
  <2> QED
    BY <1>2, <1>8, <2>1, <2>2, OrderStays DEF OrderlyFits
<1> QED
  BY <1>1, <1>12, <1>13, CommitFits

LEMMA CommitVoidFits ==
  ASSUME OrderlyInv, NEW t \in Tx, CommitVoid(t), Orderly'
  PROVE  OrderlyFits'
BY VoidFits

-----------------------------------------------------------------------------
LEMMA DecideFits ==
  ASSUME OrderlyInv, NEW t \in Tx, ReadReturns(t) \/ ReadRestores(t), Orderly'
  PROVE  OrderlyFits'
<1>0. StepOf(t) /\ AmendTypes /\ StockTypeOK
  BY DEF StepOf, OrdersStatement, OrderlyInv, AmendInv, StockInv
<1>1. CASE Refuse(t)
  <2>1. pc'[t] \notin Open /\ UNCHANGED <<orders, adjusts, restored>>
    BY <1>0, <1>1 DEF Refuse, Rollback, saleVars, adjustVars, StockTypeOK, Open
  <2> QED
    BY <1>0, <2>1, QuietFits
<1>2. CASE Acceptable(t) /\ PlanAdjust(t)
  <2>1. UNCHANGED <<orders, adjusts, restored>>
    BY <1>2 DEF PlanAdjust, adjustVars
  <2>2. stage'[t] = "adjusting" /\ draft'[t] = draft[t] /\ snap'[t] = snap[t]
    BY <1>0, <1>2 DEF PlanAdjust, adjustVars, AmendTypes
  <2>3. Returnable(snap[t], draft[t].order, draft[t].returns)
    BY <1>2 DEF Acceptable
  <2>4. \A o, i : Returned(o, i)' = Returned(o, i)
    BY <2>1, ReturnedStays
  <2>5. StillFits(t)'
    BY <2>2, <2>3, <2>4 DEF StillFits, Returnable, Remaining
  <2> QED
    BY <1>0, <2>1, <2>5, QuietFits
<1>3. CASE PlanVoid(t)
  <2>1. UNCHANGED <<orders, adjusts, restored>>
    BY <1>3 DEF PlanVoid
  <2>2. /\ stage'[t] = "voiding" /\ draft'[t] = draft[t] /\ snap'[t] = snap[t]
        /\ plan'[t] = ToRestore(snap[t], draft[t].order)
    BY <1>0, <1>3 DEF PlanVoid, AmendTypes
  <2>3. \A o, i : Returned(o, i)' = Returned(o, i)
    BY <2>1, ReturnedStays
  <2>4. StillFits(t)'
    BY <2>2, <2>3 DEF StillFits, ToRestore, Remaining
  <2> QED
    BY <1>0, <2>1, <2>4, QuietFits
<1> QED
  BY <1>1, <1>2, <1>3 DEF ReadReturns, ReadRestores

LEMMA OtherFits ==
  ASSUME OrderlyInv, NEW t \in Tx, StepOf(t), Orderly', UNCHANGED <<orders, adjusts, restored>>,
         \/ stage'[t] \in {"counter", "lines", "adjust", "void"}
         \/ pc'[t] \notin Open
         \/ pc[t] \in Open /\ UNCHANGED <<stage, draft, snap, plan>>
  PROVE  OrderlyFits'
<1>1. OrderlyFits
  BY OrderlyBefore
<1>2. \A o, i : Returned(o, i)' = Returned(o, i)
  BY ReturnedStays
<1>3. pc'[t] \in Open => StillFits(t)'
  BY <1>1, <1>2 DEF OrderlyFits, StillFits, Returnable, ToRestore, Remaining
<1> QED
  BY <1>3, QuietFits

LEMMA StepFits ==
  ASSUME OrderlyInv, NEW t \in Tx, StepOf(t), Orderly'
  PROVE  OrderlyFits'
<1>0. AmendTypes /\ StockTypeOK /\ Slots
  BY TypesAreSlots DEF OrderlyInv, AmendInv, StockInv
<1>1. CASE \/ \E s \in Sale : OpenSale(t, s) /\ UNCHANGED adjustVars
           \/ \E a \in Adjustment : OpenAdjust(t, a)
           \/ \E o \in Voidable : OpenVoid(t, o)
  <2>1. stage'[t] \in {"counter", "adjust", "void"} /\ UNCHANGED <<orders, adjusts, restored>>
    BY <1>0, <1>1 DEF OpenSale, OpenAdjust, OpenVoid, AmendTypes, adjustVars
  <2> QED
    BY <2>1, OtherFits
<1>2. CASE RejectSale(t) /\ UNCHANGED adjustVars
  <2>1. pc'[t] \notin Open /\ UNCHANGED <<orders, adjusts, restored>>
    BY <1>0, <1>2 DEF RejectSale, Rollback, adjustVars, StockTypeOK, Open
  <2> QED
    BY <2>1, OtherFits
<1>3. CASE TakeReceipt(t) /\ UNCHANGED adjustVars
  <2>1. stage'[t] = "lines" /\ UNCHANGED <<orders, adjusts, restored>>
    BY <1>0, <1>3 DEF TakeReceipt, AmendTypes, adjustVars
  <2> QED
    BY <2>1, OtherFits
<1>4. CASE (SaleStep(t, Statement(t)) \/ SaleStep(t, Fail(t))) /\ UNCHANGED adjustVars
  <2>1. pc[t] \in Open
    BY <1>0, <1>4, StatementMoves DEF SaleStep
  <2>2. UNCHANGED <<orders, adjusts, restored, stage, draft, snap, plan>>
    BY <1>4 DEF SaleStep, adjustVars
  <2> QED
    BY <2>1, <2>2, OtherFits
<1> QED
  BY <1>1, <1>2, <1>3, <1>4, CommitSaleFits, CommitAdjustFits, CommitVoidFits, DecideFits
     DEF StepOf, OrdersStatement, SaleStatement

LEMMA StutterFits ==
  ASSUME OrderlyInv, UNCHANGED ordersVars, Orderly'
  PROVE  OrderlyFits'
<1> USE DEF ordersVars, salesVars, stockVars, saleVars, adjustVars
<1>1. OrderlyFits
  BY DEF OrderlyInv, Orderly
<1>2. \A o, i : Returned(o, i)' = Returned(o, i)
  BY ReturnedStays
<1>3. \A o : RefundsOf(o)' = RefundsOf(o) /\ AdjustsOf(o)' = AdjustsOf(o)
  BY RefundsQuiet DEF AdjustsOf, Amended
<1>4. \A o \in Orders' : OrderFits(o)'
  BY <1>1, <1>2, <1>3, OrderStays DEF OrderlyFits, Orders, Restored
<1>5. ASSUME NEW t \in Tx, pc'[t] \in Open PROVE StillFits(t)'
  <2>1. StillFits(t) /\ UNCHANGED <<stage, snap, draft, plan>>
    BY <1>1, <1>5 DEF OrderlyFits
  <2>2. \A o, order, i : Remaining(o, order, i)' = Remaining(o, order, i)
    BY <1>2 DEF Remaining
  <2>3. ToRestore(snap[t], draft[t].order)' = ToRestore(snap[t], draft[t].order)
    BY <2>1, <2>2 DEF ToRestore
  <2>4. Returnable(snap[t], draft[t].order, draft[t].returns)
          => Returnable(snap[t], draft[t].order, draft[t].returns)'
    BY <2>1, <2>2 DEF Returnable
  <2> QED
    BY <2>1, <2>3, <2>4 DEF StillFits
<1> QED
  BY <1>4, <1>5 DEF OrderlyFits

LEMMA NextOrderlyInv == OrderlyInv /\ [OrdersNext]_ordersVars => OrderlyInv'
<1> SUFFICES ASSUME OrderlyInv, [OrdersNext]_ordersVars PROVE OrderlyInv'
  OBVIOUS
<1>1. AmendInv' /\ OrdersInv'
  BY NextAmendInv, NextOrdersInv DEF OrderlyInv
<1>2. ASSUME Orderly' PROVE OrderlyFits'
  <2>1. CASE \E t \in Tx : StepOf(t)
    BY <1>2, <2>1, StepFits
  <2>2. CASE UNCHANGED ordersVars
    BY <1>2, <2>2, StutterFits
  <2> QED
    BY <2>1, <2>2 DEF OrdersNext, OrdersTerminating, StepOf
<1> QED
  BY <1>1, <1>2 DEF OrderlyInv

LEMMA OrderlyInitInv == OrdersInit => OrderlyInv
<1> SUFFICES ASSUME OrdersInit PROVE OrderlyInv
  OBVIOUS
<1>0. SalesInit /\ StockInit /\ AmendInv /\ OrdersInv
  BY AmendInitInv, OrdersInitInv DEF OrdersInit, SalesInit
<1>1. ASSUME NEW o \in Orders PROVE OrderFits(o)
  <2>1. o \in Past /\ orders[o] = Placed[o] /\ o \in OrderId
    BY <1>0 DEF Orders, OrderId, SalesInit
  <2>2. Placed[o].status = "COMPLETED" /\ Placed[o].refunded = 0 /\ Placed[o] \in OrderType
    BY <2>1, FreshAssumption, PlacedAssumption
  <2>3. AdjustsOf(o) = {}
    BY DEF AdjustsOf, Amended, OrdersInit
  <2>4. RefundsOf(o) = 0 /\ \A i : Returned(o, i) = 0
    BY <2>3, SumEmpty DEF RefundsOf, Returned
  <2>5. \A i : Restored(o, i) = 0
    <3>1. DOMAIN restored[o] = {}
      BY <2>1 DEF OrdersInit
    <3> QED
      BY <3>1 DEF Restored
  <2>6. \A i \in DOMAIN orders[o].lines : orders[o].lines[i].qty \in Nat
    BY <2>1, <2>2, OrderTypes, LinesTypes
  <2>7. BackOnce(o) /\ OnlyVoidsRestore(o) /\ AllBack(o)
    BY <2>1, <2>2, <2>4, <2>5, <2>6 DEF BackOnce, OnlyVoidsRestore, AllBack
  <2>8. StatusFits(o)
    BY <2>1, <2>2, <2>4 DEF StatusFits
  <2> QED
    BY <2>7, <2>8 DEF OrderFits
<1>2. \A t \in Tx : pc[t] \notin Open
  BY <1>0 DEF StockInit, Open
<1> QED
  BY <1>0, <1>1, <1>2 DEF OrderlyInv, OrderlyFits

(* The inductive invariant of requests that do not overlap.                *)
THEOREM OrdersOrderly == OrdersSpec => []OrderlyInv
BY OrderlyInitInv, NextOrderlyInv, PTL DEF OrdersSpec

(* However many returns, write-offs, exchanges and voids follow one        *)
(* another, no unit comes back twice.                                      *)
THEOREM OrdersUnits == OrdersSpec => []UnitsComeBackOnce
<1>1. OrderlyInv => UnitsComeBackOnce
  BY DEF OrderlyInv, OrderlyFits, OrderFits, BackOnce, UnitsComeBackOnce
<1> QED
  BY <1>1, OrdersOrderly, PTL

(* After a void every unit of a priced order is back, whatever was         *)
(* returned before.                                                        *)
THEOREM OrdersComeBack == OrdersSpec => []CancelledOrdersComeBack
<1>1. OrderlyInv => CancelledOrdersComeBack
  BY DEF OrderlyInv, OrderlyFits, OrderFits, AllBack, CancelledOrdersComeBack
<1> QED
  BY <1>1, OrdersOrderly, PTL

(* refundedTotal is the sum of the refunds as they were rounded, the       *)
(* status of a live order follows from it, PARTIALLY_REFUNDED with the     *)
(* whole total paid back takes a unit that is not worth whole cents, and   *)
(* REFUNDED leaves out no more than roundings may hide.                    *)
THEOREM OrdersStatus == OrdersSpec => []StatusFollowsRefunds
<1>1. OrderlyInv => StatusFollowsRefunds
  BY DEF OrderlyInv, OrderlyFits, OrderFits, StatusFits, StatusFollowsRefunds
<1> QED
  BY <1>1, OrdersOrderly, PTL

-----------------------------------------------------------------------------
(* What the documents of one request say of row r, and the steps that move *)
(* the stock so.                                                           *)
LEMMA SoldInTypes ==
  ASSUME NEW lines \in Seq(Line), NEW r
  PROVE  /\ SoldIn(lines, r) \in Nat
         /\ Effect(TakeOut(lines), r) = -SoldIn(lines, r)
<1> DEFINE I == DOMAIN lines
           T == {i \in I : lines[i].row = r}
           f == [i \in I |-> lines[i].qty]
           g == [i \in I |-> IF lines[i].row = r THEN lines[i].qty ELSE 0]
           h == [i \in DOMAIN TakeOut(lines) |-> Moves(TakeOut(lines)[i], r)]
<1>1. IsFiniteSet(I) /\ \A i \in I : lines[i].qty \in Nat
  BY LinesTypes
<1>2. T \in SUBSET I /\ NatValued(f, T) /\ IntValued(f, T) /\ IntValued(g, I)
      /\ (\A i \in T : g[i] = f[i]) /\ (\A i \in I \ T : g[i] = 0)
  BY <1>1 DEF NatValued, IntValued
<1>3. DOMAIN TakeOut(lines) = I
  BY DEF TakeOut
<1>4. \A i \in I : h[i] = g[i] * (-1)
  BY <1>1, <1>3 DEF TakeOut, Moves
<1>5. SoldIn(lines, r) = SumFunctionOnSet(f, T) /\ Effect(TakeOut(lines), r) = SumFunctionOnSet(h, I)
  BY <1>3 DEF SoldIn, Effect
<1> HIDE DEF f, g, h, T, I
<1>6. SumFunctionOnSet(g, I) = SumFunctionOnSet(f, T)
  BY <1>1, <1>2, SumWhere
<1>7. SumFunctionOnSet(h, I) = SumFunctionOnSet(g, I) * (-1)
  BY <1>1, <1>2, <1>4, SumTimes
<1>8. SumFunctionOnSet(f, T) \in Nat
  BY <1>1, <1>2, SumNat, FS_Subset
<1> QED
  BY <1>5, <1>6, <1>7, <1>8

LEMMA RestockedByTypes ==
  ASSUME NEW order, order.lines \in Seq(Line), NEW a \in Adjustment,
         Within(a.returns, order.lines), NEW r
  PROVE  /\ RestockedBy(order, a, r) \in Nat
         /\ Effect(PutBack(order, a.returns), r) = RestockedBy(order, a, r)
<1> DEFINE steps == ReturnSteps(order, a.returns)
           K == DOMAIN a.returns
           I == {k \in K : a.returns[k].restock}
           T == {k \in K : a.returns[k].restock /\ order.lines[a.returns[k].item].row = r}
           f == [k \in K |-> a.returns[k].qty]
           g == KeptMoves(steps, I, r)
<1>1. a.returns \in Seq(ReturnLine) /\ steps \in Seq(Step) /\ DOMAIN steps = K
  BY AdjustmentTypes, ReturnStepsTypes DEF ReturnSteps
<1>2. IsFiniteSet(K) /\ \A k \in K : a.returns[k].qty \in Nat
  BY <1>1, ReturnsTypes
<1>3. T \in SUBSET K /\ NatValued(f, T) /\ IntValued(f, T)
  BY <1>2 DEF NatValued, IntValued
<1>4. (\A k \in T : g[k] = f[k]) /\ (\A k \in K \ T : g[k] = 0)
  BY <1>1 DEF KeptMoves, ReturnSteps, Moves
<1>5. Effect(PutBack(order, a.returns), r) = SumFunctionOnSet(g, K)
  <2>1. PutBack(order, a.returns) = Kept(steps, I)
    BY DEF PutBack
  <2> HIDE DEF steps, I
  <2> QED
    BY <1>1, <2>1, KeptEffect
<1>6. RestockedBy(order, a, r) = SumFunctionOnSet(f, T)
  BY DEF RestockedBy
<1> HIDE DEF f, g, T, K, I, steps
<1>7. SumFunctionOnSet(f, T) \in Nat
  BY <1>2, <1>3, SumNat, FS_Subset
<1>8. SumFunctionOnSet(g, K) = SumFunctionOnSet(f, T)
  BY <1>2, <1>3, <1>4, SumWhere
<1> QED
  BY <1>5, <1>6, <1>7, <1>8

(* What a void plans to put back of row r.                                 *)
PutBackOf(lines, back, r) ==
  SumFunctionOnSet([i \in DOMAIN lines |-> back[i]], {i \in DOMAIN lines : lines[i].row = r})

LEMMA VoidEffect ==
  ASSUME NEW order, order.lines \in Seq(Line), NEW back \in Seq(Nat),
         DOMAIN back = DOMAIN order.lines, VoidSteps(order, back) \in Seq(Step), NEW r
  PROVE  Effect(Kept(VoidSteps(order, back), {i \in DOMAIN back : back[i] > 0}), r)
           = PutBackOf(order.lines, back, r)
<1> DEFINE steps == VoidSteps(order, back)
           K == DOMAIN order.lines
           I == {i \in DOMAIN back : back[i] > 0}
           T == {i \in K : order.lines[i].row = r}
           f == [i \in K |-> back[i]]
           g == KeptMoves(steps, I, r)
<1>1. IsFiniteSet(K) /\ \A i \in K : back[i] \in Nat
  BY LinesTypes
<1>2. T \in SUBSET K /\ IntValued(f, T)
  BY <1>1 DEF IntValued
<1>3. DOMAIN steps = K
  BY DEF VoidSteps
<1>4. (\A i \in T : g[i] = f[i]) /\ (\A i \in K \ T : g[i] = 0)
  BY <1>1, <1>3 DEF KeptMoves, VoidSteps, Moves
<1>5. Effect(Kept(steps, I), r) = SumFunctionOnSet(g, K)
  <2> HIDE DEF steps, I
  <2> QED
    BY <1>3, KeptEffect DEF steps
<1>6. PutBackOf(order.lines, back, r) = SumFunctionOnSet(f, T)
  BY DEF PutBackOf
<1> HIDE DEF f, g, T, K
<1> QED
  BY <1>1, <1>2, <1>4, <1>5, <1>6, SumWhere

-----------------------------------------------------------------------------
(* The movements of a transaction: what it has posted and what its steps   *)
(* still post is what its documents say.                                   *)
Owed(t) ==
  CASE stage[t] = "lines" -> TakeOut(sale[t].lines)
    [] stage[t] = "adjusting" -> PutBack(snap[t], draft[t].returns) \o TakeOut(draft[t].sales)
    [] stage[t] = "voiding" ->
         Kept(VoidSteps(snap[t], plan[t]), {i \in DOMAIN plan[t] : plan[t][i] > 0})
    [] OTHER -> <<>>

Posting(t) ==
  IF pc[t] \in Open
  THEN /\ Adjusts(todo[t])
       /\ stage[t] \in {"counter", "adjust", "void"} => todo[t] = <<>>
       /\ \A r \in Row : posted[t][r] + Effect(todo[t], r) = Effect(Owed(t), r)
  ELSE posted[t] = NoMoves

PostingInv == AmendInv /\ \A t \in Tx : Posting(t)

LEMMA StatementAborts ==
  ASSUME StockTypeOK, NEW t \in Tx, Statement(t), pc'[t] = "aborted"
  PROVE  Rollback(t)
BY DEF Statement, StockTypeOK, ZeroDelta, UpsertFound, UpsertMissing, UpsertInsert, UpsertConflict,
       AdjustWrite, Insufficient, CountCompare, SetReorder, DeadlockAbort, At

LEMMA StatementOthers ==
  ASSUME StockTypeOK, NEW t \in Tx, Statement(t), NEW u \in Tx \ {t}
  PROVE  posted'[u] = posted[u] /\ todo'[u] = todo[u] /\ moved' = moved
BY DEF Statement, StockTypeOK, ZeroDelta, UpsertFound, UpsertMissing, UpsertInsert, UpsertConflict,
       AdjustWrite, Insufficient, CountCompare, SetReorder, DeadlockAbort, Rollback

(* The others post nothing meanwhile.                                      *)
LEMMA OthersPost ==
  ASSUME StockTypeOK, AmendTypes, NEW t \in Tx, StepOf(t), NEW u \in Tx \ {t}, Posting(u)
  PROVE  Posting(u)'
<1>1. Local(u)' = Local(u)
  BY OthersKeep
<1>2. posted'[u] = posted[u] /\ todo'[u] = todo[u]
  <2>1. CASE \/ \E s \in Sale : OpenSale(t, s)
             \/ \E a \in Adjustment : OpenAdjust(t, a)
             \/ \E o \in Voidable : OpenVoid(t, o)
    BY <2>1 DEF OpenSale, OpenAdjust, OpenVoid, Begin, StockTypeOK
  <2>2. CASE RejectSale(t) \/ TakeReceipt(t) \/ CommitSale(t) \/ SaleStep(t, Fail(t))
    BY <2>2 DEF RejectSale, TakeReceipt, CommitSale, SaleStep, Fail, Rollback, Adjusting, Commit,
                StockTypeOK
  <2>3. CASE SaleStep(t, Statement(t))
    BY <2>3, StatementOthers DEF SaleStep
  <2>4. CASE ReadReturns(t) \/ ReadRestores(t) \/ CommitAdjust(t) \/ CommitVoid(t)
    BY <2>4 DEF ReadReturns, ReadRestores, CommitAdjust, CommitVoid, PlanAdjust, PlanVoid, Refuse,
                Rollback, Adjusting, Commit, StockTypeOK
  <2> QED
    BY <2>1, <2>2, <2>3, <2>4 DEF StepOf, OrdersStatement, SaleStatement
<1>3. /\ pc'[u] = pc[u] /\ stage'[u] = stage[u] /\ sale'[u] = sale[u]
      /\ draft'[u] = draft[u] /\ snap'[u] = snap[u] /\ plan'[u] = plan[u]
  BY <1>1 DEF Local
<1>4. Owed(u)' = Owed(u)
  BY <1>3 DEF Owed, PutBack, ReturnSteps, VoidSteps
<1> QED
  BY <1>2, <1>3, <1>4 DEF Posting

(* The plan of a handler is what its transaction will post.                *)
LEMMA PlanPosts ==
  ASSUME StockTypeOK, NEW t \in Tx, Posting(t), pc[t] = "read",
         stage[t] \in {"counter", "adjust", "void"}, NEW q, Adjusting(t, q), Adjusts(q),
         stage'[t] \in Decided \cup {"lines"}, Owed(t)' = q, q \in Seq(Step)
  PROVE  Posting(t)'
<1>1. todo[t] = <<>> /\ (\A r \in Row : posted[t][r] + Effect(todo[t], r) = Effect(Owed(t), r))
  BY DEF Posting, Open
<1>2. Owed(t) = <<>>
  BY DEF Owed
<1>3. \A r \in Row : posted[t][r] = 0
  BY <1>1, <1>2, EffectEmpty DEF StockTypeOK
<1>4. pc'[t] \in Open /\ todo'[t] = q /\ posted' = posted
  BY DEF Adjusting, StockTypeOK, Open
<1>5. \A r \in Row : Effect(q, r) \in Int
  BY EffectTypes
<1>6. stage'[t] \notin {"counter", "adjust", "void"}
  BY DEF Decided
<1> QED
  BY <1>3, <1>4, <1>5, <1>6 DEF Posting

LEMMA StepPosts ==
  ASSUME PostingInv, NEW t \in Tx, StepOf(t)
  PROVE  PostingInv'
<1>0. AmendInv /\ StockInv /\ StockTypeOK /\ AmendTypes /\ Recorded /\ Posting(t)
      /\ AmendInv' /\ StockTypeOK' /\ AmendTypes'
  BY StepAmends DEF PostingInv, AmendInv, StockInv
<1>1. CASE \/ \E s \in Sale : OpenSale(t, s)
           \/ \E a \in Adjustment : OpenAdjust(t, a)
           \/ \E o \in Voidable : OpenVoid(t, o)
  <2>1. pc[t] = "idle" /\ pc'[t] = "read" /\ todo'[t] = <<>> /\ posted' = posted
    BY <1>0, <1>1 DEF OpenSale, OpenAdjust, OpenVoid, Begin, StockTypeOK
  <2>2. stage'[t] \in {"counter", "adjust", "void"}
    BY <1>0, <1>1 DEF OpenSale, OpenAdjust, OpenVoid, AmendTypes
  <2>3. Owed(t)' = <<>>
    BY <2>2 DEF Owed
  <2>4. posted'[t] = NoMoves
    BY <1>0, <2>1 DEF Posting, Open
  <2>5. \A r \in Row : posted'[t][r] = 0
    BY <2>4 DEF NoMoves
  <2>6. Posting(t)'
    BY <2>1, <2>3, <2>5, EffectEmpty DEF Posting, Open, Adjusts
  <2> QED
    BY <1>0, <2>6, OthersPost DEF PostingInv
<1>2. CASE Rollback(t)
  <2>1. pc'[t] = "aborted" /\ posted'[t] = NoMoves
    BY <1>0, <1>2 DEF Rollback, StockTypeOK
  <2>2. Posting(t)'
    BY <2>1 DEF Posting, Open
  <2> QED
    BY <1>0, <2>2, OthersPost DEF PostingInv
<1>3. CASE Commit(t)
  <2>1. pc'[t] = "committed" /\ posted'[t] = NoMoves
    BY <1>0, <1>3 DEF Commit, StockTypeOK
  <2>2. Posting(t)'
    BY <2>1 DEF Posting, Open
  <2> QED
    BY <1>0, <2>2, OthersPost DEF PostingInv
<1>4. CASE TakeReceipt(t) /\ UNCHANGED adjustVars
  <2>1. /\ pc[t] = "read" /\ stage[t] = "counter" /\ Adjusting(t, TakeOut(sale[t].lines))
        /\ stage'[t] = "lines" /\ sale' = sale
    BY <1>0, <1>4 DEF TakeReceipt, AmendTypes
  <2>2. sale[t] \in Sale
    BY <1>0, <2>1 DEF AmendInv, Handled, Handling, Open
  <2>3. sale[t].lines \in Seq(Line)
    BY <2>2, SaleAssumption DEF SaleType
  <2>4. Owed(t)' = TakeOut(sale[t].lines)
    BY <2>1 DEF Owed
  <2>5. TakeOut(sale[t].lines) \in Seq(Step) /\ Adjusts(TakeOut(sale[t].lines))
    BY <2>3, TakeOutSteps
  <2>6. Posting(t)'
    BY <1>0, <2>1, <2>4, <2>5, PlanPosts
  <2> QED
    BY <1>0, <2>6, OthersPost DEF PostingInv
<1>5. CASE ReadReturns(t) /\ Acceptable(t) /\ PlanAdjust(t)
  <2> DEFINE q == PutBack(snap[t], draft[t].returns) \o TakeOut(draft[t].sales)
  <2>1. /\ pc[t] = "read" /\ stage[t] = "adjust" /\ Adjusting(t, q)
        /\ stage'[t] = "adjusting" /\ draft' = draft /\ snap' = snap
    BY <1>0, <1>5 DEF ReadReturns, PlanAdjust, AmendTypes, adjustVars
  <2>2. draft[t] \in Adjustment
    BY <1>0, <2>1 DEF AmendInv, Handled, Handling, Open
  <2>3. /\ draft[t].returns \in Seq(ReturnLine) /\ draft[t].sales \in Seq(Line)
        /\ snap[t] \in OrderType /\ Within(draft[t].returns, snap[t].lines)
    BY <1>0, <1>5, <2>2, AdjustmentTypes DEF Acceptable, Returnable, Within, AmendTypes
  <2>4. q \in Seq(Step) /\ Adjusts(q)
    BY <2>3, OrderTypes, PutBackTypes
  <2>5. Owed(t)' = q
    BY <2>1 DEF Owed, PutBack, ReturnSteps
  <2>6. Posting(t)'
    <3> HIDE DEF q
    <3> QED
      BY <1>0, <2>1, <2>4, <2>5, PlanPosts DEF Decided
  <2> QED
    BY <1>0, <2>6, OthersPost DEF PostingInv
<1>6. CASE ReadRestores(t) /\ snap[t] # NoOrder /\ PlanVoid(t)
  <2> DEFINE back == ToRestore(snap[t], draft[t].order)
             steps == VoidSteps(snap[t], back)
             q == Kept(steps, {i \in DOMAIN back : back[i] > 0})
  <2>1. /\ pc[t] = "read" /\ stage[t] = "void" /\ Adjusting(t, q) /\ plan'[t] = back
        /\ stage'[t] = "voiding" /\ draft' = draft /\ snap' = snap
    BY <1>0, <1>6 DEF ReadRestores, PlanVoid, VoidSteps, AmendTypes
  <2>2. snap[t].lines \in Seq(Line)
    BY <1>0, <1>6, OrderTypes DEF AmendTypes
  <2>3. steps \in Seq(Step) /\ Adjusts(steps)
    BY <1>0, <2>2, RestoreTypes
  <2>4. q \in Seq(Step) /\ Adjusts(q)
    <3> HIDE DEF steps, back
    <3> QED
      BY <2>3, KeptEffect
  <2>5. Owed(t)' = q
    BY <2>1 DEF Owed, VoidSteps
  <2>6. Posting(t)'
    <3> HIDE DEF q
    <3> QED
      BY <1>0, <2>1, <2>4, <2>5, PlanPosts DEF Decided
  <2> QED
    BY <1>0, <2>6, OthersPost DEF PostingInv
<1>7. CASE SaleStep(t, Statement(t)) /\ UNCHANGED adjustVars /\ pc'[t] # "aborted"
  <2>1. pc[t] \in Open
    BY <1>0, <1>7, TypesAreSlots, StatementMoves DEF SaleStep
  <2>2. /\ Adjusts(todo[t]) /\ Statement(t)
        /\ \A r \in Row : posted[t][r] + Effect(todo[t], r) = Effect(Owed(t), r)
    BY <1>0, <1>7, <2>1 DEF Posting, SaleStep
  <2>3. /\ \A r \in Row : posted'[t][r] + Effect(todo'[t], r) = posted[t][r] + Effect(todo[t], r)
        /\ Adjusts(todo'[t]) /\ pc'[t] \in Open
    BY <1>0, <1>7, <2>2, StatementEffect
  <2>4. stage' = stage /\ sale' = sale /\ draft' = draft /\ snap' = snap /\ plan' = plan
    BY <1>7 DEF SaleStep, adjustVars
  <2>5. Owed(t)' = Owed(t)
    BY <2>4 DEF Owed, PutBack, ReturnSteps, VoidSteps
  <2>6. stage[t] \notin {"counter", "adjust", "void"}
    <3> SUFFICES ASSUME todo[t] = <<>> PROVE FALSE
      BY <1>0, <2>1 DEF Posting
    <3> QED
      BY <1>0, <1>7, <2>1, <2>2 DEF Rollback, StockTypeOK, Statement, ZeroDelta, UpsertFound, UpsertMissing, Upserting, UpsertInsert,
                        UpsertConflict, AdjustWrite, Insufficient, CountCompare, SetReorder,
                        DeadlockAbort, At
  <2>7. Posting(t)'
    BY <2>2, <2>3, <2>4, <2>5, <2>6 DEF Posting
  <2> QED
    BY <1>0, <2>7, OthersPost DEF PostingInv
<1>8. CASE SaleStep(t, Statement(t)) /\ pc'[t] = "aborted"
  BY <1>0, <1>2, <1>8, StatementAborts DEF SaleStep
<1>9. CASE RejectSale(t) \/ Refuse(t) \/ SaleStep(t, Fail(t))
  BY <1>2, <1>9 DEF RejectSale, Refuse, SaleStep, Fail
<1>10. CASE CommitSale(t) \/ CommitAdjust(t) \/ CommitVoid(t)
  BY <1>3, <1>10 DEF CommitSale, CommitAdjust, CommitVoid
<1> QED
  BY <1>1, <1>4, <1>5, <1>6, <1>7, <1>8, <1>9, <1>10
     DEF StepOf, OrdersStatement, SaleStatement, ReadReturns, ReadRestores

LEMMA NextPostingInv == PostingInv /\ [OrdersNext]_ordersVars => PostingInv'
<1> SUFFICES ASSUME PostingInv, [OrdersNext]_ordersVars PROVE PostingInv'
  OBVIOUS
<1>1. CASE \E t \in Tx : StepOf(t)
  BY <1>1, StepPosts
<1>2. CASE UNCHANGED ordersVars
  <2>1. AmendInv'
    BY <1>2, StutterAmends DEF PostingInv
  <2>2. UNCHANGED <<pc, posted, todo, stage, sale, draft, snap, plan>>
    BY <1>2 DEF ordersVars, salesVars, stockVars, saleVars, adjustVars
  <2>3. ASSUME NEW t \in Tx PROVE Posting(t)'
    <3>1. Owed(t)' = Owed(t)
      BY <2>2 DEF Owed, PutBack, ReturnSteps, VoidSteps
    <3> QED
      BY <2>2, <3>1 DEF PostingInv, Posting
  <2> QED
    BY <2>1, <2>3 DEF PostingInv
<1> QED
  BY <1>1, <1>2 DEF OrdersNext, OrdersTerminating, StepOf

LEMMA PostingInitInv == OrdersInit => PostingInv
BY AmendInitInv DEF PostingInv, Posting, OrdersInit, SalesInit, StockInit, Open

-----------------------------------------------------------------------------
(* The documents of all requests.                                          *)
SoldBy(r) == [o \in Orders |-> SoldIn(orders[o].lines, r)]
VoidedOf(o, r) ==
  SumFunctionOnSet([i \in DOMAIN orders[o].lines |-> Restored(o, i)],
                   {i \in DOMAIN orders[o].lines : orders[o].lines[i].row = r})
VoidedBy(r) == [o \in Orders |-> VoidedOf(o, r)]
ResoldBy(r) == [t \in Amended |-> SoldIn(adjusts[t].sales, r)]
RestockedFor(r) == [t \in Amended |-> RestockedBy(orders[adjusts[t].order], adjusts[t], r)]

LEMMA OrderKnown ==
  ASSUME AmendTypes, NEW o \in Orders
  PROVE  o \in OrderId /\ orders[o] \in OrderType /\ orders[o].lines \in Seq(Line)
BY OrderTypes DEF AmendTypes, Orders

LEMMA AmendedKnown ==
  ASSUME AmendTypes, Recorded, NEW t \in Amended
  PROVE  /\ t \in Tx /\ adjusts[t] \in Adjustment /\ adjusts[t].sales \in Seq(Line)
         /\ adjusts[t].order \in OrderId /\ orders[adjusts[t].order] # NoOrder
         /\ orders[adjusts[t].order].lines \in Seq(Line)
         /\ Within(adjusts[t].returns, orders[adjusts[t].order].lines)
<1>1. t \in Tx /\ adjusts[t] \in Adjustment
  BY DEF AmendTypes, Amended
<1>2. adjusts[t].order \in OrderId /\ adjusts[t].sales \in Seq(Line)
  BY <1>1, AdjustmentTypes
<1>3. orders[adjusts[t].order] # NoOrder /\ Within(adjusts[t].returns, orders[adjusts[t].order].lines)
  BY DEF Recorded
<1>4. orders[adjusts[t].order] \in OrderType
  BY <1>2, <1>3 DEF AmendTypes
<1> QED
  BY <1>1, <1>2, <1>3, <1>4, OrderTypes

LEMMA DocumentedTypes ==
  ASSUME AmendTypes, Recorded, NEW r
  PROVE  /\ IsFiniteSet(Orders) /\ IsFiniteSet(Amended)
         /\ IntValued(SoldBy(r), Orders) /\ IntValued(VoidedBy(r), Orders)
         /\ IntValued(ResoldBy(r), Amended) /\ IntValued(RestockedFor(r), Amended)
         /\ SoldTotal(r) = SumFunctionOnSet(SoldBy(r), Orders) /\ SoldTotal(r) \in Int
         /\ VoidedIn(r) = SumFunctionOnSet(VoidedBy(r), Orders) /\ VoidedIn(r) \in Int
         /\ Resold(r) = SumFunctionOnSet(ResoldBy(r), Amended) /\ Resold(r) \in Int
         /\ Restocked(r) = SumFunctionOnSet(RestockedFor(r), Amended) /\ Restocked(r) \in Int
<1>0. IsFiniteSet(Orders) /\ IsFiniteSet(Amended)
  BY DEF Recorded
<1>1. IntValued(SoldBy(r), Orders)
  BY OrderKnown, SoldInTypes DEF IntValued, SoldBy
<1>2. IntValued(VoidedBy(r), Orders)
  <2> SUFFICES ASSUME NEW o \in Orders PROVE VoidedOf(o, r) \in Int
    BY DEF IntValued, VoidedBy
  <2> DEFINE I == DOMAIN orders[o].lines
             f == [i \in I |-> Restored(o, i)]
             T == {i \in I : orders[o].lines[i].row = r}
  <2>1. o \in OrderId /\ IsFiniteSet(I)
    BY OrderKnown, LinesTypes
  <2>2. IsFiniteSet(T) /\ IntValued(f, T)
    BY <2>1, RestoredTypes, FS_Subset DEF IntValued
  <2>3. VoidedOf(o, r) = SumFunctionOnSet(f, T)
    BY DEF VoidedOf
  <2> HIDE DEF f, T
  <2> QED
    BY <2>2, <2>3, SumInt
<1>3. IntValued(ResoldBy(r), Amended)
  BY AmendedKnown, SoldInTypes DEF IntValued, ResoldBy
<1>4. IntValued(RestockedFor(r), Amended)
  BY AmendedKnown, RestockedByTypes DEF IntValued, RestockedFor
<1>5. SoldTotal(r) = SumFunctionOnSet(SoldBy(r), Orders)
  BY DEF SoldTotal, SoldBy
<1>6. VoidedIn(r) = SumFunctionOnSet(VoidedBy(r), Orders)
  BY DEF VoidedIn, VoidedBy, VoidedOf
<1>7. Resold(r) = SumFunctionOnSet(ResoldBy(r), Amended)
  BY DEF Resold, ResoldBy
<1>8. Restocked(r) = SumFunctionOnSet(RestockedFor(r), Amended)
  BY DEF Restocked, RestockedFor
<1> QED
  BY <1>0, <1>1, <1>2, <1>3, <1>4, <1>5, <1>6, <1>7, <1>8, SumInt

(* How the documents change with the tables.                               *)
LEMMA SoldStays ==
  ASSUME AmendTypes, Recorded, ItemsStay, Orders' = Orders, NEW r
  PROVE  SoldTotal(r)' = SoldTotal(r)
<1> DEFINE g == [o \in Orders' |-> SoldIn(orders'[o].lines, r)]
<1>1. SoldTotal(r)' = SumFunctionOnSet(g, Orders)
  BY DEF SoldTotal
<1>2. \A o \in Orders : SoldBy(r)[o] = g[o]
  BY DEF ItemsStay, SoldBy, Orders, SameItems
<1> HIDE DEF g
<1> QED
  BY <1>1, <1>2, DocumentedTypes, SumSame

LEMMA SoldGrows ==
  ASSUME AmendTypes, Recorded, ItemsStay, NEW t, t \notin Orders, Orders' = Orders \cup {t},
         orders'[t].lines \in Seq(Line), NEW r
  PROVE  SoldTotal(r)' = SoldTotal(r) + SoldIn(orders'[t].lines, r)
<1> DEFINE g == [o \in Orders' |-> SoldIn(orders'[o].lines, r)]
<1>1. SoldTotal(r)' = SumFunctionOnSet(g, Orders \cup {t})
  BY DEF SoldTotal
<1>2. \A o \in Orders : g[o] = SoldBy(r)[o]
  BY DEF ItemsStay, SoldBy, Orders, SameItems
<1>3. g[t] = SoldIn(orders'[t].lines, r) /\ g[t] \in Int
  BY SoldInTypes
<1> HIDE DEF g
<1>4. SumFunctionOnSet(g, Orders \cup {t}) = SumFunctionOnSet(SoldBy(r), Orders) + g[t]
  <2>1. IsFiniteSet(Orders) /\ IntValued(SoldBy(r), Orders)
    BY DocumentedTypes
  <2> QED
    BY ONLY <1>2, <1>3, <2>1, t \notin Orders, SumGrow
<1> QED
  BY <1>1, <1>3, <1>4, DocumentedTypes

LEMMA AmendedStay ==
  ASSUME AmendTypes, Recorded, ItemsStay, adjusts' = adjusts, NEW r
  PROVE  Resold(r)' = Resold(r) /\ Restocked(r)' = Restocked(r)
<1> DEFINE g == [u \in Amended' |-> RestockedBy(orders'[adjusts'[u].order], adjusts'[u], r)]
<1>1. Amended' = Amended
  BY DEF Amended
<1>2. Restocked(r)' = SumFunctionOnSet(g, Amended)
  BY <1>1 DEF Restocked
<1>3. \A u \in Amended : RestockedFor(r)[u] = g[u]
  <2> SUFFICES ASSUME NEW u \in Amended
               PROVE  RestockedBy(orders[adjusts[u].order], adjusts[u], r)
                        = RestockedBy(orders'[adjusts[u].order], adjusts[u], r)
    BY <1>1 DEF RestockedFor
  <2>1. orders'[adjusts[u].order].lines = orders[adjusts[u].order].lines
    BY AmendedKnown DEF ItemsStay, SameItems
  <2> QED
    BY <2>1 DEF RestockedBy
<1> HIDE DEF g
<1>4. Restocked(r)' = Restocked(r)
  BY <1>2, <1>3, DocumentedTypes, SumSame
<1>5. Resold(r)' = Resold(r)
  BY <1>1 DEF Resold
<1> QED
  BY <1>4, <1>5

LEMMA AmendedGrow ==
  ASSUME AmendTypes, Recorded, ItemsStay, NEW t \in Tx, adjusts[t] = NoOrder,
         NEW a \in Adjustment, adjusts' = [adjusts EXCEPT ![t] = a],
         orders[a.order] # NoOrder, Within(a.returns, orders[a.order].lines), NEW r
  PROVE  /\ Resold(r)' = Resold(r) + SoldIn(a.sales, r)
         /\ Restocked(r)' = Restocked(r) + RestockedBy(orders[a.order], a, r)
<1> DEFINE g == [u \in Amended' |-> RestockedBy(orders'[adjusts'[u].order], adjusts'[u], r)]
           h == [u \in Amended' |-> SoldIn(adjusts'[u].sales, r)]
<1>0. /\ a # NoOrder /\ a.order \in OrderId /\ a.sales \in Seq(Line)
      /\ orders[a.order].lines \in Seq(Line)
  BY AdjustmentTypes, OrderTypes DEF AmendTypes
<1>1. /\ adjusts'[t] = a /\ (\A u \in Amended : adjusts'[u] = adjusts[u] /\ u \in Tx)
      /\ t \notin Amended /\ Amended' = Amended \cup {t}
  BY <1>0 DEF Amended, AmendTypes
<1>2. \A u : orders[u] # NoOrder /\ u \in OrderId => orders'[u].lines = orders[u].lines
  BY DEF ItemsStay, SameItems
<1>3. /\ Restocked(r)' = SumFunctionOnSet(g, Amended \cup {t})
      /\ Resold(r)' = SumFunctionOnSet(h, Amended \cup {t})
  BY <1>1 DEF Restocked, Resold
<1>4. \A u \in Amended : g[u] = RestockedFor(r)[u] /\ h[u] = ResoldBy(r)[u]
  <2> SUFFICES ASSUME NEW u \in Amended
               PROVE  /\ RestockedBy(orders'[adjusts[u].order], adjusts[u], r)
                           = RestockedBy(orders[adjusts[u].order], adjusts[u], r)
    BY <1>1 DEF RestockedFor, ResoldBy
  <2>1. orders'[adjusts[u].order].lines = orders[adjusts[u].order].lines
    BY <1>2, AmendedKnown
  <2> QED
    BY <2>1 DEF RestockedBy
<1>5. g[t] = RestockedBy(orders[a.order], a, r) /\ g[t] \in Int
  <2>1. orders'[a.order].lines = orders[a.order].lines
    BY <1>0, <1>2
  <2>2. RestockedBy(orders'[a.order], a, r) = RestockedBy(orders[a.order], a, r)
    BY <2>1 DEF RestockedBy
  <2>3. RestockedBy(orders[a.order], a, r) \in Int
    BY <1>0, RestockedByTypes
  <2> QED
    BY <1>1, <2>2, <2>3
<1>6. h[t] = SoldIn(a.sales, r) /\ h[t] \in Int
  BY <1>0, <1>1, SoldInTypes
<1> HIDE DEF g, h
<1>7. SumFunctionOnSet(g, Amended \cup {t}) = SumFunctionOnSet(RestockedFor(r), Amended) + g[t]
  <2>1. IsFiniteSet(Amended) /\ IntValued(RestockedFor(r), Amended)
    BY DocumentedTypes
  <2> QED
    BY ONLY <1>1, <1>4, <1>5, <2>1, SumGrow
<1>8. SumFunctionOnSet(h, Amended \cup {t}) = SumFunctionOnSet(ResoldBy(r), Amended) + h[t]
  <2>1. IsFiniteSet(Amended) /\ IntValued(ResoldBy(r), Amended)
    BY DocumentedTypes
  <2> QED
    BY ONLY <1>1, <1>4, <1>6, <2>1, SumGrow
<1> QED
  BY <1>3, <1>5, <1>6, <1>7, <1>8, DocumentedTypes

LEMMA VoidedStay ==
  ASSUME AmendTypes, Recorded, ItemsStay, restored' = restored, NEW r,
         \/ Orders' = Orders
         \/ \E t \in OrderId : /\ orders[t] = NoOrder /\ Orders' = Orders \cup {t}
                               /\ orders'[t].lines \in Seq(Line)
  PROVE  VoidedIn(r)' = VoidedIn(r)
<1> DEFINE g == [o \in Orders' |-> VoidedOf(o, r)']
<1>1. VoidedIn(r)' = SumFunctionOnSet(g, Orders')
  BY DEF VoidedIn, VoidedOf
<1>2. \A o \in Orders : VoidedOf(o, r)' = VoidedOf(o, r) /\ o \in Orders'
  BY DEF VoidedOf, Restored, ItemsStay, Orders, SameItems
<1>3. \A o \in Orders : g[o] = VoidedBy(r)[o]
  BY <1>2 DEF VoidedBy
<1> HIDE DEF g
<1>4. CASE Orders' = Orders
  BY <1>1, <1>3, <1>4, DocumentedTypes, SumSame
<1>5. ASSUME NEW t \in OrderId, orders[t] = NoOrder, Orders' = Orders \cup {t},
             orders'[t].lines \in Seq(Line)
      PROVE  VoidedIn(r)' = VoidedIn(r)
  <2>1. DOMAIN restored[t] = {} /\ t \notin Orders
    BY <1>5 DEF Recorded, Orders
  <2>2. \A i : Restored(t, i)' = 0
    BY <2>1 DEF Restored
  <2>3. g[t] = VoidedOf(t, r)'
    BY <1>5 DEF g
  <2>4. VoidedOf(t, r)' = 0
    <3> DEFINE f == [i \in DOMAIN orders'[t].lines |-> Restored(t, i)']
               T == {i \in DOMAIN orders'[t].lines : orders'[t].lines[i].row = r}
    <3>1. VoidedOf(t, r)' = SumFunctionOnSet(f, T)
      BY DEF VoidedOf
    <3>2. \A i \in T : f[i] = 0
      BY <2>2
    <3>3. IsFiniteSet(T)
      BY <1>5, LinesTypes, FS_Subset
    <3> HIDE DEF f, T
    <3> QED
      BY <3>1, <3>2, <3>3, SumZero
  <2>5. IsFiniteSet(Orders) /\ IntValued(VoidedBy(r), Orders) /\ VoidedIn(r) \in Int
        /\ VoidedIn(r) = SumFunctionOnSet(VoidedBy(r), Orders)
    BY DocumentedTypes
  <2>6. SumFunctionOnSet(g, Orders \cup {t}) = SumFunctionOnSet(VoidedBy(r), Orders) + g[t]
    <3>1. g[t] \in Int
      BY <2>3, <2>4
    <3>2. t \notin Orders /\ IsFiniteSet(Orders) /\ IntValued(VoidedBy(r), Orders)
      BY <2>1, <2>5
    <3>3. \A p \in Orders : g[p] = VoidedBy(r)[p]
      BY <1>3
    <3> QED
      BY ONLY <3>1, <3>2, <3>3, SumGrow
  <2> QED
    BY <1>1, <1>5, <2>3, <2>4, <2>5, <2>6
<1> QED
  BY <1>4, <1>5

LEMMA VoidedGrows ==
  ASSUME AmendTypes, Recorded, ItemsStay, Orders' = Orders, NEW o \in Orders,
         NEW back \in Seq(Nat), DOMAIN back = DOMAIN orders[o].lines,
         \A p \in OrderId : \A i :
           Restored(p, i)' = Restored(p, i)
             + IF p = o /\ i \in DOMAIN orders[o].lines THEN back[i] ELSE 0,
         NEW r
  PROVE  VoidedIn(r)' = VoidedIn(r) + PutBackOf(orders[o].lines, back, r)
<1> DEFINE g == [p \in Orders' |-> VoidedOf(p, r)']
           plus == PutBackOf(orders[o].lines, back, r)
<1>1. VoidedIn(r)' = SumFunctionOnSet(g, Orders)
  BY DEF VoidedIn, VoidedOf
<1>2. \A p \in Orders : p \in OrderId /\ orders'[p].lines = orders[p].lines
  BY DEF Orders, ItemsStay, SameItems
<1>3. \A p \in Orders \ {o} : g[p] = VoidedBy(r)[p]
  <2> SUFFICES ASSUME NEW p \in Orders \ {o} PROVE VoidedOf(p, r)' = VoidedOf(p, r)
    BY DEF VoidedBy
  <2>1. \A i \in DOMAIN orders[p].lines : Restored(p, i)' = Restored(p, i)
    <3> SUFFICES ASSUME NEW i PROVE Restored(p, i)' = Restored(p, i)
      OBVIOUS
    <3>1. Restored(p, i) \in Nat
      BY <1>2, RestoredTypes
    <3> QED
      BY <1>2, <3>1
  <2> QED
    BY <1>2, <2>1 DEF VoidedOf
<1>4. g[o] = VoidedBy(r)[o] + plus /\ plus \in Int
  <2> DEFINE I == DOMAIN orders[o].lines
             T == {i \in I : orders[o].lines[i].row = r}
             old == [i \in I |-> Restored(o, i)]
             add == [i \in I |-> back[i]]
             new == [i \in I |-> Restored(o, i)']
  <2>1. o \in OrderId /\ IsFiniteSet(T) /\ T \subseteq I
    BY OrderKnown, LinesTypes, FS_Subset
  <2>2. \A i \in T : old[i] \in Nat /\ add[i] \in Nat /\ new[i] = old[i] + add[i]
    <3> SUFFICES ASSUME NEW i \in I
                 PROVE  /\ Restored(o, i) \in Nat /\ back[i] \in Nat
                        /\ Restored(o, i)' = Restored(o, i) + back[i]
      OBVIOUS
    <3> QED
      BY <2>1, RestoredTypes
  <2>3. VoidedOf(o, r)' = SumFunctionOnSet(new, T)
    BY <1>2 DEF VoidedOf
  <2>4. VoidedOf(o, r) = SumFunctionOnSet(old, T) /\ plus = SumFunctionOnSet(add, T)
    BY DEF VoidedOf, PutBackOf
  <2>5. g[o] = VoidedOf(o, r)' /\ VoidedBy(r)[o] = VoidedOf(o, r)
    BY DEF VoidedBy
  <2> HIDE DEF old, add, new, T, g, plus
  <2>6. IntValued(old, T) /\ IntValued(add, T)
    BY <2>2 DEF IntValued
  <2>7. SumFunctionOnSet(new, T) = SumFunctionOnSet(old, T) + SumFunctionOnSet(add, T)
    BY <2>1, <2>2, <2>6, SumPlus
  <2>8. SumFunctionOnSet(add, T) \in Int
    BY <2>1, <2>6, SumInt
  <2> QED
    BY <2>3, <2>4, <2>5, <2>7, <2>8
<1>5. IsFiniteSet(Orders) /\ IntValued(VoidedBy(r), Orders) /\ VoidedIn(r) \in Int
      /\ VoidedIn(r) = SumFunctionOnSet(VoidedBy(r), Orders)
  BY DocumentedTypes
<1> HIDE DEF g, plus
<1>6. IntValued(g, Orders)
  BY <1>3, <1>4, <1>5 DEF IntValued
<1>7. SumFunctionOnSet(g, Orders) = SumFunctionOnSet(VoidedBy(r), Orders) + g[o] - VoidedBy(r)[o]
  BY <1>3, <1>5, <1>6, SumChange
<1>8. VoidedBy(r)[o] \in Int
  BY <1>5 DEF IntValued
<1> QED
  BY <1>1, <1>4, <1>5, <1>7, <1>8 DEF plus

-----------------------------------------------------------------------------
(* The ledger.                                                             *)
LEMMA CommitPosts ==
  ASSUME PostingInv, NEW t \in Tx, Commit(t), NEW r \in Row
  PROVE  /\ moved'[r] = moved[r] + Effect(Owed(t), r)
         /\ moved[r] \in Int /\ Effect(Owed(t), r) \in Int
<1>1. pc[t] \in Open /\ todo[t] = <<>> /\ StockTypeOK /\ Posting(t)
  BY DEF PostingInv, AmendInv, StockInv, Commit, Done, Open
<1>2. posted[t][r] + Effect(<<>>, r) = Effect(Owed(t), r)
  BY <1>1 DEF Posting
<1>3. posted[t][r] \in Int /\ moved[r] \in Int
  BY <1>1 DEF StockTypeOK
<1> QED
  BY <1>2, <1>3, EffectEmpty DEF Commit

Follows(r) == moved'[r] - Documented(r)' = moved[r] - Documented(r)

LEMMA SaleFollows ==
  ASSUME PostingInv, NEW t \in Tx, CommitSale(t), UNCHANGED adjustVars, NEW r \in Row
  PROVE  Follows(r)
<1>0. AmendInv /\ AmendTypes /\ Recorded /\ Commit(t) /\ stage[t] = "lines" /\ pc[t] \in Open
  BY DEF PostingInv, AmendInv, CommitSale, Commit, Done, Open
<1>1. sale[t] \in Sale
  BY <1>0 DEF AmendInv, Handled, Handling
<1>2. sale[t].lines \in Seq(Line)
  BY <1>1, SaleAssumption DEF SaleType
<1>3. /\ ItemsStay /\ orders[t] = NoOrder /\ adjusts' = adjusts /\ restored' = restored
      /\ orders' = [orders EXCEPT ![t] = NewOrder(sale[t], held[t].counter)]
      /\ NewOrder(sale[t], held[t].counter) # NoOrder
  BY <1>0, CommitSaleAmends, OrderTypes DEF adjustVars
<1>4. /\ t \in OrderId /\ t \notin Orders /\ Orders' = Orders \cup {t}
      /\ orders'[t].lines = sale[t].lines
  BY <1>0, <1>3 DEF OrderId, Orders, AmendTypes, NewOrder
<1>5. SoldTotal(r)' = SoldTotal(r) + SoldIn(sale[t].lines, r)
  BY <1>0, <1>2, <1>3, <1>4, SoldGrows
<1>6. Resold(r)' = Resold(r) /\ Restocked(r)' = Restocked(r)
  BY <1>0, <1>3, AmendedStay
<1>7. VoidedIn(r)' = VoidedIn(r)
  BY <1>0, <1>2, <1>3, <1>4, VoidedStay
<1>8. Effect(Owed(t), r) = -SoldIn(sale[t].lines, r) /\ SoldIn(sale[t].lines, r) \in Nat
  BY <1>0, <1>2, SoldInTypes DEF Owed
<1>9. moved'[r] = moved[r] + Effect(Owed(t), r) /\ moved[r] \in Int
  BY <1>0, CommitPosts
<1> QED
  BY <1>0, <1>5, <1>6, <1>7, <1>8, <1>9, DocumentedTypes DEF Documented, Follows

LEMMA AdjustmentFollows ==
  ASSUME PostingInv, NEW t \in Tx, CommitAdjust(t), NEW r \in Row
  PROVE  Follows(r)
<1> DEFINE a == draft[t]
           o == a.order
<1>0. /\ AmendInv /\ AmendTypes /\ Recorded /\ Commit(t) /\ stage[t] = "adjusting"
      /\ a \in Adjustment /\ o \in OrderId /\ adjusts[t] = NoOrder
      /\ Within(a.returns, orders[o].lines) /\ orders[o] \in OrderType
      /\ orders[o].lines = snap[t].lines
  BY AdjustingKnows DEF PostingInv, AmendInv, SameItems
<1>1. /\ ItemsStay /\ adjusts' = [adjusts EXCEPT ![t] = a]
      /\ orders' = [orders EXCEPT ![o] = orders'[o]]
  <2>1. /\ ItemsStay /\ adjusts' = [adjusts EXCEPT ![t] = a]
        /\ \E row : orders' = [orders EXCEPT ![o] = row]
    BY <1>0, CommitAdjustAmends
  <2>2. DOMAIN orders = OrderId
    BY <1>0 DEF AmendTypes
  <2> QED
    BY <1>0, <2>1, <2>2
<1>2. orders[o] # NoOrder /\ orders[o].lines \in Seq(Line)
  BY <1>0, OrderTypes
<1>3. Orders' = Orders
  BY <1>0, <1>1, <1>2 DEF Orders, ItemsStay, AmendTypes
<1>4. restored' = restored
  BY DEF CommitAdjust
<1>5. /\ Effect(PutBack(snap[t], a.returns), r) = RestockedBy(orders[o], a, r)
      /\ PutBack(snap[t], a.returns) \in Seq(Step) /\ RestockedBy(orders[o], a, r) \in Nat
  <2>1. RestockedBy(snap[t], a, r) = RestockedBy(orders[o], a, r)
    BY <1>0 DEF RestockedBy
  <2>2. snap[t].lines \in Seq(Line) /\ Within(a.returns, snap[t].lines) /\ a.returns \in Seq(ReturnLine)
    BY <1>0, <1>2, AdjustmentTypes
  <2>3. PutBack(snap[t], a.returns) \in Seq(Step)
    BY <2>2, PutBackTypes DEF Line
  <2>4. /\ RestockedBy(snap[t], a, r) \in Nat
        /\ Effect(PutBack(snap[t], a.returns), r) = RestockedBy(snap[t], a, r)
    BY <1>0, <2>2, RestockedByTypes
  <2> QED
    BY <2>1, <2>3, <2>4
<1>6. /\ Effect(TakeOut(a.sales), r) = -SoldIn(a.sales, r) /\ SoldIn(a.sales, r) \in Nat
      /\ TakeOut(a.sales) \in Seq(Step)
  BY <1>0, AdjustmentTypes, SoldInTypes, TakeOutSteps
<1>7. Effect(Owed(t), r) = RestockedBy(orders[o], a, r) - SoldIn(a.sales, r)
  <2>1. Owed(t) = PutBack(snap[t], a.returns) \o TakeOut(a.sales)
    BY <1>0 DEF Owed
  <2> HIDE DEF a
  <2>2. Effect(Owed(t), r) = Effect(PutBack(snap[t], a.returns), r) + Effect(TakeOut(a.sales), r)
    BY <1>5, <1>6, <2>1, EffectConcat
  <2> QED
    BY <1>5, <1>6, <2>2
<1>8. moved'[r] = moved[r] + Effect(Owed(t), r) /\ moved[r] \in Int
  BY <1>0, CommitPosts
<1> HIDE DEF a, o
<1>9. SoldTotal(r)' = SoldTotal(r)
  BY <1>0, <1>1, <1>3, SoldStays
<1>10. VoidedIn(r)' = VoidedIn(r)
  BY <1>0, <1>1, <1>3, <1>4, VoidedStay
<1>11. Resold(r)' = Resold(r) + SoldIn(a.sales, r)
       /\ Restocked(r)' = Restocked(r) + RestockedBy(orders[o], a, r)
  BY <1>0, <1>1, <1>2, AmendedGrow DEF o
<1>12. SoldTotal(r) \in Int /\ VoidedIn(r) \in Int /\ Resold(r) \in Int /\ Restocked(r) \in Int
  BY <1>0, DocumentedTypes
<1>13. RestockedBy(orders[o], a, r) \in Nat /\ SoldIn(a.sales, r) \in Nat
  BY <1>5, <1>6
<1> QED
  BY ONLY <1>7, <1>8, <1>9, <1>10, <1>11, <1>12, <1>13 DEF Documented, Follows

LEMMA VoidFollows ==
  ASSUME PostingInv, NEW t \in Tx, CommitVoid(t), NEW r \in Row
  PROVE  Follows(r)
<1> DEFINE o == draft[t].order
<1>0. /\ AmendInv /\ AmendTypes /\ Recorded /\ Commit(t) /\ stage[t] = "voiding"
      /\ o \in OrderId /\ orders[o] \in OrderType /\ orders[o].lines = snap[t].lines
      /\ DOMAIN plan[t] = DOMAIN snap[t].lines /\ plan[t] \in Seq(Nat)
  BY VoidingKnows DEF PostingInv, AmendInv, SameItems
<1>1. /\ ItemsStay /\ adjusts' = adjusts /\ orders' = [orders EXCEPT ![o] = orders'[o]]
      /\ \A p \in OrderId : \A i :
           Restored(p, i)' = Restored(p, i)
             + IF p = o /\ i \in DOMAIN orders[o].lines THEN plan[t][i] ELSE 0
  <2>1. /\ ItemsStay /\ adjusts' = adjusts
        /\ orders' = [orders EXCEPT ![o] = [orders[o] EXCEPT !.status = "CANCELLED"]]
        /\ \A p \in OrderId : \A i :
             Restored(p, i)' = Restored(p, i)
               + IF p = o /\ i \in DOMAIN snap[t].lines THEN plan[t][i] ELSE 0
    BY <1>0, CommitVoidAmends
  <2>2. orders'[o] = [orders[o] EXCEPT !.status = "CANCELLED"]
    BY <1>0, <2>1 DEF AmendTypes
  <2> HIDE DEF o
  <2> QED
    BY <1>0, <2>1, <2>2
<1>2. orders[o] # NoOrder /\ orders[o].lines \in Seq(Line) /\ o \in Orders
  BY <1>0, OrderTypes DEF Orders
<1>3. Orders' = Orders
  BY <1>0, <1>1, <1>2 DEF Orders, ItemsStay, AmendTypes
<1> HIDE DEF o
<1>4. Effect(Owed(t), r) = PutBackOf(orders[o].lines, plan[t], r)
  <2>1. Owed(t) = Kept(VoidSteps(orders[o], plan[t]), {i \in DOMAIN plan[t] : plan[t][i] > 0})
    BY <1>0 DEF Owed, VoidSteps
  <2>2. VoidSteps(orders[o], plan[t]) \in Seq(Step)
    <3> DEFINE n == Len(orders[o].lines)
               step(i) == [op |-> "adjust", row |-> orders[o].lines[i].row, qty |-> plan[t][i]]
    <3>1. n \in Nat /\ DOMAIN plan[t] = 1 .. n /\ \A i \in 1 .. n : orders[o].lines[i].row \in Row
      BY <1>0, <1>2, LinesTypes
    <3>2. \A i \in 1 .. n : step(i) \in Step
      BY <1>0, <3>1 DEF Step, Op
    <3>3. VoidSteps(orders[o], plan[t]) = [i \in 1 .. n |-> step(i)]
      BY <3>1 DEF VoidSteps
    <3> HIDE DEF step
    <3> QED
      BY <3>1, <3>2, <3>3
  <2> QED
    BY <1>0, <1>2, <2>1, <2>2, VoidEffect
<1>5. moved'[r] = moved[r] + Effect(Owed(t), r) /\ moved[r] \in Int /\ Effect(Owed(t), r) \in Int
  BY <1>0, CommitPosts
<1>6. VoidedIn(r)' = VoidedIn(r) + PutBackOf(orders[o].lines, plan[t], r)
  BY <1>0, <1>1, <1>2, <1>3, VoidedGrows
<1>7. SoldTotal(r)' = SoldTotal(r)
  BY <1>0, <1>1, <1>3, SoldStays
<1>8. Resold(r)' = Resold(r) /\ Restocked(r)' = Restocked(r)
  BY <1>0, <1>1, AmendedStay
<1> QED
  BY <1>0, <1>4, <1>5, <1>6, <1>7, <1>8, DocumentedTypes DEF Documented, Follows

(* The steps that commit nothing.                                          *)
LEMMA QuietFollows ==
  ASSUME UNCHANGED <<moved, orders, adjusts, restored>>, NEW r \in Row
  PROVE  Follows(r)
<1>1. Documented(r)' = Documented(r)
  BY DEF Documented, Restocked, VoidedIn, SoldTotal, Resold, SoldIn, RestockedBy, Restored, Orders, Amended
<1> QED
  BY <1>1 DEF Follows

LEMMA StepFollows ==
  ASSUME PostingInv, NEW t \in Tx, StepOf(t), NEW r \in Row
  PROVE  Follows(r)
<1>0. StockTypeOK
  BY DEF PostingInv, AmendInv, StockInv
<1>1. CASE \/ \E s \in Sale : OpenSale(t, s) /\ UNCHANGED adjustVars
           \/ \E a \in Adjustment : OpenAdjust(t, a)
           \/ \E o \in Voidable : OpenVoid(t, o)
  BY <1>1, QuietFollows DEF OpenSale, OpenAdjust, OpenVoid, Begin, adjustVars
<1>2. CASE (RejectSale(t) \/ TakeReceipt(t) \/ SaleStep(t, Fail(t))) /\ UNCHANGED adjustVars
  BY <1>2, QuietFollows DEF RejectSale, TakeReceipt, SaleStep, Fail, Rollback, Adjusting, adjustVars
<1>3. CASE SaleStep(t, Statement(t)) /\ UNCHANGED adjustVars
  <2>1. moved' = moved
    BY <1>0, <1>3 DEF SaleStep, Statement, ZeroDelta, UpsertFound, UpsertMissing, UpsertInsert, UpsertConflict,
       AdjustWrite, Insufficient, CountCompare, SetReorder, DeadlockAbort, Rollback
  <2> QED
    BY <1>3, <2>1, QuietFollows DEF SaleStep, adjustVars
<1>4. CASE ReadReturns(t) \/ ReadRestores(t)
  BY <1>4, QuietFollows DEF ReadReturns, ReadRestores, PlanAdjust, PlanVoid, Refuse, Rollback, Adjusting,
     saleVars, adjustVars
<1> QED
  BY <1>1, <1>2, <1>3, <1>4, SaleFollows, AdjustmentFollows, VoidFollows
     DEF StepOf, OrdersStatement, SaleStatement

LEMMA NextFollows ==
  ASSUME PostingInv, [OrdersNext]_ordersVars, NEW r \in Row
  PROVE  Follows(r)
<1>1. CASE \E t \in Tx : StepOf(t)
  BY <1>1, StepFollows
<1>2. CASE UNCHANGED ordersVars
  BY <1>2, QuietFollows DEF ordersVars, salesVars, stockVars, saleVars, adjustVars
<1> QED
  BY <1>1, <1>2 DEF OrdersNext, OrdersTerminating, StepOf

(* The ledger moves exactly as orders, adjustments and voids say, whatever *)
(* overlaps or fails: what a transaction posts is what its documents take  *)
(* out and put back, and both are committed together.                      *)
THEOREM OrdersLedger == OrdersSpec => LedgerFollowsDocuments
<1>1. PostingInv /\ [OrdersNext]_ordersVars => [\A r \in Row : Follows(r)]_ordersVars
  BY NextFollows
<1>2. [\A r \in Row : Follows(r)]_ordersVars
        => [\A r \in Row : moved'[r] - Documented(r)' = moved[r] - Documented(r)]_ordersVars
  BY DEF Follows
<1> QED
  BY <1>1, <1>2, PostingInitInv, NextPostingInv, PTL DEF OrdersSpec, LedgerFollowsDocuments


-----------------------------------------------------------------------------
(* What the reports read.                                                  *)
LEMMA SalesByDocument ==
  ASSUME AmendTypes, Recorded, NEW p
  PROVE  /\ SaleOrders(p) \in SUBSET Orders /\ IsFiniteSet(SaleOrders(p))
         /\ IntValued(SaleTotal, SaleOrders(p))
         /\ \A o \in SaleOrders(p) :
              /\ orders[o].lines \in Seq(Line) /\ orders[o].store \in Store
              /\ Items(orders[o]) /\ Due(orders[o]) >= 0
<1>1. SaleOrders(p) \in SUBSET Orders /\ IsFiniteSet(SaleOrders(p))
  <2>1. SaleOrders(p) \in SUBSET Orders
    BY DEF SaleOrders
  <2> QED
    BY <2>1, FS_Subset DEF Recorded
<1>2. \A o \in SaleOrders(p) :
        /\ orders[o].lines \in Seq(Line) /\ orders[o].store \in Store
        /\ Items(orders[o]) /\ Due(orders[o]) >= 0
  BY <1>1, OrderKnown, OrderTypes DEF OrderType, Items, Recorded
<1>3. \A o \in SaleOrders(p) : SaleTotal[o] \in Int
  BY <1>1, <1>2, WorthsNear DEF SaleTotal
<1> QED
  BY <1>1, <1>2, <1>3 DEF IntValued

LEMMA RefundsByDocument ==
  ASSUME AmendTypes, Recorded, NEW p
  PROVE  /\ Adjusted(p) \in SUBSET Amended /\ IsFiniteSet(Adjusted(p))
         /\ Refunding(p) \in SUBSET Adjusted(p) /\ IsFiniteSet(Refunding(p))
         /\ IntValued(RefundAmount, Adjusted(p)) /\ IntValued(RefundAmount, Refunding(p))
         /\ (\A o \in Orders : Covered(orders[o])) =>
              SumFunctionOnSet(RefundAmount, Adjusted(p)) = RefundTotal(p)
<1>1. Adjusted(p) \in SUBSET Amended /\ Refunding(p) \in SUBSET Adjusted(p)
  BY DEF Adjusted, Amended, Refunding
<1>2. IsFiniteSet(Adjusted(p)) /\ IsFiniteSet(Refunding(p))
  BY <1>1, FS_Subset DEF Recorded
<1>3. IntValued(RefundAmount, Adjusted(p)) /\ IntValued(RefundAmount, Refunding(p))
  BY <1>1, RefundAmountOf DEF IntValued
<1>4. ASSUME \A o \in Orders : Covered(orders[o])
      PROVE  SumFunctionOnSet(RefundAmount, Adjusted(p)) = RefundTotal(p)
  <2>1. \A t \in Adjusted(p) : RefundAmount[t] \in Nat
    <3> SUFFICES ASSUME NEW t \in Adjusted(p) PROVE RefundAmount[t] \in Nat
      OBVIOUS
    <3>1. t \in Amended
      BY <1>1
    <3>2. adjusts[t].order \in Orders
      BY <3>1, AmendedKnown DEF Orders
    <3> QED
      BY <1>4, <3>1, <3>2, RefundAmountOf
  <2>2. \A t \in Adjusted(p) \ Refunding(p) : RefundAmount[t] = 0
    BY <2>1 DEF Refunding
  <2>3. SumFunctionOnSet(RefundAmount, Adjusted(p)) = SumFunctionOnSet(RefundAmount, Refunding(p))
    BY <1>1, <1>2, <1>3, <2>2, SumWhere
  <2> QED
    BY <2>3 DEF RefundTotal
<1> QED
  BY <1>1, <1>2, <1>3, <1>4

(* Values rounded one by one add up to the sum but for the roundings.      *)
LEMMA RoundedSum ==
  ASSUME NEW S, IsFiniteSet(S), NEW f, NEW g, IntValued(f, S), IntValued(g, S),
         \A x \in S : Near(2 * (Cent * g[x]), 2 * f[x], Cent)
  PROVE  Near(2 * (Cent * SumFunctionOnSet(g, S)), 2 * SumFunctionOnSet(f, S),
              Cent * Cardinality(S))
<1> DEFINE G == [x \in S |-> 2 * (Cent * g[x])]
           F == [x \in S |-> 2 * f[x]]
           c == 2 * Cent
<1>0. Cent \in Nat /\ c \in Int
  BY CentAssumption
<1>1. \A x \in S : G[x] = g[x] * c /\ G[x] \in Int /\ F[x] = f[x] * 2 /\ F[x] \in Int
  <2> SUFFICES ASSUME NEW x \in S
               PROVE  G[x] = g[x] * c /\ G[x] \in Int /\ F[x] = f[x] * 2 /\ F[x] \in Int
    OBVIOUS
  <2>1. g[x] \in Int /\ f[x] \in Int
    BY DEF IntValued
  <2> QED
    BY <1>0, <2>1
<1>2. \A x \in S : Near(G[x], F[x], Cent)
  OBVIOUS
<1>3. c = 2 * Cent
  OBVIOUS
<1> HIDE DEF G, F, c
<1>4. IntValued(G, S) /\ IntValued(F, S)
  BY <1>1 DEF IntValued
<1>5. Near(SumFunctionOnSet(G, S), SumFunctionOnSet(F, S), Cent * Cardinality(S))
  BY <1>0, <1>2, <1>4, SumNearBy
<1>6. /\ SumFunctionOnSet(G, S) = SumFunctionOnSet(g, S) * c
      /\ SumFunctionOnSet(F, S) = SumFunctionOnSet(f, S) * 2
      /\ SumFunctionOnSet(g, S) \in Int /\ SumFunctionOnSet(f, S) \in Int
  <2>1. /\ SumFunctionOnSet(G, S) = SumFunctionOnSet(g, S) * c
        /\ SumFunctionOnSet(g, S) \in Int
    BY <1>0, <1>1, SumTimes, SumInt
  <2>2. 2 \in Int /\ \A x \in S : F[x] = f[x] * 2
    BY <1>1
  <2>3. /\ SumFunctionOnSet(F, S) = SumFunctionOnSet(f, S) * 2
        /\ SumFunctionOnSet(f, S) \in Int
    BY <2>2, SumTimes, SumInt
  <2> QED
    BY <2>1, <2>3
<1>7. /\ SumFunctionOnSet(g, S) * c = 2 * (Cent * SumFunctionOnSet(g, S))
      /\ SumFunctionOnSet(f, S) * 2 = 2 * SumFunctionOnSet(f, S)
  BY <1>0, <1>3, <1>6
<1> QED
  BY <1>5, <1>6, <1>7

(* The items sold are worth the totals of their orders, but for roundings. *)
LEMMA SalesNear ==
  ASSUME AmendTypes, Recorded, NEW p
  PROVE  /\ IsFiniteSet(SaleItemsOf(p)) /\ IntValued(SaleValue(p), SaleItemsOf(p))
         /\ Near(2 * SumFunctionOnSet(SaleValue(p), SaleItemsOf(p)), 2 * (Cent * SalesTotal(p)),
                 Cent * (Cardinality(SaleOrders(p)) + Cardinality(SaleItemsOf(p)))
                   + Cardinality(SaleItemsOf(p)))
<1> DEFINE D == SaleOrders(p)
           P == SaleItemsOf(p)
           f == SaleValue(p)
           I == [o \in D |-> DOMAIN orders[o].lines]
           g == [o \in D |-> Worths(orders[o])]
           h == [o \in D |-> SumFunctionOnSet(g[o], I[o])]
           one == [x \in P |-> 1]
           ones == [o \in D |-> [i \in I[o] |-> 1]]
           size == [o \in D |-> Len(orders[o].lines)]
<1>1. /\ IsFiniteSet(D) /\ IntValued(SaleTotal, D) /\ Cent \in Nat
      /\ \A o \in D : /\ o \in Orders /\ orders[o].lines \in Seq(Line)
                      /\ Items(orders[o]) /\ Due(orders[o]) >= 0
  BY SalesByDocument, CentAssumption
<1>2. P = UNION {{<<o, i>> : i \in I[o]} : o \in D}
  BY DEF SaleItemsOf
<1>3. \A o \in D : /\ IsFiniteSet(I[o]) /\ IntValued(g[o], I[o])
                   /\ h[o] = SumFunctionOnSet(g[o], I[o]) /\ h[o] \in Int
  <2> SUFFICES ASSUME NEW o \in D
               PROVE  /\ IsFiniteSet(I[o]) /\ IntValued(g[o], I[o])
                      /\ h[o] = SumFunctionOnSet(g[o], I[o]) /\ h[o] \in Int
    OBVIOUS
  <2>1. IsFiniteSet(DOMAIN orders[o].lines) /\ IntValued(Worths(orders[o]), DOMAIN orders[o].lines)
    BY <1>1, WorthsNear, LinesTypes
  <2>2. g[o] = Worths(orders[o]) /\ I[o] = DOMAIN orders[o].lines
        /\ h[o] = SumFunctionOnSet(g[o], I[o])
    OBVIOUS
  <2> HIDE DEF g, I, h
  <2> QED
    BY <2>1, <2>2, SumInt
<1>4. \A o \in D : \A i \in I[o] :
        <<o, i>> \in P /\ f[<<o, i>>] = g[o][i] /\ ones[o][i] = 1 /\ one[<<o, i>>] = 1
  <2> SUFFICES ASSUME NEW o \in D, NEW i \in I[o]
               PROVE  /\ <<o, i>> \in P /\ f[<<o, i>>] = g[o][i]
                      /\ ones[o][i] = 1 /\ one[<<o, i>>] = 1
    OBVIOUS
  <2>1. <<o, i>> \in P
    BY <1>2
  <2>2. f[<<o, i>>] = LineWorth(orders[o], i)
    BY <2>1 DEF SaleValue
  <2>3. g[o][i] = LineWorth(orders[o], i)
    BY DEF Worths
  <2> QED
    BY <2>1, <2>2, <2>3
<1>5. \A x \in P : \E o \in D : \E i \in I[o] : x = <<o, i>>
  BY <1>2
<1>6. \A x \in P : one[x] = 1
  OBVIOUS
<1>7. \A o \in D : size[o] \in Nat /\ size[o] = SumFunctionOnSet(ones[o], I[o])
  <2> SUFFICES ASSUME NEW o \in D
               PROVE  size[o] \in Nat /\ size[o] = SumFunctionOnSet(ones[o], I[o])
    OBVIOUS
  <2>1. /\ Len(orders[o].lines) \in Nat /\ I[o] = 1 .. Len(orders[o].lines) /\ IsFiniteSet(I[o])
        /\ size[o] = Len(orders[o].lines) /\ \A i \in I[o] : ones[o][i] = 1
    BY <1>1, LinesTypes
  <2> HIDE DEF I, ones, size
  <2>2. SumFunctionOnSet(ones[o], I[o]) = Cardinality(I[o])
    BY <2>1, SumOnes
  <2>3. Cardinality(1 .. Len(orders[o].lines)) = Len(orders[o].lines)
    BY <2>1, CountTo
  <2> QED
    BY <2>1, <2>2, <2>3
<1>8. ASSUME NEW o \in D
      PROVE  Near(2 * h[o], 2 * (Cent * SaleTotal[o]), Cent * (size[o] + 1) + size[o])
  <2>1. /\ Near(2 * SumFunctionOnSet(Worths(orders[o]), DOMAIN orders[o].lines),
                2 * (Cent * GrandTotal(orders[o])),
                Cent * (Len(orders[o].lines) + 1) + Len(orders[o].lines))
    BY <1>1, WorthsNear
  <2>2. SaleTotal[o] = GrandTotal(orders[o])
    BY <1>1 DEF SaleTotal
  <2>3. h[o] = SumFunctionOnSet(Worths(orders[o]), DOMAIN orders[o].lines)
        /\ size[o] = Len(orders[o].lines)
    OBVIOUS
  <2> HIDE DEF h, size
  <2> QED
    BY <2>1, <2>2, <2>3
<1> HIDE DEF D, P, f, h, I, g, one, ones, size
<1>9. Itemised(P, D, I)
  BY <1>1, <1>3, <1>4, <1>5 DEF Itemised
<1>10. IntValued(f, P) /\ IsFiniteSet(P) /\ SumFunctionOnSet(f, P) = SumFunctionOnSet(h, D)
       /\ IntValued(h, D)
  <2>1. IntValued(f, P)
    BY <1>3, <1>4, <1>5 DEF IntValued
  <2>2. TotalsOf(h, g, f, D, I)
    BY <1>3, <1>4 DEF TotalsOf
  <2>3. IsFiniteSet(P) /\ SumFunctionOnSet(f, P) = SumFunctionOnSet(h, D)
    BY ONLY <1>9, <2>1, <2>2, SumItems
  <2> QED
    BY <1>3, <2>1, <2>3 DEF IntValued
<1>11. SumFunctionOnSet(size, D) = Cardinality(P) /\ IntValued(size, D)
  <2>1. IntValued(one, P)
    BY <1>6 DEF IntValued
  <2>2. TotalsOf(size, ones, one, D, I)
    BY <1>4, <1>7 DEF TotalsOf
  <2>3. SumFunctionOnSet(one, P) = SumFunctionOnSet(size, D)
    BY ONLY <1>9, <2>1, <2>2, SumItems
  <2>4. SumFunctionOnSet(one, P) = Cardinality(P)
    BY <1>6, <1>10, SumOnes
  <2> QED
    BY <1>7, <2>3, <2>4 DEF IntValued
<1> DEFINE F == [o \in D |-> 2 * h[o]]
           T == [o \in D |-> 2 * (Cent * SaleTotal[o])]
           E == [o \in D |-> Cent * (size[o] + 1) + size[o]]
           each == [o \in D |-> 1]
           cents == [o \in D |-> Cent]
           rest == [o \in D |-> size[o] * (Cent + 1)]
           c == 2 * Cent
           k == Cent + 1
           total == SaleTotal
<1>12. c \in Int /\ k \in Int /\ c = 2 * Cent /\ k = Cent + 1 /\ IntValued(total, D)
  BY <1>1
<1>13. \A o \in D : /\ F[o] = h[o] * 2 /\ F[o] \in Int
                    /\ T[o] = total[o] * c /\ T[o] \in Int
                    /\ E[o] = cents[o] + rest[o] /\ E[o] \in Int
                    /\ cents[o] = each[o] * Cent /\ cents[o] \in Int
                    /\ rest[o] = size[o] * k /\ rest[o] \in Int
                    /\ each[o] = 1
                    /\ Near(F[o], T[o], E[o])
  <2> SUFFICES ASSUME NEW o \in D
               PROVE  /\ F[o] = h[o] * 2 /\ F[o] \in Int
                      /\ T[o] = total[o] * c /\ T[o] \in Int
                      /\ E[o] = cents[o] + rest[o] /\ E[o] \in Int
                      /\ cents[o] = each[o] * Cent /\ cents[o] \in Int
                      /\ rest[o] = size[o] * k /\ rest[o] \in Int
                      /\ each[o] = 1
                      /\ Near(F[o], T[o], E[o])
    OBVIOUS
  <2>1. /\ F[o] = 2 * h[o] /\ T[o] = 2 * (Cent * total[o]) /\ E[o] = Cent * (size[o] + 1) + size[o]
        /\ each[o] = 1 /\ cents[o] = Cent /\ rest[o] = size[o] * (Cent + 1)
    OBVIOUS
  <2>2. h[o] \in Int /\ total[o] \in Int /\ size[o] \in Nat /\ Cent \in Nat
    BY <1>1, <1>3, <1>7 DEF IntValued
  <2>3. Near(2 * h[o], 2 * (Cent * total[o]), Cent * (size[o] + 1) + size[o])
    BY <1>8
  <2> HIDE DEF F, T, E, each, cents, rest, total
  <2>4. Cent * total[o] \in Int /\ Cent * (size[o] + 1) = Cent * size[o] + Cent
        /\ size[o] * (Cent + 1) = Cent * size[o] + size[o] /\ Cent * size[o] \in Int
        /\ total[o] * (2 * Cent) = 2 * (Cent * total[o])
    BY <2>2
  <2> QED
    BY <1>12, <2>1, <2>2, <2>3, <2>4
<1> HIDE DEF F, T, E, each, cents, rest, c, k, total
<1>14. /\ IntValued(F, D) /\ IntValued(T, D) /\ IntValued(E, D) /\ IntValued(each, D)
       /\ IntValued(cents, D) /\ IntValued(rest, D)
  BY <1>13 DEF IntValued
<1>15. Near(SumFunctionOnSet(F, D), SumFunctionOnSet(T, D), SumFunctionOnSet(E, D))
  BY <1>1, <1>13, <1>14, SumNear
<1>16. SumFunctionOnSet(F, D) = SumFunctionOnSet(h, D) * 2 /\ SumFunctionOnSet(h, D) \in Int
  <2>1. 2 \in Int /\ \A o \in D : F[o] = h[o] * 2
    BY <1>13
  <2> QED
    BY <1>1, <1>10, <2>1, SumTimes, SumInt
<1>17. SumFunctionOnSet(T, D) = SumFunctionOnSet(total, D) * c /\ SumFunctionOnSet(total, D) \in Int
  BY <1>1, <1>12, <1>13, SumTimes, SumInt
<1>18. SumFunctionOnSet(E, D) = SumFunctionOnSet(cents, D) + SumFunctionOnSet(rest, D)
  BY <1>1, <1>13, <1>14, SumPlus
<1>19. SumFunctionOnSet(cents, D) = Cardinality(D) * Cent /\ Cardinality(D) \in Nat
  <2>1. SumFunctionOnSet(cents, D) = SumFunctionOnSet(each, D) * Cent
    BY <1>1, <1>13, <1>14, SumTimes
  <2>2. SumFunctionOnSet(each, D) = Cardinality(D)
    BY <1>1, <1>13, SumOnes
  <2> QED
    BY <1>1, <2>1, <2>2, FS_CardinalityType
<1>20. SumFunctionOnSet(rest, D) = Cardinality(P) * k /\ Cardinality(P) \in Nat
  <2>1. SumFunctionOnSet(rest, D) = SumFunctionOnSet(size, D) * k
    BY <1>1, <1>11, <1>12, <1>13, SumTimes
  <2> QED
    BY <1>10, <1>11, <2>1, FS_CardinalityType
<1>21. SumFunctionOnSet(total, D) = SalesTotal(p)
  BY DEF SalesTotal, total, D
<1>22. /\ SumFunctionOnSet(total, D) * c = 2 * (Cent * SumFunctionOnSet(total, D))
       /\ Cardinality(D) * Cent + Cardinality(P) * k
            = Cent * (Cardinality(D) + Cardinality(P)) + Cardinality(P)
  BY <1>1, <1>12, <1>17, <1>19, <1>20
<1>23. Near(2 * SumFunctionOnSet(f, P), 2 * (Cent * SalesTotal(p)),
            Cent * (Cardinality(D) + Cardinality(P)) + Cardinality(P))
  <2>1. SumFunctionOnSet(h, D) * 2 = 2 * SumFunctionOnSet(f, P)
    BY <1>10, <1>16
  <2> QED
    BY <1>15, <1>16, <1>17, <1>18, <1>19, <1>20, <1>21, <1>22, <2>1
<1> QED
  BY <1>10, <1>23 DEF D, P, f

(* The columns of the items returned add up to the columns of their        *)
(* adjustments, but for roundings.                                         *)
LEMMA RefundsBalance ==
  ASSUME AmendTypes, Recorded, NEW p
  PROVE  /\ IsFiniteSet(ReturnItemsOf(p)) /\ IntValued(RefundValue(p), ReturnItemsOf(p))
         /\ Near(2 * (Cent * SumFunctionOnSet(RefundValue(p), ReturnItemsOf(p))),
                 2 * (Cent * SumFunctionOnSet(RefundAmount, Adjusted(p))),
                 Cent * (Cardinality(Adjusted(p)) + Cardinality(ReturnItemsOf(p))))
<1> DEFINE D == Adjusted(p)
           P == ReturnItemsOf(p)
           value == RefundValue(p)
           amount == RefundAmount
           order(t) == orders[adjusts[t].order]
           I == [t \in D |-> DOMAIN adjusts[t].returns]
           g == [t \in D |-> [k \in DOMAIN adjusts[t].returns |->
                                LineRefund(order(t), adjusts[t].returns[k])]]
           f == [x \in P |-> LineRefund(orders[adjusts[x[1]].order], Return(x))]
           h == [t \in D |-> Refund(order(t), adjusts[t].returns)]
<1>1. /\ IsFiniteSet(D) /\ IntValued(amount, D) /\ Cent \in Nat
      /\ \A t \in D : t \in Amended
  BY RefundsByDocument, CentAssumption
<1>2. P = UNION {{<<t, k>> : k \in I[t]} : t \in D}
  BY DEF ReturnItemsOf
<1>3. ASSUME NEW t \in D
      PROVE  /\ IsFiniteSet(I[t]) /\ IntValued(g[t], I[t])
             /\ h[t] = SumFunctionOnSet(g[t], I[t]) /\ h[t] \in Int
             /\ amount[t] = ToCents(h[t])
  <2>1. /\ Items(order(t)) /\ adjusts[t].returns \in Seq(ReturnLine)
        /\ Within(adjusts[t].returns, order(t).lines)
        /\ amount[t] = ToCents(Refund(order(t), adjusts[t].returns))
    BY <1>1, RefundAmountOf
  <2>2. IsFiniteSet(DOMAIN adjusts[t].returns)
    BY <2>1, ReturnsTypes
  <2>3. /\ IntValued([k \in DOMAIN adjusts[t].returns |-> LineRefund(order(t), adjusts[t].returns[k])],
                     DOMAIN adjusts[t].returns)
        /\ Refund(order(t), adjusts[t].returns) =
             SumFunctionOnSet([k \in DOMAIN adjusts[t].returns |->
                                 LineRefund(order(t), adjusts[t].returns[k])],
                              DOMAIN adjusts[t].returns)
        /\ Refund(order(t), adjusts[t].returns) \in Int
    BY <2>1, RefundTypes
  <2> QED
    BY <2>1, <2>2, <2>3
<1>4. \A t \in D : \A k \in I[t] : <<t, k>> \in P /\ f[<<t, k>>] = g[t][k]
  <2> SUFFICES ASSUME NEW t \in D, NEW k \in I[t]
               PROVE  <<t, k>> \in P /\ f[<<t, k>>] = g[t][k]
    OBVIOUS
  <2>1. <<t, k>> \in P
    BY <1>2
  <2>2. f[<<t, k>>] = LineRefund(order(t), Return(<<t, k>>))
    BY <2>1
  <2>3. Return(<<t, k>>) = adjusts[t].returns[k]
    BY DEF Return
  <2>4. g[t][k] = LineRefund(order(t), adjusts[t].returns[k])
    OBVIOUS
  <2> HIDE DEF f, g, order
  <2> QED
    BY <2>1, <2>2, <2>3, <2>4
<1>5. \A x \in P : \E t \in D : \E k \in I[t] : x = <<t, k>>
  BY <1>2
<1>6. \A x \in P : value[x] = ToCents(f[x])
  BY DEF RefundValue
<1> HIDE DEF D, P, value, amount, f, h, I, g
<1>7. IntValued(f, P) /\ IntValued(h, D)
  <2>1. \A t \in D : \A k \in I[t] : g[t][k] \in Int
    BY <1>3 DEF IntValued
  <2> QED
    BY <1>3, <1>4, <1>5, <2>1 DEF IntValued
<1>8. IsFiniteSet(P) /\ SumFunctionOnSet(f, P) = SumFunctionOnSet(h, D)
  <2>1. Itemised(P, D, I)
    BY <1>1, <1>3, <1>4, <1>5 DEF Itemised
  <2>2. TotalsOf(h, g, f, D, I)
    BY <1>3, <1>4 DEF TotalsOf
  <2> QED
    BY ONLY <1>7, <2>1, <2>2, SumItems
<1>9. /\ IntValued(value, P)
      /\ \A x \in P : Near(2 * (Cent * value[x]), 2 * f[x], Cent)
  BY <1>6, <1>7, CentsNear DEF IntValued
<1>10. \A t \in D : Near(2 * (Cent * amount[t]), 2 * h[t], Cent)
  BY <1>3, CentsNear
<1>11. Near(2 * (Cent * SumFunctionOnSet(value, P)), 2 * SumFunctionOnSet(f, P),
            Cent * Cardinality(P))
  BY <1>7, <1>8, <1>9, RoundedSum
<1>12. Near(2 * (Cent * SumFunctionOnSet(amount, D)), 2 * SumFunctionOnSet(h, D),
            Cent * Cardinality(D))
  BY <1>1, <1>7, <1>10, RoundedSum
<1>13. /\ Cardinality(P) \in Nat /\ Cardinality(D) \in Nat
       /\ SumFunctionOnSet(value, P) \in Int /\ SumFunctionOnSet(amount, D) \in Int
       /\ SumFunctionOnSet(h, D) \in Int
  BY <1>1, <1>7, <1>8, <1>9, SumInt, FS_CardinalityType
<1>14. /\ Cent * (Cardinality(D) + Cardinality(P)) = Cent * Cardinality(D) + Cent * Cardinality(P)
       /\ Cent * Cardinality(D) \in Int /\ Cent * Cardinality(P) \in Int
       /\ Cent * SumFunctionOnSet(value, P) \in Int /\ Cent * SumFunctionOnSet(amount, D) \in Int
  BY <1>1, <1>13
<1>15. Near(2 * (Cent * SumFunctionOnSet(value, P)), 2 * (Cent * SumFunctionOnSet(amount, D)),
            Cent * (Cardinality(D) + Cardinality(P)))
  <2>1. Near(2 * (Cent * SumFunctionOnSet(value, P)), 2 * SumFunctionOnSet(h, D),
             Cent * Cardinality(P))
    BY <1>8, <1>11
  <2> QED
    BY <1>12, <1>13, <1>14, <2>1 DEF Near
<1> QED
  BY <1>8, <1>9, <1>15 DEF D, P, value, amount

(* A report with a group for every key of S and R, over their values.      *)
Grouped(report, S, k, f, R, m, h) ==
  /\ IsFiniteSet(S) /\ IntValued(f, S) /\ \A x \in S : k[x] \in DOMAIN report
  /\ IsFiniteSet(R) /\ IntValued(h, R) /\ \A x \in R : m[x] \in DOMAIN report
  /\ \A g \in DOMAIN report :
       /\ report[g].net = SumFunctionOnSet(f, {x \in S : k[x] = g})
       /\ report[g].refund = SumFunctionOnSet(h, {x \in R : m[x] = g})

(* It balances to the sums of the whole.                                   *)
LEMMA ReportBalances ==
  ASSUME NEW report, IsFiniteSet(DOMAIN report), NEW S, NEW k, NEW f, NEW R, NEW m, NEW h,
         Grouped(report, S, k, f, R, m, h)
  PROVE  Balance(report) = SumFunctionOnSet(f, S) - SumFunctionOnSet(h, R)
<1> DEFINE G == DOMAIN report
<1> USE DEF Grouped
<1> DEFINE net == [g \in G |-> report[g].net]
           refund == [g \in G |-> report[g].refund]
           rest == [g \in G |-> report[g].net - report[g].refund]
<1>1. /\ \A g \in G : net[g] = SumFunctionOnSet(f, {x \in S : k[x] = g})
      /\ \A g \in G : refund[g] = SumFunctionOnSet(h, {x \in R : m[x] = g})
      /\ \A g \in G : rest[g] = net[g] - refund[g]
      /\ DOMAIN rest = G
  OBVIOUS
<1>2. Balance(report) = SumFunction(rest)
  BY DEF Balance
<1> HIDE DEF net, refund, rest
<1>3. SumFunctionOnSet(net, G) = SumFunctionOnSet(f, S) /\ IntValued(net, G)
  <2> DEFINE F == [g \in G |-> {x \in S : k[x] = g}]
  <2>1. \A g \in G : F[g] = {x \in S : k[x] = g}
    OBVIOUS
  <2>2. \A g \in G : net[g] = SumFunctionOnSet(f, F[g])
    BY <1>1, <2>1
  <2> HIDE DEF F
  <2> QED
    BY ONLY <2>1, <2>2, SumGroups, IsFiniteSet(S), IsFiniteSet(G), IntValued(f, S),
       \A x \in S : k[x] \in G
<1>4. SumFunctionOnSet(refund, G) = SumFunctionOnSet(h, R) /\ IntValued(refund, G)
  <2> DEFINE F == [g \in G |-> {x \in R : m[x] = g}]
  <2>1. \A g \in G : F[g] = {x \in R : m[x] = g}
    OBVIOUS
  <2>2. \A g \in G : refund[g] = SumFunctionOnSet(h, F[g])
    BY <1>1, <2>1
  <2> HIDE DEF F
  <2> QED
    BY ONLY <2>1, <2>2, SumGroups, IsFiniteSet(R), IsFiniteSet(G), IntValued(h, R),
       \A x \in R : m[x] \in G
<1>5. SumFunctionOnSet(rest, G) = SumFunctionOnSet(net, G) - SumFunctionOnSet(refund, G)
  BY <1>1, <1>3, <1>4, SumMinus
<1> QED
  BY <1>1, <1>2, <1>3, <1>4, <1>5, SumDomain

Revenue(p) == SalesTotal(p) - RefundTotal(p)

(* By any key of the documents.                                            *)
LEMMA DocumentsReconcile ==
  ASSUME AmendTypes, Recorded, NEW p, NEW G, IsFiniteSet(G),
         NEW k, \A o \in SaleOrders(p) : k[o] \in G,
         NEW m, \A t \in Refunding(p) : m[t] \in G
  PROVE  Balance(DocumentReport(G, k, m, p)) = Revenue(p)
<1> DEFINE S == SaleOrders(p)
           R == Refunding(p)
           f == SaleTotal
           h == RefundAmount
           report == DocumentReport(G, k, m, p)
<1>1. /\ IsFiniteSet(S) /\ IntValued(f, S) /\ SumFunctionOnSet(f, S) = SalesTotal(p)
      /\ IsFiniteSet(R) /\ IntValued(h, R) /\ SumFunctionOnSet(h, R) = RefundTotal(p)
  BY SalesByDocument, RefundsByDocument DEF SalesTotal, RefundTotal
<1>2. report = [g \in G |-> [net |-> SumFunctionOnSet(f, {o \in S : k[o] = g}),
                             refund |-> SumFunctionOnSet(h, {t \in R : m[t] = g})]]
  BY DEF DocumentReport
<1>3. (\A o \in S : k[o] \in G) /\ \A t \in R : m[t] \in G
  OBVIOUS
<1> HIDE DEF S, R, f, h, report
<1>5. /\ DOMAIN report = G
      /\ \A g \in G : /\ report[g].net = SumFunctionOnSet(f, {x \in S : k[x] = g})
                      /\ report[g].refund = SumFunctionOnSet(h, {x \in R : m[x] = g})
  BY <1>2
<1>6. Balance(report) = SumFunctionOnSet(f, S) - SumFunctionOnSet(h, R)
  <2>1. Grouped(report, S, k, f, R, m, h) /\ IsFiniteSet(DOMAIN report)
    BY <1>1, <1>3, <1>5 DEF Grouped
  <2> QED
    BY ONLY <2>1, ReportBalances
<1> QED
  BY <1>1, <1>6 DEF report, Revenue

LEMMA ColumnsReconcile ==
  ASSUME AmendTypes, Recorded, NEW p, NEW c
  PROVE  Balance(ColumnReport(c, p)) = Revenue(p)
<1> DEFINE S == SaleOrders(p)
           R == Refunding(p)
           k == [o \in S |-> OrderColumns[o][c]]
           m == [t \in R |-> AdjustColumns[t][c]]
           G == GroupsJoined(Range(k), Range(m))
<1>1. IsFiniteSet(S) /\ IsFiniteSet(R)
  BY SalesByDocument, RefundsByDocument
<1>2. DOMAIN k = S /\ DOMAIN m = R
  OBVIOUS
<1>3. ColumnReport(c, p) = DocumentReport(G, k, m, p)
  BY DEF ColumnReport
<1> HIDE DEF k, m
<1>4. IsFiniteSet(G) /\ (\A o \in S : k[o] \in G) /\ \A t \in R : m[t] \in G
  <2> HIDE DEF S, R
  <2>1. IsFiniteSet({k[x] : x \in S}) /\ IsFiniteSet({m[x] : x \in R})
    BY ONLY <1>1, ImageFinite
  <2>2. Range(k) = {k[x] : x \in S} /\ Range(m) = {m[x] : x \in R}
    BY <1>2 DEF Range
  <2> QED
    BY <2>1, <2>2, FS_Union DEF GroupsJoined
<1> HIDE DEF G
<1> QED
  BY <1>3, <1>4, DocumentsReconcile

LEMMA StoresReconcile ==
  ASSUME AmendTypes, Recorded, NEW p
  PROVE  Balance(StoreSales(p)) = Revenue(p)
<1> DEFINE k == [o \in Orders |-> orders[o].store]
           m == [t \in Amended |-> orders[adjusts[t].order].store]
<1>1. \A o \in SaleOrders(p) : k[o] \in Store
  BY SalesByDocument
<1>2. \A t \in Refunding(p) : m[t] \in Store
  <2> SUFFICES ASSUME NEW t \in Refunding(p) PROVE m[t] \in Store
    OBVIOUS
  <2>1. t \in Amended
    BY RefundsByDocument
  <2>2. adjusts[t].order \in Orders
    BY <2>1, AmendedKnown DEF Orders
  <2> QED
    BY <2>1, <2>2, OrderKnown DEF OrderType
<1>3. StoreSales(p) = DocumentReport(Store, k, m, p)
  BY DEF StoreSales
<1>4. IsFiniteSet(Store)
  BY ColumnsAssumption
<1> HIDE DEF k, m
<1> QED
  BY <1>1, <1>2, <1>3, <1>4, DocumentsReconcile

(* By any key of the rows.                                                 *)
LEMMA ItemsReconcile ==
  ASSUME AmendTypes, Recorded, \A o \in Orders : Covered(orders[o]), NEW p, NEW key
  PROVE  LET report == ItemReport(key, p)
             gap == 2 * Cent * (Balance(report) - Revenue(p))
         IN gap <= Roundings(report, p) /\ -gap <= Roundings(report, p)
<1> DEFINE S == SaleItemsOf(p)
           R == ReturnItemsOf(p)
           k == [x \in S |-> key[Sold(x).row]]
           m == [x \in R |-> key[ReturnedLine(x).row]]
           G == GroupsJoined(Range(k), Range(m))
           f == SaleValue(p)
           h == RefundValue(p)
           report == ItemReport(key, p)
           F == [g \in G |-> {x \in S : k[x] = g}]
           H == [g \in G |-> {x \in R : m[x] = g}]
           sums == [g \in G |-> SumFunctionOnSet(f, F[g])]
           net == [g \in G |-> Round2(sums[g])]
           refund == [g \in G |-> SumFunctionOnSet(h, H[g])]
           rest == [g \in G |-> report[g].net - report[g].refund]
<1>0. Cent \in Nat \ {0}
  BY CentAssumption
<1>1. /\ IsFiniteSet(S) /\ IntValued(f, S)
      /\ Near(2 * SumFunctionOnSet(f, S), 2 * (Cent * SalesTotal(p)),
              Cent * (Cardinality(SaleOrders(p)) + Cardinality(S)) + Cardinality(S))
      /\ IsFiniteSet(R) /\ IntValued(h, R)
      /\ Near(2 * (Cent * SumFunctionOnSet(h, R)), 2 * (Cent * RefundTotal(p)),
              Cent * (Cardinality(Adjusted(p)) + Cardinality(R)))
  BY SalesNear, RefundsBalance, RefundsByDocument
<1>2. SalesTotal(p) \in Int /\ RefundTotal(p) \in Int
  <2>1. /\ IsFiniteSet(SaleOrders(p)) /\ IntValued(SaleTotal, SaleOrders(p))
        /\ IsFiniteSet(Refunding(p)) /\ IntValued(RefundAmount, Refunding(p))
    BY SalesByDocument, RefundsByDocument
  <2> QED
    BY <2>1, SumInt DEF SalesTotal, RefundTotal
<1>3. report = [g \in G |-> [net |-> Round2(SumFunctionOnSet(f, {x \in S : k[x] = g})),
                             refund |-> SumFunctionOnSet(h, {x \in R : m[x] = g})]]
  BY DEF ItemReport
<1>4. DOMAIN k = S /\ DOMAIN m = R
  OBVIOUS
<1>5. Balance(report) = SumFunction([g \in DOMAIN report |-> report[g].net - report[g].refund])
  BY DEF Balance
<1> HIDE DEF S, R, k, m, f, h, report
<1>6. IsFiniteSet(G) /\ (\A x \in S : k[x] \in G) /\ \A x \in R : m[x] \in G
  <2>1. IsFiniteSet({k[x] : x \in S}) /\ IsFiniteSet({m[x] : x \in R})
    BY ONLY <1>1, ImageFinite
  <2>2. Range(k) = {k[x] : x \in S} /\ Range(m) = {m[x] : x \in R}
    BY <1>4 DEF Range
  <2> QED
    BY <2>1, <2>2, FS_Union DEF GroupsJoined
<1> HIDE DEF G
<1>7. /\ \A g \in G : F[g] = {x \in S : k[x] = g} /\ H[g] = {x \in R : m[x] = g}
      /\ \A g \in G : sums[g] = SumFunctionOnSet(f, F[g]) /\ refund[g] = SumFunctionOnSet(h, H[g])
      /\ \A g \in G : net[g] = HalfUp(sums[g], Cent)
  BY DEF Round2
<1>8. /\ DOMAIN report = G
      /\ \A g \in G : report[g].net = net[g] /\ report[g].refund = refund[g]
  BY <1>3
<1>9. (\A g \in G : rest[g] = net[g] - refund[g]) /\ Balance(report) = SumFunctionOnSet(rest, G)
  <2>1. Balance(report) = SumFunction(rest) /\ DOMAIN rest = G
    BY <1>5, <1>8
  <2>2. \A g \in G : rest[g] = net[g] - refund[g]
    BY <1>8
  <2> HIDE DEF rest
  <2> QED
    BY <2>1, <2>2, SumDomain
<1> HIDE DEF F, H, sums, net, refund, rest
<1>10. SumFunctionOnSet(sums, G) = SumFunctionOnSet(f, S) /\ IntValued(sums, G)
  BY ONLY <1>1, <1>6, <1>7, SumGroups
<1>11. SumFunctionOnSet(refund, G) = SumFunctionOnSet(h, R) /\ IntValued(refund, G)
  <2>1. /\ \A g \in G : H[g] = {x \in R : m[x] = g} /\ refund[g] = SumFunctionOnSet(h, H[g])
        /\ IsFiniteSet(R) /\ IsFiniteSet(G) /\ IntValued(h, R) /\ \A x \in R : m[x] \in G
    BY <1>1, <1>6, <1>7
  <2> QED
    BY ONLY <2>1, SumGroups
<1>12. /\ IntValued(net, G)
       /\ \A g \in G : Near(2 * (Cent * net[g]), 2 * sums[g], Cent)
  <2> SUFFICES ASSUME NEW g \in G
               PROVE  net[g] \in Int /\ Near(2 * (Cent * net[g]), 2 * sums[g], Cent)
    BY DEF IntValued
  <2>1. sums[g] \in Int /\ net[g] = HalfUp(sums[g], Cent)
    BY <1>7, <1>10 DEF IntValued
  <2>2. /\ net[g] \in Int
        /\ 2 * (net[g] * Cent - sums[g]) <= Cent /\ -Cent < 2 * (net[g] * Cent - sums[g])
    BY <1>0, <2>1, HalfUpBounds
  <2>3. net[g] * Cent = Cent * net[g] /\ Cent * net[g] \in Int
    BY <1>0, <2>2
  <2> QED
    BY <1>0, <2>1, <2>2, <2>3 DEF Near
<1>13. Near(2 * (Cent * SumFunctionOnSet(net, G)), 2 * SumFunctionOnSet(f, S),
            Cent * Cardinality(G))
  BY <1>6, <1>10, <1>12, RoundedSum
<1>14. Balance(report) = SumFunctionOnSet(net, G) - SumFunctionOnSet(h, R)
  BY <1>6, <1>9, <1>11, <1>12, SumMinus
<1>15. /\ SumFunctionOnSet(net, G) \in Int /\ SumFunctionOnSet(h, R) \in Int
       /\ SumFunctionOnSet(f, S) \in Int
  BY <1>1, <1>6, <1>12, SumInt
<1>16. /\ Cardinality(G) \in Nat /\ Cardinality(S) \in Nat /\ Cardinality(R) \in Nat
       /\ Cardinality(SaleOrders(p)) \in Nat /\ Cardinality(Adjusted(p)) \in Nat
  BY <1>1, <1>6, SalesByDocument, RefundsByDocument, FS_CardinalityType
<1>17. Roundings(report, p) =
         Cent * (Cardinality(G) + Cardinality(SaleOrders(p)) + Cardinality(S)
                   + Cardinality(Adjusted(p)) + Cardinality(R)) + Cardinality(S)
  BY <1>8 DEF Roundings, S, R
<1> DEFINE n == SumFunctionOnSet(net, G)
           r == SumFunctionOnSet(h, R)
           s == SumFunctionOnSet(f, S)
           st == SalesTotal(p)
           rt == RefundTotal(p)
           cg == Cardinality(G)
           cs == Cardinality(S)
           cr == Cardinality(R)
           co == Cardinality(SaleOrders(p))
           ca == Cardinality(Adjusted(p))
           gap == 2 * Cent * (Balance(report) - Revenue(p))
<1>18. /\ n \in Int /\ r \in Int /\ s \in Int /\ st \in Int /\ rt \in Int /\ Cent \in Nat
       /\ cg \in Nat /\ cs \in Nat /\ cr \in Nat /\ co \in Nat /\ ca \in Nat
       /\ Near(2 * (Cent * n), 2 * s, Cent * cg)
       /\ Near(2 * s, 2 * (Cent * st), Cent * (co + cs) + cs)
       /\ Near(2 * (Cent * r), 2 * (Cent * rt), Cent * (ca + cr))
       /\ gap = 2 * Cent * ((n - r) - (st - rt))
       /\ Roundings(report, p) = Cent * (cg + co + cs + ca + cr) + cs
  BY <1>0, <1>1, <1>2, <1>13, <1>14, <1>15, <1>16, <1>17 DEF Revenue
<1>19. gap <= Roundings(report, p) /\ -gap <= Roundings(report, p)
  <2> HIDE DEF n, r, s, st, rt, cg, cs, cr, co, ca, gap
  <2>1. /\ Cent * n \in Int /\ Cent * r \in Int /\ Cent * st \in Int /\ Cent * rt \in Int
        /\ Cent * cg \in Int /\ Cent * cs \in Int /\ Cent * cr \in Int
        /\ Cent * co \in Int /\ Cent * ca \in Int
    BY <1>18
  <2>2. /\ 2 * Cent * ((n - r) - (st - rt))
             = 2 * (Cent * n) - 2 * (Cent * r) - 2 * (Cent * st) + 2 * (Cent * rt)
        /\ Cent * (co + cs) = Cent * co + Cent * cs
        /\ Cent * (ca + cr) = Cent * ca + Cent * cr
        /\ Cent * (cg + co + cs + ca + cr)
             = Cent * cg + Cent * co + Cent * cs + Cent * ca + Cent * cr
    BY <1>18
  <2> QED
    BY <1>18, <2>1, <2>2 DEF Near
<1> QED
  BY <1>19 DEF gap, report

(* The steps of the reports are steps of the orders, or none of them.      *)
LEMMA ReportsStep == ReportsNext => [OrdersNext]_ordersVars
BY DEF ReportsNext, OrdersStep, SetCost

LEMMA ReportsAmends == ReportsSpec => []AmendInv
<1>1. ReportsInit => OrdersInit
  BY DEF ReportsInit
<1>2. [ReportsNext]_reportsVars => [OrdersNext]_ordersVars
  BY ReportsStep DEF reportsVars
<1> QED
  BY <1>1, <1>2, AmendInitInv, NextAmendInv, PTL DEF ReportsSpec

(* "so every breakdown reconciles": whatever range a report covers and     *)
(* whatever was refunded, voided or raced, every breakdown adds up to the  *)
(* revenue of the summary, by document exactly, by item but for the        *)
(* roundings of its items and groups.                                      *)
THEOREM OrdersReports == ReportsSpec => []BreakdownsReconcile
<1>1. AmendInv => BreakdownsReconcile
  <2> SUFFICES ASSUME AmendTypes, Recorded, NEW p
               PROVE  LET revenue == Summary(p).revenue
                      IN /\ Balance(SalesCount(p)) = revenue
                         /\ Balance(UserSales(p)) = revenue
                         /\ Balance(StoreSales(p)) = revenue
                         /\ (\A o \in Orders : Covered(orders[o])) =>
                              /\ Reconciles(ProductSales(p), p)
                              /\ Reconciles(CategorySales(p), p)
                              /\ Reconciles(SupplierSales(p), p)
    BY DEF AmendInv, BreakdownsReconcile
  <2>1. Summary(p).revenue = Revenue(p)
    BY DEF Summary, Revenue
  <2>2. (\A o \in Orders : Covered(orders[o])) =>
          /\ Reconciles(ProductSales(p), p)
          /\ Reconciles(CategorySales(p), p)
          /\ Reconciles(SupplierSales(p), p)
    BY <2>1, ItemsReconcile DEF Reconciles, ProductSales, CategorySales, SupplierSales
  <2>3. /\ Balance(SalesCount(p)) = Revenue(p)
        /\ Balance(UserSales(p)) = Revenue(p)
    BY ColumnsReconcile DEF SalesCount, UserSales
  <2>4. Balance(StoreSales(p)) = Revenue(p)
    BY StoresReconcile
  <2> QED
    BY <2>1, <2>2, <2>3, <2>4
<1> QED
  BY <1>1, ReportsAmends, PTL


-----------------------------------------------------------------------------
(* What stock and documents cost today.                                    *)

(* Units by row, and what they cost.                                       *)
Weighed(h, q, I, row) ==
  \A r \in Row : h[r] = SumFunctionOnSet(q, {i \in I : row[i] = r}) * CostNow[r]

CostsTyped == cost \in [VariantId -> Nat] /\ costAt \in [OrderId -> [Row -> Nat]]

LEMMA CostTypes ==
  ASSUME CostsTyped
  PROVE  IsFiniteSet(Row) /\ \A r \in Row : CostNow[r] \in Nat
BY ColumnsAssumption DEF CostsTyped, CostNow, VariantId

(* Items priced one by one cost what their rows cost.                      *)
LEMMA ItemsWeigh ==
  ASSUME CostsTyped, NEW I, IsFiniteSet(I), NEW row, \A i \in I : row[i] \in Row, NEW q, IntValued(q, I),
         NEW f, \A i \in I : f[i] = q[i] * CostNow[row[i]], NEW h, Weighed(h, q, I, row)
  PROVE  IntValued(f, I) /\ IntValued(h, Row) /\ SumFunctionOnSet(h, Row) = SumFunctionOnSet(f, I)
<1> DEFINE F == [r \in Row |-> {i \in I : row[i] = r}]
<1>1. \A r \in Row : F[r] = {i \in I : row[i] = r}
  OBVIOUS
<1> HIDE DEF F
<1>2. IntValued(f, I)
  <2> SUFFICES ASSUME NEW i \in I PROVE f[i] \in Int
    BY DEF IntValued
  <2>1. q[i] \in Int /\ CostNow[row[i]] \in Nat /\ f[i] = q[i] * CostNow[row[i]]
    BY CostTypes DEF IntValued
  <2> QED
    BY <2>1
<1>3. ASSUME NEW r \in Row PROVE h[r] = SumFunctionOnSet(f, F[r])
  <2>1. F[r] \in SUBSET I /\ IsFiniteSet(F[r]) /\ IntValued(q, F[r])
    BY <1>1, FS_Subset DEF IntValued
  <2>2. \A i \in F[r] : f[i] = q[i] * CostNow[r]
    BY <1>1
  <2>3. CostNow[r] \in Int
    BY CostTypes
  <2>4. SumFunctionOnSet(f, F[r]) = SumFunctionOnSet(q, F[r]) * CostNow[r]
    BY ONLY <2>1, <2>2, <2>3, SumTimes
  <2> QED
    BY <1>1, <2>4 DEF Weighed
<1>4. SumFunctionOnSet(h, Row) = SumFunctionOnSet(f, I) /\ IntValued(h, Row)
  <2>1. \A i \in I : row[i] \in Row
    OBVIOUS
  <2>2. \A r \in Row : h[r] = SumFunctionOnSet(f, F[r])
    BY <1>3
  <2>3. IsFiniteSet(Row) /\ IsFiniteSet(I)
    BY CostTypes
  <2> QED
    BY ONLY <1>1, <1>2, <2>1, <2>2, <2>3, SumGroups
<1> QED
  BY <1>2, <1>4

(* Documents weighed one by one weigh what their rows weigh together.      *)
LEMMA DocumentsWeigh ==
  ASSUME CostsTyped, NEW D, IsFiniteSet(D), NEW by, \A r \in Row : IntValued(by[r], D),
         NEW h, \A r \in Row : h[r] = SumFunctionOnSet(by[r], D) * CostNow[r],
         NEW w, \A d \in D, r \in Row : w[d][r] = by[r][d] * CostNow[r],
         NEW c, \A d \in D : c[d] = SumFunctionOnSet(w[d], Row)
  PROVE  IntValued(c, D) /\ IntValued(h, Row) /\ SumFunctionOnSet(h, Row) = SumFunctionOnSet(c, D)
<1> DEFINE f == [d \in D |-> [r \in Row |-> w[d][r]]]
           one == [d \in D |-> SumFunctionOnSet(f[d], Row)]
           slice(r) == [d \in D |-> f[d][r]]
           all == [r \in Row |-> SumFunctionOnSet(slice(r), D)]
<1>1. \A d \in D, r \in Row : w[d][r] \in Int
  <2> SUFFICES ASSUME NEW d \in D, NEW r \in Row PROVE w[d][r] \in Int
    OBVIOUS
  <2>1. by[r][d] \in Int /\ CostNow[r] \in Int /\ w[d][r] = by[r][d] * CostNow[r]
    BY CostTypes DEF IntValued
  <2> QED
    BY <2>1
<1>2. f \in [D -> [Row -> Int]]
  BY <1>1
<1>3. SumFunctionOnSet(one, D) = SumFunctionOnSet(all, Row)
  <2> HIDE DEF f
  <2> QED
    BY <1>2, CostTypes, SumSwap
<1>4. \A d \in D : c[d] = one[d] /\ one[d] \in Int
  <2> SUFFICES ASSUME NEW d \in D PROVE c[d] = one[d] /\ one[d] \in Int
    OBVIOUS
  <2>1. (\A r \in Row : f[d][r] = w[d][r]) /\ IntValued(f[d], Row)
    BY <1>1 DEF IntValued
  <2>2. c[d] = SumFunctionOnSet(w[d], Row) /\ one[d] = SumFunctionOnSet(f[d], Row)
    OBVIOUS
  <2> HIDE DEF f, one
  <2> QED
    BY <2>1, <2>2, CostTypes, SumInt, SumSame
<1>5. \A r \in Row : h[r] = all[r] /\ h[r] \in Int
  <2> SUFFICES ASSUME NEW r \in Row PROVE h[r] = all[r] /\ h[r] \in Int
    OBVIOUS
  <2>1. \A d \in D : slice(r)[d] = by[r][d] * CostNow[r]
    OBVIOUS
  <2>2. all[r] = SumFunctionOnSet(slice(r), D) /\ IntValued(by[r], D) /\ CostNow[r] \in Int
    BY CostTypes
  <2> DEFINE g == slice(r)
             b == by[r]
             u == CostNow[r]
  <2>3. (\A d \in D : g[d] = b[d] * u) /\ IntValued(b, D) /\ u \in Int
    BY <2>1, <2>2
  <2>4. all[r] = SumFunctionOnSet(g, D)
    BY <2>2
  <2>5. h[r] = SumFunctionOnSet(b, D) * u
    OBVIOUS
  <2> HIDE DEF g, b, u, slice, all, f
  <2>6. SumFunctionOnSet(g, D) = SumFunctionOnSet(b, D) * u /\ SumFunctionOnSet(b, D) \in Int
    BY <2>3, SumTimes, SumInt
  <2> QED
    BY <2>3, <2>4, <2>5, <2>6
<1> HIDE DEF f, one, slice, all
<1>6. IntValued(c, D) /\ IntValued(h, Row)
  BY <1>4, <1>5 DEF IntValued
<1>7. SumFunctionOnSet(c, D) = SumFunctionOnSet(one, D)
  BY <1>4, <1>6, SumSame
<1>8. SumFunctionOnSet(h, Row) = SumFunctionOnSet(all, Row)
  BY <1>5, <1>6, CostTypes, SumSame
<1> QED
  BY <1>3, <1>6, <1>7, <1>8

-----------------------------------------------------------------------------
(* What the units q of some lines cost.                                    *)
CostsOf(lines, q) == [i \in DOMAIN lines |-> q[i] * CostNow[lines[i].row]]
CostOf(lines, q) == SumFunctionOnSet(CostsOf(lines, q), DOMAIN lines)

QtyOf(lines) == [i \in DOMAIN lines |-> lines[i].qty]
RestoredOf(o) == [i \in DOMAIN orders[o].lines |-> Restored(o, i)]
RestockOf(returns) == {k \in DOMAIN returns : returns[k].restock}
BackCosts(order, returns) ==
  [k \in RestockOf(returns) |-> returns[k].qty * CostNow[order.lines[returns[k].item].row]]

SoldCost == [o \in Orders |-> CostOf(orders[o].lines, QtyOf(orders[o].lines))]
VoidCost == [o \in Orders |-> CostOf(orders[o].lines, RestoredOf(o))]
ExtraCost == [t \in Amended |-> CostOf(adjusts[t].sales, QtyOf(adjusts[t].sales))]
BackCost ==
  [t \in Amended |-> SumFunctionOnSet(BackCosts(orders[adjusts[t].order], adjusts[t].returns),
                                      RestockOf(adjusts[t].returns))]

LEMMA LinesWeigh ==
  ASSUME CostsTyped, NEW lines \in Seq(Line), NEW q, IntValued(q, DOMAIN lines), NEW h,
         \A r \in Row :
           h[r] = SumFunctionOnSet(q, {i \in DOMAIN lines : lines[i].row = r}) * CostNow[r]
  PROVE  /\ IntValued(CostsOf(lines, q), DOMAIN lines) /\ IsFiniteSet(DOMAIN lines)
         /\ CostOf(lines, q) = SumFunctionOnSet(h, Row)
<1> DEFINE I == DOMAIN lines
           row == [i \in I |-> lines[i].row]
           f == CostsOf(lines, q)
<1>1. IsFiniteSet(I) /\ \A i \in I : row[i] \in Row
  BY LinesTypes
<1>2. \A i \in I : f[i] = q[i] * CostNow[row[i]]
  BY DEF CostsOf
<1>3. \A r \in Row : {i \in I : row[i] = r} = {i \in I : lines[i].row = r}
  OBVIOUS
<1>4. Weighed(h, q, I, row)
  BY <1>3 DEF Weighed
<1>5. CostOf(lines, q) = SumFunctionOnSet(f, I)
  BY DEF CostOf
<1>0. IntValued(q, I)
  OBVIOUS
<1> HIDE DEF I, row, f
<1>6. IntValued(f, I) /\ SumFunctionOnSet(h, Row) = SumFunctionOnSet(f, I)
  BY ONLY <1>0, <1>1, <1>2, <1>4, CostsTyped, ItemsWeigh, ZenonT(30)
<1> QED
  BY <1>1, <1>5, <1>6 DEF I, f

LEMMA ReturnsWeigh ==
  ASSUME CostsTyped, NEW order, order.lines \in Seq(Line), NEW a \in Adjustment, Within(a.returns, order.lines),
         NEW h, \A r \in Row : h[r] = RestockedBy(order, a, r) * CostNow[r]
  PROVE  /\ IntValued(BackCosts(order, a.returns), RestockOf(a.returns))
         /\ IsFiniteSet(RestockOf(a.returns))
         /\ SumFunctionOnSet(BackCosts(order, a.returns), RestockOf(a.returns))
              = SumFunctionOnSet(h, Row)
<1> DEFINE K == RestockOf(a.returns)
           row == [k \in K |-> order.lines[a.returns[k].item].row]
           q == [k \in DOMAIN a.returns |-> a.returns[k].qty]
           f == BackCosts(order, a.returns)
<1>0. a.returns \in Seq(ReturnLine)
  BY AdjustmentTypes
<1>1. IsFiniteSet(K) /\ IntValued(q, K)
  <2>1. IsFiniteSet(DOMAIN a.returns) /\ \A k \in DOMAIN a.returns : a.returns[k].qty \in Nat
    BY <1>0, ReturnsTypes
  <2>2. K \in SUBSET DOMAIN a.returns
    BY DEF RestockOf
  <2> QED
    BY <2>1, <2>2, FS_Subset DEF IntValued
<1>2. \A k \in K : row[k] \in Row
  BY <1>0, LinesTypes DEF Within, RestockOf
<1>3. \A k \in K : f[k] = q[k] * CostNow[row[k]]
  BY DEF BackCosts, RestockOf
<1>4. Weighed(h, q, K, row)
  <2> SUFFICES ASSUME NEW r \in Row
               PROVE  RestockedBy(order, a, r) = SumFunctionOnSet(q, {k \in K : row[k] = r})
    BY DEF Weighed
  <2>1. {k \in DOMAIN a.returns : a.returns[k].restock /\ order.lines[a.returns[k].item].row = r}
          = {k \in K : row[k] = r}
    BY DEF RestockOf
  <2>2. RestockedBy(order, a, r) = SumFunctionOnSet(q,
          {k \in DOMAIN a.returns : a.returns[k].restock /\ order.lines[a.returns[k].item].row = r})
    BY DEF RestockedBy
  <2> HIDE DEF q, K, row
  <2> QED
    BY <2>1, <2>2, Zenon
<1> HIDE DEF K, row, q, f
<1>5. IntValued(f, K) /\ SumFunctionOnSet(h, Row) = SumFunctionOnSet(f, K)
  BY ONLY <1>1, <1>2, <1>3, <1>4, CostsTyped, ItemsWeigh
<1> QED
  BY <1>1, <1>5 DEF f, K

LEMMA SoldWeighs ==
  ASSUME CostsTyped, AmendTypes, Recorded
  PROVE  /\ IntValued(SoldCost, Orders)
         /\ IntValued([r \in Row |-> SoldTotal(r) * CostNow[r]], Row)
         /\ SumFunctionOnSet([r \in Row |-> SoldTotal(r) * CostNow[r]], Row)
              = SumFunctionOnSet(SoldCost, Orders)
<1> DEFINE by == [r \in Row |-> SoldBy(r)]
           h == [r \in Row |-> SoldTotal(r) * CostNow[r]]
           w == [d \in Orders |-> [r \in Row |-> by[r][d] * CostNow[r]]]
<1>1. /\ \A r \in Row : IntValued(by[r], Orders) /\ h[r] = SumFunctionOnSet(by[r], Orders) * CostNow[r]
      /\ IsFiniteSet(Orders)
  BY DocumentedTypes DEF Recorded
<1>2. ASSUME NEW o \in Orders
      PROVE  SoldCost[o] = SumFunctionOnSet(w[o], Row)
  <2> DEFINE lines == orders[o].lines
             q == QtyOf(lines)
  <2>1. lines \in Seq(Line)
    BY OrderKnown
  <2>2. IntValued(q, DOMAIN lines)
    BY <2>1, LinesTypes DEF QtyOf, IntValued
  <2>3. \A r \in Row :
          w[o][r] = SumFunctionOnSet(q, {i \in DOMAIN lines : lines[i].row = r}) * CostNow[r]
    <3>1. \A r \in Row :
            SoldBy(r)[o] = SumFunctionOnSet(q, {i \in DOMAIN lines : lines[i].row = r})
      BY DEF SoldIn, QtyOf, SoldBy
    <3> QED
      BY <3>1
  <2>4. SoldCost[o] = CostOf(lines, q)
    BY DEF SoldCost
  <2> HIDE DEF w, q, lines
  <2>5. CostOf(lines, q) = SumFunctionOnSet(w[o], Row)
    BY ONLY <2>1, <2>2, <2>3, CostsTyped, LinesWeigh
  <2> QED
    BY <2>4, <2>5
<1>3. \A d \in Orders, r \in Row : w[d][r] = by[r][d] * CostNow[r]
  OBVIOUS
<1> HIDE DEF by, h, w
<1>4. IntValued(SoldCost, Orders) /\ IntValued(h, Row)
      /\ SumFunctionOnSet(h, Row) = SumFunctionOnSet(SoldCost, Orders)
  BY <1>1, <1>2, <1>3, DocumentsWeigh
<1> QED
  BY <1>4 DEF h

LEMMA VoidedWeighs ==
  ASSUME CostsTyped, AmendTypes, Recorded
  PROVE  /\ IntValued(VoidCost, Orders)
         /\ IntValued([r \in Row |-> VoidedIn(r) * CostNow[r]], Row)
         /\ SumFunctionOnSet([r \in Row |-> VoidedIn(r) * CostNow[r]], Row)
              = SumFunctionOnSet(VoidCost, Orders)
<1> DEFINE by == [r \in Row |-> VoidedBy(r)]
           h == [r \in Row |-> VoidedIn(r) * CostNow[r]]
           w == [d \in Orders |-> [r \in Row |-> by[r][d] * CostNow[r]]]
<1>1. /\ \A r \in Row : IntValued(by[r], Orders) /\ h[r] = SumFunctionOnSet(by[r], Orders) * CostNow[r]
      /\ IsFiniteSet(Orders)
  BY DocumentedTypes DEF Recorded
<1>2. ASSUME NEW o \in Orders
      PROVE  VoidCost[o] = SumFunctionOnSet(w[o], Row)
  <2> DEFINE lines == orders[o].lines
             q == RestoredOf(o)
  <2>1. lines \in Seq(Line) /\ o \in OrderId
    BY OrderKnown
  <2>2. IntValued(q, DOMAIN lines)
    BY <2>1, RestoredTypes DEF RestoredOf, IntValued
  <2>3. \A r \in Row :
          w[o][r] = SumFunctionOnSet(q, {i \in DOMAIN lines : lines[i].row = r}) * CostNow[r]
    <3>1. \A r \in Row :
            VoidedBy(r)[o] = SumFunctionOnSet(q, {i \in DOMAIN lines : lines[i].row = r})
      BY DEF VoidedOf, RestoredOf, VoidedBy
    <3> QED
      BY <3>1
  <2>4. VoidCost[o] = CostOf(lines, q)
    BY DEF VoidCost
  <2> HIDE DEF w, q, lines
  <2>5. CostOf(lines, q) = SumFunctionOnSet(w[o], Row)
    <3>1. lines \in Seq(Line)
      BY <2>1
    <3> QED
      BY ONLY <2>2, <2>3, <3>1, CostsTyped, LinesWeigh
  <2> QED
    BY <2>4, <2>5
<1>3. \A d \in Orders, r \in Row : w[d][r] = by[r][d] * CostNow[r]
  OBVIOUS
<1> HIDE DEF by, h, w
<1>4. IntValued(VoidCost, Orders) /\ IntValued(h, Row)
      /\ SumFunctionOnSet(h, Row) = SumFunctionOnSet(VoidCost, Orders)
  BY <1>1, <1>2, <1>3, DocumentsWeigh
<1> QED
  BY <1>4 DEF h

LEMMA RestockedWeighs ==
  ASSUME CostsTyped, AmendTypes, Recorded
  PROVE  /\ IntValued(BackCost, Amended)
         /\ IntValued([r \in Row |-> Restocked(r) * CostNow[r]], Row)
         /\ SumFunctionOnSet([r \in Row |-> Restocked(r) * CostNow[r]], Row)
              = SumFunctionOnSet(BackCost, Amended)
<1> DEFINE by == [r \in Row |-> RestockedFor(r)]
           h == [r \in Row |-> Restocked(r) * CostNow[r]]
           w == [d \in Amended |-> [r \in Row |-> by[r][d] * CostNow[r]]]
<1>1. /\ \A r \in Row : IntValued(by[r], Amended) /\ h[r] = SumFunctionOnSet(by[r], Amended) * CostNow[r]
      /\ IsFiniteSet(Amended)
  BY DocumentedTypes DEF Recorded
<1>2. ASSUME NEW t \in Amended
      PROVE  BackCost[t] = SumFunctionOnSet(w[t], Row)
  <2> DEFINE a == adjusts[t]
             order == orders[a.order]
  <2>1. order.lines \in Seq(Line) /\ a \in Adjustment /\ Within(a.returns, order.lines)
    BY AmendedKnown
  <2>2. \A r \in Row : w[t][r] = RestockedBy(order, a, r) * CostNow[r]
    BY DEF RestockedFor
  <2>3. BackCost[t] = SumFunctionOnSet(BackCosts(order, a.returns), RestockOf(a.returns))
    BY DEF BackCost
  <2> HIDE DEF w, a, order
  <2> QED
    BY <2>1, <2>2, <2>3, ReturnsWeigh
<1>3. \A d \in Amended, r \in Row : w[d][r] = by[r][d] * CostNow[r]
  OBVIOUS
<1> HIDE DEF by, h, w
<1>4. IntValued(BackCost, Amended) /\ IntValued(h, Row)
      /\ SumFunctionOnSet(h, Row) = SumFunctionOnSet(BackCost, Amended)
  BY <1>1, <1>2, <1>3, DocumentsWeigh
<1> QED
  BY <1>4 DEF h

LEMMA ExtraWeighs ==
  ASSUME CostsTyped, AmendTypes, Recorded
  PROVE  /\ IntValued(ExtraCost, Amended)
         /\ IntValued([r \in Row |-> Resold(r) * CostNow[r]], Row)
         /\ SumFunctionOnSet([r \in Row |-> Resold(r) * CostNow[r]], Row)
              = SumFunctionOnSet(ExtraCost, Amended)
<1> DEFINE by == [r \in Row |-> ResoldBy(r)]
           h == [r \in Row |-> Resold(r) * CostNow[r]]
           w == [d \in Amended |-> [r \in Row |-> by[r][d] * CostNow[r]]]
<1>1. /\ \A r \in Row : IntValued(by[r], Amended) /\ h[r] = SumFunctionOnSet(by[r], Amended) * CostNow[r]
      /\ IsFiniteSet(Amended)
  BY DocumentedTypes DEF Recorded
<1>2. ASSUME NEW t \in Amended
      PROVE  ExtraCost[t] = SumFunctionOnSet(w[t], Row)
  <2> DEFINE lines == adjusts[t].sales
             q == QtyOf(lines)
  <2>1. lines \in Seq(Line)
    BY AmendedKnown
  <2>2. IntValued(q, DOMAIN lines)
    BY <2>1, LinesTypes DEF QtyOf, IntValued
  <2>3. \A r \in Row :
          w[t][r] = SumFunctionOnSet(q, {i \in DOMAIN lines : lines[i].row = r}) * CostNow[r]
    <3>1. \A r \in Row :
            ResoldBy(r)[t] = SumFunctionOnSet(q, {i \in DOMAIN lines : lines[i].row = r})
      BY DEF SoldIn, QtyOf, ResoldBy
    <3> QED
      BY <3>1
  <2>4. ExtraCost[t] = CostOf(lines, q)
    BY DEF ExtraCost
  <2> HIDE DEF w, q, lines
  <2>5. CostOf(lines, q) = SumFunctionOnSet(w[t], Row)
    BY ONLY <2>1, <2>2, <2>3, CostsTyped, LinesWeigh
  <2> QED
    BY <2>4, <2>5
<1>3. \A d \in Amended, r \in Row : w[d][r] = by[r][d] * CostNow[r]
  OBVIOUS
<1> HIDE DEF by, h, w
<1>4. IntValued(ExtraCost, Amended) /\ IntValued(h, Row)
      /\ SumFunctionOnSet(h, Row) = SumFunctionOnSet(ExtraCost, Amended)
  BY <1>1, <1>2, <1>3, DocumentsWeigh
<1> QED
  BY <1>4 DEF h

-----------------------------------------------------------------------------
(* Requests that do not overlap, whatever they name to return.             *)

(* An order without adjustments is as it was sold, or voided as a whole.   *)
WholeOrNot(o) ==
  AdjustsOf(o) = {} =>
    /\ orders[o].status \in {"COMPLETED", "CANCELLED"}
    /\ orders[o].status = "CANCELLED" =>
         \A i \in DOMAIN orders[o].lines : Restored(o, i) = orders[o].lines[i].qty
PlanIsCurrent(t) == stage[t] = "voiding" => plan[t] = ToRestore(snap[t], draft[t].order)

VoidsFit == /\ \A o \in Orders : OnlyVoidsRestore(o) /\ WholeOrNot(o)
            /\ \A t \in Tx : pc[t] \in Open => PlanIsCurrent(t)

TidyInv == PostingInv /\ OrdersInv /\ (~overlapped => Serial /\ VoidsFit)

LEMMA TidyBefore ==
  ASSUME TidyInv, NEW t \in Tx, StepOf(t), ~overlapped'
  PROVE  /\ ~overlapped /\ Serial /\ VoidsFit /\ Alone /\ CopyIsCurrent /\ StillLive
         /\ AmendInv /\ AmendTypes /\ Recorded /\ StockTypeOK /\ Slots
<1>1. AmendInv /\ AmendTypes /\ Recorded /\ StockTypeOK /\ Slots
  BY DEF TidyInv, PostingInv, AmendInv, StockInv, OrdersInv
<1>2. ~overlapped
  BY <1>1, SerialBefore
<1> QED
  BY <1>1, <1>2 DEF TidyInv, OrdersInv

LEMMA StepSerial ==
  ASSUME TidyInv, NEW t \in Tx, StepOf(t), ~overlapped'
  PROVE  Serial'
<1>0. ~overlapped /\ Serial /\ StockTypeOK /\ SerialInv
  BY TidyBefore DEF SerialInv
<1>1. CASE \E q : Begin(t, q)
  BY <1>0, <1>1, SerialBegin
<1>2. CASE Statement(t) \/ Commit(t) \/ Fail(t)
  BY <1>0, <1>2, SerialStep
<1>3. CASE pc[t] = "read" /\ Rollback(t)
  <2>1. Fail(t)
    BY <1>3 DEF Fail, Open
  <2> QED
    BY <1>0, <2>1, SerialStep
<1>4. CASE pc[t] = "read" /\ \E q : Adjusting(t, q)
  <2>1. /\ UNCHANGED <<pc, basis, work, level, stale, raced>>
        /\ \A u \in Tx \ {t} : todo'[u] = todo[u]
    BY <1>0, <1>4 DEF Adjusting, history, StockTypeOK
  <2>2. BasisCurrent'
    BY <1>0, <1>4, <2>1 DEF Serial, BasisCurrent, At, Sees, Target, Current
  <2> QED
    BY <1>0, <2>1, <2>2 DEF Serial, Alone, NothingStale
<1> QED
  BY <1>1, <1>2, <1>3, <1>4
     DEF StepOf, OpenSale, OpenAdjust, OpenVoid, OrdersStatement, SaleStatement, RejectSale,
         TakeReceipt, CommitSale, SaleStep, ReadReturns, ReadRestores, PlanAdjust, PlanVoid,
         Refuse, CommitAdjust, CommitVoid

-----------------------------------------------------------------------------
LEMMA VoidedAsBefore ==
  ASSUME NEW o, OnlyVoidsRestore(o), WholeOrNot(o), orders'[o] = orders[o],
         AdjustsOf(o)' = AdjustsOf(o), \A i : Restored(o, i)' = Restored(o, i)
  PROVE  OnlyVoidsRestore(o)' /\ WholeOrNot(o)'
BY DEF OnlyVoidsRestore, WholeOrNot

(* A step that writes no order, adjustment or void.                        *)
LEMMA QuietVoids ==
  ASSUME TidyInv, NEW t \in Tx, StepOf(t), UNCHANGED <<orders, adjusts, restored>>, ~overlapped',
         pc'[t] \in Open => PlanIsCurrent(t)'
  PROVE  VoidsFit'
<1>0. VoidsFit /\ StockTypeOK /\ AmendTypes
  BY TidyBefore
<1>1. ASSUME NEW o \in Orders' PROVE OnlyVoidsRestore(o)' /\ WholeOrNot(o)'
  <2>1. o \in Orders /\ orders'[o] = orders[o] /\ \A i : Restored(o, i)' = Restored(o, i)
    BY DEF Orders, Restored
  <2>2. AdjustsOf(o)' = AdjustsOf(o)
    BY DEF AdjustsOf, Amended
  <2> QED
    BY <1>0, <2>1, <2>2, VoidedAsBefore DEF VoidsFit
<1>2. ASSUME NEW u \in Tx, pc'[u] \in Open PROVE PlanIsCurrent(u)'
  <2>1. CASE u = t
    BY <1>2, <2>1
  <2>2. CASE u # t
    <3>1. Local(u)' = Local(u)
      BY <1>0, <2>2, OthersKeep
    <3>2. /\ pc'[u] = pc[u] /\ stage'[u] = stage[u] /\ draft'[u] = draft[u]
          /\ snap'[u] = snap[u] /\ plan'[u] = plan[u]
      BY <3>1 DEF Local
    <3>3. PlanIsCurrent(u)
      BY <1>0, <1>2, <3>2 DEF VoidsFit
    <3>4. \A o, i : Returned(o, i)' = Returned(o, i)
      BY ReturnedStays
    <3> QED
      BY <3>2, <3>3, <3>4 DEF PlanIsCurrent, ToRestore, Remaining
  <2> QED
    BY <2>1, <2>2
<1> QED
  BY <1>1, <1>2 DEF VoidsFit

(* A commit closes the only transaction that was open.                     *)
LEMMA CommitVoids ==
  ASSUME TidyInv, NEW t \in Tx, StepOf(t), Commit(t), ~overlapped',
         \A o \in Orders' : OnlyVoidsRestore(o)' /\ WholeOrNot(o)'
  PROVE  VoidsFit'
<1>1. Alone /\ StockTypeOK
  BY TidyBefore
<1>2. pc[t] \in Open /\ pc' = [pc EXCEPT ![t] = "committed"]
  BY DEF Commit, Done, Open
<1>3. \A u \in Tx : pc'[u] \notin Open
  BY <1>1, <1>2 DEF Alone, StockTypeOK, Open
<1> QED
  BY <1>3 DEF VoidsFit

LEMMA CommitSaleVoids ==
  ASSUME TidyInv, NEW t \in Tx, CommitSale(t), UNCHANGED adjustVars, ~overlapped'
  PROVE  VoidsFit'
<1> DEFINE new == NewOrder(sale[t], held[t].counter)
<1>0. StepOf(t) /\ Commit(t) /\ t \in OrderId
  BY DEF StepOf, OrdersStatement, SaleStatement, CommitSale, OrderId
<1>1. VoidsFit /\ AmendInv /\ AmendTypes /\ Recorded
  BY <1>0, TidyBefore
<1>2. orders[t] = NoOrder /\ orders' = [orders EXCEPT ![t] = new]
  BY <1>1, CommitSaleAmends
<1>3. orders'[t] = new /\ \A p \in OrderId \ {t} : orders'[p] = orders[p]
  BY <1>0, <1>1, <1>2 DEF AmendTypes
<1>4. \A p : AdjustsOf(p)' = AdjustsOf(p) /\ \A i : Restored(p, i)' = Restored(p, i)
  BY DEF Restored, AdjustsOf, Amended, adjustVars
<1>5. OnlyVoidsRestore(t)' /\ WholeOrNot(t)'
  <2>1. \A i : Restored(t, i) = 0
    BY <1>0, <1>1, <1>2 DEF Recorded, Restored
  <2>2. new.status = "COMPLETED"
    BY DEF NewOrder
  <2> QED
    BY <1>3, <1>4, <2>1, <2>2 DEF OnlyVoidsRestore, WholeOrNot
<1>6. ASSUME NEW p \in Orders', p # t PROVE OnlyVoidsRestore(p)' /\ WholeOrNot(p)'
  <2>1. p \in OrderId /\ orders'[p] = orders[p] /\ p \in Orders
    BY <1>3, <1>6 DEF Orders
  <2> QED
    BY <1>1, <1>4, <2>1, VoidedAsBefore DEF VoidsFit
<1> QED
  BY <1>0, <1>5, <1>6, CommitVoids

LEMMA AdjustmentVoids ==
  ASSUME TidyInv, NEW t \in Tx, CommitAdjust(t), ~overlapped', NEW a, a = draft[t], NEW o, o = a.order
  PROVE  VoidsFit'
<1>0. AmendInv
  BY DEF TidyInv, PostingInv
<1>1. /\ StepOf(t) /\ Commit(t) /\ pc[t] = "read" /\ stage[t] = "adjusting"
      /\ a \in Adjustment /\ o \in OrderId /\ adjusts[t] = NoOrder /\ orders[o] \in OrderType
  BY <1>0, AdjustingKnows
<1>2. VoidsFit /\ CopyIsCurrent /\ StillLive /\ AmendTypes
  BY <1>1, TidyBefore
<1>3. orders[o].status # "CANCELLED" /\ orders[o] # NoOrder
  <2>1. pc[t] \in Open /\ stage[t] \in Amending /\ stage[t] \in Decided
    BY <1>1 DEF Open, Amending, Decided
  <2> QED
    BY <1>2, <2>1 DEF CopyIsCurrent, StillLive, Cancelled
<1>4. PICK row : ItemsStay /\ orders' = [orders EXCEPT ![o] = row]
  BY <1>0, CommitAdjustAmends
<1>5. adjusts' = [adjusts EXCEPT ![t] = a] /\ restored' = restored /\ a # NoOrder
  BY <1>1, AdjustmentTypes DEF CommitAdjust
<1>6. \A p \in OrderId \ {o} : orders'[p] = orders[p] /\ AdjustsOf(p)' = AdjustsOf(p)
  BY <1>1, <1>2, <1>4, <1>5 DEF AmendTypes, AdjustsOf, Amended
<1>7. \A p, i : Restored(p, i)' = Restored(p, i)
  BY <1>5 DEF Restored
<1>8. OnlyVoidsRestore(o)' /\ WholeOrNot(o)'
  <2>1. t \in AdjustsOf(o)'
    BY <1>2, <1>5 DEF AmendTypes, AdjustsOf, Amended
  <2>2. orders'[o].lines = orders[o].lines /\ o \in Orders
    BY <1>1, <1>3, <1>4 DEF ItemsStay, SameItems, Orders
  <2>3. \A i \in DOMAIN orders[o].lines : Restored(o, i) = 0
    BY <1>2, <1>3, <2>2 DEF VoidsFit, OnlyVoidsRestore
  <2> QED
    BY <1>7, <2>1, <2>2, <2>3 DEF OnlyVoidsRestore, WholeOrNot
<1>9. ASSUME NEW p \in Orders', p # o PROVE OnlyVoidsRestore(p)' /\ WholeOrNot(p)'
  <2>1. p \in OrderId /\ orders'[p] = orders[p] /\ p \in Orders
    BY <1>6, <1>9 DEF Orders
  <2> QED
    BY <1>2, <1>6, <1>7, <1>9, <2>1, VoidedAsBefore DEF VoidsFit
<1> QED
  BY <1>1, <1>8, <1>9, CommitVoids

LEMMA CommitAdjustVoids ==
  ASSUME TidyInv, NEW t \in Tx, CommitAdjust(t), ~overlapped'
  PROVE  VoidsFit'
BY AdjustmentVoids

LEMMA VoidVoids ==
  ASSUME TidyInv, NEW t \in Tx, CommitVoid(t), ~overlapped', NEW o, o = draft[t].order
  PROVE  VoidsFit'
<1>0. AmendInv
  BY DEF TidyInv, PostingInv
<1>1. /\ StepOf(t) /\ Commit(t) /\ pc[t] = "read" /\ stage[t] = "voiding" /\ o \in OrderId
      /\ orders[o] \in OrderType
  BY <1>0, VoidingKnows
<1>2. VoidsFit /\ CopyIsCurrent /\ StillLive /\ AmendTypes /\ Recorded
  BY <1>1, TidyBefore
<1>3. snap[t] = orders[o] /\ orders[o].status # "CANCELLED" /\ plan[t] = ToRestore(orders[o], o)
  <2>1. pc[t] \in Open /\ stage[t] \in Amending /\ stage[t] \in Decided
    BY <1>1 DEF Open, Amending, Decided
  <2> QED
    BY <1>1, <1>2, <2>1 DEF CopyIsCurrent, StillLive, Cancelled, VoidsFit, PlanIsCurrent
<1>4. /\ orders' = [orders EXCEPT ![o] = [orders[o] EXCEPT !.status = "CANCELLED"]]
      /\ ItemsStay /\ adjusts' = adjusts
      /\ \A p \in OrderId : \A i :
           Restored(p, i)' = Restored(p, i)
             + IF p = o /\ i \in DOMAIN orders[o].lines THEN plan[t][i] ELSE 0
  BY <1>0, <1>3, CommitVoidAmends
<1>5. orders[o] # NoOrder /\ orders[o].lines \in Seq(Line)
  BY <1>1, OrderTypes
<1>6. /\ orders'[o].lines = orders[o].lines /\ orders'[o].status = "CANCELLED"
      /\ \A p \in OrderId \ {o} : orders'[p] = orders[p]
  BY <1>1, <1>2, <1>4 DEF AmendTypes, OrderType
<1>7. \A p : AdjustsOf(p)' = AdjustsOf(p)
  BY <1>4 DEF AdjustsOf, Amended
<1>8. OnlyVoidsRestore(o)' /\ WholeOrNot(o)'
  <2> SUFFICES ASSUME AdjustsOf(o) = {}, NEW i \in DOMAIN orders[o].lines
               PROVE  Restored(o, i)' = orders[o].lines[i].qty
    BY <1>6, <1>7 DEF OnlyVoidsRestore, WholeOrNot
  <2>1. orders[o].status = "COMPLETED" /\ Restored(o, i) = 0
    BY <1>1, <1>2, <1>3, <1>5 DEF VoidsFit, WholeOrNot, OnlyVoidsRestore, Orders
  <2>2. Returned(o, i) = 0 /\ orders[o].lines[i].qty \in Nat \ {0}
    BY <1>5, SumEmpty, LinesTypes DEF Returned
  <2>3. plan[t][i] = orders[o].lines[i].qty
    <3>1. /\ Remaining(o, orders[o], i) = orders[o].lines[i].qty
          /\ Remaining(o, orders[o], i) > 0
      BY <2>2 DEF Remaining
    <3>2. plan[t] = ToRestore(orders[o], o)
      BY <1>3
    <3> QED
      BY ONLY <2>1, <3>1, <3>2, i \in DOMAIN orders[o].lines DEF ToRestore
  <2> QED
    BY <1>1, <1>4, <2>1, <2>2, <2>3
<1>9. ASSUME NEW p \in Orders', p # o PROVE OnlyVoidsRestore(p)' /\ WholeOrNot(p)'
  <2>1. p \in OrderId /\ orders'[p] = orders[p] /\ p \in Orders
    BY <1>6, <1>9 DEF Orders
  <2>2. \A i : Restored(p, i)' = Restored(p, i)
    <3>1. \A i : Restored(p, i) \in Nat
      BY <1>2, <2>1, RestoredTypes
    <3> QED
      BY <1>4, <1>9, <2>1, <3>1
  <2> QED
    BY <1>2, <1>7, <2>1, <2>2, VoidedAsBefore DEF VoidsFit
<1> QED
  BY <1>1, <1>8, <1>9, CommitVoids

LEMMA CommitVoidVoids ==
  ASSUME TidyInv, NEW t \in Tx, CommitVoid(t), ~overlapped'
  PROVE  VoidsFit'
BY VoidVoids

LEMMA ReadRestoresVoids ==
  ASSUME TidyInv, NEW t \in Tx, ReadRestores(t), ~overlapped'
  PROVE  VoidsFit'
<1>0. StepOf(t) /\ AmendTypes /\ StockTypeOK
  BY DEF StepOf, OrdersStatement, TidyInv, PostingInv, AmendInv, StockInv
<1>1. CASE Refuse(t)
  <2>1. pc'[t] \notin Open /\ UNCHANGED <<orders, adjusts, restored>>
    BY <1>0, <1>1 DEF Refuse, Rollback, saleVars, adjustVars, StockTypeOK, Open
  <2> QED
    BY <1>0, <2>1, QuietVoids
<1>2. CASE PlanVoid(t)
  <2>1. UNCHANGED <<orders, adjusts, restored>>
    BY <1>2 DEF PlanVoid
  <2>2. /\ draft'[t] = draft[t] /\ snap'[t] = snap[t]
        /\ plan'[t] = ToRestore(snap[t], draft[t].order)
    BY <1>0, <1>2 DEF PlanVoid, AmendTypes
  <2>3. \A o, i : Returned(o, i)' = Returned(o, i)
    BY <2>1, ReturnedStays
  <2>4. PlanIsCurrent(t)'
    BY <2>2, <2>3 DEF PlanIsCurrent, ToRestore, Remaining
  <2> QED
    BY <1>0, <2>1, <2>4, QuietVoids
<1> QED
  BY <1>1, <1>2 DEF ReadRestores

LEMMA OtherVoids ==
  ASSUME TidyInv, NEW t \in Tx, StepOf(t), ~overlapped', UNCHANGED <<orders, adjusts, restored>>,
         \/ stage'[t] # "voiding"
         \/ pc'[t] \notin Open
         \/ pc[t] \in Open /\ UNCHANGED <<stage, draft, snap, plan>>
  PROVE  VoidsFit'
<1>1. VoidsFit
  BY TidyBefore
<1>2. \A o, i : Returned(o, i)' = Returned(o, i)
  BY ReturnedStays
<1>3. pc'[t] \in Open => PlanIsCurrent(t)'
  BY <1>1, <1>2 DEF VoidsFit, PlanIsCurrent, ToRestore, Remaining
<1> QED
  BY <1>3, QuietVoids

LEMMA StepVoids ==
  ASSUME TidyInv, NEW t \in Tx, StepOf(t), ~overlapped'
  PROVE  VoidsFit'
<1>0. AmendTypes /\ StockTypeOK /\ Slots
  BY TidyBefore
<1>1. CASE \/ \E s \in Sale : OpenSale(t, s) /\ UNCHANGED adjustVars
           \/ \E a \in Adjustment : OpenAdjust(t, a)
           \/ \E o \in Voidable : OpenVoid(t, o)
  <2>1. stage'[t] # "voiding" /\ UNCHANGED <<orders, adjusts, restored>>
    BY <1>0, <1>1 DEF OpenSale, OpenAdjust, OpenVoid, AmendTypes, adjustVars
  <2> QED
    BY <2>1, OtherVoids
<1>2. CASE RejectSale(t) /\ UNCHANGED adjustVars
  <2>1. pc'[t] \notin Open /\ UNCHANGED <<orders, adjusts, restored>>
    BY <1>0, <1>2 DEF RejectSale, Rollback, adjustVars, StockTypeOK, Open
  <2> QED
    BY <2>1, OtherVoids
<1>3. CASE TakeReceipt(t) /\ UNCHANGED adjustVars
  <2>1. stage'[t] # "voiding" /\ UNCHANGED <<orders, adjusts, restored>>
    BY <1>0, <1>3 DEF TakeReceipt, AmendTypes, adjustVars
  <2> QED
    BY <2>1, OtherVoids
<1>4. CASE (SaleStep(t, Statement(t)) \/ SaleStep(t, Fail(t))) /\ UNCHANGED adjustVars
  <2>1. pc[t] \in Open
    BY <1>0, <1>4, StatementMoves DEF SaleStep
  <2>2. UNCHANGED <<orders, adjusts, restored, stage, draft, snap, plan>>
    BY <1>4 DEF SaleStep, adjustVars
  <2> QED
    BY <2>1, <2>2, OtherVoids
<1>5. CASE ReadReturns(t)
  <2>1. UNCHANGED <<orders, adjusts, restored>> /\ (stage'[t] # "voiding" \/ pc'[t] \notin Open)
    BY <1>0, <1>5 DEF ReadReturns, Refuse, PlanAdjust, Rollback, saleVars, adjustVars, StockTypeOK,
       AmendTypes, Open
  <2> QED
    BY <2>1, OtherVoids
<1> QED
  BY <1>1, <1>2, <1>3, <1>4, <1>5, CommitSaleVoids, CommitAdjustVoids, CommitVoidVoids,
     ReadRestoresVoids
     DEF StepOf, OrdersStatement, SaleStatement

LEMMA StutterVoids ==
  ASSUME TidyInv, UNCHANGED ordersVars, ~overlapped'
  PROVE  Serial' /\ VoidsFit'
<1> USE DEF ordersVars, salesVars, stockVars, saleVars, adjustVars
<1>1. Serial /\ VoidsFit
  BY DEF TidyInv
<1>2. Serial'
  BY <1>1 DEF Serial, Alone, NothingStale, BasisCurrent, At, Sees, Target, Current
<1>3. \A o, i : Returned(o, i)' = Returned(o, i)
  BY ReturnedStays
<1>4. \A o : AdjustsOf(o)' = AdjustsOf(o) /\ \A i : Restored(o, i)' = Restored(o, i)
  BY DEF AdjustsOf, Amended, Restored
<1>5. \A o \in Orders' : OnlyVoidsRestore(o)' /\ WholeOrNot(o)'
  BY <1>1, <1>4, VoidedAsBefore DEF VoidsFit, Orders
<1>6. \A t \in Tx : pc'[t] \in Open => PlanIsCurrent(t)'
  BY <1>1, <1>3 DEF VoidsFit, PlanIsCurrent, ToRestore, Remaining
<1> QED
  BY <1>2, <1>5, <1>6 DEF VoidsFit

LEMMA NextTidyInv == TidyInv /\ [OrdersNext]_ordersVars => TidyInv'
<1> SUFFICES ASSUME TidyInv, [OrdersNext]_ordersVars PROVE TidyInv'
  OBVIOUS
<1>1. PostingInv' /\ OrdersInv'
  BY NextPostingInv, NextOrdersInv DEF TidyInv
<1>2. ASSUME ~overlapped' PROVE Serial' /\ VoidsFit'
  <2>1. CASE \E t \in Tx : StepOf(t)
    BY <1>2, <2>1, StepSerial, StepVoids
  <2>2. CASE UNCHANGED ordersVars
    BY <1>2, <2>2, StutterVoids
  <2> QED
    BY <2>1, <2>2 DEF OrdersNext, OrdersTerminating, StepOf
<1> QED
  BY <1>1, <1>2 DEF TidyInv

LEMMA TidyInitInv == OrdersInit => TidyInv
<1> SUFFICES ASSUME OrdersInit PROVE TidyInv
  OBVIOUS
<1>0. SalesInit /\ StockInit /\ PostingInv /\ OrdersInv /\ SerialInv
  BY PostingInitInv, OrdersInitInv, InitSerialInv DEF OrdersInit, SalesInit
<1>1. ASSUME NEW o \in Orders PROVE OnlyVoidsRestore(o) /\ WholeOrNot(o)
  <2>1. o \in Past /\ orders[o] = Placed[o] /\ o \in OrderId
    BY <1>0 DEF Orders, OrderId, SalesInit
  <2>2. Placed[o].status = "COMPLETED"
    BY <2>1, FreshAssumption
  <2>3. \A i : Restored(o, i) = 0
    <3>1. DOMAIN restored[o] = {}
      BY <2>1 DEF OrdersInit
    <3> QED
      BY <3>1 DEF Restored
  <2> QED
    BY <2>1, <2>2, <2>3 DEF OnlyVoidsRestore, WholeOrNot
<1>2. \A t \in Tx : pc[t] \notin Open
  BY <1>0 DEF StockInit, Open
<1> QED
  BY <1>0, <1>1, <1>2 DEF TidyInv, VoidsFit, SerialInv

-----------------------------------------------------------------------------
(* What the summary of every order reads, by document, had every item cost *)
(* what it costs today.                                                    *)
Today == [x \in OrderId |-> CostNow]

LEMMA SoldByDocument ==
  ASSUME CostsTyped, AmendTypes, Recorded
  PROVE  CostSold(Today, OrderId) = SumFunctionOnSet(SoldCost, SaleOrders(OrderId))
<1> DEFINE D == SaleOrders(OrderId)
           P == SaleItemsOf(OrderId)
           f == [x \in P |-> Today[x[1]][Sold(x).row] * Sold(x).qty]
           I == [o \in D |-> DOMAIN orders[o].lines]
           g == [o \in D |-> CostsOf(orders[o].lines, QtyOf(orders[o].lines))]
<1>1. /\ IsFiniteSet(D)
      /\ \A o \in D : o \in Orders /\ orders[o].lines \in Seq(Line)
  BY SalesByDocument
<1>2. P = UNION {{<<o, i>> : i \in I[o]} : o \in D}
  BY DEF SaleItemsOf
<1>3. ASSUME NEW o \in D
      PROVE  /\ IsFiniteSet(I[o])
             /\ SoldCost[o] = SumFunctionOnSet(g[o], I[o])
             /\ \A i \in I[o] : /\ g[o][i] \in Int
                                /\ g[o][i] = CostNow[orders[o].lines[i].row] * orders[o].lines[i].qty
  <2> DEFINE lines == orders[o].lines
             q == QtyOf(lines)
  <2>1. lines \in Seq(Line) /\ o \in Orders
    BY <1>1
  <2>2. IntValued(q, DOMAIN lines)
    BY <2>1, LinesTypes DEF QtyOf, IntValued
  <2>3. IsFiniteSet(DOMAIN lines)
    BY <2>1, LinesTypes
  <2>4. SoldCost[o] = SumFunctionOnSet(g[o], I[o])
    BY <2>1 DEF SoldCost, CostOf
  <2>5. ASSUME NEW i \in DOMAIN lines
        PROVE  /\ CostsOf(lines, q)[i] \in Int
               /\ CostsOf(lines, q)[i] = CostNow[lines[i].row] * lines[i].qty
    <3>1. lines[i].qty \in Nat /\ lines[i].row \in Row
      BY <2>1, LinesTypes
    <3>2. CostNow[lines[i].row] \in Nat
      BY <3>1, CostTypes
    <3>3. CostsOf(lines, q)[i] = lines[i].qty * CostNow[lines[i].row]
      BY DEF CostsOf, QtyOf
    <3>4. \A m, n \in Nat : m * n \in Int /\ m * n = n * m
      OBVIOUS
    <3> QED
      BY <3>1, <3>2, <3>3, <3>4
  <2> QED
    BY <2>3, <2>4, <2>5
<1>4. \A o \in D : \A i \in I[o] : <<o, i>> \in P /\ f[<<o, i>>] = g[o][i]
  <2> SUFFICES ASSUME NEW o \in D, NEW i \in I[o]
               PROVE  <<o, i>> \in P /\ f[<<o, i>>] = g[o][i]
    OBVIOUS
  <2>1. <<o, i>> \in P
    BY <1>2
  <2>2. f[<<o, i>>] = Today[o][Sold(<<o, i>>).row] * Sold(<<o, i>>).qty
    BY <2>1
  <2>4. Today[o] = CostNow
    BY <1>1 DEF Today, Orders
  <2>3. Sold(<<o, i>>) = orders[o].lines[i]
    BY DEF Sold
  <2> HIDE DEF f, g
  <2> QED
    BY <1>3, <2>1, <2>2, <2>3, <2>4
<1>5. \A x \in P : \E o \in D : \E i \in I[o] : x = <<o, i>>
  BY <1>2
<1>6. CostSold(Today, OrderId) = SumFunctionOnSet(f, P)
  <2>1. CostSold(Today, OrderId) = SumFunction(f) /\ DOMAIN f = P
    BY DEF CostSold
  <2> HIDE DEF f, P
  <2> QED
    BY <2>1, SumDomain
<1> HIDE DEF D, P, f, I, g
<1>7. IntValued(f, P)
  BY <1>3, <1>4, <1>5 DEF IntValued
<1>8. Itemised(P, D, I)
  BY <1>1, <1>3, <1>4, <1>5 DEF Itemised
<1>9. TotalsOf(SoldCost, g, f, D, I)
  BY <1>3, <1>4 DEF TotalsOf
<1>10. SumFunctionOnSet(f, P) = SumFunctionOnSet(SoldCost, D)
  BY ONLY <1>7, <1>8, <1>9, SumItems
<1> QED
  BY <1>6, <1>10 DEF D

LEMMA BackByDocument ==
  ASSUME CostsTyped, AmendTypes, Recorded
  PROVE  CostReturned(Today, OrderId) = SumFunctionOnSet(BackCost, Amended)
<1> DEFINE order(t) == orders[adjusts[t].order]
           P == {y \in ReturnItemsOf(OrderId) : BackOnShelf(y)}
           f == [x \in P |-> Today[adjusts[x[1]].order][ReturnedLine(x).row] * Return(x).qty]
           I == [t \in Amended |-> RestockOf(adjusts[t].returns)]
           g == [t \in Amended |-> BackCosts(order(t), adjusts[t].returns)]
<1>1. IsFiniteSet(Amended) /\ Adjusted(OrderId) = Amended
  BY DEF Recorded, Adjusted, Amended, OrderId
<1>2. ReturnItemsOf(OrderId) = UNION {{<<t, k>> : k \in DOMAIN adjusts[t].returns} : t \in Amended}
  BY <1>1 DEF ReturnItemsOf
<1>3. \A t : \A k : Return(<<t, k>>) = adjusts[t].returns[k]
                    /\ ReturnedLine(<<t, k>>) = order(t).lines[adjusts[t].returns[k].item]
  BY DEF Return, ReturnedLine
<1>4. ASSUME NEW t \in Amended
      PROVE  /\ IsFiniteSet(I[t])
             /\ BackCost[t] = SumFunctionOnSet(g[t], I[t])
             /\ \A k \in I[t] : g[t][k] \in Int
  <2>1. order(t).lines \in Seq(Line) /\ adjusts[t] \in Adjustment
        /\ Within(adjusts[t].returns, order(t).lines)
    BY AmendedKnown
  <2>2. BackCost[t] = SumFunctionOnSet(g[t], I[t])
    BY DEF BackCost
  <2> DEFINE h == [r \in Row |-> RestockedBy(order(t), adjusts[t], r) * CostNow[r]]
  <2>3. \A r \in Row : h[r] = RestockedBy(order(t), adjusts[t], r) * CostNow[r]
    OBVIOUS
  <2> HIDE DEF h
  <2>4. /\ IntValued(BackCosts(order(t), adjusts[t].returns), RestockOf(adjusts[t].returns))
        /\ IsFiniteSet(RestockOf(adjusts[t].returns))
    BY <2>1, <2>3, ReturnsWeigh
  <2> QED
    BY <2>2, <2>4 DEF IntValued
<1>5. \A t \in Amended : \A k \in I[t] : <<t, k>> \in P /\ f[<<t, k>>] = g[t][k]
  <2> SUFFICES ASSUME NEW t \in Amended, NEW k \in RestockOf(adjusts[t].returns)
               PROVE  <<t, k>> \in P /\ f[<<t, k>>] = g[t][k]
    OBVIOUS
  <2>1. k \in DOMAIN adjusts[t].returns /\ adjusts[t].returns[k].restock
    BY DEF RestockOf
  <2>2. <<t, k>> \in P
    BY <1>2, <1>3, <2>1 DEF BackOnShelf
  <2>3. f[<<t, k>>] = CostNow[ReturnedLine(<<t, k>>).row] * Return(<<t, k>>).qty
    <3>1. f[<<t, k>>] = Today[adjusts[t].order][ReturnedLine(<<t, k>>).row] * Return(<<t, k>>).qty
      BY <2>2
    <3>2. Today[adjusts[t].order] = CostNow
      BY AmendedKnown DEF Today
    <3> HIDE DEF f
    <3> QED
      BY <3>1, <3>2
  <2>4. g[t][k] = adjusts[t].returns[k].qty
                    * CostNow[order(t).lines[adjusts[t].returns[k].item].row]
    BY DEF BackCosts
  <2>5. /\ adjusts[t].returns[k].qty \in Nat
        /\ CostNow[order(t).lines[adjusts[t].returns[k].item].row] \in Nat
    <3>1. order(t).lines \in Seq(Line) /\ adjusts[t] \in Adjustment
          /\ Within(adjusts[t].returns, order(t).lines)
      BY AmendedKnown
    <3>2. adjusts[t].returns \in Seq(ReturnLine)
      BY <3>1, AdjustmentTypes
    <3>3. adjusts[t].returns[k].qty \in Nat /\ adjusts[t].returns[k].item \in DOMAIN order(t).lines
      BY <2>1, <3>1, <3>2, ReturnsTypes DEF Within
    <3> QED
      BY <3>1, <3>3, LinesTypes, CostTypes
  <2> DEFINE q == adjusts[t].returns[k].qty
             u == CostNow[order(t).lines[adjusts[t].returns[k].item].row]
  <2>6. f[<<t, k>>] = u * q
    BY <1>3, <2>3, Zenon
  <2>7. g[t][k] = q * u /\ q \in Nat /\ u \in Nat
    BY <2>4, <2>5, Zenon
  <2> HIDE DEF f, g, P, q, u
  <2>8. u * q = q * u
    BY ONLY <2>7
  <2> QED
    BY <2>2, <2>6, <2>7, <2>8, Zenon
<1>6. \A x \in P : \E t \in Amended : \E k \in I[t] : x = <<t, k>>
  <2> SUFFICES ASSUME NEW x \in ReturnItemsOf(OrderId), BackOnShelf(x)
               PROVE  \E t \in Amended : \E k \in RestockOf(adjusts[t].returns) : x = <<t, k>>
    OBVIOUS
  <2>1. PICK t \in Amended : \E k \in DOMAIN adjusts[t].returns : x = <<t, k>>
    BY <1>2
  <2>2. PICK k \in DOMAIN adjusts[t].returns : x = <<t, k>>
    BY <2>1
  <2>3. adjusts[t].returns[k].restock
    BY <1>3, <2>2 DEF BackOnShelf
  <2> QED
    BY <2>2, <2>3 DEF RestockOf
<1>7. CostReturned(Today, OrderId) = SumFunctionOnSet(f, P)
  <2>1. CostReturned(Today, OrderId) = SumFunction(f) /\ DOMAIN f = P
    BY DEF CostReturned
  <2> HIDE DEF f, P
  <2> QED
    BY <2>1, SumDomain
<1> HIDE DEF P, f, I, g
<1>8. IntValued(f, P)
  BY <1>4, <1>5, <1>6 DEF IntValued
<1>9. Itemised(P, Amended, I)
  BY <1>1, <1>4, <1>5, <1>6 DEF Itemised
<1>10. TotalsOf(BackCost, g, f, Amended, I)
  BY <1>4, <1>5 DEF TotalsOf
<1>11. SumFunctionOnSet(f, P) = SumFunctionOnSet(BackCost, Amended)
  BY ONLY <1>8, <1>9, <1>10, SumItems
<1> QED
  BY <1>7, <1>11

LEMMA ExtraByDocument ==
  ASSUME CostsTyped, AmendTypes, Recorded
  PROVE  /\ CostUnreported(Today) = SumFunctionOnSet(ExtraCost, Amended)
         /\ IsFiniteSet(ExtraItems)
<1> DEFINE P == ExtraItems
           f == [x \in P |-> Today[x[1]][Extra(x).row] * Extra(x).qty]
           I == [t \in Amended |-> DOMAIN adjusts[t].sales]
           g == [t \in Amended |-> CostsOf(adjusts[t].sales, QtyOf(adjusts[t].sales))]
<1>1. IsFiniteSet(Amended)
  BY DEF Recorded
<1>2. P = UNION {{<<t, k>> : k \in I[t]} : t \in Amended}
  BY DEF ExtraItems
<1>3. ASSUME NEW t \in Amended
      PROVE  /\ IsFiniteSet(I[t])
             /\ ExtraCost[t] = SumFunctionOnSet(g[t], I[t])
             /\ \A i \in I[t] : /\ g[t][i] \in Int
                                /\ g[t][i] = CostNow[adjusts[t].sales[i].row] * adjusts[t].sales[i].qty
  <2> DEFINE lines == adjusts[t].sales
             q == QtyOf(lines)
  <2>1. lines \in Seq(Line)
    BY AmendedKnown
  <2>3. IsFiniteSet(DOMAIN lines)
    BY <2>1, LinesTypes
  <2>4. ExtraCost[t] = SumFunctionOnSet(g[t], I[t])
    BY DEF ExtraCost, CostOf
  <2>5. ASSUME NEW i \in DOMAIN lines
        PROVE  /\ CostsOf(lines, q)[i] \in Int
               /\ CostsOf(lines, q)[i] = CostNow[lines[i].row] * lines[i].qty
    <3>1. lines[i].qty \in Nat /\ lines[i].row \in Row
      BY <2>1, LinesTypes
    <3>2. CostNow[lines[i].row] \in Nat
      BY <3>1, CostTypes
    <3>3. CostsOf(lines, q)[i] = lines[i].qty * CostNow[lines[i].row]
      BY DEF CostsOf, QtyOf
    <3>4. \A m, n \in Nat : m * n \in Int /\ m * n = n * m
      OBVIOUS
    <3> QED
      BY <3>1, <3>2, <3>3, <3>4
  <2> QED
    BY <2>3, <2>4, <2>5
<1>4. \A t \in Amended : \A i \in I[t] : <<t, i>> \in P /\ f[<<t, i>>] = g[t][i]
  <2> SUFFICES ASSUME NEW t \in Amended, NEW i \in I[t]
               PROVE  <<t, i>> \in P /\ f[<<t, i>>] = g[t][i]
    OBVIOUS
  <2>1. <<t, i>> \in P
    BY <1>2
  <2>2. f[<<t, i>>] = Today[t][Extra(<<t, i>>).row] * Extra(<<t, i>>).qty
    BY <2>1
  <2>3. Extra(<<t, i>>) = adjusts[t].sales[i]
    BY DEF Extra
  <2>4. Today[t] = CostNow
    BY DEF Today, Amended, OrderId
  <2> HIDE DEF f, g
  <2> QED
    BY <1>3, <2>1, <2>2, <2>3, <2>4
<1>5. \A x \in P : \E t \in Amended : \E i \in I[t] : x = <<t, i>>
  BY <1>2
<1>6. CostUnreported(Today) = SumFunctionOnSet(f, P)
  <2>1. CostUnreported(Today) = SumFunction(f) /\ DOMAIN f = P
    BY DEF CostUnreported
  <2> HIDE DEF f, P
  <2> QED
    BY <2>1, SumDomain
<1> HIDE DEF P, f, I, g
<1>7. IntValued(f, P)
  BY <1>3, <1>4, <1>5 DEF IntValued
<1>8. Itemised(P, Amended, I)
  BY <1>1, <1>3, <1>4, <1>5 DEF Itemised
<1>9. TotalsOf(ExtraCost, g, f, Amended, I)
  BY <1>3, <1>4 DEF TotalsOf
<1>10. IsFiniteSet(P) /\ SumFunctionOnSet(f, P) = SumFunctionOnSet(ExtraCost, Amended)
  BY ONLY <1>7, <1>8, <1>9, SumItems
<1> QED
  BY <1>6, <1>10 DEF P

(* In tidy tables a voided order gives back exactly what it cost.          *)
LEMMA VoidsCancelCost ==
  ASSUME CostsTyped, AmendTypes, Recorded, Tidy, \A o \in Orders : OnlyVoidsRestore(o) /\ WholeOrNot(o)
  PROVE  SumFunctionOnSet(SoldCost, SaleOrders(OrderId))
           = SumFunctionOnSet(SoldCost, Orders) - SumFunctionOnSet(VoidCost, Orders)
<1> DEFINE live == [o \in Orders |-> SoldCost[o] - VoidCost[o]]
<1>1. IsFiniteSet(Orders) /\ IntValued(SoldCost, Orders) /\ IntValued(VoidCost, Orders)
  BY SoldWeighs, VoidedWeighs DEF Recorded
<1>2. SaleOrders(OrderId) \in SUBSET Orders
  BY DEF SaleOrders
<1>3. ASSUME NEW o \in SaleOrders(OrderId) PROVE live[o] = SoldCost[o]
  <2>1. o \in Orders /\ orders[o].status # "CANCELLED"
    BY DEF SaleOrders, SaleStatuses
  <2> DEFINE I == DOMAIN orders[o].lines
             f == CostsOf(orders[o].lines, RestoredOf(o))
  <2>2. orders[o].lines \in Seq(Line) /\ IsFiniteSet(I)
    BY <2>1, OrderKnown, LinesTypes
  <2>3. \A i \in I : f[i] = 0
    <3> SUFFICES ASSUME NEW i \in I PROVE f[i] = 0
      OBVIOUS
    <3>1. f[i] = RestoredOf(o)[i] * CostNow[orders[o].lines[i].row] /\ RestoredOf(o)[i] = Restored(o, i)
      BY DEF CostsOf, RestoredOf
    <3>2. Restored(o, i) = 0 /\ CostNow[orders[o].lines[i].row] \in Nat
      BY <2>1, <2>2, LinesTypes, CostTypes DEF OnlyVoidsRestore
    <3>3. \A n \in Nat : 0 * n = 0
      OBVIOUS
    <3> HIDE DEF f
    <3> QED
      BY <3>1, <3>2, <3>3
  <2>4. VoidCost[o] = SumFunctionOnSet(f, I)
    BY <2>1 DEF VoidCost, CostOf
  <2>5. SoldCost[o] \in Int
    BY <1>1, <2>1 DEF IntValued
  <2> HIDE DEF f, I
  <2>6. VoidCost[o] = 0
    BY <2>2, <2>3, <2>4, SumZero
  <2> QED
    BY <2>1, <2>5, <2>6
<1>4. ASSUME NEW o \in Orders \ SaleOrders(OrderId) PROVE live[o] = 0
  <2>1. orders[o].status = "CANCELLED" /\ o \in OrderId /\ orders[o].lines \in Seq(Line)
    BY OrderKnown DEF SaleOrders, SaleStatuses, OrderType, Status
  <2> DEFINE I == DOMAIN orders[o].lines
             f == CostsOf(orders[o].lines, RestoredOf(o))
             g == CostsOf(orders[o].lines, QtyOf(orders[o].lines))
  <2>2. \A i \in I : Restored(o, i) = orders[o].lines[i].qty
    BY <2>1 DEF Tidy, WholeOrNot
  <2>3. f = g
    BY <2>2 DEF CostsOf, RestoredOf, QtyOf
  <2>4. SoldCost[o] = SumFunctionOnSet(g, I) /\ VoidCost[o] = SumFunctionOnSet(f, I)
    BY DEF SoldCost, VoidCost, CostOf
  <2>5. SoldCost[o] \in Int
    BY <1>1 DEF IntValued
  <2> HIDE DEF f, g, I
  <2> QED
    BY <2>3, <2>4, <2>5
<1>5. IntValued(SoldCost, SaleOrders(OrderId)) /\ \A o \in Orders : live[o] = SoldCost[o] - VoidCost[o]
  BY <1>1, <1>2 DEF IntValued
<1> HIDE DEF live
<1>6. SumFunctionOnSet(live, Orders) = SumFunctionOnSet(SoldCost, SaleOrders(OrderId))
  BY <1>1, <1>2, <1>3, <1>4, <1>5, SumWhere
<1>7. SumFunctionOnSet(live, Orders)
        = SumFunctionOnSet(SoldCost, Orders) - SumFunctionOnSet(VoidCost, Orders)
  BY <1>1, <1>5, SumMinus
<1> QED
  BY <1>6, <1>7

-----------------------------------------------------------------------------
(* What the columns f of a row are worth today.                            *)
Worth(f) == [r \in Row |-> f[r] * CostNow[r]]

LEMMA WorthTypes ==
  ASSUME CostsTyped, NEW f, IntValued(f, Row)
  PROVE  IntValued(Worth(f), Row) /\ SumFunctionOnSet(Worth(f), Row) \in Int
<1>1. \A r \in Row : f[r] \in Int /\ CostNow[r] \in Int /\ Worth(f)[r] = f[r] * CostNow[r]
  BY CostTypes DEF IntValued, Worth
<1>2. IntValued(Worth(f), Row)
  BY <1>1 DEF IntValued
<1> QED
  BY <1>2, CostTypes, SumInt

(* Costs are linear: what items cost at the time and what that changed by  *)
(* since make what they cost today.                                        *)
Change == [x \in OrderId |-> [r \in Row |-> CostNow[r] - costAt[x][r]]]

LEMMA ChangeTypes ==
  ASSUME CostsTyped, NEW x \in OrderId, NEW r \in Row, NEW n \in Nat
  PROVE  /\ costAt[x][r] * n \in Int /\ Change[x][r] * n \in Int
         /\ Today[x][r] * n = costAt[x][r] * n + Change[x][r] * n
<1>1. /\ costAt[x][r] \in Nat /\ CostNow[r] \in Nat
      /\ Change[x][r] = CostNow[r] - costAt[x][r] /\ Today[x][r] = CostNow[r]
  BY CostTypes DEF CostsTyped, Change, Today
<1> DEFINE a == costAt[x][r]
           b == CostNow[r]
<1>2. a \in Nat /\ b \in Nat
  BY <1>1
<1> HIDE DEF a, b
<1>3. a * n \in Int /\ (b - a) * n \in Int /\ b * n = a * n + (b - a) * n
  BY <1>2
<1> QED
  BY <1>1, <1>3, Zenon DEF a, b

LEMMA SumChanges ==
  ASSUME NEW P, IsFiniteSet(P), NEW f, NEW g, NEW h, DOMAIN f = P, DOMAIN g = P, DOMAIN h = P,
         \A x \in P : g[x] \in Int /\ h[x] \in Int /\ f[x] = g[x] + h[x]
  PROVE  /\ SumFunction(f) = SumFunction(g) + SumFunction(h)
         /\ SumFunction(g) \in Int /\ SumFunction(h) \in Int
<1>1. IntValued(g, P) /\ IntValued(h, P)
  BY DEF IntValued
<1>2. SumFunctionOnSet(f, P) = SumFunctionOnSet(g, P) + SumFunctionOnSet(h, P)
  BY <1>1, SumPlus
<1> QED
  BY <1>1, <1>2, SumDomain, SumInt

LEMMA SoldChange ==
  ASSUME CostsTyped, AmendTypes, Recorded, NEW p
  PROVE  /\ CostSold(Today, p) = CostSold(costAt, p) + CostSold(Change, p)
         /\ CostSold(costAt, p) \in Int /\ CostSold(Change, p) \in Int
<1> DEFINE P == SaleItemsOf(p)
           f(v) == [x \in P |-> v[x[1]][Sold(x).row] * Sold(x).qty]
<1>1. IsFiniteSet(P)
  BY SalesNear
<1>2. ASSUME NEW x \in P
      PROVE  /\ f(costAt)[x] \in Int /\ f(Change)[x] \in Int
             /\ f(Today)[x] = f(costAt)[x] + f(Change)[x]
  <2>1. PICK o \in SaleOrders(p) : \E i \in DOMAIN orders[o].lines : x = <<o, i>>
    BY DEF SaleItemsOf
  <2>2. PICK i \in DOMAIN orders[o].lines : x = <<o, i>>
    BY <2>1
  <2>3. x[1] \in OrderId /\ Sold(x) = orders[o].lines[i] /\ orders[o].lines \in Seq(Line)
    BY <2>2, SalesByDocument DEF Sold, Orders
  <2>4. Sold(x).row \in Row /\ Sold(x).qty \in Nat
    BY <2>3, LinesTypes
  <2>5. /\ f(costAt)[x] = costAt[x[1]][Sold(x).row] * Sold(x).qty
        /\ f(Change)[x] = Change[x[1]][Sold(x).row] * Sold(x).qty
        /\ f(Today)[x] = Today[x[1]][Sold(x).row] * Sold(x).qty
    OBVIOUS
  <2>6. /\ costAt[x[1]][Sold(x).row] * Sold(x).qty \in Int
        /\ Change[x[1]][Sold(x).row] * Sold(x).qty \in Int
        /\ Today[x[1]][Sold(x).row] * Sold(x).qty
             = costAt[x[1]][Sold(x).row] * Sold(x).qty + Change[x[1]][Sold(x).row] * Sold(x).qty
    <3> DEFINE y == x[1]
               r == Sold(x).row
               n == Sold(x).qty
    <3>1. y \in OrderId /\ r \in Row /\ n \in Nat
      BY <2>3, <2>4
    <3> HIDE DEF y, r, n
    <3>2. /\ costAt[y][r] * n \in Int /\ Change[y][r] * n \in Int
          /\ Today[y][r] * n = costAt[y][r] * n + Change[y][r] * n
      BY <3>1, ChangeTypes
    <3> QED
      BY <3>2 DEF y, r, n
  <2> HIDE DEF f
  <2> QED
    BY <2>5, <2>6
<1>3. \A v : CostSold(v, p) = SumFunction(f(v)) /\ DOMAIN f(v) = P
  BY DEF CostSold
<1> HIDE DEF P, f
<1> QED
  BY <1>1, <1>2, <1>3, SumChanges

LEMMA ReturnedChange ==
  ASSUME CostsTyped, AmendTypes, Recorded, NEW p
  PROVE  /\ CostReturned(Today, p) = CostReturned(costAt, p) + CostReturned(Change, p)
         /\ CostReturned(costAt, p) \in Int /\ CostReturned(Change, p) \in Int
<1> DEFINE P == {y \in ReturnItemsOf(p) : BackOnShelf(y)}
           f(v) == [x \in P |-> v[adjusts[x[1]].order][ReturnedLine(x).row] * Return(x).qty]
<1>1. IsFiniteSet(P)
  BY RefundsBalance, FS_Subset
<1>2. ASSUME NEW x \in P
      PROVE  /\ f(costAt)[x] \in Int /\ f(Change)[x] \in Int
             /\ f(Today)[x] = f(costAt)[x] + f(Change)[x]
  <2>1. PICK t \in Adjusted(p) : \E k \in DOMAIN adjusts[t].returns : x = <<t, k>>
    BY DEF ReturnItemsOf
  <2>2. PICK k \in DOMAIN adjusts[t].returns : x = <<t, k>>
    BY <2>1
  <2>3. t \in Amended
    BY DEF Adjusted, Amended
  <2>4. /\ adjusts[x[1]].order \in OrderId /\ Return(x) = adjusts[t].returns[k]
        /\ ReturnedLine(x) = orders[adjusts[t].order].lines[adjusts[t].returns[k].item]
    BY <2>2, <2>3, AmendedKnown DEF Return, ReturnedLine
  <2>5. /\ orders[adjusts[t].order].lines \in Seq(Line)
        /\ adjusts[t].returns \in Seq(ReturnLine)
        /\ Within(adjusts[t].returns, orders[adjusts[t].order].lines)
    BY <2>3, AmendedKnown, AdjustmentTypes
  <2>6. adjusts[t].returns[k].item \in DOMAIN orders[adjusts[t].order].lines
    BY <2>2, <2>5 DEF Within
  <2>7. ReturnedLine(x).row \in Row /\ Return(x).qty \in Nat
    BY <2>2, <2>4, <2>5, <2>6, LinesTypes, ReturnsTypes
  <2>8. /\ f(costAt)[x] = costAt[adjusts[x[1]].order][ReturnedLine(x).row] * Return(x).qty
        /\ f(Change)[x] = Change[adjusts[x[1]].order][ReturnedLine(x).row] * Return(x).qty
        /\ f(Today)[x] = Today[adjusts[x[1]].order][ReturnedLine(x).row] * Return(x).qty
    OBVIOUS
  <2>9. /\ costAt[adjusts[x[1]].order][ReturnedLine(x).row] * Return(x).qty \in Int
        /\ Change[adjusts[x[1]].order][ReturnedLine(x).row] * Return(x).qty \in Int
        /\ Today[adjusts[x[1]].order][ReturnedLine(x).row] * Return(x).qty
             = costAt[adjusts[x[1]].order][ReturnedLine(x).row] * Return(x).qty + Change[adjusts[x[1]].order][ReturnedLine(x).row] * Return(x).qty
    <3> DEFINE y == adjusts[x[1]].order
               r == ReturnedLine(x).row
               n == Return(x).qty
    <3>1. y \in OrderId /\ r \in Row /\ n \in Nat
      BY <2>4, <2>7
    <3> HIDE DEF y, r, n
    <3>2. /\ costAt[y][r] * n \in Int /\ Change[y][r] * n \in Int
          /\ Today[y][r] * n = costAt[y][r] * n + Change[y][r] * n
      BY <3>1, ChangeTypes
    <3> QED
      BY <3>2 DEF y, r, n
  <2> HIDE DEF f
  <2> QED
    BY <2>8, <2>9
<1>3. \A v : CostReturned(v, p) = SumFunction(f(v)) /\ DOMAIN f(v) = P
  BY DEF CostReturned
<1> HIDE DEF P, f
<1> QED
  BY <1>1, <1>2, <1>3, SumChanges

LEMMA ExtraChange ==
  ASSUME CostsTyped, AmendTypes, Recorded
  PROVE  /\ CostUnreported(Today) = CostUnreported(costAt) + CostUnreported(Change)
         /\ CostUnreported(costAt) \in Int /\ CostUnreported(Change) \in Int
<1> DEFINE P == ExtraItems
           f(v) == [x \in P |-> v[x[1]][Extra(x).row] * Extra(x).qty]
<1>1. IsFiniteSet(P)
  BY ExtraByDocument
<1>2. ASSUME NEW x \in P
      PROVE  /\ f(costAt)[x] \in Int /\ f(Change)[x] \in Int
             /\ f(Today)[x] = f(costAt)[x] + f(Change)[x]
  <2>1. PICK t \in Amended : \E k \in DOMAIN adjusts[t].sales : x = <<t, k>>
    BY DEF ExtraItems
  <2>2. PICK k \in DOMAIN adjusts[t].sales : x = <<t, k>>
    BY <2>1
  <2>3. x[1] \in OrderId /\ Extra(x) = adjusts[t].sales[k] /\ adjusts[t].sales \in Seq(Line)
    BY <2>2, AmendedKnown DEF Extra, OrderId
  <2>4. Extra(x).row \in Row /\ Extra(x).qty \in Nat
    BY <2>2, <2>3, LinesTypes
  <2>5. /\ f(costAt)[x] = costAt[x[1]][Extra(x).row] * Extra(x).qty
        /\ f(Change)[x] = Change[x[1]][Extra(x).row] * Extra(x).qty
        /\ f(Today)[x] = Today[x[1]][Extra(x).row] * Extra(x).qty
    OBVIOUS
  <2>6. /\ costAt[x[1]][Extra(x).row] * Extra(x).qty \in Int
        /\ Change[x[1]][Extra(x).row] * Extra(x).qty \in Int
        /\ Today[x[1]][Extra(x).row] * Extra(x).qty
             = costAt[x[1]][Extra(x).row] * Extra(x).qty + Change[x[1]][Extra(x).row] * Extra(x).qty
    <3> DEFINE y == x[1]
               r == Extra(x).row
               n == Extra(x).qty
    <3>1. y \in OrderId /\ r \in Row /\ n \in Nat
      BY <2>3, <2>4
    <3> HIDE DEF y, r, n
    <3>2. /\ costAt[y][r] * n \in Int /\ Change[y][r] * n \in Int
          /\ Today[y][r] * n = costAt[y][r] * n + Change[y][r] * n
      BY <3>1, ChangeTypes
    <3> QED
      BY <3>2 DEF y, r, n
  <2> HIDE DEF f
  <2> QED
    BY <2>5, <2>6
<1>3. \A v : CostUnreported(v) = SumFunction(f(v)) /\ DOMAIN f(v) = P
  BY DEF CostUnreported
<1> HIDE DEF P, f
<1> QED
  BY <1>1, <1>2, <1>3, SumChanges

(* So the assets are stock and goods out at what they cost today.          *)
LEMMA AssetsToday ==
  ASSUME CostsTyped, AmendTypes, Recorded, StockValue \in Int
  PROVE  Assets = StockValue + CostOut(Today)
<1>1. Revaluation = CostOut(Change)
  BY DEF Revaluation, Change
<1>2. Summary(OrderId).cost = CostSold(costAt, OrderId) - CostReturned(costAt, OrderId)
  BY DEF Summary
<1>3. CostOut(Today) = CostOut(costAt) + CostOut(Change)
  BY SoldChange, ReturnedChange, ExtraChange DEF CostOut
<1>4. CostOut(costAt) = Summary(OrderId).cost + CostUnreported(costAt)
  BY <1>2 DEF CostOut
<1>5. CostOut(Change) \in Int /\ Summary(OrderId).cost \in Int /\ CostUnreported(costAt) \in Int
  BY <1>2, SoldChange, ReturnedChange, ExtraChange DEF CostOut
<1> QED
  BY <1>1, <1>3, <1>4, <1>5 DEF Assets

(* The stock report reads the positive rows; the others are worth nothing. *)
LEMMA StockByLedger ==
  ASSUME CostsTyped, StockInv, raced = {}
  PROVE  StockValue = SumFunctionOnSet(Worth(moved), Row) /\ IntValued(moved, Row)
<1> DEFINE T == {r \in Row : level[r] # Absent /\ level[r] > 0}
           f == [r \in T |-> level[r] * CostNow[r]]
<1>1. StockTypeOK /\ NeverNegative /\ \A r \in Row : Qty(level[r]) = moved[r]
  BY DEF StockInv, BooksBalance
<1>2. IntValued(moved, Row)
  BY <1>1 DEF StockTypeOK, IntValued
<1>3. \A r \in T : Worth(moved)[r] = f[r]
  BY <1>1 DEF Worth, Qty
<1>4. ASSUME NEW r \in Row \ T PROVE Worth(moved)[r] = 0
  <2>1. moved[r] = 0
    BY <1>1, <1>4 DEF StockTypeOK, NeverNegative, Qty
  <2>2. Worth(moved)[r] = 0 * CostNow[r] /\ CostNow[r] \in Nat
    BY <2>1, CostTypes DEF Worth
  <2> QED
    BY ONLY <2>2
<1>5. StockValue = SumFunctionOnSet(f, T)
  <2>1. StockValue = SumFunction(f) /\ DOMAIN f = T
    BY DEF StockValue
  <2> HIDE DEF f, T
  <2> QED
    BY <2>1, SumDomain
<1>6. T \in SUBSET Row
  OBVIOUS
<1> HIDE DEF f, T
<1>7. IntValued(f, T)
  BY <1>2, <1>3, <1>6, WorthTypes DEF IntValued
<1> QED
  BY <1>2, <1>3, <1>4, <1>5, <1>6, <1>7, CostTypes, SumWhere

Undocumented == [r \in Row |-> moved[r] - Documented(r)]

(* The state behind CostBalancesStock: what the reports add up to is the   *)
(* worth of what the ledger holds beyond its documents.                    *)
Balanced == Assets = SumFunctionOnSet(Worth(Undocumented), Row)

LEMMA Distributes ==
  ASSUME NEW m \in Int, NEW b \in Int, NEW v \in Int, NEW s \in Int, NEW x \in Int, NEW c \in Int
  PROVE  (m - (b + v - s - x)) * c = ((m * c + s * c) + x * c) - (b * c + v * c)
OBVIOUS

LEMMA TidyIsBalanced ==
  ASSUME CostsTyped, TidyInv, Tidy
  PROVE  Balanced
<1>0. /\ StockInv /\ AmendTypes /\ Recorded /\ raced = {}
      /\ \A o \in Orders : OnlyVoidsRestore(o) /\ WholeOrNot(o)
  BY DEF TidyInv, PostingInv, AmendInv, Tidy, Serial, NothingStale, VoidsFit
<1> DEFINE m == Worth(moved)
           sold == [r \in Row |-> SoldTotal(r) * CostNow[r]]
           voided == [r \in Row |-> VoidedIn(r) * CostNow[r]]
           back == [r \in Row |-> Restocked(r) * CostNow[r]]
           resold == [r \in Row |-> Resold(r) * CostNow[r]]
           plus == [r \in Row |-> m[r] + sold[r]]
           out == [r \in Row |-> plus[r] + resold[r]]
           in == [r \in Row |-> back[r] + voided[r]]
           sum(f) == SumFunctionOnSet(f, Row)
<1>1. IsFiniteSet(Row)
  BY CostTypes
<1>2. /\ IntValued(m, Row) /\ IntValued(sold, Row) /\ IntValued(voided, Row) /\ IntValued(back, Row)
      /\ StockValue = sum(m)
      /\ sum(sold) = SumFunctionOnSet(SoldCost, Orders)
      /\ sum(voided) = SumFunctionOnSet(VoidCost, Orders)
      /\ sum(back) = SumFunctionOnSet(BackCost, Amended)
      /\ IntValued(resold, Row) /\ sum(resold) = SumFunctionOnSet(ExtraCost, Amended)
  BY <1>0, StockByLedger, WorthTypes, SoldWeighs, VoidedWeighs, RestockedWeighs, ExtraWeighs
<1>3. CostOut(Today) = sum(sold) - sum(voided) - sum(back) + sum(resold)
  <2>1. CostOut(Today) = CostSold(Today, OrderId) - CostReturned(Today, OrderId) + CostUnreported(Today)
    BY DEF CostOut
  <2>2. CostUnreported(Today) = sum(resold)
    BY <1>0, <1>2, ExtraByDocument
  <2> HIDE DEF sold, voided, back, resold, sum
  <2> QED
    BY <1>0, <1>2, <2>1, <2>2, SoldByDocument, BackByDocument, VoidsCancelCost
<1>4. Assets = StockValue + CostOut(Today)
  <2>1. StockValue \in Int
    BY <1>1, <1>2, SumInt
  <2> QED
    BY <1>0, <2>1, AssetsToday
<1>6. \A r \in Row : Worth(Undocumented)[r] = out[r] - in[r]
  <2> SUFFICES ASSUME NEW r \in Row PROVE Worth(Undocumented)[r] = out[r] - in[r]
    OBVIOUS
  <2>1. /\ moved[r] \in Int /\ SoldTotal(r) \in Int /\ VoidedIn(r) \in Int /\ Restocked(r) \in Int
        /\ Resold(r) \in Int /\ CostNow[r] \in Int
    BY <1>0, DocumentedTypes, CostTypes DEF StockInv, StockTypeOK
  <2>2. Worth(Undocumented)[r]
          = (moved[r] - (Restocked(r) + VoidedIn(r) - SoldTotal(r) - Resold(r))) * CostNow[r]
    BY DEF Worth, Undocumented, Documented
  <2>4. /\ out[r] = (moved[r] * CostNow[r] + SoldTotal(r) * CostNow[r]) + Resold(r) * CostNow[r]
        /\ in[r] = Restocked(r) * CostNow[r] + VoidedIn(r) * CostNow[r]
    BY DEF Worth
  <2> HIDE DEF out, in
  <2>5. (moved[r] - (Restocked(r) + VoidedIn(r) - SoldTotal(r) - Resold(r))) * CostNow[r]
          = ((moved[r] * CostNow[r] + SoldTotal(r) * CostNow[r]) + Resold(r) * CostNow[r])
              - (Restocked(r) * CostNow[r] + VoidedIn(r) * CostNow[r])
    <3> DEFINE mr == moved[r]
               br == Restocked(r)
               vr == VoidedIn(r)
               sr == SoldTotal(r)
               xr == Resold(r)
               cr == CostNow[r]
    <3>1. mr \in Int /\ br \in Int /\ vr \in Int /\ sr \in Int /\ xr \in Int /\ cr \in Int
      BY <2>1
    <3> HIDE DEF mr, br, vr, sr, xr, cr
    <3>2. (mr - (br + vr - sr - xr)) * cr = ((mr * cr + sr * cr) + xr * cr) - (br * cr + vr * cr)
      BY ONLY <3>1, Distributes
    <3> QED
      BY <3>2 DEF mr, br, vr, sr, xr, cr
  <2> QED
    BY ONLY <2>2, <2>4, <2>5, Zenon
<1>7. /\ \A r \in Row : plus[r] = m[r] + sold[r]
      /\ \A r \in Row : out[r] = plus[r] + resold[r]
      /\ \A r \in Row : in[r] = back[r] + voided[r]
  OBVIOUS
<1> HIDE DEF m, sold, voided, back, resold, plus, out, in
<1>8. IntValued(plus, Row) /\ IntValued(out, Row) /\ IntValued(in, Row)
  BY <1>2, <1>7 DEF IntValued
<1>9. sum(plus) = sum(m) + sum(sold)
  BY <1>1, <1>2, <1>7, SumPlus
<1>10. sum(out) = sum(plus) + sum(resold)
  BY <1>1, <1>2, <1>7, <1>8, SumPlus
<1>11. sum(in) = sum(back) + sum(voided)
  BY <1>1, <1>2, <1>7, SumPlus
<1>12. sum(Worth(Undocumented)) = sum(out) - sum(in)
  BY <1>1, <1>6, <1>8, SumMinus
<1>13. sum(m) \in Int /\ sum(sold) \in Int /\ sum(voided) \in Int /\ sum(back) \in Int /\ sum(resold) \in Int
  BY <1>1, <1>2, SumInt
<1> QED
  BY <1>2, <1>3, <1>4, <1>9, <1>10, <1>11, <1>12, <1>13 DEF Balanced

-----------------------------------------------------------------------------
(* Tables that are tidy were tidy before.                                  *)
LEMMA TidyWas ==
  ASSUME TidyInv, [OrdersNext]_ordersVars, Tidy'
  PROVE  Tidy
<1>1. CASE UNCHANGED ordersVars
  BY <1>1 DEF Tidy, Orders, AdjustsOf, Amended, ordersVars, salesVars, stockVars, saleVars, adjustVars
<1>2. ASSUME NEW t \in Tx, StepOf(t) PROVE Tidy
  <2>1. ~overlapped' /\ ~overlapped /\ AmendInv /\ AmendTypes /\ Recorded
    BY <1>2, TidyBefore DEF Tidy
  <2> SUFFICES ASSUME NEW o \in Orders, orders[o].status = "CANCELLED", NEW u \in AdjustsOf(o)
               PROVE  FALSE
    BY <2>1 DEF Tidy
  <2>2. o \in OrderId /\ orders[o] # NoOrder
    BY DEF Orders
  <2>3. orders'[o] = orders[o]
    BY <1>2, <2>1, CancelledStays DEF TidyInv, OrdersNext, StepOf
  <2>4. u \in Tx /\ adjusts[u] # NoOrder /\ adjusts[u].order = o
    BY DEF AdjustsOf, Amended
  <2>5. adjusts'[u] = adjusts[u]
    BY <1>2, <2>1, <2>4, AdjustsKept
  <2> QED
    BY <2>2, <2>3, <2>4, <2>5 DEF Tidy, Orders, AdjustsOf, Amended
<1> QED
  BY <1>1, <1>2 DEF OrdersNext, OrdersTerminating, StepOf

LEMMA UndocumentedStays ==
  ASSUME TidyInv, [OrdersNext]_ordersVars, cost' = cost
  PROVE  SumFunctionOnSet(Worth(Undocumented), Row)' = SumFunctionOnSet(Worth(Undocumented), Row)
<1>1. \A r \in Row : Follows(r)
  BY NextFollows DEF TidyInv
<1>2. Undocumented' = Undocumented
  BY <1>1 DEF Undocumented, Follows
<1> QED
  BY <1>2 DEF Worth, CostNow

(* The steps that change costs or read them keep their types.              *)
LEMMA CostsInit == ReportsInit => CostsTyped
BY CostAssumption, ColumnsAssumption
   DEF ReportsInit, CostsTyped, CostNow, VariantId, OrderId

LEMMA CostsNext == CostsTyped /\ [ReportsNext]_reportsVars => CostsTyped'
<1> SUFFICES ASSUME CostsTyped, [ReportsNext]_reportsVars PROVE CostsTyped'
  OBVIOUS
<1>1. CASE OrdersStep
  <2>1. CostNow \in [Row -> Nat]
    BY DEF CostsTyped, CostNow, VariantId
  <2> QED
    BY <1>1, <2>1 DEF OrdersStep, CostsTyped
<1>2. ASSUME NEW v \in VariantId, NEW c \in NewCost, SetCost(v, c) PROVE CostsTyped'
  BY <1>2, CostAssumption DEF SetCost, CostsTyped
<1>3. CASE UNCHANGED reportsVars
  BY <1>3 DEF reportsVars, CostsTyped
<1> QED
  BY <1>1, <1>2, <1>3 DEF ReportsNext

(* Through any tidy sequence of sales, returns, write-offs, exchanges and  *)
(* voids, what leaves the stock value is cost of goods sold or of          *)
(* exchanged-for items and comes back with them, but for what the goods    *)
(* that are out gained or lost since a request read their cost.            *)
THEOREM OrdersCost == ReportsSpec => CostBalancesStock
<1> DEFINE Inv == TidyInv /\ CostsTyped
<1>1. Inv => (Tidy => Balanced)
  BY TidyIsBalanced
<1>2. Inv /\ [ReportsNext]_reportsVars /\ (Tidy => Balanced) /\ (Tidy => Balanced)'
        => [Tidy' /\ cost' = cost => Assets' = Assets]_reportsVars
  <2> SUFFICES ASSUME Inv, [ReportsNext]_reportsVars, Tidy => Balanced, (Tidy => Balanced)',
                      Tidy', cost' = cost
               PROVE  Assets' = Assets
    OBVIOUS
  <2>1. [OrdersNext]_ordersVars
    BY ReportsStep DEF reportsVars
  <2>2. Balanced /\ Balanced'
    BY <2>1, TidyWas
  <2> QED
    BY <2>1, <2>2, UndocumentedStays DEF Balanced
<1>3. ReportsInit => Inv
  BY CostsInit, TidyInitInv DEF ReportsInit
<1>4. Inv /\ [ReportsNext]_reportsVars => Inv'
  BY CostsNext, NextTidyInv, ReportsStep DEF reportsVars
<1> HIDE DEF Inv
<1> QED
  BY <1>1, <1>2, <1>3, <1>4, PTL DEF ReportsSpec, CostBalancesStock

(* While calls do not overlap, no return, exchange or void writes stock    *)
(* from an outdated read, so every level is the sum of its movements.      *)
THEOREM OrdersSerialBooks ==
  OrdersSpec => [](SerialRequestsNeverRace /\ (~overlapped => LevelIsSumOfMovements))
<1>1. TidyInv => SerialRequestsNeverRace
  BY DEF TidyInv, Serial, NothingStale, SerialRequestsNeverRace
<1>2. NeverNegative /\ BooksBalance /\ SerialRequestsNeverRace =>
        (~overlapped => LevelIsSumOfMovements)
  BY DEF BooksBalance, SerialRequestsNeverRace, LevelIsSumOfMovements
<1> QED
  BY <1>1, <1>2, TidyInitInv, NextTidyInv, OrdersBooksBalance, PTL DEF OrdersSpec
=============================================================================
