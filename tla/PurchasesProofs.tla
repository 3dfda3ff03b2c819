-------------------------- MODULE PurchasesProofs --------------------------
(***************************************************************************)
(* For any number of purchase orders, users and overlapping calls: the     *)
(* types of PurchaseOrders, that no level is negative, that the numbers of *)
(* the orders have no gaps, that levels follow the ledger but for writes   *)
(* from outdated reads, that no line shows more than has arrived and that  *)
(* a cost stays between the prices paid; of calls that do not overlap,     *)
(* that status, levels and goods agree and that a delivery adds to the     *)
(* value of the stock what was paid for it.  DocumentsProofs has what      *)
(* purchase orders share with transfers.                                   *)
(***************************************************************************)
EXTENDS PurchaseOrders, DocumentsProofs

OrderTypes ==
  /\ \A d \in Existing : docs[d] \in OrderType
  /\ \A t \in Tx : seen[t] # NoDoc => seen[t] \in OrderType

Recomputing == {"none", "cost", "onHand", "write"}
Costs == UNION {[S -> Nat] : S \in SUBSET Variant}

CostTypes ==
  /\ cost \in [Variant -> Nat]
  /\ wac \in [Tx -> Recomputing]
  /\ basisOf \in [Tx -> [cost : Nat, onHand : Nat]]
  /\ costed \in [Tx -> Costs]

(* What lets a call receive.                                               *)
Asks(t) == phase[t] \in Receives => seen[t].status \notin {"RECEIVED", "CANCELLED"}

(* A cost is recomputed between the update of a line and its adjustment,   *)
(* and only by a delivery.                                                 *)
Taken(t) ==
  [op |-> "adjust", row |-> seen[t].lines[LineTaken(t).item].into, qty |-> LineTaken(t).qty]
Blends(t) ==
  /\ wac[t] # "none" =>
       /\ pc[t] = "read" /\ phase[t] = "receiving" /\ at[t] > 1
       /\ LineTaken(t).qty \in Nat \ {0} /\ todo[t] = <<Taken(t)>>
  /\ phase[t] \notin Receives => costed[t] = NoLines

PurchaseInv == DocumentsInv /\ OrderTypes /\ CostTypes /\ \A t \in Tx : Asks(t) /\ Blends(t)

-----------------------------------------------------------------------------
(* The steps of a call, as steps of a document.                            *)
PurchaseStep(t) == Plain(t, Arrive(t)) \/ OrderStatement(t) \/ Lose(t, DocStep(t, Fail(t)))

LEMMA StepOrStutter ==
  [PurchaseNext]_purchaseVars => (\E t \in Tx : PurchaseStep(t)) \/ UNCHANGED purchaseVars
BY DEF PurchaseNext, PurchaseTerminating, PurchaseStep

LEMMA NoCosts == NoLines \in Costs /\ DOMAIN NoLines = {}
<1>1. DOMAIN NoLines = {} /\ NoLines \in [{} -> Nat]
  BY DEF NoLines
<1>2. {} \in SUBSET Variant
  OBVIOUS
<1> QED
  BY <1>1, <1>2 DEF Costs

LEMMA OrderLines ==
  ASSUME NEW lines \in Seq(OrderLine)
  PROVE  /\ Len(lines) \in Nat /\ DOMAIN lines = 1 .. Len(lines)
         /\ \A i \in DOMAIN lines : /\ lines[i].qty \in Nat \ {0}
                                    /\ lines[i].into \in Row /\ lines[i].unitCost \in Nat
<1>1. Len(lines) \in Nat /\ DOMAIN lines = 1 .. Len(lines)
  OBVIOUS
<1>2. \A i \in DOMAIN lines : lines[i] \in OrderLine
  BY <1>1
<1> QED
  BY <1>1, <1>2 DEF OrderLine

LEMMA NewOrderIs ==
  ASSUME DocumentTypes, NEW t \in Tx, call[t].draft \in Draft
  PROVE  /\ NewOrder(t) \in OrderType /\ Proper(NewOrder(t)) /\ NewOrder(t) # NoDoc
         /\ NewOrder(t).number = number[t] /\ NewOrder(t).status = "DRAFT"
         /\ \A i \in DOMAIN NewOrder(t).lines : NewOrder(t).received[i] = 0
<1> DEFINE lines == call[t].draft.lines
           none == [i \in DOMAIN lines |-> 0]
<1>1. call[t].draft \in DraftType /\ lines \in Seq(OrderLine) /\ lines # <<>>
  BY DraftAssumption, LinesAssumption DEF DraftType
<1>2. Len(lines) \in Nat \ {0} /\ DOMAIN lines = 1 .. Len(lines)
  BY <1>1
<1>3. none \in Seq(Nat)
  BY <1>2
<1>4. /\ NewOrder(t) = [number |-> number[t], store |-> call[t].draft.store,
                        lines |-> lines, received |-> none, status |-> "DRAFT"]
      /\ DOMAIN none = DOMAIN lines /\ \A i \in DOMAIN lines : none[i] = 0
  BY DEF NewOrder
<1> HIDE DEF none, lines
<1>5. NewOrder(t) \in OrderType
  BY <1>1, <1>3, <1>4 DEF OrderType, DraftType, OrderStatus, DocumentTypes
<1>6. Proper(NewOrder(t))
  BY <1>1, <1>2, <1>4, OrderLines DEF Proper
<1> QED
  BY <1>4, <1>5, <1>6, NoDocAssumption

LEMMA RaisedProper ==
  ASSUME NEW d \in Earlier
  PROVE  Proper(Raised[d]) /\ Raised[d] \in OrderType
<1>1. Raised[d] \in OrderType /\ Raised[d].lines # <<>> /\ Len(Raised[d].received) = Len(Raised[d].lines)
  BY RaisedAssumption, UntouchedAssumption
<1>2. Raised[d].lines \in Seq(OrderLine) /\ Raised[d].received \in Seq(Nat)
  BY <1>1 DEF OrderType
<1>3. Len(Raised[d].lines) \in Nat \ {0}
  BY <1>1, <1>2
<1>4. DOMAIN Raised[d].received = DOMAIN Raised[d].lines
      /\ \A i \in DOMAIN Raised[d].received : Raised[d].received[i] \in Nat
  BY <1>1, <1>2
<1> QED
  BY <1>1, <1>2, <1>3, <1>4, OrderLines DEF Proper

LEMMA EarlierProper == \A d \in Earlier : Proper(Raised[d])
BY RaisedProper

(* A commit that changes the status of the order of t.                     *)
LEMMA StatusFiled ==
  ASSUME PurchaseInv, NEW t \in Tx, NEW status \in OrderStatus, CommitStatus(t, status),
         seen[t] # NoDoc, NEW d, d = call[t].doc
  PROVE  /\ Commit(t) /\ Files(d) /\ Keeps(d) /\ d \in Existing
         /\ docs'[d].received = docs[d].received /\ docs'[d].status = status
         /\ docs'[d] \in OrderType
         /\ UNCHANGED <<call, seen, phase, number, at, written>>
<1> DEFINE v == [docs[d] EXCEPT !.status = status]
<1>0. DocumentTypes /\ d \in Existing /\ d \in DocId /\ docs[d] \in OrderType /\ docs[d] # NoDoc
  BY KnownSeen DEF PurchaseInv, DocumentsInv, OrderTypes, Existing
<1>1. /\ Commit(t) /\ docs' = [docs EXCEPT ![d] = v]
      /\ UNCHANGED <<call, seen, phase, number, at, written>>
  BY DEF CommitStatus
<1>2. /\ v \in OrderType /\ v.number = docs[d].number /\ v.status = status
      /\ v.lines = docs[d].lines /\ v.received = docs[d].received
  BY <1>0 DEF OrderType
<1>3. v # NoDoc
  BY <1>2, NoDocAssumption
<1> HIDE DEF v
<1> QED
  BY <1>0, <1>1, <1>2, <1>3 DEF Files, Keeps, DocumentTypes

(* A commit that makes the lines visible.                                  *)
LEMMA ReceiptFiled ==
  ASSUME PurchaseInv, NEW t \in Tx, NEW status \in OrderStatus, CommitReceipt(t, status),
         phase[t] \in Deliveries, NEW d, d = call[t].doc
  PROVE  Fills(t) /\ d \in Existing /\ docs'[d].status = status /\ docs'[d] \in OrderType
<1> DEFINE got == [i \in DOMAIN docs[d].received |-> LineNow(t, i)]
           v == [docs[d] EXCEPT !.status = status, !.received = got]
<1>0. /\ DocumentTypes /\ Informed(t) /\ seen[t] # NoDoc
      /\ d \in Existing /\ d \in DocId /\ docs[d] \in OrderType /\ docs[d] # NoDoc
  BY KnownSeen DEF PurchaseInv, DocumentsInv, Handles, Informed, Receives, OrderTypes, Existing
<1>1. docs[d].received \in Seq(Nat)
  BY <1>0 DEF OrderType
<1>2. got \in Seq(Nat)
  <2>1. \A i \in DOMAIN docs[d].received : LineNow(t, i) \in Nat
    BY <1>0, LineNowTyped
  <2>2. Len(docs[d].received) \in Nat /\ DOMAIN docs[d].received = 1 .. Len(docs[d].received)
    BY <1>1
  <2> QED
    BY <2>1, <2>2
<1>3. /\ Commit(t) /\ docs' = [docs EXCEPT ![d] = v]
      /\ written' = [written EXCEPT ![t] = NoLines]
      /\ UNCHANGED <<call, seen, phase, number, at>>
  BY DEF CommitReceipt, Release
<1>4. /\ v \in OrderType /\ v.number = docs[d].number /\ v.status = status
      /\ v.lines = docs[d].lines /\ v.received = got
  <2> HIDE DEF got
  <2>1. v = [[docs[d] EXCEPT !.status = status] EXCEPT !.received = got]
    BY <1>0 DEF OrderType
  <2>2. [docs[d] EXCEPT !.status = status] \in OrderType
    BY <1>0 DEF OrderType
  <2> QED
    BY <1>0, <1>2, <2>1, <2>2 DEF OrderType
<1>5. v # NoDoc
  BY <1>4, NoDocAssumption
<1>6. docs'[d] = v
  BY <1>0, <1>3 DEF DocumentTypes
<1>7. docs'[d].received = [i \in DOMAIN docs[d].received |-> LineNow(t, i)]
  BY <1>4, <1>6
<1> HIDE DEF v, got
<1> QED
  BY <1>0, <1>3, <1>4, <1>5, <1>6, <1>7 DEF Fills, Files, Keeps, DocumentTypes

(* What each step is to its document, and to the costs.                    *)
EntersOrder(t) == Enters(t) /\ Receivable(t)
AddsOrder(t) == Adds(t) /\ docs'[t] = NewOrder(t) /\ call[t].draft \in Draft
MarksOrder(t) ==
  /\ Marks(t) /\ docs'[call[t].doc] \in OrderType
  /\ \/ phase[t] = "submit" /\ seen[t].status = "DRAFT" /\ docs'[call[t].doc].status = "ORDERED"
     \/ /\ phase[t] = "update" /\ seen[t].status \notin {"RECEIVED", "CANCELLED"}
        /\ docs'[call[t].doc].status = "CANCELLED"
FillsOrder(t) ==
  Fills(t) /\ docs'[call[t].doc] \in OrderType /\ docs'[call[t].doc].status = StatusAfter(t)

Silent(t) ==
  /\ wac[t] = "none" /\ UNCHANGED costVars
  /\ \/ Arrives(t) \/ Runs(t) \/ Numbers(t) \/ SkipLine(t) \/ Refresh(t)
     \/ EntersOrder(t) \/ AddsOrder(t) \/ MarksOrder(t)
Drops(t) ==
  /\ Aborts(t) /\ cost' = cost
  /\ wac' = [wac EXCEPT ![t] = "none"]
  /\ basisOf' = [basisOf EXCEPT ![t] = NoBasis]
  /\ costed' = [costed EXCEPT ![t] = NoLines]
Closes(t) ==
  /\ FillsOrder(t)
  /\ cost' = [v \in Variant |-> CostSeen(t, v)]
  /\ costed' = [costed EXCEPT ![t] = NoLines]
  /\ UNCHANGED <<wac, basisOf>>
Recosts(t) == ReadCost(t) \/ ReadOnHand(t) \/ WriteCost(t)

PurchaseKinds(t) == Silent(t) \/ Drops(t) \/ TakeOrderLine(t) \/ Closes(t) \/ Recosts(t)

LEMMA KindsAreSteps ==
  ASSUME NEW t \in Tx, PurchaseKinds(t)
  PROVE  /\ DocumentStep(t) \/ UNCHANGED documentsVars
         /\ DocumentStep(t) \/ Recosts(t)
         /\ Recosts(t) => UNCHANGED documentsVars
BY DEF PurchaseKinds, DocumentStep, Silent, Drops, TakeOrderLine, Closes, Recosts, ReadCost, ReadOnHand,
   WriteCost, Prepares, EntersOrder, AddsOrder, MarksOrder, FillsOrder, Concludes

LEMMA ArriveArrives ==
  ASSUME DocumentTypes, NEW t \in Tx, Arrive(t)
  PROVE  Arrives(t)
<1>1. \A u \in User, draft \in Draft : Raise(u, draft) \in CallType /\ Raise(u, draft).draft # NoDoc
  <2>1. \A draft \in Draft : draft # NoDoc
    BY DraftAssumption, NoDocAssumption
  <2>2. <<>> \in Seq(ReceiptLine)
    OBVIOUS
  <2> QED
    BY <2>1, <2>2 DEF Raise, CallType
<1>2. \A u \in User, d \in Named(t), receipt \in Receipt \cup {<<>>} : Call(u, d, receipt) \in CallType
  <2>0. <<>> \in Seq(ReceiptLine)
    OBVIOUS
  <2>1. Receipt \cup {<<>>} \subseteq Seq(ReceiptLine)
    BY <2>0, ReceiptAssumption
  <2>2. Named(t) \subseteq DocId
    BY DEF Named, Existing, DocId
  <2> QED
    BY <2>1, <2>2 DEF Call, CallType
<1>3. PICK u \in User :
        \/ \E draft \in Draft : OpenCall(t, Raise(u, draft), "raise")
        \/ \E d \in Named(t) :
             \/ OpenCall(t, Call(u, d, <<>>), "submit")
             \/ OpenCall(t, Call(u, d, <<>>), "update")
             \/ \E receipt \in Receipt : OpenCall(t, Call(u, d, receipt), "receive")
  BY DEF Arrive
<1> QED
  BY <1>1, <1>2, <1>3 DEF Arrives

(* A plain statement that does not abort leaves the costs alone.           *)
Spares(t) ==
  /\ wac[t] = "none"
  /\ IF pc'[t] = "aborted"
     THEN /\ basisOf' = [basisOf EXCEPT ![t] = NoBasis]
          /\ costed' = [costed EXCEPT ![t] = NoLines]
     ELSE UNCHANGED <<basisOf, costed>>
  /\ UNCHANGED <<cost, wac>>

LEMMA SparesKinds ==
  ASSUME PurchaseInv, NEW t \in Tx, Spares(t)
  PROVE  /\ Aborts(t) => Drops(t)
         /\ pc'[t] # "aborted" => wac[t] = "none" /\ UNCHANGED costVars
<1>0. StockTypeOK /\ CostTypes
  BY DEF PurchaseInv, DocumentsInv, StockInv
<1>1. Aborts(t) => pc'[t] = "aborted"
  BY <1>0 DEF Aborts, Rollback, StockTypeOK
<1>2. wac[t] = "none" /\ wac' = wac /\ wac = [wac EXCEPT ![t] = "none"]
  BY <1>0 DEF Spares, CostTypes
<1> QED
  BY <1>1, <1>2 DEF Spares, Drops, costVars

(* What a plain statement of the service is to its document.               *)
LEMMA PlainStatementKinds ==
  ASSUME PurchaseInv, NEW t \in Tx, PlainStatement(t)
  PROVE  \/ Aborts(t)
         \/ /\ pc'[t] # "aborted"
            /\ \/ Runs(t) \/ Numbers(t) \/ SkipLine(t) \/ Refresh(t)
               \/ EntersOrder(t) \/ AddsOrder(t) \/ MarksOrder(t)
<1>0. /\ StockTypeOK /\ DocumentTypes /\ Informed(t) /\ Handles(t) /\ OrderTypes
  BY DEF PurchaseInv, DocumentsInv, StockInv, Handles
<1>1. CASE DocStep(t, Statement(t))
  BY <1>0, <1>1, DocStepKinds DEF Runs, Open
<1>2. CASE Throw(t) /\ pc[t] \in Open
  BY <1>2 DEF Throw, Aborts
<1>3. CASE NumberOrder(t) \/ Receive(t) \/ RefuseLine(t)
  <2>1. pc[t] = "read" /\ pc[t] \in Open
    BY <1>3 DEF NumberOrder, Receive, RefuseLine, Receiving, In, Open
  <2>2. CASE NumberOrder(t) /\ AcceptsDraft(t)
    BY <2>1, <2>2 DEF NumberOrder, Numbers, TakeNumber, stockVars
  <2>3. CASE Receive(t) /\ Receivable(t)
    BY <2>1, <2>3 DEF Receive, EntersOrder, Enters, Receivable, Found, stockVars
  <2>4. CASE Throw(t)
    BY <1>2, <2>1, <2>4
  <2> QED
    BY <1>3, <2>2, <2>3, <2>4 DEF NumberOrder, Receive, RefuseLine
<1>4. CASE SkipLine(t) \/ Refresh(t)
  BY <1>4 DEF SkipLine, Refresh, Receiving, In, stockVars
<1>5. CASE Insert(t, NewOrder(t))
  <2>1. pc[t] = "read" /\ pc[t] \in Open /\ phase[t] = "numbered"
    BY <1>5 DEF Insert, In, Open
  <2>2. CASE NumberTaken(t)
    BY <1>2, <1>5, <2>1, <2>2 DEF Insert
  <2>3. CASE ~NumberTaken(t)
    <3>1. call[t].draft \in Draft /\ t \in DocId
      BY <1>0, <2>1 DEF Informed, DocumentTypes, CallType, DocId
    <3>2. /\ Commit(t) /\ docs' = [docs EXCEPT ![t] = NewOrder(t)]
          /\ UNCHANGED <<call, seen, phase, number, at, written>>
      BY <1>5, <2>3 DEF Insert
    <3>3. docs'[t] = NewOrder(t) /\ DOMAIN docs' = DocId /\ \A e \in DocId \ {t} : docs'[e] = docs[e]
      BY <1>0, <3>1, <3>2 DEF DocumentTypes
    <3>4. AddsOrder(t)
      BY <1>0, <2>1, <2>3, <3>1, <3>2, <3>3, NewOrderIs DEF AddsOrder, Adds, Files
    <3> QED
      BY <1>0, <3>4, ConcludeStep DEF AddsOrder, Concludes
  <2> QED
    BY <2>2, <2>3
<1>6. CASE Submit(t)
  <2>1. pc[t] \in Open /\ phase[t] = "submit"
    BY <1>6 DEF Submit, In, Open
  <2>2. CASE Found(t) /\ seen[t].status = "DRAFT"
    <3>1. seen[t] # NoDoc /\ CommitStatus(t, "ORDERED") /\ seen[t].status = "DRAFT"
      BY <1>6, <2>2 DEF Submit, Found
    <3>2. MarksOrder(t)
      BY <2>1, <3>1, StatusFiled DEF MarksOrder, Marks, OrderStatus
    <3> QED
      BY <1>0, <3>2, ConcludeStep DEF MarksOrder, Concludes
  <2>3. CASE ~(Found(t) /\ seen[t].status = "DRAFT")
    BY <1>2, <1>6, <2>1, <2>3 DEF Submit
  <2> QED
    BY <2>2, <2>3
<1>7. CASE Cancel(t)
  <2>1. pc[t] \in Open /\ phase[t] = "update"
    BY <1>7 DEF Cancel, In, Open
  <2>2. CASE Cancellable(t)
    <3>1. seen[t] # NoDoc /\ CommitStatus(t, "CANCELLED") /\ seen[t].status \notin {"RECEIVED", "CANCELLED"}
      BY <1>7, <2>2 DEF Cancel, Cancellable, Found
    <3>2. MarksOrder(t)
      BY <2>1, <3>1, StatusFiled DEF MarksOrder, Marks, OrderStatus
    <3> QED
      BY <1>0, <3>2, ConcludeStep DEF MarksOrder, Concludes
  <2>3. CASE ~Cancellable(t)
    BY <1>2, <1>7, <2>1, <2>3 DEF Cancel
  <2> QED
    BY <2>2, <2>3
<1> QED
  BY <1>1, <1>3, <1>4, <1>5, <1>6, <1>7 DEF PlainStatement

LEMMA StepKinds ==
  ASSUME PurchaseInv, NEW t \in Tx, PurchaseStep(t)
  PROVE  PurchaseKinds(t)
<1>0. /\ StockTypeOK /\ DocumentTypes /\ Informed(t) /\ Handles(t) /\ OrderTypes /\ Asks(t) /\ Blends(t)
  BY DEF PurchaseInv, DocumentsInv, StockInv, Handles
<1>1. CASE Plain(t, Arrive(t))
  <2>1. Arrive(t) /\ Spares(t)
    BY <1>1 DEF Plain, Spares
  <2>2. Arrives(t)
    BY <1>0, <2>1, ArriveArrives
  <2>3. pc'[t] # "aborted"
    BY <1>0, <2>2 DEF Arrives, OpenCall, Begin, StockTypeOK
  <2> QED
    BY <2>1, <2>2, <2>3, SparesKinds DEF PurchaseKinds, Silent
<1>2. CASE Plain(t, PlainStatement(t))
  <2>1. PlainStatement(t) /\ Spares(t)
    BY <1>2 DEF Plain, Spares
  <2> QED
    BY <2>1, PlainStatementKinds, SparesKinds DEF PurchaseKinds, Silent
<1>3. CASE Lose(t, DocStep(t, Fail(t)))
  <2>1. pc[t] \in Open /\ DocStep(t, Fail(t)) /\ pc'[t] = "aborted"
    BY <1>0, <1>3 DEF Lose, DocStep, Fail, Rollback, StockTypeOK
  <2>2. Aborts(t)
    BY <1>0, <2>1, DocStepKinds DEF Runs, Open
  <2> QED
    BY <1>3, <2>2 DEF Lose, Drops, PurchaseKinds
<1>4. CASE InCycle(t, AllWaits) /\ Lose(t, Throw(t))
  <2>1. PICK u \in Tx : WaitsFor(t, u) \/ WaitsForLine(t, u) \/ WaitsForVariant(t, u)
    BY <1>4 DEF InCycle, AllWaits, Waits
  <2>2. pc[t] \in Open
    BY <1>0, <2>1, WaiterOpen DEF WaitsForVariant, Blends, Open
  <2> QED
    BY <1>4, <2>2 DEF Lose, Throw, Aborts, Drops, PurchaseKinds
<1>5. CASE CommitReceive(t)
  <2>1. phase[t] \in Deliveries /\ CommitReceipt(t, StatusAfter(t))
    BY <1>5 DEF CommitReceive, In, Deliveries
  <2>2. seen[t] # NoDoc /\ seen[t].status \in OrderStatus
    BY <1>0, <2>1 DEF Informed, Receives, OrderTypes, OrderType
  <2>3. StatusAfter(t) \in OrderStatus
    BY <2>1, <2>2 DEF OrderStatus, StatusAfter, Deliveries
  <2>4. FillsOrder(t)
    BY <2>1, <2>3, ReceiptFiled DEF FillsOrder
  <2> QED
    BY <1>5, <2>4 DEF CommitReceive, Closes, PurchaseKinds
<1>6. CASE TakeOrderLine(t) \/ ReadCost(t) \/ ReadOnHand(t) \/ WriteCost(t)
  BY <1>6 DEF PurchaseKinds, Recosts
<1> QED
  BY <1>1, <1>2, <1>3, <1>4, <1>5, <1>6 DEF PurchaseStep, OrderStatement

-----------------------------------------------------------------------------
(* Each step keeps the invariant.                                          *)
LEMMA StepOrders ==
  ASSUME PurchaseInv, NEW t \in Tx, PurchaseKinds(t)
  PROVE  OrderTypes'
<1>0. /\ DocumentsInv /\ StockTypeOK /\ DocumentTypes /\ Handles(t) /\ Informed(t) /\ OrderTypes
  BY DEF PurchaseInv, DocumentsInv, StockInv, Handles
<1>1. CASE Recosts(t)
  <2>1. UNCHANGED <<docs, seen>> /\ Existing' = Existing
    BY <1>1, KindsAreSteps DEF documentsVars, docVars, Existing
  <2> QED
    BY <1>0, <2>1 DEF OrderTypes
<1>2. CASE Arrives(t) \/ Aborts(t) \/ Runs(t) \/ Numbers(t) \/ SkipLine(t) \/ TakeLine(t) \/ Refresh(t) \/ EntersOrder(t)
  <2>1. docs' = docs /\ Existing' = Existing /\ DocumentStep(t)
    BY <1>0, <1>2, QuietStep DEF EntersOrder, Prepares, Existing, DocumentStep
  <2>2. ASSUME NEW u \in Tx, seen'[u] # NoDoc PROVE seen'[u] \in OrderType
    <3>1. CASE seen'[u] = seen[u]
      BY <1>0, <2>2, <3>1 DEF OrderTypes
    <3>2. CASE Arrives(t) /\ u = t
      <4>1. PICK c \in CallType, first \in {"raise", "ship", "submit", "update", "receive"} : OpenCall(t, c, first)
        BY <3>2 DEF Arrives
      <4> QED
        BY <1>0, <2>2, <3>2, <4>1 DEF OpenCall, DocumentTypes, OrderTypes, Existing
    <3>3. CASE u # t
      BY <1>0, <2>1, <3>1, <3>3, OthersKeep DEF Own
    <3>4. CASE Aborts(t) /\ u = t
      BY <1>0, <2>2, <3>4 DEF Aborts, Forget, DocumentTypes
    <3>5. CASE Runs(t) \/ Numbers(t) \/ SkipLine(t) \/ TakeLine(t) \/ Refresh(t) \/ EntersOrder(t)
      <4>1. seen' = seen
        BY <3>5 DEF Runs, docVars, Numbers, TakeNumber, SkipLine, TakeLine, Refresh, EntersOrder, Enters
      <4> QED
        BY <3>1, <4>1
    <3> QED
      BY <1>2, <3>2, <3>3, <3>4, <3>5
  <2> QED
    BY <1>0, <2>1, <2>2 DEF OrderTypes
<1>3. CASE AddsOrder(t) \/ MarksOrder(t) \/ FillsOrder(t)
  <2>1. PICK d : d = IF AddsOrder(t) THEN t ELSE call[t].doc
    OBVIOUS
  <2>2. seen' = seen /\ Files(d)
    BY <1>3, <2>1 DEF AddsOrder, MarksOrder, FillsOrder, Adds, Marks, Fills
  <2>3. docs'[d] \in OrderType
    BY <1>0, <1>3, <2>1, NewOrderIs DEF AddsOrder, MarksOrder, FillsOrder
  <2>4. \A e \in Existing' : e = d \/ (e \in Existing /\ docs'[e] = docs[e])
    BY <2>2 DEF Files, Existing
  <2> QED
    BY <1>0, <2>2, <2>3, <2>4 DEF OrderTypes
<1> QED
  BY <1>1, <1>2, <1>3 DEF PurchaseKinds, Silent, Drops, TakeOrderLine, Closes

(* The line whose cost is recomputed.                                      *)
LEMMA TakenTypes ==
  ASSUME PurchaseInv, NEW t \in Tx, wac[t] # "none"
  PROVE  /\ seen[t] # NoDoc /\ call[t] # NoDoc /\ LineTaken(t).item \in DOMAIN seen[t].lines
         /\ LineTaken(t).qty \in Nat \ {0} /\ PriceTaken(t) \in Nat
         /\ Target(t) = seen[t].lines[LineTaken(t).item].into /\ Target(t) \in Row
         /\ VariantTaken(t) \in Variant
         /\ at[t] \in Nat /\ at[t] > 1 /\ todo[t] = <<Taken(t)>> /\ pc[t] = "read" /\ phase[t] = "receiving"
<1>0. DocumentTypes /\ Informed(t) /\ Handles(t) /\ OrderTypes /\ Blends(t)
  BY DEF PurchaseInv, DocumentsInv, Handles
<1>1. /\ pc[t] = "read" /\ phase[t] = "receiving" /\ at[t] \in Nat /\ at[t] > 1
      /\ LineTaken(t).qty \in Nat \ {0} /\ todo[t] = <<Taken(t)>>
  BY <1>0 DEF Blends, DocumentTypes
<1>2. seen[t] # NoDoc /\ call[t] # NoDoc /\ Delivers(t)
  BY <1>0, <1>1 DEF Informed, Handles, Receives
<1>3. at[t] - 1 \in 1 .. at[t] - 1
  BY <1>1
<1>4. LineTaken(t).item \in DOMAIN seen[t].lines
  BY <1>2, <1>3 DEF Delivers, LineTaken
<1>5. seen[t].lines \in Seq(OrderLine)
  BY <1>0, <1>2 DEF OrderTypes, OrderType
<1>6. Target(t) = seen[t].lines[LineTaken(t).item].into
  BY <1>1 DEF Target, Current, Taken
<1> QED
  BY <1>1, <1>2, <1>4, <1>5, <1>6, OrderLines, CostAssumption DEF PriceTaken, VariantTaken

(* What t sees of a row is never negative, and so is no quantity on hand.  *)
LEMMA SeesNat ==
  ASSUME StockInv, NEW t \in Tx, NEW r \in Row
  PROVE  Qty(Sees(t, r)) \in Nat /\ Qty(level[r]) \in Nat
BY AbsentAssumption, NoWriteAssumption DEF StockInv, StockTypeOK, NeverNegative, WorkNatural, Qty, Sees

LEMMA RowsFinite ==
  ASSUME NEW v
  PROVE  IsFiniteSet({r \in Row : VariantOf[r] = v})
<1>1. {r \in Row : VariantOf[r] = v} \subseteq Row
  OBVIOUS
<1> QED
  BY <1>1, CostAssumption, FS_Subset

LEMMA OnHandNat ==
  ASSUME StockInv, NEW t \in Tx, NEW v
  PROVE  OnHand(t, v) \in Nat /\ Stocked(v) \in Nat
<1> DEFINE T == {r \in Row : VariantOf[r] = v}
           f == [r \in Row |-> Qty(Sees(t, r))]
           g == [r \in Row |-> Qty(level[r])]
<1>1. IsFiniteSet(T)
  BY RowsFinite
<1>2. NatValued(f, T) /\ NatValued(g, T)
  BY SeesNat DEF NatValued
<1>3. OnHand(t, v) = SumFunctionOnSet(f, T) /\ Stocked(v) = SumFunctionOnSet(g, T)
  BY DEF OnHand, Stocked
<1> HIDE DEF f, g, T
<1> QED
  BY <1>1, <1>2, <1>3, SumNat

(* Rounding to whole cents: at most half of one away, and not beyond a     *)
(* whole number of cents that bounds what is rounded.                      *)
LEMMA Products ==
  ASSUME NEW x \in Int, NEW y \in Int, NEW k \in Nat
  PROVE  /\ x * k \in Int
         /\ x <= y => x * k <= y * k
         /\ x < y /\ k > 0 => x * k < y * k
OBVIOUS

LEMMA Quotient ==
  ASSUME NEW n \in Nat, NEW d \in Nat \ {0}
  PROVE  /\ n \div d \in Nat
         /\ (n \div d) * d <= n /\ n < (n \div d + 1) * d
OBVIOUS

LEMMA RoundedHalf ==
  ASSUME NEW n \in Nat, NEW d \in Nat \ {0}
  PROVE  /\ Rounded(n, d) \in Nat
         /\ 2 * (Rounded(n, d) * d - n) <= d /\ -d <= 2 * (Rounded(n, d) * d - n)
<1> DEFINE q == Rounded(n, d)
<1>1. q = (2 * n + d) \div (2 * d) /\ 2 * n + d \in Nat /\ 2 * d \in Nat \ {0}
  BY DEF Rounded
<1>2. q \in Nat /\ q * (2 * d) <= 2 * n + d /\ 2 * n + d < (q + 1) * (2 * d)
  BY <1>1, Quotient
<1> HIDE DEF q
<1>3. q * (2 * d) = 2 * (q * d) /\ (q + 1) * (2 * d) = 2 * (q * d) + 2 * d /\ q * d \in Nat
  BY <1>2
<1>4. 2 * (q * d - n) <= d /\ -d <= 2 * (q * d - n)
  BY <1>2, <1>3
<1> QED
  BY <1>2, <1>4 DEF q

LEMMA RoundedBetween ==
  ASSUME NEW n \in Nat, NEW d \in Nat \ {0}, NEW low \in Nat, NEW high \in Nat,
         low * d <= n, n <= high * d
  PROVE  low <= Rounded(n, d) /\ Rounded(n, d) <= high
<1> DEFINE q == Rounded(n, d)
<1>1. q \in Nat /\ 2 * (q * d - n) <= d /\ -d <= 2 * (q * d - n)
  BY RoundedHalf
<1> HIDE DEF q
<1>2. q * d \in Nat /\ low * d \in Nat /\ high * d \in Nat
  BY <1>1
<1>3. ASSUME q < low PROVE FALSE
  <2>1. (q + 1) * d <= low * d
    BY <1>1, <1>3, Products
  <2>2. (q + 1) * d = q * d + d
    BY <1>1
  <2> QED
    BY <1>1, <1>2, <2>1, <2>2
<1>4. ASSUME high < q PROVE FALSE
  <2>1. (high + 1) * d <= q * d
    BY <1>1, <1>4, Products
  <2>2. (high + 1) * d = high * d + d
    BY <1>1
  <2> QED
    BY <1>1, <1>2, <2>1, <2>2
<1> QED
  BY <1>1, <1>3, <1>4 DEF q

(* A blend of a cost and a price lies between them.                        *)
LEMMA BlendBetween ==
  ASSUME NEW old \in Nat, NEW onHand \in Nat, NEW qty \in Nat \ {0}, NEW unitCost \in Nat
  PROVE  /\ Blend(old, onHand, qty, unitCost) \in Nat
         /\ \A low, high \in Nat :
              low <= old /\ low <= unitCost /\ old <= high /\ unitCost <= high =>
                low <= Blend(old, onHand, qty, unitCost) /\ Blend(old, onHand, qty, unitCost) <= high
<1> DEFINE n == old * onHand + unitCost * qty
           d == onHand + qty
<1>1. CASE onHand <= 0
  BY <1>1 DEF Blend
<1>2. CASE ~(onHand <= 0)
  <2>1. Blend(old, onHand, qty, unitCost) = Rounded(n, d) /\ n \in Nat /\ d \in Nat \ {0}
    BY <1>2 DEF Blend
  <2>2. ASSUME NEW low \in Nat, NEW high \in Nat,
               low <= old, low <= unitCost, old <= high, unitCost <= high
        PROVE  low * d <= n /\ n <= high * d
    <3>1. /\ low * onHand <= old * onHand /\ old * onHand <= high * onHand
          /\ low * qty <= unitCost * qty /\ unitCost * qty <= high * qty
      BY <2>2, Products
    <3>2. low * d = low * onHand + low * qty /\ high * d = high * onHand + high * qty
      OBVIOUS
    <3>3. /\ low * onHand \in Nat /\ low * qty \in Nat /\ high * onHand \in Nat /\ high * qty \in Nat
          /\ old * onHand \in Nat /\ unitCost * qty \in Nat
      OBVIOUS
    <3> QED
      BY <3>1, <3>2, <3>3
  <2> HIDE DEF n, d
  <2>3. Rounded(n, d) \in Nat
    BY <2>1, RoundedHalf
  <2>4. \A low, high \in Nat : low * d <= n /\ n <= high * d => low <= Rounded(n, d) /\ Rounded(n, d) <= high
    BY <2>1, RoundedBetween
  <2> QED
    BY <2>1, <2>2, <2>3, <2>4
<1> QED
  BY <1>1, <1>2

LEMMA CostsTyped ==
  ASSUME CostTypes, NEW t \in Tx
  PROVE  /\ DOMAIN costed[t] \subseteq Variant /\ \A v \in DOMAIN costed[t] : costed[t][v] \in Nat
         /\ \A v \in Variant : CostSeen(t, v) \in Nat
<1>1. costed[t] \in Costs
  BY DEF CostTypes
<1>2. PICK S \in SUBSET Variant : costed[t] \in [S -> Nat]
  BY <1>1 DEF Costs
<1> QED
  BY <1>2 DEF CostSeen, CostTypes

LEMMA StepCosts ==
  ASSUME PurchaseInv, NEW t \in Tx, PurchaseKinds(t)
  PROVE  CostTypes'
<1>0. CostTypes /\ StockInv
  BY DEF PurchaseInv, DocumentsInv
<1>1. CASE Silent(t)
  BY <1>0, <1>1 DEF Silent, costVars, CostTypes
<1>2. CASE Drops(t)
  <2>1. NoBasis \in [cost : Nat, onHand : Nat]
    BY DEF NoBasis
  <2> QED
    BY <1>0, <1>2, <2>1, NoCosts DEF Drops, CostTypes, Recomputing
<1>3. CASE TakeOrderLine(t)
  BY <1>0, <1>3 DEF TakeOrderLine, CostTypes, Recomputing
<1>4. CASE Closes(t)
  <2>1. \A v \in Variant : CostSeen(t, v) \in Nat
    BY <1>0, CostsTyped
  <2> QED
    BY <1>0, <1>4, <2>1, NoCosts DEF Closes, CostTypes
<1>5. CASE ReadCost(t)
  <2>1. CostSeen(t, VariantTaken(t)) \in Nat
    BY <1>0, <1>5, TakenTypes, CostsTyped DEF ReadCost
  <2> QED
    BY <1>0, <1>5, <2>1 DEF ReadCost, CostTypes, Recomputing
<1>6. CASE ReadOnHand(t)
  <2>1. OnHand(t, VariantTaken(t)) \in Nat
    BY <1>0, OnHandNat
  <2> QED
    BY <1>0, <1>6, <2>1 DEF ReadOnHand, CostTypes, Recomputing
<1>7. CASE WriteCost(t)
  <2> DEFINE v == VariantTaken(t)
             new == Blend(basisOf[t].cost, basisOf[t].onHand, LineTaken(t).qty, PriceTaken(t))
             w == [x \in DOMAIN costed[t] \cup {v} |-> IF x = v THEN new ELSE costed[t][x]]
  <2>1. v \in Variant /\ LineTaken(t).qty \in Nat \ {0} /\ PriceTaken(t) \in Nat
    BY <1>7, TakenTypes DEF WriteCost
  <2>2. new \in Nat
    BY <1>0, <2>1, BlendBetween DEF CostTypes
  <2>3. costed' = [costed EXCEPT ![t] = w] /\ wac' = [wac EXCEPT ![t] = "none"] /\ UNCHANGED <<cost, basisOf>>
    BY <1>7 DEF WriteCost
  <2> HIDE DEF v, new
  <2>4. w \in [DOMAIN costed[t] \cup {v} -> Nat] /\ DOMAIN costed[t] \cup {v} \in SUBSET Variant
    BY <1>0, <2>1, <2>2, CostsTyped
  <2>5. w \in Costs
    BY <2>4 DEF Costs
  <2> HIDE DEF w
  <2> QED
    BY <1>0, <2>3, <2>5 DEF CostTypes, Recomputing
<1> QED
  BY <1>1, <1>2, <1>3, <1>4, <1>5, <1>6, <1>7 DEF PurchaseKinds, Recosts

LEMMA StepAsks ==
  ASSUME PurchaseInv, NEW t \in Tx, PurchaseKinds(t), NEW u \in Tx
  PROVE  Asks(u)'
<1>0. /\ StockTypeOK /\ DocumentTypes /\ Asks(u) /\ CostTypes
  BY DEF PurchaseInv, DocumentsInv, StockInv
<1> USE DEF Asks
<1>1. CASE seen'[u] = seen[u] /\ (phase'[u] \in Receives => phase[u] \in Receives \/ Receivable(u))
  BY <1>0, <1>1 DEF Receivable
<1>2. CASE u # t
  <2>1. seen'[u] = seen[u] /\ phase'[u] = phase[u]
    BY <1>0, <1>2, KindsAreSteps, OthersKeep DEF Own, documentsVars, docVars
  <2> QED
    BY <1>1, <2>1
<1>3. CASE Arrives(t) /\ u = t
  BY <1>0, <1>3 DEF Arrives, OpenCall, DocumentTypes, Receives, Deliveries
<1>4. CASE Aborts(t) /\ u = t
  BY <1>0, <1>4 DEF Aborts, Forget, DocumentTypes, Receives, Deliveries
<1>5. CASE Runs(t) \/ AddsOrder(t) \/ MarksOrder(t) \/ FillsOrder(t) \/ Recosts(t)
  <2>1. seen' = seen /\ phase' = phase
    BY <1>5, KindsAreSteps DEF Runs, docVars, AddsOrder, Adds, MarksOrder, Marks, FillsOrder, Fills,
       Recosts, ReadCost, ReadOnHand, WriteCost, documentsVars
  <2> QED
    BY <1>1, <2>1
<1>6. CASE (Numbers(t) \/ SkipLine(t) \/ TakeLine(t) \/ Refresh(t) \/ EntersOrder(t)) /\ u = t
  BY <1>0, <1>1, <1>6 DEF Numbers, TakeNumber, SkipLine, TakeLine, TakesLine, Receiving, Refresh, In,
     EntersOrder, Enters, Receivable, DocumentTypes, Receives, Deliveries
<1> QED
  BY <1>2, <1>3, <1>4, <1>5, <1>6 DEF PurchaseKinds, Silent, Drops, TakeOrderLine, Closes

(* What others are in the middle of does not change.                       *)
LEMMA OthersBlend ==
  ASSUME PurchaseInv, NEW t \in Tx, PurchaseKinds(t), NEW u \in Tx \ {t}
  PROVE  /\ wac'[u] = wac[u] /\ basisOf'[u] = basisOf[u] /\ costed'[u] = costed[u]
         /\ Own(u)' = Own(u)
<1>0. StockTypeOK /\ DocumentTypes /\ CostTypes
  BY DEF PurchaseInv, DocumentsInv, StockInv
<1>1. Own(u)' = Own(u)
  BY <1>0, KindsAreSteps, OthersKeep DEF Own, documentsVars, stockVars, docVars
<1>2. wac'[u] = wac[u] /\ basisOf'[u] = basisOf[u] /\ costed'[u] = costed[u]
  BY <1>0 DEF CostTypes, PurchaseKinds, Silent, costVars, Drops, TakeOrderLine, Closes, Recosts, ReadCost,
     ReadOnHand, WriteCost
<1> QED
  BY <1>1, <1>2

LEMMA StepBlends ==
  ASSUME PurchaseInv, NEW t \in Tx, PurchaseKinds(t), NEW u \in Tx
  PROVE  Blends(u)'
<1>0. /\ StockTypeOK /\ DocumentTypes /\ CostTypes /\ Blends(u) /\ Blends(t) /\ Handles(t) /\ Informed(t)
  BY DEF PurchaseInv, DocumentsInv, StockInv, Handles
<1>1. CASE u # t
  BY <1>0, <1>1, OthersBlend DEF Own, Blends, Taken, LineTaken
<1>2. CASE u = t /\ Silent(t)
  <2>1. wac[t] = "none" /\ UNCHANGED costVars
    BY <1>2 DEF Silent
  <2>2. phase'[t] \in Receives \/ phase[t] \notin Receives
    BY <1>0, <1>2 DEF Silent, Arrives, OpenCall, Begin, Starts, Handles, Runs, docVars, Numbers, TakeNumber,
       SkipLine, Refresh, Receiving, In, EntersOrder, Enters, AddsOrder, Adds, MarksOrder, Marks,
       DocumentTypes, Receives, Deliveries
  <2> QED
    BY <1>0, <1>2, <2>1, <2>2 DEF Blends, costVars
<1>3. CASE u = t /\ Drops(t)
  BY <1>0, <1>3 DEF Drops, Blends, CostTypes
<1>4. CASE u = t /\ TakeOrderLine(t)
  <2> DEFINE i == Incoming(t).item
             adjust == [op |-> "adjust", row |-> seen[t].lines[i].into, qty |-> Incoming(t).qty]
  <2>1. /\ pc[t] = "read" /\ pc' = pc /\ phase[t] = "receiving" /\ phase' = phase
        /\ call' = call /\ seen' = seen /\ at'[t] = at[t] + 1 /\ at[t] \in Nat \ {0}
        /\ todo'[t] = <<adjust>> /\ Receiving(t) /\ AcceptsLine(t) /\ Incoming(t).qty > 0
    BY <1>0, <1>4 DEF TakeOrderLine, TakeLine, TakesLine, Receiving, In, Adjusting, StockTypeOK, DocumentTypes
  <2>2. Incoming(t).qty \in Nat
    BY <1>0, <2>1, IncomingTypes
  <2>3. at'[t] - 1 = at[t] /\ LineTaken(t)' = Incoming(t)
    BY <2>1 DEF LineTaken, Incoming
  <2>4. Taken(t)' = adjust
    BY <2>1, <2>3 DEF Taken
  <2> QED
    BY <1>4, <2>1, <2>2, <2>3, <2>4 DEF Blends, Receives
<1>5. CASE u = t /\ Closes(t)
  <2>1. phase[t] \in Deliveries /\ wac[t] = "none" /\ wac' = wac /\ phase' = phase
    BY <1>0, <1>5 DEF Closes, FillsOrder, Fills, Blends, Deliveries
  <2> QED
    BY <1>5, <2>1 DEF Blends, Receives
<1>6. CASE u = t /\ Recosts(t)
  <2>1. UNCHANGED <<pc, phase, at, call, seen, todo>> /\ wac[t] # "none"
    BY <1>6, KindsAreSteps DEF documentsVars, stockVars, docVars, Recosts, ReadCost, ReadOnHand, WriteCost
  <2>2. phase[t] \in Receives
    BY <1>0, <2>1 DEF Blends, Receives
  <2> QED
    BY <1>0, <1>6, <2>1, <2>2 DEF Blends, Taken, LineTaken
<1> QED
  BY <1>1, <1>2, <1>3, <1>4, <1>5, <1>6 DEF PurchaseKinds

LEMMA NextPurchaseInv == PurchaseInv /\ [PurchaseNext]_purchaseVars => PurchaseInv'
<1> SUFFICES ASSUME PurchaseInv, [PurchaseNext]_purchaseVars PROVE PurchaseInv'
  OBVIOUS
<1>1. CASE \E t \in Tx : PurchaseStep(t)
  <2>1. PICK t \in Tx : PurchaseKinds(t)
    BY <1>1, StepKinds
  <2>2. DocumentsInv'
    BY <2>1, KindsAreSteps, StepDocuments, StutterDocuments DEF PurchaseInv
  <2> QED
    BY <2>1, <2>2, StepOrders, StepCosts, StepAsks, StepBlends DEF PurchaseInv
<1>2. CASE UNCHANGED purchaseVars
  <2>1. /\ UNCHANGED documentsVars /\ UNCHANGED <<pc, todo, docs, call, seen, phase, at, cost, wac, basisOf, costed>>
        /\ Existing' = Existing
    BY <1>2 DEF purchaseVars, costVars, documentsVars, stockVars, docVars, Existing
  <2>2. DocumentsInv'
    BY <2>1, StutterDocuments DEF PurchaseInv
  <2>3. \A t \in Tx : Blends(t)'
    BY <2>1 DEF PurchaseInv, Blends, Taken, LineTaken
  <2> QED
    BY <2>1, <2>2, <2>3 DEF PurchaseInv, OrderTypes, CostTypes, Asks
<1> QED
  BY <1>1, <1>2, StepOrStutter

LEMMA PurchaseInitInv == PurchaseInit => PurchaseInv
<1> SUFFICES ASSUME PurchaseInit PROVE PurchaseInv
  OBVIOUS
<1>1. DocumentsInit /\ DocumentsInv
  BY EarlierProper, DocumentsInitInv DEF PurchaseInit
<1>2. Existing = Earlier /\ (\A d \in Earlier : docs[d] = Raised[d])
  BY <1>1, DocAssumption DEF DocumentsInit, Existing, DocId
<1>3. OrderTypes
  BY <1>1, <1>2, RaisedProper DEF OrderTypes, DocumentsInit
<1>4. CostTypes
  <2>1. NoBasis \in [cost : Nat, onHand : Nat]
    BY DEF NoBasis
  <2> QED
    BY <2>1, NoCosts, CostAssumption DEF PurchaseInit, CostTypes, Recomputing
<1>5. \A t \in Tx : Asks(t) /\ Blends(t)
  BY <1>1 DEF DocumentsInit, PurchaseInit, Asks, Blends, Receives, Deliveries
<1> QED
  BY <1>1, <1>3, <1>4, <1>5 DEF PurchaseInv

THEOREM PurchasesInvariant == PurchaseSpec => []PurchaseInv
BY PurchaseInitInv, NextPurchaseInv, PTL DEF PurchaseSpec

(* However many orders are raised at the same time, their numbers run from *)
(* 1 without a gap, each given once.                                       *)
THEOREM PurchasesNumbered == PurchaseSpec => []NumbersGapless
<1>1. PurchaseInv => NumbersGapless
  BY DEF PurchaseInv, DocumentsInv, Numbered
<1> QED
  BY <1>1, PurchasesInvariant, PTL

(* No overlap of deliveries, cancels and failures leaves a negative        *)
(* quantity on hand.                                                       *)
THEOREM PurchasesNeverNegative == PurchaseSpec => []NeverNegative
<1>1. PurchaseInv => NeverNegative
  BY DEF PurchaseInv, DocumentsInv, StockInv
<1> QED
  BY <1>1, PurchasesInvariant, PTL

(* A step of the service is a step of a document or leaves it alone.       *)
LEMMA NextIsDocumentStep ==
  PurchaseInv /\ [PurchaseNext]_purchaseVars
    => (\E t \in Tx : DocumentStep(t)) \/ UNCHANGED documentsVars
<1>1. UNCHANGED purchaseVars => UNCHANGED documentsVars
  BY DEF purchaseVars
<1>2. PurchaseInv /\ (\E t \in Tx : PurchaseStep(t)) => (\E t \in Tx : DocumentStep(t)) \/ UNCHANGED documentsVars
  BY StepKinds, KindsAreSteps
<1> QED
  BY <1>1, <1>2, StepOrStutter

(* However deliveries overlap, a line never shows more than what came into *)
(* stock for it: lost updates can only lose units.                         *)
THEOREM PurchasesReceived == PurchaseSpec => []ReceivedNeverOverstated
<1>1. CountedInv => ReceivedNeverOverstated
  BY DEF CountedInv, Counted, ReceivedNeverOverstated
<1>2. PurchaseInit => CountedInv
  BY EarlierProper, CountedInitInv DEF PurchaseInit
<1>3. PurchaseInv /\ CountedInv /\ [PurchaseNext]_purchaseVars => CountedInv'
  BY NextIsDocumentStep, StepCounted, StutterCounted
<1> QED
  BY <1>1, <1>2, <1>3, PurchasesInvariant, PTL DEF PurchaseSpec

-----------------------------------------------------------------------------
(* As long as no call has overlapped another, and where each delivery      *)
(* named a line once, status and counts agree.                             *)
Agrees(d) ==
  /\ docs[d].status = "RECEIVED" <=>
       \A i \in DOMAIN docs[d].lines : docs[d].received[i] = docs[d].lines[i].qty
  /\ docs[d].status = "PARTIALLY_RECEIVED" => \E i \in DOMAIN docs[d].lines : docs[d].received[i] > 0
  /\ docs[d].status \in {"DRAFT", "ORDERED"} => \A i \in DOMAIN docs[d].lines : docs[d].received[i] = 0

StatusInv ==
  /\ PurchaseInv /\ SequentialInv
  /\ ~overlapped => \A d \in Existing : Neat(d) => Agrees(d)

LEMMA NothingReceived ==
  ASSUME NEW doc, Proper(doc), \A i \in DOMAIN doc.lines : doc.received[i] = 0
  PROVE  ~\A i \in DOMAIN doc.lines : doc.received[i] = doc.lines[i].qty
BY DEF Proper

LEMMA FilledAgrees ==
  ASSUME DocumentsInv, NEW t \in Tx, NEW d \in Existing, Agrees(d), Tallies(d), docs[d] \in OrderType,
         call[t].doc = d, pc[t] \in Open, FillsOrder(t), seen[t] # NoDoc,
         seen[t] = docs[d], Reports(t), NamesOnce(call[t].receipt),
         docs[d].status \notin {"RECEIVED", "CANCELLED"}
  PROVE  Agrees(d)'
<1>1. /\ phase[t] \in Deliveries /\ docs'[d].lines = docs[d].lines
      /\ \A i \in DOMAIN docs[d].lines : docs'[d].received[i] = LineNow(t, i)
      /\ docs'[d].status = StatusAfter(t)
  BY KnownDoc DEF FillsOrder, Fills, Keeps, Proper
<1>2. \A i \in DOMAIN docs[d].lines :
        /\ LineNow(t, i) <= docs[d].lines[i].qty /\ LineNow(t, i) \in Nat
        /\ docs[d].lines[i].qty \in Nat /\ docs[d].received[i] \in Nat /\ docs[d].received[i] <= LineNow(t, i)
  <2> SUFFICES ASSUME NEW i \in DOMAIN docs[d].lines
               PROVE  /\ LineNow(t, i) <= docs[d].lines[i].qty /\ LineNow(t, i) \in Nat
                      /\ docs[d].lines[i].qty \in Nat /\ docs[d].received[i] \in Nat
                      /\ docs[d].received[i] <= LineNow(t, i)
    OBVIOUS
  <2>1. docs[d].lines[i].qty \in Nat /\ docs[d].received[i] \in Nat
    BY KnownDoc DEF Proper
  <2>2. call[t].receipt \in Seq(ReceiptLine)
    BY ReceiptTypes, KnownSeen DEF DocumentsInv
  <2>3. ArrivedIn(call[t].receipt, i) \in Nat
    BY <2>2, ArrivedInNat
  <2> QED
    BY <1>1, <2>1, <2>3, LineReceived
<1>3. AllComplete(t) <=> \A i \in DOMAIN docs[d].lines : LineNow(t, i) = docs[d].lines[i].qty
  BY <1>2 DEF AllComplete
<1>4. AnyReceived(t) <=> \E i \in DOMAIN docs[d].lines : LineNow(t, i) > 0
  BY DEF AnyReceived
<1>5. /\ phase[t] = "all" <=> AllComplete(t)
      /\ phase[t] = "some" => AnyReceived(t)
      /\ phase[t] = "nothing" => ~AnyReceived(t)
  BY <1>1 DEF Reports, Receives, Deliveries
<1>6. CASE phase[t] = "all"
  BY <1>1, <1>3, <1>5, <1>6 DEF Agrees, StatusAfter
<1>7. CASE phase[t] = "some"
  BY <1>1, <1>3, <1>4, <1>5, <1>7 DEF Agrees, StatusAfter
<1>8. CASE phase[t] = "nothing"
  <2>1. \A i \in DOMAIN docs[d].lines : LineNow(t, i) = 0 /\ docs[d].received[i] = 0
    BY <1>2, <1>4, <1>5, <1>8
  <2>2. docs[d].status # "PARTIALLY_RECEIVED"
    BY <2>1 DEF Agrees
  <2>3. docs'[d].status = docs[d].status
    BY <1>1, <1>8 DEF StatusAfter
  <2> QED
    BY <1>1, <1>3, <1>5, <1>8, <2>1, <2>2, <2>3 DEF Agrees
<1> QED
  BY <1>1, <1>6, <1>7, <1>8 DEF Deliveries

LEMMA StepAgrees ==
  ASSUME StatusInv, ~overlapped, NEW t \in Tx, PurchaseKinds(t), NEW d \in Existing', Neat(d)'
  PROVE  Agrees(d)'
<1>0. /\ DocumentsInv /\ StockTypeOK /\ DocumentTypes /\ Handles(t) /\ Informed(t) /\ Asks(t)
      /\ Sequential /\ PurchaseInv
  BY DEF StatusInv, PurchaseInv, SequentialInv, DocumentsInv, StockInv, Handles
<1>1. CASE Recosts(t)
  <2>1. UNCHANGED <<docs, pc, call, phase>> /\ d \in Existing
    BY <1>1, KindsAreSteps DEF documentsVars, stockVars, docVars, Existing
  <2>2. Neat(d)
    BY <2>1 DEF Neat, Committed
  <2> QED
    BY <2>1, <2>2 DEF StatusInv, Agrees
<1>2. CASE DocumentStep(t)
  <2>1. Neat(d) /\ (Concludes(t) /\ call[t].doc = d /\ phase[t] \in Deliveries => NamesOnce(call[t].receipt))
    BY <1>0, <1>2, NeatBefore
  <2>2. d \in Existing => Agrees(d) /\ Tallies(d)
    BY <1>0, <2>1 DEF StatusInv, Sequential
  <2>3. CASE d \in Existing /\ docs'[d] = docs[d]
    BY <2>2, <2>3 DEF Agrees
  <2>4. CASE Arrives(t) \/ Aborts(t) \/ Runs(t) \/ Prepares(t)
    BY <1>0, <2>3, <2>4, QuietStep DEF Existing
  <2>5. CASE AddsOrder(t)
    <3>1. Files(t) /\ docs'[t] = NewOrder(t) /\ call[t].draft \in Draft
      BY <2>5 DEF AddsOrder, Adds
    <3>2. CASE d = t
      <4>1. Proper(docs'[t]) /\ docs'[t].status = "DRAFT" /\ \A i \in DOMAIN docs'[t].lines : docs'[t].received[i] = 0
        BY <1>0, <3>1, NewOrderIs
      <4>2. ~\A i \in DOMAIN docs'[t].lines : docs'[t].received[i] = docs'[t].lines[i].qty
        BY <4>1, NothingReceived
      <4> QED
        BY <3>2, <4>1, <4>2 DEF Agrees
    <3>3. CASE d # t
      BY <2>3, <3>1, <3>3 DEF Files, Existing
    <3> QED
      BY <3>2, <3>3
  <2>6. CASE MarksOrder(t) \/ FillsOrder(t)
    <3>1. /\ Concludes(t) /\ Files(call[t].doc) /\ Keeps(call[t].doc) /\ seen[t] # NoDoc
          /\ call[t].doc \in Existing /\ pc[t] \in Open
      BY <1>0, <2>6, ConcludeStep DEF MarksOrder, Marks, FillsOrder, Fills, Concludes, Informed, Open,
         Receives, Deliveries
    <3>2. CASE d # call[t].doc
      BY <2>3, <3>1, <3>2 DEF Files, Existing
    <3>3. CASE d = call[t].doc
      <4>1. seen[t] = docs[d] /\ Reports(t)
        BY <1>0, <3>1, <3>3 DEF Sequential, UpToDate
      <4>2. CASE MarksOrder(t)
        <5>1. docs'[d].lines = docs[d].lines /\ docs'[d].received = docs[d].received
          BY <3>1, <3>3, <4>2 DEF Keeps, MarksOrder, Marks
        <5> QED
          BY <2>2, <3>1, <3>3, <4>1, <4>2, <5>1 DEF MarksOrder, Agrees
      <4>3. CASE FillsOrder(t)
        <5>1. docs[d].status \notin {"RECEIVED", "CANCELLED"} /\ NamesOnce(call[t].receipt)
          BY <1>0, <2>1, <3>1, <3>3, <4>1, <4>3 DEF Asks, FillsOrder, Fills, Receives
        <5>2. docs[d] \in OrderType
          BY <1>0, <3>1, <3>3 DEF PurchaseInv, OrderTypes
        <5> QED
          BY <1>0, <2>2, <3>1, <3>3, <4>1, <4>3, <5>1, <5>2, FilledAgrees
      <4> QED
        BY <2>6, <4>2, <4>3
    <3> QED
      BY <3>2, <3>3
  <2>7. Recosts(t) => UNCHANGED docs
    BY KindsAreSteps DEF documentsVars, docVars
  <2>8. Recosts(t) => d \in Existing /\ docs'[d] = docs[d]
    BY <2>7 DEF Existing
  <2> QED
    BY <2>3, <2>4, <2>5, <2>6, <2>8 DEF PurchaseKinds, Silent, Drops, TakeOrderLine, Closes, Prepares, EntersOrder
<1> QED
  BY <1>1, <1>2, KindsAreSteps

LEMMA NextStatusInv == StatusInv /\ [PurchaseNext]_purchaseVars => StatusInv'
<1> SUFFICES ASSUME StatusInv, [PurchaseNext]_purchaseVars PROVE StatusInv'
  OBVIOUS
<1>0. PurchaseInv' /\ PurchaseInv /\ StockTypeOK
  BY NextPurchaseInv DEF StatusInv, PurchaseInv, DocumentsInv, StockInv
<1>1. SequentialInv'
  BY <1>0, NextIsDocumentStep, StepSequential, StutterSequential DEF StatusInv
<1>2. ASSUME ~overlapped' PROVE ~overlapped
  <2>1. CASE UNCHANGED documentsVars
    BY <1>2, <2>1 DEF documentsVars, stockVars
  <2>2. ASSUME NEW t \in Tx, DocumentStep(t) PROVE ~overlapped
    BY <1>0, <1>2, <2>2, StepSerial DEF StatusInv, PurchaseInv, DocumentsInv, SequentialInv, Sequential
  <2> QED
    BY <1>0, <2>1, <2>2, NextIsDocumentStep
<1>3. CASE \E t \in Tx : PurchaseStep(t)
  <2>1. PICK t \in Tx : PurchaseKinds(t)
    BY <1>0, <1>3, StepKinds
  <2> QED
    BY <1>0, <1>1, <1>2, <2>1, StepAgrees DEF StatusInv
<1>4. CASE UNCHANGED purchaseVars
  <2>1. UNCHANGED <<pc, docs, call, phase, overlapped>> /\ Existing' = Existing
    BY <1>4 DEF purchaseVars, documentsVars, stockVars, docVars, Existing
  <2>2. \A d : (Neat(d)' <=> Neat(d)) /\ (Agrees(d)' <=> Agrees(d))
    BY <2>1 DEF Neat, Agrees, Committed
  <2> QED
    BY <1>0, <1>1, <2>1, <2>2 DEF StatusInv
<1> QED
  BY <1>3, <1>4, StepOrStutter

LEMMA StatusInitInv == PurchaseInit => StatusInv
<1> SUFFICES ASSUME PurchaseInit PROVE StatusInv
  OBVIOUS
<1>1. PurchaseInv /\ SequentialInv /\ DocumentsInit
  BY PurchaseInitInv, EarlierProper, SequentialInitInv DEF PurchaseInit
<1>2. Existing = Earlier /\ (\A d \in Earlier : docs[d] = Raised[d])
  BY <1>1, DocAssumption DEF DocumentsInit, Existing, DocId
<1>3. ASSUME NEW d \in Existing PROVE Agrees(d)
  <2>1. /\ docs[d].status \in {"DRAFT", "ORDERED", "CANCELLED"} /\ Proper(docs[d])
        /\ \A i \in DOMAIN docs[d].received : docs[d].received[i] = 0
    BY <1>2, RaisedAssumption, UntouchedAssumption, RaisedProper
  <2>2. \A i \in DOMAIN docs[d].lines : docs[d].received[i] = 0
    BY <2>1 DEF Proper
  <2>3. ~\A i \in DOMAIN docs[d].lines : docs[d].received[i] = docs[d].lines[i].qty
    BY <2>1, <2>2, NothingReceived
  <2> QED
    BY <2>1, <2>2, <2>3 DEF Agrees
<1> QED
  BY <1>1, <1>3 DEF StatusInv

(* Of calls in an orderly sequence, status and goods agree: RECEIVED is    *)
(* every unit in stock, each once, and PARTIALLY_RECEIVED some; an order   *)
(* in draft or only ordered has none.                                      *)
THEOREM PurchasesStatus == PurchaseSpec => []StatusFollowsReceipts
<1>1. StatusInv => StatusFollowsReceipts
  <2> SUFFICES ASSUME StatusInv, Orderly, NEW d \in Existing
               PROVE  LET lines == docs[d].lines
                          all == \A i \in DOMAIN lines : Arrived(d, i) = lines[i].qty
                          some == \E i \in DOMAIN lines : Arrived(d, i) > 0
                      IN /\ docs[d].status = "RECEIVED" <=> all
                         /\ docs[d].status = "PARTIALLY_RECEIVED" => some
                         /\ docs[d].status \in {"DRAFT", "ORDERED"} => ~some
    BY DEF StatusFollowsReceipts
  <2>1. Neat(d) /\ Tallies(d)
    BY OrderlyTallies DEF StatusInv
  <2>2. Agrees(d)
    BY <2>1 DEF StatusInv, Orderly
  <2> QED
    BY <2>1, <2>2 DEF Agrees, Tallies
<1> QED
  BY <1>1, StatusInitInv, NextStatusInv, PTL DEF PurchaseSpec

-----------------------------------------------------------------------------
(* Every cost, committed, written or read, lies between two of the prices  *)
(* the variant has had.                                                    *)
Within(v, c) == \E low, high \in Prices(v) : low <= c /\ c <= high

PricesInv ==
  /\ \A v \in Variant : Within(v, cost[v])
  /\ \A t \in Tx : \A v \in DOMAIN costed[t] : Within(v, costed[t][v])
  /\ \A t \in Tx : wac[t] \in {"onHand", "write"} => Within(VariantTaken(t), basisOf[t].cost)

PricedInv == PurchaseInv /\ PricesInv

LEMMA PricesTyped ==
  ASSUME OrderTypes, NEW v \in Variant
  PROVE  Prices(v) \subseteq Nat /\ FirstCost[v] \in Prices(v)
<1>1. FirstCost[v] \in Nat
  BY CostAssumption
<1>2. ASSUME NEW d \in Existing, NEW i \in DOMAIN docs[d].lines PROVE docs[d].lines[i].unitCost \in Nat
  <2>1. docs[d].lines \in Seq(OrderLine)
    BY <1>2 DEF OrderTypes, OrderType
  <2> QED
    BY <1>2, <2>1, OrderLines
<1> QED
  BY <1>1, <1>2 DEF Prices

(* Prices are only added: no document disappears, and its lines stay.      *)
LEMMA PricesStay ==
  ASSUME PurchaseInv, NEW t \in Tx, PurchaseKinds(t), NEW v
  PROVE  Prices(v) \subseteq Prices(v)'
<1>1. \A d \in Existing : d \in Existing' /\ docs'[d].lines = docs[d].lines
  <2>1. CASE DocumentStep(t)
    BY <2>1, LinesStay DEF PurchaseInv
  <2>2. CASE UNCHANGED documentsVars
    BY <2>2 DEF documentsVars, docVars, Existing
  <2> QED
    BY <2>1, <2>2, KindsAreSteps
<1> QED
  BY <1>1 DEF Prices

StillWithin(v, c) == \E low, high \in Prices(v)' : low <= c /\ c <= high

LEMMA WithinStays ==
  ASSUME PurchaseInv, NEW t \in Tx, PurchaseKinds(t), NEW v, NEW c, Within(v, c)
  PROVE  StillWithin(v, c)
BY PricesStay DEF Within, StillWithin

LEMMA PricesAfter ==
  ASSUME \A v \in Variant : StillWithin(v, cost'[v]),
         \A t \in Tx : \A v \in DOMAIN costed'[t] : StillWithin(v, costed'[t][v]),
         \A t \in Tx : wac'[t] \in {"onHand", "write"} =>
                      \E v : v = VariantTaken(t)' /\ StillWithin(v, basisOf'[t].cost)
  PROVE  PricesInv'
BY DEF PricesInv, Within, StillWithin

(* The price of the line that is received is one of them.                  *)
LEMMA PriceTakenKnown ==
  ASSUME PurchaseInv, NEW t \in Tx, wac[t] # "none"
  PROVE  PriceTaken(t) \in Prices(VariantTaken(t))
<1> DEFINE i == LineTaken(t).item
           d == call[t].doc
<1>1. i \in DOMAIN seen[t].lines /\ Target(t) = seen[t].lines[i].into /\ seen[t] # NoDoc
  BY TakenTypes
<1>2. d \in Existing /\ docs[d].lines = seen[t].lines
  BY <1>1, KnownSeen DEF PurchaseInv
<1>3. PriceTaken(t) = docs[d].lines[i].unitCost /\ VariantOf[docs[d].lines[i].into] = VariantTaken(t)
  BY <1>1, <1>2 DEF PriceTaken, VariantTaken
<1>4. i \in {j \in DOMAIN docs[d].lines : VariantOf[docs[d].lines[j].into] = VariantTaken(t)}
  BY <1>1, <1>2, <1>3
<1> HIDE DEF i, d
<1> QED
  BY <1>2, <1>3, <1>4 DEF Prices

LEMMA CostSeenWithin ==
  ASSUME PricedInv, NEW t \in Tx, NEW v \in Variant
  PROVE  Within(v, CostSeen(t, v))
BY DEF PricedInv, PricesInv, CostSeen

(* So is a blend of a cost within them and one of them.                    *)
LEMMA BlendWithin ==
  ASSUME OrderTypes, NEW v \in Variant, NEW old \in Nat, Within(v, old), NEW onHand \in Nat,
         NEW qty \in Nat \ {0}, NEW unitCost \in Prices(v)
  PROVE  Within(v, Blend(old, onHand, qty, unitCost))
<1> DEFINE new == Blend(old, onHand, qty, unitCost)
<1>1. Prices(v) \subseteq Nat
  BY PricesTyped
<1>2. PICK low \in Prices(v), high \in Prices(v) : low <= old /\ old <= high
  BY DEF Within
<1>3. PICK least \in Prices(v) : least <= low /\ least <= unitCost /\ (least = low \/ least = unitCost)
  BY <1>1
<1>4. PICK most \in Prices(v) : high <= most /\ unitCost <= most /\ (most = high \/ most = unitCost)
  BY <1>1
<1>5. least <= old /\ old <= most
  BY <1>1, <1>2, <1>3, <1>4
<1>6. least <= new /\ new <= most
  BY <1>1, <1>3, <1>4, <1>5, BlendBetween
<1> HIDE DEF new
<1> QED
  BY <1>6 DEF Within, new

LEMMA StepPrices ==
  ASSUME PricedInv, NEW t \in Tx, PurchaseKinds(t)
  PROVE  PricesInv'
<1>0. /\ PurchaseInv /\ CostTypes /\ OrderTypes /\ StockInv /\ DocumentTypes /\ Blends(t)
      /\ PricesInv
  BY DEF PricedInv, PurchaseInv, DocumentsInv
<1>1. \A v, c : Within(v, c) => StillWithin(v, c)
  <2> SUFFICES ASSUME NEW v, NEW c, Within(v, c) PROVE StillWithin(v, c)
    OBVIOUS
  <2> QED
    BY <1>0, WithinStays
<1>2. ASSUME NEW u \in Tx \ {t}
      PROVE  /\ \A v \in DOMAIN costed'[u] : StillWithin(v, costed'[u][v])
             /\ wac'[u] \in {"onHand", "write"} =>
                  VariantTaken(u)' = VariantTaken(u) /\ StillWithin(VariantTaken(u), basisOf'[u].cost)
  <2>1. costed'[u] = costed[u] /\ wac'[u] = wac[u] /\ basisOf'[u] = basisOf[u] /\ VariantTaken(u)' = VariantTaken(u)
    BY <1>0, OthersBlend DEF Own, VariantTaken, Target, Current
  <2> QED
    BY <1>0, <1>1, <2>1 DEF PricesInv
<1>3. CASE Silent(t)
  <2>1. UNCHANGED <<cost, costed>> /\ wac'[t] = "none"
    BY <1>3 DEF Silent, costVars
  <2> QED
    BY <1>0, <1>1, <1>2, <2>1, PricesAfter DEF PricesInv
<1>4. CASE Drops(t)
  <2>1. cost' = cost /\ DOMAIN costed'[t] = {} /\ wac'[t] = "none"
    BY <1>0, <1>4, NoCosts DEF Drops, CostTypes
  <2> QED
    BY <1>0, <1>1, <1>2, <2>1, PricesAfter DEF PricesInv
<1>5. CASE TakeOrderLine(t)
  <2>1. UNCHANGED <<cost, costed>> /\ wac'[t] = "cost"
    BY <1>0, <1>5 DEF TakeOrderLine, CostTypes
  <2> QED
    BY <1>0, <1>1, <1>2, <2>1, PricesAfter DEF PricesInv
<1>6. CASE Closes(t)
  <2>1. DOMAIN costed'[t] = {} /\ wac'[t] = "none"
    BY <1>0, <1>6, NoCosts DEF Closes, FillsOrder, Fills, Blends, CostTypes, Deliveries
  <2>2. \A v \in Variant : cost'[v] = CostSeen(t, v)
    BY <1>6 DEF Closes
  <2>3. \A v \in Variant : StillWithin(v, cost'[v])
    BY <1>1, <2>2, CostSeenWithin
  <2> QED
    BY <1>2, <2>1, <2>3, PricesAfter
<1>7. CASE Recosts(t)
  <2>1. UNCHANGED documentsVars /\ todo' = todo /\ VariantTaken(t)' = VariantTaken(t) /\ wac[t] # "none"
    BY <1>7, KindsAreSteps DEF documentsVars, stockVars, VariantTaken, Target, Current,
       Recosts, ReadCost, ReadOnHand, WriteCost
  <2>2. VariantTaken(t) \in Variant
    BY <1>0, <2>1, TakenTypes
  <2>3. CASE ReadCost(t)
    <3>1. UNCHANGED <<cost, costed>> /\ basisOf'[t].cost = CostSeen(t, VariantTaken(t))
      BY <1>0, <2>3 DEF ReadCost, CostTypes
    <3>2. Within(VariantTaken(t), basisOf'[t].cost)
      BY <2>2, <3>1, CostSeenWithin
    <3> QED
      BY <1>0, <1>1, <1>2, <2>1, <3>1, <3>2, PricesAfter DEF PricesInv
  <2>4. CASE ReadOnHand(t)
    <3>1. UNCHANGED <<cost, costed>> /\ basisOf'[t].cost = basisOf[t].cost /\ wac[t] = "onHand"
      BY <1>0, <2>4 DEF ReadOnHand, CostTypes
    <3> QED
      BY <1>0, <1>1, <1>2, <2>1, <3>1, PricesAfter DEF PricesInv
  <2>5. CASE WriteCost(t)
    <3> DEFINE v == VariantTaken(t)
               new == Blend(basisOf[t].cost, basisOf[t].onHand, LineTaken(t).qty, PriceTaken(t))
    <3>1. /\ cost' = cost /\ wac'[t] = "none" /\ wac[t] = "write"
          /\ costed'[t] = [x \in DOMAIN costed[t] \cup {v} |-> IF x = v THEN new ELSE costed[t][x]]
      BY <1>0, <2>5 DEF WriteCost, CostTypes
    <3>2. basisOf[t].cost \in Nat /\ basisOf[t].onHand \in Nat
      BY <1>0 DEF CostTypes
    <3>3. Within(v, basisOf[t].cost)
      BY <1>0, <3>1 DEF PricesInv
    <3>4. LineTaken(t).qty \in Nat \ {0} /\ PriceTaken(t) \in Prices(v)
      BY <1>0, <2>1, TakenTypes, PriceTakenKnown
    <3> HIDE DEF v
    <3>5. Within(v, new)
      BY <1>0, <2>2, <3>2, <3>3, <3>4, BlendWithin DEF v
    <3> HIDE DEF new
    <3>6. \A x \in DOMAIN costed'[t] : Within(x, costed'[t][x])
      BY <1>0, <3>1, <3>5 DEF PricesInv
    <3> QED
      BY <1>0, <1>1, <1>2, <3>1, <3>6, PricesAfter DEF PricesInv
  <2> QED
    BY <1>7, <2>3, <2>4, <2>5 DEF Recosts
<1> QED
  BY <1>3, <1>4, <1>5, <1>6, <1>7 DEF PurchaseKinds

LEMMA NextPricedInv == PricedInv /\ [PurchaseNext]_purchaseVars => PricedInv'
<1> SUFFICES ASSUME PricedInv, [PurchaseNext]_purchaseVars PROVE PricedInv'
  OBVIOUS
<1>0. PurchaseInv' /\ PurchaseInv
  BY NextPurchaseInv DEF PricedInv
<1>1. CASE \E t \in Tx : PurchaseStep(t)
  BY <1>0, <1>1, StepKinds, StepPrices DEF PricedInv
<1>2. CASE UNCHANGED purchaseVars
  <2>1. UNCHANGED <<docs, todo, cost, wac, basisOf, costed>>
    BY <1>2 DEF purchaseVars, costVars, documentsVars, stockVars, docVars
  <2> QED
    BY <1>0, <2>1 DEF PricedInv, PricesInv, Within, Prices, Existing, VariantTaken, Target, Current
<1> QED
  BY <1>1, <1>2, StepOrStutter

LEMMA PricedInitInv == PurchaseInit => PricedInv
<1> SUFFICES ASSUME PurchaseInit PROVE PricedInv
  OBVIOUS
<1>1. PurchaseInv /\ OrderTypes
  BY PurchaseInitInv DEF PurchaseInv
<1>2. \A v \in Variant : Within(v, cost[v])
  <2> SUFFICES ASSUME NEW v \in Variant PROVE Within(v, cost[v])
    OBVIOUS
  <2>1. cost[v] = FirstCost[v] /\ FirstCost[v] \in Nat /\ FirstCost[v] \in Prices(v)
    BY <1>1, PricesTyped, CostAssumption DEF PurchaseInit
  <2> QED
    BY <2>1 DEF Within
<1>3. \A t \in Tx : DOMAIN costed[t] = {} /\ wac[t] = "none"
  BY NoCosts DEF PurchaseInit
<1> QED
  BY <1>1, <1>2, <1>3 DEF PricedInv, PricesInv

(* However deliveries and other movements interleave, and whatever they    *)
(* read meanwhile, a cost stays between the lowest and the highest price:  *)
(* lost blends and rounding never take it outside.                         *)
THEOREM PurchasesCostWithin == PurchaseSpec => []CostWithinPrices
<1>1. PricedInv => CostWithinPrices
  BY DEF PricedInv, PricesInv, Within, CostWithinPrices
<1> QED
  BY <1>1, PricedInitInv, NextPricedInv, PTL DEF PurchaseSpec

-----------------------------------------------------------------------------
(* The value of the stock.  Of the first n lines of its delivery, those    *)
(* that brought variant v in to call t, and what was paid for them.        *)
Takes(t, v, n) == {k \in 1 .. n : VariantOf[seen[t].lines[call[t].receipt[k].item].into] = v}
Paid(t, v, n) ==
  SumFunctionOnSet([k \in DOMAIN call[t].receipt |->
    call[t].receipt[k].qty * seen[t].lines[call[t].receipt[k].item].unitCost], Takes(t, v, n))

Reached(t, n) ==
  \A k \in 1 .. n : k \in DOMAIN call[t].receipt /\ call[t].receipt[k].item \in DOMAIN seen[t].lines

LEMMA ReachedTypes ==
  ASSUME DocumentTypes, OrderTypes, NEW t \in Tx, call[t] # NoDoc, seen[t] # NoDoc,
         NEW n \in Nat, Reached(t, n), NEW k \in 1 .. n
  PROVE  /\ k \in DOMAIN call[t].receipt /\ call[t].receipt[k].qty \in Nat
         /\ seen[t].lines[call[t].receipt[k].item].into \in Row
         /\ seen[t].lines[call[t].receipt[k].item].unitCost \in Nat
<1>1. k \in DOMAIN call[t].receipt /\ call[t].receipt[k].item \in DOMAIN seen[t].lines
  BY DEF Reached
<1>2. seen[t].lines \in Seq(OrderLine)
  BY DEF OrderTypes, OrderType
<1> QED
  BY <1>1, <1>2, OrderLines, ReceiptTypes

LEMMA TakesTypes ==
  ASSUME DocumentTypes, OrderTypes, NEW t \in Tx, call[t] # NoDoc, seen[t] # NoDoc,
         NEW n \in Nat, Reached(t, n), NEW v
  PROVE  /\ IsFiniteSet(Takes(t, v, n)) /\ Cardinality(Takes(t, v, n)) \in Nat
         /\ Paid(t, v, n) \in Nat
<1> DEFINE g == [k \in DOMAIN call[t].receipt |->
                   call[t].receipt[k].qty * seen[t].lines[call[t].receipt[k].item].unitCost]
<1>1. Takes(t, v, n) \subseteq 1 .. n
  BY DEF Takes
<1>2. IsFiniteSet(1 .. n)
  BY FS_Interval
<1>3. IsFiniteSet(Takes(t, v, n))
  BY <1>1, <1>2, FS_Subset
<1>4. Cardinality(Takes(t, v, n)) \in Nat
  BY <1>3, FS_CardinalityType
<1>5. NatValued(g, Takes(t, v, n))
  <2> SUFFICES ASSUME NEW k \in Takes(t, v, n) PROVE g[k] \in Nat
    BY DEF NatValued
  <2>1. k \in 1 .. n
    BY <1>1
  <2>2. /\ k \in DOMAIN call[t].receipt /\ call[t].receipt[k].qty \in Nat
        /\ seen[t].lines[call[t].receipt[k].item].unitCost \in Nat
    BY <2>1, ReachedTypes
  <2>3. call[t].receipt[k].qty * seen[t].lines[call[t].receipt[k].item].unitCost \in Nat
    BY <2>2, Products
  <2> QED
    BY ONLY <2>2, <2>3
<1>6. Paid(t, v, n) = SumFunctionOnSet(g, Takes(t, v, n))
  BY DEF Paid
<1> HIDE DEF g
<1> QED
  BY <1>3, <1>4, <1>5, <1>6, SumNat

LEMMA TakesNone ==
  ASSUME NEW t, NEW v
  PROVE  Takes(t, v, 0) = {} /\ Cardinality(Takes(t, v, 0)) = 0 /\ Paid(t, v, 0) = 0
<1>1. Takes(t, v, 0) = {}
  BY DEF Takes
<1> QED
  BY <1>1, SumEmpty, FS_EmptySet DEF Paid

(* One line more.                                                          *)
LEMMA TakesOne ==
  ASSUME DocumentTypes, OrderTypes, NEW t \in Tx, call[t] # NoDoc, seen[t] # NoDoc,
         NEW n \in Nat, Reached(t, n + 1), NEW v
  PROVE  LET line == call[t].receipt[n + 1]
         IN /\ VariantOf[seen[t].lines[line.item].into] = v =>
                 /\ Cardinality(Takes(t, v, n + 1)) = Cardinality(Takes(t, v, n)) + 1
                 /\ Paid(t, v, n + 1) = Paid(t, v, n) + line.qty * seen[t].lines[line.item].unitCost
            /\ VariantOf[seen[t].lines[line.item].into] # v =>
                 /\ Cardinality(Takes(t, v, n + 1)) = Cardinality(Takes(t, v, n))
                 /\ Paid(t, v, n + 1) = Paid(t, v, n)
<1> DEFINE g == [k \in DOMAIN call[t].receipt |->
                   call[t].receipt[k].qty * seen[t].lines[call[t].receipt[k].item].unitCost]
           S == Takes(t, v, n)
           line == call[t].receipt[n + 1]
<1>1. 1 .. n + 1 = (1 .. n) \cup {n + 1} /\ n + 1 \notin 1 .. n /\ n + 1 \in 1 .. n + 1 /\ n + 1 \in Nat
  OBVIOUS
<1>2. Reached(t, n)
  BY <1>1 DEF Reached
<1>3. S \subseteq 1 .. n /\ IsFiniteSet(S) /\ Cardinality(S) \in Nat /\ n + 1 \notin S
  BY <1>1, <1>2, TakesTypes DEF Takes
<1>4. n + 1 \in DOMAIN call[t].receipt /\ g[n + 1] = line.qty * seen[t].lines[line.item].unitCost
  BY <1>1 DEF Reached
<1>5. CASE VariantOf[seen[t].lines[line.item].into] = v
  <2>1. Takes(t, v, n + 1) = S \cup {n + 1}
    BY <1>1, <1>5 DEF Takes
  <2>2. Cardinality(S \cup {n + 1}) = Cardinality(S) + 1
    BY <1>3, FS_AddElement
  <2>3. IntValued(g, S \cup {n + 1})
    <3> SUFFICES ASSUME NEW k \in S \cup {n + 1} PROVE g[k] \in Int
      BY DEF IntValued
    <3>1. k \in 1 .. n + 1
      BY <1>1, <1>3
    <3>2. /\ k \in DOMAIN call[t].receipt /\ call[t].receipt[k].qty \in Nat
          /\ seen[t].lines[call[t].receipt[k].item].unitCost \in Nat
      BY <1>1, <3>1, ReachedTypes
    <3>3. call[t].receipt[k].qty * seen[t].lines[call[t].receipt[k].item].unitCost \in Nat
      BY <3>2, Products
    <3>4. g[k] \in Nat
      BY ONLY <3>2, <3>3
    <3> HIDE DEF g
    <3> QED
      BY <3>4
  <2>4. /\ Paid(t, v, n + 1) = SumFunctionOnSet(g, S \cup {n + 1}) /\ Paid(t, v, n) = SumFunctionOnSet(g, S)
    BY <2>1 DEF Paid
  <2> HIDE DEF g, S
  <2>5. /\ SumFunctionOnSet(g, S \cup {n + 1}) = g[n + 1] + SumFunctionOnSet(g, S) /\ SumFunctionOnSet(g, S) \in Int
    BY <1>3, <2>3, SumAdd
  <2>6. g[n + 1] \in Int
    BY <2>3 DEF IntValued
  <2>7. Cardinality(Takes(t, v, n + 1)) = Cardinality(Takes(t, v, n)) + 1
    BY <2>1, <2>2 DEF S
  <2>8. Paid(t, v, n + 1) = Paid(t, v, n) + g[n + 1]
    BY <2>4, <2>5, <2>6
  <2> QED
    BY <1>4, <1>5, <2>7, <2>8
<1>6. CASE VariantOf[seen[t].lines[line.item].into] # v
  <2>1. Takes(t, v, n + 1) = Takes(t, v, n)
    BY <1>1, <1>6 DEF Takes
  <2> QED
    BY <1>6, <2>1 DEF Paid
<1> QED
  BY <1>5, <1>6

(* A cost c of the S units in stock, a cost x of the h units there are     *)
(* with those that came for p: but for half a cent a unit on each of m     *)
(* lines, the difference in value is what was paid.                        *)
Worth(x, h, c, S, p) == x * h - c * S - p
NearZero(w, k) == 2 * w <= k /\ -k <= 2 * w
Valued(x, h, c, S, p, m) == NearZero(Worth(x, h, c, S, p), m * h)

LEMMA ValuedSkip ==
  ASSUME NEW x \in Nat, NEW h \in Nat, NEW c \in Nat, NEW S \in Nat, NEW p \in Nat, NEW m \in Nat,
         Valued(x, h, c, S, p, m)
  PROVE  Valued(x, h, c, S, p, m + 1)
<1>1. (m + 1) * h = m * h + h /\ m * h \in Nat
  OBVIOUS
<1>2. Worth(x, h, c, S, p) \in Int
  BY DEF Worth
<1> QED
  BY <1>1, <1>2 DEF Valued, NearZero

LEMMA ValuedBlend ==
  ASSUME NEW x \in Nat, NEW h \in Nat, NEW c \in Nat, NEW S \in Nat, S <= h, NEW p \in Nat, NEW m \in Nat,
         Valued(x, h, c, S, p, m), NEW q \in Nat \ {0}, NEW price \in Nat
  PROVE  Valued(Blend(x, h, q, price), h + q, c, S, p + q * price, m + 1)
<1>0. q * price = price * q /\ q * price \in Nat
  OBVIOUS
<1>1. CASE h = 0
  <2>1. S = 0 /\ x * h = 0 /\ c * S = 0 /\ m * h = 0
    BY <1>1
  <2>2. p = 0
    BY <2>1 DEF Valued, NearZero, Worth
  <2>3. Blend(x, h, q, price) = price
    BY <1>1 DEF Blend
  <2>4. Worth(price, h + q, c, S, p + q * price) = 0
    <3>1. price * (h + q) = q * price
      BY <1>0, <1>1
    <3> QED
      BY <1>0, <2>1, <2>2, <3>1 DEF Worth
  <2> DEFINE k == (m + 1) * (h + q)
             w == Worth(price, h + q, c, S, p + q * price)
  <2>5. k \in Nat /\ w = 0
    BY <2>4
  <2> HIDE DEF k, w
  <2>6. NearZero(w, k)
    BY <2>5 DEF NearZero
  <2> USE DEF k, w
  <2> QED
    BY <2>3, <2>6 DEF Valued
<1>2. CASE h # 0
  <2> DEFINE n == x * h + price * q
             d == h + q
             r == Rounded(n, d)
  <2>1. Blend(x, h, q, price) = r
    BY <1>2 DEF Blend
  <2>2. n \in Nat /\ d \in Nat \ {0}
    OBVIOUS
  <2>3. r \in Nat /\ 2 * (r * d - n) <= d /\ -d <= 2 * (r * d - n)
    <3> HIDE DEF n, d
    <3> QED
      BY <2>2, RoundedHalf
  <2>4. Worth(r, d, c, S, p + q * price) = (r * d - n) + Worth(x, h, c, S, p)
    <3> HIDE DEF r
    <3>1. r * d \in Int /\ x * h \in Int /\ c * S \in Int
      BY <2>3
    <3> QED
      BY <1>0, <2>3, <3>1 DEF Worth
  <2>5. (m + 1) * d = m * h + m * q + d /\ m * h \in Nat /\ m * q \in Nat
    OBVIOUS
  <2>6. Worth(x, h, c, S, p) \in Int /\ r * d - n \in Int
    <3> HIDE DEF r
    <3> QED
      BY <2>2, <2>3 DEF Worth
  <2>7. 2 * Worth(x, h, c, S, p) <= m * h /\ -(m * h) <= 2 * Worth(x, h, c, S, p)
    BY DEF Valued, NearZero
  <2> DEFINE e == r * d - n
             w == Worth(x, h, c, S, p)
  <2> HIDE DEF r, n
  <2>8. NearZero(e + w, (m + 1) * d)
    <3>1. /\ e \in Int /\ w \in Int /\ d \in Nat /\ 2 * e <= d /\ -d <= 2 * e
          /\ 2 * w <= m * h /\ -(m * h) <= 2 * w
      BY <2>2, <2>3, <2>6, <2>7
    <3> HIDE DEF e, w, d
    <3> QED
      BY <2>5, <3>1 DEF NearZero
  <2> QED
    BY <2>1, <2>4, <2>8 DEF Valued
<1> QED
  BY <1>1, <1>2

(* What t sees of a row nobody raced: the committed level and its own      *)
(* movements; and what will be on hand when its steps have run.            *)
Coming(t, v) ==
  SumFunctionOnSet([r \in Row |-> Qty(level[r]) + (posted[t][r] + Effect(todo[t], r))],
                   {r \in Row : VariantOf[r] = v})

LEMMA SeesPosted ==
  ASSUME StockInv, NothingStale, NEW t \in Tx, NEW r \in Row
  PROVE  /\ Qty(Sees(t, r)) = Qty(level[r]) + posted[t][r]
         /\ Qty(level[r]) \in Nat /\ posted[t][r] \in Int /\ Qty(Sees(t, r)) \in Nat
<1>1. Qty(level[r]) \in Nat /\ Qty(Sees(t, r)) \in Nat
  BY SeesNat
<1>2. posted[t][r] \in Int /\ work[t][r] \in Int \cup {NoWrite}
  BY DEF StockInv, StockTypeOK
<1>3. CASE work[t][r] = NoWrite
  BY <1>1, <1>2, <1>3 DEF StockInv, OnlyLocked, Sees
<1>4. CASE work[t][r] # NoWrite
  <2>1. work[t][r] = moved[r] + posted[t][r] /\ Qty(level[r]) = moved[r]
    BY <1>4 DEF StockInv, WorkBalances, BooksBalance, NothingStale
  <2>2. Qty(Sees(t, r)) = work[t][r]
    BY <1>2, <1>4, AbsentAssumption DEF Sees, Qty
  <2> QED
    BY <1>1, <1>2, <2>1, <2>2
<1> QED
  BY <1>3, <1>4

LEMMA ComingNothing ==
  ASSUME StockInv, NothingStale, NEW t \in Tx, todo[t] = <<>>, NEW v
  PROVE  Coming(t, v) = OnHand(t, v)
<1> DEFINE T == {r \in Row : VariantOf[r] = v}
           f == [r \in Row |-> Qty(Sees(t, r))]
           g == [r \in Row |-> Qty(level[r]) + (posted[t][r] + Effect(todo[t], r))]
<1>1. IsFiniteSet(T)
  BY RowsFinite
<1>2. ASSUME NEW r \in T PROVE f[r] \in Int /\ g[r] = f[r]
  <2>1. Effect(todo[t], r) = 0
    BY EffectEmpty
  <2>2. /\ Qty(Sees(t, r)) = Qty(level[r]) + posted[t][r]
        /\ Qty(level[r]) \in Nat /\ posted[t][r] \in Int /\ Qty(Sees(t, r)) \in Nat
    BY SeesPosted
  <2>3. Qty(level[r]) + (posted[t][r] + Effect(todo[t], r)) = Qty(Sees(t, r))
    BY <2>1, <2>2
  <2> QED
    BY <2>2, <2>3
<1>3. OnHand(t, v) = SumFunctionOnSet(f, T) /\ Coming(t, v) = SumFunctionOnSet(g, T)
  BY DEF OnHand, Coming
<1> HIDE DEF f, g, T
<1>4. IntValued(f, T)
  BY <1>2 DEF IntValued
<1> QED
  BY <1>1, <1>2, <1>3, <1>4, SumSame

LEMMA ComingStep ==
  ASSUME StockInv, NothingStale, NEW t \in Tx, NEW step \in Step, todo[t] = <<step>>, NEW v
  PROVE  /\ VariantOf[step.row] = v => Coming(t, v) = OnHand(t, v) + step.qty
         /\ VariantOf[step.row] # v => Coming(t, v) = OnHand(t, v)
<1> DEFINE T == {r \in Row : VariantOf[r] = v}
           f == [r \in Row |-> Qty(Sees(t, r))]
           g == [r \in Row |-> Qty(level[r]) + (posted[t][r] + Effect(todo[t], r))]
<1>1. IsFiniteSet(T) /\ step.row \in Row /\ step.qty \in Int
  BY RowsFinite DEF Step
<1>2. ASSUME NEW r \in T PROVE f[r] \in Int /\ g[r] = f[r] + Moves(step, r) /\ Moves(step, r) \in Int
  <2>1. Effect(todo[t], r) = Moves(step, r) /\ Moves(step, r) \in Int
    BY <1>1, EffectOne DEF Moves
  <2>2. /\ Qty(Sees(t, r)) = Qty(level[r]) + posted[t][r]
        /\ Qty(level[r]) \in Nat /\ posted[t][r] \in Int /\ Qty(Sees(t, r)) \in Nat
    BY SeesPosted
  <2>3. Qty(level[r]) + (posted[t][r] + Effect(todo[t], r)) = Qty(Sees(t, r)) + Moves(step, r)
    BY <2>1, <2>2
  <2> QED
    BY <2>1, <2>2, <2>3
<1>3. OnHand(t, v) = SumFunctionOnSet(f, T) /\ Coming(t, v) = SumFunctionOnSet(g, T)
  BY DEF OnHand, Coming
<1>4. VariantOf[step.row] = v <=> step.row \in T
  BY <1>1
<1> HIDE DEF f, g, T
<1>5. IntValued(f, T) /\ IntValued(g, T)
  BY <1>2 DEF IntValued
<1>6. CASE step.row \in T
  <2>1. \A r \in T \ {step.row} : f[r] = g[r]
    BY <1>2 DEF Moves
  <2>2. g[step.row] = f[step.row] + step.qty /\ f[step.row] \in Int
    BY <1>2, <1>6 DEF Moves
  <2>3. SumFunctionOnSet(g, T) = SumFunctionOnSet(f, T) + g[step.row] - f[step.row]
    BY <1>1, <1>5, <1>6, <2>1, SumChange
  <2>4. SumFunctionOnSet(f, T) \in Int
    BY <1>1, <1>5, SumInt
  <2> QED
    BY <1>1, <1>3, <1>4, <1>6, <2>2, <2>3, <2>4
<1>7. CASE step.row \notin T
  <2>1. \A r \in T : f[r] = g[r]
    BY <1>2, <1>7 DEF Moves
  <2>2. SumFunctionOnSet(f, T) = SumFunctionOnSet(g, T)
    BY <1>1, <1>5, <2>1, SumSame
  <2> QED
    BY <1>3, <1>4, <1>7, <2>2
<1> QED
  BY <1>6, <1>7

(* The statements of adjustStock bring in what was to come.                *)
LEMMA ComingRuns ==
  ASSUME StockTypeOK, NEW t \in Tx, Runs(t), Adjusts(todo[t]), NEW v
  PROVE  Coming(t, v)' = Coming(t, v) /\ level' = level
<1>1. level' = level
  BY DEF Runs, Statement, ZeroDelta, UpsertFound, UpsertMissing, UpsertInsert, UpsertConflict,
     AdjustWrite, Insufficient, CountCompare, SetReorder, DeadlockAbort, Rollback
<1>2. Statement(t) /\ pc'[t] # "aborted"
  BY DEF Runs, Open
<1>3. \A r \in Row : posted'[t][r] + Effect(todo'[t], r) = posted[t][r] + Effect(todo[t], r)
  BY <1>2, StatementEffect
<1> QED
  BY <1>1, <1>3 DEF Coming

-----------------------------------------------------------------------------
(* While no call has overlapped another, the cost a call sees and the      *)
(* quantity that is on hand, with what its last line still brings in once  *)
(* the cost of that line is recomputed, are worth what the stock was worth *)
(* and what was paid for the lines so far; and what it has read it sees.   *)
Covered(t) == IF wac[t] = "none" THEN at[t] - 1 ELSE at[t] - 2
Hand(t, v) == IF wac[t] = "none" THEN Coming(t, v) ELSE OnHand(t, v)

Worthy(t, v) ==
  /\ Stocked(v) <= Hand(t, v)
  /\ Valued(CostSeen(t, v), Hand(t, v), cost[v], Stocked(v),
            Paid(t, v, Covered(t)), Cardinality(Takes(t, v, Covered(t))))

Read(t) ==
  /\ wac[t] \in {"onHand", "write"} => basisOf[t].cost = CostSeen(t, VariantTaken(t))
  /\ wac[t] = "write" => basisOf[t].onHand = OnHand(t, VariantTaken(t))

Blended(t) == pc[t] \in Open /\ phase[t] \in Receives => Read(t) /\ \A v \in Variant : Worthy(t, v)

BlendInv ==
  /\ PurchaseInv /\ PostingInv /\ SequentialInv
  /\ ~overlapped => \A t \in Tx : Blended(t)

LEMMA Untaken ==
  ASSUME PurchaseInv, NEW t \in Tx, phase[t] \in Receives
  PROVE  /\ seen[t] # NoDoc /\ call[t] # NoDoc /\ Delivers(t) /\ at[t] \in Nat \ {0}
         /\ Reached(t, at[t] - 1) /\ (wac[t] # "none" => at[t] > 1)
<1>1. DocumentTypes /\ Handles(t) /\ Informed(t) /\ Blends(t)
  BY DEF PurchaseInv, DocumentsInv, Handles
<1>2. seen[t] # NoDoc /\ call[t] # NoDoc /\ Delivers(t) /\ at[t] \in Nat \ {0}
  BY <1>1 DEF Informed, Handles, DocumentTypes, Receives
<1>3. \A k \in 1 .. at[t] - 1 : k \in 1 .. Len(call[t].receipt)
  BY <1>1, <1>2, ReceiptTypes DEF Delivers
<1>4. Reached(t, at[t] - 1)
  BY <1>1, <1>2, <1>3, ReceiptTypes DEF Reached, Delivers
<1> QED
  BY <1>1, <1>2, <1>4 DEF Blends

(* The facts the steps below share: of the numbers in Valued.              *)
LEMMA WorthTypes ==
  ASSUME PurchaseInv, NEW t \in Tx, phase[t] \in Receives, NEW v \in Variant, NEW n \in Nat, n <= at[t] - 1
  PROVE  /\ CostSeen(t, v) \in Nat /\ cost[v] \in Nat /\ Stocked(v) \in Nat /\ OnHand(t, v) \in Nat
         /\ Paid(t, v, n) \in Nat /\ Cardinality(Takes(t, v, n)) \in Nat
<1>1. DocumentTypes /\ OrderTypes /\ CostTypes /\ StockInv
  BY DEF PurchaseInv, DocumentsInv
<1>2. seen[t] # NoDoc /\ call[t] # NoDoc /\ at[t] \in Nat \ {0} /\ Reached(t, at[t] - 1)
  BY Untaken
<1>3. Reached(t, n)
  BY <1>2 DEF Reached
<1>4. Paid(t, v, n) \in Nat /\ Cardinality(Takes(t, v, n)) \in Nat
  BY <1>1, <1>2, <1>3, TakesTypes
<1>5. CostSeen(t, v) \in Nat /\ cost[v] \in Nat
  BY <1>1, CostsTyped DEF CostTypes
<1> QED
  BY <1>1, <1>4, <1>5, OnHandNat

(* The handler starts receiving: nothing has come yet.                     *)
LEMMA BlendEnters ==
  ASSUME BlendInv, NothingStale, NEW t \in Tx, Enters(t), wac[t] = "none", UNCHANGED costVars
  PROVE  Blended(t)'
<1>0. /\ StockInv /\ StockTypeOK /\ DocumentTypes /\ Posting(t) /\ Handles(t) /\ Blends(t) /\ CostTypes
  BY DEF BlendInv, PurchaseInv, PostingInv, DocumentsInv, StockInv
<1>1. /\ phase[t] = "receive" /\ pc[t] = "read" /\ UNCHANGED <<level, posted, todo, work, at, call, seen>>
  BY DEF Enters, In, stockVars
<1>2. at[t] = 1 /\ todo[t] = <<>> /\ costed[t] = NoLines
  BY <1>0, <1>1 DEF Handles, Starts, Posting, Blends, Receives, Deliveries, Open
<1>3. \A r \in Row : posted[t][r] = 0
  <2> SUFFICES ASSUME NEW r \in Row PROVE posted[t][r] = 0
    OBVIOUS
  <2>1. posted[t][r] + Effect(todo[t], r) = Effect(Due(t), r)
    BY <1>0, <1>1 DEF Posting, Open
  <2>2. Due(t) = <<>>
    BY <1>1 DEF Due, Receives, Deliveries
  <2>3. Effect(todo[t], r) = 0 /\ Effect(Due(t), r) = 0
    BY <1>2, <2>2, EffectEmpty
  <2>4. posted[t][r] \in Int
    BY <1>0 DEF StockTypeOK
  <2> QED
    BY <2>1, <2>3, <2>4
<1>4. ASSUME NEW v \in Variant PROVE Worthy(t, v)'
  <2>1. CostSeen(t, v) = cost[v] /\ cost[v] \in Nat /\ CostSeen(t, v)' = CostSeen(t, v) /\ cost' = cost
    BY <1>0, <1>2, NoCosts DEF CostSeen, CostTypes, costVars
  <2>2. OnHand(t, v) = Stocked(v) /\ Stocked(v) \in Nat
    <3> DEFINE T == {r \in Row : VariantOf[r] = v}
               f == [r \in Row |-> Qty(Sees(t, r))]
               g == [r \in Row |-> Qty(level[r])]
    <3>1. ASSUME NEW r \in T PROVE f[r] \in Int /\ f[r] = g[r]
      <4>1. /\ Qty(Sees(t, r)) = Qty(level[r]) + posted[t][r] /\ posted[t][r] = 0
            /\ Qty(level[r]) \in Nat /\ Qty(Sees(t, r)) \in Nat
        BY <1>0, <1>3, SeesPosted
      <4>2. Qty(Sees(t, r)) = Qty(level[r])
        BY <4>1
      <4> QED
        BY <4>1, <4>2
    <3>2. OnHand(t, v) = SumFunctionOnSet(f, T) /\ Stocked(v) = SumFunctionOnSet(g, T)
      BY DEF OnHand, Stocked
    <3>3. IsFiniteSet(T)
      BY RowsFinite
    <3> HIDE DEF f, g, T
    <3>4. IntValued(f, T)
      BY <3>1 DEF IntValued
    <3>5. SumFunctionOnSet(f, T) = SumFunctionOnSet(g, T)
      BY <3>1, <3>3, <3>4, SumSame
    <3> QED
      BY <1>0, <3>2, <3>5, OnHandNat
  <2>3. Coming(t, v) = OnHand(t, v)
    BY <1>0, <1>2, ComingNothing
  <2>4. Coming(t, v)' = Coming(t, v) /\ Stocked(v)' = Stocked(v)
    BY <1>1 DEF Coming, Stocked
  <2>5. Hand(t, v)' = Stocked(v) /\ Covered(t)' = 0
    BY <1>1, <1>2, <2>2, <2>3, <2>4 DEF Hand, Covered, costVars
  <2>6. Takes(t, v, 0)' = Takes(t, v, 0) /\ Paid(t, v, 0)' = Paid(t, v, 0)
    BY <1>1 DEF Takes, Paid
  <2>7. Takes(t, v, Covered(t))' = Takes(t, v, 0) /\ Paid(t, v, Covered(t))' = Paid(t, v, 0)
    BY <2>5, <2>6 DEF Takes, Paid
  <2>8. Valued(cost[v], Stocked(v), cost[v], Stocked(v), 0, 0)
    <3> DEFINE x == cost[v] * Stocked(v)
    <3>1. x \in Int /\ 0 * Stocked(v) = 0
      BY <2>1, <2>2
    <3>2. NearZero(x - x - 0, 0)
      <4> HIDE DEF x
      <4> QED
        BY <3>1 DEF NearZero
    <3> QED
      BY <3>1, <3>2 DEF Valued, Worth
  <2>9. Paid(t, v, 0) = 0 /\ Cardinality(Takes(t, v, 0)) = 0
    BY TakesNone
  <2> QED
    BY <2>1, <2>2, <2>4, <2>5, <2>7, <2>8, <2>9 DEF Worthy
<1>5. Read(t)'
  BY DEF Read, costVars
<1> QED
  BY <1>4, <1>5 DEF Blended

(* A statement of adjustStock, or the last reading of the lines.           *)
LEMMA BlendStays ==
  ASSUME BlendInv, NothingStale, NEW t \in Tx, Blended(t), pc[t] \in Open, phase[t] \in Receives,
         Runs(t) \/ Refresh(t), wac[t] = "none", UNCHANGED costVars
  PROVE  Blended(t)'
<1>0. StockTypeOK /\ Posting(t)
  BY DEF BlendInv, PurchaseInv, PostingInv, DocumentsInv, StockInv
<1>1. UNCHANGED <<call, seen, at>>
  BY DEF Runs, Refresh, docVars
<1>2. \A v : Coming(t, v)' = Coming(t, v) /\ Stocked(v)' = Stocked(v)
  <2>1. CASE Runs(t)
    BY <1>0, <2>1, ComingRuns DEF Posting, Stocked
  <2>2. CASE Refresh(t)
    BY <2>2 DEF Refresh, stockVars, Coming, Stocked
  <2> QED
    BY <2>1, <2>2
<1>3. ASSUME NEW v \in Variant PROVE Worthy(t, v)'
  <2>1. Worthy(t, v)
    BY DEF Blended
  <2>2. Hand(t, v)' = Hand(t, v) /\ Covered(t)' = Covered(t) /\ CostSeen(t, v)' = CostSeen(t, v) /\ cost' = cost
    BY <1>1, <1>2 DEF Hand, Covered, CostSeen, costVars
  <2>3. Takes(t, v, Covered(t))' = Takes(t, v, Covered(t)) /\ Paid(t, v, Covered(t))' = Paid(t, v, Covered(t))
    BY <1>1, <2>2 DEF Takes, Paid
  <2> QED
    BY <1>2, <2>1, <2>2, <2>3 DEF Worthy
<1>4. Read(t)'
  BY DEF Read, costVars
<1> QED
  BY <1>3, <1>4 DEF Blended

(* A line nothing came for.                                                *)
LEMMA BlendSkips ==
  ASSUME BlendInv, NothingStale, NEW t \in Tx, Blended(t), SkipLine(t), wac[t] = "none", UNCHANGED costVars
  PROVE  Blended(t)'
<1>0. /\ StockInv /\ StockTypeOK /\ DocumentTypes /\ OrderTypes /\ PurchaseInv
  BY DEF BlendInv, PurchaseInv, DocumentsInv, StockInv
<1>1. /\ pc[t] = "read" /\ phase[t] = "receiving" /\ todo[t] = <<>> /\ at[t] <= Len(call[t].receipt)
      /\ AcceptsLine(t) /\ Incoming(t).qty = 0
      /\ UNCHANGED <<level, posted, todo, work, call, seen>> /\ at'[t] = at[t] + 1
  BY <1>0 DEF SkipLine, Receiving, In, stockVars, DocumentTypes
<1>2. /\ seen[t] # NoDoc /\ call[t] # NoDoc /\ at[t] \in Nat \ {0} /\ Reached(t, at[t] - 1)
  BY <1>0, <1>1, Untaken DEF Receives
<1> DEFINE n == at[t] - 1
<1>3. n \in Nat /\ n + 1 = at[t] /\ n <= at[t] - 1 /\ \A k \in 1 .. n + 1 : k \in 1 .. n \/ k = at[t]
  BY <1>2
<1>4. Reached(t, n + 1) /\ Incoming(t) = call[t].receipt[n + 1]
  <2>1. at[t] \in DOMAIN call[t].receipt /\ call[t].receipt[at[t]].item \in DOMAIN seen[t].lines
    BY <1>0, <1>1, <1>2, ReceiptTypes DEF AcceptsLine, Incoming
  <2> QED
    BY <1>2, <1>3, <2>1 DEF Reached, Incoming
<1>5. Covered(t) = n /\ Covered(t)' = n + 1
  BY <1>1, <1>3 DEF Covered, costVars
<1>6. ASSUME NEW v \in Variant PROVE Worthy(t, v)'
  <2>1. Worthy(t, v)
    BY <1>1 DEF Blended, Open, Receives
  <2>2. Coming(t, v) = OnHand(t, v) /\ Coming(t, v)' = Coming(t, v) /\ Stocked(v)' = Stocked(v)
    BY <1>0, <1>1, ComingNothing DEF Coming, Stocked
  <2>3. Hand(t, v) = OnHand(t, v) /\ Hand(t, v)' = Hand(t, v) /\ CostSeen(t, v)' = CostSeen(t, v) /\ cost' = cost
    BY <2>2 DEF Hand, CostSeen, costVars
  <2>4. Takes(t, v, Covered(t))' = Takes(t, v, n + 1) /\ Paid(t, v, Covered(t))' = Paid(t, v, n + 1)
    BY <1>1, <1>5 DEF Takes, Paid
  <2> DEFINE p == Paid(t, v, n)
             m == Cardinality(Takes(t, v, n))
             x == CostSeen(t, v)
             h == Hand(t, v)
             c == cost[v]
             S == Stocked(v)
             i == Incoming(t).item
  <2>5. x \in Nat /\ c \in Nat /\ S \in Nat /\ h \in Nat /\ p \in Nat /\ m \in Nat
    <3> HIDE DEF n
    <3> QED
      BY <1>0, <1>1, <1>3, <2>3, WorthTypes DEF Receives
  <2>6. Valued(x, h, c, S, p, m) /\ S <= h
    BY <1>5, <2>1 DEF Worthy
  <2>7. Paid(t, v, n + 1) = p /\ Cardinality(Takes(t, v, n + 1)) \in {m, m + 1}
    <3>1. /\ \/ /\ Cardinality(Takes(t, v, n + 1)) = m + 1
                /\ Paid(t, v, n + 1) = p + 0 * seen[t].lines[i].unitCost
             \/ Cardinality(Takes(t, v, n + 1)) = m /\ Paid(t, v, n + 1) = p
      <4> HIDE DEF n
      <4> DEFINE line == call[t].receipt[n + 1]
      <4>1. /\ VariantOf[seen[t].lines[line.item].into] = v =>
                 /\ Cardinality(Takes(t, v, n + 1)) = Cardinality(Takes(t, v, n)) + 1
                 /\ Paid(t, v, n + 1) = Paid(t, v, n) + line.qty * seen[t].lines[line.item].unitCost
            /\ VariantOf[seen[t].lines[line.item].into] # v =>
                 /\ Cardinality(Takes(t, v, n + 1)) = Cardinality(Takes(t, v, n))
                 /\ Paid(t, v, n + 1) = Paid(t, v, n)
        BY <1>0, <1>2, <1>3, <1>4, TakesOne
      <4>2. line = Incoming(t) /\ line.qty = 0
        BY <1>1, <1>4
      <4> HIDE DEF line
      <4> QED
        BY <4>1, <4>2
    <3>2. seen[t].lines[i].unitCost \in Nat
      BY <1>0, <1>2, <1>3, <1>4, ReachedTypes
    <3>3. 0 * seen[t].lines[i].unitCost = 0
      BY <3>2
    <3> HIDE DEF n, p, m
    <3> QED
      BY <2>5, <3>1, <3>3
  <2>8. Valued(x, h, c, S, p, m + 1)
    <3> HIDE DEF n, p, m, x, h, c, S
    <3> QED
      BY <2>5, <2>6, ValuedSkip
  <2> HIDE DEF n
  <2> QED
    BY <2>2, <2>3, <2>4, <2>6, <2>7, <2>8 DEF Worthy
<1>7. Read(t)'
  BY DEF Read, costVars
<1> QED
  BY <1>6, <1>7 DEF Blended

(* The line has been updated: from here its cost is recomputed.            *)
LEMMA BlendTakes ==
  ASSUME BlendInv, NothingStale, NEW t \in Tx, Blended(t), TakeOrderLine(t), wac[t] = "none"
  PROVE  Blended(t)'
<1>0. /\ StockInv /\ StockTypeOK /\ DocumentTypes /\ PurchaseInv /\ CostTypes
  BY DEF BlendInv, PurchaseInv, DocumentsInv, StockInv
<1>1. /\ pc[t] = "read" /\ phase[t] = "receiving" /\ todo[t] = <<>>
      /\ UNCHANGED <<level, work, call, seen, cost, costed>> /\ at'[t] = at[t] + 1 /\ wac'[t] = "cost"
  BY <1>0 DEF TakeOrderLine, TakeLine, TakesLine, Receiving, In, Adjusting, DocumentTypes, CostTypes
<1>2. at[t] \in Nat \ {0}
  BY <1>0 DEF DocumentTypes
<1>3. Covered(t)' = Covered(t)
  BY <1>1, <1>2 DEF Covered
<1>4. ASSUME NEW v \in Variant PROVE Worthy(t, v)'
  <2>1. Worthy(t, v)
    BY <1>1 DEF Blended, Open, Receives
  <2>2. Coming(t, v) = OnHand(t, v) /\ OnHand(t, v)' = OnHand(t, v) /\ Stocked(v)' = Stocked(v)
    BY <1>0, <1>1, ComingNothing DEF OnHand, Sees, Stocked
  <2>3. Hand(t, v)' = Hand(t, v) /\ CostSeen(t, v)' = CostSeen(t, v) /\ cost' = cost
    BY <1>1, <2>2 DEF Hand, CostSeen
  <2>4. Takes(t, v, Covered(t))' = Takes(t, v, Covered(t)) /\ Paid(t, v, Covered(t))' = Paid(t, v, Covered(t))
    BY <1>1, <1>3 DEF Takes, Paid
  <2> QED
    BY <2>1, <2>2, <2>3, <2>4 DEF Worthy
<1>5. Read(t)'
  BY <1>1 DEF Read
<1> QED
  BY <1>4, <1>5 DEF Blended

(* The cost is read, the stock is summed, and the new cost is written.     *)
LEMMA BlendReads ==
  ASSUME BlendInv, NEW t \in Tx, Blended(t), ReadCost(t) \/ ReadOnHand(t), phase[t] \in Receives, pc[t] \in Open
  PROVE  Blended(t)'
<1>0. CostTypes
  BY DEF BlendInv, PurchaseInv
<1>1. /\ UNCHANGED <<pc, todo, level, posted, work, call, seen, at, phase, cost, costed>>
      /\ wac[t] # "none" /\ wac'[t] # "none"
  BY <1>0 DEF ReadCost, ReadOnHand, documentsVars, stockVars, docVars, CostTypes
<1>2. ASSUME NEW v \in Variant PROVE Worthy(t, v)'
  <2>1. Worthy(t, v)
    BY DEF Blended
  <2>2. /\ OnHand(t, v)' = OnHand(t, v) /\ Stocked(v)' = Stocked(v) /\ CostSeen(t, v)' = CostSeen(t, v)
        /\ Covered(t)' = Covered(t)
    BY <1>1 DEF OnHand, Sees, Stocked, CostSeen, Covered
  <2>3. Hand(t, v)' = Hand(t, v) /\ cost' = cost
    BY <1>1, <2>2 DEF Hand
  <2>4. Takes(t, v, Covered(t))' = Takes(t, v, Covered(t)) /\ Paid(t, v, Covered(t))' = Paid(t, v, Covered(t))
    BY <1>1, <2>2 DEF Takes, Paid
  <2> QED
    BY <2>1, <2>2, <2>3, <2>4 DEF Worthy
<1>3. VariantTaken(t)' = VariantTaken(t)
  BY <1>1 DEF VariantTaken, Target, Current
<1>4. /\ CostSeen(t, VariantTaken(t))' = CostSeen(t, VariantTaken(t))
      /\ OnHand(t, VariantTaken(t))' = OnHand(t, VariantTaken(t))
  BY <1>1, <1>3 DEF CostSeen, OnHand, Sees
<1>5. CASE ReadCost(t)
  <2>1. wac'[t] = "onHand" /\ basisOf'[t].cost = CostSeen(t, VariantTaken(t))
    BY <1>0, <1>5 DEF ReadCost, CostTypes
  <2> QED
    BY <1>1, <1>2, <1>4, <2>1 DEF Blended, Read
<1>6. CASE ReadOnHand(t)
  <2>1. /\ wac[t] = "onHand" /\ wac'[t] = "write" /\ basisOf'[t].onHand = OnHand(t, VariantTaken(t))
        /\ basisOf'[t].cost = basisOf[t].cost
    BY <1>0, <1>6 DEF ReadOnHand, CostTypes
  <2>2. basisOf[t].cost = CostSeen(t, VariantTaken(t))
    BY <2>1 DEF Blended, Read
  <2> QED
    BY <1>1, <1>2, <1>4, <2>1, <2>2 DEF Blended, Read
<1> QED
  BY <1>5, <1>6

LEMMA BlendWrites ==
  ASSUME BlendInv, NothingStale, NEW t \in Tx, Blended(t), WriteCost(t)
  PROVE  Blended(t)'
<1>0. /\ StockInv /\ StockTypeOK /\ DocumentTypes /\ OrderTypes /\ PurchaseInv /\ CostTypes
  BY DEF BlendInv, PurchaseInv, DocumentsInv, StockInv
<1> DEFINE y == VariantTaken(t)
           new == Blend(basisOf[t].cost, basisOf[t].onHand, LineTaken(t).qty, PriceTaken(t))
           n == at[t] - 2
           i == LineTaken(t).item
           q == LineTaken(t).qty
           price == PriceTaken(t)
<1>1. /\ seen[t] # NoDoc /\ call[t] # NoDoc /\ i \in DOMAIN seen[t].lines
      /\ q \in Nat \ {0} /\ price \in Nat /\ Target(t) = seen[t].lines[i].into /\ Target(t) \in Row
      /\ y \in Variant /\ at[t] \in Nat /\ at[t] > 1 /\ todo[t] = <<Taken(t)>>
      /\ pc[t] = "read" /\ phase[t] = "receiving" /\ wac[t] = "write"
  BY <1>0, TakenTypes DEF WriteCost
<1>2. /\ UNCHANGED <<pc, todo, level, posted, work, call, seen, at, phase, cost, basisOf>> /\ wac'[t] = "none"
      /\ costed'[t] = [x \in DOMAIN costed[t] \cup {y} |-> IF x = y THEN new ELSE costed[t][x]]
  BY <1>0 DEF WriteCost, documentsVars, stockVars, docVars, CostTypes
<1>3. basisOf[t].cost = CostSeen(t, y) /\ basisOf[t].onHand = OnHand(t, y)
  BY <1>1 DEF Blended, Read, Open, Receives
<1>4. \A v \in Variant :
        /\ v = y => CostSeen(t, v)' = Blend(CostSeen(t, v), OnHand(t, v), q, price)
        /\ v # y => CostSeen(t, v)' = CostSeen(t, v)
  <2>1. /\ y \in DOMAIN costed'[t] /\ costed'[t][y] = new
        /\ \A v : v # y => (v \in DOMAIN costed'[t] <=> v \in DOMAIN costed[t])
        /\ \A v \in DOMAIN costed[t] : v # y => costed'[t][v] = costed[t][v]
    BY <1>2
  <2>2. new = Blend(CostSeen(t, y), OnHand(t, y), q, price)
    BY <1>3
  <2> HIDE DEF y, new, q, price
  <2> QED
    BY <1>2, <2>1, <2>2 DEF CostSeen
<1>5. n \in Nat /\ n + 1 = at[t] - 1 /\ n <= at[t] - 1 /\ Covered(t) = n /\ Covered(t)' = n + 1
  BY <1>1, <1>2 DEF Covered
<1>6. Reached(t, n + 1) /\ LineTaken(t) = call[t].receipt[n + 1]
  BY <1>0, <1>1, <1>5, Untaken DEF Receives, LineTaken
<1>7. Taken(t) \in Step /\ Taken(t).row = Target(t) /\ Taken(t).qty = q /\ VariantOf[Target(t)] = y
  BY <1>1 DEF Taken, Step, Op, VariantTaken
<1> HIDE DEF n, y, new
<1>8. ASSUME NEW v \in Variant PROVE Worthy(t, v)'
  <2> DEFINE p == Paid(t, v, n)
             m == Cardinality(Takes(t, v, n))
             x == CostSeen(t, v)
             h == OnHand(t, v)
             c == cost[v]
             S == Stocked(v)
  <2>1. Valued(x, h, c, S, p, m) /\ S <= h
    BY <1>1, <1>5 DEF Blended, Open, Receives, Worthy, Hand
  <2>2. x \in Nat /\ c \in Nat /\ S \in Nat /\ h \in Nat /\ p \in Nat /\ m \in Nat
    BY <1>0, <1>1, <1>5, WorthTypes DEF Receives
  <2>3. Stocked(v)' = S /\ cost' = cost /\ Hand(t, v)' = Coming(t, v)
    BY <1>2 DEF Stocked, Hand, Coming
  <2>4. Takes(t, v, Covered(t))' = Takes(t, v, n + 1) /\ Paid(t, v, Covered(t))' = Paid(t, v, n + 1)
    BY <1>2, <1>5 DEF Takes, Paid
  <2>7. /\ VariantOf[Target(t)] = v =>
             Cardinality(Takes(t, v, n + 1)) = m + 1 /\ Paid(t, v, n + 1) = p + q * price
        /\ VariantOf[Target(t)] # v => Cardinality(Takes(t, v, n + 1)) = m /\ Paid(t, v, n + 1) = p
    <3>1. Target(t) = seen[t].lines[LineTaken(t).item].into
      BY <1>1
    <3>2. LineTaken(t) = call[t].receipt[n + 1] /\ Reached(t, n + 1) /\ n \in Nat /\ seen[t] # NoDoc /\ call[t] # NoDoc
      BY <1>1, <1>5, <1>6
    <3> DEFINE line == call[t].receipt[n + 1]
    <3>3. /\ VariantOf[seen[t].lines[line.item].into] = v =>
               /\ Cardinality(Takes(t, v, n + 1)) = Cardinality(Takes(t, v, n)) + 1
               /\ Paid(t, v, n + 1) = Paid(t, v, n) + line.qty * seen[t].lines[line.item].unitCost
          /\ VariantOf[seen[t].lines[line.item].into] # v =>
               /\ Cardinality(Takes(t, v, n + 1)) = Cardinality(Takes(t, v, n))
               /\ Paid(t, v, n + 1) = Paid(t, v, n)
      BY <1>0, <3>2, TakesOne
    <3>4. line = LineTaken(t)
      BY <3>2
    <3> HIDE DEF line
    <3> QED
      BY <3>1, <3>3, <3>4, Zenon DEF PriceTaken
  <2>5. CASE v = y
    <3>1. Coming(t, v) = h + q
      BY <1>0, <1>1, <1>7, <2>5, ComingStep
    <3>2. Cardinality(Takes(t, v, n + 1)) = m + 1 /\ Paid(t, v, n + 1) = p + q * price
      BY <1>7, <2>5, <2>7
    <3>3. CostSeen(t, v)' = Blend(x, h, q, price)
      BY <1>4, <2>5
    <3> HIDE DEF p, m, x, h, c, S, q, price
    <3>4. Valued(Blend(x, h, q, price), h + q, c, S, p + q * price, m + 1)
      BY <1>1, <2>1, <2>2, ValuedBlend
    <3>5. S <= h + q
      BY <1>1, <2>1, <2>2
    <3>6. c' = c
      BY <2>3 DEF c
    <3> QED
      BY <2>3, <2>4, <3>1, <3>2, <3>3, <3>4, <3>5, <3>6 DEF Worthy, c
  <2>6. CASE v # y
    <3>1. Coming(t, v) = h
      BY <1>0, <1>1, <1>7, <2>6, ComingStep
    <3>2. Cardinality(Takes(t, v, n + 1)) = m /\ Paid(t, v, n + 1) = p
      BY <1>7, <2>6, <2>7
    <3> QED
      BY <1>4, <2>1, <2>3, <2>4, <2>6, <3>1, <3>2 DEF Worthy
  <2> QED
    BY <2>5, <2>6
<1>9. Read(t)'
  BY <1>2 DEF Read
<1> QED
  BY <1>8, <1>9 DEF Blended

(* A step of a call that nothing has overlapped.                           *)
LEMMA StepBlended ==
  ASSUME BlendInv, NEW t \in Tx, PurchaseKinds(t), ~overlapped'
  PROVE  ~overlapped /\ NothingStale /\ \A u \in Tx : Blended(u)'
<1>0. /\ StockTypeOK /\ DocumentTypes /\ Handles(t) /\ Blends(t) /\ PurchaseInv /\ (~overlapped => Serial)
  BY DEF BlendInv, PurchaseInv, DocumentsInv, StockInv, SequentialInv, Sequential
<1>1. ~overlapped /\ Serial /\ \A u \in Tx \ {t} : pc'[u] \notin Open
  <2>1. CASE DocumentStep(t)
    <3>1. ~overlapped /\ \A u \in Tx \ {t} : pc[u] \notin Open /\ pc'[u] = pc[u]
      BY <1>0, <2>1, StepSerial
    <3> QED
      BY <1>0, <3>1
  <2>2. CASE Recosts(t)
    <3>1. pc' = pc /\ overlapped' = overlapped /\ wac[t] # "none"
      BY <2>2, KindsAreSteps DEF documentsVars, stockVars, Recosts, ReadCost, ReadOnHand, WriteCost
    <3>2. pc[t] \in Open
      BY <1>0, <3>1 DEF Blends, Open
    <3> QED
      BY <1>0, <3>1, <3>2 DEF Serial, Alone
  <2> QED
    BY <2>1, <2>2, KindsAreSteps
<1>2. NothingStale /\ Blended(t)
  BY <1>1 DEF Serial, BlendInv
<1>3. ASSUME NEW u \in Tx \ {t} PROVE Blended(u)'
  BY <1>1 DEF Blended
<1>4. Blended(t)'
  <2>1. CASE Silent(t)
    <3>0. wac[t] = "none" /\ UNCHANGED costVars
      BY <2>1 DEF Silent
    <3>1. CASE Arrives(t)
      BY <1>0, <3>1 DEF Arrives, OpenCall, DocumentTypes, Blended, Receives, Deliveries
    <3>2. CASE Runs(t)
      <4>1. pc[t] \in Open /\ phase' = phase
        BY <1>0, <3>2, StatementOwn DEF Runs, docVars
      <4>2. CASE phase[t] \in Receives
        BY <1>2, <3>0, <3>2, <4>1, <4>2, BlendStays
      <4>3. CASE phase[t] \notin Receives
        BY <4>1, <4>3 DEF Blended
      <4> QED
        BY <4>2, <4>3
    <3>3. CASE Numbers(t)
      BY <1>0, <3>3 DEF Numbers, TakeNumber, DocumentTypes, Blended, Receives, Deliveries
    <3>4. CASE SkipLine(t)
      BY <1>2, <3>0, <3>4, BlendSkips
    <3>5. CASE Refresh(t)
      <4>1. pc[t] \in Open /\ phase[t] \in Receives
        BY <3>5 DEF Refresh, In, Open, Receives
      <4> QED
        BY <1>2, <3>0, <3>5, <4>1, BlendStays
    <3>6. CASE EntersOrder(t)
      BY <1>2, <3>0, <3>6, BlendEnters DEF EntersOrder
    <3>7. CASE AddsOrder(t) \/ MarksOrder(t)
      <4>1. pc'[t] = "committed"
        BY <1>0, <3>7, ConcludeStep DEF AddsOrder, MarksOrder, Concludes
      <4> QED
        BY <4>1 DEF Blended, Open
    <3> QED
      BY <2>1, <3>1, <3>2, <3>3, <3>4, <3>5, <3>6, <3>7 DEF Silent
  <2>2. CASE Drops(t) \/ Closes(t)
    <3>1. pc'[t] \in {"committed", "aborted"}
      BY <1>0, <2>2, ConcludeStep DEF Drops, Aborts, Rollback, StockTypeOK, Closes, FillsOrder, Concludes
    <3> QED
      BY <3>1 DEF Blended, Open
  <2>3. CASE TakeOrderLine(t)
    <3>1. todo[t] = <<>>
      BY <2>3 DEF TakeOrderLine, TakeLine, TakesLine, Receiving
    <3>2. wac[t] = "none"
      BY <1>0, <3>1 DEF Blends
    <3> QED
      BY <1>2, <2>3, <3>2, BlendTakes
  <2>4. CASE Recosts(t)
    <3>1. wac[t] # "none"
      BY <2>4 DEF Recosts, ReadCost, ReadOnHand, WriteCost
    <3>2. pc[t] \in Open /\ phase[t] \in Receives
      BY <1>0, <3>1 DEF Blends, Open, Receives
    <3> QED
      BY <1>2, <2>4, <3>2, BlendReads, BlendWrites DEF Recosts
  <2> QED
    BY <2>1, <2>2, <2>3, <2>4 DEF PurchaseKinds
<1> QED
  BY <1>1, <1>2, <1>3, <1>4

LEMMA NextBlendInv == BlendInv /\ [PurchaseNext]_purchaseVars => BlendInv'
<1> SUFFICES ASSUME BlendInv, [PurchaseNext]_purchaseVars PROVE BlendInv'
  OBVIOUS
<1>0. PurchaseInv' /\ PurchaseInv
  BY NextPurchaseInv DEF BlendInv
<1>1. SequentialInv'
  BY <1>0, NextIsDocumentStep, StepSequential, StutterSequential DEF BlendInv
<1>2. PostingInv'
  BY <1>0, NextIsDocumentStep, StepPosts, StutterPosts DEF BlendInv
<1>3. CASE \E t \in Tx : PurchaseStep(t)
  <2>1. PICK t \in Tx : PurchaseKinds(t)
    BY <1>0, <1>3, StepKinds
  <2> QED
    BY <1>0, <1>1, <1>2, <2>1, StepBlended DEF BlendInv
<1>4. CASE UNCHANGED purchaseVars
  <2>1. UNCHANGED <<level, posted, todo, work, call, seen, at, phase, pc, cost, wac, basisOf, costed, overlapped>>
    BY <1>4 DEF purchaseVars, documentsVars, stockVars, docVars, costVars, history
  <2>2. ASSUME NEW t \in Tx, Blended(t) PROVE Blended(t)'
    <3>1. \A v : /\ Coming(t, v)' = Coming(t, v) /\ OnHand(t, v)' = OnHand(t, v) /\ Stocked(v)' = Stocked(v)
                 /\ CostSeen(t, v)' = CostSeen(t, v)
      BY <2>1 DEF Coming, OnHand, Sees, Stocked, CostSeen
    <3>2. Covered(t)' = Covered(t) /\ VariantTaken(t)' = VariantTaken(t)
      BY <2>1 DEF Covered, VariantTaken, Target, Current
    <3>3. ASSUME NEW v \in Variant, Worthy(t, v) PROVE Worthy(t, v)'
      <4>1. Hand(t, v)' = Hand(t, v) /\ cost' = cost
        BY <2>1, <3>1 DEF Hand
      <4>2. Takes(t, v, Covered(t))' = Takes(t, v, Covered(t)) /\ Paid(t, v, Covered(t))' = Paid(t, v, Covered(t))
        BY <2>1, <3>2 DEF Takes, Paid
      <4> QED
        BY <3>1, <3>3, <4>1, <4>2 DEF Worthy
    <3>4. Read(t) => Read(t)'
      <4>1. /\ CostSeen(t, VariantTaken(t))' = CostSeen(t, VariantTaken(t))
            /\ OnHand(t, VariantTaken(t))' = OnHand(t, VariantTaken(t))
        BY <2>1, <3>2 DEF CostSeen, OnHand, Sees
      <4> QED
        BY <2>1, <4>1 DEF Read
    <3> QED
      BY <2>1, <2>2, <3>3, <3>4 DEF Blended
  <2> QED
    BY <1>0, <1>1, <1>2, <2>1, <2>2 DEF BlendInv
<1> QED
  BY <1>3, <1>4, StepOrStutter

LEMMA BlendInitInv == PurchaseInit => BlendInv
<1> SUFFICES ASSUME PurchaseInit PROVE BlendInv
  OBVIOUS
<1>1. PurchaseInv /\ SequentialInv /\ PostingInv /\ DocumentsInit
  BY PurchaseInitInv, EarlierProper, SequentialInitInv, PostingInitInv DEF PurchaseInit
<1>2. \A t \in Tx : Blended(t)
  BY <1>1 DEF DocumentsInit, StockInit, Blended, Open
<1> QED
  BY <1>1, <1>2 DEF BlendInv

(* The commit of a delivery writes what its call saw and had on hand.      *)
LEMMA CloseAddsValue ==
  ASSUME BlendInv, NEW t \in Tx, PurchaseKinds(t), ~overlapped, pc'[t] = "committed", pc[t] # "committed",
         phase[t] \in Deliveries, NEW v \in Variant
  PROVE  LET error == cost'[v] * Stocked(v)' - cost[v] * Stocked(v) - PaidFor(t, v)
             slack == Cardinality(TakenOf(t, v)) * Stocked(v)'
         IN 2 * error <= slack /\ -slack <= 2 * error
<1>0. /\ StockTypeOK /\ StockInv /\ DocumentTypes /\ Handles(t) /\ Blends(t) /\ PurchaseInv /\ Serial /\ Blended(t)
  BY DEF BlendInv, PurchaseInv, DocumentsInv, StockInv, SequentialInv, Sequential
<1>1. Closes(t)
  <2>1. ~(Arrives(t) \/ Aborts(t) \/ Runs(t) \/ Prepares(t))
    BY <1>0, QuietStep
  <2>2. ~Recosts(t)
    BY KindsAreSteps DEF documentsVars, stockVars
  <2>3. ~(AddsOrder(t) \/ MarksOrder(t))
    BY DEF AddsOrder, Adds, MarksOrder, Marks, Deliveries
  <2> QED
    BY <2>1, <2>2, <2>3 DEF PurchaseKinds, Silent, Drops, TakeOrderLine, EntersOrder, Prepares
<1>2. Commit(t) /\ pc[t] = "read" /\ todo[t] = <<>> /\ cost' = [w \in Variant |-> CostSeen(t, w)]
  BY <1>0, <1>1, ConcludeStep DEF Closes, FillsOrder, Concludes
<1>3. wac[t] = "none" /\ phase[t] \in Receives
  BY <1>0 DEF Blends, Receives, Deliveries
<1>4. /\ at[t] = Len(call[t].receipt) + 1 /\ at[t] \in Nat \ {0} /\ call[t] # NoDoc
  BY <1>0, <1>3, Untaken DEF Handles, Delivers
<1>5. at[t] - 1 = Len(call[t].receipt) /\ DOMAIN call[t].receipt = 1 .. at[t] - 1
  BY <1>0, <1>4, ReceiptTypes
<1>6. Covered(t) = at[t] - 1 /\ Hand(t, v) = Coming(t, v)
  BY <1>3 DEF Covered, Hand
<1>7. Takes(t, v, Covered(t)) = TakenOf(t, v) /\ Paid(t, v, Covered(t)) = PaidFor(t, v)
  BY <1>5, <1>6 DEF Takes, TakenOf, Paid, PaidFor
<1>8. Coming(t, v) = OnHand(t, v)
  BY <1>0, <1>2, ComingNothing DEF Serial
<1>9. Stocked(v)' = OnHand(t, v)
  BY <1>2 DEF Commit, Stocked, OnHand
<1>10. Worthy(t, v)
  BY <1>0, <1>2, <1>3 DEF Blended, Open
<1> QED
  BY <1>2, <1>6, <1>7, <1>8, <1>9, <1>10 DEF Worthy, Valued, NearZero, Worth

(* Of calls that do not overlap, a delivery changes the value of the stock *)
(* of a variant by what was paid for it, but for half a cent a unit on     *)
(* each of its lines: however many lines bring a variant in, in whatever   *)
(* stores it lies, and whether or not there was any before.                *)
THEOREM PurchasesValue == PurchaseSpec => ReceiptAddsItsValue
<1>1. BlendInv /\ [PurchaseNext]_purchaseVars =>
        [\A t \in Tx, v \in Variant :
           ~overlapped /\ pc'[t] = "committed" /\ pc[t] # "committed" /\ phase[t] \in {"all", "some", "nothing"} =>
             LET error == cost'[v] * Stocked(v)' - cost[v] * Stocked(v) - PaidFor(t, v)
                 slack == Cardinality(TakenOf(t, v)) * Stocked(v)'
             IN 2 * error <= slack /\ -slack <= 2 * error]_purchaseVars
  <2> SUFFICES ASSUME BlendInv, [PurchaseNext]_purchaseVars, NEW t \in Tx, NEW v \in Variant, ~overlapped,
                      pc'[t] = "committed", pc[t] # "committed", phase[t] \in {"all", "some", "nothing"}
               PROVE  LET error == cost'[v] * Stocked(v)' - cost[v] * Stocked(v) - PaidFor(t, v)
                          slack == Cardinality(TakenOf(t, v)) * Stocked(v)'
                      IN 2 * error <= slack /\ -slack <= 2 * error
    OBVIOUS
  <2>0. PurchaseInv
    BY DEF BlendInv
  <2>1. ~UNCHANGED purchaseVars
    BY DEF purchaseVars, documentsVars, stockVars
  <2>2. PICK u \in Tx : PurchaseKinds(u)
    BY <2>0, <2>1, StepOrStutter, StepKinds
  <2>3. u = t
    <3>1. CASE u # t
      <4>1. pc'[t] = pc[t]
        BY <2>0, <2>2, <3>1, OthersBlend DEF Own
      <4> QED
        BY <4>1
    <3> QED
      BY <3>1
  <2> QED
    BY <2>2, <2>3, CloseAddsValue DEF Deliveries
<1> QED
  BY <1>1, BlendInitInv, NextBlendInv, PTL DEF PurchaseSpec, ReceiptAddsItsValue

-----------------------------------------------------------------------------
(* However deliveries race, only a write from an outdated read parts a     *)
(* level from the sum of its movements ...                                 *)
THEOREM PurchasesBooksBalance == PurchaseSpec => []BooksBalance
<1>1. PurchaseInv => BooksBalance
  BY DEF PurchaseInv, DocumentsInv, StockInv
<1> QED
  BY <1>1, PurchasesInvariant, PTL

(* ... and such a write takes calls that overlap, one delivery of several  *)
(* lines to the same row included.                                         *)
THEOREM PurchasesSerialBooks ==
  PurchaseSpec => [](SerialRequestsNeverRace /\ (~overlapped => LevelIsSumOfMovements))
<1>1. StatusInv => SerialRequestsNeverRace
  BY DEF StatusInv, SequentialInv, Sequential, Serial, NothingStale, SerialRequestsNeverRace
<1>2. BooksBalance /\ SerialRequestsNeverRace => (~overlapped => LevelIsSumOfMovements)
  BY DEF BooksBalance, SerialRequestsNeverRace, LevelIsSumOfMovements
<1> QED
  BY <1>1, <1>2, StatusInitInv, NextStatusInv, PurchasesBooksBalance, PTL DEF PurchaseSpec
=============================================================================
