-------------------------- MODULE TransfersProofs --------------------------
(***************************************************************************)
(* For any number of transfers, users and overlapping calls: the types of  *)
(* Transfers, that no level is negative, that the numbers of the documents *)
(* have no gaps, that goods are received only from what was shipped, that  *)
(* the ledger moves by whole ships and whole deliveries, that levels       *)
(* follow it but for writes from outdated reads, that no line shows more   *)
(* than has arrived; and of calls that do not overlap, that status, counts *)
(* and goods agree and every level is its ledger. DocumentsProofs has what *)
(* transfers share with purchase orders.                                   *)
(***************************************************************************)
EXTENDS Transfers, DocumentsProofs

TransferTypes ==
  /\ \A d \in Existing : docs[d] \in TransferType
  /\ \A t \in Tx : seen[t] # NoDoc => seen[t] \in TransferType

(* The goods of d have left: a ship of it is committed, or was before.     *)
InMotion == {"IN_TRANSIT", "RECEIVED"}
Left(d) ==
  \/ Committed(d, {"shipping"}) # {}
  \/ d \in Earlier /\ Raised[d].status \in InMotion

HasLeft == \A d \in Existing : docs[d].status \in InMotion => Left(d)

(* What a call read of its transfer lets it ship or receive.               *)
Knows(t) ==
  /\ seen[t] # NoDoc /\ seen[t].status \in InMotion => Left(call[t].doc)
  /\ phase[t] = "shipping" => seen[t].status = "DRAFT"
  /\ phase[t] \in Receives => seen[t].status = "IN_TRANSIT"

TransfersInv == DocumentsInv /\ TransferTypes /\ HasLeft /\ \A t \in Tx : Knows(t)

-----------------------------------------------------------------------------
(* The steps of a call, as steps of a document.                            *)
TransferStep(t) == Arrive(t) \/ TransferStatement(t) \/ DocStep(t, Fail(t))

LEMMA StepOrStutter ==
  [TransfersNext]_documentsVars => (\E t \in Tx : TransferStep(t)) \/ UNCHANGED documentsVars
BY DEF TransfersNext, TransfersTerminating, TransferStep

(* The lines of a transfer, as ship and receive take them.                 *)
LEMMA TransferLines ==
  ASSUME NEW lines \in Seq(TransferLine)
  PROVE  /\ Len(lines) \in Nat /\ DOMAIN lines = 1 .. Len(lines) /\ IsFiniteSet(DOMAIN lines)
         /\ \A i \in DOMAIN lines : /\ lines[i].qty \in Nat \ {0}
                                    /\ lines[i].from \in Row /\ lines[i].into \in Row
<1>1. Len(lines) \in Nat /\ DOMAIN lines = 1 .. Len(lines)
  OBVIOUS
<1>2. IsFiniteSet(1 .. Len(lines))
  BY <1>1, FS_Interval
<1>3. \A i \in DOMAIN lines : lines[i] \in TransferLine
  BY <1>1
<1> QED
  BY <1>1, <1>2, <1>3 DEF TransferLine

LEMMA ShipTypes ==
  ASSUME NEW lines \in Seq(TransferLine)
  PROVE  ShipLines(lines) \in Seq(Step) /\ Adjusts(ShipLines(lines))
<1>1. Len(lines) \in Nat /\ DOMAIN lines = 1 .. Len(lines)
  BY TransferLines
<1>2. \A i \in 1 .. Len(lines) :
        [op |-> "adjust", row |-> lines[i].from, qty |-> -lines[i].qty] \in Step
  BY <1>1, TransferLines DEF Step, Op
<1>3. ShipLines(lines) = [i \in 1 .. Len(lines) |->
                           [op |-> "adjust", row |-> lines[i].from, qty |-> -lines[i].qty]]
  BY <1>1 DEF ShipLines
<1> QED
  BY <1>1, <1>2, <1>3 DEF Adjusts

LEMMA DraftLines ==
  ASSUME NEW draft \in Draft
  PROVE  draft \in DraftType /\ draft.lines \in Seq(TransferLine) /\ draft.lines # <<>>
BY DraftAssumption, LinesAssumption DEF DraftType

LEMMA NewTransferIs ==
  ASSUME DocumentTypes, NEW t \in Tx, call[t].draft \in Draft
  PROVE  /\ NewTransfer(t) \in TransferType /\ Proper(NewTransfer(t)) /\ NewTransfer(t) # NoDoc
         /\ NewTransfer(t).number = number[t] /\ NewTransfer(t).status = "DRAFT"
         /\ \A i \in DOMAIN NewTransfer(t).lines : NewTransfer(t).received[i] = 0
<1> DEFINE lines == call[t].draft.lines
           none == [i \in DOMAIN lines |-> 0]
<1>1. call[t].draft \in DraftType /\ lines \in Seq(TransferLine) /\ lines # <<>>
  BY DraftLines
<1>2. Len(lines) \in Nat \ {0} /\ DOMAIN lines = 1 .. Len(lines)
  BY <1>1
<1>3. none \in Seq(Nat)
  BY <1>2
<1>4. /\ NewTransfer(t) = [number |-> number[t], from |-> call[t].draft.from, to |-> call[t].draft.to,
                           lines |-> lines, received |-> none, status |-> "DRAFT"]
      /\ DOMAIN none = DOMAIN lines /\ \A i \in DOMAIN lines : none[i] = 0
  BY DEF NewTransfer
<1> HIDE DEF none, lines
<1>5. NewTransfer(t) \in TransferType
  BY <1>1, <1>3, <1>4 DEF TransferType, DraftType, TransferStatus, DocumentTypes
<1>6. Proper(NewTransfer(t))
  BY <1>1, <1>2, <1>4, TransferLines DEF Proper
<1> QED
  BY <1>4, <1>5, <1>6, NoDocAssumption

LEMMA RaisedProper ==
  ASSUME NEW d \in Earlier
  PROVE  Proper(Raised[d]) /\ Raised[d] \in TransferType
<1>1. Raised[d] \in TransferType /\ Raised[d].lines # <<>> /\ Len(Raised[d].received) = Len(Raised[d].lines)
  BY RaisedAssumption, UntouchedAssumption
<1>2. Raised[d].lines \in Seq(TransferLine) /\ Raised[d].received \in Seq(Nat)
  BY <1>1 DEF TransferType
<1>3. Len(Raised[d].lines) \in Nat \ {0}
  BY <1>1, <1>2
<1>4. DOMAIN Raised[d].received = DOMAIN Raised[d].lines
      /\ \A i \in DOMAIN Raised[d].received : Raised[d].received[i] \in Nat
  BY <1>1, <1>2
<1> QED
  BY <1>1, <1>2, <1>3, <1>4, TransferLines DEF Proper

(* A commit that changes the status of the transfer of t.                  *)
LEMMA StatusFiled ==
  ASSUME TransfersInv, NEW t \in Tx, NEW status \in TransferStatus, CommitStatus(t, status),
         seen[t] # NoDoc, NEW d, d = call[t].doc
  PROVE  /\ Commit(t) /\ Files(d) /\ Keeps(d) /\ d \in Existing
         /\ docs'[d].received = docs[d].received /\ docs'[d].status = status
         /\ docs'[d] \in TransferType
         /\ UNCHANGED <<call, seen, phase, number, at, written>>
<1> DEFINE v == [docs[d] EXCEPT !.status = status]
<1>0. DocumentTypes /\ d \in Existing /\ d \in DocId /\ docs[d] \in TransferType /\ docs[d] # NoDoc
  BY KnownSeen DEF TransfersInv, DocumentsInv, TransferTypes, Existing
<1>1. /\ Commit(t) /\ docs' = [docs EXCEPT ![d] = v]
      /\ UNCHANGED <<call, seen, phase, number, at, written>>
  BY DEF CommitStatus
<1>2. /\ v \in TransferType /\ v.number = docs[d].number /\ v.status = status
      /\ v.lines = docs[d].lines /\ v.received = docs[d].received
  BY <1>0 DEF TransferType
<1>3. v # NoDoc
  BY <1>2, NoDocAssumption
<1> HIDE DEF v
<1> QED
  BY <1>0, <1>1, <1>2, <1>3 DEF Files, Keeps, DocumentTypes

(* A commit that makes the lines visible.                                  *)
LEMMA ReceiptFiled ==
  ASSUME TransfersInv, NEW t \in Tx, NEW status \in TransferStatus, CommitReceipt(t, status),
         phase[t] \in Deliveries, NEW d, d = call[t].doc
  PROVE  Fills(t) /\ d \in Existing /\ docs'[d].status = status /\ docs'[d] \in TransferType
<1> DEFINE got == [i \in DOMAIN docs[d].received |-> LineNow(t, i)]
           v == [docs[d] EXCEPT !.status = status, !.received = got]
<1>0. /\ DocumentTypes /\ Informed(t) /\ seen[t] # NoDoc
      /\ d \in Existing /\ d \in DocId /\ docs[d] \in TransferType /\ docs[d] # NoDoc
  BY KnownSeen DEF TransfersInv, DocumentsInv, Handles, Informed, Receives, TransferTypes, Existing
<1>1. docs[d].received \in Seq(Nat)
  BY <1>0 DEF TransferType
<1>2. got \in Seq(Nat)
  <2>1. \A i \in DOMAIN docs[d].received : LineNow(t, i) \in Nat
    BY <1>0, LineNowTyped
  <2>2. Len(docs[d].received) \in Nat /\ DOMAIN docs[d].received = 1 .. Len(docs[d].received)
    BY <1>1
  <2> QED
    BY <2>1, <2>2
<1>3. /\ Commit(t) /\ docs' = [docs EXCEPT ![d] = v]
      /\ written' = [written EXCEPT ![t] = NoLines]
      /\ UNCHANGED <<call, seen, phase, number, at>>
  BY DEF CommitReceipt, Release
<1>4. /\ v \in TransferType /\ v.number = docs[d].number /\ v.status = status
      /\ v.lines = docs[d].lines /\ v.received = got
  <2> HIDE DEF got
  <2>1. v = [[docs[d] EXCEPT !.status = status] EXCEPT !.received = got]
    BY <1>0 DEF TransferType
  <2>2. [docs[d] EXCEPT !.status = status] \in TransferType
    BY <1>0 DEF TransferType
  <2> QED
    BY <1>0, <1>2, <2>1, <2>2 DEF TransferType
<1>5. v # NoDoc
  BY <1>4, NoDocAssumption
<1>6. docs'[d] = v
  BY <1>0, <1>3 DEF DocumentTypes
<1>7. docs'[d].received = [i \in DOMAIN docs[d].received |-> LineNow(t, i)]
  BY <1>4, <1>6
<1> HIDE DEF v, got
<1> QED
  BY <1>0, <1>3, <1>4, <1>5, <1>6, <1>7 DEF Fills, Files, Keeps, DocumentTypes

(* What each step is to its document.                                      *)
ShipsLines(t) == Ships(t) /\ Shippable(t) /\ Adjusting(t, ShipLines(seen[t].lines))
EntersTransfer(t) == Enters(t) /\ Receivable(t)
AddsTransfer(t) == Adds(t) /\ docs'[t] = NewTransfer(t) /\ call[t].draft \in Draft
MarksTransfer(t) ==
  /\ Marks(t) /\ docs'[call[t].doc] \in TransferType
  /\ \/ phase[t] = "shipping" /\ docs'[call[t].doc].status = "IN_TRANSIT"
     \/ /\ phase[t] = "update" /\ seen[t].status = "DRAFT"
        /\ docs'[call[t].doc].status = "CANCELLED"
FillsTransfer(t) ==
  /\ Fills(t) /\ docs'[call[t].doc] \in TransferType
  /\ docs'[call[t].doc].status = (IF phase[t] = "all" THEN "RECEIVED" ELSE seen[t].status)
Works(t) == Numbers(t) \/ SkipLine(t) \/ TakeLine(t) \/ Refresh(t)

TransferKinds(t) ==
  \/ Arrives(t) \/ Aborts(t) \/ Runs(t) \/ Works(t) \/ ShipsLines(t) \/ EntersTransfer(t)
  \/ AddsTransfer(t) \/ MarksTransfer(t) \/ FillsTransfer(t)

LEMMA KindsAreSteps ==
  ASSUME NEW t \in Tx, TransferKinds(t)
  PROVE  DocumentStep(t)
BY DEF TransferKinds, DocumentStep, Works, Prepares, ShipsLines, EntersTransfer, AddsTransfer,
   MarksTransfer, FillsTransfer, Concludes

LEMMA ArriveArrives ==
  ASSUME DocumentTypes, NEW t \in Tx, Arrive(t)
  PROVE  Arrives(t)
<1>1. \A u \in User, draft \in Draft : Raise(u, draft) \in CallType /\ Raise(u, draft).draft # NoDoc
  <2>1. \A draft \in Draft : draft # NoDoc
    BY DraftAssumption, NoDocAssumption
  <2>2. <<>> \in Seq(ReceiptLine)
    OBVIOUS
  <2> QED
    BY <2>1, <2>2 DEF Raise, CallType
<1>2. \A u \in User, d \in Named(t), receipt \in Receipt \cup {<<>>} : Call(u, d, receipt) \in CallType
  <2>0. <<>> \in Seq(ReceiptLine)
    OBVIOUS
  <2>1. Receipt \cup {<<>>} \subseteq Seq(ReceiptLine)
    BY <2>0, ReceiptAssumption
  <2>2. Named(t) \subseteq DocId
    BY DEF Named, Existing, DocId
  <2> QED
    BY <2>1, <2>2 DEF Call, CallType
<1>3. PICK u \in User :
        \/ \E draft \in Draft : OpenCall(t, Raise(u, draft), "raise")
        \/ \E d \in Named(t) :
             \/ OpenCall(t, Call(u, d, <<>>), "ship")
             \/ OpenCall(t, Call(u, d, <<>>), "update")
             \/ \E receipt \in Receipt : OpenCall(t, Call(u, d, receipt), "receive")
  BY DEF Arrive
<1> QED
  BY <1>1, <1>2, <1>3 DEF Arrives

LEMMA StepKinds ==
  ASSUME TransfersInv, NEW t \in Tx, TransferStep(t)
  PROVE  TransferKinds(t)
<1>0. /\ StockTypeOK /\ DocumentTypes /\ Informed(t) /\ TransferTypes
  BY DEF TransfersInv, DocumentsInv, StockInv, Handles
<1> USE DEF TransferKinds
<1>1. CASE Arrive(t)
  BY <1>0, <1>1, ArriveArrives
<1>2. CASE DocStep(t, Statement(t)) \/ DocStep(t, Fail(t))
  BY <1>0, <1>2, DocStepKinds
<1>3. CASE Throw(t) /\ pc[t] \in Open
  BY <1>3 DEF Throw, Aborts
<1>4. CASE InCycle(t, Waits) /\ Throw(t)
  <2>1. PICK u \in Tx : WaitsFor(t, u) \/ WaitsForLine(t, u)
    BY <1>4 DEF InCycle, Waits
  <2> QED
    BY <1>3, <1>4, <2>1, WaiterOpen
<1>5. CASE NumberTransfer(t) \/ Ship(t) \/ Receive(t) \/ RefuseLine(t)
  <2>1. pc[t] = "read" /\ pc[t] \in Open
    BY <1>5 DEF NumberTransfer, Ship, Receive, RefuseLine, Receiving, In, Open
  <2>2. CASE NumberTransfer(t) /\ AcceptsDraft(t)
    BY <2>2 DEF NumberTransfer, Works, Numbers
  <2>3. CASE Ship(t) /\ Shippable(t)
    <3>1. seen[t].lines \in Seq(TransferLine)
      BY <1>0, <2>3 DEF Shippable, TransferTypes, TransferType
    <3> QED
      BY <2>3, <3>1, ShipTypes DEF Ship, ShipsLines, Ships, Shippable
  <2>4. CASE Receive(t) /\ Receivable(t)
    BY <2>4 DEF Receive, EntersTransfer, Enters, Receivable
  <2>5. CASE Throw(t)
    BY <1>3, <2>1, <2>5
  <2> QED
    BY <1>5, <2>2, <2>3, <2>4, <2>5 DEF NumberTransfer, Ship, Receive, RefuseLine
<1>6. CASE SkipLine(t) \/ TakeLine(t) \/ Refresh(t)
  BY <1>6 DEF Works
<1>7. CASE Insert(t, NewTransfer(t))
  <2>1. pc[t] = "read" /\ pc[t] \in Open /\ phase[t] = "numbered"
    BY <1>7 DEF Insert, In, Open
  <2>2. CASE NumberTaken(t)
    BY <1>3, <1>7, <2>1, <2>2 DEF Insert
  <2>3. CASE ~NumberTaken(t)
    <3>1. call[t].draft \in Draft /\ t \in DocId
      BY <1>0, <2>1 DEF Informed, DocumentTypes, CallType, DocId
    <3>2. /\ Commit(t) /\ docs' = [docs EXCEPT ![t] = NewTransfer(t)]
          /\ UNCHANGED <<call, seen, phase, number, at, written>>
      BY <1>7, <2>3 DEF Insert
    <3>3. docs'[t] = NewTransfer(t) /\ DOMAIN docs' = DocId /\ \A e \in DocId \ {t} : docs'[e] = docs[e]
      BY <1>0, <3>1, <3>2 DEF DocumentTypes
    <3> QED
      BY <1>0, <2>1, <2>3, <3>1, <3>2, <3>3, NewTransferIs DEF AddsTransfer, Adds, Files
  <2> QED
    BY <2>2, <2>3
<1>8. CASE CommitShip(t)
  <2>1. phase[t] = "shipping" /\ seen[t] # NoDoc /\ CommitStatus(t, "IN_TRANSIT")
    BY <1>0, <1>8 DEF CommitShip, In, Informed
  <2> QED
    BY <2>1, StatusFiled DEF MarksTransfer, Marks, TransferStatus
<1>9. CASE Cancel(t)
  <2>1. pc[t] \in Open /\ phase[t] = "update"
    BY <1>9 DEF Cancel, In, Open
  <2>2. CASE Cancellable(t)
    <3>1. seen[t] # NoDoc /\ CommitStatus(t, "CANCELLED") /\ seen[t].status = "DRAFT"
      BY <1>9, <2>2 DEF Cancel, Cancellable
    <3> QED
      BY <2>1, <3>1, StatusFiled DEF MarksTransfer, Marks, TransferStatus
  <2>3. CASE ~Cancellable(t)
    BY <1>3, <1>9, <2>1, <2>3 DEF Cancel
  <2> QED
    BY <2>2, <2>3
<1>10. CASE CommitReceive(t)
  <2> DEFINE status == IF phase[t] = "all" THEN "RECEIVED" ELSE seen[t].status
  <2>1. phase[t] \in Deliveries /\ CommitReceipt(t, status)
    BY <1>10 DEF CommitReceive, In, Deliveries
  <2>2. seen[t] # NoDoc /\ seen[t].status \in TransferStatus
    BY <1>0, <2>1 DEF Informed, Receives, TransferTypes, TransferType
  <2>3. status \in TransferStatus
    BY <2>2 DEF TransferStatus
  <2> HIDE DEF status
  <2>4. Fills(t) /\ docs'[call[t].doc].status = status /\ docs'[call[t].doc] \in TransferType
    BY <2>1, <2>3, ReceiptFiled
  <2> QED
    BY <2>4 DEF FillsTransfer, status
<1> QED
  BY <1>1, <1>2, <1>4, <1>5, <1>6, <1>7, <1>8, <1>9, <1>10 DEF TransferStep, TransferStatement

-----------------------------------------------------------------------------
(* Each step keeps the invariant.                                          *)
LEMMA LeftStays ==
  ASSUME DocumentsInv, NEW t \in Tx, DocumentStep(t), NEW d, Left(d)
  PROVE  Left(d)'
<1>1. Committed(d, {"shipping"}) \subseteq Committed(d, {"shipping"})'
  BY CommittedSets
<1> QED
  BY <1>1 DEF Left

LEMMA StepStatus ==
  ASSUME TransfersInv, NEW t \in Tx, TransferKinds(t)
  PROVE  TransferTypes' /\ HasLeft'
<1>0. /\ DocumentsInv /\ StockTypeOK /\ DocumentTypes /\ Handles(t) /\ Informed(t)
      /\ TransferTypes /\ HasLeft /\ Knows(t) /\ DocumentStep(t)
  BY KindsAreSteps DEF TransfersInv, DocumentsInv, StockInv, Handles
<1>1. CASE Arrives(t) \/ Aborts(t) \/ Runs(t) \/ Works(t) \/ ShipsLines(t) \/ EntersTransfer(t)
  <2>1. docs' = docs /\ Existing' = Existing
    BY <1>0, <1>1, QuietStep DEF Works, ShipsLines, EntersTransfer, Prepares, Existing
  <2>2. HasLeft'
    BY <1>0, <2>1, LeftStays DEF HasLeft
  <2>3. ASSUME NEW u \in Tx, seen'[u] # NoDoc PROVE seen'[u] \in TransferType
    <3>1. CASE seen'[u] = seen[u]
      BY <1>0, <2>3, <3>1 DEF TransferTypes
    <3>2. CASE Arrives(t) /\ u = t
      <4>1. PICK c \in CallType, first \in {"raise", "ship", "submit", "update", "receive"} : OpenCall(t, c, first)
        BY <3>2 DEF Arrives
      <4> QED
        BY <1>0, <2>3, <3>2, <4>1 DEF OpenCall, DocumentTypes, TransferTypes, Existing
    <3>3. CASE u # t
      BY <1>0, <3>1, <3>3, OthersKeep DEF Own
    <3>4. CASE Aborts(t) /\ u = t
      BY <1>0, <2>3, <3>4 DEF Aborts, Forget, DocumentTypes
    <3>5. CASE Runs(t) \/ Works(t) \/ ShipsLines(t) \/ EntersTransfer(t)
      <4>1. seen' = seen
        BY <3>5 DEF Runs, docVars, Works, Numbers, TakeNumber, SkipLine, TakeLine, Refresh,
           ShipsLines, Ships, EntersTransfer, Enters
      <4> QED
        BY <3>1, <4>1
    <3> QED
      BY <1>1, <3>2, <3>3, <3>4, <3>5
  <2> QED
    BY <1>0, <2>1, <2>2, <2>3 DEF TransferTypes
<1>2. CASE AddsTransfer(t) \/ MarksTransfer(t) \/ FillsTransfer(t)
  <2>0. MarksTransfer(t) \/ FillsTransfer(t) => call[t].doc \in Existing
    BY <1>0 DEF MarksTransfer, FillsTransfer, Marks, Fills, Informed, Receives
  <2>1. PICK d : \/ d = t /\ AddsTransfer(t)
                 \/ d = call[t].doc /\ d \in Existing /\ (MarksTransfer(t) \/ FillsTransfer(t))
    BY <1>2, <2>0
  <2>2. Concludes(t) /\ seen' = seen /\ Files(d)
    BY <2>1 DEF AddsTransfer, MarksTransfer, FillsTransfer, Adds, Marks, Fills, Concludes
  <2>3. docs'[d] \in TransferType
    BY <1>0, <2>1, NewTransferIs DEF AddsTransfer, MarksTransfer, FillsTransfer
  <2>4. docs'[d].status \in InMotion => Left(d)'
    <3>1. CASE AddsTransfer(t) /\ d = t
      BY <1>0, <3>1, NewTransferIs DEF AddsTransfer, InMotion
    <3>2. CASE MarksTransfer(t) /\ phase[t] = "shipping" /\ d = call[t].doc
      BY <1>0, <2>2, <3>2, CommittedSets DEF Left
    <3>3. CASE MarksTransfer(t) /\ phase[t] = "update" /\ d = call[t].doc
      BY <3>3 DEF MarksTransfer, InMotion
    <3>4. CASE FillsTransfer(t) /\ d = call[t].doc
      BY <1>0, <3>4, LeftStays DEF FillsTransfer, Fills, Knows, Informed, Receives, InMotion
    <3> QED
      BY <2>1, <3>1, <3>2, <3>3, <3>4 DEF MarksTransfer
  <2>5. \A e \in Existing' : e = d \/ (e \in Existing /\ docs'[e] = docs[e])
    BY <2>2 DEF Files, Existing
  <2> QED
    BY <1>0, <2>2, <2>3, <2>4, <2>5, LeftStays DEF TransferTypes, HasLeft
<1> QED
  BY <1>1, <1>2 DEF TransferKinds

LEMMA StepKnows ==
  ASSUME TransfersInv, NEW t \in Tx, TransferKinds(t), NEW u \in Tx
  PROVE  Knows(u)'
<1>0. /\ DocumentsInv /\ StockTypeOK /\ DocumentTypes /\ Handles(t) /\ Informed(t)
      /\ TransferTypes /\ HasLeft /\ Knows(u) /\ Knows(t) /\ DocumentStep(t)
  BY KindsAreSteps DEF TransfersInv, DocumentsInv, StockInv, Handles
<1> USE DEF Knows
<1>1. CASE /\ seen'[u] = seen[u] /\ call'[u] = call[u]
           /\ \/ phase'[u] = phase[u]
              \/ phase'[u] = "shipping" /\ seen[u].status = "DRAFT"
              \/ phase'[u] \in Receives /\ (seen[u].status = "IN_TRANSIT" \/ phase[u] \in Receives)
              \/ phase'[u] = "numbered"
  BY <1>0, <1>1, LeftStays DEF Receives, Deliveries
<1>2. CASE u # t
  BY <1>0, <1>1, <1>2, OthersKeep DEF Own
<1>3. CASE Arrives(t) /\ u = t
  <2>1. PICK c \in CallType, first \in {"raise", "ship", "submit", "update", "receive"} : OpenCall(t, c, first)
    BY <1>3 DEF Arrives
  <2>2. /\ phase'[t] = first /\ docs' = docs /\ call'[t] = c
        /\ seen'[t] = IF c.doc \in DocId THEN docs[c.doc] ELSE NoDoc
    BY <1>0, <2>1 DEF OpenCall, DocumentTypes
  <2>3. seen'[t] # NoDoc => c.doc \in Existing
    BY <2>2 DEF Existing
  <2> QED
    BY <1>0, <1>3, <2>2, <2>3, LeftStays DEF HasLeft, Receives, Deliveries
<1>4. CASE Aborts(t) /\ u = t
  BY <1>0, <1>4 DEF Aborts, Forget, DocumentTypes, Receives, Deliveries
<1>5. CASE Runs(t) \/ AddsTransfer(t) \/ MarksTransfer(t) \/ FillsTransfer(t)
  BY <1>1, <1>5 DEF Runs, docVars, AddsTransfer, Adds, MarksTransfer, Marks, FillsTransfer, Fills
<1>6. CASE (Works(t) \/ ShipsLines(t) \/ EntersTransfer(t)) /\ u = t
  BY <1>0, <1>1, <1>6 DEF Works, Numbers, TakeNumber, SkipLine, TakeLine, TakesLine, Receiving, Refresh, In,
     ShipsLines, Ships, Shippable, EntersTransfer, Enters, Receivable, DocumentTypes, Receives, Deliveries
<1> QED
  BY <1>2, <1>3, <1>4, <1>5, <1>6 DEF TransferKinds

LEMMA NextTransfersInv == TransfersInv /\ [TransfersNext]_documentsVars => TransfersInv'
<1> SUFFICES ASSUME TransfersInv, [TransfersNext]_documentsVars PROVE TransfersInv'
  OBVIOUS
<1>1. CASE \E t \in Tx : TransferStep(t)
  <2>1. PICK t \in Tx : TransferKinds(t)
    BY <1>1, StepKinds
  <2>2. DocumentsInv'
    BY <2>1, KindsAreSteps, StepDocuments DEF TransfersInv
  <2> QED
    BY <2>1, <2>2, StepStatus, StepKnows DEF TransfersInv
<1>2. CASE UNCHANGED documentsVars
  <2>1. UNCHANGED <<pc, docs, call, seen, phase>> /\ Existing' = Existing
    BY <1>2 DEF documentsVars, stockVars, docVars, Existing
  <2>2. \A d : Left(d)' <=> Left(d)
    BY <2>1 DEF Left, Committed
  <2> QED
    BY <1>2, <2>1, <2>2, StutterDocuments DEF TransfersInv, TransferTypes, HasLeft, Knows
<1> QED
  BY <1>1, <1>2, StepOrStutter

LEMMA EarlierProper == \A d \in Earlier : Proper(Raised[d])
BY RaisedProper

LEMMA TransfersInitInv == DocumentsInit => TransfersInv
<1> SUFFICES ASSUME DocumentsInit PROVE TransfersInv
  OBVIOUS
<1>1. DocumentsInv
  BY EarlierProper, DocumentsInitInv
<1>2. Existing = Earlier /\ (\A d \in Earlier : docs[d] = Raised[d])
  BY DocAssumption DEF DocumentsInit, Existing, DocId
<1>3. TransferTypes
  BY <1>2, RaisedProper DEF TransferTypes, DocumentsInit
<1>4. HasLeft
  BY <1>2 DEF HasLeft, Left
<1>5. \A t \in Tx : Knows(t)
  BY DEF DocumentsInit, Knows, Receives, Deliveries
<1> QED
  BY <1>1, <1>3, <1>4, <1>5 DEF TransfersInv

THEOREM TransfersInvariant == TransfersSpec => []TransfersInv
BY TransfersInitInv, NextTransfersInv, PTL DEF TransfersSpec

(* However many transfers are raised at the same time, their numbers run   *)
(* from 1 without a gap, each given once: what the unique index on the     *)
(* number column makes of a count without a lock.                          *)
THEOREM TransfersNumbered == TransfersSpec => []NumbersGapless
<1>1. TransfersInv => NumbersGapless
  BY DEF TransfersInv, DocumentsInv, Numbered
<1> QED
  BY <1>1, TransfersInvariant, PTL

(* No overlap of ships, deliveries, cancels and failures leaves a negative *)
(* quantity on hand in a store.                                            *)
THEOREM TransfersNeverNegative == TransfersSpec => []NeverNegative
<1>1. TransfersInv => NeverNegative
  BY DEF TransfersInv, DocumentsInv, StockInv
<1> QED
  BY <1>1, TransfersInvariant, PTL

(* Whatever overlaps, a delivery is committed only of a transfer of which  *)
(* a ship has been committed: receive's check of IN_TRANSIT, made on an    *)
(* unlocked snapshot, is enough for that.                                  *)
DeliveriesWereShipped ==
  \A t \in Tx : pc[t] = "committed" /\ phase[t] \in Deliveries => Left(call[t].doc)

THEOREM TransfersShipFirst == TransfersSpec => []DeliveriesWereShipped
<1>1. TransfersInv => DeliveriesWereShipped
  BY DEF TransfersInv, DocumentsInv, DeliveriesWereShipped, Handles, Informed, Knows, Receives, InMotion
<1> QED
  BY <1>1, TransfersInvariant, PTL

-----------------------------------------------------------------------------
(* What a transfer ships and what a delivery brings, row by row.           *)
LEMMA ShipEffect ==
  ASSUME TransferTypes, NEW t \in Tx, seen[t] # NoDoc, NEW r
  PROVE  Effect(ShipLines(seen[t].lines), r) = -Gone(t, r)
<1> DEFINE lines == seen[t].lines
           I == DOMAIN lines
           T == {i \in I : lines[i].from = r}
           f == [i \in I |-> lines[i].qty]
           g == [i \in I |-> Moves(ShipLines(lines)[i], r)]
           h == [i \in I |-> IF i \in T THEN lines[i].qty ELSE 0]
<1>0. lines \in Seq(TransferLine)
  BY DEF TransferTypes, TransferType
<1>1. IsFiniteSet(I) /\ T \in SUBSET I /\ \A i \in I : lines[i].qty \in Nat
  BY <1>0, TransferLines
<1>2. DOMAIN ShipLines(lines) = I
  BY DEF ShipLines
<1>3. Effect(ShipLines(lines), r) = SumFunctionOnSet(g, I)
  BY <1>2 DEF Effect
<1>4. Gone(t, r) = SumFunctionOnSet(f, T)
  BY DEF Gone
<1>5. IntValued(f, T) /\ IntValued(h, I)
  BY <1>1 DEF IntValued
<1>6. (\A i \in T : h[i] = f[i]) /\ (\A i \in I \ T : h[i] = 0)
  OBVIOUS
<1>7. \A i \in I : g[i] = h[i] * (-1)
  BY <1>1 DEF Moves, ShipLines
<1> HIDE DEF f, g, h, I, T
<1>8. SumFunctionOnSet(h, I) = SumFunctionOnSet(f, T)
  BY <1>1, <1>5, <1>6, SumWhere
<1>9. SumFunctionOnSet(g, I) = SumFunctionOnSet(h, I) * (-1)
  BY <1>1, <1>5, <1>7, SumTimes
<1>10. SumFunctionOnSet(h, I) \in Int
  BY <1>1, <1>5, SumInt
<1> QED
  BY <1>3, <1>4, <1>8, <1>9, <1>10

LEMMA CameEffect ==
  ASSUME DocumentTypes, NEW t \in Tx, Informed(t), Handles(t), phase[t] \in Deliveries, NEW r
  PROVE  Effect(CameWith(t), r) = Come(t, r)
<1> DEFINE receipt == call[t].receipt
           I == 1 .. Len(receipt)
           T == {k \in I : seen[t].lines[receipt[k].item].into = r}
           f == [k \in I |-> receipt[k].qty]
           g == [k \in I |-> Moves(CameWith(t)[k], r)]
<1>1. call[t] # NoDoc /\ phase[t] \in Receives /\ Delivers(t)
  BY DEF Informed, Receives, Handles
<1>2. /\ Len(receipt) \in Nat /\ DOMAIN receipt = I
      /\ \A k \in I : receipt[k].qty \in Nat
  BY <1>1, ReceiptTypes
<1>3. at[t] - 1 = Len(receipt)
  BY <1>1, <1>2, CameTypes DEF Delivers
<1>4. DOMAIN CameWith(t) = I
  BY <1>3 DEF CameWith
<1>5. Effect(CameWith(t), r) = SumFunctionOnSet(g, I)
  BY <1>4 DEF Effect
<1>6. Come(t, r) = SumFunctionOnSet(f, T)
  BY <1>2 DEF Come
<1>7. IsFiniteSet(I) /\ T \in SUBSET I /\ IntValued(f, T)
  <2>1. IsFiniteSet(I)
    BY <1>2, FS_Interval
  <2> QED
    BY <1>2, <2>1 DEF IntValued
<1>8. (\A k \in T : g[k] = f[k]) /\ (\A k \in I \ T : g[k] = 0)
  BY <1>3 DEF Moves, CameWith
<1> HIDE DEF f, g, T, I
<1> QED
  BY <1>5, <1>6, <1>7, <1>8, SumWhere

(* Of a ship, what it has posted and what it still posts is its lines.     *)
ShippingPosts(t) ==
  pc[t] \in Open /\ phase[t] = "shipping" =>
    \A r \in Row : posted[t][r] + Effect(todo[t], r) = Effect(ShipLines(seen[t].lines), r)

LedgerInv == TransfersInv /\ PostingInv /\ \A t \in Tx : ShippingPosts(t)

LEMMA StepShipping ==
  ASSUME LedgerInv, NEW t \in Tx, TransferKinds(t), NEW u \in Tx
  PROVE  ShippingPosts(u)'
<1>0. /\ DocumentsInv /\ StockTypeOK /\ DocumentTypes /\ Handles(t) /\ DocumentStep(t)
      /\ ShippingPosts(t) /\ ShippingPosts(u) /\ Posting(t) /\ Informed(t)
  BY KindsAreSteps DEF LedgerInv, PostingInv, TransfersInv, DocumentsInv, StockInv, Handles
<1>1. CASE u # t
  BY <1>0, <1>1, OthersKeep DEF Own, ShippingPosts
<1>2. CASE u = t /\ (Arrives(t) \/ Aborts(t) \/ Works(t) \/ EntersTransfer(t))
  <2>1. pc'[t] \in Open => phase'[t] # "shipping"
    BY <1>0, <1>2 DEF Arrives, OpenCall, Aborts, Rollback, Works, Numbers, TakeNumber, SkipLine, TakeLine, TakesLine,
       Receiving, Refresh, In, EntersTransfer, Enters, DocumentTypes, StockTypeOK, Open
  <2> QED
    BY <1>2, <2>1 DEF ShippingPosts
<1>3. CASE u = t /\ Runs(t)
  <2>1. pc[t] \in Open /\ UNCHANGED docVars /\ Statement(t) /\ pc'[t] # "aborted"
    BY <1>0, <1>3, StatementEnds DEF Runs, Open
  <2>2. \A r \in Row : posted'[t][r] + Effect(todo'[t], r) = posted[t][r] + Effect(todo[t], r)
    BY <1>0, <2>1, StatementEffect DEF Posting
  <2> QED
    BY <1>0, <1>3, <2>1, <2>2 DEF ShippingPosts, docVars
<1>4. CASE u = t /\ ShipsLines(t)
  <2>1. /\ pc[t] \in Open /\ phase[t] = "ship" /\ todo[t] = <<>>
        /\ posted' = posted /\ seen' = seen /\ todo'[t] = ShipLines(seen[t].lines)
    BY <1>0, <1>4 DEF ShipsLines, Ships, In, Open, Adjusting, Posting, StockTypeOK
  <2>2. ASSUME NEW r \in Row PROVE posted[t][r] = 0
    <3>1. posted[t][r] + Effect(<<>>, r) = Effect(<<>>, r)
      BY <1>0, <2>1 DEF Posting, Due, Receives, Deliveries
    <3>2. posted[t][r] \in Int
      BY <1>0 DEF StockTypeOK
    <3> QED
      BY <3>1, <3>2, EffectEmpty
  <2>3. ASSUME NEW r \in Row PROVE Effect(ShipLines(seen[t].lines), r) \in Int
    <3>1. seen[t] # NoDoc /\ seen[t].lines \in Seq(TransferLine)
      BY <1>4 DEF ShipsLines, Ships, LedgerInv, TransfersInv, TransferTypes, TransferType
    <3> QED
      BY <3>1, ShipTypes, EffectTypes
  <2> QED
    BY <1>4, <2>1, <2>2, <2>3 DEF ShippingPosts
<1>5. CASE u = t /\ Concludes(t)
  BY <1>0, <1>5, ConcludeStep DEF ShippingPosts, Open
<1> QED
  BY <1>1, <1>2, <1>3, <1>4, <1>5 DEF TransferKinds, AddsTransfer, MarksTransfer, FillsTransfer, Concludes

LEMMA NextLedgerInv == LedgerInv /\ [TransfersNext]_documentsVars => LedgerInv'
<1> SUFFICES ASSUME LedgerInv, [TransfersNext]_documentsVars PROVE LedgerInv'
  OBVIOUS
<1>0. TransfersInv'
  BY NextTransfersInv DEF LedgerInv
<1>1. CASE \E t \in Tx : TransferStep(t)
  <2>1. PICK t \in Tx : TransferKinds(t)
    BY <1>1, StepKinds DEF LedgerInv
  <2> QED
    BY <1>0, <2>1, KindsAreSteps, StepPosts, StepShipping DEF LedgerInv
<1>2. CASE UNCHANGED documentsVars
  <2>1. UNCHANGED <<pc, phase, posted, todo, seen>>
    BY <1>2 DEF documentsVars, stockVars, docVars
  <2> QED
    BY <1>0, <1>2, <2>1, StutterPosts DEF LedgerInv, ShippingPosts
<1> QED
  BY <1>1, <1>2, StepOrStutter

LEMMA LedgerInitInv == DocumentsInit => LedgerInv
<1> SUFFICES ASSUME DocumentsInit PROVE LedgerInv
  OBVIOUS
<1>1. \A t \in Tx : ShippingPosts(t)
  BY DEF DocumentsInit, ShippingPosts
<1> QED
  BY <1>1, TransfersInitInv, EarlierProper, PostingInitInv DEF LedgerInv

(* What the ledger owes to a call that commits.                            *)
Owes(t, r) ==
  CASE phase[t] = "shipping" -> -Gone(t, r)
    [] phase[t] \in {"all", "some", "nothing"} -> Come(t, r)
    [] OTHER -> 0

LEMMA ConcludePosts ==
  ASSUME LedgerInv, NEW t \in Tx, Concludes(t), NEW r \in Row
  PROVE  moved'[r] = moved[r] + Owes(t, r) /\ moved[r] \in Int /\ Owes(t, r) \in Int
<1>0. /\ StockTypeOK /\ DocumentTypes /\ TransferTypes /\ Posting(t) /\ ShippingPosts(t)
      /\ Informed(t) /\ Handles(t)
  BY DEF LedgerInv, PostingInv, TransfersInv, DocumentsInv, StockInv, Handles
<1>1. /\ Commit(t) /\ pc[t] = "read" /\ todo[t] = <<>> /\ pc[t] \in Open
      /\ phase[t] \in {"numbered", "shipping", "submit", "update"} \cup Deliveries
      /\ phase[t] # "numbered" => seen[t] # NoDoc
  BY <1>0, ConcludeStep DEF Open
<1>3. posted[t][r] + Effect(<<>>, r) = Owes(t, r)
  <2>1. CASE phase[t] = "shipping"
    BY <1>0, <1>1, <2>1, ShipEffect DEF ShippingPosts, Owes
  <2>2. CASE phase[t] \in Deliveries
    BY <1>0, <1>1, <2>2, CameEffect DEF Posting, Due, Owes, Receives, Deliveries
  <2>3. CASE phase[t] \in {"numbered", "submit", "update"}
    BY <1>0, <1>1, <2>3, EffectEmpty DEF Posting, Due, Owes, Receives, Deliveries
  <2> QED
    BY <1>1, <2>1, <2>2, <2>3
<1>4. posted[t][r] \in Int /\ moved[r] \in Int /\ moved'[r] = moved[r] + posted[t][r]
  BY <1>0, <1>1 DEF StockTypeOK, Commit
<1> QED
  BY <1>3, <1>4, EffectEmpty

Settles(r) ==
  LET ending == {t \in Tx : Commits(t)}
  IN moved'[r] - moved[r] =
       SumFunctionOnSet([t \in ending |->
         CASE phase[t] = "shipping" -> -Gone(t, r)
           [] phase[t] \in {"all", "some", "nothing"} -> Come(t, r)
           [] OTHER -> 0], ending)

LEMMA QuietSettles ==
  ASSUME StockTypeOK, moved' = moved, {t \in Tx : Commits(t)} = {}, NEW r \in Row
  PROVE  Settles(r)
<1>1. moved'[r] - moved[r] = 0
  BY DEF StockTypeOK
<1> QED
  BY <1>1, SumEmpty DEF Settles

LEMMA StepSettles ==
  ASSUME LedgerInv, NEW t \in Tx, TransferKinds(t), NEW r \in Row
  PROVE  Settles(r)
<1>0. StockTypeOK /\ DocumentTypes /\ Handles(t) /\ DocumentStep(t)
  BY KindsAreSteps DEF LedgerInv, TransfersInv, DocumentsInv, StockInv
<1>1. \A u \in Tx \ {t} : ~Commits(u)
  BY <1>0, OthersKeep DEF Own, Commits
<1>2. CASE Concludes(t)
  <2> DEFINE ending == {u \in Tx : Commits(u)}
             f == [u \in ending |-> CASE phase[u] = "shipping" -> -Gone(u, r)
                                      [] phase[u] \in {"all", "some", "nothing"} -> Come(u, r)
                                      [] OTHER -> 0]
  <2>1. Commits(t)
    BY <1>0, <1>2, ConcludeStep DEF Commits
  <2>2. ending = {t}
    BY <1>1, <2>1
  <2>3. f[t] = Owes(t, r)
    BY <2>2 DEF Owes
  <2>4. Settles(r) <=> moved'[r] - moved[r] = SumFunctionOnSet(f, ending)
    BY DEF Settles
  <2> HIDE DEF f, ending
  <2>5. Owes(t, r) \in Int /\ moved[r] \in Int /\ moved'[r] = moved[r] + Owes(t, r)
    BY <1>2, ConcludePosts
  <2>6. SumFunctionOnSet(f, {t}) = f[t]
    BY <2>3, <2>5, SumOne
  <2> QED
    BY <2>2, <2>3, <2>4, <2>5, <2>6
<1>3. CASE Arrives(t) \/ Aborts(t) \/ Runs(t) \/ Prepares(t)
  <2>1. moved' = moved /\ ~Commits(t)
    BY <1>0, <1>3, QuietStep DEF Commits
  <2> QED
    BY <1>0, <1>1, <2>1, QuietSettles
<1> QED
  BY <1>0, <1>2, <1>3 DEF DocumentStep

LEMMA NextSettles == LedgerInv /\ [TransfersNext]_documentsVars => [\A r \in Row : Settles(r)]_documentsVars
<1> SUFFICES ASSUME LedgerInv, \E t \in Tx : TransferStep(t) PROVE \A r \in Row : Settles(r)
  BY StepOrStutter
<1>1. PICK t \in Tx : TransferKinds(t)
  BY StepKinds DEF LedgerInv
<1> QED
  BY <1>1, StepSettles

(* Whatever overlaps or fails, the ledger moves only when a call commits,  *)
(* and then by all the lines it shipped, or by all it received: a ship or  *)
(* a delivery is never posted in part, nor a second time.                  *)
THEOREM TransfersLedger == TransfersSpec => LedgerFollowsTransfers
<1>1. [\A r \in Row : Settles(r)]_documentsVars
        => [\A r \in Row :
              LET ending == {t \in Tx : Commits(t)}
              IN moved'[r] - moved[r] =
                   SumFunctionOnSet([t \in ending |->
                     CASE phase[t] = "shipping" -> -Gone(t, r)
                       [] phase[t] \in {"all", "some", "nothing"} -> Come(t, r)
                       [] OTHER -> 0], ending)]_documentsVars
  BY DEF Settles
<1> QED
  BY <1>1, NextSettles, LedgerInitInv, NextLedgerInv, PTL DEF TransfersSpec, LedgerFollowsTransfers

-----------------------------------------------------------------------------
(* However deliveries overlap, a line never shows more than what came into *)
(* stock for it: lost updates can only lose units.                         *)
LEMMA NextReceived ==
  TransfersInv /\ CountedInv /\ [TransfersNext]_documentsVars => CountedInv'
<1>1. ASSUME TransfersInv, CountedInv, NEW t \in Tx, TransferStep(t) PROVE CountedInv'
  BY <1>1, StepKinds, KindsAreSteps, StepCounted
<1> QED
  BY <1>1, StutterCounted, StepOrStutter

THEOREM TransfersReceived == TransfersSpec => []ReceivedNeverOverstated
<1>1. CountedInv => ReceivedNeverOverstated
  BY DEF CountedInv, Counted, ReceivedNeverOverstated
<1>2. DocumentsInit => CountedInv
  BY EarlierProper, CountedInitInv
<1> QED
  BY <1>1, <1>2, NextReceived, TransfersInvariant, PTL DEF TransfersSpec

-----------------------------------------------------------------------------
(* How often a transfer has left its store.                                *)
Before(d) == IF d \in Earlier /\ Raised[d].status \in {"IN_TRANSIT", "RECEIVED"} THEN 1 ELSE 0

LEMMA ShipmentsKnown ==
  ASSUME DocumentsInv, NEW d
  PROVE  /\ Shipments(d) = Cardinality(Committed(d, {"shipping"})) + Before(d)
         /\ IsFiniteSet(Committed(d, {"shipping"}))
         /\ Cardinality(Committed(d, {"shipping"})) \in Nat /\ Before(d) \in {0, 1}
         /\ Shipments(d) \in Nat /\ (Shipments(d) > 0 <=> Left(d))
<1>1. Committed(d, {"shipping"}) \subseteq Finished
  BY DEF Committed, Finished
<1>2. IsFiniteSet(Committed(d, {"shipping"}))
  BY <1>1, FS_Subset DEF DocumentsInv
<1>3. Cardinality(Committed(d, {"shipping"})) \in Nat /\ Before(d) \in {0, 1}
  BY <1>2, FS_CardinalityType DEF Before
<1>4. Shipments(d) = Cardinality(Committed(d, {"shipping"})) + Before(d)
  BY DEF Shipments, Before
<1>5. Cardinality(Committed(d, {"shipping"})) = 0 <=> Committed(d, {"shipping"}) = {}
  BY <1>2, FS_EmptySet
<1>6. Left(d) <=> Committed(d, {"shipping"}) # {} \/ Before(d) = 1
  BY DEF Left, Before, InMotion
<1> QED
  BY <1>2, <1>3, <1>4, <1>5, <1>6

LEMMA ShipmentsStay ==
  ASSUME DocumentsInv, NEW t \in Tx, DocumentStep(t), NEW d,
         ~(Concludes(t) /\ call[t].doc = d /\ phase[t] = "shipping")
  PROVE  Shipments(d)' = Shipments(d)
BY CommittedSets DEF Shipments

LEMMA ShipmentsGrow ==
  ASSUME DocumentsInv, NEW t \in Tx, DocumentStep(t), NEW d,
         Concludes(t), call[t].doc = d, phase[t] = "shipping"
  PROVE  Shipments(d)' = Shipments(d) + 1
<1>1. Committed(d, {"shipping"})' = Committed(d, {"shipping"}) \cup {t} /\ t \notin Committed(d, {"shipping"})
  BY CommittedSets
<1>2. Cardinality(Committed(d, {"shipping"}) \cup {t}) = Cardinality(Committed(d, {"shipping"})) + 1
  BY <1>1, ShipmentsKnown, FS_AddElement
<1>3. Shipments(d)' = Cardinality(Committed(d, {"shipping"})') + Before(d)
  BY DEF Shipments, Before
<1>4. /\ Shipments(d) = Cardinality(Committed(d, {"shipping"})) + Before(d)
      /\ Cardinality(Committed(d, {"shipping"})) \in Nat /\ Before(d) \in {0, 1}
  BY ShipmentsKnown
<1>5. Shipments(d)' = (Cardinality(Committed(d, {"shipping"})) + 1) + Before(d)
  BY ONLY <1>1, <1>2, <1>3
<1> QED
  BY ONLY <1>4, <1>5

(* As long as no call has overlapped another, and where each delivery      *)
(* named a line once, status, counts and goods agree.                      *)
Agrees(d) ==
  /\ docs[d].status \in InMotion =>
       /\ Shipments(d) = 1
       /\ docs[d].status = "RECEIVED" <=>
            \A i \in DOMAIN docs[d].lines : docs[d].received[i] = docs[d].lines[i].qty
  /\ docs[d].status \notin InMotion =>
       /\ Shipments(d) = 0
       /\ \A i \in DOMAIN docs[d].lines : docs[d].received[i] = 0

StatusInv ==
  /\ TransfersInv /\ SequentialInv
  /\ ~overlapped => \A d \in Existing : Neat(d) => Agrees(d)

LEMMA ProperLine ==
  ASSUME NEW doc, Proper(doc)
  PROVE  /\ 1 \in DOMAIN doc.lines /\ doc.lines[1].qty \in Nat \ {0}
         /\ (\A i \in DOMAIN doc.lines : doc.received[i] = 0)
              => ~\A i \in DOMAIN doc.lines : doc.received[i] = doc.lines[i].qty
BY DEF Proper

(* What a step leaves of a document it does not commit.                    *)
LEMMA AgreesStays ==
  ASSUME DocumentsInv, NEW t \in Tx, DocumentStep(t), NEW d, docs'[d] = docs[d], Agrees(d),
         ~(Concludes(t) /\ call[t].doc = d /\ phase[t] = "shipping")
  PROVE  Agrees(d)'
BY ShipmentsStay DEF Agrees

LEMMA NewAgrees ==
  ASSUME DocumentsInv, NEW t \in Tx, DocumentStep(t), t \notin Existing, AddsTransfer(t)
  PROVE  Agrees(t)'
<1>1. t \in DocId /\ t \notin Earlier /\ DocumentTypes
  BY DocAssumption DEF DocId, DocumentsInv
<1>2. Shipments(t)' = 0
  <2>1. Shipments(t) = 0
    BY <1>1, NothingYet, ShipmentsKnown, FS_EmptySet DEF Before
  <2> QED
    BY <2>1, ShipmentsStay DEF AddsTransfer, Adds
<1> QED
  BY <1>1, <1>2, NewTransferIs DEF Agrees, InMotion, AddsTransfer

LEMMA MarkedAgrees ==
  ASSUME DocumentsInv, NEW t \in Tx, DocumentStep(t), NEW d \in Existing, Agrees(d),
         call[t].doc = d, MarksTransfer(t), docs[d].status = "DRAFT"
  PROVE  Agrees(d)'
<1>1. /\ Concludes(t) /\ docs'[d].lines = docs[d].lines /\ docs'[d].received = docs[d].received
  BY DEF MarksTransfer, Marks, Keeps, Concludes
<1>2. Shipments(d) = 0 /\ \A i \in DOMAIN docs[d].lines : docs[d].received[i] = 0
  BY DEF Agrees, InMotion
<1>3. CASE phase[t] = "shipping" /\ docs'[d].status = "IN_TRANSIT"
  <2>1. Shipments(d)' = 1
    BY <1>1, <1>2, <1>3, ShipmentsGrow
  <2>2. ~\A i \in DOMAIN docs[d].lines : docs[d].received[i] = docs[d].lines[i].qty
    BY <1>2, KnownDoc, ProperLine
  <2> QED
    BY <1>1, <1>3, <2>1, <2>2 DEF Agrees, InMotion
<1>4. CASE phase[t] = "update" /\ docs'[d].status = "CANCELLED"
  <2>1. Shipments(d)' = Shipments(d)
    BY <1>4, ShipmentsStay
  <2> QED
    BY <1>1, <1>2, <1>4, <2>1 DEF Agrees, InMotion
<1> QED
  BY <1>3, <1>4 DEF MarksTransfer

LEMMA FilledAgrees ==
  ASSUME DocumentsInv, NEW t \in Tx, DocumentStep(t), NEW d \in Existing, Agrees(d), Tallies(d),
         call[t].doc = d, pc[t] \in Open, FillsTransfer(t), seen[t] # NoDoc,
         seen[t] = docs[d], Reports(t), NamesOnce(call[t].receipt), docs[d].status = "IN_TRANSIT"
  PROVE  Agrees(d)'
<1>1. /\ Concludes(t) /\ phase[t] \in Deliveries /\ docs'[d].lines = docs[d].lines
      /\ \A i \in DOMAIN docs[d].lines : docs'[d].received[i] = LineNow(t, i)
      /\ docs'[d].status = (IF phase[t] = "all" THEN "RECEIVED" ELSE "IN_TRANSIT")
  BY KnownDoc DEF FillsTransfer, Fills, Keeps, Concludes, Proper
<1>2. \A i \in DOMAIN docs[d].lines :
        /\ LineNow(t, i) <= docs[d].lines[i].qty /\ LineNow(t, i) \in Nat
        /\ docs[d].lines[i].qty \in Nat
  BY <1>1, LineReceived, KnownDoc DEF Proper
<1>3. Shipments(d)' = 1
  <2>1. Shipments(d) = 1
    BY DEF Agrees, InMotion
  <2> QED
    BY <1>1, <2>1, ShipmentsStay DEF Deliveries
<1>4. AllComplete(t) <=> \A i \in DOMAIN docs[d].lines : LineNow(t, i) = docs[d].lines[i].qty
  BY <1>2 DEF AllComplete
<1>5. phase[t] = "all" <=> AllComplete(t)
  BY <1>1 DEF Reports, Receives, Deliveries
<1> QED
  BY <1>1, <1>3, <1>4, <1>5 DEF Agrees, InMotion

LEMMA StepAgrees ==
  ASSUME StatusInv, ~overlapped, NEW t \in Tx, TransferKinds(t), NEW d \in Existing', Neat(d)'
  PROVE  Agrees(d)'
<1>0. /\ DocumentsInv /\ StockTypeOK /\ DocumentTypes /\ Handles(t) /\ Informed(t) /\ Knows(t)
      /\ DocumentStep(t) /\ Sequential
  BY KindsAreSteps DEF StatusInv, TransfersInv, SequentialInv, DocumentsInv, StockInv, Handles
<1>1. Neat(d) /\ (Concludes(t) /\ call[t].doc = d /\ phase[t] \in Deliveries => NamesOnce(call[t].receipt))
  BY <1>0, NeatBefore
<1>2. d \in Existing => Agrees(d) /\ Tallies(d)
  BY <1>0, <1>1 DEF StatusInv, Sequential
<1>3. CASE Arrives(t) \/ Aborts(t) \/ Runs(t) \/ Works(t) \/ ShipsLines(t) \/ EntersTransfer(t)
  <2>1. docs' = docs /\ pc'[t] # "committed"
    BY <1>0, <1>3, QuietStep DEF Works, ShipsLines, EntersTransfer, Prepares
  <2>2. d \in Existing /\ ~Concludes(t)
    BY <1>0, <2>1, ConcludeStep DEF Existing
  <2> QED
    BY <1>0, <1>2, <2>1, <2>2, AgreesStays
<1>4. CASE AddsTransfer(t)
  <2>1. t \notin Existing /\ Concludes(t) /\ phase[t] = "numbered" /\ Files(t)
    BY <1>0, <1>4, ConcludeStep DEF Informed, Existing, AddsTransfer, Adds, Concludes
  <2>2. CASE d = t
    BY <1>0, <1>4, <2>1, <2>2, NewAgrees
  <2>3. CASE d # t
    <3>1. d \in Existing /\ docs'[d] = docs[d]
      BY <2>1, <2>3 DEF Files, Existing
    <3> QED
      BY <1>0, <1>2, <2>1, <3>1, AgreesStays
  <2> QED
    BY <2>2, <2>3
<1>5. CASE MarksTransfer(t) \/ FillsTransfer(t)
  <2>1. /\ Concludes(t) /\ Files(call[t].doc) /\ seen[t] # NoDoc /\ call[t].doc \in Existing
        /\ pc[t] = "read" /\ pc[t] \in Open
    BY <1>0, <1>5, ConcludeStep DEF MarksTransfer, Marks, FillsTransfer, Fills, Concludes, Informed, Open,
       Receives, Deliveries
  <2>2. CASE d # call[t].doc
    <3>1. d \in Existing /\ docs'[d] = docs[d]
      BY <2>1, <2>2 DEF Files, Existing
    <3> QED
      BY <1>0, <1>2, <2>2, <3>1, AgreesStays
  <2>3. CASE d = call[t].doc
    <3>1. seen[t] = docs[d] /\ Reports(t)
      BY <1>0, <2>1, <2>3 DEF Sequential, UpToDate
    <3>2. CASE MarksTransfer(t)
      <4>1. docs[d].status = "DRAFT"
        BY <1>0, <3>1, <3>2 DEF Knows, MarksTransfer
      <4> QED
        BY <1>0, <1>2, <2>1, <2>3, <3>2, <4>1, MarkedAgrees
    <3>3. CASE FillsTransfer(t)
      <4>1. docs[d].status = "IN_TRANSIT" /\ NamesOnce(call[t].receipt)
        BY <1>0, <1>1, <2>1, <2>3, <3>1, <3>3 DEF Knows, FillsTransfer, Fills, Receives
      <4> QED
        BY <1>0, <1>2, <2>1, <2>3, <3>1, <3>3, <4>1, FilledAgrees
    <3> QED
      BY <1>5, <3>2, <3>3
  <2> QED
    BY <2>2, <2>3
<1> QED
  BY <1>3, <1>4, <1>5 DEF TransferKinds

LEMMA NextStatusInv == StatusInv /\ [TransfersNext]_documentsVars => StatusInv'
<1> SUFFICES ASSUME StatusInv, [TransfersNext]_documentsVars PROVE StatusInv'
  OBVIOUS
<1>0. TransfersInv'
  BY NextTransfersInv DEF StatusInv
<1>1. CASE \E t \in Tx : TransferStep(t)
  <2>1. PICK t \in Tx : TransferKinds(t) /\ DocumentStep(t)
    BY <1>1, StepKinds, KindsAreSteps DEF StatusInv
  <2>2. SequentialInv'
    BY <2>1, StepSequential DEF StatusInv
  <2>3. ASSUME ~overlapped' PROVE ~overlapped
    BY <2>1, <2>3, StepSerial DEF StatusInv, TransfersInv, DocumentsInv, StockInv, SequentialInv, Sequential
  <2> QED
    BY <1>0, <2>1, <2>2, <2>3, StepAgrees DEF StatusInv
<1>2. CASE UNCHANGED documentsVars
  <2>1. UNCHANGED <<pc, docs, call, phase, overlapped>> /\ Existing' = Existing
    BY <1>2 DEF documentsVars, stockVars, docVars, Existing
  <2>2. \A d : (Neat(d)' <=> Neat(d)) /\ (Agrees(d)' <=> Agrees(d))
    BY <2>1 DEF Neat, Agrees, Shipments, Committed
  <2> QED
    BY <1>0, <1>2, <2>1, <2>2, StutterSequential DEF StatusInv
<1> QED
  BY <1>1, <1>2, StepOrStutter

LEMMA StatusInitInv == DocumentsInit => StatusInv
<1> SUFFICES ASSUME DocumentsInit PROVE StatusInv
  OBVIOUS
<1>1. TransfersInv /\ SequentialInv /\ DocumentsInv
  BY TransfersInitInv, EarlierProper, SequentialInitInv DEF TransfersInv
<1>2. Existing = Earlier /\ (\A d \in Earlier : docs[d] = Raised[d]) /\ \A t \in Tx : pc[t] = "idle"
  BY DocAssumption DEF DocumentsInit, StockInit, Existing, DocId
<1>3. ASSUME NEW d \in Existing PROVE Agrees(d)
  <2>1. Committed(d, {"shipping"}) = {}
    BY <1>2 DEF Committed
  <2>2. Shipments(d) = Before(d)
    BY <1>1, <2>1, ShipmentsKnown, FS_EmptySet
  <2>3. Before(d) = IF docs[d].status \in InMotion THEN 1 ELSE 0
    BY <1>2 DEF Before, InMotion
  <2>4. /\ docs[d].status # "RECEIVED" /\ Proper(docs[d])
        /\ \A i \in DOMAIN docs[d].received : docs[d].received[i] = 0
    BY <1>2, RaisedAssumption, UntouchedAssumption, RaisedProper
  <2>5. /\ \A i \in DOMAIN docs[d].lines : docs[d].received[i] = 0
        /\ ~\A i \in DOMAIN docs[d].lines : docs[d].received[i] = docs[d].lines[i].qty
    <3>1. DOMAIN docs[d].received = DOMAIN docs[d].lines
      BY <2>4 DEF Proper
    <3> QED
      BY <2>4, <3>1, ProperLine
  <2> QED
    BY <2>2, <2>3, <2>4, <2>5 DEF Agrees
<1> QED
  BY <1>1, <1>3 DEF StatusInv

LEMMA OrderlyAgrees ==
  ASSUME StatusInv, Orderly, NEW d \in Existing
  PROVE  Agrees(d) /\ Tallies(d)
<1>1. Neat(d) /\ Tallies(d)
  BY OrderlyTallies DEF StatusInv
<1> QED
  BY <1>1 DEF StatusInv, Orderly

(* "Receiving more than shipped": whatever overlaps, goods arrive only on  *)
(* a transfer that has left, and never more units of a line than its       *)
(* transfer shipped, over all the deliveries of an orderly sequence.       *)
THEOREM TransfersWithin == TransfersSpec => []ArrivedWithinShipped
<1>1. StatusInv => ArrivedWithinShipped
  <2> SUFFICES ASSUME StatusInv, NEW d \in Existing, NEW i \in DOMAIN docs[d].lines
               PROVE  /\ Arrived(d, i) > 0 => Shipments(d) > 0
                      /\ Orderly => Arrived(d, i) <= Shipments(d) * docs[d].lines[i].qty
    BY DEF ArrivedWithinShipped
  <2>0. DocumentsInv /\ TransfersInv
    BY DEF StatusInv, TransfersInv
  <2>1. ASSUME Arrived(d, i) > 0 PROVE Shipments(d) > 0
    <3>1. Committed(d, Deliveries) # {}
      BY <2>0, <2>1, ArrivedKnown, SumEmpty
    <3>2. PICK t \in Tx : pc[t] = "committed" /\ call[t].doc = d /\ phase[t] \in Deliveries
      BY <3>1 DEF Committed
    <3>3. Left(d)
      BY <2>0, <3>2 DEF TransfersInv, DocumentsInv, Handles, Informed, Knows, Receives, InMotion
    <3> QED
      BY <2>0, <3>3, ShipmentsKnown
  <2>2. ASSUME Orderly PROVE Arrived(d, i) <= Shipments(d) * docs[d].lines[i].qty
    <3>1. Agrees(d) /\ Tallies(d)
      BY <2>2, OrderlyAgrees
    <3>2. /\ docs[d].lines[i].qty \in Nat /\ docs[d].received[i] \in Nat
          /\ Arrived(d, i) = docs[d].received[i] /\ Arrived(d, i) <= docs[d].lines[i].qty
      BY <2>0, <3>1, KnownDoc DEF Proper, Tallies
    <3>3. CASE docs[d].status \in InMotion
      <4>1. Shipments(d) = 1
        BY <3>1, <3>3 DEF Agrees
      <4> QED
        BY <3>2, <4>1
    <3>4. CASE docs[d].status \notin InMotion
      <4>1. Shipments(d) = 0 /\ Arrived(d, i) = 0
        BY <3>1, <3>2, <3>4 DEF Agrees
      <4> QED
        BY <3>2, <4>1
    <3> QED
      BY <3>3, <3>4
  <2> QED
    BY <2>1, <2>2
<1> QED
  BY <1>1, StatusInitInv, NextStatusInv, PTL DEF TransfersSpec

(* Of calls in an orderly sequence, status and goods agree: a draft or a   *)
(* cancelled transfer has moved no stock, any other left its source once,  *)
(* and RECEIVED says that every unit has arrived.                          *)
THEOREM TransfersStatus == TransfersSpec => []StatusFollowsGoods
<1>1. StatusInv => StatusFollowsGoods
  <2> SUFFICES ASSUME StatusInv, Orderly, NEW d \in Existing
               PROVE  IF docs[d].status \in {"DRAFT", "CANCELLED"}
                      THEN Shipments(d) = 0 /\ \A i \in DOMAIN docs[d].lines : Arrived(d, i) = 0
                      ELSE /\ Shipments(d) = 1
                           /\ docs[d].status = "RECEIVED" <=>
                                \A i \in DOMAIN docs[d].lines : Arrived(d, i) = docs[d].lines[i].qty
    BY DEF StatusFollowsGoods
  <2>1. Agrees(d) /\ Tallies(d)
    BY OrderlyAgrees
  <2>2. docs[d].status \in TransferStatus
    BY DEF StatusInv, TransfersInv, TransferTypes, TransferType
  <2>3. docs[d].status \in {"DRAFT", "CANCELLED"} <=> docs[d].status \notin InMotion
    BY <2>2 DEF TransferStatus, InMotion
  <2> QED
    BY <2>1, <2>3 DEF Agrees, Tallies
<1> QED
  BY <1>1, StatusInitInv, NextStatusInv, PTL DEF TransfersSpec

-----------------------------------------------------------------------------
(* However shipments and deliveries race, only a write from an outdated    *)
(* read parts a level from the sum of its movements ...                    *)
THEOREM TransfersBooksBalance == TransfersSpec => []BooksBalance
<1>1. TransfersInv => BooksBalance
  BY DEF TransfersInv, DocumentsInv, StockInv
<1> QED
  BY <1>1, TransfersInvariant, PTL

(* ... and such a write takes calls that overlap: goods on their way       *)
(* between stores leave both ledgers and both levels in step.              *)
THEOREM TransfersSerialBooks ==
  TransfersSpec => [](SerialRequestsNeverRace /\ (~overlapped => LevelIsSumOfMovements))
<1>1. StatusInv => SerialRequestsNeverRace
  BY DEF StatusInv, SequentialInv, Sequential, Serial, NothingStale, SerialRequestsNeverRace
<1>2. BooksBalance /\ SerialRequestsNeverRace => (~overlapped => LevelIsSumOfMovements)
  BY DEF BooksBalance, SerialRequestsNeverRace, LevelIsSumOfMovements
<1> QED
  BY <1>1, <1>2, StatusInitInv, NextStatusInv, TransfersBooksBalance, PTL DEF TransfersSpec
=============================================================================
