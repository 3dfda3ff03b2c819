-------------------------- MODULE DocumentsProofs --------------------------
(***************************************************************************)
(* What transfers and purchase orders have in common, for any number of    *)
(* documents, users and overlapping calls.  DocumentStep is what a step of *)
(* either service does to the variables of Documents; each step keeps the  *)
(* invariants below, which TransfersProofs and PurchasesProofs build on.   *)
(***************************************************************************)
EXTENDS Documents, StockProofs, FiniteSetTheorems

Lines == UNION {[S -> Nat] : S \in SUBSET Nat}

Deliveries == {"all", "some", "nothing"}
Receives == {"receiving"} \cup Deliveries

(* A document has lines, each with the count of what was received of it.   *)
Proper(doc) ==
  /\ Len(doc.lines) \in Nat \ {0} /\ DOMAIN doc.lines = 1 .. Len(doc.lines)
  /\ DOMAIN doc.received = DOMAIN doc.lines
  /\ \A i \in DOMAIN doc.lines : /\ doc.received[i] \in Nat
                                 /\ doc.lines[i].qty \in Nat \ {0}
                                 /\ doc.lines[i].into \in Row

DocumentTypes ==
  /\ DOMAIN docs = DocId /\ \A d \in Existing : Proper(docs[d])
  /\ DOMAIN seen = Tx /\ \A t \in Tx : seen[t] # NoDoc => Proper(seen[t])
  /\ call \in [Tx -> CallType \cup {NoDoc}]
  /\ phase \in [Tx -> Phases]
  /\ number \in [Tx -> Nat]
  /\ at \in [Tx -> Nat \ {0}]
  /\ written \in [Tx -> Lines]

Numbered == NumbersGapless /\ IsFiniteSet(Existing)
Finished == {t \in Tx : pc[t] = "committed"}

(* What a call knows of its document: what it read exists and keeps its    *)
(* lines; a number it is about to give is the next one, or has been given  *)
(* since.                                                                  *)
Informed(t) ==
  /\ pc[t] # "committed" => docs[t] = NoDoc
  /\ seen[t] # NoDoc => /\ call[t] # NoDoc /\ call[t].doc \in Existing
                        /\ docs[call[t].doc].lines = seen[t].lines
  /\ phase[t] \in {"raise", "numbered"} => call[t] # NoDoc /\ call[t].draft # NoDoc
  /\ phase[t] = "numbered" => number[t] \in 1 .. Cardinality(Existing) + 1
  /\ phase[t] \in {"shipping"} \cup Receives => seen[t] # NoDoc

(* Only the calls that receive go through lines, and what such a call      *)
(* wrote to a line is what it read and one of its counts.                  *)
Starts(t) ==
  /\ pc[t] = "idle" => phase[t] = "none"
  /\ phase[t] \notin Receives => at[t] = 1 /\ written[t] = NoLines
  /\ pc[t] \notin Open => written[t] = NoLines

WroteLine(t, i) ==
  /\ i \in DOMAIN seen[t].lines
  /\ written[t][i] <= seen[t].lines[i].qty
  /\ \E k \in 1 .. at[t] - 1 :
       /\ call[t].receipt[k].item = i
       /\ written[t][i] = seen[t].received[i] + call[t].receipt[k].qty

Delivers(t) ==
  /\ at[t] <= Len(call[t].receipt) + 1
  /\ phase[t] \in Deliveries => at[t] = Len(call[t].receipt) + 1
  /\ \A k \in 1 .. at[t] - 1 : call[t].receipt[k].item \in DOMAIN seen[t].lines
  /\ \A i \in DOMAIN written[t] : WroteLine(t, i)

Handles(t) == Informed(t) /\ Starts(t) /\ (phase[t] \in Receives => Delivers(t))

DocumentsInv ==
  StockInv /\ DocumentTypes /\ Numbered /\ IsFiniteSet(Finished) /\ \A t \in Tx : Handles(t)

-----------------------------------------------------------------------------
(* The steps of a call on its document.                                    *)
Arrives(t) ==
  \E c \in CallType, first \in {"raise", "ship", "submit", "update", "receive"} :
    OpenCall(t, c, first) /\ (first = "raise" => c.draft # NoDoc)

Aborts(t) == pc[t] \in Open /\ Rollback(t) /\ Forget(t) /\ UNCHANGED docs
Runs(t) == Statement(t) /\ pc'[t] \in Open /\ UNCHANGED docVars

Numbers(t) == In(t, "raise") /\ TakeNumber(t)
Ships(t) ==
  /\ In(t, "ship") /\ seen[t] # NoDoc
  /\ \E steps \in Seq(Step) : Adjusts(steps) /\ Adjusting(t, steps)
  /\ phase' = [phase EXCEPT ![t] = "shipping"]
  /\ UNCHANGED <<docs, call, seen, number, at, written>>
Enters(t) ==
  /\ In(t, "receive") /\ seen[t] # NoDoc
  /\ phase' = [phase EXCEPT ![t] = "receiving"]
  /\ UNCHANGED <<stockVars, docs, call, seen, number, at, written>>
Prepares(t) ==
  Numbers(t) \/ Ships(t) \/ Enters(t) \/ SkipLine(t) \/ TakeLine(t) \/ Refresh(t)

(* A commit files one document: a new one, or one with another status, or  *)
(* one with the lines that were received.                                  *)
Files(d) == DOMAIN docs' = DocId /\ docs'[d] # NoDoc /\ \A e \in DocId \ {d} : docs'[e] = docs[e]
Keeps(d) == docs'[d].number = docs[d].number /\ docs'[d].lines = docs[d].lines

Adds(t) ==
  /\ phase[t] = "numbered" /\ ~NumberTaken(t) /\ Commit(t) /\ Files(t)
  /\ docs'[t].number = number[t] /\ Proper(docs'[t])
  /\ \A i \in DOMAIN docs'[t].lines : docs'[t].received[i] = 0
  /\ UNCHANGED <<call, seen, phase, number, at, written>>
Marks(t) ==
  /\ phase[t] \in {"shipping", "submit", "update"} /\ seen[t] # NoDoc
  /\ Commit(t) /\ Files(call[t].doc) /\ Keeps(call[t].doc)
  /\ docs'[call[t].doc].received = docs[call[t].doc].received
  /\ UNCHANGED <<call, seen, phase, number, at, written>>
Fills(t) ==
  /\ phase[t] \in Deliveries /\ Commit(t) /\ Files(call[t].doc) /\ Keeps(call[t].doc)
  /\ docs'[call[t].doc].received = [i \in DOMAIN docs[call[t].doc].received |-> LineNow(t, i)]
  /\ written' = [written EXCEPT ![t] = NoLines]
  /\ UNCHANGED <<call, seen, phase, number, at>>
Concludes(t) == Adds(t) \/ Marks(t) \/ Fills(t)

DocumentStep(t) == Arrives(t) \/ Aborts(t) \/ Runs(t) \/ Prepares(t) \/ Concludes(t)

-----------------------------------------------------------------------------
LEMMA NoLinesTyped == NoLines \in Lines
<1>1. 1 .. 0 \in SUBSET Nat /\ NoLines \in [1 .. 0 -> Nat]
  BY DEF NoLines
<1> QED
  BY <1>1 DEF Lines

LEMMA StatementEnds ==
  ASSUME StockTypeOK, NEW t \in Tx, Statement(t) \/ Fail(t)
  PROVE  /\ pc'[t] = "aborted" => Rollback(t)
         /\ pc'[t] # "aborted" => Statement(t) /\ pc'[t] \in Open
         /\ pc[t] \in Open
<1> USE DEF StockTypeOK, Open
<1>1. CASE Fail(t) \/ ZeroDelta(t) \/ UpsertConflict(t) \/ Insufficient(t) \/ DeadlockAbort(t)
  <2>1. Rollback(t)
    BY <1>1 DEF Fail, ZeroDelta, UpsertConflict, Insufficient, DeadlockAbort
  <2>2. pc'[t] = "aborted"
    BY <2>1 DEF Rollback
  <2>3. pc[t] \in Open
    BY StatementOwn
  <2> QED
    BY <2>1, <2>2, <2>3
<1>2. CASE UpsertFound(t) \/ UpsertMissing(t) \/ UpsertInsert(t) \/ AdjustWrite(t)
           \/ CountCompare(t) \/ SetReorder(t)
  <2>1. pc'[t] \in Open /\ pc[t] \in Open
    BY <1>2 DEF UpsertFound, UpsertMissing, UpsertInsert, AdjustWrite, CountCompare, SetReorder, Upserting, At
  <2>2. Statement(t)
    BY <1>2 DEF Statement
  <2> QED
    BY <2>1, <2>2
<1> QED
  BY <1>1, <1>2 DEF Statement

(* The statements of adjustStock, and failures, abort or run.              *)
LEMMA DocStepKinds ==
  ASSUME StockTypeOK, NEW t \in Tx, DocStep(t, Statement(t)) \/ DocStep(t, Fail(t))
  PROVE  Aborts(t) \/ Runs(t)
<1>1. /\ pc'[t] = "aborted" => Rollback(t)
      /\ pc'[t] # "aborted" => Statement(t) /\ pc'[t] \in Open
      /\ pc[t] \in Open
  BY StatementEnds DEF DocStep
<1> QED
  BY <1>1 DEF DocStep, Aborts, Runs, docVars

LEMMA ThrowAborts ==
  ASSUME NEW t \in Tx, Throw(t), pc[t] = "read"
  PROVE  Aborts(t)
BY DEF Throw, Aborts, Open

(* A member of a cycle of waits is at a statement.                         *)
LEMMA WaiterOpen ==
  ASSUME NEW t \in Tx, NEW u, WaitsFor(t, u) \/ WaitsForLine(t, u)
  PROVE  pc[t] \in Open
BY DEF WaitsFor, Locking, At, WaitsForLine, TakesLine, Receiving, In, Open

(* The line being received, and the total it gets.                         *)
LEMMA IncomingTypes ==
  ASSUME DocumentTypes, NEW t \in Tx, Receiving(t), AcceptsLine(t), Informed(t)
  PROVE  /\ Incoming(t).item \in Nat \ {0} /\ Incoming(t).qty \in Nat
         /\ Incoming(t).item \in DOMAIN seen[t].lines
         /\ NewTotal(t) \in Nat
         /\ seen[t].lines[Incoming(t).item].into \in Row
<1>1. seen[t] # NoDoc /\ Proper(seen[t]) /\ call[t] \in CallType
  BY DEF DocumentTypes, Receiving, In, Informed, Receives
<1>2. Incoming(t) \in ReceiptLine
  BY <1>1 DEF Incoming, Receiving, DocumentTypes, CallType
<1>3. Incoming(t).item \in DOMAIN seen[t].lines
  BY DEF AcceptsLine
<1> QED
  BY <1>1, <1>2, <1>3 DEF NewTotal, ReceiptLine, Proper

LEMMA ReceiptTypes ==
  ASSUME DocumentTypes, NEW t \in Tx, call[t] # NoDoc
  PROVE  /\ call[t].receipt \in Seq(ReceiptLine) /\ Len(call[t].receipt) \in Nat
         /\ DOMAIN call[t].receipt = 1 .. Len(call[t].receipt)
         /\ \A k \in 1 .. Len(call[t].receipt) :
              call[t].receipt[k].item \in Nat \ {0} /\ call[t].receipt[k].qty \in Nat
<1>1. call[t].receipt \in Seq(ReceiptLine)
  BY DEF DocumentTypes, CallType
<1>2. \A k \in 1 .. Len(call[t].receipt) : call[t].receipt[k] \in ReceiptLine
  BY <1>1
<1> QED
  BY <1>1, <1>2 DEF ReceiptLine

LEMMA KnownDoc ==
  ASSUME DocumentsInv, NEW d \in Existing
  PROVE  d \in DocId /\ docs[d] # NoDoc /\ Proper(docs[d])
BY DEF DocumentsInv, DocumentTypes, Existing

LEMMA KnownSeen ==
  ASSUME DocumentsInv, NEW t \in Tx, seen[t] # NoDoc
  PROVE  /\ Proper(seen[t]) /\ call[t] # NoDoc /\ call[t].doc \in Existing
         /\ docs[call[t].doc].lines = seen[t].lines
BY DEF DocumentsInv, DocumentTypes, Handles, Informed

-----------------------------------------------------------------------------
(* What the others keep while t takes a step.                              *)
Own(t) == <<pc[t], todo[t], posted[t], call[t], seen[t], phase[t], number[t], at[t], written[t]>>

LEMMA OthersKeep ==
  ASSUME StockTypeOK, DocumentTypes, NEW t \in Tx, DocumentStep(t), NEW u \in Tx \ {t}
  PROVE  Own(u)' = Own(u)
<1> USE DEF StockTypeOK, DocumentTypes, Own
<1>1. CASE Arrives(t)
  BY <1>1 DEF Arrives, OpenCall, Begin
<1>2. CASE Aborts(t)
  BY <1>2 DEF Aborts, Rollback, Forget, Release
<1>3. CASE Runs(t)
  <2>1. pc'[u] = pc[u]
    BY <1>3, StatementOwn DEF Runs
  <2>2. posted'[u] = posted[u] /\ todo'[u] = todo[u]
    BY <1>3 DEF Runs, Statement, ZeroDelta, UpsertFound, UpsertMissing, UpsertInsert, UpsertConflict,
       AdjustWrite, Insufficient, CountCompare, SetReorder, DeadlockAbort, Rollback
  <2> QED
    BY <1>3, <2>1, <2>2 DEF Runs, docVars
<1>4. CASE Prepares(t)
  BY <1>4 DEF Prepares, Numbers, TakeNumber, Ships, Adjusting, Enters, SkipLine, TakeLine, Refresh, stockVars
<1>5. CASE Concludes(t)
  BY <1>5 DEF Concludes, Adds, Marks, Fills, Commit
<1> QED
  BY <1>1, <1>2, <1>3, <1>4, <1>5 DEF DocumentStep

(* A step that does not conclude files nothing.                            *)
LEMMA QuietStep ==
  ASSUME StockTypeOK, NEW t \in Tx, Arrives(t) \/ Aborts(t) \/ Runs(t) \/ Prepares(t)
  PROVE  /\ docs' = docs /\ moved' = moved /\ pc[t] # "committed" /\ pc'[t] # "committed"
         /\ pc[t] \in Open \/ Arrives(t)
<1>1. CASE Runs(t)
  <2>1. pc[t] \in Open
    BY <1>1, StatementEnds DEF Runs
  <2>2. moved' = moved
    BY <1>1 DEF Runs, Statement, ZeroDelta, UpsertFound, UpsertMissing, UpsertInsert, UpsertConflict,
       AdjustWrite, Insufficient, CountCompare, SetReorder, DeadlockAbort, Rollback
  <2> QED
    BY <1>1, <2>1, <2>2 DEF Runs, docVars, Open
<1>2. CASE Arrives(t)
  BY <1>2 DEF Arrives, OpenCall, Begin, StockTypeOK
<1>3. CASE Prepares(t)
  BY <1>3 DEF Prepares, Numbers, TakeNumber, Ships, Adjusting, Enters, SkipLine, TakeLine,
     TakesLine, Receiving, Refresh, stockVars, In, Open
<1>4. CASE Aborts(t)
  BY <1>4 DEF Aborts, Rollback, StockTypeOK, Open
<1> QED
  BY <1>1, <1>2, <1>3, <1>4

(* A call that concludes commits, and no document but its own changes.     *)
LEMMA ConcludeStep ==
  ASSUME StockTypeOK, DocumentTypes, NEW t \in Tx, Handles(t), Concludes(t)
  PROVE  /\ Commit(t) /\ pc[t] = "read" /\ pc'[t] = "committed" /\ todo[t] = <<>>
         /\ UNCHANGED <<call, seen, phase, number, at>>
         /\ phase[t] \in {"numbered", "shipping", "submit", "update"} \cup Deliveries
         /\ phase[t] \notin Deliveries => UNCHANGED written
         /\ phase[t] # "numbered" => seen[t] # NoDoc
         /\ written'[t] = NoLines
<1>1. Commit(t) /\ UNCHANGED <<call, seen, phase, number, at>>
  BY DEF Concludes, Adds, Marks, Fills
<1>2. pc[t] = "read" /\ pc'[t] = "committed" /\ todo[t] = <<>>
  BY <1>1 DEF Commit, Done, StockTypeOK
<1>3. /\ phase[t] \in {"numbered", "shipping", "submit", "update"} \cup Deliveries
      /\ phase[t] \notin Deliveries => UNCHANGED written
      /\ phase[t] \in Deliveries => written' = [written EXCEPT ![t] = NoLines]
      /\ phase[t] # "numbered" => seen[t] # NoDoc
  BY DEF Concludes, Adds, Marks, Fills, Deliveries, Handles, Informed, Receives
<1>4. written'[t] = NoLines
  BY <1>3 DEF Handles, Starts, Receives, Deliveries, DocumentTypes
<1> QED
  BY <1>1, <1>2, <1>3, <1>4

(* How the documents change.                                               *)
LEMMA DocChanges ==
  ASSUME DocumentsInv, NEW t \in Tx, DocumentStep(t), NEW d \in Existing'
  PROVE  \/ /\ d \in Existing /\ docs'[d] = docs[d]
            /\ Concludes(t) => phase[t] = "numbered" \/ call[t].doc # d
         \/ /\ d = t /\ d \notin Existing /\ Adds(t)
         \/ /\ d \in Existing /\ call[t].doc = d /\ seen[t] # NoDoc /\ Marks(t)
         \/ /\ d \in Existing /\ call[t].doc = d /\ seen[t] # NoDoc /\ Fills(t)
<1>0. StockTypeOK /\ DocumentTypes /\ Handles(t) /\ Informed(t) /\ t \in DocId
  BY DEF DocumentsInv, StockInv, Handles, DocId
<1>1. CASE Arrives(t) \/ Aborts(t) \/ Runs(t) \/ Prepares(t)
  <2>1. docs' = docs /\ pc'[t] # "committed"
    BY <1>0, <1>1, QuietStep
  <2>2. ~Concludes(t)
    BY <1>0, <2>1, ConcludeStep
  <2> QED
    BY <2>1, <2>2 DEF Existing
<1>2. CASE Adds(t)
  <2>1. pc[t] = "read" /\ phase[t] = "numbered"
    BY <1>2 DEF Adds, Commit, Done
  <2>2. t \notin Existing
    BY <1>0, <2>1 DEF Informed, Existing
  <2> QED
    BY <1>2, <2>1, <2>2 DEF Adds, Files, Existing
<1>3. CASE Marks(t)
  <2>1. seen[t] # NoDoc /\ call[t].doc \in Existing /\ phase[t] # "numbered"
    BY <1>0, <1>3 DEF Marks, Informed
  <2> QED
    BY <1>3, <2>1 DEF Marks, Files, Existing
<1>4. CASE Fills(t)
  <2>1. seen[t] # NoDoc /\ call[t].doc \in Existing /\ phase[t] # "numbered"
    BY <1>0, <1>4 DEF Fills, Informed, Receives, Deliveries
  <2> QED
    BY <1>4, <2>1 DEF Fills, Files, Existing
<1> QED
  BY <1>1, <1>2, <1>3, <1>4 DEF DocumentStep, Concludes

-----------------------------------------------------------------------------
(* Each step keeps the invariant.                                          *)
(* No document disappears, and its lines are never changed.                *)
LEMMA LinesStay ==
  ASSUME DocumentsInv, NEW t \in Tx, DocumentStep(t), NEW d \in Existing
  PROVE  docs'[d].lines = docs[d].lines /\ docs'[d].number = docs[d].number /\ d \in Existing'
<1>0. StockTypeOK /\ Handles(t) /\ Informed(t) /\ d \in DocId /\ docs[d] # NoDoc
  BY DEF DocumentsInv, StockInv, Handles, Existing
<1>1. CASE Arrives(t) \/ Aborts(t) \/ Runs(t) \/ Prepares(t)
  <2>1. docs' = docs
    BY <1>0, <1>1, QuietStep
  <2> QED
    BY <1>0, <2>1 DEF Existing
<1>2. CASE Adds(t)
  <2>1. d # t
    BY <1>0, <1>2 DEF Adds, Commit, Done, Informed
  <2> QED
    BY <1>0, <1>2, <2>1 DEF Adds, Files, Existing
<1>3. CASE Marks(t) \/ Fills(t)
  <2>1. Files(call[t].doc) /\ Keeps(call[t].doc)
    BY <1>3 DEF Marks, Fills
  <2>2. CASE d = call[t].doc
    BY <1>0, <2>1, <2>2 DEF Files, Keeps, Existing
  <2>3. CASE d # call[t].doc
    BY <1>0, <2>1, <2>3 DEF Files, Existing
  <2> QED
    BY <2>2, <2>3
<1> QED
  BY <1>1, <1>2, <1>3 DEF DocumentStep, Concludes

LEMMA StepKeepsStock ==
  ASSUME DocumentsInv, NEW t \in Tx, DocumentStep(t)
  PROVE  StockInv'
<1>0. StockInv /\ DocumentTypes /\ Handles(t)
  BY DEF DocumentsInv
<1>1. CASE Arrives(t)
  <2>1. <<>> \in Seq(Step)
    OBVIOUS
  <2> QED
    BY <1>0, <1>1, <2>1, BeginInv DEF Arrives, OpenCall
<1>2. CASE Aborts(t)
  BY <1>0, <1>2, RollbackInv DEF Aborts
<1>3. CASE Runs(t)
  BY <1>0, <1>3, StatementInv DEF Runs
<1>4. CASE Ships(t)
  BY <1>0, <1>4, AdjustingInv DEF Ships, In
<1>5. CASE TakeLine(t)
  <2> DEFINE adjust == [op |-> "adjust", row |-> seen[t].lines[Incoming(t).item].into,
                        qty |-> Incoming(t).qty]
  <2>1. Receiving(t) /\ AcceptsLine(t) /\ pc[t] = "read" /\ Adjusting(t, <<adjust>>)
    BY <1>5 DEF TakeLine, TakesLine, Receiving, In
  <2>2. adjust \in Step
    BY <1>0, <2>1, IncomingTypes DEF Handles, Step, Op
  <2> HIDE DEF adjust
  <2>3. <<adjust>> \in Seq(Step)
    BY <2>2
  <2> QED
    BY <1>0, <2>1, <2>3, AdjustingInv
<1>6. CASE Numbers(t) \/ Enters(t) \/ SkipLine(t) \/ Refresh(t)
  <2>1. UNCHANGED stockVars
    BY <1>6 DEF Numbers, TakeNumber, Enters, SkipLine, Refresh
  <2> QED
    BY <1>0, <2>1, NextStockInv
<1>7. CASE Concludes(t)
  BY <1>0, <1>7, CommitInv, ConcludeStep DEF StockInv
<1> QED
  BY <1>1, <1>2, <1>3, <1>4, <1>5, <1>6, <1>7 DEF DocumentStep, Prepares

(* What was received of a line, as the delivery that commits leaves it.    *)
LEMMA LineNowTyped ==
  ASSUME DocumentTypes, NEW t \in Tx, Informed(t), seen[t] # NoDoc,
         NEW i \in DOMAIN docs[call[t].doc].received
  PROVE  LineNow(t, i) \in Nat
<1>1. PICK S \in SUBSET Nat : written[t] \in [S -> Nat]
  BY DEF DocumentTypes, Lines
<1>2. Proper(docs[call[t].doc])
  BY DEF DocumentTypes, Informed
<1> QED
  BY <1>1, <1>2 DEF LineNow, Proper

LEMMA StepKeepsTypes ==
  ASSUME DocumentsInv, NEW t \in Tx, DocumentStep(t)
  PROVE  DocumentTypes'
<1>0. /\ StockTypeOK /\ DocumentTypes /\ Handles(t) /\ Informed(t)
      /\ Numbered /\ Cardinality(Existing) + 1 \in Nat
  <2>1. Numbered
    BY DEF DocumentsInv
  <2>2. Cardinality(Existing) + 1 \in Nat
    BY <2>1, FS_CardinalityType DEF Numbered
  <2> QED
    BY <2>1, <2>2 DEF DocumentsInv, StockInv, Handles
<1> USE DEF DocumentTypes
<1>1. CASE Arrives(t)
  <2>1. PICK c \in CallType, first \in {"raise", "ship", "submit", "update", "receive"} : OpenCall(t, c, first)
    BY <1>1 DEF Arrives
  <2>2. /\ call' = [call EXCEPT ![t] = c] /\ phase' = [phase EXCEPT ![t] = first]
        /\ seen' = [seen EXCEPT ![t] = IF c.doc \in DocId THEN docs[c.doc] ELSE NoDoc]
        /\ UNCHANGED <<docs, number, at, written>>
    BY <2>1 DEF OpenCall
  <2>3. first \in Phases
    BY DEF Phases
  <2>4. seen'[t] # NoDoc => Proper(seen'[t])
    BY <1>0, <2>2 DEF Existing
  <2>5. Existing' = Existing
    BY <2>2 DEF Existing
  <2> QED
    BY <1>0, <2>2, <2>3, <2>4, <2>5
<1>2. CASE Aborts(t)
  <2>1. Existing' = Existing
    BY <1>2 DEF Aborts, Existing
  <2>2. "none" \in Phases
    BY DEF Phases
  <2> QED
    BY <1>0, <1>2, <2>1, <2>2, NoLinesTyped DEF Aborts, Forget, Release
<1>3. CASE Runs(t)
  BY <1>0, <1>3 DEF Runs, docVars, Existing
<1>4. CASE Numbers(t) \/ Ships(t) \/ Enters(t) \/ SkipLine(t) \/ Refresh(t)
  <2>1. /\ UNCHANGED <<docs, call, seen, written>> /\ Existing' = Existing
        /\ phase' \in [Tx -> Phases]
    BY <1>0, <1>4 DEF Numbers, TakeNumber, Ships, Enters, SkipLine, Refresh, Phases, Existing
  <2>2. number' \in [Tx -> Nat] /\ at' \in [Tx -> Nat \ {0}]
    BY <1>0, <1>4 DEF Numbers, TakeNumber, Ships, Enters, SkipLine, Refresh
  <2> QED
    BY <1>0, <2>1, <2>2
<1>5. CASE TakeLine(t)
  <2> DEFINE i == Incoming(t).item
             w == [k \in DOMAIN written[t] \cup {i} |->
                     IF k = i THEN NewTotal(t) ELSE written[t][k]]
  <2>1. i \in Nat /\ NewTotal(t) \in Nat
    BY <1>0, <1>5, IncomingTypes DEF TakeLine, TakesLine
  <2>2. w \in Lines
    <3>1. PICK S \in SUBSET Nat : written[t] \in [S -> Nat]
      BY <1>0 DEF Lines
    <3>2. DOMAIN written[t] \cup {i} \in SUBSET Nat
      BY <2>1, <3>1
    <3>3. w \in [DOMAIN written[t] \cup {i} -> Nat]
      BY <2>1, <3>1
    <3> HIDE DEF w, i
    <3> QED
      BY <3>2, <3>3 DEF Lines
  <2>3. /\ written' = [written EXCEPT ![t] = w]
        /\ at' = [at EXCEPT ![t] = @ + 1]
        /\ UNCHANGED <<docs, call, seen, phase, number>> /\ Existing' = Existing
    BY <1>0, <1>5 DEF TakeLine, Existing
  <2> HIDE DEF w, i
  <2> QED
    BY <1>0, <2>2, <2>3
<1>6. CASE Concludes(t)
  <2>1. UNCHANGED <<call, seen, phase, number, at>> /\ written' \in [Tx -> Lines]
    BY <1>0, <1>6, NoLinesTyped DEF Concludes, Adds, Marks, Fills
  <2>2. DOMAIN docs' = DocId
    BY <1>6 DEF Concludes, Adds, Marks, Fills, Files
  <2>3. ASSUME NEW d \in Existing' PROVE Proper(docs'[d])
    <3>1. CASE d \in Existing /\ docs'[d] = docs[d]
      BY <1>0, <3>1
    <3>2. CASE d = t /\ Adds(t)
      BY <3>2 DEF Adds
    <3>3. CASE d \in Existing /\ call[t].doc = d /\ Marks(t)
      BY <1>0, <3>3 DEF Marks, Keeps, Proper
    <3>4. CASE d \in Existing /\ call[t].doc = d /\ seen[t] # NoDoc /\ Fills(t)
      <4>1. \A i \in DOMAIN docs[d].received : LineNow(t, i) \in Nat
        BY <1>0, <3>4, LineNowTyped
      <4> QED
        BY <1>0, <3>4, <4>1 DEF Fills, Keeps, Proper
    <3> QED
      BY <3>1, <3>2, <3>3, <3>4, DocChanges
  <2> QED
    BY <1>0, <2>1, <2>2, <2>3
<1> QED
  BY <1>1, <1>2, <1>3, <1>4, <1>5, <1>6 DEF DocumentStep, Prepares

(* A number counted before and still free is the next one.                 *)
LEMMA StepKeepsNumbers ==
  ASSUME DocumentsInv, NEW t \in Tx, DocumentStep(t)
  PROVE  /\ Numbered' /\ Cardinality(Existing') \in Nat /\ Cardinality(Existing) \in Nat
         /\ Cardinality(Existing) <= Cardinality(Existing')
<1>0. /\ StockTypeOK /\ DocumentTypes /\ Handles(t) /\ Informed(t) /\ t \in DocId
      /\ {docs[e].number : e \in Existing} = 1 .. Cardinality(Existing)
      /\ IsFiniteSet(Existing) /\ Cardinality(Existing) \in Nat
  BY FS_CardinalityType DEF DocumentsInv, StockInv, Handles, Numbered, NumbersGapless, DocId
<1>1. CASE Arrives(t) \/ Aborts(t) \/ Runs(t) \/ Prepares(t)
  <2>1. docs' = docs /\ Existing' = Existing
    BY <1>0, <1>1, QuietStep DEF Existing
  <2> QED
    BY <1>0, <2>1 DEF Numbered, NumbersGapless
<1>2. CASE Marks(t) \/ Fills(t)
  <2>1. PICK d : d = call[t].doc
    OBVIOUS
  <2>2. d \in Existing /\ Files(d) /\ Keeps(d)
    BY <1>0, <1>2, <2>1 DEF Marks, Fills, Informed, Receives, Deliveries
  <2>3. Existing' = Existing
    BY <2>2 DEF Files, Existing
  <2>4. \A e \in Existing : docs'[e].number = docs[e].number
    BY <2>2 DEF Files, Keeps, Existing
  <2>5. {docs'[e].number : e \in Existing'} = 1 .. Cardinality(Existing')
    <3>1. {docs'[e].number : e \in Existing} = {docs[e].number : e \in Existing}
      BY <2>4
    <3> QED
      BY <1>0, <2>3, <3>1
  <2>6. NumbersGapless'
    BY <2>5 DEF NumbersGapless
  <2> QED
    BY <1>0, <2>3, <2>6 DEF Numbered
<1>3. CASE Adds(t)
  <2>1. pc[t] = "read" /\ phase[t] = "numbered" /\ Files(t) /\ docs'[t].number = number[t]
    BY <1>3 DEF Adds, Commit, Done
  <2>2. t \notin Existing
    BY <1>0, <2>1 DEF Informed, Existing
  <2>3. Existing' = Existing \cup {t} /\ \A e \in Existing : docs'[e] = docs[e]
    BY <1>0, <2>1, <2>2 DEF Files, Existing
  <2>4. number[t] = Cardinality(Existing) + 1
    <3>1. number[t] \in 1 .. Cardinality(Existing) + 1
      BY <1>0, <2>1 DEF Informed
    <3>2. number[t] \notin {docs[d].number : d \in Existing}
      BY <1>3 DEF Adds, NumberTaken
    <3> QED
      BY <1>0, <3>1, <3>2
  <2>5. Cardinality(Existing') = Cardinality(Existing) + 1 /\ IsFiniteSet(Existing')
    BY <1>0, <2>2, <2>3, FS_AddElement
  <2>6. {docs'[e].number : e \in Existing'} =
          {docs[e].number : e \in Existing} \cup {Cardinality(Existing) + 1}
    BY <2>1, <2>3, <2>4
  <2>7. (1 .. Cardinality(Existing)) \cup {Cardinality(Existing) + 1} = 1 .. Cardinality(Existing) + 1
    BY <1>0
  <2>8. {docs'[e].number : e \in Existing'} = 1 .. Cardinality(Existing')
    BY <1>0, <2>5, <2>6, <2>7
  <2> QED
    BY <1>0, <2>5, <2>8 DEF Numbered, NumbersGapless
<1> QED
  BY <1>1, <1>2, <1>3 DEF DocumentStep, Concludes

LEMMA FinishedStays ==
  ASSUME DocumentsInv, NEW t \in Tx, DocumentStep(t)
  PROVE  IsFiniteSet(Finished')
<1>1. Finished' \subseteq Finished \cup {t}
  BY OthersKeep DEF Own, Finished, DocumentsInv, StockInv
<1>2. IsFiniteSet(Finished \cup {t})
  BY FS_AddElement DEF DocumentsInv
<1> QED
  BY <1>1, <1>2, FS_Subset

(* A step of t leaves what the others handle.                              *)
LEMMA OthersHandle ==
  ASSUME DocumentsInv, NEW t \in Tx, DocumentStep(t), NEW u \in Tx \ {t}
  PROVE  Handles(u)'
<1>0. StockTypeOK /\ DocumentTypes /\ Handles(u) /\ Handles(t) /\ t \in DocId /\ u \in DocId
  BY DEF DocumentsInv, StockInv, DocId
<1>1. /\ pc'[u] = pc[u] /\ call'[u] = call[u] /\ seen'[u] = seen[u] /\ phase'[u] = phase[u]
      /\ number'[u] = number[u] /\ at'[u] = at[u] /\ written'[u] = written[u]
  BY <1>0, OthersKeep DEF Own
<1>2. pc[u] # "committed" => docs'[u] = NoDoc
  <2>1. CASE u \in Existing'
    BY <1>0, <2>1, DocChanges DEF Handles, Informed, Existing
  <2>2. CASE u \notin Existing'
    BY <1>0, <2>2 DEF Existing
  <2> QED
    BY <2>1, <2>2
<1>3. seen[u] # NoDoc => call[u].doc \in Existing' /\ docs'[call[u].doc].lines = seen[u].lines
  BY <1>0, LinesStay DEF Handles, Informed
<1>4. Informed(u)'
  BY <1>0, <1>1, <1>2, <1>3, StepKeepsNumbers DEF Handles, Informed
<1>5. Starts(u)'
  BY <1>0, <1>1 DEF Handles, Starts
<1>6. Delivers(u) => Delivers(u)'
  BY <1>1 DEF Delivers, WroteLine
<1> QED
  BY <1>0, <1>1, <1>4, <1>5, <1>6 DEF Handles

(* A line that is taken is written to what was read and this count.        *)
LEMMA TakeLineDelivers ==
  ASSUME DocumentsInv, NEW t \in Tx, SkipLine(t) \/ TakeLine(t)
  PROVE  Delivers(t)'
<1> DEFINE i == Incoming(t).item
<1>0. /\ DocumentTypes /\ Informed(t) /\ Handles(t) /\ pc[t] = "read" /\ phase[t] = "receiving"
      /\ Receiving(t) /\ AcceptsLine(t) /\ at[t] <= Len(call[t].receipt)
  BY DEF DocumentsInv, Handles, SkipLine, TakeLine, TakesLine, Receiving, In
<1>1. seen[t] # NoDoc /\ call[t] # NoDoc /\ Delivers(t)
  BY <1>0 DEF Informed, Handles, Receives
<1>2. /\ Len(call[t].receipt) \in Nat /\ at[t] \in Nat \ {0}
  BY <1>0, <1>1, ReceiptTypes DEF DocumentTypes
<1>3. /\ at'[t] = at[t] + 1 /\ UNCHANGED <<docs, call, seen, phase>>
      /\ \/ written'[t] = written[t]
         \/ written'[t] = [k \in DOMAIN written[t] \cup {i} |-> IF k = i THEN NewTotal(t) ELSE written[t][k]]
  BY <1>0 DEF SkipLine, TakeLine, DocumentTypes
<1>4. Incoming(t) = call[t].receipt[at[t]] /\ NewTotal(t) = seen[t].received[i] + call[t].receipt[at[t]].qty
  BY DEF Incoming, NewTotal
<1>5. i \in DOMAIN seen[t].lines /\ NewTotal(t) <= seen[t].lines[i].qty
  BY <1>0 DEF AcceptsLine
<1>7. 1 .. at'[t] - 1 = (1 .. at[t] - 1) \cup {at[t]} /\ at'[t] <= Len(call[t].receipt) + 1
  BY <1>0, <1>2, <1>3
<1>8. \A k \in 1 .. at'[t] - 1 : call[t].receipt[k].item \in DOMAIN seen[t].lines
  BY <1>1, <1>4, <1>5, <1>7 DEF Delivers
<1>9. ASSUME NEW j \in DOMAIN written'[t] PROVE WroteLine(t, j)'
  <2>1. CASE j = i /\ written'[t][j] = NewTotal(t)
    BY <1>3, <1>4, <1>5, <1>7, <2>1 DEF WroteLine
  <2>2. CASE j \in DOMAIN written[t] /\ written'[t][j] = written[t][j]
    <3>1. WroteLine(t, j)
      BY <1>1, <2>2 DEF Delivers
    <3> QED
      BY <1>3, <1>7, <2>2, <3>1 DEF WroteLine
  <2> QED
    BY <1>3, <1>9, <2>1, <2>2
<1> HIDE DEF i
<1> QED
  BY <1>0, <1>3, <1>7, <1>8, <1>9 DEF Delivers, Deliveries

LEMMA PrepareHandles ==
  ASSUME DocumentsInv, NEW t \in Tx, Prepares(t)
  PROVE  Handles(t)'
<1>0. /\ StockTypeOK /\ DocumentTypes /\ Informed(t) /\ Handles(t) /\ Starts(t)
      /\ Cardinality(Existing) \in Nat
  BY FS_CardinalityType DEF DocumentsInv, StockInv, Handles, Numbered
<1>1. /\ pc[t] = "read" /\ UNCHANGED <<docs, call, seen, pc>> /\ Existing' = Existing
  BY DEF Prepares, Numbers, TakeNumber, Ships, Adjusting, Enters, SkipLine, TakeLine,
     TakesLine, Receiving, Refresh, stockVars, In, Existing
<1>2. CASE Numbers(t) \/ Ships(t)
  <2>1. /\ phase[t] \in {"raise", "ship"} /\ UNCHANGED <<at, written>>
        /\ \/ /\ phase'[t] = "numbered" /\ number'[t] = Cardinality(Existing) + 1
              /\ phase[t] = "raise"
           \/ phase'[t] = "shipping" /\ seen[t] # NoDoc
    BY <1>0, <1>2 DEF Numbers, Ships, In, TakeNumber, DocumentTypes
  <2>2. Cardinality(Existing) + 1 \in 1 .. Cardinality(Existing) + 1
    BY <1>0
  <2>3. Informed(t)'
    BY <1>0, <1>1, <2>1, <2>2 DEF Informed, Receives, Deliveries
  <2>4. Starts(t)' /\ phase'[t] \notin Receives
    BY <1>0, <1>1, <2>1 DEF Starts, Receives, Deliveries
  <2> QED
    BY <2>3, <2>4 DEF Handles
<1>3. CASE Enters(t)
  <2>1. /\ phase[t] = "receive" /\ phase'[t] = "receiving" /\ UNCHANGED <<number, at, written>>
        /\ call[t] # NoDoc /\ seen[t] # NoDoc
    BY <1>0, <1>3 DEF Enters, In, DocumentTypes, Informed
  <2>2. at[t] = 1 /\ written[t] = NoLines
    BY <1>0, <2>1 DEF Starts, Receives, Deliveries
  <2>3. Len(call[t].receipt) \in Nat
    BY <1>0, <2>1, ReceiptTypes
  <2>4. 1 .. at[t] - 1 = {} /\ DOMAIN NoLines = {}
    BY <2>2 DEF NoLines
  <2>5. Delivers(t)'
    BY <1>1, <2>1, <2>2, <2>3, <2>4 DEF Delivers, Deliveries
  <2>6. Informed(t)' /\ Starts(t)'
    BY <1>0, <1>1, <2>1 DEF Informed, Starts, Receives, Deliveries, Open
  <2> QED
    BY <2>5, <2>6 DEF Handles
<1>4. CASE SkipLine(t) \/ TakeLine(t)
  <2>1. phase[t] = "receiving" /\ UNCHANGED <<phase, number>>
    BY <1>4 DEF SkipLine, TakeLine, TakesLine, Receiving, In
  <2>2. Informed(t)' /\ Starts(t)'
    BY <1>0, <1>1, <2>1 DEF Informed, Starts, Receives, Deliveries, Open
  <2> QED
    BY <1>4, <2>2, TakeLineDelivers DEF Handles
<1>5. CASE Refresh(t)
  <2>1. /\ phase[t] = "receiving" /\ phase'[t] \in Deliveries /\ UNCHANGED <<number, at, written>>
        /\ at[t] > Len(call[t].receipt) /\ call[t] # NoDoc
    BY <1>0, <1>5 DEF Refresh, In, DocumentTypes, Informed, Deliveries, Receives
  <2>2. Len(call[t].receipt) \in Nat /\ at[t] \in Nat \ {0}
    BY <1>0, <2>1, ReceiptTypes DEF DocumentTypes
  <2>3. Delivers(t)
    BY <1>0, <2>1 DEF Handles, Receives
  <2>4. \A i \in DOMAIN written[t] : WroteLine(t, i)'
    BY <1>1, <2>1, <2>3 DEF Delivers, WroteLine
  <2>5. Delivers(t)'
    BY <1>1, <2>1, <2>2, <2>3, <2>4 DEF Delivers
  <2>6. Informed(t)' /\ Starts(t)'
    BY <1>0, <1>1, <2>1 DEF Informed, Starts, Receives, Deliveries, Open
  <2> QED
    BY <2>5, <2>6 DEF Handles
<1> QED
  BY <1>2, <1>3, <1>4, <1>5 DEF Prepares

LEMMA StepHandles ==
  ASSUME DocumentsInv, NEW t \in Tx, DocumentStep(t)
  PROVE  Handles(t)'
<1>0. StockTypeOK /\ DocumentTypes /\ Informed(t) /\ Handles(t) /\ Starts(t) /\ t \in DocId
  BY DEF DocumentsInv, StockInv, Handles, DocId
<1>1. CASE Arrives(t)
  <2>1. PICK c \in CallType, first \in {"raise", "ship", "submit", "update", "receive"} :
          OpenCall(t, c, first) /\ (first = "raise" => c.draft # NoDoc)
    BY <1>1 DEF Arrives
  <2>2. /\ pc[t] = "idle" /\ pc'[t] = "read" /\ call'[t] = c /\ phase'[t] = first
        /\ seen'[t] = (IF c.doc \in DocId THEN docs[c.doc] ELSE NoDoc)
        /\ UNCHANGED <<docs, at, written>> /\ Existing' = Existing
    BY <1>0, <2>1 DEF OpenCall, Begin, StockTypeOK, DocumentTypes, Existing
  <2>3. at[t] = 1 /\ written[t] = NoLines
    BY <1>0, <2>2 DEF Starts, Receives, Deliveries
  <2>4. c # NoDoc
    BY DocAssumption
  <2>5. docs[t] = NoDoc
    BY <1>0, <2>2 DEF Informed
  <2>6. Informed(t)'
    BY <2>1, <2>2, <2>4, <2>5 DEF Informed, Existing, Receives, Deliveries
  <2> QED
    BY <2>2, <2>3, <2>6 DEF Handles, Starts, Receives, Deliveries
<1>2. CASE Aborts(t)
  <2>1. /\ pc'[t] = "aborted" /\ seen'[t] = NoDoc /\ phase'[t] = "none" /\ at'[t] = 1
        /\ written'[t] = NoLines /\ UNCHANGED docs /\ pc[t] # "committed"
    BY <1>0, <1>2 DEF Aborts, Rollback, Forget, Release, StockTypeOK, DocumentTypes, Open
  <2> QED
    BY <1>0, <2>1 DEF Handles, Informed, Starts, Receives, Deliveries
<1>3. CASE Runs(t)
  <2>1. UNCHANGED <<docs, call, seen, phase, number, at, written>> /\ pc'[t] \in Open /\ pc[t] \in Open
    BY <1>0, <1>3, StatementEnds DEF Runs, docVars
  <2>2. Existing' = Existing /\ pc'[t] # "idle" /\ pc'[t] # "committed" /\ pc[t] # "committed"
    BY <2>1 DEF Existing, Open
  <2>3. Delivers(t) => Delivers(t)'
    BY <2>1 DEF Delivers, WroteLine
  <2> QED
    BY <1>0, <2>1, <2>2, <2>3 DEF Handles, Informed, Starts
<1>4. CASE Prepares(t)
  BY <1>4, PrepareHandles
<1>5. CASE Concludes(t)
  <2>1. /\ pc'[t] = "committed" /\ UNCHANGED <<call, seen, phase, number, at>> /\ written'[t] = NoLines
    BY <1>0, <1>5, ConcludeStep
  <2>2. seen[t] # NoDoc => call[t].doc \in Existing' /\ docs'[call[t].doc].lines = seen[t].lines
    BY <1>0, LinesStay DEF Informed
  <2>3. Informed(t)'
    BY <1>0, <2>1, <2>2, StepKeepsNumbers DEF Informed
  <2>4. DOMAIN written'[t] = {}
    BY <2>1 DEF NoLines
  <2>5. Delivers(t) => Delivers(t)'
    BY <2>1, <2>4 DEF Delivers
  <2> QED
    BY <1>0, <2>1, <2>3, <2>5 DEF Handles, Starts, Open
<1> QED
  BY <1>1, <1>2, <1>3, <1>4, <1>5 DEF DocumentStep

LEMMA StepDocuments ==
  ASSUME DocumentsInv, NEW t \in Tx, DocumentStep(t)
  PROVE  DocumentsInv'
BY StepKeepsStock, StepKeepsTypes, StepKeepsNumbers, FinishedStays, OthersHandle, StepHandles
   DEF DocumentsInv

LEMMA StutterDocuments ==
  ASSUME DocumentsInv, UNCHANGED documentsVars
  PROVE  DocumentsInv'
<1>1. UNCHANGED stockVars /\ UNCHANGED <<docs, call, seen, phase, number, at, written, pc>>
  BY DEF documentsVars, stockVars, docVars
<1>2. StockInv'
  BY <1>1, NextStockInv DEF DocumentsInv
<1>3. DocumentTypes' /\ Numbered' /\ Finished' = Finished
  BY <1>1 DEF DocumentsInv, DocumentTypes, Numbered, NumbersGapless, Existing, Finished
<1>4. ASSUME NEW t \in Tx PROVE Handles(t)'
  <2>1. Delivers(t) => Delivers(t)'
    BY <1>1 DEF Delivers, WroteLine
  <2> QED
    BY <1>1, <2>1 DEF DocumentsInv, Handles, Informed, Existing, Starts
<1> QED
  BY <1>2, <1>3, <1>4 DEF DocumentsInv

LEMMA DocumentsInitInv ==
  ASSUME DocumentsInit, \A d \in Earlier : Proper(Raised[d])
  PROVE  DocumentsInv
<1> USE DEF DocumentsInit
<1>1. StockInv
  BY StockInitInv
<1>2. Existing = Earlier /\ \A d \in Earlier : docs[d] = Raised[d]
  BY DocAssumption DEF Existing, DocId
<1>3. DocumentTypes
  <2>1. phase \in [Tx -> Phases] /\ number \in [Tx -> Nat] /\ at \in [Tx -> Nat \ {0}]
    BY DEF Phases
  <2> QED
    BY <1>2, <2>1, NoLinesTyped DEF DocumentTypes
<1>4. Numbered
  BY <1>2, EarlierAssumption DEF Numbered, NumbersGapless
<1>5. \A t \in Tx : Handles(t)
  <2>1. \A t \in Tx : docs[t] = NoDoc
    BY DocAssumption DEF DocId
  <2> QED
    BY <2>1 DEF StockInit, Handles, Informed, Starts, Receives, Deliveries
<1>6. Finished = {} /\ IsFiniteSet({})
  BY FS_EmptySet DEF StockInit, Finished
<1> QED
  BY <1>1, <1>3, <1>4, <1>5, <1>6 DEF DocumentsInv

-----------------------------------------------------------------------------
(* The deliveries of a document, and what arrived with them.               *)
LEMMA CommittedSets ==
  ASSUME DocumentsInv, NEW t \in Tx, DocumentStep(t), NEW d, NEW P
  PROVE  /\ Concludes(t) /\ call[t].doc = d /\ phase[t] \in P
              => Committed(d, P)' = Committed(d, P) \cup {t} /\ t \notin Committed(d, P)
         /\ ~(Concludes(t) /\ call[t].doc = d /\ phase[t] \in P) => Committed(d, P)' = Committed(d, P)
         /\ \A u \in Committed(d, P)' : call'[u] = call[u] /\ phase'[u] = phase[u]
<1>0. StockTypeOK /\ DocumentTypes /\ Handles(t)
  BY DEF DocumentsInv, StockInv
<1>1. \A u \in Tx \ {t} : pc'[u] = pc[u] /\ call'[u] = call[u] /\ phase'[u] = phase[u]
  BY <1>0, OthersKeep DEF Own
<1>2. CASE Concludes(t)
  <2>1. pc[t] = "read" /\ pc'[t] = "committed" /\ call' = call /\ phase' = phase
    BY <1>0, <1>2, ConcludeStep DEF Commit, StockTypeOK
  <2> QED
    BY <1>1, <1>2, <2>1 DEF Committed
<1>3. CASE ~Concludes(t)
  <2>1. pc[t] # "committed" /\ pc'[t] # "committed"
    BY <1>0, <1>3, QuietStep DEF DocumentStep
  <2> QED
    BY <1>1, <1>3, <2>1 DEF Committed
<1> QED
  BY <1>2, <1>3

LEMMA ArrivedInNat ==
  ASSUME NEW receipt \in Seq(ReceiptLine), NEW i
  PROVE  /\ ArrivedIn(receipt, i) \in Nat
         /\ \A k \in DOMAIN receipt : receipt[k].item = i => receipt[k].qty <= ArrivedIn(receipt, i)
<1> DEFINE f == [k \in DOMAIN receipt |-> receipt[k].qty]
           T == {k \in DOMAIN receipt : receipt[k].item = i}
<1>1. Len(receipt) \in Nat /\ DOMAIN receipt = 1 .. Len(receipt)
      /\ \A k \in DOMAIN receipt : receipt[k].qty \in Nat
  <2>1. \A k \in DOMAIN receipt : receipt[k] \in ReceiptLine
    OBVIOUS
  <2> QED
    BY <2>1 DEF ReceiptLine
<1>2. IsFiniteSet(DOMAIN receipt)
  BY <1>1, FS_Interval
<1>3. IsFiniteSet(T) /\ NatValued(f, T)
  BY <1>1, <1>2, FS_Subset DEF NatValued
<1>4. ArrivedIn(receipt, i) = SumFunctionOnSet(f, T)
  BY DEF ArrivedIn
<1>5. \A k \in T : f[k] = receipt[k].qty
  OBVIOUS
<1> HIDE DEF f
<1>6. ASSUME NEW k \in T PROVE f[k] <= SumFunctionOnSet(f, T)
  BY <1>3, SumAtLeast
<1> QED
  BY <1>3, <1>4, <1>5, <1>6, SumNat

CountOf(d, i) == [t \in Committed(d, Deliveries) |-> ArrivedIn(call[t].receipt, i)]

LEMMA ArrivedKnown ==
  ASSUME DocumentsInv, NEW d, NEW i
  PROVE  /\ Arrived(d, i) = SumFunctionOnSet(CountOf(d, i), Committed(d, Deliveries))
         /\ IsFiniteSet(Committed(d, Deliveries)) /\ NatValued(CountOf(d, i), Committed(d, Deliveries))
         /\ Arrived(d, i) \in Nat
<1>1. Committed(d, Deliveries) \subseteq Finished
  BY DEF Committed, Finished
<1>2. IsFiniteSet(Committed(d, Deliveries))
  BY <1>1, FS_Subset DEF DocumentsInv
<1>3. \A t \in Committed(d, Deliveries) : call[t].receipt \in Seq(ReceiptLine)
  <2> SUFFICES ASSUME NEW t \in Committed(d, Deliveries) PROVE call[t].receipt \in Seq(ReceiptLine)
    OBVIOUS
  <2>1. t \in Tx /\ call[t] # NoDoc /\ DocumentTypes
    BY DEF Committed, DocumentsInv, Handles, Informed, Receives, Deliveries
  <2> QED
    BY <2>1, ReceiptTypes
<1>4. NatValued(CountOf(d, i), Committed(d, Deliveries))
  BY <1>3, ArrivedInNat DEF NatValued, CountOf
<1>5. Arrived(d, i) = SumFunctionOnSet(CountOf(d, i), Committed(d, Deliveries))
  BY DEF Arrived, CountOf, Deliveries
<1> QED
  BY <1>2, <1>4, <1>5, SumNat

(* Only the commit of a delivery of d adds to what arrived of it.          *)
LEMMA ArrivedStays ==
  ASSUME DocumentsInv, NEW t \in Tx, DocumentStep(t), NEW d, NEW i,
         ~(Concludes(t) /\ call[t].doc = d /\ phase[t] \in Deliveries)
  PROVE  Arrived(d, i)' = Arrived(d, i)
<1>1. Committed(d, Deliveries)' = Committed(d, Deliveries)
      /\ \A u \in Committed(d, Deliveries)' : call'[u] = call[u]
  BY CommittedSets DEF DocumentsInv
<1> DEFINE g == [u \in Committed(d, Deliveries)' |-> ArrivedIn(call'[u].receipt, i)]
<1>2. Arrived(d, i)' = SumFunctionOnSet(g, Committed(d, Deliveries)')
  BY DEF Arrived, Deliveries
<1>3. \A u \in Committed(d, Deliveries) : CountOf(d, i)[u] = g[u]
  BY <1>1 DEF CountOf
<1>4. IntValued(CountOf(d, i), Committed(d, Deliveries))
  BY ArrivedKnown DEF IntValued, NatValued
<1> HIDE DEF g
<1> QED
  BY <1>1, <1>2, <1>3, <1>4, ArrivedKnown, SumSame

LEMMA ArrivedGrows ==
  ASSUME DocumentsInv, NEW t \in Tx, DocumentStep(t), NEW d, NEW i,
         Concludes(t), call[t].doc = d, phase[t] \in Deliveries
  PROVE  Arrived(d, i)' = Arrived(d, i) + ArrivedIn(call[t].receipt, i)
<1>1. /\ Committed(d, Deliveries)' = Committed(d, Deliveries) \cup {t} /\ t \notin Committed(d, Deliveries)
      /\ \A u \in Committed(d, Deliveries) \cup {t} : call'[u] = call[u]
  BY CommittedSets DEF DocumentsInv
<1>0. call' = call
  BY ConcludeStep DEF DocumentsInv, StockInv
<1> DEFINE g == [u \in Committed(d, Deliveries) \cup {t} |-> ArrivedIn(call[u].receipt, i)]
<1>2. Arrived(d, i)' = SumFunctionOnSet(g, Committed(d, Deliveries) \cup {t})
  BY <1>0, <1>1 DEF Arrived, Deliveries
<1>3. \A u \in Committed(d, Deliveries) : g[u] = CountOf(d, i)[u]
  BY <1>1 DEF CountOf
<1>4. g[t] = ArrivedIn(call[t].receipt, i) /\ g[t] \in Int
  <2>1. call[t] # NoDoc /\ DocumentTypes
    BY DEF DocumentsInv, Handles, Informed, Receives, Deliveries
  <2> QED
    BY <2>1, ReceiptTypes, ArrivedInNat
<1>5. IntValued(CountOf(d, i), Committed(d, Deliveries)) /\ IsFiniteSet(Committed(d, Deliveries))
      /\ Arrived(d, i) = SumFunctionOnSet(CountOf(d, i), Committed(d, Deliveries))
  BY ArrivedKnown DEF IntValued, NatValued
<1> HIDE DEF g
<1>6. SumFunctionOnSet(g, Committed(d, Deliveries) \cup {t})
        = SumFunctionOnSet(CountOf(d, i), Committed(d, Deliveries)) + g[t]
  BY ONLY <1>1, <1>3, <1>4, <1>5, SumGrow
<1> QED
  BY <1>2, <1>4, <1>5, <1>6

LEMMA ArrivedOnlyGrows ==
  ASSUME DocumentsInv, NEW t \in Tx, DocumentStep(t), NEW d, NEW i
  PROVE  Arrived(d, i) <= Arrived(d, i)' /\ Arrived(d, i) \in Nat /\ Arrived(d, i)' \in Nat
<1>1. Arrived(d, i) \in Nat
  BY ArrivedKnown
<1>2. CASE Concludes(t) /\ call[t].doc = d /\ phase[t] \in Deliveries
  <2>1. call[t] # NoDoc /\ DocumentTypes
    BY <1>2 DEF DocumentsInv, Handles, Informed, Receives, Deliveries
  <2>2. ArrivedIn(call[t].receipt, i) \in Nat
    BY <2>1, ReceiptTypes, ArrivedInNat
  <2> QED
    BY <1>1, <1>2, <2>2, ArrivedGrows
<1>3. CASE ~(Concludes(t) /\ call[t].doc = d /\ phase[t] \in Deliveries)
  BY <1>1, <1>3, ArrivedStays
<1> QED
  BY <1>2, <1>3

-----------------------------------------------------------------------------
(* Whatever overlaps, a document and what a call remembers of it show no   *)
(* more of a line than has arrived.                                        *)
Counted(d) == \A i \in DOMAIN docs[d].lines : docs[d].received[i] <= Arrived(d, i)
Remembered(t) ==
  pc[t] \in Open /\ seen[t] # NoDoc =>
    \A i \in DOMAIN seen[t].lines : seen[t].received[i] <= Arrived(call[t].doc, i)
CountedInv ==
  /\ DocumentsInv
  /\ \A d \in Existing : Counted(d)
  /\ \A t \in Tx : Remembered(t)

(* A call knows what it knew, or has just read the document it names.      *)
LEMMA Remembering ==
  ASSUME DocumentsInv, NEW t \in Tx, DocumentStep(t), NEW u \in Tx,
         pc'[u] \in Open, seen'[u] # NoDoc
  PROVE  \/ seen'[u] = seen[u] /\ call'[u] = call[u] /\ pc[u] \in Open
         \/ /\ u = t /\ call'[u].doc \in Existing /\ seen'[u] = docs[call'[u].doc]
            /\ docs' = docs /\ pc[t] = "idle" /\ Begin(t, <<>>)
<1>0. StockTypeOK /\ DocumentTypes /\ Handles(t)
  BY DEF DocumentsInv, StockInv
<1>1. CASE u # t
  BY <1>0, <1>1, OthersKeep DEF Own
<1>2. CASE u = t /\ Arrives(t)
  <2>1. PICK c \in CallType, first \in {"raise", "ship", "submit", "update", "receive"} : OpenCall(t, c, first)
    BY <1>2 DEF Arrives
  <2> QED
    BY <1>0, <1>2, <2>1 DEF OpenCall, Begin, DocumentTypes, Existing
<1>3. CASE u = t /\ (Runs(t) \/ Prepares(t))
  <2>1. CASE Runs(t)
    BY <1>0, <1>3, <2>1, StatementEnds DEF Runs, docVars
  <2>2. CASE Prepares(t)
    <3>1. pc[t] = "read" /\ seen' = seen /\ call' = call
      BY <2>2 DEF Prepares, Numbers, TakeNumber, Ships, Adjusting, Enters, SkipLine, TakeLine,
         TakesLine, Receiving, Refresh, In
    <3> QED
      BY <1>3, <3>1 DEF Open
  <2> QED
    BY <1>3, <2>1, <2>2
<1>4. CASE u = t /\ Aborts(t)
  BY <1>0, <1>4 DEF Aborts, Rollback, Open, StockTypeOK
<1>5. CASE u = t /\ Concludes(t)
  BY <1>0, <1>5, ConcludeStep DEF Open
<1> QED
  BY <1>1, <1>2, <1>3, <1>4, <1>5 DEF DocumentStep

(* What a delivery leaves of a line: what it was, or what was read and one *)
(* of the counts of this delivery.                                         *)
LEMMA LineNowCounted ==
  ASSUME CountedInv, NEW t \in Tx, Fills(t), seen[t] # NoDoc, pc[t] \in Open,
         NEW i \in DOMAIN docs[call[t].doc].lines
  PROVE  LineNow(t, i) <= Arrived(call[t].doc, i) + ArrivedIn(call[t].receipt, i)
<1> DEFINE d == call[t].doc
<1>0. /\ DocumentsInv /\ DocumentTypes /\ Handles(t) /\ Informed(t) /\ call[t] # NoDoc
      /\ d \in Existing /\ phase[t] \in Deliveries /\ Proper(docs[d]) /\ Proper(seen[t])
      /\ docs[d].lines = seen[t].lines
  BY KnownSeen, KnownDoc DEF CountedInv, DocumentsInv, Handles, Fills
<1>1. ArrivedIn(call[t].receipt, i) \in Nat /\ Arrived(d, i) \in Nat
  BY <1>0, ReceiptTypes, ArrivedInNat, ArrivedKnown
<1>2. CASE i \notin DOMAIN written[t]
  <2>1. LineNow(t, i) = docs[d].received[i]
    BY <1>2 DEF LineNow
  <2>2. docs[d].received[i] \in Nat /\ docs[d].received[i] <= Arrived(d, i)
    BY <1>0 DEF CountedInv, Counted, Proper
  <2> QED
    BY <1>1, <2>1, <2>2
<1>3. CASE i \in DOMAIN written[t]
  <2>1. LineNow(t, i) = written[t][i] /\ WroteLine(t, i)
    BY <1>0, <1>3 DEF LineNow, Handles, Receives, Delivers
  <2>2. PICK k \in 1 .. at[t] - 1 : /\ call[t].receipt[k].item = i
                                    /\ written[t][i] = seen[t].received[i] + call[t].receipt[k].qty
    BY <2>1 DEF WroteLine
  <2>3. /\ at[t] = Len(call[t].receipt) + 1 /\ call[t].receipt \in Seq(ReceiptLine)
        /\ DOMAIN call[t].receipt = 1 .. Len(call[t].receipt) /\ Len(call[t].receipt) \in Nat
    BY <1>0, ReceiptTypes DEF Handles, Receives, Delivers
  <2>4. k \in DOMAIN call[t].receipt /\ call[t].receipt[k].qty \in Nat
    BY <1>0, <2>3, ReceiptTypes
  <2>5. call[t].receipt[k].qty <= ArrivedIn(call[t].receipt, i)
    BY <2>2, <2>3, <2>4, ArrivedInNat
  <2>6. seen[t].received[i] <= Arrived(d, i) /\ seen[t].received[i] \in Nat
    BY <1>0 DEF CountedInv, Remembered, Proper
  <2> QED
    BY <1>1, <2>1, <2>2, <2>4, <2>5, <2>6
<1> QED
  BY <1>2, <1>3

LEMMA StepCounted ==
  ASSUME CountedInv, NEW t \in Tx, DocumentStep(t)
  PROVE  CountedInv'
<1>0. StockTypeOK /\ DocumentTypes /\ Handles(t) /\ DocumentsInv
  BY DEF CountedInv, DocumentsInv, StockInv
<1>1. ASSUME NEW d \in Existing' PROVE Counted(d)'
  <2> SUFFICES ASSUME NEW i \in DOMAIN docs'[d].lines PROVE docs'[d].received[i] <= Arrived(d, i)'
    BY DEF Counted
  <2>0. Arrived(d, i) <= Arrived(d, i)' /\ Arrived(d, i) \in Nat /\ Arrived(d, i)' \in Nat
    BY <1>0, ArrivedOnlyGrows
  <2>1. CASE d \in Existing /\ docs'[d].lines = docs[d].lines /\ docs'[d].received = docs[d].received
    <3>1. docs[d].received[i] \in Nat /\ docs[d].received[i] <= Arrived(d, i)
      BY <1>0, <2>1, KnownDoc DEF CountedInv, Counted, Proper
    <3> QED
      BY <2>0, <2>1, <3>1
  <2>2. CASE d = t /\ Adds(t)
    BY <2>0, <2>2 DEF Adds
  <2>3. CASE d \in Existing /\ call[t].doc = d /\ seen[t] # NoDoc /\ Fills(t)
    <3>1. docs'[d].received[i] = LineNow(t, i) /\ i \in DOMAIN docs[d].lines
      BY <1>0, <2>3, KnownDoc DEF Fills, Keeps, Proper
    <3>2. Concludes(t) /\ phase[t] \in Deliveries /\ pc[t] \in Open
      BY <1>0, <2>3, ConcludeStep DEF Concludes, Fills, Open
    <3>3. LineNow(t, i) <= Arrived(d, i) + ArrivedIn(call[t].receipt, i)
      BY <2>3, <3>1, <3>2, LineNowCounted
    <3>4. Arrived(d, i)' = Arrived(d, i) + ArrivedIn(call[t].receipt, i)
      BY <1>0, <2>3, <3>2, ArrivedGrows
    <3> QED
      BY <3>1, <3>3, <3>4
  <2>4. CASE d \in Existing /\ call[t].doc = d /\ seen[t] # NoDoc /\ Marks(t)
    BY <2>1, <2>4 DEF Marks, Keeps
  <2> QED
    BY <1>0, <2>1, <2>2, <2>3, <2>4, DocChanges
<1>2. ASSUME NEW u \in Tx PROVE Remembered(u)'
  <2> SUFFICES ASSUME pc'[u] \in Open, seen'[u] # NoDoc, NEW i \in DOMAIN seen'[u].lines,
                      NEW d, d = call'[u].doc
               PROVE  seen'[u].received[i] <= Arrived(d, i)'
    BY DEF Remembered
  <2>0. Arrived(d, i) <= Arrived(d, i)' /\ Arrived(d, i) \in Nat /\ Arrived(d, i)' \in Nat
    BY <1>0, ArrivedOnlyGrows
  <2>1. CASE seen'[u] = seen[u] /\ call'[u] = call[u] /\ pc[u] \in Open
    <3>1. seen[u].received[i] <= Arrived(d, i) /\ seen[u].received[i] \in Nat
      BY <1>0, <2>1, KnownSeen DEF CountedInv, Remembered, Proper
    <3> QED
      BY <2>0, <2>1, <3>1
  <2>2. CASE d \in Existing /\ seen'[u] = docs[d]
    <3>1. docs[d].received[i] <= Arrived(d, i) /\ docs[d].received[i] \in Nat
      BY <1>0, <2>2, KnownDoc DEF CountedInv, Counted, Proper
    <3> QED
      BY <2>0, <2>2, <3>1
  <2> QED
    BY <1>0, <2>1, <2>2, Remembering
<1> QED
  BY <1>0, <1>1, <1>2, StepDocuments DEF CountedInv

LEMMA StutterCounted ==
  ASSUME CountedInv, UNCHANGED documentsVars
  PROVE  CountedInv'
<1>1. UNCHANGED <<pc, docs, call, seen, phase>> /\ Existing' = Existing
  BY DEF documentsVars, stockVars, docVars, Existing
<1>2. ASSUME NEW d, NEW i PROVE Arrived(d, i)' = Arrived(d, i)
  BY <1>1 DEF Arrived, Committed
<1>3. \A d \in Existing : Counted(d)'
  BY <1>1, <1>2 DEF CountedInv, Counted
<1>4. ASSUME NEW u \in Tx PROVE Remembered(u)'
  <2> SUFFICES ASSUME pc'[u] \in Open, seen'[u] # NoDoc, NEW i \in DOMAIN seen'[u].lines,
                      NEW d, d = call'[u].doc
               PROVE  seen'[u].received[i] <= Arrived(d, i)'
    BY DEF Remembered
  <2> QED
    BY <1>1, <1>2 DEF CountedInv, Remembered
<1> QED
  BY <1>1, <1>3, <1>4, StutterDocuments DEF CountedInv

LEMMA CountedInitInv ==
  ASSUME DocumentsInit, \A d \in Earlier : Proper(Raised[d])
  PROVE  CountedInv
<1>1. DocumentsInv
  BY DocumentsInitInv
<1>2. Existing = Earlier /\ \A d \in Earlier : docs[d] = Raised[d]
  BY DocAssumption DEF DocumentsInit, Existing, DocId
<1>3. ASSUME NEW d \in Existing PROVE Counted(d)
  <2>1. \A i \in DOMAIN docs[d].lines : docs[d].received[i] = 0 /\ Arrived(d, i) \in Nat
    BY <1>1, <1>2, UntouchedAssumption, ArrivedKnown DEF Proper
  <2> QED
    BY <2>1 DEF Counted
<1>4. \A t \in Tx : Remembered(t)
  BY DEF DocumentsInit, StockInit, Remembered, Open
<1> QED
  BY <1>1, <1>3, <1>4 DEF CountedInv

-----------------------------------------------------------------------------
(* The movements of a delivery: what it has posted and what its steps      *)
(* still post is what came with the lines it has gone through.  A call     *)
(* that neither ships nor receives moves nothing.                          *)
CameWith(t) ==
  [k \in 1 .. at[t] - 1 |->
     [op |-> "adjust", row |-> seen[t].lines[call[t].receipt[k].item].into,
      qty |-> call[t].receipt[k].qty]]

Due(t) == IF phase[t] \in Receives THEN CameWith(t) ELSE <<>>

Posting(t) ==
  pc[t] \in Open =>
    /\ Adjusts(todo[t])
    /\ phase[t] \notin {"shipping", "receiving"} => todo[t] = <<>>
    /\ phase[t] # "shipping" =>
         \A r \in Row : posted[t][r] + Effect(todo[t], r) = Effect(Due(t), r)

Settled(t) == pc[t] \notin Open => posted[t] = NoMoves

PostingInv == DocumentsInv /\ \A t \in Tx : Posting(t) /\ Settled(t)

(* The steps of the deliveries gone through, one line longer.              *)
LEMMA CameTypes ==
  ASSUME DocumentTypes, NEW t \in Tx, Informed(t), Handles(t), phase[t] \in Receives
  PROVE  /\ CameWith(t) \in Seq(Step) /\ Len(CameWith(t)) = at[t] - 1 /\ at[t] \in Nat \ {0}
         /\ DOMAIN CameWith(t) = 1 .. at[t] - 1
<1>1. seen[t] # NoDoc /\ call[t] # NoDoc /\ at[t] \in Nat \ {0} /\ Delivers(t)
  BY DEF Informed, Receives, DocumentTypes, Handles
<1>2. Proper(seen[t])
  BY <1>1 DEF DocumentTypes
<1>3. \A k \in 1 .. at[t] - 1 :
        /\ k \in 1 .. Len(call[t].receipt)
        /\ call[t].receipt[k].item \in DOMAIN seen[t].lines
  BY <1>1, ReceiptTypes DEF Delivers
<1> DEFINE n == at[t] - 1
           step(k) == [op |-> "adjust", row |-> seen[t].lines[call[t].receipt[k].item].into,
                       qty |-> call[t].receipt[k].qty]
<1>4. \A k \in 1 .. n : step(k) \in Step
  BY <1>1, <1>2, <1>3, ReceiptTypes DEF Step, Op, Proper
<1>5. n \in Nat
  BY <1>1
<1>6. CameWith(t) = [k \in 1 .. n |-> step(k)]
  BY DEF CameWith
<1>7. n = at[t] - 1
  OBVIOUS
<1> HIDE DEF n, step
<1>8. CameWith(t) \in Seq(Step) /\ Len(CameWith(t)) = n /\ DOMAIN CameWith(t) = 1 .. n
  BY <1>4, <1>5, <1>6
<1> QED
  BY <1>1, <1>7, <1>8

(* The others post nothing meanwhile.                                      *)
LEMMA OthersPost ==
  ASSUME PostingInv, NEW t \in Tx, DocumentStep(t), NEW u \in Tx \ {t}
  PROVE  Posting(u)' /\ Settled(u)'
<1>1. /\ pc'[u] = pc[u] /\ todo'[u] = todo[u] /\ posted'[u] = posted[u] /\ call'[u] = call[u]
      /\ seen'[u] = seen[u] /\ phase'[u] = phase[u] /\ at'[u] = at[u]
  BY OthersKeep DEF Own, PostingInv, DocumentsInv, StockInv
<1>2. Due(u)' = Due(u)
  BY <1>1 DEF Due, CameWith
<1> QED
  BY <1>1, <1>2 DEF PostingInv, Posting, Settled

LEMMA ArrivePosts ==
  ASSUME PostingInv, NEW t \in Tx, Arrives(t)
  PROVE  Posting(t)' /\ Settled(t)'
<1>0. StockTypeOK /\ DocumentTypes /\ Settled(t)
  BY DEF PostingInv, DocumentsInv, StockInv
<1>1. PICK c \in CallType, first \in {"raise", "ship", "submit", "update", "receive"} : OpenCall(t, c, first)
  BY DEF Arrives
<1>2. pc[t] = "idle" /\ pc'[t] = "read" /\ todo'[t] = <<>> /\ posted' = posted /\ phase'[t] = first
  BY <1>0, <1>1 DEF OpenCall, Begin, StockTypeOK, DocumentTypes
<1>3. \A r \in Row : posted'[t][r] = 0
  BY <1>0, <1>2 DEF Settled, Open, NoMoves
<1>4. Due(t)' = <<>>
  BY <1>2 DEF Due, Receives, Deliveries
<1>5. Adjusts(<<>>)
  BY DEF Adjusts
<1> QED
  BY <1>2, <1>3, <1>4, <1>5, EffectEmpty DEF Posting, Settled, Open

LEMMA TakeLinePosts ==
  ASSUME PostingInv, NEW t \in Tx, SkipLine(t) \/ TakeLine(t)
  PROVE  Posting(t)' /\ Settled(t)'
<1>0. /\ StockTypeOK /\ DocumentTypes /\ Posting(t) /\ Informed(t) /\ Handles(t) /\ DocumentsInv
  BY DEF PostingInv, DocumentsInv, StockInv, Handles
<1> DEFINE step == [op |-> "adjust", row |-> seen[t].lines[Incoming(t).item].into, qty |-> Incoming(t).qty]
<1>1. /\ pc[t] = "read" /\ pc'[t] = "read" /\ phase[t] = "receiving" /\ phase' = phase /\ todo[t] = <<>>
      /\ posted' = posted /\ call' = call /\ seen' = seen /\ at'[t] = at[t] + 1
      /\ (todo'[t] = <<>> /\ Incoming(t).qty = 0) \/ todo'[t] = <<step>>
  BY <1>0 DEF SkipLine, TakeLine, TakesLine, Receiving, In, Adjusting, StockTypeOK, DocumentTypes, stockVars
<1>2. step \in Step
  <2>1. Receiving(t) /\ AcceptsLine(t)
    BY DEF SkipLine, TakeLine, TakesLine
  <2> QED
    BY <1>0, <2>1, IncomingTypes DEF Step, Op
<1>3. Due(t) = CameWith(t) /\ Due(t)' = CameWith(t)' /\ phase[t] \in Receives
  BY <1>1 DEF Due, Receives
<1>4. CameWith(t) \in Seq(Step) /\ Len(CameWith(t)) = at[t] - 1 /\ at[t] \in Nat \ {0}
      /\ DOMAIN CameWith(t) = 1 .. at[t] - 1
  BY <1>0, <1>3, CameTypes
<1>5. CameWith(t)' = CameWith(t) \o <<step>>
  <2> DEFINE came(k) == [op |-> "adjust", row |-> seen[t].lines[call[t].receipt[k].item].into,
                         qty |-> call[t].receipt[k].qty]
             n == at[t]
  <2>1. at'[t] - 1 = n /\ n \in Nat \ {0}
    BY <1>1, <1>4
  <2>2. CameWith(t)' = [k \in 1 .. n |-> came(k)]
    BY <1>1, <2>1 DEF CameWith
  <2>3. CameWith(t) = [k \in 1 .. n - 1 |-> came(k)]
    BY DEF CameWith
  <2>4. came(n) = step
    BY DEF Incoming
  <2>5. Len(CameWith(t)) = n - 1 /\ CameWith(t) \in Seq(Step)
    BY <1>4
  <2> HIDE DEF came, step, n
  <2>6. CameWith(t) \o <<step>> = [k \in 1 .. n |-> IF k <= n - 1 THEN CameWith(t)[k] ELSE step]
    BY <1>2, <2>1, <2>5
  <2>7. \A k \in 1 .. n : came(k) = IF k <= n - 1 THEN CameWith(t)[k] ELSE step
    BY <2>1, <2>3, <2>4
  <2> QED
    BY <2>2, <2>6, <2>7
<1> HIDE DEF step
<1>6. ASSUME NEW r \in Row
      PROVE  posted'[t][r] + Effect(todo'[t], r) = Effect(Due(t)', r)
  <2>1. Effect(Due(t)', r) = Effect(CameWith(t), r) + Moves(step, r)
    <3>1. <<step>> \in Seq(Step)
      BY <1>2
    <3>2. Effect(<<step>>, r) = Moves(step, r)
      BY <1>2, EffectOne
    <3>3. Effect(CameWith(t) \o <<step>>, r) = Effect(CameWith(t), r) + Effect(<<step>>, r)
      BY <1>4, <3>1, EffectConcat
    <3> QED
      BY <1>3, <1>5, <3>2, <3>3
  <2>2. posted[t][r] + 0 = Effect(CameWith(t), r)
    BY <1>0, <1>1, <1>3, EffectEmpty DEF Posting, Open
  <2>3. posted[t][r] \in Int
    BY <1>0 DEF StockTypeOK
  <2>4. Effect(todo'[t], r) = Moves(step, r)
    <3>1. CASE todo'[t] = <<step>>
      BY <1>2, <3>1, EffectOne
    <3>2. CASE todo'[t] = <<>> /\ Incoming(t).qty = 0
      BY <3>2, EffectEmpty DEF step, Moves
    <3> QED
      BY <1>1, <3>1, <3>2
  <2> QED
    BY <1>1, <2>1, <2>2, <2>3, <2>4
<1>7. Adjusts(todo'[t])
  BY <1>1, <1>2 DEF Adjusts, step
<1> QED
  BY <1>1, <1>6, <1>7 DEF Posting, Settled, Open

LEMMA PreparePosts ==
  ASSUME PostingInv, NEW t \in Tx, Prepares(t)
  PROVE  Posting(t)' /\ Settled(t)'
<1>0. /\ StockTypeOK /\ DocumentTypes /\ Posting(t) /\ Informed(t) /\ Handles(t)
  BY DEF PostingInv, DocumentsInv, StockInv, Handles
<1>1. CASE Ships(t)
  <2>1. PICK steps \in Seq(Step) : Adjusts(steps) /\ Adjusting(t, steps)
    BY <1>1 DEF Ships
  <2>2. pc[t] = "read" /\ pc'[t] = "read" /\ phase'[t] = "shipping" /\ todo'[t] = steps
    BY <1>0, <1>1, <2>1 DEF Ships, In, Adjusting, StockTypeOK, DocumentTypes
  <2> QED
    BY <2>1, <2>2 DEF Posting, Settled, Open
<1>2. CASE SkipLine(t) \/ TakeLine(t)
  BY <1>2, TakeLinePosts
<1>3. CASE Numbers(t) \/ Enters(t) \/ Refresh(t)
  <2>1. /\ pc[t] = "read" /\ phase[t] \in {"raise", "receive", "receiving"} /\ todo[t] = <<>>
        /\ UNCHANGED <<posted, todo, pc, seen, call, at>>
        /\ phase'[t] \in {"numbered", "receiving"} \cup Deliveries
        /\ phase[t] \in Receives <=> phase'[t] \in {"all", "some", "nothing"}
        /\ phase'[t] = "receiving" => phase[t] = "receive"
    BY <1>0, <1>3 DEF Numbers, TakeNumber, Enters, Refresh, In, stockVars, DocumentTypes, Posting,
       Open, Receives, Deliveries
  <2>2. Due(t)' = Due(t)
    <3>1. CASE phase[t] = "receiving"
      BY <2>1, <3>1 DEF Due, CameWith, Receives, Deliveries
    <3>2. CASE phase[t] = "raise"
      BY <2>1, <3>2 DEF Due, Receives, Deliveries
    <3>3. CASE phase[t] = "receive"
      <4>1. at[t] = 1 /\ at' = at
        BY <1>0, <2>1, <3>3 DEF Handles, Starts, Receives, Deliveries
      <4>2. CameWith(t)' = <<>>
        BY <4>1 DEF CameWith
      <4> QED
        BY <2>1, <3>3, <4>2 DEF Due, Receives, Deliveries
    <3> QED
      BY <2>1, <3>1, <3>2, <3>3
  <2> QED
    BY <1>0, <2>1, <2>2 DEF Posting, Settled, Open, Deliveries
<1> QED
  BY <1>1, <1>2, <1>3 DEF Prepares

LEMMA StepPosts ==
  ASSUME PostingInv, NEW t \in Tx, DocumentStep(t)
  PROVE  PostingInv'
<1>0. /\ StockTypeOK /\ DocumentTypes /\ Posting(t) /\ Informed(t) /\ Handles(t) /\ DocumentsInv
  BY DEF PostingInv, DocumentsInv, StockInv, Handles
<1>1. Posting(t)' /\ Settled(t)'
  <2>1. CASE Arrives(t)
    BY <2>1, ArrivePosts
  <2>2. CASE Aborts(t) \/ Concludes(t)
    <3>1. pc'[t] \in Ended /\ posted'[t] = NoMoves
      BY <1>0, <2>2, ConcludeStep DEF Aborts, Rollback, Commit, Ended, StockTypeOK
    <3> QED
      BY <3>1 DEF Posting, Settled, Open, Ended
  <2>3. CASE Runs(t)
    <3>1. /\ pc[t] \in Open /\ pc'[t] \in Open /\ pc'[t] # "aborted" /\ Statement(t)
          /\ UNCHANGED <<call, seen, phase, at>>
      BY <1>0, <2>3, StatementEnds DEF Runs, docVars, Open
    <3>2. Due(t)' = Due(t)
      BY <3>1 DEF Due, CameWith
    <3>3. Adjusts(todo[t])
      BY <1>0, <3>1 DEF Posting
    <3>4. /\ \A r \in Row : posted'[t][r] + Effect(todo'[t], r) = posted[t][r] + Effect(todo[t], r)
          /\ Adjusts(todo'[t])
      BY <1>0, <3>1, <3>3, StatementEffect
    <3>5. phase[t] \in {"shipping", "receiving"}
      <4> SUFFICES ASSUME todo[t] = <<>> PROVE FALSE
        BY <1>0, <3>1 DEF Posting
      <4> QED
        BY <1>0, <3>1 DEF Rollback, StockTypeOK, Statement, ZeroDelta, UpsertFound, UpsertMissing, Upserting, UpsertInsert,
                          UpsertConflict, AdjustWrite, Insufficient, CountCompare, SetReorder,
                          DeadlockAbort, At
    <3> QED
      BY <1>0, <3>1, <3>2, <3>4, <3>5 DEF Posting, Settled
  <2>4. CASE Prepares(t)
    BY <2>4, PreparePosts
  <2> QED
    BY <2>1, <2>2, <2>3, <2>4 DEF DocumentStep
<1> QED
  BY <1>0, <1>1, StepDocuments, OthersPost DEF PostingInv

LEMMA StutterPosts ==
  ASSUME PostingInv, UNCHANGED documentsVars
  PROVE  PostingInv'
<1>1. UNCHANGED <<pc, posted, todo, call, seen, phase, at>>
  BY DEF documentsVars, stockVars, docVars
<1>2. ASSUME NEW t \in Tx PROVE Posting(t)' /\ Settled(t)'
  <2>1. Due(t)' = Due(t)
    BY <1>1 DEF Due, CameWith
  <2> QED
    BY <1>1, <2>1 DEF PostingInv, Posting, Settled
<1> QED
  BY <1>2, StutterDocuments DEF PostingInv

LEMMA PostingInitInv ==
  ASSUME DocumentsInit, \A d \in Earlier : Proper(Raised[d])
  PROVE  PostingInv
BY DocumentsInitInv DEF PostingInv, Posting, Settled, DocumentsInit, StockInit, Open

-----------------------------------------------------------------------------
(* As long as no call has overlapped another, every call works from the    *)
(* document as it is; and where each delivery named a line once, the       *)
(* counts of a document are what arrived, and within its lines.            *)
Neat(d) == \A t \in Committed(d, Deliveries) : NamesOnce(call[t].receipt)

Tallies(d) ==
  \A i \in DOMAIN docs[d].lines :
    docs[d].received[i] = Arrived(d, i) /\ docs[d].received[i] <= docs[d].lines[i].qty

UpToDate(t) == pc[t] \in Open /\ seen[t] # NoDoc => seen[t] = docs[call[t].doc]

Reports(t) ==
  pc[t] \in Open /\ phase[t] \in Receives =>
    /\ phase[t] = "all" => AllComplete(t)
    /\ phase[t] \in {"some", "nothing"} => ~AllComplete(t)
    /\ phase[t] = "some" => AnyReceived(t)
    /\ phase[t] = "nothing" => ~AnyReceived(t)
    /\ \A i \in DOMAIN seen[t].lines \ DOMAIN written[t] :
         \A k \in 1 .. at[t] - 1 : call[t].receipt[k].item = i => call[t].receipt[k].qty = 0

Sequential ==
  /\ Serial
  /\ \A d \in Existing : Neat(d) => Tallies(d)
  /\ \A t \in Tx : UpToDate(t) /\ Reports(t)

SequentialInv == DocumentsInv /\ (~overlapped => Sequential)

(* Nothing has happened to a document that was just raised.                *)
LEMMA NothingYet ==
  ASSUME DocumentsInv, NEW d \in DocId, d \notin Existing, NEW i
  PROVE  Arrived(d, i) = 0 /\ Committed(d, {"shipping"}) = {} /\ Committed(d, Deliveries) = {}
<1>1. \A u \in Tx : phase[u] \in {"shipping"} \cup Deliveries => call[u].doc \in Existing
  BY DEF DocumentsInv, Handles, Informed, Receives
<1>2. Committed(d, {"shipping"}) = {} /\ Committed(d, Deliveries) = {}
  BY <1>1 DEF Committed
<1> QED
  BY <1>2, ArrivedKnown, SumEmpty

LEMMA NeatBefore ==
  ASSUME DocumentsInv, NEW t \in Tx, DocumentStep(t), NEW d, Neat(d)'
  PROVE  /\ Neat(d)
         /\ Concludes(t) /\ call[t].doc = d /\ phase[t] \in Deliveries => NamesOnce(call[t].receipt)
<1>1. /\ Committed(d, Deliveries) \subseteq Committed(d, Deliveries)'
      /\ \A u \in Committed(d, Deliveries)' : call'[u] = call[u]
      /\ Concludes(t) /\ call[t].doc = d /\ phase[t] \in Deliveries => t \in Committed(d, Deliveries)'
  BY CommittedSets DEF DocumentsInv
<1> QED
  BY <1>1 DEF Neat

(* A delivery that names a line once brings what its line reports.         *)
LEMMA ArrivedOnce ==
  ASSUME NEW receipt \in Seq(ReceiptLine), NamesOnce(receipt), NEW k \in DOMAIN receipt
  PROVE  ArrivedIn(receipt, receipt[k].item) = receipt[k].qty
<1> DEFINE f == [m \in DOMAIN receipt |-> receipt[m].qty]
           T == {m \in DOMAIN receipt : receipt[m].item = receipt[k].item}
<1>1. T = {k}
  BY DEF NamesOnce
<1>2. f[k] = receipt[k].qty /\ f[k] \in Int
  <2>1. receipt[k] \in ReceiptLine
    OBVIOUS
  <2> QED
    BY <2>1 DEF ReceiptLine
<1>3. ArrivedIn(receipt, receipt[k].item) = SumFunctionOnSet(f, T)
  BY DEF ArrivedIn
<1> HIDE DEF f, T
<1> QED
  BY <1>1, <1>2, <1>3, SumOne

LEMMA ArrivedNothing ==
  ASSUME NEW receipt \in Seq(ReceiptLine), NEW i,
         \A k \in DOMAIN receipt : receipt[k].item = i => receipt[k].qty = 0
  PROVE  ArrivedIn(receipt, i) = 0
<1> DEFINE f == [m \in DOMAIN receipt |-> receipt[m].qty]
           T == {m \in DOMAIN receipt : receipt[m].item = i}
<1>1. \A m \in T : f[m] = 0
  OBVIOUS
<1>2. IsFiniteSet(T)
  <2>1. Len(receipt) \in Nat /\ DOMAIN receipt = 1 .. Len(receipt)
    BY DEF ReceiptLine
  <2>2. IsFiniteSet(1 .. Len(receipt))
    BY <2>1, FS_Interval
  <2> QED
    BY <2>1, <2>2, FS_Subset
<1>3. ArrivedIn(receipt, i) = SumFunctionOnSet(f, T)
  BY DEF ArrivedIn
<1> HIDE DEF f, T
<1> QED
  BY <1>1, <1>2, <1>3, SumZero

(* What the delivery that commits makes of a line.                         *)
LEMMA LineReceived ==
  ASSUME DocumentsInv, NEW t \in Tx, NEW d \in Existing, Tallies(d), call[t].doc = d,
         pc[t] \in Open, phase[t] \in Deliveries, seen[t] # NoDoc, seen[t] = docs[d],
         Reports(t), NamesOnce(call[t].receipt), NEW i \in DOMAIN docs[d].lines
  PROVE  /\ LineNow(t, i) = docs[d].received[i] + ArrivedIn(call[t].receipt, i)
         /\ LineNow(t, i) <= docs[d].lines[i].qty /\ LineNow(t, i) \in Nat
<1>1. /\ call[t].receipt \in Seq(ReceiptLine) /\ Len(call[t].receipt) \in Nat
      /\ DOMAIN call[t].receipt = 1 .. Len(call[t].receipt)
      /\ \A k \in 1 .. Len(call[t].receipt) : call[t].receipt[k].qty \in Nat
  BY KnownSeen, ReceiptTypes DEF DocumentsInv
<1>2. Delivers(t) /\ at[t] = Len(call[t].receipt) + 1 /\ phase[t] \in Receives
  BY DEF DocumentsInv, Handles, Receives, Delivers
<1>3. docs[d].received[i] \in Nat /\ docs[d].lines[i].qty \in Nat /\ docs[d].received[i] <= docs[d].lines[i].qty
  BY KnownDoc DEF Tallies, Proper
<1>4. \A k : k \in 1 .. at[t] - 1 <=> k \in DOMAIN call[t].receipt
  BY <1>1, <1>2
<1>5. CASE i \in DOMAIN written[t]
  <2>1. LineNow(t, i) = written[t][i] /\ WroteLine(t, i)
    BY <1>2, <1>5 DEF LineNow, Delivers
  <2>2. PICK k \in DOMAIN call[t].receipt :
          /\ call[t].receipt[k].item = i
          /\ written[t][i] = seen[t].received[i] + call[t].receipt[k].qty
    BY <1>4, <2>1 DEF WroteLine
  <2>3. ArrivedIn(call[t].receipt, i) = call[t].receipt[k].qty /\ call[t].receipt[k].qty \in Nat
    BY <1>1, <2>2, ArrivedOnce
  <2>4. written[t][i] <= docs[d].lines[i].qty
    BY <2>1 DEF WroteLine
  <2> QED
    BY <1>3, <2>1, <2>2, <2>3, <2>4
<1>6. CASE i \notin DOMAIN written[t]
  <2>1. LineNow(t, i) = docs[d].received[i]
    BY <1>6 DEF LineNow
  <2>2. \A k \in DOMAIN call[t].receipt : call[t].receipt[k].item = i => call[t].receipt[k].qty = 0
    BY <1>2, <1>4, <1>6 DEF Reports
  <2>3. ArrivedIn(call[t].receipt, i) = 0
    BY <1>1, <2>2, ArrivedNothing
  <2> QED
    BY <1>3, <2>1, <2>3
<1> QED
  BY <1>5, <1>6

LEMMA StepTallies ==
  ASSUME SequentialInv, Sequential, NEW t \in Tx, DocumentStep(t), NEW d \in Existing', Neat(d)'
  PROVE  Tallies(d)'
<1>0. DocumentsInv /\ StockTypeOK /\ DocumentTypes /\ Handles(t) /\ DOMAIN docs'[d].received = DOMAIN docs'[d].lines
  BY StepKeepsTypes DEF SequentialInv, DocumentsInv, StockInv, DocumentTypes, Proper
<1>1. Neat(d) /\ (Concludes(t) /\ call[t].doc = d /\ phase[t] \in Deliveries => NamesOnce(call[t].receipt))
  BY <1>0, NeatBefore
<1>2. d \in Existing => Tallies(d)
  BY <1>1 DEF Sequential
<1>3. ASSUME NEW i, ~(Concludes(t) /\ call[t].doc = d /\ phase[t] \in Deliveries)
      PROVE  Arrived(d, i)' = Arrived(d, i)
  BY <1>0, <1>3, ArrivedStays
<1>4. CASE d \in Existing /\ docs'[d] = docs[d] /\ (Concludes(t) => phase[t] = "numbered" \/ call[t].doc # d)
  BY <1>2, <1>3, <1>4 DEF Tallies, Deliveries
<1>5. CASE d = t /\ d \notin Existing /\ Adds(t)
  <2>1. \A i : Arrived(d, i) = 0
    BY <1>0, <1>5, NothingYet DEF DocId
  <2>2. \A i \in DOMAIN docs'[d].lines : docs'[d].received[i] = 0 /\ docs'[d].lines[i].qty \in Nat
    BY <1>5 DEF Adds, Proper
  <2>3. phase[t] = "numbered"
    BY <1>5 DEF Adds
  <2> QED
    BY <1>3, <2>1, <2>2, <2>3 DEF Tallies, Deliveries
<1>6. CASE d \in Existing /\ call[t].doc = d /\ seen[t] # NoDoc /\ Marks(t)
  <2>1. phase[t] \notin Deliveries /\ docs'[d].lines = docs[d].lines /\ docs'[d].received = docs[d].received
    BY <1>6 DEF Marks, Keeps, Deliveries
  <2> QED
    BY <1>2, <1>3, <1>6, <2>1 DEF Tallies
<1>7. CASE d \in Existing /\ call[t].doc = d /\ seen[t] # NoDoc /\ Fills(t)
  <2>1. Concludes(t) /\ phase[t] \in Deliveries /\ pc[t] \in Open
    BY <1>0, <1>7, ConcludeStep DEF Concludes, Fills, Open
  <2>2. seen[t] = docs[d] /\ Reports(t) /\ Tallies(d) /\ NamesOnce(call[t].receipt)
    BY <1>1, <1>2, <1>7, <2>1 DEF Sequential, UpToDate
  <2>3. ASSUME NEW i \in DOMAIN docs'[d].lines
        PROVE  docs'[d].received[i] = Arrived(d, i)' /\ docs'[d].received[i] <= docs'[d].lines[i].qty
    <3>1. docs'[d].lines = docs[d].lines /\ docs'[d].received[i] = LineNow(t, i)
      BY <1>0, <1>7, KnownDoc DEF Fills, Keeps, Proper
    <3>2. Arrived(d, i)' = Arrived(d, i) + ArrivedIn(call[t].receipt, i)
      BY <1>0, <1>7, <2>1, ArrivedGrows
    <3>3. docs[d].received[i] = Arrived(d, i)
      BY <2>2, <3>1 DEF Tallies
    <3>4. LineNow(t, i) = docs[d].received[i] + ArrivedIn(call[t].receipt, i)
          /\ LineNow(t, i) <= docs[d].lines[i].qty
      BY <1>0, <1>7, <2>1, <2>2, <3>1, LineReceived
    <3> QED
      BY <3>1, <3>2, <3>3, <3>4
  <2> QED
    BY <2>3 DEF Tallies
<1> QED
  BY <1>0, <1>4, <1>5, <1>6, <1>7, DocChanges

LEMMA PrepareReports ==
  ASSUME SequentialInv, Sequential, NEW t \in Tx, Prepares(t)
  PROVE  UpToDate(t)' /\ Reports(t)'
<1>0. /\ StockTypeOK /\ DocumentTypes /\ Informed(t) /\ Handles(t) /\ Reports(t) /\ UpToDate(t)
  BY DEF SequentialInv, DocumentsInv, StockInv, Handles, Sequential
<1>1. pc[t] = "read" /\ UNCHANGED <<docs, call, seen, pc>>
  BY DEF Prepares, Numbers, TakeNumber, Ships, Adjusting, Enters, SkipLine, TakeLine,
     TakesLine, Receiving, Refresh, In, stockVars
<1>2. UpToDate(t)'
  BY <1>0, <1>1 DEF UpToDate
<1>3. CASE Numbers(t) \/ Ships(t)
  <2>1. phase'[t] \in {"numbered", "shipping"}
    BY <1>0, <1>3 DEF Numbers, TakeNumber, Ships, DocumentTypes
  <2> QED
    BY <1>2, <2>1 DEF Reports, Receives, Deliveries
<1>4. CASE Enters(t)
  <2>1. phase[t] = "receive" /\ phase'[t] = "receiving" /\ at' = at
    BY <1>0, <1>4 DEF Enters, In, DocumentTypes
  <2>2. 1 .. at[t] - 1 = {}
    BY <1>0, <2>1 DEF Handles, Starts, Receives, Deliveries
  <2> QED
    BY <1>2, <2>1, <2>2 DEF Reports
<1>5. CASE SkipLine(t) \/ TakeLine(t)
  <2> DEFINE i == Incoming(t).item
  <2>1. /\ phase[t] = "receiving" /\ phase' = phase /\ at'[t] = at[t] + 1 /\ at[t] \in Nat \ {0}
    BY <1>0, <1>5 DEF SkipLine, TakeLine, TakesLine, Receiving, In, DocumentTypes
  <2>2. DOMAIN written[t] \subseteq DOMAIN written'[t] /\ (Incoming(t).qty = 0 \/ i \in DOMAIN written'[t])
    BY <1>0, <1>5 DEF SkipLine, TakeLine, DocumentTypes
  <2>3. \A k \in 1 .. at'[t] - 1 : k = at[t] \/ k \in 1 .. at[t] - 1
    BY <2>1
  <2>4. Incoming(t) = call[t].receipt[at[t]]
    BY DEF Incoming
  <2> HIDE DEF i
  <2>5. \A j \in DOMAIN seen[t].lines \ DOMAIN written'[t] :
          \A k \in 1 .. at'[t] - 1 : call[t].receipt[k].item = j => call[t].receipt[k].qty = 0
    BY <1>0, <1>1, <2>1, <2>2, <2>3, <2>4 DEF Reports, Receives, Open, i
  <2> QED
    BY <1>1, <1>2, <2>1, <2>5 DEF Reports
<1>6. CASE Refresh(t)
  <2>1. /\ phase[t] = "receiving" /\ UNCHANGED <<at, written>>
        /\ phase'[t] = IF AllComplete(t) THEN "all" ELSE IF AnyReceived(t) THEN "some" ELSE "nothing"
    BY <1>0, <1>6 DEF Refresh, In, DocumentTypes
  <2>2. (AllComplete(t)' <=> AllComplete(t)) /\ (AnyReceived(t)' <=> AnyReceived(t))
    BY <1>1, <2>1 DEF AllComplete, AnyReceived, LineNow
  <2> QED
    BY <1>0, <1>1, <1>2, <2>1, <2>2 DEF Reports, Receives
<1> QED
  BY <1>3, <1>4, <1>5, <1>6 DEF Prepares

LEMMA StepSerial ==
  ASSUME StockTypeOK, DocumentTypes, NEW t \in Tx, Handles(t), DocumentStep(t), ~overlapped', ~overlapped => Serial
  PROVE  /\ ~overlapped /\ Serial'
         /\ \A u \in Tx \ {t} : pc[u] \notin Open /\ pc'[u] = pc[u]
<1>1. CASE Arrives(t)
  <2>1. PICK c \in CallType, first \in {"raise", "ship", "submit", "update", "receive"} : OpenCall(t, c, first)
    BY <1>1 DEF Arrives
  <2>2. Begin(t, <<>>)
    BY <2>1 DEF OpenCall
  <2>3. ~overlapped /\ (\A u \in Tx : pc[u] \notin Open) /\ pc'[t] = "read" /\ UNCHANGED <<stale, raced>>
        /\ \A u \in Tx \ {t} : pc'[u] = pc[u]
    BY <2>2 DEF Begin, StockTypeOK
  <2>4. \A u \in Tx : ~At(u, "act")'
    BY <2>3 DEF At, Open
  <2> QED
    BY <2>3, <2>4 DEF Serial, Alone, NothingStale, BasisCurrent
<1>2. CASE Aborts(t) \/ Runs(t) \/ Concludes(t)
  <2>1. Statement(t) \/ Commit(t) \/ Fail(t)
    BY <1>2, ConcludeStep DEF Aborts, Runs, Fail
  <2>2. pc[t] \in Open /\ overlapped' = overlapped /\ \A u \in Tx \ {t} : pc'[u] = pc[u]
    BY <2>1, StatementOwn
  <2> QED
    BY <2>1, <2>2, SerialStep DEF Serial, Alone
<1>3. CASE Prepares(t)
  <2>1. pc[t] = "read" /\ UNCHANGED <<level, moved, work, pc, basis, stale, raced, overlapped>>
    BY <1>3 DEF Prepares, Numbers, TakeNumber, Ships, Adjusting, Enters, SkipLine, TakeLine,
       TakesLine, Receiving, Refresh, In, stockVars, history
  <2>2. Serial
    BY <2>1
  <2>3. \A u \in Tx : ~At(u, "act")'
    BY <2>1, <2>2 DEF At, Serial, Alone, Open
  <2> QED
    BY <2>1, <2>2, <2>3 DEF Serial, Alone, NothingStale, BasisCurrent, Open
<1> QED
  BY <1>1, <1>2, <1>3 DEF DocumentStep

LEMMA StepSequential ==
  ASSUME SequentialInv, NEW t \in Tx, DocumentStep(t)
  PROVE  SequentialInv'
<1>0. StockTypeOK /\ DocumentTypes /\ Handles(t) /\ DocumentsInv /\ DocumentsInv'
  BY StepDocuments DEF SequentialInv, DocumentsInv, StockInv
<1> SUFFICES ASSUME ~overlapped' PROVE Sequential'
  BY <1>0 DEF SequentialInv
<1>1. /\ ~overlapped /\ Serial'
      /\ \A u \in Tx \ {t} : pc[u] \notin Open /\ pc'[u] = pc[u]
  BY <1>0, StepSerial DEF SequentialInv, Sequential
<1>2. Sequential
  BY <1>1 DEF SequentialInv
<1>3. \A u \in Tx \ {t} : UpToDate(u)' /\ Reports(u)'
  BY <1>1 DEF UpToDate, Reports
<1>4. UpToDate(t)' /\ Reports(t)'
  <2>1. CASE Arrives(t)
    <3>1. PICK c \in CallType, first \in {"raise", "ship", "submit", "update", "receive"} : OpenCall(t, c, first)
      BY <2>1 DEF Arrives
    <3>2. /\ phase'[t] = first /\ docs' = docs /\ call'[t] = c
          /\ seen'[t] = IF c.doc \in DocId THEN docs[c.doc] ELSE NoDoc
      BY <1>0, <3>1 DEF OpenCall, DocumentTypes
    <3> QED
      BY <3>2 DEF UpToDate, Reports, Receives, Deliveries
  <2>2. CASE Aborts(t) \/ Concludes(t)
    <3>1. pc'[t] \notin Open
      BY <1>0, <2>2, ConcludeStep DEF Aborts, Rollback, Open, StockTypeOK
    <3> QED
      BY <3>1 DEF UpToDate, Reports
  <2>3. CASE Runs(t)
    <3>1. UNCHANGED <<docs, call, seen, phase, at, written>> /\ pc[t] \in Open
      BY <1>0, <2>3, StatementEnds DEF Runs, docVars
    <3>2. (AllComplete(t)' <=> AllComplete(t)) /\ (AnyReceived(t)' <=> AnyReceived(t))
      BY <3>1 DEF AllComplete, AnyReceived, LineNow
    <3> QED
      BY <1>2, <3>1, <3>2 DEF Sequential, UpToDate, Reports
  <2>4. CASE Prepares(t)
    BY <1>2, <2>4, PrepareReports
  <2> QED
    BY <2>1, <2>2, <2>3, <2>4 DEF DocumentStep
<1>5. \A d \in Existing' : Neat(d)' => Tallies(d)'
  BY <1>2, StepTallies
<1> QED
  BY <1>1, <1>3, <1>4, <1>5 DEF Sequential

LEMMA StutterSequential ==
  ASSUME SequentialInv, UNCHANGED documentsVars
  PROVE  SequentialInv'
<1>1. UNCHANGED stockVars /\ UNCHANGED <<pc, docs, call, seen, phase, at, written, overlapped>> /\ Existing' = Existing
  BY DEF documentsVars, stockVars, docVars, Existing
<1>2. DocumentsInv'
  BY StutterDocuments DEF SequentialInv
<1>3. ASSUME Sequential PROVE Sequential'
  <2>1. Serial'
    BY <1>1, <1>3 DEF stockVars, Sequential, Serial, Alone, NothingStale, BasisCurrent, At, Sees, Target, Current
  <2>2. ASSUME NEW d \in Existing, Neat(d)' PROVE Tallies(d)'
    <3>1. Neat(d)
      BY <1>1, <2>2 DEF Neat, Committed
    <3>2. Tallies(d)
      BY <1>3, <3>1 DEF Sequential
    <3> QED
      BY <1>1, <3>2 DEF Tallies, Arrived, Committed
  <2>3. ASSUME NEW t \in Tx PROVE UpToDate(t)' /\ Reports(t)'
    BY <1>1, <1>3 DEF Sequential, UpToDate, Reports, AllComplete, AnyReceived, LineNow
  <2> QED
    BY <1>1, <2>1, <2>2, <2>3 DEF Sequential
<1> QED
  BY <1>1, <1>2, <1>3 DEF SequentialInv

LEMMA SequentialInitInv ==
  ASSUME DocumentsInit, \A d \in Earlier : Proper(Raised[d])
  PROVE  SequentialInv
<1>1. DocumentsInv
  BY DocumentsInitInv
<1>2. Existing = Earlier /\ (\A d \in Earlier : docs[d] = Raised[d]) /\ \A t \in Tx : pc[t] = "idle"
  BY DocAssumption DEF DocumentsInit, StockInit, Existing, DocId
<1>3. ASSUME NEW d \in Existing PROVE Tallies(d)
  <2>1. Committed(d, Deliveries) = {}
    BY <1>2 DEF Committed
  <2>2. \A i : Arrived(d, i) = 0
    BY <1>1, <2>1, ArrivedKnown, SumEmpty
  <2>3. \A i \in DOMAIN docs[d].lines : docs[d].received[i] = 0 /\ docs[d].lines[i].qty \in Nat
    BY <1>2, UntouchedAssumption DEF Proper
  <2> QED
    BY <2>2, <2>3 DEF Tallies
<1>4. \A t \in Tx : UpToDate(t) /\ Reports(t)
  BY <1>2 DEF UpToDate, Reports, Open
<1>5. Serial
  BY DEF DocumentsInit, StockInit, Serial, Alone, NothingStale, BasisCurrent, At, Open
<1> QED
  BY <1>1, <1>3, <1>4, <1>5 DEF SequentialInv, Sequential

LEMMA OrderlyTallies ==
  ASSUME SequentialInv, Orderly, NEW d \in Existing
  PROVE  Neat(d) /\ Tallies(d)
<1>1. \A t \in Committed(d, Deliveries) : call[t] # NoDoc
  BY DEF SequentialInv, DocumentsInv, Handles, Informed, Receives, Committed, Deliveries
<1>2. Neat(d)
  BY <1>1 DEF Neat, Orderly, Committed
<1> QED
  BY <1>2 DEF SequentialInv, Sequential, Orderly

=============================================================================
