----------------------------- MODULE Documents -----------------------------
(***************************************************************************)
(* What TransfersService and PurchaseOrdersService share: a document is    *)
(* raised under the next number of the month, and its goods are received,  *)
(* by lines, in a loop that updates a line and adjusts the stock.          *)
(*                                                                         *)
(* Every handler reads the document without locking it and works from that *)
(* snapshot.  The update of a line locks the line until the transaction    *)
(* ends; the document itself is written by the last statement before the   *)
(* commit, so the two are one action.  All documents fall in one month.    *)
(***************************************************************************)
EXTENDS Stock, FiniteSets, Functions

CONSTANTS
  Earlier,  \* documents raised before the behaviour starts
  Raised,   \* Raised[d]: what those documents are
  Outlet,   \* the stores
  User,
  ActsFor,  \* ActsFor[u]: the stores u may act for: its own, or all for an ADMIN
  Draft,    \* the documents a client may ask for
  Receipt,  \* the deliveries a client may report
  NoDoc     \* the value of a document that does not exist

DocId == Tx \cup Earlier   \* a document is named after the transaction raising it

ReceiptLine == [item : Nat \ {0}, qty : Nat]
CallType == [by : User, doc : DocId \cup {NoDoc}, receipt : Seq(ReceiptLine),
             draft : Draft \cup {NoDoc}]

ASSUME ReceiptAssumption == Receipt \subseteq Seq(ReceiptLine)
ASSUME UserAssumption == ActsFor \in [User -> SUBSET Outlet]
ASSUME DocAssumption ==
  /\ Earlier \cap Tx = {} /\ \A d \in Earlier : Raised[d] # NoDoc
  /\ NoDoc \notin DocId \cup CallType

(* A draft has a line.                                                     *)
ASSUME LinesAssumption == \A draft \in Draft : draft.lines # <<>>

(* The documents raised before were numbered as these are, and nothing of  *)
(* them has been received: every delivery is a step of the system.         *)
ASSUME EarlierAssumption ==
  /\ IsFiniteSet(Earlier)
  /\ {Raised[d].number : d \in Earlier} = 1 .. Cardinality(Earlier)
ASSUME UntouchedAssumption ==
  \A d \in Earlier :
    /\ Raised[d].lines # <<>> /\ Len(Raised[d].received) = Len(Raised[d].lines)
    /\ \A i \in DOMAIN Raised[d].received : Raised[d].received[i] = 0

VARIABLES
  docs,     \* docs[d]: the committed document with its lines, or NoDoc
  call,     \* call[t]: the call t serves: who called, and with what
  seen,     \* seen[t]: the document as t read it
  phase,    \* phase[t]: how far t's handler is
  number,   \* number[t]: the number t is about to give
  at,       \* at[t]: the position of t in the delivery it receives
  written   \* written[t][i]: quantityReceived t wrote to line i and has not
            \* committed; t locks the lines in the domain

docVars == <<docs, call, seen, phase, number, at, written>>
documentsVars == <<stockVars, docVars>>

NoLines == [i \in 1 .. 0 |-> 0]
Phases == {"none", "raise", "numbered", "ship", "shipping", "receive", "receiving",
           "all", "some", "nothing", "submit", "update"}

DocumentsInit ==
  /\ StockInit
  /\ docs = [d \in DocId |-> IF d \in Earlier THEN Raised[d] ELSE NoDoc]
  /\ call = [t \in Tx |-> NoDoc]
  /\ seen = [t \in Tx |-> NoDoc]
  /\ phase = [t \in Tx |-> "none"]
  /\ number = [t \in Tx |-> 0]
  /\ at = [t \in Tx |-> 1]
  /\ written = [t \in Tx |-> NoLines]

Existing == {d \in DocId : docs[d] # NoDoc}

Raise(u, draft) == [by |-> u, doc |-> NoDoc, receipt |-> <<>>, draft |-> draft]
Call(u, d, receipt) == [by |-> u, doc |-> d, receipt |-> receipt, draft |-> NoDoc]
MayActFor(t, store) == store \in ActsFor[call[t].by]

(* What a call may name: a document, or nothing that exists.               *)
Named(t) == Existing \cup {t}

(* A call arrives; the document it names, if any, is read.                 *)
OpenCall(t, c, first) ==
  /\ Begin(t, <<>>)
  /\ call' = [call EXCEPT ![t] = c]
  /\ seen' = [seen EXCEPT ![t] = IF c.doc \in DocId THEN docs[c.doc] ELSE NoDoc]
  /\ phase' = [phase EXCEPT ![t] = first]
  /\ UNCHANGED <<docs, number, at, written>>

In(t, where) == pc[t] = "read" /\ phase[t] = where

KeepsLocks(t) == UNCHANGED written
Release(t) == written' = [written EXCEPT ![t] = NoLines]

(* The call failed: its locks are released and its memory is gone.         *)
Forget(t) ==
  /\ Release(t)
  /\ call' = [call EXCEPT ![t] = NoDoc]
  /\ seen' = [seen EXCEPT ![t] = NoDoc]
  /\ phase' = [phase EXCEPT ![t] = "none"]
  /\ number' = [number EXCEPT ![t] = 0]
  /\ at' = [at EXCEPT ![t] = 1]

(* A guard of the handler throws: nothing of the transaction remains.      *)
Throw(t) == Rollback(t) /\ Forget(t) /\ UNCHANGED docs

(* The statements of adjustStock, and failures.                            *)
DocStep(t, A) ==
  /\ A
  /\ IF pc'[t] = "aborted" THEN Forget(t) ELSE UNCHANGED <<call, seen, phase, number, at, written>>
  /\ UNCHANGED docs

-----------------------------------------------------------------------------
(* Numbering: the documents of the month are counted, unlocked, and the    *)
(* unique index of the number column rejects a number given meanwhile.     *)
TakeNumber(t) ==
  /\ number' = [number EXCEPT ![t] = Cardinality(Existing) + 1]
  /\ phase' = [phase EXCEPT ![t] = "numbered"]
  /\ UNCHANGED <<stockVars, docs, call, seen, at, written>>

NoUniqueIndex(t) == FALSE
NumberTaken(t) == \E d \in Existing : docs[d].number = number[t]

Insert(t, new) ==
  /\ In(t, "numbered")
  /\ IF NumberTaken(t) THEN Throw(t)
     ELSE /\ Commit(t)
          /\ docs' = [docs EXCEPT ![t] = new]
          /\ UNCHANGED <<call, seen, phase, number, at, written>>

-----------------------------------------------------------------------------
(* Receiving: `for (const incoming of dto.items)'.                         *)
Incoming(t) == call[t].receipt[at[t]]
Receiving(t) == In(t, "receiving") /\ todo[t] = <<>> /\ at[t] <= Len(call[t].receipt)

(* The new total of a line counts from the snapshot.                       *)
ReceivesTheRest(t) == seen[t].lines[Incoming(t).item].qty
NewTotal(t) == seen[t].received[Incoming(t).item] + Incoming(t).qty

(* "Transfer item not found", "Receiving more than shipped", "ordered".    *)
AcceptsLine(t) ==
  /\ Incoming(t).item \in DOMAIN seen[t].lines
  /\ NewTotal(t) <= seen[t].lines[Incoming(t).item].qty

RefuseLine(t) == Receiving(t) /\ ~AcceptsLine(t) /\ Throw(t)

(* `continue': nothing came for this line.                                 *)
SkipLine(t) ==
  /\ Receiving(t) /\ AcceptsLine(t) /\ Incoming(t).qty = 0
  /\ at' = [at EXCEPT ![t] = @ + 1]
  /\ UNCHANGED <<stockVars, docs, call, seen, phase, number, written>>

TakesLine(t) == Receiving(t) /\ AcceptsLine(t) /\ Incoming(t).qty > 0

HoldsLine(u, d, i) == call[u] # NoDoc /\ call[u].doc = d /\ i \in DOMAIN written[u]
LineFree(t) == \A u \in Tx \ {t} : ~HoldsLine(u, call[t].doc, Incoming(t).item)

(* The line is updated to the new total, waiting for its lock; adjustStock *)
(* on the row the goods arrive at follows.                                 *)
TakeLine(t) ==
  LET i == Incoming(t).item
      adjust == [op |-> "adjust", row |-> seen[t].lines[i].into, qty |-> Incoming(t).qty]
  IN /\ TakesLine(t)
     /\ LineFree(t)
     /\ written' = [written EXCEPT ![t] =
                      [k \in DOMAIN @ \cup {i} |-> IF k = i THEN NewTotal(t) ELSE @[k]]]
     /\ Adjusting(t, <<adjust>>)
     /\ at' = [at EXCEPT ![t] = @ + 1]
     /\ UNCHANGED <<docs, call, seen, phase, number>>

(* The lines are read again: t's own updates over the committed ones.      *)
LineNow(t, i) ==
  IF i \in DOMAIN written[t] THEN written[t][i] ELSE docs[call[t].doc].received[i]
AnyComplete(t) == \E i \in DOMAIN seen[t].lines : LineNow(t, i) >= seen[t].lines[i].qty
AllComplete(t) == \A i \in DOMAIN seen[t].lines : LineNow(t, i) >= seen[t].lines[i].qty
AnyReceived(t) == \E i \in DOMAIN seen[t].lines : LineNow(t, i) > 0

Refresh(t) ==
  /\ In(t, "receiving") /\ todo[t] = <<>> /\ at[t] > Len(call[t].receipt)
  /\ phase' = [phase EXCEPT ![t] = IF AllComplete(t) THEN "all"
                                   ELSE IF AnyReceived(t) THEN "some" ELSE "nothing"]
  /\ UNCHANGED <<stockVars, docs, call, seen, number, at, written>>

(* The document gets its status, and the lines become visible with it.     *)
CommitReceipt(t, status) ==
  LET d == call[t].doc
  IN /\ Commit(t)
     /\ docs' = [docs EXCEPT ![d].status = status,
                             ![d].received = [i \in DOMAIN @ |-> LineNow(t, i)]]
     /\ Release(t)
     /\ UNCHANGED <<call, seen, phase, number, at>>

CommitStatus(t, status) ==
  /\ Commit(t)
  /\ docs' = [docs EXCEPT ![call[t].doc].status = status]
  /\ UNCHANGED <<call, seen, phase, number, at, written>>

(* Who waits for whom, for a row or for a line.                            *)
WaitsForLine(t, u) ==
  t # u /\ TakesLine(t) /\ HoldsLine(u, call[t].doc, Incoming(t).item)
Waits == {w \in Tx \X Tx : WaitsFor(w[1], w[2]) \/ WaitsForLine(w[1], w[2])}

-----------------------------------------------------------------------------
(* What the ledger and the documents say.                                  *)

Committed(d, phases) ==
  {t \in Tx : pc[t] = "committed" /\ call[t].doc = d /\ phase[t] \in phases}

(* Units of line i that the committed deliveries of d brought into stock.  *)
ArrivedIn(receipt, i) ==
  SumFunctionOnSet([k \in DOMAIN receipt |-> receipt[k].qty],
                   {k \in DOMAIN receipt : receipt[k].item = i})

Arrived(d, i) ==
  LET deliveries == Committed(d, {"all", "some", "nothing"})
  IN SumFunctionOnSet([t \in deliveries |-> ArrivedIn(call[t].receipt, i)], deliveries)

(* Calls that do not overlap and name each line of a delivery once.  The   *)
(* handlers check neither: a total counts from the snapshot of the line.   *)
NamesOnce(receipt) == \A k, m \in DOMAIN receipt : receipt[k].item = receipt[m].item => k = m
Orderly == ~overlapped /\ \A t \in Tx : call[t] # NoDoc => NamesOnce(call[t].receipt)

(* The numbers of the documents run from 1 without a gap, each given once, *)
(* however many are raised at the same time.                               *)
NumbersGapless ==
  {docs[d].number : d \in Existing} = 1 .. Cardinality(Existing)

(* Deliveries that overlap can only lose units from quantityReceived: a    *)
(* line never shows more than what came into stock for it.                 *)
ReceivedNeverOverstated ==
  \A d \in Existing : \A i \in DOMAIN docs[d].lines : docs[d].received[i] <= Arrived(d, i)
=============================================================================
