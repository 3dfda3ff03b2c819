----------------------------- MODULE Transfers -----------------------------
(***************************************************************************)
(* TransfersService (backend/src/transfers): stock sent from one store to  *)
(* another.  A transfer is raised as a DRAFT; shipping it takes its lines  *)
(* out of the source store, receiving it puts them into the destination,   *)
(* in one delivery or several; a draft may be cancelled.                   *)
(***************************************************************************)
EXTENDS Documents

TransferLine == [from : Row, into : Row, qty : Nat \ {0}]
TransferStatus == {"DRAFT", "IN_TRANSIT", "RECEIVED", "CANCELLED"}
TransferType == [number : Nat, from : Outlet, to : Outlet, lines : Seq(TransferLine),
                 received : Seq(Nat), status : TransferStatus]
DraftType == [from : Outlet, to : Outlet, lines : Seq(TransferLine), valid : BOOLEAN]

ASSUME NoDocAssumption == NoDoc \notin TransferType \cup DraftType
ASSUME DraftAssumption == Draft \subseteq DraftType
ASSUME RaisedAssumption ==
  Raised \in [Earlier -> TransferType] /\ \A d \in Earlier : Raised[d].status # "RECEIVED"

-----------------------------------------------------------------------------
(* create.                                                                 *)

(* "Source and destination must differ", the caller's store, "Store(s) not *)
(* found", "One or more variants not found".                               *)
AcceptsDraft(t) ==
  LET draft == call[t].draft
  IN draft.from # draft.to /\ MayActFor(t, draft.from) /\ draft.valid

NumberTransfer(t) ==
  /\ In(t, "raise")
  /\ IF AcceptsDraft(t) THEN TakeNumber(t) ELSE Throw(t)

NewTransfer(t) ==
  LET draft == call[t].draft
  IN [number |-> number[t], from |-> draft.from, to |-> draft.to, lines |-> draft.lines,
      received |-> [i \in DOMAIN draft.lines |-> 0], status |-> "DRAFT"]

-----------------------------------------------------------------------------
(* ship.                                                                   *)

(* "Transfer not found", the caller's store, "Only DRAFT transfers can be  *)
(* shipped".                                                               *)
ShipsAny(t) == seen[t] # NoDoc /\ MayActFor(t, seen[t].from)
Shippable(t) ==
  seen[t] # NoDoc /\ MayActFor(t, seen[t].from) /\ seen[t].status = "DRAFT"

ShipLines(lines) ==
  [i \in DOMAIN lines |-> [op |-> "adjust", row |-> lines[i].from, qty |-> -lines[i].qty]]

Ship(t) ==
  /\ In(t, "ship")
  /\ IF Shippable(t)
     THEN /\ Adjusting(t, ShipLines(seen[t].lines))
          /\ phase' = [phase EXCEPT ![t] = "shipping"]
          /\ UNCHANGED <<docs, call, seen, number, at, written>>
     ELSE Throw(t)

CommitShip(t) == In(t, "shipping") /\ CommitStatus(t, "IN_TRANSIT")

-----------------------------------------------------------------------------
(* receive.                                                                *)

(* "Transfer not found", the caller's store, "Only IN_TRANSIT transfers    *)
(* can be received".                                                       *)
ReceivesDraft(t) ==
  seen[t] # NoDoc /\ MayActFor(t, seen[t].to) /\ seen[t].status \in {"DRAFT", "IN_TRANSIT"}
Receivable(t) ==
  seen[t] # NoDoc /\ MayActFor(t, seen[t].to) /\ seen[t].status = "IN_TRANSIT"

Receive(t) ==
  /\ In(t, "receive")
  /\ IF Receivable(t)
     THEN /\ phase' = [phase EXCEPT ![t] = "receiving"]
          /\ UNCHANGED <<stockVars, docs, call, seen, number, at, written>>
     ELSE Throw(t)

(* Not complete: the status stays what it was when it was read.            *)
CommitReceive(t) ==
  \/ In(t, "all") /\ CommitReceipt(t, "RECEIVED")
  \/ (In(t, "some") \/ In(t, "nothing")) /\ CommitReceipt(t, seen[t].status)

-----------------------------------------------------------------------------
(* cancel: a read and an update, not in one transaction.                   *)

(* Either side may read it, the source may cancel it; "Only DRAFT          *)
(* transfers can be cancelled".                                            *)
Cancellable(t) ==
  seen[t] # NoDoc /\ MayActFor(t, seen[t].from) /\ seen[t].status = "DRAFT"

Cancel(t) ==
  /\ In(t, "update")
  /\ IF Cancellable(t) THEN CommitStatus(t, "CANCELLED") ELSE Throw(t)

-----------------------------------------------------------------------------
Arrive(t) ==
  \E u \in User :
    \/ \E draft \in Draft : OpenCall(t, Raise(u, draft), "raise")
    \/ \E d \in Named(t) :
         \/ OpenCall(t, Call(u, d, <<>>), "ship")
         \/ OpenCall(t, Call(u, d, <<>>), "update")
         \/ \E receipt \in Receipt : OpenCall(t, Call(u, d, receipt), "receive")

TransferStatement(t) ==
  \/ NumberTransfer(t) \/ Insert(t, NewTransfer(t))
  \/ Ship(t) \/ CommitShip(t)
  \/ Receive(t) \/ RefuseLine(t) \/ SkipLine(t) \/ TakeLine(t)
  \/ Refresh(t) \/ CommitReceive(t)
  \/ Cancel(t)
  \/ DocStep(t, Statement(t))
  \/ InCycle(t, Waits) /\ Throw(t)

TransfersTerminating == (\A t \in Tx : pc[t] \in Ended) /\ UNCHANGED documentsVars

TransfersNext ==
  \/ \E t \in Tx : Arrive(t) \/ TransferStatement(t) \/ DocStep(t, Fail(t))
  \/ TransfersTerminating

TransfersSpec == DocumentsInit /\ [][TransfersNext]_documentsVars

-----------------------------------------------------------------------------
(* The properties.                                                         *)

(* How often the lines of d left the source store.                         *)
Shipments(d) ==
  Cardinality(Committed(d, {"shipping"}))
  + IF d \in Earlier /\ Raised[d].status \in {"IN_TRANSIT", "RECEIVED"} THEN 1 ELSE 0

(* Of calls in an orderly sequence, status and goods agree: a draft or a   *)
(* cancelled transfer has moved no stock, any other left its source once,  *)
(* and RECEIVED says that every unit has arrived.                          *)
StatusFollowsGoods ==
  Orderly => \A d \in Existing :
    LET lines == docs[d].lines
    IN IF docs[d].status \in {"DRAFT", "CANCELLED"}
       THEN Shipments(d) = 0 /\ \A i \in DOMAIN lines : Arrived(d, i) = 0
       ELSE /\ Shipments(d) = 1
            /\ docs[d].status = "RECEIVED" <=> \A i \in DOMAIN lines : Arrived(d, i) = lines[i].qty

(* "Receiving more than shipped": whatever overlaps, goods arrive only on  *)
(* a transfer that has left, and never more units of a line than its       *)
(* transfer shipped, over all the deliveries of an orderly sequence.       *)
ArrivedWithinShipped ==
  \A d \in Existing : \A i \in DOMAIN docs[d].lines :
    /\ Arrived(d, i) > 0 => Shipments(d) > 0
    /\ Orderly => Arrived(d, i) <= Shipments(d) * docs[d].lines[i].qty

Commits(t) == pc[t] # "committed" /\ pc'[t] = "committed"

Gone(t, r) ==
  LET lines == seen[t].lines
  IN SumFunctionOnSet([i \in DOMAIN lines |-> lines[i].qty], {i \in DOMAIN lines : lines[i].from = r})
Come(t, r) ==
  LET receipt == call[t].receipt
  IN SumFunctionOnSet([k \in DOMAIN receipt |-> receipt[k].qty],
       {k \in DOMAIN receipt : seen[t].lines[receipt[k].item].into = r})

(* Whatever overlaps or fails, the ledger moves only when a call commits,  *)
(* and then by all the lines it shipped, or by all it received.            *)
LedgerFollowsTransfers ==
  [][\A r \in Row :
       LET ending == {t \in Tx : Commits(t)}
       IN moved'[r] - moved[r] =
            SumFunctionOnSet([t \in ending |->
              CASE phase[t] = "shipping" -> -Gone(t, r)
                [] phase[t] \in {"all", "some", "nothing"} -> Come(t, r)
                [] OTHER -> 0], ending)]_documentsVars
=============================================================================
