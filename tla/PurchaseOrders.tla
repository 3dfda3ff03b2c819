--------------------------- MODULE PurchaseOrders ---------------------------
(***************************************************************************)
(* PurchaseOrdersService (backend/src/purchase-orders) and                 *)
(* recomputeWeightedAverageCost: goods ordered from a supplier, received   *)
(* in one delivery or several, each line blending its price into the cost  *)
(* of the variant before the stock goes up.                                *)
(*                                                                         *)
(* Costs are whole cents, as the two decimals of ProductVariant.cost are.  *)
(* The update of a cost locks the variant until the transaction ends.      *)
(***************************************************************************)
EXTENDS Documents

CONSTANTS
  Variant,
  VariantOf,  \* VariantOf[r]: the variant whose stock r is
  FirstCost   \* FirstCost[v]: the cost v starts from

OrderLine == [into : Row, qty : Nat \ {0}, unitCost : Nat]
OrderStatus == {"DRAFT", "ORDERED", "PARTIALLY_RECEIVED", "RECEIVED", "CANCELLED"}
OrderType == [number : Nat, store : Outlet, lines : Seq(OrderLine),
              received : Seq(Nat), status : OrderStatus]
DraftType == [store : Outlet, lines : Seq(OrderLine), valid : BOOLEAN]

ASSUME NoDocAssumption == NoDoc \notin OrderType \cup DraftType
ASSUME DraftAssumption == Draft \subseteq DraftType
ASSUME RaisedAssumption ==
  /\ Raised \in [Earlier -> OrderType]
  /\ \A d \in Earlier : Raised[d].status \in {"DRAFT", "ORDERED", "CANCELLED"}
ASSUME CostAssumption ==
  IsFiniteSet(Row) /\ VariantOf \in [Row -> Variant] /\ FirstCost \in [Variant -> Nat]

VARIABLES
  cost,    \* cost[v]: ProductVariant.cost, committed
  wac,     \* wac[t]: the next statement of t's recomputation, or "none"
  basisOf, \* basisOf[t]: the cost and the quantity on hand it has read
  costed   \* costed[t][v]: the cost t wrote and has not committed; t locks
           \* the variants in the domain

costVars == <<cost, wac, basisOf, costed>>
purchaseVars == <<documentsVars, costVars>>

NoBasis == [cost |-> 0, onHand |-> 0]

PurchaseInit ==
  /\ DocumentsInit
  /\ cost = FirstCost
  /\ wac = [t \in Tx |-> "none"]
  /\ basisOf = [t \in Tx |-> NoBasis]
  /\ costed = [t \in Tx |-> NoLines]

(* A statement that writes no cost; if it ends t, t's locks go.            *)
Plain(t, A) ==
  /\ wac[t] = "none"
  /\ A
  /\ IF pc'[t] = "aborted"
     THEN /\ basisOf' = [basisOf EXCEPT ![t] = NoBasis]
          /\ costed' = [costed EXCEPT ![t] = NoLines]
     ELSE UNCHANGED <<basisOf, costed>>
  /\ UNCHANGED <<cost, wac>>

(* A failure or a lost deadlock, wherever t is.                            *)
Lose(t, A) ==
  /\ A
  /\ wac' = [wac EXCEPT ![t] = "none"]
  /\ basisOf' = [basisOf EXCEPT ![t] = NoBasis]
  /\ costed' = [costed EXCEPT ![t] = NoLines]
  /\ UNCHANGED cost

-----------------------------------------------------------------------------
(* create, submit and cancel.  The last two are a read and an update, not  *)
(* in one transaction.                                                     *)

AcceptsDraft(t) == MayActFor(t, call[t].draft.store) /\ call[t].draft.valid

NumberOrder(t) ==
  /\ In(t, "raise")
  /\ IF AcceptsDraft(t) THEN TakeNumber(t) ELSE Throw(t)

NewOrder(t) ==
  LET draft == call[t].draft
  IN [number |-> number[t], store |-> draft.store, lines |-> draft.lines,
      received |-> [i \in DOMAIN draft.lines |-> 0], status |-> "DRAFT"]

Found(t) == seen[t] # NoDoc /\ MayActFor(t, seen[t].store)

(* "Only DRAFT purchase orders can be submitted".                          *)
Submit(t) ==
  /\ In(t, "submit")
  /\ IF Found(t) /\ seen[t].status = "DRAFT" THEN CommitStatus(t, "ORDERED") ELSE Throw(t)

(* "Cannot cancel a received or already-cancelled PO".                     *)
Cancellable(t) == Found(t) /\ seen[t].status \notin {"RECEIVED", "CANCELLED"}

Cancel(t) ==
  /\ In(t, "update")
  /\ IF Cancellable(t) THEN CommitStatus(t, "CANCELLED") ELSE Throw(t)

-----------------------------------------------------------------------------
(* receive.  "Cannot receive a cancelled or already fully received PO".    *)
Receivable(t) == Found(t) /\ seen[t].status \notin {"CANCELLED", "RECEIVED"}

Receive(t) ==
  /\ In(t, "receive")
  /\ IF Receivable(t)
     THEN /\ phase' = [phase EXCEPT ![t] = "receiving"]
          /\ UNCHANGED <<stockVars, docs, call, seen, number, at, written>>
     ELSE Throw(t)

(* The line has been updated and its adjustment is still to run: between   *)
(* the two the cost is recomputed.                                         *)
TakeOrderLine(t) ==
  /\ TakeLine(t)
  /\ wac' = [wac EXCEPT ![t] = "cost"]
  /\ UNCHANGED <<cost, basisOf, costed>>

LineTaken(t) == call[t].receipt[at[t] - 1]
PriceTaken(t) == seen[t].lines[LineTaken(t).item].unitCost
VariantTaken(t) == VariantOf[Target(t)]

CostSeen(t, v) == IF v \in DOMAIN costed[t] THEN costed[t][v] ELSE cost[v]

ReadCost(t) ==
  /\ wac[t] = "cost"
  /\ basisOf' = [basisOf EXCEPT ![t].cost = CostSeen(t, VariantTaken(t))]
  /\ wac' = [wac EXCEPT ![t] = "onHand"]
  /\ UNCHANGED <<documentsVars, cost, costed>>

(* The quantity on hand is summed over every store.                        *)
OnHandHere(t, v) == Qty(Sees(t, Target(t)))
OnHand(t, v) ==
  SumFunctionOnSet([r \in Row |-> Qty(Sees(t, r))], {r \in Row : VariantOf[r] = v})

ReadOnHand(t) ==
  /\ wac[t] = "onHand"
  /\ basisOf' = [basisOf EXCEPT ![t].onHand = OnHand(t, VariantTaken(t))]
  /\ wac' = [wac EXCEPT ![t] = "write"]
  /\ UNCHANGED <<documentsVars, cost, costed>>

(* toDecimalPlaces(2) rounds half up.                                      *)
Rounded(n, d) == (2 * n + d) \div (2 * d)

OverReceived(old, onHand, qty, unitCost) ==
  IF onHand <= 0 THEN unitCost ELSE Rounded(old * onHand + unitCost * qty, onHand)
Blend(old, onHand, qty, unitCost) ==
  IF onHand <= 0 THEN unitCost ELSE Rounded(old * onHand + unitCost * qty, onHand + qty)

VariantFree(t, v) == \A u \in Tx \ {t} : v \notin DOMAIN costed[u]

WriteCost(t) ==
  LET v == VariantTaken(t)
      new == Blend(basisOf[t].cost, basisOf[t].onHand, LineTaken(t).qty, PriceTaken(t))
  IN /\ wac[t] = "write"
     /\ VariantFree(t, v)
     /\ costed' = [costed EXCEPT ![t] =
                     [x \in DOMAIN @ \cup {v} |-> IF x = v THEN new ELSE @[x]]]
     /\ wac' = [wac EXCEPT ![t] = "none"]
     /\ UNCHANGED <<documentsVars, cost, basisOf>>

(* "Recompute status".                                                     *)
StatusAfter(t) ==
  CASE phase[t] = "all" -> "RECEIVED"
    [] phase[t] = "some" -> "PARTIALLY_RECEIVED"
    [] phase[t] = "nothing" -> seen[t].status

CommitReceive(t) ==
  /\ In(t, "all") \/ In(t, "some") \/ In(t, "nothing")
  /\ CommitReceipt(t, StatusAfter(t))
  /\ cost' = [v \in Variant |-> CostSeen(t, v)]
  /\ costed' = [costed EXCEPT ![t] = NoLines]
  /\ UNCHANGED <<wac, basisOf>>

WaitsForVariant(t, u) ==
  t # u /\ wac[t] = "write" /\ VariantTaken(t) \in DOMAIN costed[u]
AllWaits == Waits \cup {w \in Tx \X Tx : WaitsForVariant(w[1], w[2])}

-----------------------------------------------------------------------------
Arrive(t) ==
  \E u \in User :
    \/ \E draft \in Draft : OpenCall(t, Raise(u, draft), "raise")
    \/ \E d \in Named(t) :
         \/ OpenCall(t, Call(u, d, <<>>), "submit")
         \/ OpenCall(t, Call(u, d, <<>>), "update")
         \/ \E receipt \in Receipt : OpenCall(t, Call(u, d, receipt), "receive")

PlainStatement(t) ==
  \/ NumberOrder(t) \/ Insert(t, NewOrder(t))
  \/ Submit(t) \/ Cancel(t)
  \/ Receive(t) \/ RefuseLine(t) \/ SkipLine(t) \/ Refresh(t)
  \/ DocStep(t, Statement(t))

OrderStatement(t) ==
  \/ Plain(t, PlainStatement(t))
  \/ TakeOrderLine(t) \/ ReadCost(t) \/ ReadOnHand(t) \/ WriteCost(t) \/ CommitReceive(t)
  \/ InCycle(t, AllWaits) /\ Lose(t, Throw(t))

PurchaseTerminating == (\A t \in Tx : pc[t] \in Ended) /\ UNCHANGED purchaseVars

PurchaseNext ==
  \/ \E t \in Tx :
       \/ Plain(t, Arrive(t))
       \/ OrderStatement(t)
       \/ Lose(t, DocStep(t, Fail(t)))
  \/ PurchaseTerminating

PurchaseSpec == PurchaseInit /\ [][PurchaseNext]_purchaseVars
FairPurchaseSpec == PurchaseSpec /\ \A t \in Tx : WF_purchaseVars(OrderStatement(t))

-----------------------------------------------------------------------------
(* The properties.                                                         *)

(* Of calls in an orderly sequence, status and goods agree: RECEIVED is    *)
(* every unit in stock, each once, and PARTIALLY_RECEIVED some; an order   *)
(* in draft or only ordered has none.                                      *)
StatusFollowsReceipts ==
  Orderly => \A d \in Existing :
    LET lines == docs[d].lines
        all == \A i \in DOMAIN lines : Arrived(d, i) = lines[i].qty
        some == \E i \in DOMAIN lines : Arrived(d, i) > 0
    IN /\ docs[d].status = "RECEIVED" <=> all
       /\ docs[d].status = "PARTIALLY_RECEIVED" => some
       /\ docs[d].status \in {"DRAFT", "ORDERED"} => ~some

Stocked(v) == SumFunctionOnSet([r \in Row |-> Qty(level[r])], {r \in Row : VariantOf[r] = v})
TakenOf(t, v) ==
  {k \in DOMAIN call[t].receipt : VariantOf[seen[t].lines[call[t].receipt[k].item].into] = v}
UnitsTaken(t, v) == SumFunctionOnSet([k \in DOMAIN call[t].receipt |-> call[t].receipt[k].qty], TakenOf(t, v))
PaidFor(t, v) ==
  SumFunctionOnSet([k \in DOMAIN call[t].receipt |->
    call[t].receipt[k].qty * seen[t].lines[call[t].receipt[k].item].unitCost], TakenOf(t, v))

(* "newCost = (onHand * oldCost + received * unitCost) / (onHand +         *)
(* received)": a delivery nothing overlaps changes the value of the stock  *)
(* of a variant, in all the stores, by what was paid for it, but for half  *)
(* a cent a unit on each of its lines.                                     *)
ReceiptAddsItsValue ==
  [][\A t \in Tx, v \in Variant :
       ~overlapped /\ pc'[t] = "committed" /\ pc[t] # "committed" /\ phase[t] \in {"all", "some", "nothing"} =>
         LET error == cost'[v] * Stocked(v)' - cost[v] * Stocked(v) - PaidFor(t, v)
             slack == Cardinality(TakenOf(t, v)) * Stocked(v)'
         IN 2 * error <= slack /\ -slack <= 2 * error]_purchaseVars

Prices(v) ==
  {FirstCost[v]} \cup
  UNION {{docs[d].lines[i].unitCost :
            i \in {j \in DOMAIN docs[d].lines : VariantOf[docs[d].lines[j].into] = v}} : d \in Existing}

(* However deliveries and other movements interleave, and whatever they    *)
(* read meanwhile, a cost stays between the lowest and the highest price.  *)
CostWithinPrices ==
  \A v \in Variant : \E low, high \in Prices(v) : low <= cost[v] /\ cost[v] <= high

(* Every call is answered, in whatever order calls lock lines, variants    *)
(* and rows.                                                               *)
PurchasesEnd == \A t \in Tx : pc[t] \in Open ~> pc[t] \in Ended
=============================================================================
