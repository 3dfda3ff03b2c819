------------------------------ MODULE Payouts ------------------------------
(***************************************************************************)
(* CompensationService (backend/src/compensation): what a salesperson has  *)
(* earned in a period, and the payout snapshots taken of it.               *)
(*                                                                         *)
(* No call runs in a transaction: every query is a statement of its own,   *)
(* so orders, adjustments, users and payouts change between them.  Orders  *)
(* and users are the environment: they are placed, adjusted, voided and    *)
(* updated by OrdersService and UsersService, each in one step here but    *)
(* for an adjustment, which works from the order as it read it.            *)
(*                                                                         *)
(* Amounts are whole cents, rates hundredths of a percent.  A period is a  *)
(* pair of days, both included.  Notes, stores and dates of start are left *)
(* out.                                                                    *)
(***************************************************************************)
EXTENDS Integers, Sequences, FiniteSets, Functions

CONSTANTS
  Call,       \* calls of the service
  Employee,   \* users; a Role is enough to tell them apart
  Hired,      \* Hired[e]: the row of e at the start
  UserChange, \* the rows an update of a user may leave
  Order,
  Sold,       \* Sold[o]: the sale that order o is, once placed
  Amendment,  \* the adjustments that may be made
  Snapshot,   \* the payloads of createPayoutSnapshot
  Edit,       \* the payloads of updatePayout
  MaxAmount,  \* the largest value of a Decimal(12, 2) column
  MaxTotal,   \* the largest value of a Decimal(14, 2) column
  Unset       \* a field a payload leaves out; what a call has not read

Role == {"ADMIN", "MANAGER", "CASHIER", "EMPLOYEE"}
PayoutStatus == {"DRAFT", "APPROVED", "PAID", "CANCELLED"}
OrderStatus == {"COMPLETED", "PARTIALLY_REFUNDED", "REFUNDED", "CANCELLED"}
UserRow == [role : Role, enabled : BOOLEAN, active : BOOLEAN, base : Nat, rate : Nat]

ASSUME UnsetAssumption == Unset \notin Int /\ Unset \notin PayoutStatus \cup OrderStatus
ASSUME MaxAssumption == MaxAmount \in Nat /\ MaxTotal \in Nat
ASSUME HiredAssumption == Hired \in [Employee -> UserRow] /\ UserChange \subseteq UserRow
ASSUME SoldAssumption == Sold \in [Order -> [by : Employee, day : Nat, total : Nat]]
ASSUME AmendmentAssumption ==
  Amendment \subseteq [order : Order, day : Nat, refund : Nat, charge : Nat]
(* The tables of a database are finite.                                    *)
ASSUME FiniteAssumption == IsFiniteSet(Employee) /\ IsFiniteSet(Order) /\ IsFiniteSet(Amendment)
ASSUME SnapshotAssumption == Snapshot \subseteq [user : Employee, from : Nat, to : Nat, adj : Int]
ASSUME EditAssumption ==
  Edit \subseteq [status : PayoutStatus \cup {Unset}, adj : Int \cup {Unset}]

VARIABLES
  user,      \* user[e]: the row of e
  status,    \* status[o]: the status of order o, or Unset before it is placed
  refunded,  \* refunded[o]: refundedTotal of order o
  draft,     \* draft[a]: the order as adjustment a read it, or Unset
  amended,   \* the adjustments made
  payouts,   \* the payout rows, in the order of their creation
  pc,        \* pc[c]: where call c is
  request,   \* request[c]: its payload, with the payout an edit names
  seen,      \* seen[c]: what it has read
  overlapped, \* history: a call began while another ran
  revived,   \* history: a cancelled payout was given another status
  outdated,  \* history: an adjustment wrote over an order changed since it read it
  asked      \* history: asked[c]: what was refunded or voided when c asked for a payout

sales == <<user, status, refunded, draft, amended, outdated>>
payoutVars == <<sales, payouts, pc, request, seen, overlapped, revived, asked>>

Running == {"employee", "sales", "active", "insert", "find", "update"}
PC == {"idle", "done", "refused"} \cup Running

Blank == [worker |-> Unset, gross |-> Unset, refunds |-> Unset, charges |-> Unset,
          payout |-> Unset]

NothingAsked == [spoiled |-> {}, refunds |-> 0]

PayoutsInit ==
  /\ user = Hired
  /\ status = [o \in Order |-> Unset]
  /\ refunded = [o \in Order |-> 0]
  /\ draft = [a \in Amendment |-> Unset]
  /\ amended = {}
  /\ payouts = <<>>
  /\ pc = [c \in Call |-> "idle"]
  /\ request = [c \in Call |-> Unset]
  /\ seen = [c \in Call |-> Blank]
  /\ overlapped = FALSE
  /\ revived = FALSE
  /\ outdated = FALSE
  /\ asked = [c \in Call |-> NothingAsked]

-----------------------------------------------------------------------------
(* What has been earned.                                                   *)

Within(period, day) == period.from <= day /\ day <= period.to

CountsEverySale(o) == status[o] \in {"COMPLETED", "PARTIALLY_REFUNDED", "REFUNDED"}
Counts(o) == status[o] = "COMPLETED"

SalesOf(e, period) == {o \in Order : Counts(o) /\ Sold[o].by = e /\ Within(period, Sold[o].day)}
(* An adjustment is credited to the salesperson of its order.              *)
AmendedBy(e, period) == {a \in amended : Sold[a.order].by = e /\ Within(period, a.day)}

grandTotal == [o \in Order |-> Sold[o].total]
refundAmount == [a \in Amendment |-> a.refund]
chargeAmount == [a \in Amendment |-> a.charge]
Gross(e, period) == SumFunctionOnSet(grandTotal, SalesOf(e, period))
Refunds(e, period) == SumFunctionOnSet(refundAmount, AmendedBy(e, period))
Charges(e, period) == SumFunctionOnSet(chargeAmount, AmendedBy(e, period))

AtLeastZero(x) == IF x < 0 THEN 0 ELSE x
Net(gross, refunds, charges) == AtLeastZero(gross - refunds + charges)

(* `round' to cents, halves up; only an EMPLOYEE earns a percentage.       *)
Rate(row) == IF row.role = "EMPLOYEE" THEN row.rate ELSE 0
Commission(net, row) == (net * Rate(row) + 5000) \div 10000

-----------------------------------------------------------------------------
(* The environment.                                                        *)

OnlySales == UNCHANGED <<payouts, pc, request, seen, overlapped, revived, asked>>

Sell(o) ==
  /\ status[o] = Unset
  /\ status' = [status EXCEPT ![o] = "COMPLETED"]
  /\ OnlySales /\ UNCHANGED <<user, refunded, draft, amended, outdated>>

(* createAdjustment, as far as a payout can see it: it reads the order,    *)
(* and commits refundedTotal and status computed from what it read.  How   *)
(* much may come back is decided by quantities, which Orders models; no    *)
(* bound is put on the refund, as overlapping ones may exceed the total.   *)
OrderRow(o) == [status |-> status[o], refunded |-> refunded[o]]

OpenAmend(a) ==
  /\ a \notin amended /\ draft[a] = Unset
  /\ status[a.order] \notin {Unset, "CANCELLED"}
  /\ draft' = [draft EXCEPT ![a] = OrderRow(a.order)]
  /\ OnlySales /\ UNCHANGED <<user, status, refunded, amended, outdated>>

CommitAmend(a) ==
  LET o == a.order
      total == draft[a].refunded + a.refund
  IN /\ draft[a] # Unset
     /\ draft' = [draft EXCEPT ![a] = Unset]
     /\ amended' = amended \cup {a}
     /\ refunded' = [refunded EXCEPT ![o] = total]
     /\ status' = [status EXCEPT ![o] =
          IF total >= Sold[o].total THEN "REFUNDED"
          ELSE IF a.refund > 0 THEN "PARTIALLY_REFUNDED" ELSE draft[a].status]
     /\ outdated' = (outdated \/ draft[a] # OrderRow(o))
     /\ OnlySales /\ UNCHANGED user

VoidOrder(o) ==
  /\ status[o] \notin {Unset, "CANCELLED"}
  /\ status' = [status EXCEPT ![o] = "CANCELLED"]
  /\ OnlySales /\ UNCHANGED <<user, refunded, draft, amended, outdated>>

(* UsersService.update and deactivate.  A role other than EMPLOYEE forces  *)
(* the stored rate to 0.                                                   *)
UpdateUser(e, row) ==
  /\ row # user[e]
  /\ user' = [user EXCEPT ![e] = [row EXCEPT !.rate = Rate(row)]]
  /\ OnlySales /\ UNCHANGED <<status, refunded, draft, amended, outdated>>

-----------------------------------------------------------------------------
(* createPayoutSnapshot.                                                   *)

Arrive(c, payload, first) ==
  /\ pc[c] = "idle"
  /\ request' = [request EXCEPT ![c] = payload]
  /\ pc' = [pc EXCEPT ![c] = first]
  /\ overlapped' = (overlapped \/ \E d \in Call : pc[d] \in Running)
  /\ UNCHANGED <<sales, payouts, seen, revived>>

Goes(c, where) == pc' = [pc EXCEPT ![c] = where]
Ends(c, how) == Goes(c, how) /\ seen' = [seen EXCEPT ![c] = Blank]
                             /\ request' = [request EXCEPT ![c] = Unset]
                             /\ asked' = [asked EXCEPT ![c] = NothingAsked]
NoHistory == UNCHANGED <<overlapped, revived>>

(* "periodEnd must be >= periodStart".                                     *)
Spoiled == {o \in Order : status[o] \notin {Unset, "COMPLETED"}}
AskSnapshot(c, payload) ==
  /\ Arrive(c, payload, IF payload.to < payload.from THEN "refused" ELSE "employee")
  /\ asked' = [asked EXCEPT ![c] =
                  [spoiled |-> Spoiled, refunds |-> Refunds(payload.user, payload)]]

(* "Employee not found", "Compensation disabled for employee".             *)
Paid(row) == row.role # "ADMIN" /\ row.enabled

ReadEmployee(c) ==
  LET row == user[request[c].user]
  IN /\ pc[c] = "employee"
     /\ IF Paid(row)
        THEN Goes(c, "sales") /\ seen' = [seen EXCEPT ![c].worker = row] /\ UNCHANGED <<request, asked>>
        ELSE Ends(c, "refused")
     /\ NoHistory /\ UNCHANGED <<sales, payouts>>

(* Orders and adjustments are read by two queries sent at once: either may *)
(* be answered first, and things change between the two.                   *)
ReadOrders(c) ==
  /\ pc[c] = "sales" /\ seen[c].gross = Unset
  /\ seen' = [seen EXCEPT ![c].gross = Gross(request[c].user, request[c])]
  /\ Goes(c, IF seen[c].refunds = Unset THEN "sales" ELSE "active")
  /\ NoHistory /\ UNCHANGED <<sales, payouts, request, asked>>

ReadAdjustments(c) ==
  /\ pc[c] = "sales" /\ seen[c].refunds = Unset
  /\ seen' = [seen EXCEPT ![c].refunds = Refunds(request[c].user, request[c]),
                          ![c].charges = Charges(request[c].user, request[c])]
  /\ Goes(c, IF seen[c].gross = Unset THEN "sales" ELSE "active")
  /\ NoHistory /\ UNCHANGED <<sales, payouts, request, asked>>

Active(p) == p.status # "CANCELLED"
SamePeriod(p, payload) == p.user = payload.user /\ p.from = payload.from /\ p.to = payload.to
HasDraft(payload) ==
  \E i \in DOMAIN payouts : SamePeriod(payouts[i], payload) /\ payouts[i].status = "DRAFT"
HasActive(payload) ==
  \E i \in DOMAIN payouts : SamePeriod(payouts[i], payload) /\ Active(payouts[i])

(* "An active payout snapshot already exists for this period".             *)
CheckActive(c) ==
  /\ pc[c] = "active"
  /\ IF HasActive(request[c]) THEN Ends(c, "refused")
     ELSE Goes(c, "insert") /\ UNCHANGED <<request, seen, asked>>
  /\ NoHistory /\ UNCHANGED <<sales, payouts>>

NewPayout(payload, read) ==
  LET net == Net(read.gross, read.refunds, read.charges)
      earned == Commission(net, read.worker)
  IN [user |-> payload.user, from |-> payload.from, to |-> payload.to,
      base |-> read.worker.base, net |-> net, commission |-> earned, adj |-> payload.adj,
      total |-> read.worker.base + earned + payload.adj, status |-> "DRAFT", paid |-> FALSE]

(* PostgreSQL refuses a value its column cannot hold.                      *)
Storable(p) ==
  /\ \A x \in {p.base, p.commission, p.adj} : x \in -MaxAmount .. MaxAmount
  /\ \A x \in {p.net, p.total} : x \in -MaxTotal .. MaxTotal

InsertPayout(c) ==
  LET new == NewPayout(request[c], seen[c])
  IN /\ pc[c] = "insert"
     /\ IF Storable(new) THEN payouts' = Append(payouts, new) /\ Ends(c, "done")
        ELSE Ends(c, "refused") /\ UNCHANGED payouts
     /\ NoHistory /\ UNCHANGED sales

-----------------------------------------------------------------------------
(* updatePayout.                                                           *)

AskEdit(c, i, edit) ==
  /\ i \in DOMAIN payouts
  /\ Arrive(c, [payout |-> i, edit |-> edit], "find")
  /\ UNCHANGED asked

(* "A PAID payout can only be CANCELLED, not edited".                      *)
FindPayout(c) ==
  LET p == payouts[request[c].payout]
  IN /\ pc[c] = "find"
     /\ IF p.status = "PAID" /\ request[c].edit.status # "CANCELLED" THEN Ends(c, "refused")
        ELSE /\ Goes(c, "update") /\ seen' = [seen EXCEPT ![c].payout = p]
             /\ UNCHANGED <<request, asked>>
     /\ NoHistory /\ UNCHANGED <<sales, payouts>>

(* The total is computed from the payout read before; only the columns the *)
(* payload names are written.                                              *)
AddsToTotal(p, adj) == p.total + adj
Readjusted(p, adj) == p.total - p.adj + adj

Edited(row, read, edit) ==
  LET money == IF edit.adj = Unset THEN row
               ELSE [row EXCEPT !.adj = edit.adj, !.total = Readjusted(read, edit.adj)]
  IN IF edit.status = Unset THEN money
     ELSE [money EXCEPT !.status = edit.status, !.paid = (edit.status = "PAID")]

UpdatePayout(c) ==
  LET i == request[c].payout
      new == Edited(payouts[i], seen[c].payout, request[c].edit)
  IN /\ pc[c] = "update"
     /\ IF Storable(new)
        THEN /\ payouts' = [payouts EXCEPT ![i] = new]
             /\ revived' = (revived \/ (~Active(payouts[i]) /\ Active(new)))
             /\ Ends(c, "done")
        ELSE Ends(c, "refused") /\ UNCHANGED <<payouts, revived>>
     /\ UNCHANGED <<sales, overlapped>>

-----------------------------------------------------------------------------
Environment ==
  \/ \E o \in Order : Sell(o) \/ VoidOrder(o)
  \/ \E a \in Amendment : OpenAmend(a) \/ CommitAmend(a)
  \/ \E e \in Employee, row \in UserChange : UpdateUser(e, row)

Handle(c) ==
  \/ ReadEmployee(c)
  \/ ReadOrders(c)
  \/ ReadAdjustments(c)
  \/ CheckActive(c)
  \/ InsertPayout(c)
  \/ FindPayout(c)
  \/ UpdatePayout(c)

Ask(c) ==
  \/ \E payload \in Snapshot : AskSnapshot(c, payload)
  \/ \E i \in DOMAIN payouts, edit \in Edit : AskEdit(c, i, edit)

(* Every call has been answered.                                           *)
Terminating == (\A c \in Call : pc[c] \in {"done", "refused"}) /\ UNCHANGED payoutVars

PayoutsNext == Environment \/ (\E c \in Call : Ask(c) \/ Handle(c)) \/ Terminating

PayoutsSpec == PayoutsInit /\ [][PayoutsNext]_payoutVars

-----------------------------------------------------------------------------
(* The properties.                                                         *)

(* A payout pays the salary, the commission and the adjustment it shows,   *)
(* however many edits computed their totals from a payout that had changed *)
(* since they read it.                                                     *)
TotalAddsUp ==
  \A i \in DOMAIN payouts :
    payouts[i].total = payouts[i].base + payouts[i].commission + payouts[i].adj

(* "only one active (non-cancelled) snapshot at a time": the snapshots of  *)
(* a user and period are never two active ones, unless calls overlapped or *)
(* an edit took a cancelled one back.                                      *)
OneActivePayout ==
  ~overlapped /\ ~revived =>
    \A i, j \in DOMAIN payouts :
      i # j /\ SamePeriod(payouts[i], payouts[j]) => ~(Active(payouts[i]) /\ Active(payouts[j]))

(* The sales a payout may still be earned on, if its call read them now:   *)
(* those nothing was returned of, or voided, before it was asked for.      *)
Unspoiled(e, period, spoiled) ==
  {o \in Order \ spoiled : Sold[o].by = e /\ Within(period, Sold[o].day)}

(* Whatever is sold, refunded or voided while a snapshot is taken, and     *)
(* whichever of its two queries is answered first: no commission is paid   *)
(* on a sale that was refunded or voided before it was asked for, and the  *)
(* refunds of the period made until then are taken off.                    *)
NothingReturnedIsPaid ==
  [][~outdated' =>
       \A c \in Call : pc[c] = "insert" /\ pc'[c] = "done" =>
         LET e == request[c].user
             untouched == SumFunctionOnSet(grandTotal, Unspoiled(e, request[c], asked[c].spoiled))
         IN payouts'[Len(payouts')].net
              <= Net(untouched, asked[c].refunds, Charges(e, request[c]))]_payoutVars
=============================================================================
