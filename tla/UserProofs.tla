----------------------------- MODULE UserProofs -----------------------------
(***************************************************************************)
(* What the users of the system are promised: their pay, their session,    *)
(* their screens and their till.  Four components that share no state.     *)
(*                                                                         *)
(* Payouts, for every set of calls, users, orders and payloads: a payout's *)
(* total is the sum of its parts, calls that do not overlap leave one      *)
(* active payout of a user and period, and no payout is earned on a sale   *)
(* that was refunded or voided before it was asked for.                    *)
(*                                                                         *)
(* Sessions, for every number of tabs and requests, and any expiries: no   *)
(* request waits for a refresh that nobody makes, and signing out is final *)
(* until the next login, unless a refresh was on its way.                  *)
(*                                                                         *)
(* Screens, whatever the tables of screens, hooks and handlers say and     *)
(* however often they change: if every mutation announces what its screen  *)
(* shows, no screen shows, as settled data, what was read before a change  *)
(* of its own.                                                             *)
(*                                                                         *)
(* The till, for every catalog, price, rate and amount, and every stack of *)
(* discounts: the total it displays is the total the server computes, and  *)
(* every unit entered is in the cart or sold, once.                        *)
(***************************************************************************)
EXTENDS Payouts, Session, Screens, Till, SequenceTheorems, Sums

-----------------------------------------------------------------------------
(* Payouts.                                                               *)

PayoutRow ==
  [user : Employee, from : Nat, to : Nat, base : Int, net : Int, commission : Int, adj : Int,
   total : Int, status : PayoutStatus, paid : BOOLEAN]

Snapshotting(c) == pc[c] \in {"employee", "sales", "active", "insert"}
Editing(c) == pc[c] \in {"find", "update"}

(* The calls keep their payloads, and rows have the types of their columns. *)
CallTypes ==
  /\ payouts \in Seq(PayoutRow)
  /\ pc \in [Call -> PC]
  /\ request = [c \in Call |-> request[c]]
  /\ seen = [c \in Call |-> seen[c]]
  /\ \A c \in Call :
       seen[c] = [worker |-> seen[c].worker, gross |-> seen[c].gross,
                  refunds |-> seen[c].refunds, charges |-> seen[c].charges,
                  payout |-> seen[c].payout]
  /\ \A c \in Call : Snapshotting(c) => request[c] \in Snapshot
  /\ \A c \in Call :
       Editing(c) => request[c].payout \in DOMAIN payouts /\ request[c].edit \in Edit

(* However old the payout an edit has read is, its salary and commission   *)
(* are still those of the row: what is left of its total without its       *)
(* adjustment is their sum.                                                *)
ReadsAddUp ==
  \A c \in Call :
    pc[c] = "update" =>
      /\ seen[c].payout \in PayoutRow
      /\ seen[c].payout.total - seen[c].payout.adj =
           payouts[request[c].payout].base + payouts[request[c].payout].commission

AddUpInv == CallTypes /\ TotalAddsUp /\ ReadsAddUp

-----------------------------------------------------------------------------
(* The row a storable snapshot becomes has the types of the columns and    *)
(* adds up: what createPayoutSnapshot inserts.                             *)
LEMMA NewPayoutAddsUp ==
  ASSUME NEW payload \in Snapshot, NEW read, Storable(NewPayout(payload, read))
  PROVE  /\ NewPayout(payload, read) \in PayoutRow
         /\ NewPayout(payload, read).total =
              NewPayout(payload, read).base + NewPayout(payload, read).commission
                + NewPayout(payload, read).adj
<1> DEFINE new == NewPayout(payload, read)
           earned == Commission(Net(read.gross, read.refunds, read.charges), read.worker)
<1>1. /\ new.user = payload.user /\ new.from = payload.from /\ new.to = payload.to
      /\ new.status = "DRAFT" /\ new.paid = FALSE
      /\ new.commission = earned /\ new.base = read.worker.base /\ new.adj = payload.adj
      /\ new.total = read.worker.base + earned + payload.adj
  BY DEF NewPayout
<1>2. new.base \in Int /\ new.net \in Int /\ new.commission \in Int /\ new.adj \in Int
        /\ new.total \in Int
  BY MaxAssumption DEF Storable
<1>3. payload.user \in Employee /\ payload.from \in Nat /\ payload.to \in Nat
  BY SnapshotAssumption
<1>4. new = [user |-> new.user, from |-> new.from, to |-> new.to, base |-> new.base,
             net |-> new.net, commission |-> new.commission, adj |-> new.adj,
             total |-> new.total, status |-> new.status, paid |-> new.paid]
  BY DEF NewPayout
<1>5. new \in PayoutRow
  <2> HIDE DEF new
  <2> QED BY <1>1, <1>2, <1>3, <1>4 DEF PayoutRow, PayoutStatus
<1> QED
  BY <1>1, <1>5

(* An edit applied to a row, from a payout of the same salary and          *)
(* commission, leaves a row of the same user, period, salary and           *)
(* commission whose total adds up.                                         *)
LEMMA EditedAddsUp ==
  ASSUME NEW row \in PayoutRow, NEW read \in PayoutRow, NEW edit \in Edit,
         row.total = row.base + row.commission + row.adj,
         read.total - read.adj = row.base + row.commission
  PROVE  LET new == Edited(row, read, edit)
         IN /\ new \in PayoutRow
            /\ new.total = new.base + new.commission + new.adj
            /\ new.base = row.base /\ new.commission = row.commission
            /\ new.user = row.user /\ new.from = row.from /\ new.to = row.to
<1> DEFINE money == IF edit.adj = Unset THEN row
                    ELSE [row EXCEPT !.adj = edit.adj, !.total = Readjusted(read, edit.adj)]
<1>1. edit.adj \in Int \cup {Unset} /\ edit.status \in PayoutStatus \cup {Unset}
  BY EditAssumption
<1>2. /\ money \in PayoutRow
      /\ money.total = money.base + money.commission + money.adj
      /\ money.base = row.base /\ money.commission = row.commission
      /\ money.user = row.user /\ money.from = row.from /\ money.to = row.to
  <2>1. CASE edit.adj = Unset
    BY <2>1
  <2>2. CASE edit.adj # Unset
    <3>1. read.total \in Int /\ read.adj \in Int /\ row.base \in Int /\ row.commission \in Int
      BY DEF PayoutRow
    <3>2. Readjusted(read, edit.adj) = row.base + row.commission + edit.adj
      BY <1>1, <2>2, <3>1 DEF Readjusted
    <3>3. PICK adj \in Int, total \in Int :
            adj = edit.adj /\ total = row.base + row.commission + adj
      BY <1>1, <2>2, <3>1
    <3>4. money = [row EXCEPT !.adj = adj, !.total = total]
      BY <2>2, <3>2, <3>3
    <3> HIDE DEF money
    <3>5. money \in PayoutRow
      BY <3>4 DEF PayoutRow
    <3> QED
      BY <3>3, <3>4, <3>5 DEF PayoutRow
  <2> QED BY <2>1, <2>2
<1>3. Edited(row, read, edit) =
        IF edit.status = Unset THEN money
        ELSE [money EXCEPT !.status = edit.status, !.paid = (edit.status = "PAID")]
  BY DEF Edited
<1> HIDE DEF money
<1> QED
  BY <1>1, <1>2, <1>3 DEF PayoutRow

-----------------------------------------------------------------------------
(* Calls that do not overlap: one of them runs at a time, and nothing      *)
(* comes between its check and its insert.                                 *)
OneRuns ==
  ~overlapped => \A c, d \in Call : pc[c] \in Running /\ pc[d] \in Running => c = d
CheckStillHolds ==
  ~overlapped => \A c \in Call : pc[c] = "insert" => ~HasActive(request[c])

PayoutsInv == AddUpInv /\ OneRuns /\ CheckStillHolds /\ OneActivePayout

LEMMA InitInv == PayoutsInit => PayoutsInv
BY DEF PayoutsInit, PayoutsInv, AddUpInv, CallTypes, TotalAddsUp, ReadsAddUp, OneRuns,
       CheckStillHolds, OneActivePayout, PayoutRow, PC, Running, Blank, Snapshotting, Editing

(* A step that leaves payouts as they are and at most ends calls or moves  *)
(* one before its insert and its update: everything but the writes.        *)
(* The environment changes nothing the invariant is about.                 *)
LEMMA SalesKeepInv ==
  ASSUME PayoutsInv, OnlySales
  PROVE  PayoutsInv'
BY DEF PayoutsInv, AddUpInv, CallTypes, TotalAddsUp, ReadsAddUp, OneRuns, CheckStillHolds,
       OneActivePayout, OnlySales, HasActive, Snapshotting, Editing

(* A call that ends without a write.                                       *)
LEMMA RefusedInv ==
  ASSUME PayoutsInv, NEW c \in Call, Ends(c, "refused"), UNCHANGED <<payouts, overlapped, revived>>
  PROVE  PayoutsInv'
<1>1. CallTypes'
  BY DEF PayoutsInv, AddUpInv, CallTypes, Ends, Goes, Blank, Snapshotting, Editing, PC
<1>2. TotalAddsUp' /\ OneActivePayout'
  BY DEF PayoutsInv, AddUpInv, TotalAddsUp, OneActivePayout
<1>3. \A d \in Call \ {c} : pc'[d] = pc[d] /\ request'[d] = request[d] /\ seen'[d] = seen[d]
  BY DEF PayoutsInv, AddUpInv, CallTypes, Ends, Goes
<1>4. pc'[c] = "refused"
  BY DEF PayoutsInv, AddUpInv, CallTypes, Ends, Goes
<1>5. ReadsAddUp'
  BY <1>3, <1>4 DEF PayoutsInv, AddUpInv, ReadsAddUp
<1>6. OneRuns'
  BY <1>3, <1>4 DEF PayoutsInv, OneRuns, Running
<1>7. CheckStillHolds'
  BY <1>3, <1>4 DEF PayoutsInv, CheckStillHolds, HasActive
<1> QED
  BY <1>1, <1>2, <1>5, <1>6, <1>7 DEF PayoutsInv, AddUpInv

(* A call moves on without writing: past its reads of users, orders and    *)
(* adjustments, or past its check for an active payout.                    *)
LEMMA AdvanceInv ==
  ASSUME PayoutsInv, NEW c \in Call, NEW where, Goes(c, where), Snapshotting(c),
         where \in {"sales", "active"} \/ (where = "insert" /\ ~HasActive(request[c])),
         UNCHANGED <<payouts, request, overlapped, revived>>,
         \E s : /\ seen' = [seen EXCEPT ![c] = s]
                /\ s = [worker |-> s.worker, gross |-> s.gross, refunds |-> s.refunds,
                        charges |-> s.charges, payout |-> s.payout]
  PROVE  PayoutsInv'
<1>1. \A d \in Call \ {c} : pc'[d] = pc[d] /\ seen'[d] = seen[d]
  BY DEF PayoutsInv, AddUpInv, CallTypes, Goes
<1>2. pc'[c] = where
  BY DEF PayoutsInv, AddUpInv, CallTypes, Goes
<1>3. CallTypes'
  <2>1. pc' \in [Call -> PC]
    BY DEF PayoutsInv, AddUpInv, CallTypes, Goes, PC, Running
  <2>2. /\ seen' = [d \in Call |-> seen'[d]]
        /\ \A d \in Call :
             seen'[d] = [worker |-> seen'[d].worker, gross |-> seen'[d].gross,
                         refunds |-> seen'[d].refunds, charges |-> seen'[d].charges,
                         payout |-> seen'[d].payout]
    <3>1. PICK s : /\ seen' = [seen EXCEPT ![c] = s]
                   /\ s = [worker |-> s.worker, gross |-> s.gross, refunds |-> s.refunds,
                           charges |-> s.charges, payout |-> s.payout]
      OBVIOUS
    <3> QED BY <3>1 DEF PayoutsInv, AddUpInv, CallTypes
  <2>3. \A d \in Call : Snapshotting(d)' => request'[d] \in Snapshot
    BY <1>1, <1>2 DEF PayoutsInv, AddUpInv, CallTypes, Snapshotting
  <2>4. \A d \in Call : Editing(d)' => request'[d].payout \in DOMAIN payouts' /\ request'[d].edit \in Edit
    BY <1>1, <1>2 DEF PayoutsInv, AddUpInv, CallTypes, Editing
  <2> QED
    BY <2>1, <2>2, <2>3, <2>4 DEF PayoutsInv, AddUpInv, CallTypes
<1>4. TotalAddsUp' /\ OneActivePayout'
  BY DEF PayoutsInv, AddUpInv, TotalAddsUp, OneActivePayout
<1>5. ReadsAddUp'
  BY <1>1, <1>2 DEF PayoutsInv, AddUpInv, ReadsAddUp
<1>6. pc[c] \in Running
  BY DEF Snapshotting, Running
<1>7. OneRuns'
  BY <1>1, <1>2, <1>6 DEF PayoutsInv, OneRuns
<1>8. CheckStillHolds'
  BY <1>1, <1>2 DEF PayoutsInv, CheckStillHolds, HasActive
<1> QED
  BY <1>3, <1>4, <1>5, <1>7, <1>8 DEF PayoutsInv, AddUpInv

(* A call begins.                                                          *)
LEMMA ArriveInv ==
  ASSUME PayoutsInv, NEW c \in Call, NEW payload, NEW first, Arrive(c, payload, first),
         \/ first = "refused"
         \/ first = "employee" /\ payload \in Snapshot
         \/ first = "find" /\ payload.payout \in DOMAIN payouts /\ payload.edit \in Edit
  PROVE  PayoutsInv'
<1>1. \A d \in Call \ {c} : pc'[d] = pc[d] /\ request'[d] = request[d]
  BY DEF PayoutsInv, AddUpInv, CallTypes, Arrive
<1>2. pc'[c] = first /\ request'[c] = payload
  BY DEF PayoutsInv, AddUpInv, CallTypes, Arrive
<1>3. CallTypes'
  <2>1. pc' \in [Call -> PC] /\ request' = [d \in Call |-> request'[d]]
    BY DEF PayoutsInv, AddUpInv, CallTypes, Arrive, PC, Running
  <2> QED
    BY <2>1, <1>1, <1>2 DEF PayoutsInv, AddUpInv, CallTypes, Arrive, Snapshotting, Editing
<1>4. TotalAddsUp' /\ OneActivePayout'
  BY DEF PayoutsInv, AddUpInv, TotalAddsUp, OneActivePayout, Arrive
<1>5. ReadsAddUp'
  BY <1>1, <1>2 DEF PayoutsInv, AddUpInv, ReadsAddUp, Arrive
<1>6. OneRuns'
  BY <1>1, <1>2 DEF PayoutsInv, OneRuns, Arrive
<1>7. CheckStillHolds'
  BY <1>1, <1>2 DEF PayoutsInv, CheckStillHolds, HasActive, Arrive
<1> QED
  BY <1>3, <1>4, <1>5, <1>6, <1>7 DEF PayoutsInv, AddUpInv

(* The insert.                                                             *)
LEMMA InsertInv ==
  ASSUME PayoutsInv, NEW c \in Call, InsertPayout(c), Storable(NewPayout(request[c], seen[c]))
  PROVE  PayoutsInv'
<1> DEFINE new == NewPayout(request[c], seen[c])
<1>0. payouts' = Append(payouts, new) /\ Ends(c, "done") /\ pc[c] = "insert"
        /\ overlapped' = overlapped /\ revived' = revived
  BY DEF InsertPayout, NoHistory
<1>1. /\ request[c] \in Snapshot
      /\ new \in PayoutRow /\ new.total = new.base + new.commission + new.adj
  BY <1>0, NewPayoutAddsUp DEF PayoutsInv, AddUpInv, CallTypes, Snapshotting
<1>2. new.user = request[c].user /\ new.from = request[c].from /\ new.to = request[c].to
  BY DEF NewPayout
<1> HIDE DEF new
<1>3. payouts \in Seq(PayoutRow)
  BY DEF PayoutsInv, AddUpInv, CallTypes
<1>4. /\ payouts' \in Seq(PayoutRow) /\ Len(payouts') = Len(payouts) + 1
      /\ payouts'[Len(payouts) + 1] = new
      /\ \A i \in 1 .. Len(payouts) : payouts'[i] = payouts[i]
  BY <1>0, <1>1, <1>3
<1>5. /\ DOMAIN payouts = 1 .. Len(payouts) /\ Len(payouts) \in Nat
      /\ DOMAIN payouts' = 1 .. (Len(payouts) + 1)
  BY <1>3, <1>4
<1>6. /\ \A d \in Call \ {c} : pc'[d] = pc[d] /\ request'[d] = request[d] /\ seen'[d] = seen[d]
      /\ pc'[c] = "done"
  BY <1>0 DEF PayoutsInv, AddUpInv, CallTypes, Ends, Goes
<1>7. CallTypes'
  <2>1. pc' \in [Call -> PC] /\ request' = [d \in Call |-> request'[d]]
          /\ seen' = [d \in Call |-> seen'[d]]
    BY <1>0 DEF PayoutsInv, AddUpInv, CallTypes, Ends, Goes, PC
  <2>2. seen'[c] = Blank
    BY <1>0 DEF PayoutsInv, AddUpInv, CallTypes, Ends
  <2>3. \A d \in Call :
          seen'[d] = [worker |-> seen'[d].worker, gross |-> seen'[d].gross,
                      refunds |-> seen'[d].refunds, charges |-> seen'[d].charges,
                      payout |-> seen'[d].payout]
    BY <2>2, <1>6 DEF PayoutsInv, AddUpInv, CallTypes, Blank
  <2>4. \A d \in Call : Snapshotting(d)' => request'[d] \in Snapshot
    BY <1>6 DEF PayoutsInv, AddUpInv, CallTypes, Snapshotting
  <2>5. \A d \in Call :
          Editing(d)' => request'[d].payout \in DOMAIN payouts' /\ request'[d].edit \in Edit
    BY <1>5, <1>6 DEF PayoutsInv, AddUpInv, CallTypes, Editing
  <2> QED
    BY <2>1, <2>3, <2>4, <2>5, <1>4 DEF CallTypes
<1>8. TotalAddsUp'
  BY <1>1, <1>4, <1>5 DEF PayoutsInv, AddUpInv, TotalAddsUp
<1>9. ReadsAddUp'
  BY <1>4, <1>5, <1>6 DEF PayoutsInv, AddUpInv, ReadsAddUp, CallTypes, Editing
<1>10. OneRuns'
  BY <1>0, <1>6 DEF PayoutsInv, OneRuns, Running
<1>11. CheckStillHolds'
  BY <1>0, <1>6 DEF PayoutsInv, OneRuns, CheckStillHolds, Running
<1>12. OneActivePayout'
  <2>1. ~overlapped => \A i \in 1 .. Len(payouts) :
          SamePeriod(payouts[i], request[c]) => ~Active(payouts[i])
    BY <1>0, <1>5 DEF PayoutsInv, CheckStillHolds, HasActive
  <2> QED
    BY <2>1, <1>0, <1>2, <1>4, <1>5 DEF PayoutsInv, OneActivePayout, SamePeriod, Active
<1> QED
  BY <1>7, <1>8, <1>9, <1>10, <1>11, <1>12 DEF PayoutsInv, AddUpInv

(* The update of a payout: its row has not moved, and its salary and       *)
(* commission are those the call has read.                                 *)
LEMMA UpdateInv ==
  ASSUME PayoutsInv, NEW c \in Call, UpdatePayout(c),
         Storable(Edited(payouts[request[c].payout], seen[c].payout, request[c].edit))
  PROVE  PayoutsInv'
<1> DEFINE i == request[c].payout
           new == Edited(payouts[i], seen[c].payout, request[c].edit)
<1>0. /\ payouts' = [payouts EXCEPT ![i] = new] /\ Ends(c, "done") /\ pc[c] = "update"
      /\ overlapped' = overlapped
      /\ revived' = (revived \/ (~Active(payouts[i]) /\ Active(new)))
  BY DEF UpdatePayout
<1>1. payouts \in Seq(PayoutRow) /\ i \in DOMAIN payouts /\ request[c].edit \in Edit
  BY <1>0 DEF PayoutsInv, AddUpInv, CallTypes, Editing
<1>2. payouts[i] \in PayoutRow /\ DOMAIN payouts = 1 .. Len(payouts) /\ Len(payouts) \in Nat
  BY <1>1
<1>3. /\ seen[c].payout \in PayoutRow
      /\ seen[c].payout.total - seen[c].payout.adj = payouts[i].base + payouts[i].commission
  BY <1>0 DEF PayoutsInv, AddUpInv, ReadsAddUp
<1>4. payouts[i].total = payouts[i].base + payouts[i].commission + payouts[i].adj
  BY <1>1 DEF PayoutsInv, AddUpInv, TotalAddsUp
<1>5. /\ new \in PayoutRow
      /\ new.total = new.base + new.commission + new.adj
      /\ new.base = payouts[i].base /\ new.commission = payouts[i].commission
      /\ SamePeriod(new, payouts[i])
  BY <1>1, <1>2, <1>3, <1>4, EditedAddsUp DEF SamePeriod
<1> HIDE DEF new, i
<1>6. /\ payouts' \in Seq(PayoutRow) /\ DOMAIN payouts' = DOMAIN payouts
      /\ payouts'[i] = new
      /\ \A j \in DOMAIN payouts \ {i} : payouts'[j] = payouts[j]
  BY <1>0, <1>1, <1>5
<1>7. /\ \A d \in Call \ {c} : pc'[d] = pc[d] /\ request'[d] = request[d] /\ seen'[d] = seen[d]
      /\ pc'[c] = "done"
  BY <1>0 DEF PayoutsInv, AddUpInv, CallTypes, Ends, Goes
<1>8. CallTypes'
  <2>1. pc' \in [Call -> PC] /\ request' = [d \in Call |-> request'[d]]
          /\ seen' = [d \in Call |-> seen'[d]]
    BY <1>0 DEF PayoutsInv, AddUpInv, CallTypes, Ends, Goes, PC
  <2>2. seen'[c] = Blank
    BY <1>0 DEF PayoutsInv, AddUpInv, CallTypes, Ends
  <2>3. \A d \in Call :
          seen'[d] = [worker |-> seen'[d].worker, gross |-> seen'[d].gross,
                      refunds |-> seen'[d].refunds, charges |-> seen'[d].charges,
                      payout |-> seen'[d].payout]
    BY <2>2, <1>7 DEF PayoutsInv, AddUpInv, CallTypes, Blank
  <2>4. \A d \in Call : Snapshotting(d)' => request'[d] \in Snapshot
    BY <1>7 DEF PayoutsInv, AddUpInv, CallTypes, Snapshotting
  <2>5. \A d \in Call :
          Editing(d)' => request'[d].payout \in DOMAIN payouts' /\ request'[d].edit \in Edit
    BY <1>6, <1>7 DEF PayoutsInv, AddUpInv, CallTypes, Editing
  <2> QED
    BY <2>1, <2>3, <2>4, <2>5, <1>6 DEF CallTypes
<1>9. TotalAddsUp'
  BY <1>5, <1>6 DEF PayoutsInv, AddUpInv, TotalAddsUp
<1>10. ReadsAddUp'
  <2>1. \A j \in DOMAIN payouts :
          payouts'[j].base = payouts[j].base /\ payouts'[j].commission = payouts[j].commission
    BY <1>5, <1>6
  <2>2. \A d \in Call : pc'[d] = "update" =>
          /\ d # c /\ pc[d] = "update" /\ request'[d] = request[d] /\ seen'[d] = seen[d]
          /\ request[d].payout \in DOMAIN payouts
    BY <1>7 DEF PayoutsInv, AddUpInv, CallTypes, Editing
  <2> QED
    BY <2>1, <2>2 DEF PayoutsInv, AddUpInv, ReadsAddUp
<1>11. OneRuns'
  BY <1>0, <1>7 DEF PayoutsInv, OneRuns, Running
<1>12. CheckStillHolds'
  BY <1>0, <1>7 DEF PayoutsInv, OneRuns, CheckStillHolds, Running
<1>13. OneActivePayout'
  <2>1. ~revived' => \A j \in DOMAIN payouts : Active(payouts'[j]) => Active(payouts[j])
    BY <1>0, <1>1, <1>6 DEF i, new
  <2>2. \A j \in DOMAIN payouts : SamePeriod(payouts'[j], payouts[j])
    BY <1>1, <1>5, <1>6 DEF SamePeriod
  <2>3. SUFFICES ASSUME ~overlapped', ~revived', NEW j \in DOMAIN payouts, NEW k \in DOMAIN payouts,
                         j # k, SamePeriod(payouts'[j], payouts'[k])
                  PROVE  ~(Active(payouts'[j]) /\ Active(payouts'[k]))
    BY <1>6 DEF OneActivePayout
  <2>4. ~overlapped /\ ~revived
    BY <1>0, <2>3
  <2>5. SamePeriod(payouts[j], payouts[k])
    BY <2>2, <2>3 DEF SamePeriod
  <2>6. ~(Active(payouts[j]) /\ Active(payouts[k]))
    BY <2>3, <2>4, <2>5 DEF PayoutsInv, OneActivePayout
  <2> QED
    BY <2>1, <2>3, <2>6
<1> QED
  BY <1>8, <1>9, <1>10, <1>11, <1>12, <1>13 DEF PayoutsInv, AddUpInv

(* An edit reads its payout.                                               *)
LEMMA FindInv ==
  ASSUME PayoutsInv, NEW c \in Call, FindPayout(c)
  PROVE  PayoutsInv'
<1> DEFINE i == request[c].payout
<1>0. UNCHANGED <<payouts, overlapped, revived>> /\ pc[c] = "find"
  BY DEF FindPayout, NoHistory
<1>1. CASE Ends(c, "refused")
  BY <1>0, <1>1, RefusedInv
<1>2. CASE /\ Goes(c, "update") /\ seen' = [seen EXCEPT ![c].payout = payouts[i]]
           /\ UNCHANGED request
  <2>1. /\ payouts \in Seq(PayoutRow) /\ i \in DOMAIN payouts
        /\ payouts[i] \in PayoutRow
    BY <1>0 DEF PayoutsInv, AddUpInv, CallTypes, Editing
  <2>2. /\ seen'[c] = [seen[c] EXCEPT !.payout = payouts[i]]
        /\ pc'[c] = "update"
        /\ \A d \in Call \ {c} : pc'[d] = pc[d] /\ seen'[d] = seen[d]
    BY <1>2 DEF PayoutsInv, AddUpInv, CallTypes, Goes
  <2>3. seen'[c] = [worker |-> seen[c].worker, gross |-> seen[c].gross,
                    refunds |-> seen[c].refunds, charges |-> seen[c].charges,
                    payout |-> payouts[i]]
    BY <2>2 DEF PayoutsInv, AddUpInv, CallTypes
  <2>4. CallTypes'
    <3>1. pc' \in [Call -> PC]
      BY <1>2 DEF PayoutsInv, AddUpInv, CallTypes, Goes, PC, Running
    <3>2. seen' = [d \in Call |-> seen'[d]]
      BY <1>2 DEF PayoutsInv, AddUpInv, CallTypes
    <3>3. \A d \in Call :
            seen'[d] = [worker |-> seen'[d].worker, gross |-> seen'[d].gross,
                        refunds |-> seen'[d].refunds, charges |-> seen'[d].charges,
                        payout |-> seen'[d].payout]
      BY <2>2, <2>3 DEF PayoutsInv, AddUpInv, CallTypes
    <3>4. \A d \in Call : Snapshotting(d)' => request'[d] \in Snapshot
      BY <1>2, <2>2 DEF PayoutsInv, AddUpInv, CallTypes, Snapshotting
    <3>5. \A d \in Call :
            Editing(d)' => request'[d].payout \in DOMAIN payouts' /\ request'[d].edit \in Edit
      BY <1>0, <1>2, <2>2 DEF PayoutsInv, AddUpInv, CallTypes, Editing
    <3> QED
      BY <1>0, <1>2, <3>1, <3>2, <3>3, <3>4, <3>5 DEF PayoutsInv, AddUpInv, CallTypes
  <2>5. TotalAddsUp' /\ OneActivePayout'
    BY <1>0 DEF PayoutsInv, AddUpInv, TotalAddsUp, OneActivePayout
  <2>6. payouts[i].total - payouts[i].adj = payouts[i].base + payouts[i].commission
    <3>1. payouts[i].total = payouts[i].base + payouts[i].commission + payouts[i].adj
      BY <2>1 DEF PayoutsInv, AddUpInv, TotalAddsUp
    <3>2. /\ payouts[i].base \in Int /\ payouts[i].commission \in Int
          /\ payouts[i].adj \in Int
      BY <2>1 DEF PayoutRow
    <3> HIDE DEF i
    <3> QED
      BY <3>1, <3>2
  <2>7. ReadsAddUp'
    BY <1>0, <1>2, <2>1, <2>2, <2>3, <2>6 DEF PayoutsInv, AddUpInv, ReadsAddUp
  <2>8. OneRuns'
    BY <1>0, <2>2 DEF PayoutsInv, OneRuns, Running
  <2>9. CheckStillHolds'
    BY <1>0, <1>2, <2>2 DEF PayoutsInv, CheckStillHolds, HasActive
  <2> QED
    BY <2>4, <2>5, <2>7, <2>8, <2>9 DEF PayoutsInv, AddUpInv
<1> QED
  BY <1>1, <1>2 DEF FindPayout

-----------------------------------------------------------------------------
LEMMA NextInv == PayoutsInv /\ [PayoutsNext]_payoutVars => PayoutsInv'
<1> SUFFICES ASSUME PayoutsInv, [PayoutsNext]_payoutVars PROVE PayoutsInv'
  OBVIOUS
<1>1. CASE UNCHANGED payoutVars
  BY <1>1 DEF payoutVars, sales, PayoutsInv, AddUpInv, CallTypes, TotalAddsUp, ReadsAddUp, OneRuns,
              CheckStillHolds, OneActivePayout, HasActive, Snapshotting, Editing
<1>2. CASE Environment
  BY <1>2, SalesKeepInv DEF Environment, Sell, VoidOrder, OpenAmend, CommitAmend, UpdateUser
<1>3. ASSUME NEW c \in Call, Ask(c) PROVE PayoutsInv'
  <2>1. ASSUME NEW payload \in Snapshot, AskSnapshot(c, payload) PROVE PayoutsInv'
    BY <2>1, ArriveInv DEF AskSnapshot
  <2>2. ASSUME NEW i \in DOMAIN payouts, NEW edit \in Edit, AskEdit(c, i, edit) PROVE PayoutsInv'
    BY <2>2, ArriveInv DEF AskEdit
  <2> QED
    BY <1>3, <2>1, <2>2 DEF Ask
<1>4. ASSUME NEW c \in Call, Handle(c) PROVE PayoutsInv'
  <2>0. seen[c] = [worker |-> seen[c].worker, gross |-> seen[c].gross,
                   refunds |-> seen[c].refunds, charges |-> seen[c].charges,
                   payout |-> seen[c].payout]
    BY DEF PayoutsInv, AddUpInv, CallTypes
  <2>1. CASE ReadEmployee(c)
    <3>1. CASE Ends(c, "refused")
      BY <2>1, <3>1, RefusedInv DEF ReadEmployee, NoHistory
    <3>2. CASE /\ Goes(c, "sales") /\ UNCHANGED request
               /\ seen' = [seen EXCEPT ![c].worker = user[request[c].user]]
      <4>1. seen' = [seen EXCEPT ![c] = [seen[c] EXCEPT !.worker = user[request[c].user]]]
        BY <3>2
      <4> QED
        BY <2>0, <2>1, <3>2, <4>1, AdvanceInv DEF ReadEmployee, NoHistory, Snapshotting
    <3> QED
      BY <2>1, <3>1, <3>2 DEF ReadEmployee
  <2>2. CASE ReadOrders(c)
    <3>1. seen' = [seen EXCEPT ![c] = [seen[c] EXCEPT !.gross = Gross(request[c].user, request[c])]]
      BY <2>2 DEF ReadOrders
    <3> QED
      BY <2>0, <2>2, <3>1, AdvanceInv DEF ReadOrders, NoHistory, Snapshotting
  <2>3. CASE ReadAdjustments(c)
    <3>1. seen' = [seen EXCEPT ![c] =
             [seen[c] EXCEPT !.refunds = Refunds(request[c].user, request[c]),
                             !.charges = Charges(request[c].user, request[c])]]
      BY <2>3 DEF ReadAdjustments
    <3> QED
      BY <2>0, <2>3, <3>1, AdvanceInv DEF ReadAdjustments, NoHistory, Snapshotting
  <2>4. CASE CheckActive(c)
    <3>1. CASE HasActive(request[c])
      BY <2>4, <3>1, RefusedInv DEF CheckActive, NoHistory
    <3>2. CASE ~HasActive(request[c])
      <4>1. seen' = [seen EXCEPT ![c] = seen[c]]
        BY <2>4, <3>2 DEF CheckActive, PayoutsInv, AddUpInv, CallTypes
      <4> QED
        BY <2>0, <2>4, <3>2, <4>1, AdvanceInv DEF CheckActive, NoHistory, Snapshotting
    <3> QED
      BY <3>1, <3>2
  <2>5. CASE InsertPayout(c)
    BY <2>5, InsertInv, RefusedInv DEF InsertPayout, NoHistory
  <2>6. CASE FindPayout(c)
    BY <2>6, FindInv
  <2>7. CASE UpdatePayout(c)
    BY <2>7, UpdateInv, RefusedInv DEF UpdatePayout
  <2> QED
    BY <1>4, <2>1, <2>2, <2>3, <2>4, <2>5, <2>6, <2>7 DEF Handle
<1>5. CASE Terminating
  BY <1>1, <1>5 DEF Terminating
<1> QED
  BY <1>1, <1>2, <1>3, <1>4, <1>5 DEF PayoutsNext

(* The inductive invariant of the payouts: types, what a call still to     *)
(* write has read, and that serial calls check and insert undisturbed.     *)
THEOREM PayoutsInvariant == PayoutsSpec => []PayoutsInv
  BY InitInv, NextInv, PTL DEF PayoutsSpec

(* createPayoutSnapshot and updatePayout: in every behaviour, of any       *)
(* number of calls, a payout's total is the sum of its parts.              *)
THEOREM PayoutsAddUp == PayoutsSpec => []TotalAddsUp
<1>1. PayoutsInv => TotalAddsUp
  BY DEF PayoutsInv, AddUpInv
<1> QED
  BY <1>1, PayoutsInvariant, PTL

(* createPayoutSnapshot: without overlapping calls or a cancelled payout   *)
(* taken back, a user and period have one active payout at most.           *)
THEOREM PayoutsOneActive == PayoutsSpec => []OneActivePayout
<1>1. PayoutsInv => OneActivePayout
  BY DEF PayoutsInv
<1> QED
  BY <1>1, PayoutsInvariant, PTL

-----------------------------------------------------------------------------
(* What a call that takes a snapshot remembers of the sales: unless an     *)
(* adjustment wrote over an order that had changed, what was refunded or   *)
(* voided when it was asked for still is, so its gross sales leave that    *)
(* out; and what it has read or will read of the adjustments has at least  *)
(* the refunds made by then, and no charge that was not made.              *)
UnspoiledSales(c) ==
  SumFunctionOnSet(grandTotal, Unspoiled(request[c].user, request[c], asked[c].spoiled))

RemembersSales(c) ==
  /\ asked[c].spoiled \in SUBSET Order /\ asked[c].refunds \in Nat
  /\ ~outdated => \A o \in asked[c].spoiled : status[o] \notin {Unset, "COMPLETED"}
  /\ asked[c].refunds <= Refunds(request[c].user, request[c])
  /\ seen[c].gross # Unset =>
       seen[c].gross \in Nat /\ (~outdated => seen[c].gross <= UnspoiledSales(c))
  /\ seen[c].refunds # Unset =>
       /\ seen[c].refunds \in Nat /\ asked[c].refunds <= seen[c].refunds
       /\ seen[c].charges \in Nat
       /\ seen[c].charges <= Charges(request[c].user, request[c])
  /\ pc[c] \in {"active", "insert"} => seen[c].gross # Unset /\ seen[c].refunds # Unset

SalesInv ==
  /\ amended \in SUBSET Amendment /\ DOMAIN status = Order
  /\ DOMAIN asked = Call /\ DOMAIN seen = Call /\ DOMAIN pc = Call /\ DOMAIN request = Call
  /\ \A c \in Call : seen[c] = [worker |-> seen[c].worker, gross |-> seen[c].gross,
                                refunds |-> seen[c].refunds, charges |-> seen[c].charges,
                                payout |-> seen[c].payout]
  /\ \A c \in Call : pc[c] = "idle" => seen[c] = Blank
  /\ \A c \in Call : Snapshotting(c) => RemembersSales(c)

LEMMA AmountsAreNat ==
  /\ NatValued(grandTotal, Order) /\ IntValued(grandTotal, Order)
  /\ NatValued(refundAmount, Amendment) /\ IntValued(refundAmount, Amendment)
  /\ NatValued(chargeAmount, Amendment) /\ IntValued(chargeAmount, Amendment)
BY SoldAssumption, AmendmentAssumption
   DEF grandTotal, refundAmount, chargeAmount, NatValued, IntValued

LEMMA PartOfAmounts ==
  /\ \A T \in SUBSET Order : IsFiniteSet(T) /\ SumFunctionOnSet(grandTotal, T) \in Nat
  /\ \A T \in SUBSET Amendment : /\ IsFiniteSet(T)
                                 /\ SumFunctionOnSet(refundAmount, T) \in Nat
                                 /\ SumFunctionOnSet(chargeAmount, T) \in Nat
<1>1. ASSUME NEW T \in SUBSET Order
      PROVE  IsFiniteSet(T) /\ SumFunctionOnSet(grandTotal, T) \in Nat
  <2>1. IsFiniteSet(T) /\ NatValued(grandTotal, T)
    BY AmountsAreNat, FiniteAssumption, FS_Subset DEF NatValued
  <2> QED
    BY <2>1, SumNat
<1>2. ASSUME NEW T \in SUBSET Amendment
      PROVE  /\ IsFiniteSet(T) /\ SumFunctionOnSet(refundAmount, T) \in Nat
             /\ SumFunctionOnSet(chargeAmount, T) \in Nat
  <2>1. IsFiniteSet(T) /\ NatValued(refundAmount, T) /\ NatValued(chargeAmount, T)
    BY AmountsAreNat, FiniteAssumption, FS_Subset DEF NatValued
  <2> QED
    BY <2>1, SumNat
<1> QED
  BY <1>1, <1>2

LEMMA EarnedIsNat ==
  ASSUME NEW e, NEW period, amended \in SUBSET Amendment
  PROVE  Gross(e, period) \in Nat /\ Refunds(e, period) \in Nat /\ Charges(e, period) \in Nat
<1>1. SalesOf(e, period) \in SUBSET Order /\ AmendedBy(e, period) \in SUBSET Amendment
  BY DEF SalesOf, AmendedBy
<1> QED
  BY <1>1, PartOfAmounts DEF Gross, Refunds, Charges

(* Adjustments only ever add to what a period shows.                       *)
LEMMA EarnedGrows ==
  ASSUME NEW e, NEW period, amended \subseteq amended', amended' \in SUBSET Amendment
  PROVE  /\ SumFunctionOnSet(refundAmount, AmendedBy(e, period))
              <= SumFunctionOnSet(refundAmount, AmendedBy(e, period)')
         /\ SumFunctionOnSet(chargeAmount, AmendedBy(e, period))
              <= SumFunctionOnSet(chargeAmount, AmendedBy(e, period)')
<1> DEFINE before == AmendedBy(e, period)
           after == {a \in amended' : Sold[a.order].by = e /\ Within(period, a.day)}
<1>1. before \in SUBSET after /\ after \in SUBSET Amendment
  BY DEF AmendedBy
<1>2. IsFiniteSet(after) /\ NatValued(refundAmount, after) /\ NatValued(chargeAmount, after)
  BY <1>1, PartOfAmounts, AmountsAreNat DEF NatValued
<1>3. after = AmendedBy(e, period)'
  BY DEF AmendedBy
<1> HIDE DEF before, after
<1>4. /\ SumFunctionOnSet(refundAmount, before) <= SumFunctionOnSet(refundAmount, after)
      /\ SumFunctionOnSet(chargeAmount, before) <= SumFunctionOnSet(chargeAmount, after)
  BY <1>1, <1>2, SumPart
<1> QED
  BY <1>3, <1>4 DEF before

LEMMA SalesStart == PayoutsInit => SalesInv
<1> SUFFICES ASSUME PayoutsInit PROVE SalesInv
  OBVIOUS
<1>1. amended = {} /\ DOMAIN status = Order /\ DOMAIN asked = Call /\ DOMAIN seen = Call
      /\ DOMAIN pc = Call /\ DOMAIN request = Call
  BY DEF PayoutsInit
<1>2. \A c \in Call : seen[c] = Blank /\ pc[c] = "idle"
  BY DEF PayoutsInit
<1> QED
  BY <1>1, <1>2 DEF SalesInv, Blank, Snapshotting

(* The sales change under a call: what it read stays, and what it          *)
(* remembers as refunded or voided is not sold again.                      *)
LEMMA SalesChangeUnder ==
  ASSUME SalesInv, UNCHANGED <<pc, request, seen, asked>>,
         amended \subseteq amended', amended' \in SUBSET Amendment, DOMAIN status' = Order,
         outdated => outdated',
         ~outdated' => \A o \in Order :
            status[o] \notin {Unset, "COMPLETED"} => status'[o] \notin {Unset, "COMPLETED"}
  PROVE  SalesInv'
<1>1. ASSUME NEW c \in Call, Snapshotting(c) PROVE RemembersSales(c)'
  <2> DEFINE e == request[c].user
             period == request[c]
  <2>0. RemembersSales(c)
    BY <1>1 DEF SalesInv
  <2>1. /\ Refunds(e, period) <= Refunds(e, period)' /\ Charges(e, period) <= Charges(e, period)'
    <3>1. /\ SumFunctionOnSet(refundAmount, AmendedBy(e, period))
                <= SumFunctionOnSet(refundAmount, AmendedBy(e, period)')
          /\ SumFunctionOnSet(chargeAmount, AmendedBy(e, period))
                <= SumFunctionOnSet(chargeAmount, AmendedBy(e, period)')
      BY EarnedGrows
    <3>2. /\ Refunds(e, period) = SumFunctionOnSet(refundAmount, AmendedBy(e, period))
          /\ Refunds(e, period)' = SumFunctionOnSet(refundAmount, AmendedBy(e, period)')
          /\ Charges(e, period) = SumFunctionOnSet(chargeAmount, AmendedBy(e, period))
          /\ Charges(e, period)' = SumFunctionOnSet(chargeAmount, AmendedBy(e, period)')
      BY DEF Refunds, Charges, refundAmount, chargeAmount
    <3> QED
      BY <3>1, <3>2
  <2>2. /\ Refunds(e, period) \in Nat /\ Charges(e, period) \in Nat
        /\ Refunds(e, period)' \in Nat /\ Charges(e, period)' \in Nat
    <3>1. Refunds(e, period) \in Nat /\ Charges(e, period) \in Nat
      BY EarnedIsNat DEF SalesInv
    <3>2. AmendedBy(e, period)' \in SUBSET Amendment
      BY DEF AmendedBy
    <3>3. /\ Refunds(e, period)' = SumFunctionOnSet(refundAmount, AmendedBy(e, period)')
          /\ Charges(e, period)' = SumFunctionOnSet(chargeAmount, AmendedBy(e, period)')
      BY DEF Refunds, Charges, refundAmount, chargeAmount
    <3> QED
      BY <3>1, <3>2, <3>3, PartOfAmounts
  <2>3. UnspoiledSales(c)' = UnspoiledSales(c)
    BY DEF UnspoiledSales, Unspoiled, grandTotal
  <2> HIDE DEF e, period
  <2>4. /\ Refunds(request[c].user, request[c])' = Refunds(e, period)'
        /\ Charges(request[c].user, request[c])' = Charges(e, period)'
        /\ Refunds(request[c].user, request[c]) = Refunds(e, period)
        /\ Charges(request[c].user, request[c]) = Charges(e, period)
    BY DEF e, period
  <2>5. \A x, y, z \in Int : x <= y /\ y <= z => x <= z
    OBVIOUS
  <2>6. seen[c].charges \in Nat => seen[c].charges \in Int
    OBVIOUS
  <2>7. asked[c].refunds <= Refunds(request[c].user, request[c])'
    BY <2>0, <2>1, <2>2, <2>4, <2>5 DEF RemembersSales
  <2>8. seen[c].refunds # Unset => seen[c].charges <= Charges(request[c].user, request[c])'
    BY <2>0, <2>1, <2>2, <2>4, <2>5 DEF RemembersSales
  <2>9. ~outdated' => \A o \in asked[c].spoiled : status'[o] \notin {Unset, "COMPLETED"}
    BY <2>0 DEF RemembersSales
  <2> QED
    BY <2>0, <2>3, <2>7, <2>8, <2>9 DEF RemembersSales
<1>2. \A c \in Call : Snapshotting(c)' = Snapshotting(c)
  BY DEF Snapshotting
<1> QED
  BY <1>1, <1>2 DEF SalesInv

LEMMA SalesNext ==
  ASSUME SalesInv, Environment
  PROVE  SalesInv'
<1>0. "COMPLETED" # Unset /\ "CANCELLED" # Unset /\ "REFUNDED" # Unset /\ "PARTIALLY_REFUNDED" # Unset
  BY UnsetAssumption DEF OrderStatus
<1>1. ASSUME NEW o \in Order, Sell(o) PROVE SalesInv'
  BY <1>1, SalesChangeUnder DEF Sell, OnlySales, SalesInv
<1>2. ASSUME NEW o \in Order, VoidOrder(o) PROVE SalesInv'
  BY <1>0, <1>2, SalesChangeUnder DEF VoidOrder, OnlySales, SalesInv
<1>3. ASSUME NEW a \in Amendment, OpenAmend(a) PROVE SalesInv'
  BY <1>3, SalesChangeUnder DEF OpenAmend, OnlySales, SalesInv
<1>4. ASSUME NEW a \in Amendment, CommitAmend(a) PROVE SalesInv'
  <2>1. a.order \in Order /\ UNCHANGED <<pc, request, seen, asked>>
    BY <1>4, AmendmentAssumption DEF CommitAmend, OnlySales
  <2>2. amended' = amended \cup {a} /\ (outdated => outdated') /\ DOMAIN status' = Order
        /\ \A o \in Order \ {a.order} : status'[o] = status[o]
    BY <1>4, <2>1 DEF CommitAmend, SalesInv
  <2>3. ~outdated' => draft[a].status = status[a.order]
    <3>1. outdated' = (outdated \/ draft[a] # OrderRow(a.order))
      BY <1>4 DEF CommitAmend
    <3>2. ~outdated' => draft[a] = OrderRow(a.order)
      BY <3>1, Zenon
    <3>3. OrderRow(a.order).status = status[a.order]
      BY DEF OrderRow
    <3> QED
      BY <3>2, <3>3
  <2>4. status'[a.order] \in {"REFUNDED", "PARTIALLY_REFUNDED", draft[a].status}
    BY <1>4, <2>1 DEF CommitAmend, SalesInv
  <2> QED
    BY <1>0, <2>1, <2>2, <2>3, <2>4, SalesChangeUnder DEF SalesInv
<1>5. ASSUME NEW e \in Employee, NEW row \in UserChange, UpdateUser(e, row) PROVE SalesInv'
  BY <1>5, SalesChangeUnder DEF UpdateUser, OnlySales, SalesInv
<1> QED
  BY <1>1, <1>2, <1>3, <1>4, <1>5 DEF Environment

(* The steps of a call leave the sales, and what other calls know, alone.  *)
LEMMA CallSteps ==
  ASSUME SalesInv, NEW c \in Call, UNCHANGED sales,
         DOMAIN asked' = Call, DOMAIN seen' = Call, DOMAIN pc' = Call, DOMAIN request' = Call,
         \A d \in Call \ {c} : /\ pc'[d] = pc[d] /\ request'[d] = request[d]
                               /\ seen'[d] = seen[d] /\ asked'[d] = asked[d],
         seen'[c] = [worker |-> seen'[c].worker, gross |-> seen'[c].gross,
                     refunds |-> seen'[c].refunds, charges |-> seen'[c].charges,
                     payout |-> seen'[c].payout],
         pc'[c] = "idle" => seen'[c] = Blank,
         Snapshotting(c)' => RemembersSales(c)'
  PROVE  SalesInv'
<1>1. UNCHANGED <<status, amended, outdated>>
  BY DEF sales
<1>2. \A d \in Call \ {c} : Snapshotting(d)' = Snapshotting(d)
  BY DEF Snapshotting
<1>3. ASSUME NEW d \in Call \ {c}, RemembersSales(d) PROVE RemembersSales(d)'
  <2>1. UnspoiledSales(d)' = UnspoiledSales(d)
    BY DEF UnspoiledSales, Unspoiled, grandTotal
  <2>2. /\ Refunds(request[d].user, request[d])' = Refunds(request[d].user, request[d])
        /\ Charges(request[d].user, request[d])' = Charges(request[d].user, request[d])
    BY <1>1 DEF Refunds, Charges, AmendedBy, refundAmount, chargeAmount
  <2> QED
    BY <1>1, <1>3, <2>1, <2>2 DEF RemembersSales
<1> QED
  BY <1>1, <1>2, <1>3 DEF SalesInv

(* What a call has read, once it reads one thing more.                     *)
LEMMA ReadsOneMore ==
  ASSUME NEW r, NEW x,
         r = [worker |-> r.worker, gross |-> r.gross, refunds |-> r.refunds,
              charges |-> r.charges, payout |-> r.payout]
  PROVE  /\ [r EXCEPT !.worker = x] =
              [worker |-> x, gross |-> r.gross, refunds |-> r.refunds,
               charges |-> r.charges, payout |-> r.payout]
         /\ [r EXCEPT !.gross = x] =
              [worker |-> r.worker, gross |-> x, refunds |-> r.refunds,
               charges |-> r.charges, payout |-> r.payout]
         /\ [r EXCEPT !.refunds = x] =
              [worker |-> r.worker, gross |-> r.gross, refunds |-> x,
               charges |-> r.charges, payout |-> r.payout]
         /\ [r EXCEPT !.charges = x] =
              [worker |-> r.worker, gross |-> r.gross, refunds |-> r.refunds,
               charges |-> x, payout |-> r.payout]
<1> DEFINE w == r.worker  g == r.gross  f == r.refunds  k == r.charges  p == r.payout
<1>1. r = [worker |-> w, gross |-> g, refunds |-> f, charges |-> k, payout |-> p]
  OBVIOUS
<1> HIDE DEF w, g, f, k, p
<1>2. r \in [worker : {w}, gross : {g}, refunds : {f}, charges : {k}, payout : {p}]
  BY <1>1
<1>3. r.worker = w /\ r.gross = g /\ r.refunds = f /\ r.charges = k /\ r.payout = p
  BY DEF w, g, f, k, p
<1>4. [r EXCEPT !.worker = x] =
        [worker |-> x, gross |-> g, refunds |-> f, charges |-> k, payout |-> p]
  BY <1>2
<1>5. [r EXCEPT !.gross = x] =
        [worker |-> w, gross |-> x, refunds |-> f, charges |-> k, payout |-> p]
  BY <1>2
<1>6. [r EXCEPT !.refunds = x] =
        [worker |-> w, gross |-> g, refunds |-> x, charges |-> k, payout |-> p]
  BY <1>2
<1>7. [r EXCEPT !.charges = x] =
        [worker |-> w, gross |-> g, refunds |-> f, charges |-> x, payout |-> p]
  BY <1>2
<1> QED
  BY <1>3, <1>4, <1>5, <1>6, <1>7

LEMMA CallStep ==
  ASSUME PayoutsInv, SalesInv, NEW c \in Call, Ask(c) \/ Handle(c)
  PROVE  SalesInv'
<1> DEFINE e == request[c].user
           period == request[c]
<1>0. /\ DOMAIN asked = Call /\ DOMAIN seen = Call /\ DOMAIN pc = Call /\ DOMAIN request = Call
      /\ amended \in SUBSET Amendment
      /\ seen[c] = [worker |-> seen[c].worker, gross |-> seen[c].gross,
                    refunds |-> seen[c].refunds, charges |-> seen[c].charges,
                    payout |-> seen[c].payout]
  BY DEF SalesInv
<1>1. ASSUME NEW how \in {"done", "refused"}, Ends(c, how), UNCHANGED sales PROVE SalesInv'
  <2>1. pc'[c] = how /\ seen'[c] = Blank
        /\ \A d \in Call \ {c} : /\ pc'[d] = pc[d] /\ request'[d] = request[d]
                                 /\ seen'[d] = seen[d] /\ asked'[d] = asked[d]
    BY <1>0, <1>1 DEF Ends, Goes
  <2>2. DOMAIN asked' = Call /\ DOMAIN seen' = Call /\ DOMAIN pc' = Call /\ DOMAIN request' = Call
    BY <1>0, <1>1 DEF Ends, Goes
  <2>3. ~Snapshotting(c)'
    BY <2>1 DEF Snapshotting
  <2> QED
    BY <1>1, <2>1, <2>2, <2>3, CallSteps DEF Blank
<1>2. ASSUME NEW payload \in Snapshot, AskSnapshot(c, payload) PROVE SalesInv'
  <2>1. /\ pc[c] = "idle" /\ UNCHANGED <<sales, seen>> /\ request'[c] = payload
        /\ pc'[c] \in {"refused", "employee"}
        /\ asked'[c] = [spoiled |-> Spoiled, refunds |-> Refunds(payload.user, payload)]
        /\ \A d \in Call \ {c} : pc'[d] = pc[d] /\ request'[d] = request[d] /\ asked'[d] = asked[d]
        /\ DOMAIN asked' = Call /\ DOMAIN pc' = Call /\ DOMAIN request' = Call
    BY <1>0, <1>2 DEF AskSnapshot, Arrive
  <2>2. seen[c] = Blank
    BY <2>1 DEF SalesInv
  <2>3. Refunds(payload.user, payload) \in Nat
    BY <1>0, EarnedIsNat
  <2>4. Refunds(payload.user, payload)' = Refunds(payload.user, payload)
    BY <2>1 DEF sales, Refunds, AmendedBy, refundAmount
  <2>5. RemembersSales(c)'
    <3>1. /\ asked'[c].spoiled = Spoiled /\ asked'[c].refunds = Refunds(payload.user, payload)
          /\ seen'[c].gross = Unset /\ seen'[c].refunds = Unset
          /\ Refunds(request[c].user, request[c])' = Refunds(payload.user, payload)
      BY <2>1, <2>2, <2>4 DEF Blank, Refunds, AmendedBy, refundAmount
    <3>2. Spoiled \in SUBSET Order /\ status' = status
          /\ \A o \in Spoiled : status[o] \notin {Unset, "COMPLETED"}
      BY <2>1 DEF Spoiled, sales
    <3>3. pc'[c] \notin {"active", "insert"}
      BY <2>1
    <3> QED
      BY <2>3, <3>1, <3>2, <3>3 DEF RemembersSales
  <2> QED
    BY <1>0, <2>1, <2>5, CallSteps
<1>3. ASSUME NEW i \in DOMAIN payouts, NEW edit \in Edit, AskEdit(c, i, edit) PROVE SalesInv'
  <2>1. /\ UNCHANGED <<sales, seen, asked>> /\ pc'[c] = "find"
        /\ \A d \in Call \ {c} : pc'[d] = pc[d] /\ request'[d] = request[d]
        /\ DOMAIN pc' = Call /\ DOMAIN request' = Call
    BY <1>0, <1>3 DEF AskEdit, Arrive
  <2>2. ~Snapshotting(c)'
    BY <2>1 DEF Snapshotting
  <2> QED
    BY <1>0, <2>1, <2>2, CallSteps
<1>4. ASSUME NEW where, NEW s, Goes(c, where), where # "idle", Snapshotting(c),
             seen' = [seen EXCEPT ![c] = s],
             UNCHANGED <<sales, request, asked>>,
             s = [worker |-> s.worker, gross |-> s.gross, refunds |-> s.refunds,
                  charges |-> s.charges, payout |-> s.payout],
             \/ s.gross = seen[c].gross
             \/ s.gross = Gross(e, period),
             \/ s.refunds = seen[c].refunds /\ s.charges = seen[c].charges
             \/ s.refunds = Refunds(e, period) /\ s.charges = Charges(e, period),
             where \in {"active", "insert"} => s.gross # Unset /\ s.refunds # Unset
      PROVE  SalesInv'
  <2>1. /\ pc'[c] = where /\ seen'[c] = s /\ request'[c] = request[c] /\ asked'[c] = asked[c]
        /\ \A d \in Call \ {c} : /\ pc'[d] = pc[d] /\ request'[d] = request[d]
                                 /\ seen'[d] = seen[d] /\ asked'[d] = asked[d]
        /\ DOMAIN asked' = Call /\ DOMAIN seen' = Call /\ DOMAIN pc' = Call /\ DOMAIN request' = Call
    BY <1>0, <1>4 DEF Goes
  <2>2. RemembersSales(c)
    BY <1>4 DEF SalesInv
  <2>3. UNCHANGED <<status, amended, outdated>>
    BY <1>4 DEF sales
  <2>4. /\ Refunds(request[c].user, request[c])' = Refunds(e, period)
        /\ Charges(request[c].user, request[c])' = Charges(e, period)
        /\ UnspoiledSales(c)' = UnspoiledSales(c)
    BY <2>1, <2>3 DEF Refunds, Charges, AmendedBy, refundAmount, chargeAmount, UnspoiledSales,
                      Unspoiled, grandTotal
  <2>5. Gross(e, period) \in Nat /\ Refunds(e, period) \in Nat /\ Charges(e, period) \in Nat
    BY <1>0, EarnedIsNat
  <2>6. ~outdated => Gross(e, period) <= UnspoiledSales(c)
    <3> SUFFICES ASSUME ~outdated PROVE Gross(e, period) <= UnspoiledSales(c)
      OBVIOUS
    <3> DEFINE live == Unspoiled(request[c].user, request[c], asked[c].spoiled)
    <3>1. SalesOf(e, period) \in SUBSET live
      BY <2>2 DEF SalesOf, Unspoiled, Counts, RemembersSales
    <3>2. live \in SUBSET Order
      BY DEF Unspoiled
    <3>3. IsFiniteSet(live) /\ NatValued(grandTotal, live)
      BY <3>2, PartOfAmounts, AmountsAreNat DEF NatValued
    <3> HIDE DEF live
    <3>4. SumFunctionOnSet(grandTotal, SalesOf(e, period)) <= SumFunctionOnSet(grandTotal, live)
      BY <3>1, <3>3, SumPart
    <3> QED
      BY <3>4 DEF live, Gross, UnspoiledSales
  <2>7. UnspoiledSales(c) \in Nat
    <3>1. Unspoiled(request[c].user, request[c], asked[c].spoiled) \in SUBSET Order
      BY DEF Unspoiled
    <3> QED
      BY <3>1, PartOfAmounts DEF UnspoiledSales
  <2> HIDE DEF e, period
  <2>8. RemembersSales(c)'
    <3>1. asked[c].refunds <= Refunds(e, period) /\ asked[c].refunds \in Nat
      BY <2>2 DEF RemembersSales, e, period
    <3>2. s.gross # Unset => s.gross \in Nat /\ (~outdated => s.gross <= UnspoiledSales(c))
      <4>1. CASE s.gross = seen[c].gross
        BY <4>1, <2>2 DEF RemembersSales
      <4>2. CASE s.gross = Gross(e, period)
        BY <4>2, <2>5, <2>6
      <4> QED
        BY <1>4, <4>1, <4>2 DEF e, period
    <3>3. s.refunds # Unset =>
             s.refunds \in Nat /\ asked[c].refunds <= s.refunds
             /\ s.charges \in Nat /\ s.charges <= Charges(e, period)
      <4>1. CASE s.refunds = seen[c].refunds /\ s.charges = seen[c].charges
        BY <4>1, <2>2 DEF RemembersSales, e, period
      <4>2. CASE s.refunds = Refunds(e, period) /\ s.charges = Charges(e, period)
        BY <4>2, <2>5, <3>1
      <4> QED
        BY <1>4, <4>1, <4>2 DEF e, period
    <3>4. asked[c].spoiled \in SUBSET Order
          /\ (~outdated => \A o \in asked[c].spoiled : status[o] \notin {Unset, "COMPLETED"})
      BY <2>2 DEF RemembersSales
    <3> QED
      BY <1>4, <2>1, <2>3, <2>4, <3>1, <3>2, <3>3, <3>4 DEF RemembersSales
  <2>9. seen'[c] = [worker |-> seen'[c].worker, gross |-> seen'[c].gross,
                    refunds |-> seen'[c].refunds, charges |-> seen'[c].charges,
                    payout |-> seen'[c].payout]
        /\ pc'[c] # "idle"
    BY <1>4, <2>1
  <2> QED
    BY <1>4, <2>1, <2>8, <2>9, CallSteps
<1>5. ASSUME ReadEmployee(c) PROVE SalesInv'
  <2>1. CASE Ends(c, "refused")
    BY <1>1, <1>5, <2>1 DEF ReadEmployee
  <2>2. CASE Goes(c, "sales") /\ seen' = [seen EXCEPT ![c].worker = user[request[c].user]]
             /\ UNCHANGED <<request, asked>>
    <3>1. seen' = [seen EXCEPT ![c] = [worker |-> user[request[c].user], gross |-> seen[c].gross,
                     refunds |-> seen[c].refunds, charges |-> seen[c].charges,
                     payout |-> seen[c].payout]]
      BY <1>0, <2>2, ReadsOneMore
    <3> QED
      BY <1>4, <1>5, <2>2, <3>1 DEF ReadEmployee, Snapshotting
  <2> QED
    BY <1>5, <2>1, <2>2 DEF ReadEmployee
<1>6. ASSUME ReadOrders(c) PROVE SalesInv'
  <2>1. seen' = [seen EXCEPT ![c] = [worker |-> seen[c].worker, gross |-> Gross(e, period),
                   refunds |-> seen[c].refunds, charges |-> seen[c].charges,
                   payout |-> seen[c].payout]]
    <3>1. seen' = [seen EXCEPT ![c] = [seen[c] EXCEPT !.gross = Gross(e, period)]]
      BY <1>6 DEF ReadOrders
    <3> QED
      BY <1>0, <3>1, ReadsOneMore
  <2>2. Gross(e, period) # Unset
    BY <1>0, EarnedIsNat, UnsetAssumption
  <2>3. PICK where \in {"sales", "active"} :
           Goes(c, where) /\ (where = "active" => seen[c].refunds # Unset)
    BY <1>6 DEF ReadOrders
  <2> QED
    BY <1>4, <1>6, <2>1, <2>2, <2>3 DEF ReadOrders, Snapshotting
<1>7. ASSUME ReadAdjustments(c) PROVE SalesInv'
  <2>1. seen' = [seen EXCEPT ![c] = [worker |-> seen[c].worker, gross |-> seen[c].gross,
                   refunds |-> Refunds(e, period), charges |-> Charges(e, period),
                   payout |-> seen[c].payout]]
    <3> DEFINE once == [seen[c] EXCEPT !.refunds = Refunds(e, period)]
               twice == [once EXCEPT !.charges = Charges(e, period)]
    <3>1. seen' = [[seen EXCEPT ![c] = once] EXCEPT
                     ![c] = [[seen EXCEPT ![c] = once][c] EXCEPT !.charges = Charges(e, period)]]
      BY <1>7 DEF ReadAdjustments
    <3>2. twice = [worker |-> seen[c].worker, gross |-> seen[c].gross,
                   refunds |-> Refunds(e, period), charges |-> Charges(e, period),
                   payout |-> seen[c].payout]
      <4>1. once = [worker |-> seen[c].worker, gross |-> seen[c].gross,
                    refunds |-> Refunds(e, period), charges |-> seen[c].charges,
                    payout |-> seen[c].payout]
        BY <1>0, ReadsOneMore
      <4>2. /\ once.worker = seen[c].worker /\ once.gross = seen[c].gross
            /\ once.refunds = Refunds(e, period) /\ once.charges = seen[c].charges
            /\ once.payout = seen[c].payout
        BY <4>1
      <4> HIDE DEF once
      <4> QED
        BY <4>1, <4>2, ReadsOneMore
    <3> HIDE DEF once
    <3>3. [seen EXCEPT ![c] = once][c] = once
      BY <1>0
    <3>4. seen' = [[seen EXCEPT ![c] = once] EXCEPT ![c] = twice]
      BY <3>1, <3>3
    <3> HIDE DEF twice
    <3>5. [[seen EXCEPT ![c] = once] EXCEPT ![c] = twice] = [seen EXCEPT ![c] = twice]
      BY <1>0, Zenon
    <3>7. seen' = [seen EXCEPT ![c] = twice]
      BY <3>4, <3>5, Zenon
    <3> QED
      BY <3>2, <3>7
  <2>2. Refunds(e, period) # Unset
    BY <1>0, EarnedIsNat, UnsetAssumption
  <2>3. PICK where \in {"sales", "active"} :
           Goes(c, where) /\ (where = "active" => seen[c].gross # Unset)
    BY <1>7 DEF ReadAdjustments
  <2> QED
    BY <1>4, <1>7, <2>1, <2>2, <2>3 DEF ReadAdjustments, Snapshotting
<1>8. ASSUME CheckActive(c) PROVE SalesInv'
  <2>1. CASE Ends(c, "refused")
    BY <1>1, <1>8, <2>1 DEF CheckActive
  <2>2. CASE Goes(c, "insert") /\ UNCHANGED <<request, seen, asked>>
    <3>1. pc[c] = "active" /\ Snapshotting(c) /\ RemembersSales(c)
      BY <1>8 DEF CheckActive, SalesInv, Snapshotting
    <3>2. seen' = [seen EXCEPT ![c] = seen[c]] /\ seen[c].gross # Unset /\ seen[c].refunds # Unset
      BY <1>0, <2>2, <3>1 DEF RemembersSales, PayoutsInv, AddUpInv, CallTypes
    <3> QED
      BY <1>0, <1>4, <1>8, <2>2, <3>1, <3>2 DEF CheckActive
  <2> QED
    BY <1>8, <2>1, <2>2 DEF CheckActive
<1>9. ASSUME InsertPayout(c) PROVE SalesInv'
  BY <1>1, <1>9 DEF InsertPayout
<1>10. ASSUME FindPayout(c) PROVE SalesInv'
  <2>1. CASE Ends(c, "refused")
    BY <1>1, <1>10, <2>1 DEF FindPayout
  <2>2. CASE /\ Goes(c, "update")
             /\ seen' = [seen EXCEPT ![c].payout = payouts[request[c].payout]]
             /\ UNCHANGED <<request, asked>>
    <3>1. /\ pc'[c] = "update"
          /\ seen'[c] = [worker |-> seen[c].worker, gross |-> seen[c].gross,
                         refunds |-> seen[c].refunds, charges |-> seen[c].charges,
                         payout |-> payouts[request[c].payout]]
          /\ \A d \in Call \ {c} : pc'[d] = pc[d] /\ seen'[d] = seen[d]
          /\ DOMAIN seen' = Call /\ DOMAIN pc' = Call
      BY <1>0, <2>2 DEF Goes
    <3>2. ~Snapshotting(c)'
      BY <3>1 DEF Snapshotting
    <3>3. UNCHANGED sales
      BY <1>10 DEF FindPayout
    <3> QED
      BY <1>0, <2>2, <3>1, <3>2, <3>3, CallSteps
  <2> QED
    BY <1>10, <2>1, <2>2 DEF FindPayout
<1>11. ASSUME UpdatePayout(c) PROVE SalesInv'
  BY <1>1, <1>11 DEF UpdatePayout
<1> QED
  BY <1>2, <1>3, <1>5, <1>6, <1>7, <1>8, <1>9, <1>10, <1>11 DEF Ask, Handle

(* createPayoutSnapshot: whatever is sold, refunded and voided while it    *)
(* runs, the net sales of the payout it inserts leave out every sale that  *)
(* was refunded or voided when it was asked for, and what was refunded in  *)
(* the period by then.                                                     *)
THEOREM PayoutsLeaveReturnsOut == PayoutsSpec => NothingReturnedIsPaid
<1>1. PayoutsInv /\ SalesInv /\ [PayoutsNext]_payoutVars => SalesInv'
  <2> SUFFICES ASSUME PayoutsInv, SalesInv, [PayoutsNext]_payoutVars PROVE SalesInv'
    OBVIOUS
  <2>1. CASE UNCHANGED payoutVars
    <3>1. UNCHANGED <<pc, request, seen, asked, status, amended, outdated>>
      BY <2>1 DEF payoutVars, sales
    <3> QED
      BY <3>1, SalesChangeUnder DEF SalesInv
  <2>2. CASE Terminating
    <3>1. UNCHANGED <<pc, request, seen, asked, status, amended, outdated>>
      BY <2>2 DEF Terminating, payoutVars, sales
    <3> QED
      BY <3>1, SalesChangeUnder DEF SalesInv
  <2> QED
    BY <2>1, <2>2, SalesNext, CallStep DEF PayoutsNext
<1>2. PayoutsInv /\ SalesInv /\ [PayoutsNext]_payoutVars =>
        [~outdated' =>
           \A c \in Call : pc[c] = "insert" /\ pc'[c] = "done" =>
             LET e == request[c].user
                 untouched == SumFunctionOnSet(grandTotal, Unspoiled(e, request[c], asked[c].spoiled))
             IN payouts'[Len(payouts')].net
                  <= Net(untouched, asked[c].refunds, Charges(e, request[c]))]_payoutVars
  <2> SUFFICES ASSUME PayoutsInv, SalesInv, [PayoutsNext]_payoutVars, ~outdated',
                      NEW c \in Call, pc[c] = "insert", pc'[c] = "done"
               PROVE  payouts'[Len(payouts')].net
                        <= Net(UnspoiledSales(c), asked[c].refunds,
                               Charges(request[c].user, request[c]))
    BY DEF UnspoiledSales
  <2>1. InsertPayout(c)
    <3>1. ASSUME NEW d \in Call, Ask(d) \/ Handle(d) PROVE d = c
      BY <3>1 DEF Ask, Handle, AskSnapshot, AskEdit, Arrive, ReadEmployee, ReadOrders, ReadAdjustments,
                  CheckActive, InsertPayout, FindPayout, UpdatePayout, Ends, Goes, SalesInv
    <3>2. ~Environment /\ ~(UNCHANGED payoutVars) /\ ~Terminating
      BY DEF Environment, Sell, VoidOrder, OpenAmend, CommitAmend, UpdateUser, OnlySales, payoutVars,
             Terminating
    <3>3. Ask(c) \/ Handle(c)
      BY <3>1, <3>2 DEF PayoutsNext
    <3> QED
      BY <3>3 DEF Ask, Handle, AskSnapshot, AskEdit, Arrive, ReadEmployee, ReadOrders, ReadAdjustments,
                  CheckActive, FindPayout, UpdatePayout
  <2>2. /\ payouts' = Append(payouts, NewPayout(request[c], seen[c])) /\ UNCHANGED sales
        /\ payouts \in Seq(PayoutRow)
    <3>1. ~Ends(c, "refused")
      BY DEF Ends, Goes, SalesInv
    <3> QED
      BY <2>1, <3>1 DEF InsertPayout, PayoutsInv, AddUpInv, CallTypes
  <2>3. payouts'[Len(payouts')] = NewPayout(request[c], seen[c])
    <3>1. NewPayout(request[c], seen[c]) \in PayoutRow
      <4>1. Storable(NewPayout(request[c], seen[c])) /\ request[c] \in Snapshot
        <5>1. ~Ends(c, "refused")
          BY DEF Ends, Goes, SalesInv
        <5> QED
          BY <2>1, <5>1 DEF InsertPayout, PayoutsInv, AddUpInv, CallTypes, Snapshotting
      <4> QED
        BY <4>1, NewPayoutAddsUp
    <3> HIDE DEF NewPayout
    <3> QED
      BY <2>2, <3>1
  <2>4. NewPayout(request[c], seen[c]).net = Net(seen[c].gross, seen[c].refunds, seen[c].charges)
    BY DEF NewPayout
  <2>5. ~outdated
    BY <2>2 DEF sales
  <2>6. RemembersSales(c)
    BY DEF SalesInv, Snapshotting
  <2>7. /\ seen[c].gross \in Nat /\ seen[c].gross <= UnspoiledSales(c)
        /\ seen[c].refunds \in Nat /\ asked[c].refunds <= seen[c].refunds /\ asked[c].refunds \in Nat
        /\ seen[c].charges \in Nat /\ seen[c].charges <= Charges(request[c].user, request[c])
    BY <2>5, <2>6 DEF RemembersSales
  <2>8. UnspoiledSales(c) \in Nat /\ Charges(request[c].user, request[c]) \in Nat
    <3>1. Unspoiled(request[c].user, request[c], asked[c].spoiled) \in SUBSET Order
      BY DEF Unspoiled
    <3> QED
      BY <3>1, PartOfAmounts, EarnedIsNat DEF UnspoiledSales, SalesInv
  <2>9. \A g, r, k, u, s, h \in Nat : g <= u /\ s <= r /\ k <= h => Net(g, r, k) <= Net(u, s, h)
    BY DEF Net, AtLeastZero
  <2>10. Net(seen[c].gross, seen[c].refunds, seen[c].charges)
           <= Net(UnspoiledSales(c), asked[c].refunds, Charges(request[c].user, request[c]))
    BY <2>7, <2>8, <2>9
  <2>11. payouts'[Len(payouts')].net = Net(seen[c].gross, seen[c].refunds, seen[c].charges)
    BY <2>3, <2>4, Zenon
  <2> QED
    BY <2>10, <2>11, Zenon
<1> QED
  BY <1>1, <1>2, SalesStart, PayoutsInvariant, PTL DEF PayoutsSpec, NothingReturnedIsPaid

-----------------------------------------------------------------------------
(* Sessions.                                                              *)

SessionTypes ==
  /\ page \in [Tab -> Page]
  /\ isRefreshing \in [Tab -> BOOLEAN]
  /\ failedQueue \in [Tab -> Seq(Request)]
  /\ refresher \in [Tab -> Request \cup {None}]
  /\ presented \in [Tab -> Token \cup {None}]
  /\ req \in [Request -> {"unsent"} \cup Pending \cup Settled]
  /\ retried \in [Request -> BOOLEAN]
  /\ bearer \in [Request -> Token \cup {None}]
  /\ access \in Token \cup {None}
  /\ refresh \in Token \cup {None}
  /\ account \in {"active", "inactive"}
  /\ signedOut \in BOOLEAN /\ raced \in BOOLEAN
  /\ changes \in Nat

(* isRefreshing is set while requests wait, and then somebody refreshes or *)
(* the page leaves.                                                        *)
QueueFollowsFlag ==
  \A b \in Tab :
    /\ failedQueue[b] # <<>> => isRefreshing[b]
    /\ isRefreshing[b] => refresher[b] # None \/ page[b] = "leaving"

(* After a sign-out with no refresh on its way there is neither a token to *)
(* refresh with nor a refresh.                                             *)
SessionEnded ==
  signedOut /\ ~raced => access = None /\ refresh = None /\ \A b \in Tab : refresher[b] = None

SessionInv == SessionTypes /\ QueueFollowsFlag /\ SessionEnded

-----------------------------------------------------------------------------
LEMMA SessionInitInv == SessionInit => SessionInv
<1> SUFFICES ASSUME SessionInit PROVE SessionInv
  OBVIOUS
<1>1. SessionTypes
  <2>1. failedQueue \in [Tab -> Seq(Request)]
    BY DEF SessionInit
  <2>2. req \in [Request -> {"unsent"} \cup Pending \cup Settled]
    BY DEF SessionInit
  <2>3. /\ page \in [Tab -> Page] /\ isRefreshing \in [Tab -> BOOLEAN]
        /\ refresher \in [Tab -> Request \cup {None}]
        /\ presented \in [Tab -> Token \cup {None}]
    BY DEF SessionInit, Page
  <2>4. retried \in [Request -> BOOLEAN] /\ bearer \in [Request -> Token \cup {None}]
    BY DEF SessionInit
  <2>5. /\ access \in Token \cup {None} /\ refresh \in Token \cup {None}
        /\ account \in {"active", "inactive"} /\ changes \in Nat
    BY DEF SessionInit, Token
  <2>6. signedOut \in BOOLEAN /\ raced \in BOOLEAN
    BY DEF SessionInit
  <2> QED
    BY <2>1, <2>2, <2>3, <2>4, <2>5, <2>6 DEF SessionTypes
<1>2. QueueFollowsFlag /\ SessionEnded
  BY DEF SessionInit, QueueFollowsFlag, SessionEnded
<1> QED
  BY <1>1, <1>2 DEF SessionInv

(* Settled requests keep their types.                                      *)
LEMMA SettlingTypes ==
  ASSUME SessionTypes, NEW S, NEW how \in Settled, Settling(S, how)
  PROVE  /\ req' \in [Request -> {"unsent"} \cup Pending \cup Settled]
         /\ retried' \in [Request -> BOOLEAN]
         /\ bearer' \in [Request -> Token \cup {None}]
<1>1. req' \in [Request -> {"unsent"} \cup Pending \cup Settled]
  BY DEF SessionTypes, Settling
<1>2. retried' \in [Request -> BOOLEAN]
  BY DEF SessionTypes, Settling
<1>3. bearer' \in [Request -> Token \cup {None}]
  BY DEF SessionTypes, Settling
<1> QED
  BY <1>1, <1>2, <1>3

(* Every handler keeps the types.                                          *)
LEMMA TypesStep == SessionTypes /\ [SessionNext]_sessionVars => SessionTypes'
<1> USE TabOfAssumption, ChangesAssumption
    DEF SessionTypes, sessionVars, clientVars, requestVars, cookieVars, worldVars, historyVars
<1> SUFFICES ASSUME SessionTypes, [SessionNext]_sessionVars PROVE SessionTypes'
  OBVIOUS
<1>1. CASE UNCHANGED sessionVars
  BY <1>1
<1>2. CASE World
  BY <1>2 DEF World, AccessExpires, RefreshExpires, AccountChanges, Changing, Aged, Token
<1>3. ASSUME NEW r \in Request, Send(r) PROVE SessionTypes'
  BY <1>3 DEF Send, Pending
<1>4. ASSUME NEW r \in Request, Answer(r) \/ GiveUp(r) PROVE SessionTypes'
  <2>1. "answered" \in Settled /\ "rejected" \in Settled
    BY DEF Settled
  <2>2. Settling({r}, "answered") \/ Settling({r}, "rejected")
    BY <1>4 DEF Answer, GiveUp
  <2>3. UNCHANGED <<page, clientVars, cookieVars, worldVars, historyVars>>
    BY <1>4 DEF Answer, GiveUp
  <2>4. /\ req' \in [Request -> {"unsent"} \cup Pending \cup Settled]
        /\ retried' \in [Request -> BOOLEAN]
        /\ bearer' \in [Request -> Token \cup {None}]
    BY <2>1, <2>2, SettlingTypes
  <2> QED
    BY <2>3, <2>4
<1>5. ASSUME NEW r \in Request, Wait(r) PROVE SessionTypes'
  BY <1>5 DEF Wait, Pending
<1>6. ASSUME NEW r \in Request, StartRefresh(r) PROVE SessionTypes'
  BY <1>6 DEF StartRefresh, Pending
<1>7. ASSUME NEW r \in Request, NothingToRefresh(r) PROVE SessionTypes'
  BY <1>7 DEF NothingToRefresh, Settling, Settled, LeaveForLogin, Page
<1>8. ASSUME NEW b \in Tab, RefreshSucceeds(b) PROVE SessionTypes'
  BY <1>8 DEF RefreshSucceeds, EndRefresh, Token, Pending
<1>9. ASSUME NEW b \in Tab, RefreshFails(b) PROVE SessionTypes'
  BY <1>9 DEF RefreshFails, EndRefresh, Settling, Settled, LeaveForLogin, Page
<1>10. ASSUME NEW b \in Tab, PageGone(b) PROVE SessionTypes'
  BY <1>10 DEF PageGone, EndRefresh, Settling, Settled, Page
<1>11. ASSUME NEW b \in Tab, User(b) PROVE SessionTypes'
  BY <1>11 DEF User, Logout, Forgets, LeaveForLogin, Login, LoginRefused, PassProxy, Page, Token
<1> QED
  BY <1>1, <1>2, <1>3, <1>4, <1>5, <1>6, <1>7, <1>8, <1>9, <1>10, <1>11
     DEF SessionNext, Respond, RefreshEnds

(* One step of one tab changes its own client only: the flag is set with a *)
(* refresh or a leaving page, and cleared with the queue.                  *)
LEMMA QueueStep == SessionInv /\ [SessionNext]_sessionVars => QueueFollowsFlag'
<1> USE TabOfAssumption, NoneAssumption
    DEF SessionInv, SessionTypes, QueueFollowsFlag,
        sessionVars, clientVars, requestVars, cookieVars, worldVars, historyVars
<1> SUFFICES ASSUME SessionInv, [SessionNext]_sessionVars PROVE QueueFollowsFlag'
  OBVIOUS
<1>1. CASE UNCHANGED sessionVars
  BY <1>1
<1>2. CASE World
  BY <1>2 DEF World, AccessExpires, RefreshExpires, AccountChanges
<1>3. ASSUME NEW r \in Request, Send(r) \/ Answer(r) \/ GiveUp(r) PROVE QueueFollowsFlag'
  BY <1>3 DEF Send, Answer, GiveUp
<1>4. ASSUME NEW r \in Request, Wait(r) PROVE QueueFollowsFlag'
  BY <1>4 DEF Wait
<1>5. ASSUME NEW r \in Request, StartRefresh(r) PROVE QueueFollowsFlag'
  BY <1>5 DEF StartRefresh
<1>6. ASSUME NEW r \in Request, NothingToRefresh(r) PROVE QueueFollowsFlag'
  BY <1>6 DEF NothingToRefresh, LeaveForLogin
<1>7. ASSUME NEW b \in Tab, RefreshSucceeds(b) PROVE QueueFollowsFlag'
  BY <1>7 DEF RefreshSucceeds, EndRefresh
<1>8. ASSUME NEW b \in Tab, RefreshFails(b) PROVE QueueFollowsFlag'
  BY <1>8 DEF RefreshFails, EndRefresh, LeaveForLogin
<1>9. ASSUME NEW b \in Tab, PageGone(b) PROVE QueueFollowsFlag'
  BY <1>9 DEF PageGone, EndRefresh
<1>10. ASSUME NEW b \in Tab, User(b) PROVE QueueFollowsFlag'
  BY <1>10 DEF User, Logout, Forgets, LeaveForLogin, Login, LoginRefused, PassProxy
<1> QED
  BY <1>1, <1>2, <1>3, <1>4, <1>5, <1>6, <1>7, <1>8, <1>9, <1>10 DEF SessionNext, Respond, RefreshEnds

(* Only a login or a refresh sets cookies, and a refresh takes a cookie.   *)
LEMMA EndedStep == SessionInv /\ [SessionNext]_sessionVars => SessionEnded'
<1> USE TabOfAssumption, NoneAssumption
    DEF SessionInv, SessionTypes, SessionEnded,
        sessionVars, clientVars, requestVars, cookieVars, worldVars, historyVars
<1> SUFFICES ASSUME SessionInv, [SessionNext]_sessionVars PROVE SessionEnded'
  OBVIOUS
<1>1. CASE UNCHANGED sessionVars
  BY <1>1
<1>2. CASE World
  BY <1>2 DEF World, AccessExpires, RefreshExpires, AccountChanges, Aged
<1>3. ASSUME NEW r \in Request, Send(r) \/ Respond(r) PROVE SessionEnded'
  BY <1>3 DEF Send, Respond, Answer, GiveUp, Wait, StartRefresh, NothingToRefresh, LeaveForLogin
<1>4. ASSUME NEW b \in Tab, RefreshEnds(b) PROVE SessionEnded'
  BY <1>4 DEF RefreshEnds, RefreshSucceeds, RefreshFails, EndRefresh, LeaveForLogin
<1>5. ASSUME NEW b \in Tab, PageGone(b) PROVE SessionEnded'
  BY <1>5 DEF PageGone, EndRefresh
<1>6. ASSUME NEW b \in Tab, User(b) PROVE SessionEnded'
  BY <1>6 DEF User, Logout, Forgets, LeaveForLogin, Login, LoginRefused, PassProxy
<1> QED
  BY <1>1, <1>2, <1>3, <1>4, <1>5, <1>6 DEF SessionNext

(* The inductive invariant of the session.                                 *)
THEOREM SessionInvariant == SessionSpec => []SessionInv
<1>1. SessionInv /\ [SessionNext]_sessionVars => SessionInv'
  BY TypesStep, QueueStep, EndedStep DEF SessionInv
<1> QED
  BY <1>1, SessionInitInv, PTL DEF SessionSpec

(* api.ts: with any number of tabs and requests, nothing waits in          *)
(* failedQueue unless its tab refreshes or leaves.                         *)
THEOREM SessionWaiters == SessionSpec => []WaitersHaveARefresh
<1>1. SessionInv => WaitersHaveARefresh
  BY DEF SessionInv, SessionTypes, QueueFollowsFlag, WaitersHaveARefresh
<1> QED
  BY <1>1, SessionInvariant, PTL

(* auth-store.ts, logout: no access token comes back before the next login *)
(* unless a refresh was on its way.                                        *)
THEOREM SessionSignedOut == SessionSpec => []SignedOutStaysOut
<1>1. SessionInv => SignedOutStaysOut
  BY DEF SessionInv, SessionEnded, SignedOutStaysOut
<1> QED
  BY <1>1, SessionInvariant, PTL

-----------------------------------------------------------------------------
(* Screens.                                                               *)

EffectType == [tells : BOOLEAN, touches : BOOLEAN, visible : BOOLEAN]
EntryType  == [data : Int, fetch : Int, invalid : BOOLEAN, old : BOOLEAN,
               failed : BOOLEAN, overtaken : BOOLEAN]
SentType   == [tells : BOOLEAN, touches : BOOLEAN, here : BOOLEAN, done : Nat \union {Waiting}]

ScreensTypes ==
  /\ screen \in DOMAIN views
  /\ \A n \in DOMAIN views : views[n].effects \subseteq EffectType
  /\ now \in Nat /\ due \in 0 .. now
  /\ entry \in EntryType
  /\ sent \in SentType \union {Nothing}
  /\ sent # Nothing => sent.done <= now

\* Data from before the own change is marked, overtaken, or being replaced.
OldDataIsMarked ==
  entry.data # NoClock =>
    \/ entry.data >= due \/ entry.invalid \/ entry.overtaken
    \/ entry.old /\ (entry.fetch # NoClock \/ entry.failed)

OldFetchIsOvertaken == entry.fetch >= 0 => entry.fetch >= due \/ entry.overtaken

\* A screen with nothing to show, or marked data, is fetching or has failed.
ShownIsFetched ==
  Mounted(screen) /\ entry.fetch = NoClock /\ (entry.data = NoClock \/ entry.invalid)
    => entry.failed

HereIsTold == sent # Nothing /\ sent.here => sent.tells

EntryKept == OldDataIsMarked /\ OldFetchIsOvertaken /\ ShownIsFetched /\ HereIsTold

ScreensInv == ScreensTypes /\ (ScreensAnnounced => EntryKept)

------------------------------------------------------------------------------
LEMMA ViewTypes ==
  ASSUME NEW r, NEW query, NEW n \in DOMAIN Views(r, query)
  PROVE  Views(r, query)[n].effects \subseteq EffectType
<1>1. Views(r, query)[n] = View(r, Screens(r)[n], query)
  BY DEF Views
<1>2. \A m : Effect(m, query) \in EffectType
  BY DEF Effect, EffectType, Told
<1> QED
  BY <1>1, <1>2 DEF View

LEMMA HomeIsViewed ==
  ASSUME NEW r, NEW query
  PROVE  Home(r) \subseteq DOMAIN Views(r, query)
BY DEF Home, Views

(* What each change of the entry makes of it.                              *)
LEMMA MarksAreNumbers == NoClock \in Int /\ Waiting \in Int /\ NoClock < 0 /\ Waiting < 0 /\ NoClock # Waiting
BY DEF NoClock, Waiting

LEMMA NumbersAreSet ==
  ASSUME NEW e \in EntryType, NEW n \in Int
  PROVE  [e EXCEPT !.data = n] \in EntryType /\ [e EXCEPT !.fetch = n] \in EntryType
BY DEF EntryType

LEMMA FlagsAreSet ==
  ASSUME NEW e \in EntryType, NEW b \in BOOLEAN
  PROVE  /\ [e EXCEPT !.invalid = b] \in EntryType /\ [e EXCEPT !.old = b] \in EntryType
         /\ [e EXCEPT !.failed = b] \in EntryType /\ [e EXCEPT !.overtaken = b] \in EntryType
BY DEF EntryType

LEMMA EmptyEntryIs ==
  /\ EmptyEntry \in EntryType
  /\ EmptyEntry.data = NoClock /\ EmptyEntry.fetch = NoClock
  /\ ~EmptyEntry.invalid /\ ~EmptyEntry.overtaken
BY MarksAreNumbers DEF EmptyEntry, EntryType

LEMMA RefetchedIs ==
  ASSUME entry \in EntryType
  PROVE  /\ Refetched \in EntryType
         /\ Refetched.fetch = Waiting /\ Refetched.data = entry.data
         /\ Refetched.invalid = entry.invalid /\ Refetched.old = entry.old
<1>1. [entry EXCEPT !.fetch = Waiting] \in EntryType
  BY NumbersAreSet, MarksAreNumbers
<1>2. Refetched \in EntryType
  BY <1>1, FlagsAreSet DEF Refetched
<1> QED
  BY <1>2, MarksAreNumbers DEF Refetched, EntryType

LEMMA InvalidatedIs ==
  ASSUME entry \in EntryType
  PROVE  /\ Invalidated \in EntryType /\ Invalidated.invalid
         /\ \/ Invalidated.fetch = Waiting
            \/ /\ Invalidated.fetch = entry.fetch
               /\ entry.fetch # NoClock => Invalidated.overtaken
               /\ Mounted(screen) => entry.fetch # NoClock
<1> DEFINE marked == [entry EXCEPT !.invalid = TRUE]
<1>1. marked \in EntryType
  BY FlagsAreSet
<1>2. CASE Mounted(screen) /\ (entry.fetch = NoClock \/ entry.data # NoClock)
  <2>1. Invalidated = [marked EXCEPT !.fetch = Waiting, !.overtaken = FALSE]
    BY <1>2 DEF Invalidated
  <2>2. [marked EXCEPT !.fetch = Waiting] \in EntryType
    BY <1>1, NumbersAreSet, MarksAreNumbers
  <2>3. Invalidated \in EntryType
    BY <2>1, <2>2, FlagsAreSet
  <2> QED
    BY <2>1, <2>3, MarksAreNumbers DEF EntryType
<1>3. CASE ~(Mounted(screen) /\ (entry.fetch = NoClock \/ entry.data # NoClock))
  <2> DEFINE late == entry.overtaken \/ entry.fetch # NoClock
  <2>1. Invalidated = [marked EXCEPT !.overtaken = late]
    BY <1>3 DEF Invalidated
  <2>2. late \in BOOLEAN /\ (entry.fetch # NoClock => late)
    OBVIOUS
  <2> HIDE DEF late
  <2>3. Invalidated \in EntryType
    BY <1>1, <2>1, <2>2, FlagsAreSet
  <2>4. Invalidated.invalid /\ Invalidated.fetch = entry.fetch /\ Invalidated.overtaken = late
    BY <2>1, <2>2 DEF EntryType
  <2> QED
    BY <1>3, <2>2, <2>3, <2>4
<1> QED
  BY <1>2, <1>3

LEMMA ScreensStart == ScreensInit => ScreensInv
<1> SUFFICES ASSUME ScreensInit PROVE ScreensInv
  OBVIOUS
<1>1. screen \in DOMAIN views /\ \A n \in DOMAIN views : views[n].effects \subseteq EffectType
  BY ViewTypes, HomeIsViewed DEF ScreensInit
<1>2. /\ entry \in EntryType /\ entry.data = NoClock /\ entry.fetch \in {NoClock, Waiting}
      /\ Mounted(screen) => entry.fetch = Waiting
  <2>1. CASE Mounted(screen)
    <3>1. entry = [EmptyEntry EXCEPT !.fetch = Waiting]
      BY <2>1, Zenon DEF ScreensInit
    <3> QED
      BY <2>1, <3>1, EmptyEntryIs, NumbersAreSet, MarksAreNumbers DEF EntryType
  <2>2. CASE ~Mounted(screen)
    <3>1. entry = [EmptyEntry EXCEPT !.fetch = NoClock]
      BY <2>2, Zenon DEF ScreensInit
    <3> QED
      BY <2>2, <3>1, EmptyEntryIs, NumbersAreSet, MarksAreNumbers DEF EntryType
  <2> QED
    BY <2>1, <2>2
<1>3. now = 0 /\ due = 0 /\ sent = Nothing
  BY DEF ScreensInit
<1>4. ScreensTypes
  BY <1>1, <1>2, <1>3 DEF ScreensTypes
<1>5. EntryKept
  BY <1>2, <1>3, MarksAreNumbers DEF EntryKept, OldDataIsMarked, OldFetchIsOvertaken,
     ShownIsFetched, HereIsTold
<1> QED
  BY <1>4, <1>5 DEF ScreensInv

------------------------------------------------------------------------------
LEMMA ScreensStep == ScreensInv /\ [ScreensNext]_screensVars => ScreensInv'
<1> SUFFICES ASSUME ScreensInv, [ScreensNext]_screensVars PROVE ScreensInv'
  OBVIOUS
<1> USE DEF ScreensInv, ScreensTypes
<1> USE MarksAreNumbers
<1>1. ASSUME NEW s \in DOMAIN views, Visit(s) PROVE ScreensInv'
  <2>1. \/ /\ entry' = Refetched
           /\ entry.data = NoClock \/ entry.invalid \/ entry.old
        \/ entry' = entry /\ (Mounted(s) /\ ~Mounted(screen) =>
             entry.fetch # NoClock \/ ~(entry.data = NoClock \/ entry.invalid \/ entry.old))
    BY <1>1 DEF Visit, OnMount
  <2>2. entry' \in EntryType
    BY <2>1, RefetchedIs
  <2>3. ScreensTypes'
    BY <1>1, <2>2 DEF Visit
  <2>4. ASSUME EntryKept PROVE EntryKept'
    <3>1. CASE entry' = Refetched /\ (entry.data = NoClock \/ entry.invalid \/ entry.old)
      BY <1>1, <2>1, <2>4, <3>1, RefetchedIs DEF Visit, EntryKept,
         OldDataIsMarked, OldFetchIsOvertaken, ShownIsFetched, HereIsTold, Mounted
    <3>2. CASE entry' = entry /\ (Mounted(s) /\ ~Mounted(screen) =>
             entry.fetch # NoClock \/ ~(entry.data = NoClock \/ entry.invalid \/ entry.old))
      BY <1>1, <2>4, <3>2 DEF Visit, EntryKept, OldDataIsMarked, OldFetchIsOvertaken,
         ShownIsFetched, HereIsTold, Mounted
    <3> QED
      BY <2>1, <3>1, <3>2
  <2> QED
    BY <1>1, <2>3, <2>4 DEF Visit, ScreensAnnounced
<1>2. ASSUME ServerReads \/ FetchArrives \/ FetchFails \/ Ages \/ Forgotten PROVE ScreensInv'
  <2>1. UNCHANGED <<views, screen, now, sent, due>>
    BY <1>2 DEF ServerReads, FetchArrives, FetchFails, Ages, Forgotten
  <2>2. CASE ServerReads
    <3>1. /\ entry' \in EntryType /\ entry'.fetch = now /\ entry'.data = entry.data
          /\ entry'.invalid = entry.invalid /\ entry'.overtaken = entry.overtaken
          /\ entry'.old = entry.old /\ entry'.failed = entry.failed
      BY <2>2, NumbersAreSet DEF ServerReads, EntryType
    <3> QED
      BY <2>1, <2>2, <3>1 DEF ServerReads, ScreensAnnounced, EntryKept, OldDataIsMarked,
         OldFetchIsOvertaken, ShownIsFetched, HereIsTold, Mounted
  <2>3. CASE FetchArrives
    <3> DEFINE e1 == [entry EXCEPT !.data = entry.fetch]
               e2 == [e1 EXCEPT !.fetch = NoClock]
               e3 == [e2 EXCEPT !.invalid = FALSE]
               e4 == [e3 EXCEPT !.old = FALSE]
    <3>1. e1 \in EntryType
      BY NumbersAreSet DEF EntryType
    <3>2. e2 \in EntryType
      BY <3>1, NumbersAreSet
    <3>3. e3 \in EntryType
      BY <3>2, FlagsAreSet
    <3>4. e4 \in EntryType
      BY <3>3, FlagsAreSet
    <3>5. entry' \in EntryType
      BY <2>3, <3>4, FlagsAreSet DEF FetchArrives
    <3>6. /\ entry'.fetch = NoClock /\ entry'.data = entry.fetch
          /\ entry'.invalid = FALSE /\ entry'.overtaken = entry.overtaken
      BY <2>3 DEF FetchArrives, EntryType
    <3> QED
      BY <2>1, <2>3, <3>5, <3>6 DEF FetchArrives, ScreensAnnounced, EntryKept, OldDataIsMarked,
         OldFetchIsOvertaken, ShownIsFetched, HereIsTold, Mounted
  <2>4. CASE FetchFails
    <3>1. [entry EXCEPT !.fetch = NoClock] \in EntryType
      BY NumbersAreSet
    <3>2. entry' \in EntryType
      BY <2>4, <3>1, FlagsAreSet DEF FetchFails
    <3>3. /\ entry'.fetch = NoClock /\ entry'.data = entry.data /\ entry'.failed = TRUE
          /\ entry'.invalid = entry.invalid /\ entry'.overtaken = entry.overtaken
          /\ entry'.old = entry.old
      BY <2>4 DEF FetchFails, EntryType
    <3> QED
      BY <2>1, <2>4, <3>2, <3>3 DEF FetchFails, ScreensAnnounced, EntryKept, OldDataIsMarked,
         OldFetchIsOvertaken, ShownIsFetched, HereIsTold, Mounted
  <2>5. CASE Ages
    <3>1. /\ entry' \in EntryType /\ entry'.fetch = entry.fetch /\ entry'.data = entry.data
          /\ entry'.invalid = entry.invalid /\ entry'.overtaken = entry.overtaken
          /\ entry'.old = TRUE /\ entry'.failed = entry.failed
      BY <2>5, FlagsAreSet DEF Ages, EntryType
    <3> QED
      BY <2>1, <2>5, <3>1 DEF Ages, ScreensAnnounced, EntryKept, OldDataIsMarked,
         OldFetchIsOvertaken, ShownIsFetched, HereIsTold, Mounted
  <2>6. CASE Forgotten
    BY <2>1, <2>6, EmptyEntryIs DEF Forgotten, ScreensAnnounced, EntryKept, OldDataIsMarked,
       OldFetchIsOvertaken, ShownIsFetched, HereIsTold, Mounted
  <2> QED
    BY <1>2, <2>2, <2>3, <2>4, <2>5, <2>6
<1>3. CASE Elsewhere
  BY <1>3 DEF Elsewhere, ScreensAnnounced, EntryKept, OldDataIsMarked, OldFetchIsOvertaken,
       ShownIsFetched, HereIsTold, Mounted, SentType, Waiting
<1>4. ASSUME NEW effect \in views[screen].effects, SendMutation(effect) PROVE ScreensInv'
  <2>1. effect \in EffectType
    BY DEF EffectType
  <2>2. sent' \in SentType /\ sent'.done <= now' /\ (sent'.here => Mounted(screen) /\ effect.visible)
        /\ sent'.tells = effect.tells
    <3> DEFINE here == Mounted(screen) /\ effect.visible
    <3>1. here \in BOOLEAN
      OBVIOUS
    <3>2. sent' = [tells |-> effect.tells, touches |-> effect.touches, here |-> here,
                   done |-> Waiting] /\ now' = now
      BY <1>4 DEF SendMutation
    <3>3. sent' \in SentType /\ sent'.done = Waiting /\ sent'.tells = effect.tells
          /\ (sent'.here <=> here)
      <4> HIDE DEF here
      <4> QED
        BY <2>1, <3>1, <3>2 DEF EffectType, SentType
    <3> QED
      BY <3>2, <3>3
  <2>3. ScreensTypes'
    BY <1>4, <2>2 DEF SendMutation
  <2>4. ASSUME EntryKept, ScreensAnnounced PROVE EntryKept'
    <3>1. HereIsTold'
      BY <2>2, <2>4 DEF HereIsTold, ScreensAnnounced, Mounted
    <3> QED
      BY <1>4, <2>4, <3>1 DEF SendMutation, EntryKept, OldDataIsMarked, OldFetchIsOvertaken,
           ShownIsFetched, Mounted
  <2> QED
    BY <1>4, <2>3, <2>4 DEF SendMutation, ScreensAnnounced
<1>5. CASE ServerChanges
  <2>1. sent' \in SentType /\ now' \in Nat /\ now <= now' /\ sent'.done <= now'
        /\ sent'.here = sent.here /\ sent'.tells = sent.tells
    <3>1. now' \in Nat /\ now <= now' /\ sent' = [sent EXCEPT !.done = now'] /\ sent \in SentType
      BY <1>5 DEF ServerChanges
    <3> QED
      BY <3>1 DEF SentType
  <2>2. ScreensTypes'
    BY <1>5, <2>1 DEF ServerChanges
  <2>3. ASSUME EntryKept PROVE EntryKept'
    BY <1>5, <2>1, <2>3 DEF ServerChanges, EntryKept, OldDataIsMarked, OldFetchIsOvertaken,
         ShownIsFetched, HereIsTold, Mounted
  <2> QED
    BY <1>5, <2>2, <2>3 DEF ServerChanges, ScreensAnnounced
<1>6. CASE MutationAnswered
  <2>1. UNCHANGED <<views, screen, now>> /\ sent # Nothing /\ sent.done \in 0 .. now
        /\ sent' = Nothing
    BY <1>6 DEF MutationAnswered, SentType
  <2>2. CASE sent.tells
    <3>1. entry' = Invalidated /\ due' = sent.done
      BY <1>6, <2>2 DEF MutationAnswered
    <3>2. ScreensTypes'
      BY <2>1, <3>1, InvalidatedIs
    <3>3. EntryKept => EntryKept'
      BY <2>1, <3>1, InvalidatedIs DEF EntryKept, OldDataIsMarked, OldFetchIsOvertaken,
         ShownIsFetched, HereIsTold, Mounted
    <3> QED
      BY <2>1, <3>2, <3>3 DEF ScreensAnnounced
  <2>3. CASE ~sent.tells
    <3>1. entry' = entry /\ due' = (IF sent.here THEN sent.done ELSE due)
      BY <1>6, <2>3 DEF MutationAnswered
    <3>2. ScreensTypes'
      BY <2>1, <3>1
    <3>3. ASSUME EntryKept PROVE EntryKept'
      <4>1. ~sent.here
        BY <2>1, <2>3, <3>3 DEF EntryKept, HereIsTold
      <4> QED
        BY <2>1, <3>1, <3>3, <4>1 DEF EntryKept, OldDataIsMarked,
           OldFetchIsOvertaken, ShownIsFetched, HereIsTold, Mounted
    <3> QED
      BY <2>1, <3>2, <3>3 DEF ScreensAnnounced
  <2> QED
    BY <2>2, <2>3
<1>7. CASE MutationFails
  BY <1>7 DEF MutationFails, ScreensAnnounced, EntryKept, OldDataIsMarked, OldFetchIsOvertaken,
       ShownIsFetched, HereIsTold, Mounted
<1>8. CASE UNCHANGED screensVars
  BY <1>8 DEF screensVars, ScreensAnnounced, EntryKept, OldDataIsMarked, OldFetchIsOvertaken,
       ShownIsFetched, HereIsTold, Mounted
<1> QED
  BY <1>1, <1>2, <1>3, <1>4, <1>5, <1>6, <1>7, <1>8 DEF ScreensNext

------------------------------------------------------------------------------
(* The invariant of the tab and its cache entry: data from before a change *)
(* of the tab's own is marked, overtaken or being replaced.                *)
THEOREM ScreensInvariant == ScreensSpec => []ScreensInv
<1> QED
  BY ScreensStart, ScreensStep, PTL DEF ScreensSpec

(* Where every mutation announces what its screen shows, no order of       *)
(* visits, fetches, changes and failures leaves a screen showing, as       *)
(* settled data, what was read before a change of its own.                 *)
THEOREM ScreensShowOwnChanges == ScreensSpec => [](ScreensAnnounced => OwnChangesShow)
<1>1. ScreensInv => (ScreensAnnounced => OwnChangesShow)
  BY DEF ScreensInv, ScreensTypes, EntryType, EntryKept, OldDataIsMarked, ShownIsFetched,
         OwnChangesShow, NoClock
<1> QED
  BY <1>1, ScreensInvariant, PTL

-----------------------------------------------------------------------------
(* The till.                                                              *)

(* The positions of F up to one more.                                      *)
LEMMA PositionsUpTo ==
  ASSUME NEW F \in SUBSET Nat, NEW j \in Nat
  PROVE  /\ j + 1 \in F => {m \in F : m <= j + 1} = {m \in F : m <= j} \cup {j + 1}
         /\ j + 1 \notin F => {m \in F : m <= j + 1} = {m \in F : m <= j}
<1> \A m \in F : m \in Nat /\ (m <= j + 1 <=> m <= j \/ m = j + 1)
  OBVIOUS
<1>1. j + 1 \notin F => \A m \in F : m # j + 1
  OBVIOUS
<1>2. j + 1 \in F => {m \in F : m <= j + 1} = {m \in F : m <= j} \cup {j + 1}
  OBVIOUS
<1>3. ASSUME j + 1 \notin F PROVE {m \in F : m <= j + 1} = {m \in F : m <= j}
  BY <1>1, <1>3
<1> QED
  BY <1>2, <1>3

(* In a set of n or more positions there is an n-th.                       *)
LEMMA NthPosition ==
  ASSUME NEW N \in Nat, NEW F \in SUBSET (1 .. N), NEW n \in 1 .. Cardinality(F)
  PROVE  \E k \in F : Cardinality({m \in F : m <= k}) = n
<1> DEFINE upTo(j) == {m \in F : m <= j}
           G == {j \in Nat : Cardinality(upTo(j)) < n}
<1>0. \A k \in F : k \in Nat /\ 1 <= k /\ k <= N
  OBVIOUS
<1>1. IsFiniteSet(F) /\ Cardinality(F) \in Nat /\ n \in Nat
  <2>1. IsFiniteSet(1 .. N)
    BY FS_Interval
  <2>2. IsFiniteSet(F)
    BY <2>1, FS_Subset
  <2> QED
    BY <2>2, FS_CardinalityType
<1>2. \A j \in Nat : IsFiniteSet(upTo(j)) /\ Cardinality(upTo(j)) \in Nat
  <2> TAKE j \in Nat
  <2>1. upTo(j) \in SUBSET F
    OBVIOUS
  <2> QED
    BY <1>1, <2>1, FS_Subset, FS_CardinalityType
<1> SUFFICES ASSUME \A k \in F : Cardinality(upTo(k)) # n
             PROVE  FALSE
  OBVIOUS
<1>3. 0 \in G
  <2>1. upTo(0) = {}
    <3>1. \A k \in F : ~(k <= 0)
      BY <1>0
    <3> QED
      BY <3>1
  <2> QED
    BY <2>1, FS_EmptySet
<1>4. ASSUME NEW j \in Nat, j \in G PROVE j + 1 \in G
  <2>1. CASE j + 1 \in F
    <3>1. upTo(j + 1) = upTo(j) \cup {j + 1}
      BY <1>0, <2>1, PositionsUpTo
    <3>2. Cardinality(upTo(j + 1)) <= Cardinality(upTo(j)) + 1
      <4> HIDE DEF upTo
      <4> QED
        <5>1. Cardinality(upTo(j) \cup {j + 1}) =
                IF j + 1 \in upTo(j) THEN Cardinality(upTo(j)) ELSE Cardinality(upTo(j)) + 1
          BY <1>2, FS_AddElement
        <5>2. Cardinality(upTo(j)) \in Nat
          BY <1>2
        <5> QED
          BY <3>1, <5>1, <5>2
    <3>3. Cardinality(upTo(j + 1)) # n /\ Cardinality(upTo(j + 1)) \in Nat
      <4> HIDE DEF upTo
      <4> QED
        BY <1>2, <2>1
    <3> QED
      BY <1>1, <1>2, <1>4, <3>2, <3>3
  <2>2. CASE j + 1 \notin F
    <3>1. upTo(j + 1) = upTo(j)
      BY <1>0, <2>2, PositionsUpTo
    <3> QED
      BY <1>4, <3>1
  <2> QED
    BY <2>1, <2>2
<1>5. N \in G
  <2> HIDE DEF G
  <2> QED
    BY <1>3, <1>4, NatSetInduction
<1>6. upTo(N) = F
  BY <1>0
<1> QED
  BY <1>1, <1>5, <1>6

(* What is left of a list without repetitions is some of the list: each of *)
(* its positions stands for one of the list.                               *)
LEMMA DedupePositions ==
  ASSUME NEW T, NEW ds \in Seq(T)
  PROVE  /\ Dedupe(ds) \in Seq(T)
         /\ \E pos \in Injection(1 .. Len(Dedupe(ds)), 1 .. Len(ds)) :
              \A n \in 1 .. Len(Dedupe(ds)) : Dedupe(ds)[n] = ds[pos[n]]
<1> DEFINE first == {k \in DOMAIN ds : ds[k].id = NotGiven \/ \A m \in 1 .. k - 1 : ds[m].id # ds[k].id}
           upTo(k) == Cardinality({m \in first : m <= k})
           nth(n) == CHOOSE k \in first : upTo(k) = n
           size == Cardinality(first)
           pos == [n \in 1 .. size |-> nth(n)]
<1>1. first \in SUBSET (1 .. Len(ds)) /\ Len(ds) \in Nat
  BY LenProperties
<1>2. size \in Nat
  <2>1. IsFiniteSet(1 .. Len(ds))
    BY <1>1, FS_Interval
  <2> HIDE DEF first
  <2>2. IsFiniteSet(first)
    BY <1>1, <2>1, FS_Subset
  <2> QED
    BY <2>2, FS_CardinalityType
<1>3. \A n \in 1 .. size : nth(n) \in first /\ upTo(nth(n)) = n
  <2> HIDE DEF first
  <2> TAKE n \in 1 .. size
  <2>1. \E k \in first : Cardinality({m \in first : m <= k}) = n
    BY <1>1, NthPosition
  <2> QED
    BY <2>1
<1>4. \A n \in 1 .. size : ds[nth(n)] \in T
  <2> HIDE DEF first, nth
  <2> QED
    BY <1>1, <1>3, ElementOfSeq
<1>5. Dedupe(ds) = [n \in 1 .. size |-> ds[nth(n)]]
  BY DEF Dedupe
<1>6. Dedupe(ds) \in Seq(T) /\ Len(Dedupe(ds)) = size
  <2> HIDE DEF first, nth, size
  <2> QED
    BY <1>2, <1>4, <1>5
<1>7. pos \in Injection(1 .. size, 1 .. Len(ds))
  <2> HIDE DEF first, nth, size, upTo
  <2>1. pos \in [1 .. size -> 1 .. Len(ds)]
    BY <1>1, <1>3
  <2>2. \A m, n \in 1 .. size : pos[m] = pos[n] => m = n
    BY <1>3
  <2> QED
    BY <2>1, <2>2 DEF Injection, IsInjective
<1>8. \A n \in 1 .. size : Dedupe(ds)[n] = ds[pos[n]]
  <2> HIDE DEF first, nth, size
  <2> QED
    BY <1>5
<1> QED
  <2> HIDE DEF first, nth, size, pos
  <2> QED
    BY <1>6, <1>7, <1>8

(* A finite set of discounts listed in some order.                         *)
LEMMA ListedSeq ==
  ASSUME NEW T, NEW S, IsFiniteSet(S), \A d \in S : AsLineDiscount(d) \in T
  PROVE  Listed(S) \in Seq(T)
<1>1. Cardinality(S) \in Nat /\ ExistsBijection(1 .. Cardinality(S), S)
  BY FS_CardinalityType
<1>2. \E f \in [1 .. Cardinality(S) -> S] : IsInjective(f)
  BY <1>1 DEF ExistsBijection, Bijection, Injection
<1>3. SetToSeq(S) \in [1 .. Cardinality(S) -> S]
  BY <1>2 DEF SetToSeq
<1>4. \A k \in 1 .. Cardinality(S) : AsLineDiscount(SetToSeq(S)[k]) \in T
  BY <1>3
<1> HIDE DEF AsLineDiscount
<1> QED
  BY <1>1, <1>4 DEF Listed

-----------------------------------------------------------------------------
(* Amounts each capped by what the ones before left of a base, add up to   *)
(* their uncapped sum or to the base.                                      *)
LEMMA CappedSums ==
  ASSUME NEW n \in Nat, NEW base \in Nat, NEW a, \A k \in 1 .. n : a[k] \in Nat,
         NEW s, \A k \in 1 .. n :
                  s[k] = Lesser(a[k], base - Lesser(SumFunctionOnSet(a, 1 .. k - 1), base))
  PROVE  /\ \A k \in 1 .. n : s[k] \in Nat
         /\ SumFunctionOnSet(s, 1 .. n) = Lesser(SumFunctionOnSet(a, 1 .. n), base)
<1> DEFINE A(m) == SumFunctionOnSet(a, 1 .. m)
           S(m) == SumFunctionOnSet(s, 1 .. m)
           G == {m \in Nat : m <= n => S(m) = Lesser(A(m), base)}
<1>1. \A m \in 0 .. n : A(m) \in Nat
  <2> TAKE m \in 0 .. n
  <2>1. IsFiniteSet(1 .. m)
    BY FS_Interval
  <2>2. NatValued(a, 1 .. m)
    BY DEF NatValued
  <2> QED
    BY <2>1, <2>2, SumNat
<1>2. \A k \in 1 .. n : s[k] \in Nat
  <2> TAKE k \in 1 .. n
  <2>1. A(k - 1) \in Nat /\ a[k] \in Nat
    BY <1>1
  <2>2. s[k] = Lesser(a[k], base - Lesser(A(k - 1), base))
    OBVIOUS
  <2> HIDE DEF A
  <2> QED
    BY <2>1, <2>2 DEF Lesser
<1>3. 0 \in G
  <2>1. 1 .. 0 = {}
    OBVIOUS
  <2>2. A(0) = 0 /\ S(0) = 0
    BY <2>1, SumEmpty
  <2> HIDE DEF A, S
  <2> QED
    BY <2>2 DEF Lesser
<1>4. ASSUME NEW m \in Nat, m \in G PROVE m + 1 \in G
  <2> SUFFICES ASSUME m + 1 <= n PROVE S(m + 1) = Lesser(A(m + 1), base)
    OBVIOUS
  <2>1. S(m) = Lesser(A(m), base) /\ A(m) \in Nat
    BY <1>1, <1>4
  <2>2. IntValued(a, 1 .. m + 1) /\ IntValued(s, 1 .. m + 1)
    BY <1>2 DEF IntValued
  <2>3. A(m + 1) = A(m) + a[m + 1] /\ S(m + 1) = S(m) + s[m + 1]
    BY <2>2, SumLast
  <2>4. m + 1 \in 1 .. n /\ (m + 1) - 1 = m
    OBVIOUS
  <2>5. s[m + 1] = Lesser(a[m + 1], base - Lesser(A(m), base)) /\ a[m + 1] \in Nat
    BY <2>4
  <2> HIDE DEF A, S, G
  <2> QED
    BY <2>1, <2>3, <2>5 DEF Lesser
<1>5. n \in G
  <2> HIDE DEF G
  <2> QED
    BY <1>3, <1>4, NatSetInduction
<1> QED
  BY <1>2, <1>5

(* A discount takes a whole number of cents off.                           *)
LEMMA ApplyDiscountNat ==
  ASSUME NEW base \in Nat, NEW d, IsDiscount(d)
  PROVE  ApplyDiscount(base, d) \in Nat
<1>1. d.part \in Nat /\ d.whole \in Nat /\ d.whole > 0
  BY DEF IsDiscount
<1>2. base * d.part \in Nat
  BY <1>1
<1>3. \A n \in Nat, q \in Nat : q > 0 => (2 * n + q) \div (2 * q) \in Nat
  OBVIOUS
<1> QED
  BY <1>1, <1>2, <1>3 DEF ApplyDiscount, Pct, Rounded, Lesser

(* A list of discounts: its split adds up to the discount shown, which is  *)
(* within the base.                                                        *)
LEMMA SplitAddsUp ==
  ASSUME NEW base \in Nat, NEW T, \A d \in T : IsDiscount(d), NEW ds \in Seq(T)
  PROVE  /\ IsFiniteSet(DOMAIN ds)
         /\ \A k \in DOMAIN ds : SplitAmounts(base, ds)[k] \in Nat
         /\ Sum(SplitAmounts(base, ds)) = SumDiscounts(base, ds)
         /\ SumDiscounts(base, ds) \in 0 .. base
<1> DEFINE a == Applied(base, ds)
           s == SplitAmounts(base, ds)
           n == Len(ds)
<1>1. n \in Nat /\ DOMAIN ds = 1 .. n /\ \A k \in 1 .. n : ds[k] \in T
  BY LenProperties, ElementOfSeq
<1>2. IsFiniteSet(1 .. n)
  BY <1>1, FS_Interval
<1>3. DOMAIN a = 1 .. n /\ \A k \in 1 .. n : a[k] \in Nat
  BY <1>1, ApplyDiscountNat DEF Applied
<1>4. DOMAIN s = 1 .. n
        /\ \A k \in 1 .. n : s[k] = Lesser(a[k], base - Lesser(SumFunctionOnSet(a, 1 .. k - 1), base))
  BY <1>1 DEF SplitAmounts
<1> HIDE DEF a, s, n
<1>5. /\ \A k \in 1 .. n : s[k] \in Nat
      /\ SumFunctionOnSet(s, 1 .. n) = Lesser(SumFunctionOnSet(a, 1 .. n), base)
  BY <1>1, <1>3, <1>4, CappedSums
<1>6. SumFunctionOnSet(a, 1 .. n) \in Nat
  BY <1>2, <1>3, SumNat DEF NatValued
<1>7. Sum(s) = SumFunctionOnSet(s, 1 .. n) /\ Sum(a) = SumFunctionOnSet(a, 1 .. n)
  BY <1>3, <1>4, SumDomain DEF Sum
<1>8. SumDiscounts(base, ds) = Lesser(Sum(a), base)
  BY DEF SumDiscounts, a
<1>9. Lesser(SumFunctionOnSet(a, 1 .. n), base) \in 0 .. base
  BY <1>6 DEF Lesser
<1> QED
  BY <1>1, <1>2, <1>5, <1>7, <1>8, <1>9 DEF s

(* Discounts of nothing are not sent, and what is sent adds up to the same. *)
LEMMA SentAddsUp ==
  ASSUME NEW base \in Nat, NEW T, \A d \in T : IsDiscount(d), NEW ds \in Seq(T)
  PROVE  Given(AmountsSent(base, ds)) = SumDiscounts(base, ds)
<1> DEFINE s == SplitAmounts(base, ds)
           kept == {m \in DOMAIN ds : s[m] > 0}
           toSend == AmountsSent(base, ds)
           f == [k \in DOMAIN toSend |-> Amount(toSend[k])]
<1>1. /\ IsFiniteSet(DOMAIN ds) /\ \A k \in DOMAIN ds : s[k] \in Nat
      /\ Sum(s) = SumDiscounts(base, ds)
  BY SplitAddsUp
<1>2. DOMAIN s = DOMAIN ds
  BY LenProperties DEF SplitAmounts, Applied
<1>3. DOMAIN f = kept /\ kept \in SUBSET DOMAIN ds /\ \A k \in kept : f[k] = s[k]
  BY DEF AmountsSent, Amount
<1>4. \A k \in DOMAIN ds \ kept : s[k] = 0
  BY <1>1
<1>5. Given(toSend) = Sum(f)
  BY DEF Given
<1> HIDE DEF s, kept, toSend, f
<1>6. IntValued(f, kept) /\ \A k \in kept : s[k] = f[k]
  BY <1>1, <1>3 DEF IntValued
<1>7. SumFunctionOnSet(s, DOMAIN ds) = SumFunctionOnSet(f, kept)
  BY <1>1, <1>3, <1>4, <1>6, SumWhere
<1>8. Sum(s) = SumFunctionOnSet(s, DOMAIN ds) /\ Sum(f) = SumFunctionOnSet(f, kept)
  BY <1>2, <1>3, SumDomain DEF Sum
<1> QED
  BY <1>1, <1>5, <1>7, <1>8 DEF toSend

-----------------------------------------------------------------------------
(* The discounts of a line, running and picked, are ones it may have; so   *)
(* are those of the order.                                                 *)
CartTypes ==
  /\ qty \in [Item -> Nat]
  /\ picked = [i \in Item |-> picked[i]]
  /\ \A i \in Item : picked[i] \in Seq(Offered(i))
  /\ overall \in Seq(OfferedOnOrder)

LEMMA OfferedDiscounts ==
  /\ \A i \in Item : \A d \in Offered(i) : IsDiscount(d)
  /\ \A d \in OfferedOnOrder : IsDiscount(d)
<1>1. \A d \in Catalog : IsDiscount(AsLineDiscount(d))
  BY DiscountAssumption DEF IsDiscount, AsLineDiscount
<1>2. \A i \in Item : \A d \in Custom[i] : IsDiscount(d)
  BY DiscountAssumption
<1> QED
  BY <1>1, <1>2, DiscountAssumption DEF Offered, OfferedOnOrder

LEMMA CartDiscounts ==
  ASSUME CartTypes
  PROVE  /\ \A i \in Item : Discounts(i) \in Seq(Offered(i))
         /\ OrderDiscounts \in Seq(OfferedOnOrder)
<1>1. ASSUME NEW i \in Item PROVE Discounts(i) \in Seq(Offered(i))
  <2> DEFINE S == {d \in AutoDiscounts(LineScope) : Targets(d, i)}
  <2>1. S \in SUBSET Catalog
    BY DEF AutoDiscounts
  <2>2. IsFiniteSet(S)
    BY <2>1, DiscountAssumption, FS_Subset
  <2>3. \A d \in S : AsLineDiscount(d) \in Offered(i)
    BY DEF AutoDiscounts, Offered
  <2>4. AutoLineFor(i) \in Seq(Offered(i))
    BY <2>2, <2>3, ListedSeq DEF AutoLineFor
  <2>5. picked[i] \in Seq(Offered(i))
    BY DEF CartTypes
  <2>6. AutoLineFor(i) \o picked[i] \in Seq(Offered(i))
    BY <2>4, <2>5, ConcatProperties
  <2> QED
    BY <2>6, DedupePositions DEF Discounts
<1>2. OrderDiscounts \in Seq(OfferedOnOrder)
  <2> DEFINE S == AutoDiscounts(OrderScope)
  <2>1. S \in SUBSET Catalog
    BY DEF AutoDiscounts
  <2>2. IsFiniteSet(S)
    BY <2>1, DiscountAssumption, FS_Subset
  <2>3. \A d \in S : AsLineDiscount(d) \in OfferedOnOrder
    BY DEF AutoDiscounts, OfferedOnOrder
  <2>4. Listed(S) \in Seq(OfferedOnOrder)
    BY <2>2, <2>3, ListedSeq
  <2>5. Listed(S) \o overall \in Seq(OfferedOnOrder)
    BY <2>4, ConcatProperties DEF CartTypes
  <2> QED
    BY <2>5, DedupePositions DEF OrderDiscounts
<1> QED
  BY <1>1, <1>2

(* A line of the payload: what the server makes of its discounts is what   *)
(* the cart shows before tax, and a tax of whole cents is the one shown.   *)
LEMMA LinePrice ==
  ASSUME CartTypes, NEW i \in InCart
  PROVE  /\ PostDiscount(Payload, i) = Taxable(i)
         /\ Taxable(i) \in Nat
         /\ LineNet(i) \in Nat
         /\ CartRate(i) = ServerRate(i) /\ LineTax(Payload, i) % 100 = 0 =>
              100 * LineNet(i) = 100 * PostDiscount(Payload, i) + LineTax(Payload, i)
<1>1. i \in Item /\ qty[i] \in Nat /\ Price[i] \in Nat /\ LineGross(i) \in Nat
  BY TillAssumption DEF InCart, CartTypes, LineGross
<1>2. Discounts(i) \in Seq(Offered(i)) /\ \A d \in Offered(i) : IsDiscount(d)
  BY <1>1, CartDiscounts, OfferedDiscounts
<1>3. /\ SumDiscounts(LineGross(i), Discounts(i)) \in 0 .. LineGross(i)
      /\ Given(AmountsSent(LineGross(i), Discounts(i))) = SumDiscounts(LineGross(i), Discounts(i))
  BY <1>1, <1>2, SplitAddsUp, SentAddsUp
<1>4. Taxable(i) \in Nat
  BY <1>1, <1>3 DEF Taxable
<1>5. Payload.items[i] = [qty |-> qty[i], discounts |-> AmountsSent(LineGross(i), Discounts(i))]
  BY DEF Payload
<1>6. PostDiscount(Payload, i) = Taxable(i)
  BY <1>3, <1>5 DEF PostDiscount, Taxable, LineGross
<1>7. CartRate(i) \in Nat
  BY <1>1, TillAssumption DEF CartRate
<1>8. Taxable(i) * CartRate(i) \in Nat
  BY <1>4, <1>7
<1>9. \A n \in Nat : (2 * n + 100) \div (2 * 100) \in Nat
  OBVIOUS
<1>10. LineNet(i) \in Nat
  BY <1>4, <1>8, <1>9 DEF LineNet, Pct, Rounded
<1>11. \A n \in Nat : n % 100 = 0 => 100 * ((2 * n + 100) \div (2 * 100)) = n
  OBVIOUS
<1>12. ASSUME CartRate(i) = ServerRate(i), LineTax(Payload, i) % 100 = 0
       PROVE  100 * LineNet(i) = 100 * PostDiscount(Payload, i) + LineTax(Payload, i)
  <2>1. LineTax(Payload, i) = Taxable(i) * CartRate(i)
    BY <1>6, <1>12 DEF LineTax
  <2>2. 100 * Pct(Taxable(i), CartRate(i), 100) = LineTax(Payload, i)
    BY <1>8, <1>11, <1>12, <2>1 DEF Pct, Rounded
  <2>3. Pct(Taxable(i), CartRate(i), 100) \in Nat
    BY <1>8, <1>9 DEF Pct, Rounded
  <2>4. LineNet(i) = Taxable(i) + Pct(Taxable(i), CartRate(i), 100)
    BY DEF LineNet
  <2> HIDE DEF Pct
  <2> QED
    BY <1>4, <1>6, <2>2, <2>3, <2>4
<1> QED
  BY <1>4, <1>6, <1>10, <1>12

(* No discount goes to a line it is not meant for.                         *)
LEMMA PayloadOnTarget ==
  ASSUME CartTypes
  PROVE  OnTarget(Payload)
<1> SUFFICES ASSUME NEW i \in DOMAIN Payload.items,
                    NEW k \in DOMAIN Payload.items[i].discounts, NEW e \in Catalog,
                    e.scope = LineScope, e.id = Payload.items[i].discounts[k].id
             PROVE  Targets(e, i)
  BY DEF OnTarget
<1> DEFINE ds == Discounts(i)
<1>1. i \in InCart /\ i \in Item
  BY DEF Payload, InCart
<1>2. Payload.items[i].discounts = AmountsSent(LineGross(i), ds)
  BY <1>1 DEF Payload
<1>3. k \in DOMAIN ds /\ e.id = ds[k].id
  BY <1>2 DEF AmountsSent
<1>4. ds \in Seq(Offered(i))
  BY <1>1, CartDiscounts
<1>5. ds[k] \in Offered(i)
  BY <1>3, <1>4, LenProperties, ElementOfSeq
<1>6. ds[k] \notin Custom[i]
  BY <1>1, <1>3, DiscountAssumption
<1>7. PICK d \in Catalog : Targets(d, i) /\ ds[k] = AsLineDiscount(d)
  BY <1>5, <1>6 DEF Offered
<1>8. d.id = e.id
  BY <1>3, <1>7 DEF AsLineDiscount
<1> QED
  BY <1>7, <1>8, DiscountAssumption

(* What the server computes from the payload is what the cart shows.       *)
LEMMA PayloadTotal ==
  ASSUME CartTypes
  PROVE  /\ LinesCovered(Payload)
         /\ TaxAgrees(Payload) =>
              /\ ServerTotal(Payload) = 100 * GrandTotal
              /\ GrandTotal \in Nat
<1> DEFINE c == Payload
           net == [i \in InCart |-> LineNet(i)]
           line == [i \in DOMAIN c.items |-> 100 * PostDiscount(c, i) + LineTax(c, i)]
           split == SplitAmounts(LinesNet, OrderDiscounts)
<1>1. DOMAIN c.items = InCart /\ c.discounts = AmountsSent(LinesNet, OrderDiscounts)
  BY DEF Payload
<1>2. IsFiniteSet(InCart)
  <2>1. InCart \in SUBSET Item
    BY DEF InCart
  <2> QED
    BY <2>1, DiscountAssumption, FS_Subset
<1>3. LinesCovered(c)
  BY <1>1, LinePrice DEF LinesCovered
<1>4. \A i \in InCart : net[i] \in Nat
  BY LinePrice
<1>5. LinesNet = SumFunctionOnSet(net, InCart) /\ LinesNet \in Nat
  <2>1. LinesNet = SumFunctionOnSet(net, InCart)
    BY SumDomain DEF LinesNet, Sum
  <2>2. SumFunctionOnSet(net, InCart) \in Nat
    <3> HIDE DEF net
    <3> QED
      BY <1>2, <1>4, SumNat DEF NatValued
  <2> QED
    BY <2>1, <2>2
<1>6. /\ OrderDiscounts \in Seq(OfferedOnOrder)
      /\ \A d \in OfferedOnOrder : IsDiscount(d)
  BY CartDiscounts, OfferedDiscounts
<1>7. /\ Sum(split) = SumDiscounts(LinesNet, OrderDiscounts)
      /\ SumDiscounts(LinesNet, OrderDiscounts) \in 0 .. LinesNet
      /\ Given(c.discounts) = SumDiscounts(LinesNet, OrderDiscounts)
  BY <1>1, <1>5, <1>6, SplitAddsUp, SentAddsUp
<1>8. GrandTotal = LinesNet - Sum(split)
  BY DEF GrandTotal
<1>9. ASSUME TaxAgrees(c) PROVE SumFunctionOnSet(line, InCart) = LinesNet * 100
  <2>1. \A i \in InCart : line[i] = net[i] * 100
    <3> TAKE i \in InCart
    <3>1. CartRate(i) = ServerRate(i) /\ LineTax(c, i) % 100 = 0
      BY <1>1, <1>9 DEF TaxAgrees
    <3>2. 100 * LineNet(i) = 100 * PostDiscount(c, i) + LineTax(c, i)
      BY <3>1, LinePrice
    <3>3. line[i] = 100 * LineNet(i)
      BY <1>1, <3>2
    <3> QED
      BY <1>4, <3>3
  <2>2. IntValued(net, InCart)
    BY <1>4 DEF IntValued
  <2> HIDE DEF net, line
  <2> QED
    BY <1>2, <1>5, <2>1, <2>2, SumTimes
<1>10. ServerTotal(c) = SumFunctionOnSet(line, InCart) - 100 * Given(c.discounts)
  BY <1>1, SumDomain DEF ServerTotal, Sum
<1> HIDE DEF c, net, line, split
<1> QED
  BY <1>3, <1>5, <1>7, <1>8, <1>9, <1>10 DEF c

(* The payload of any cart keeps the promise of the displayed total.       *)
Charged(c) ==
  TaxAgrees(c) =>
    /\ OnTarget(c) /\ LinesCovered(c)
    /\ ServerTotal(c) = 100 * c.total
    /\ c.paid = c.total => PaymentFits(c)

LEMMA PayloadCharged ==
  ASSUME CartTypes
  PROVE  Charged(Payload)
<1> SUFFICES ASSUME TaxAgrees(Payload)
             PROVE  /\ OnTarget(Payload) /\ LinesCovered(Payload)
                    /\ ServerTotal(Payload) = 100 * Payload.total
                    /\ Payload.paid = Payload.total => PaymentFits(Payload)
  BY DEF Charged
<1>1. OnTarget(Payload) /\ LinesCovered(Payload)
  BY PayloadOnTarget, PayloadTotal
<1>2. ServerTotal(Payload) = 100 * GrandTotal /\ GrandTotal \in Nat
  BY PayloadTotal
<1>3. Payload.total = GrandTotal
  BY DEF Payload
<1>4. ASSUME Payload.paid = Payload.total PROVE PaymentFits(Payload)
  <2> HIDE DEF Payload
  <2> QED
    BY <1>2, <1>3, <1>4 DEF PaymentFits
<1> QED
  BY <1>1, <1>2, <1>3, <1>4

-----------------------------------------------------------------------------
(* The units.  Unless the cart changed under it, a scan shows the quantity *)
(* of its line and a checkout holds the cart as it is; units entered are   *)
(* in the cart until the server has sold them.                             *)
InFlight(i) == IF i \in DOMAIN checkout.items THEN checkout.items[i].qty ELSE 0

UnitTypes ==
  /\ entered \in [Item -> Int] /\ sold \in [Item -> Int]
  /\ \A s \in scans : s.item \in Item /\ s.shown \in Nat
  /\ \A s, t \in scans : s = t
  /\ checkout # NoCheckout => \A i \in Item : InFlight(i) \in Nat
  /\ answer = "order" => checkout # NoCheckout

UnitsFollow ==
  ~crossed =>
    /\ \A s \in scans : s.shown = qty[s.item]
    /\ checkout # NoCheckout => \A i \in Item : InFlight(i) = qty[i]
    /\ \A i \in Item : entered[i] = sold[i] + IF answer = "order" THEN 0 ELSE qty[i]

TillInv == CartTypes /\ UnitTypes /\ UnitsFollow /\ DisplayedTotalIsCharged

LEMMA TillInitInv == TillInit => TillInv
<1> SUFFICES ASSUME TillInit PROVE TillInv
  OBVIOUS
<1>1. CartTypes
  BY DEF TillInit, CartTypes
<1>2. UnitTypes /\ UnitsFollow
  BY DEF TillInit, UnitTypes, UnitsFollow
<1>3. DisplayedTotalIsCharged
  BY DEF TillInit, DisplayedTotalIsCharged
<1> QED
  BY <1>1, <1>2, <1>3 DEF TillInv

LEMMA RemoveAtSeq ==
  ASSUME NEW T, NEW s \in Seq(T), NEW k \in 1 .. Len(s)
  PROVE  RemoveAt(s, k) \in Seq(T)
<1>1. Len(s) \in Nat /\ \A n \in 1 .. Len(s) : s[n] \in T
  BY LenProperties, ElementOfSeq
<1>2. SubSeq(s, 1, k - 1) \in Seq(T) /\ SubSeq(s, k + 1, Len(s)) \in Seq(T)
  BY <1>1, SubSeqProperties
<1> QED
  BY <1>2, ConcatProperties DEF RemoveAt

LEMMA ManualWithin ==
  ASSUME NEW T, NEW s \in Seq(T), NEW k \in 1 .. Cardinality(Manual(s))
  PROVE  k \in 1 .. Len(s)
<1>1. Len(s) \in Nat /\ DOMAIN s = 1 .. Len(s)
  BY LenProperties
<1>2. IsFiniteSet(1 .. Len(s)) /\ Cardinality(1 .. Len(s)) = Len(s)
  <2>1. \A n \in Nat : IsFiniteSet(1 .. n) /\ Cardinality(1 .. n) = IF 1 > n THEN 0 ELSE n - 1 + 1
    BY FS_Interval
  <2> QED
    BY <1>1, <2>1
<1>3. Manual(s) \in SUBSET (1 .. Len(s))
  BY <1>1 DEF Manual
<1>4. /\ Cardinality(Manual(s)) <= Cardinality(1 .. Len(s))
      /\ Cardinality(Manual(s)) \in Nat
  BY <1>2, <1>3, FS_Subset, FS_CardinalityType
<1> QED
  BY <1>1, <1>2, <1>4

(* A payload that does not change keeps the promise.                       *)
LEMMA ChargedKept ==
  ASSUME DisplayedTotalIsCharged, UNCHANGED checkout
  PROVE  DisplayedTotalIsCharged'
<1>1. DisplayedTotalIsCharged <=> (checkout # NoCheckout => Charged(checkout))
  BY DEF DisplayedTotalIsCharged, Charged
<1>2. DisplayedTotalIsCharged' <=> (checkout' # NoCheckout => Charged(checkout'))
  BY DEF DisplayedTotalIsCharged, Charged
<1> QED
  BY <1>1, <1>2

(* A change of the discounts or the payment.                               *)
LEMMA SameUnits ==
  ASSUME TillInv, CartTypes', UNCHANGED <<qty, scans, checkout, answer, entered, sold>>,
         crossed => crossed'
  PROVE  TillInv'
<1>1. UnitTypes' /\ UnitsFollow'
  BY DEF TillInv, UnitTypes, UnitsFollow, InFlight
<1>2. DisplayedTotalIsCharged'
  BY ChargedKept DEF TillInv
<1> QED
  BY <1>1, <1>2 DEF TillInv

(* A change of the cart, by what was entered more or less.                 *)
LEMMA CartChanges ==
  ASSUME TillInv, CartTypes', entered' \in [Item -> Int],
         UNCHANGED <<checkout, answer, sold>>, scans' \in SUBSET scans,
         ~crossed' => /\ ~crossed /\ scans' = {} /\ checkout = NoCheckout
                      /\ \A i \in Item : entered'[i] - entered[i] = qty'[i] - qty[i]
  PROVE  TillInv'
<1>1. UnitTypes'
  BY DEF TillInv, UnitTypes, InFlight
<1>2. UnitsFollow'
  <2> SUFFICES ASSUME ~crossed' PROVE \A i \in Item : entered'[i] = sold[i] + qty'[i]
    BY DEF UnitsFollow, TillInv, UnitTypes
  <2> TAKE i \in Item
  <2>1. /\ entered[i] \in Int /\ entered'[i] \in Int /\ sold[i] \in Int
        /\ qty[i] \in Nat /\ qty'[i] \in Nat
    BY DEF TillInv, UnitTypes, CartTypes
  <2>2. entered[i] = sold[i] + qty[i] /\ entered'[i] - entered[i] = qty'[i] - qty[i]
    BY DEF TillInv, UnitsFollow, UnitTypes
  <2> QED
    BY <2>1, <2>2
<1>3. DisplayedTotalIsCharged'
  BY ChargedKept DEF TillInv
<1> QED
  BY <1>1, <1>2, <1>3 DEF TillInv

LEMMA PutInv ==
  ASSUME TillInv, NEW i \in Item, NEW shown \in Nat, Put(i, shown),
         UNCHANGED <<checkout, answer, sold>>, scans' \in SUBSET scans,
         ~crossed' => ~crossed /\ scans' = {} /\ checkout = NoCheckout /\ shown = qty[i]
  PROVE  TillInv'
<1>1. qty \in [Item -> Nat] /\ entered \in [Item -> Int]
  BY DEF TillInv, CartTypes, UnitTypes
<1>2. AddedTo(i, shown) \in Nat /\ (shown = qty[i] => AddedTo(i, shown) = qty[i] + 1)
  BY <1>1 DEF AddedTo
<1>3. /\ qty' = [qty EXCEPT ![i] = AddedTo(i, shown)]
      /\ entered' = [entered EXCEPT ![i] = @ + 1]
      /\ UNCHANGED <<picked, overall>>
  BY DEF Put
<1>4. CartTypes'
  BY <1>1, <1>2, <1>3 DEF TillInv, CartTypes, Offered, OfferedOnOrder, Targets, AsLineDiscount
<1>5. entered' \in [Item -> Int]
  BY <1>1, <1>3
<1>6. ASSUME ~crossed' PROVE \A j \in Item : entered'[j] - entered[j] = qty'[j] - qty[j]
  BY <1>1, <1>2, <1>3, <1>6
<1> QED
  BY <1>4, <1>5, <1>6, CartChanges

LEMMA AddVariantInv ==
  ASSUME TillInv, NEW i \in Item, AddVariant(i)
  PROVE  TillInv'
<1>1. Shown(i) \in Nat /\ Shown(i) = qty[i]
  BY DEF TillInv, CartTypes, Shown
<1>2. Put(i, Shown(i)) /\ UNCHANGED <<checkout, answer, sold, scans>>
  BY DEF AddVariant, flight
<1>3. ~crossed' => ~crossed /\ scans = {} /\ checkout = NoCheckout
  BY DEF AddVariant, Changes
<1> QED
  BY <1>1, <1>2, <1>3, PutInv

LEMMA ScanResolvesInv ==
  ASSUME TillInv, NEW s \in scans, ScanResolves(s)
  PROVE  TillInv'
<1>1. s.item \in Item /\ s.shown \in Nat /\ scans \ {s} = {}
  BY DEF TillInv, UnitTypes
<1>2. Put(s.item, s.shown) /\ UNCHANGED <<checkout, answer, sold>> /\ scans' = scans \ {s}
  BY DEF ScanResolves
<1>3. ~crossed' => ~crossed /\ checkout = NoCheckout
  BY DEF ScanResolves, Changes
<1>4. ~crossed => s.shown = qty[s.item]
  BY DEF TillInv, UnitsFollow
<1> QED
  BY <1>1, <1>2, <1>3, <1>4, PutInv

LEMMA PressEnterInv ==
  ASSUME TillInv, NEW i \in Item, PressEnter(i)
  PROVE  TillInv'
<1> DEFINE s == [item |-> i, shown |-> Shown(i), nth |-> units]
<1>1. /\ scans = {} /\ scans' = {s}
      /\ UNCHANGED <<qty, picked, overall, checkout, answer, entered, sold, crossed>>
  BY DEF PressEnter, Busy, cart
<1>2. s.item = i /\ s.shown = qty[i] /\ qty[i] \in Nat
  BY DEF Shown, TillInv, CartTypes
<1> HIDE DEF s
<1>3. CartTypes'
  BY <1>1 DEF TillInv, CartTypes, Offered, OfferedOnOrder, Targets, AsLineDiscount
<1>4. UnitTypes' /\ UnitsFollow'
  BY <1>1, <1>2 DEF TillInv, UnitTypes, UnitsFollow, InFlight
<1>5. DisplayedTotalIsCharged'
  BY <1>1, ChargedKept DEF TillInv
<1> QED
  BY <1>3, <1>4, <1>5 DEF TillInv

LEMMA ScanFailsInv ==
  ASSUME TillInv, NEW s \in scans, ScanFails(s)
  PROVE  TillInv'
<1>1. /\ scans' \in SUBSET scans
      /\ UNCHANGED <<qty, picked, overall, checkout, answer, entered, sold, crossed>>
  BY DEF ScanFails, cart, tillHistory
<1>2. CartTypes'
  BY <1>1 DEF TillInv, CartTypes, Offered, OfferedOnOrder, Targets, AsLineDiscount
<1>3. UnitTypes' /\ UnitsFollow'
  BY <1>1 DEF TillInv, UnitTypes, UnitsFollow, InFlight
<1>4. DisplayedTotalIsCharged'
  BY <1>1, ChargedKept DEF TillInv
<1> QED
  BY <1>2, <1>3, <1>4 DEF TillInv

LEMMA SetQuantityInv ==
  ASSUME TillInv, NEW i \in Item, NEW n \in Nat, SetQuantity(i, n)
  PROVE  TillInv'
<1>1. qty \in [Item -> Nat] /\ entered \in [Item -> Int]
  BY DEF TillInv, CartTypes, UnitTypes
<1>2. /\ qty' = [qty EXCEPT ![i] = n]
      /\ picked' = IF n = 0 THEN [picked EXCEPT ![i] = <<>>] ELSE picked
      /\ entered' = [entered EXCEPT ![i] = @ + n - qty[i]]
      /\ UNCHANGED <<overall, scans, checkout, answer, sold>>
  BY DEF SetQuantity, flight
<1>3. CartTypes'
  <2>1. picked' = [j \in Item |-> picked'[j]] /\ \A j \in Item : picked'[j] \in {picked[j], <<>>}
    BY <1>2 DEF TillInv, CartTypes
  <2>2. \A j \in Item : picked'[j] \in Seq(Offered(j))
    BY <2>1, EmptySeq DEF TillInv, CartTypes
  <2> QED
    BY <1>1, <1>2, <2>1, <2>2
       DEF TillInv, CartTypes, Offered, OfferedOnOrder, Targets, AsLineDiscount
<1>4. entered' \in [Item -> Int] /\ \A j \in Item : entered'[j] - entered[j] = qty'[j] - qty[j]
  BY <1>1, <1>2
<1>5. ~crossed' => ~crossed /\ scans = {} /\ checkout = NoCheckout
  BY DEF SetQuantity, Changes
<1> QED
  BY <1>2, <1>3, <1>4, <1>5, CartChanges

LEMMA ClearInv ==
  ASSUME TillInv, Clear
  PROVE  TillInv'
<1>1. qty \in [Item -> Nat] /\ entered \in [Item -> Int]
  BY DEF TillInv, CartTypes, UnitTypes
<1>2. /\ qty' = [i \in Item |-> 0] /\ picked' = [i \in Item |-> <<>>] /\ overall' = <<>>
      /\ entered' = [i \in Item |-> entered[i] - qty[i]]
      /\ UNCHANGED <<scans, checkout, answer, sold>>
  BY DEF Clear, Emptied, flight
<1>3. CartTypes'
  BY <1>2 DEF CartTypes
<1>4. entered' \in [Item -> Int] /\ \A j \in Item : entered'[j] - entered[j] = qty'[j] - qty[j]
  BY <1>1, <1>2
<1>5. ~crossed' => ~crossed /\ scans = {} /\ checkout = NoCheckout
  BY DEF Clear, Changes
<1> QED
  BY <1>2, <1>3, <1>4, <1>5, CartChanges

(* The discounts.                                                          *)
LEMMA DiscountsInv ==
  ASSUME TillInv, CartTypes', DiscountsOnly
  PROVE  TillInv'
<1>1. UNCHANGED <<qty, scans, checkout, answer, entered, sold>> /\ (crossed => crossed')
  BY DEF DiscountsOnly, Changes, flight
<1> QED
  BY <1>1, SameUnits

LEMMA LineDiscountsInv ==
  ASSUME TillInv, NEW i \in Item, NEW ds \in Seq(Offered(i)),
         picked' = [picked EXCEPT ![i] = ds], UNCHANGED overall, DiscountsOnly
  PROVE  TillInv'
<1>1. UNCHANGED qty
  BY DEF DiscountsOnly
<1>2. picked' = [j \in Item |-> picked'[j]] /\ \A j \in Item : picked'[j] \in Seq(Offered(j))
  BY DEF TillInv, CartTypes
<1>3. CartTypes'
  BY <1>1, <1>2 DEF TillInv, CartTypes, Offered, OfferedOnOrder, Targets, AsLineDiscount
<1> QED
  BY <1>3, DiscountsInv

LEMMA OrderDiscountsInv ==
  ASSUME TillInv, overall' \in Seq(OfferedOnOrder), UNCHANGED picked, DiscountsOnly
  PROVE  TillInv'
<1>1. UNCHANGED qty
  BY DEF DiscountsOnly
<1>2. CartTypes'
  BY <1>1 DEF TillInv, CartTypes, Offered, OfferedOnOrder, Targets, AsLineDiscount
<1> QED
  BY <1>2, DiscountsInv

(* The chips of the order that are not running discounts are no more than  *)
(* the discounts picked for it, so the number of one is the number of some *)
(* discount picked.                                                        *)
LEMMA ManualIsPicked ==
  ASSUME CartTypes, NEW k \in 1 .. Cardinality(Manual(OrderDiscounts))
  PROVE  k \in 1 .. Len(overall)
<1> DEFINE S == AutoDiscounts(OrderScope)
           a == Listed(S)
           ds == a \o overall
           M == Manual(OrderDiscounts)
<1>1. IsFiniteSet(S) /\ S \subseteq Catalog
  <2>1. S \in SUBSET Catalog
    BY DEF AutoDiscounts
  <2> QED
    BY <2>1, DiscountAssumption, FS_Subset
<1> DEFINE AutoLines == {AsLineDiscount(d) : d \in S}
<1>2. a \in Seq(AutoLines)
  <2>1. \A d \in S : AsLineDiscount(d) \in AutoLines
    OBVIOUS
  <2> HIDE DEF AutoLines, S
  <2> QED
    BY <1>1, <2>1, ListedSeq
<1>3. \A d \in AutoLines : d.id \in AutoIds
  BY DEF AutoIds, AsLineDiscount
<1> DEFINE T == AutoLines \cup OfferedOnOrder
<1>4. a \in Seq(T) /\ overall \in Seq(T)
  <2>1. overall \in Seq(OfferedOnOrder)
    BY DEF CartTypes
  <2> HIDE DEF a, AutoLines
  <2> QED
    BY <1>2, <2>1, SeqMonotonic
<1> HIDE DEF AutoLines, T, a
<1>5. /\ ds \in Seq(T) /\ Len(ds) = Len(a) + Len(overall)
      /\ Len(a) \in Nat /\ Len(overall) \in Nat
      /\ \A n \in 1 .. Len(a) : ds[n] = a[n] /\ a[n] \in AutoLines
  <2>1. Len(a) \in Nat /\ Len(overall) \in Nat
    BY <1>4, LenProperties
  <2>2. /\ ds \in Seq(T) /\ Len(ds) = Len(a) + Len(overall)
        /\ \A n \in 1 .. Len(a) + Len(overall) :
             ds[n] = IF n <= Len(a) THEN a[n] ELSE overall[n - Len(a)]
    BY <1>4, ConcatProperties
  <2>3. \A n \in 1 .. Len(a) : a[n] \in AutoLines
    BY <1>2, ElementOfSeq
  <2> HIDE DEF ds
  <2> QED
    BY <2>1, <2>2, <2>3
<1>6. OrderDiscounts = Dedupe(ds)
  BY DEF OrderDiscounts, a
<1> HIDE DEF ds
<1>7. PICK pos \in Injection(1 .. Len(OrderDiscounts), 1 .. Len(ds)) :
        \A n \in 1 .. Len(OrderDiscounts) : OrderDiscounts[n] = ds[pos[n]]
  <2>1. ds \in Seq(T)
    BY <1>5
  <2>2. \E p \in Injection(1 .. Len(Dedupe(ds)), 1 .. Len(ds)) :
          \A n \in 1 .. Len(Dedupe(ds)) : Dedupe(ds)[n] = ds[p[n]]
    BY ONLY <2>1, DedupePositions
  <2> QED
    BY ONLY <1>6, <2>2
<1>8. M \subseteq 1 .. Len(OrderDiscounts) /\ \A n \in M : OrderDiscounts[n].id \notin AutoIds
  <2>1. OrderDiscounts \in Seq(T)
    BY <1>5, <1>6, DedupePositions
  <2> QED
    BY <2>1, LenProperties DEF Manual
<1> HIDE DEF M
<1>9. /\ pos \in [1 .. Len(OrderDiscounts) -> 1 .. Len(ds)]
      /\ \A m, n \in 1 .. Len(OrderDiscounts) : pos[m] = pos[n] => m = n
  BY <1>7 DEF Injection, IsInjective
<1>10. \A n \in M : pos[n] \in 1 .. Len(ds) /\ pos[n] > Len(a)
  <2> TAKE n \in M
  <2>1. pos[n] \in 1 .. Len(ds) /\ ds[pos[n]].id \notin AutoIds
    BY <1>7, <1>8, <1>9
  <2>2. pos[n] \notin 1 .. Len(a)
    BY <1>3, <1>5, <2>1
  <2> QED
    BY <1>5, <2>1, <2>2
<1> DEFINE f == [n \in M |-> pos[n] - Len(a)]
<1>11. f \in Injection(M, 1 .. Len(overall))
  <2>1. f \in [M -> 1 .. Len(overall)]
    BY <1>5, <1>10
  <2>2. ASSUME NEW m \in M, NEW n \in M, f[m] = f[n] PROVE m = n
    <3>1. pos[m] = pos[n]
      BY <1>5, <1>10, <2>2
    <3> QED
      BY <1>8, <1>9, <3>1
  <2> QED
    BY <2>1, <2>2 DEF Injection, IsInjective
<1>12. IsFiniteSet(1 .. Len(overall)) /\ Cardinality(1 .. Len(overall)) = Len(overall)
  <2>1. \A n \in Nat : IsFiniteSet(1 .. n) /\ Cardinality(1 .. n) = IF 1 > n THEN 0 ELSE n - 1 + 1
    BY FS_Interval
  <2> QED
    BY <1>5, <2>1
<1>13. Cardinality(M) <= Len(overall) /\ Cardinality(M) \in Nat
  <2> HIDE DEF f
  <2>1. IsFiniteSet(M) /\ Cardinality(M) <= Cardinality(1 .. Len(overall))
    BY <1>11, <1>12, FS_Injection
  <2> QED
    BY <1>12, <2>1, FS_CardinalityType
<1> QED
  BY <1>5, <1>13 DEF M

LEMMA DiscountStepInv ==
  ASSUME TillInv,
         \/ \E i \in Item : \/ \E d \in Offered(i) : ApplyLineDiscount(i, d)
                            \/ \E k \in 1 .. MaxClicks : RemoveLineDiscount(i, k)
         \/ \E d \in Catalog : Suppress(d)
         \/ \E d \in OfferedOnOrder : AddOrderDiscount(d)
         \/ \E k \in 1 .. MaxClicks : RemoveOrderDiscount(k)
  PROVE  TillInv'
<1>0. CartTypes
  BY DEF TillInv
<1>1. ASSUME NEW i \in Item, NEW d \in Offered(i), ApplyLineDiscount(i, d) PROVE TillInv'
  <2>1. Discounts(i) \in Seq(Offered(i))
    BY <1>0, CartDiscounts
  <2>2. Append(Discounts(i), d) \in Seq(Offered(i))
    BY <2>1, AppendProperties
  <2> QED
    BY <1>1, <2>2, LineDiscountsInv DEF ApplyLineDiscount
<1>2. ASSUME NEW i \in Item, NEW k, RemoveLineDiscount(i, k) PROVE TillInv'
  <2>1. Discounts(i) \in Seq(Offered(i))
    BY <1>0, CartDiscounts
  <2>2. k \in 1 .. Cardinality(Manual(Discounts(i)))
    BY <1>2 DEF RemoveLineDiscount
  <2>3. RemoveAt(Discounts(i), k) \in Seq(Offered(i))
    BY <2>1, <2>2, ManualWithin, RemoveAtSeq
  <2> QED
    BY <1>2, <2>3, LineDiscountsInv DEF RemoveLineDiscount
<1>3. ASSUME NEW d, Suppress(d) PROVE TillInv'
  <2>1. UNCHANGED <<picked, overall>> /\ DiscountsOnly /\ overall \in Seq(OfferedOnOrder)
    BY <1>0, <1>3 DEF Suppress, CartTypes
  <2> QED
    BY <2>1, OrderDiscountsInv
<1>4. ASSUME NEW d \in OfferedOnOrder, AddOrderDiscount(d) PROVE TillInv'
  <2>1. Append(overall, d) \in Seq(OfferedOnOrder)
    BY <1>0, AppendProperties DEF CartTypes
  <2> QED
    BY <1>4, <2>1, OrderDiscountsInv DEF AddOrderDiscount
<1>5. ASSUME NEW k, RemoveOrderDiscount(k) PROVE TillInv'
  <2>1. k \in 1 .. Cardinality(Manual(OrderDiscounts))
    BY <1>5 DEF RemoveOrderDiscount
  <2>2. overall \in Seq(OfferedOnOrder) /\ OrderDiscounts \in Seq(OfferedOnOrder)
    BY <1>0, CartDiscounts DEF CartTypes
  <2>3. RemoveAt(overall, k) \in Seq(OfferedOnOrder)
    <3>1. k \in 1 .. Len(overall)
      BY <1>0, <2>1, ManualIsPicked
    <3> QED
      BY <2>2, <3>1, RemoveAtSeq
  <2> QED
    BY <1>5, <2>3, OrderDiscountsInv DEF RemoveOrderDiscount
<1> QED
  BY <1>1, <1>2, <1>3, <1>4, <1>5

(* The payment.                                                            *)
LEMMA PaymentInv ==
  ASSUME TillInv, (\E m \in Method : ChangeMethod(m)) \/ (\E a \in Tendered : TypeAmount(a))
  PROVE  TillInv'
<1>1. UNCHANGED <<qty, picked, overall, scans, checkout, answer, entered, sold, crossed>>
  BY DEF ChangeMethod, TypeAmount, cart, flight
<1>2. CartTypes'
  BY <1>1 DEF TillInv, CartTypes, Offered, OfferedOnOrder, Targets, AsLineDiscount
<1> QED
  BY <1>1, <1>2, SameUnits

(* The checkout.                                                           *)
LEMMA CheckoutInv ==
  ASSUME TillInv, Checkout
  PROVE  TillInv'
<1>1. /\ checkout = NoCheckout /\ checkout' = Payload /\ answer' = "none"
      /\ crossed' = (crossed \/ scans # {})
      /\ UNCHANGED <<qty, picked, overall, scans, entered, sold>>
  BY DEF Checkout, cart
<1>2. CartTypes'
  BY <1>1 DEF TillInv, CartTypes, Offered, OfferedOnOrder, Targets, AsLineDiscount
<1>3. \A i \in Item : InFlight(i)' = qty[i] /\ qty[i] \in Nat
  <2> TAKE i \in Item
  <2>1. qty[i] \in Nat
    BY DEF TillInv, CartTypes
  <2>2. DOMAIN Payload.items = InCart /\ (i \in InCart => Payload.items[i].qty = qty[i])
    BY DEF Payload
  <2>3. i \in InCart <=> qty[i] > 0
    BY DEF InCart
  <2> QED
    BY <1>1, <2>1, <2>2, <2>3 DEF InFlight
<1>4. UnitTypes'
  BY <1>1, <1>3 DEF TillInv, UnitTypes
<1>5. UnitsFollow'
  BY <1>1, <1>3 DEF TillInv, UnitsFollow, UnitTypes
<1>6. DisplayedTotalIsCharged'
  <2>1. Charged(Payload)
    BY PayloadCharged DEF TillInv
  <2>2. Charged(checkout')
    <3> HIDE DEF Charged
    <3> QED
      BY <1>1, <2>1
  <2>3. DisplayedTotalIsCharged' <=> (checkout' # NoCheckout => Charged(checkout'))
    BY DEF DisplayedTotalIsCharged, Charged
  <2> QED
    BY <2>2, <2>3
<1> QED
  BY <1>2, <1>4, <1>5, <1>6 DEF TillInv

(* The server's answer and what the page makes of it.                      *)
LEMMA AnswerInv ==
  ASSUME TillInv,
         ServerSells \/ ServerRefuses \/ CheckoutSucceeds \/ CheckoutFails \/ AnswerLost
  PROVE  TillInv'
<1>1. ASSUME ServerSells PROVE TillInv'
  <2>1. /\ checkout # NoCheckout /\ answer = "none" /\ answer' = "order"
        /\ sold' = [i \in Item |-> sold[i] + InFlight(i)]
        /\ UNCHANGED <<qty, picked, overall, scans, checkout, entered, crossed>>
    BY <1>1 DEF ServerSells, InFlight, cart
  <2>2. CartTypes'
    BY <2>1 DEF TillInv, CartTypes, Offered, OfferedOnOrder, Targets, AsLineDiscount
  <2>3. \A i \in Item : InFlight(i)' = InFlight(i) /\ InFlight(i) \in Nat
    BY <2>1 DEF TillInv, UnitTypes, InFlight
  <2>4. \A i \in Item : sold[i] \in Int /\ sold'[i] = sold[i] + InFlight(i) /\ qty[i] \in Nat
    BY <2>1 DEF TillInv, UnitTypes, CartTypes
  <2>5. sold' \in [Item -> Int]
    <3>1. \A i \in Item : sold[i] + InFlight(i) \in Int
      BY <2>3, <2>4
    <3> QED
      BY <2>1, <3>1
  <2>6. UnitTypes'
    BY <2>1, <2>3, <2>5 DEF TillInv, UnitTypes
  <2>7. UnitsFollow'
    BY <2>1, <2>3, <2>4 DEF TillInv, UnitsFollow
  <2>8. DisplayedTotalIsCharged'
    BY <2>1, ChargedKept DEF TillInv
  <2> QED
    BY <2>2, <2>6, <2>7, <2>8 DEF TillInv
<1>2. ASSUME ServerRefuses PROVE TillInv'
  <2>1. /\ answer = "none" /\ answer' = "error"
        /\ UNCHANGED <<qty, picked, overall, scans, checkout, entered, sold, crossed>>
    BY <1>2 DEF ServerRefuses, cart, tillHistory
  <2>2. CartTypes'
    BY <2>1 DEF TillInv, CartTypes, Offered, OfferedOnOrder, Targets, AsLineDiscount
  <2>3. UnitTypes' /\ UnitsFollow'
    BY <2>1 DEF TillInv, UnitTypes, UnitsFollow, InFlight
  <2>4. DisplayedTotalIsCharged'
    BY <2>1, ChargedKept DEF TillInv
  <2> QED
    BY <2>2, <2>3, <2>4 DEF TillInv
<1>3. ASSUME CheckoutSucceeds PROVE TillInv'
  <2>1. /\ checkout # NoCheckout /\ answer = "order"
        /\ checkout' = NoCheckout /\ answer' = "none"
        /\ qty' = [i \in Item |-> 0] /\ picked' = [i \in Item |-> <<>>] /\ overall' = <<>>
        /\ crossed' = (crossed \/ scans # {})
        /\ UNCHANGED <<scans, entered, sold>>
    BY <1>3 DEF CheckoutSucceeds, ClearCart, Emptied
  <2>2. CartTypes'
    BY <2>1 DEF CartTypes
  <2>3. UnitTypes'
    BY <2>1 DEF TillInv, UnitTypes
  <2>4. UnitsFollow'
    <3> SUFFICES ASSUME ~crossed' PROVE \A i \in Item : entered[i] = sold[i] + 0
      BY <2>1 DEF UnitsFollow
    <3> TAKE i \in Item
    <3>1. entered[i] = sold[i] + IF answer = "order" THEN 0 ELSE qty[i]
      BY <2>1 DEF TillInv, UnitsFollow
    <3> QED
      BY <2>1, <3>1
  <2>5. DisplayedTotalIsCharged'
    BY <2>1 DEF DisplayedTotalIsCharged
  <2> QED
    BY <2>2, <2>3, <2>4, <2>5 DEF TillInv
<1>4. ASSUME CheckoutFails \/ AnswerLost PROVE TillInv'
  <2>1. /\ checkout' = NoCheckout /\ answer' = "none"
        /\ (answer = "error" /\ crossed' = crossed) \/ crossed' = TRUE
        /\ UNCHANGED <<qty, picked, overall, scans, entered, sold>>
    BY <1>4 DEF CheckoutFails, AnswerLost, cart, tillHistory
  <2>2. CartTypes'
    BY <2>1 DEF TillInv, CartTypes, Offered, OfferedOnOrder, Targets, AsLineDiscount
  <2>3. UnitTypes' /\ UnitsFollow'
    BY <2>1 DEF TillInv, UnitTypes, UnitsFollow, InFlight
  <2>4. DisplayedTotalIsCharged'
    BY <2>1 DEF DisplayedTotalIsCharged
  <2> QED
    BY <2>2, <2>3, <2>4 DEF TillInv
<1> QED
  BY <1>1, <1>2, <1>3, <1>4

LEMMA TillStepInv ==
  ASSUME TillInv, [TillNext]_tillVars
  PROVE  TillInv'
<1>1. ASSUME UNCHANGED tillVars PROVE TillInv'
  <2>1. UNCHANGED <<qty, picked, overall, scans, checkout, answer, entered, sold, crossed>>
    BY <1>1 DEF tillVars, cart, flight, tillHistory
  <2>2. CartTypes'
    BY <2>1 DEF TillInv, CartTypes, Offered, OfferedOnOrder, Targets, AsLineDiscount
  <2> QED
    BY <2>1, <2>2, SameUnits
<1>2. ASSUME NEW i \in Item, Plus(i) \/ Minus(i) \/ RemoveItem(i) PROVE TillInv'
  <2>1. qty[i] \in Nat
    BY DEF TillInv, CartTypes
  <2>2. \E n \in Nat : SetQuantity(i, n)
    <3>1. CASE Plus(i)
      BY <2>1, <3>1 DEF Plus
    <3>2. CASE Minus(i)
      <4>1. qty[i] - 1 \in Nat
        BY <2>1, <3>2 DEF Minus
      <4> QED
        BY <3>2, <4>1 DEF Minus
    <3>3. CASE RemoveItem(i)
      BY <3>3 DEF RemoveItem
    <3> QED
      BY <1>2, <3>1, <3>2, <3>3
  <2> QED
    BY <2>2, SetQuantityInv
<1>3. ASSUME NEW i \in Item, AddVariant(i) \/ PressEnter(i) PROVE TillInv'
  BY <1>3, AddVariantInv, PressEnterInv
<1>4. ASSUME NEW s \in scans, ScanResolves(s) \/ ScanFails(s) PROVE TillInv'
  BY <1>4, ScanResolvesInv, ScanFailsInv
<1>5. ASSUME Idle PROVE TillInv'
  BY <1>1, <1>5 DEF Idle
<1> QED
  BY <1>1, <1>2, <1>3, <1>4, <1>5, DiscountStepInv, PaymentInv, ClearInv, CheckoutInv, AnswerInv
     DEF TillNext

(* The inductive invariant of the till.                                    *)
THEOREM TillInvariant == TillSpec => []TillInv
<1> QED
  BY TillInitInv, TillStepInv, PTL DEF TillSpec

(* The grand total the cart displays is the sum the server computes, for   *)
(* all prices, rates and discounts and whatever was stacked, suppressed or *)
(* removed, and the server accepts it as the payment, wherever the two use *)
(* the same rates and taxes are whole cents.                               *)
THEOREM TillCharged == TillSpec => []DisplayedTotalIsCharged
<1>1. TillInv => DisplayedTotalIsCharged
  BY DEF TillInv
<1> QED
  BY <1>1, TillInvariant, PTL

(* Every unit entered is in the cart or was sold, once, unless the cart    *)
(* changed under a scan or a checkout, or an answer was lost.              *)
THEOREM TillUnits == TillSpec => []EveryUnitAccounted
<1>1. ASSUME TillInv PROVE EveryUnitAccounted
  <2> SUFFICES ASSUME ~crossed, answer # "order", NEW i \in Item
               PROVE  entered[i] = qty[i] + sold[i]
    BY DEF EveryUnitAccounted
  <2>1. entered[i] \in Int /\ sold[i] \in Int /\ qty[i] \in Nat
    BY <1>1 DEF TillInv, UnitTypes, CartTypes
  <2>2. entered[i] = sold[i] + qty[i]
    BY <1>1 DEF TillInv, UnitsFollow
  <2> QED
    BY <2>1, <2>2
<1> QED
  BY <1>1, TillInvariant, PTL
=============================================================================
