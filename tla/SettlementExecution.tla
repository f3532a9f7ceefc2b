------------------------- MODULE SettlementExecution -------------------------
(***************************************************************************)
(* The execution of authorised payments on chain:                           *)
(* lib/settlement/SettlementExecutor.ts over CeloRelayer.ts, the gate of     *)
(* lib/workflow/SettlementService.ts that creates its rows, and the DELETE   *)
(* of app/api/settlements/route.ts that removes them.                        *)
(*                                                                         *)
(* A payment is the approved submission of a task.  POST and DELETE are      *)
(* request slots that take one step for each read of the database or of the  *)
(* chain and one for each guarded write; between two steps other requests    *)
(* run, transactions are mined, and the process may stop.                    *)
(***************************************************************************)
EXTENDS TaskStatus, Naturals, Sequences, FiniteSets

CONSTANTS
  Payments,    \* approved submissions, each of a task of its own
  NoPayment,
  Requests,    \* slots for requests being handled at the same time
  Alike,       \* whether all payments have byte-identical calldata
  Hazards,     \* which of the hazards below the environment shows
  MaxRows,     \* bound on Settlement rows ever created
  MaxFaults    \* bound on crashes and failed reads and writes

ASSUME NoPaymentAssumption == NoPayment \notin Payments
ASSUME AlikeAssumption == Alike \in BOOLEAN
(* "lostReply": when sendTransaction throws, the node may have taken the      *)
(* transaction all the same (that it throws, and the node has nothing, is     *)
(* always possible); "missedScan": the bounded window of the recovery scan    *)
(* may leave transactions out; "deletion": workers use DELETE.                *)
ASSUME HazardsAssumption == Hazards \subseteq {"lostReply", "missedScan", "deletion"}
ASSUME BoundsAssumption == MaxRows \in Nat /\ MaxFaults \in Nat

VARIABLES
  task,        \* status of the Task row of each payment
  row,         \* the Settlement row of each payment
  rows,        \* how many Settlement rows have been created, a source of ids
  chain,       \* the transactions that nodes have accepted; index is hash
  req,         \* what each request in flight has read, and its next step
  faults       \* how many faults have happened

vars == <<task, row, rows, chain, req, faults>>
records == <<task, row, rows>>

-----------------------------------------------------------------------------
SettlementStatuses == {"NONE", "PENDING", "BROADCAST", "CONFIRMED", "FAILED"}

(* A hash of 0 is the null of the column. *)
Settlement ==
  [ id : 0..MaxRows, status : SettlementStatuses, hash : Nat ]

NoRow == [ id |-> 0, status |-> "NONE", hash |-> 0 ]

(* A buried transaction has the depth the executor requires.  One that did    *)
(* not revert has paid, or its events are not the Transfer that was asked for. *)
Outcomes == {"paid", "reverted", "unexpected"}
Transaction ==
  [ pay : Payments, row : 1..MaxRows,
    state : {"pending", "mined", "buried"}, outcome : Outcomes \cup {"none"} ]

Labels ==
  {"idle", "gate", "raced", "lock", "execute", "claim", "send", "rollback",
   "persist", "confirm", "scan", "filter", "attach", "receipt", "finalize",
   "delete"}

Request ==
  [ at    : Labels,
    pay   : Payments \cup {NoPayment},
    row   : 0..MaxRows,      \* id of the Settlement row it works on
    hash  : Nat,             \* the transaction whose receipt it waits for
    cands : SUBSET Nat ]     \* what its recovery scan found

Idle ==
  [ at |-> "idle", pay |-> NoPayment, row |-> 0, hash |-> 0, cands |-> {} ]

Become(r, q) == req' = [req EXCEPT ![r] = q]
Advance(r, label) == Become(r, [req[r] EXCEPT !.at = label])
Await(r, label, h) == Become(r, [req[r] EXCEPT !.at = label, !.hash = h])
Reply(r) == Become(r, Idle)

RowOf(r) == row[req[r].pay]
SetRow(r, s) == row' = [row EXCEPT ![req[r].pay] = s]
SetTask(r, status) == task' = [task EXCEPT ![req[r].pay] = status]

(* The row the request works on still exists: an update or a read by id      *)
ById(r) == RowOf(r).id = req[r].row /\ req[r].row # 0

(* Which transactions carry the calldata of payment p *)
Matches(t, p) == Alike \/ t.pay = p

Succeeded(h) == chain[h].state # "pending" /\ chain[h].outcome = "paid"
(* Faulty variant: no unique constraint and no filter *)
OwnedNever(h) == FALSE
Owned(h) == \E p \in Payments : row[p].hash = h

-----------------------------------------------------------------------------
Init ==
  /\ task = [p \in Payments |-> "UNDER_REVIEW"]
  /\ row = [p \in Payments |-> NoRow]
  /\ rows = 0
  /\ chain = <<>>
  /\ req = [r \in Requests |-> Idle]
  /\ faults = 0

(* settleSubmission, resumeSettlement: a row that exists is resumed from its  *)
(* status.  A final one is answered from the row.                             *)
ResumeAt(status) ==
  CASE status = "PENDING"   -> "execute"
    [] status = "BROADCAST" -> "confirm"
    [] OTHER                -> "idle"

Resume(r, p) ==
  IF ResumeAt(row[p].status) = "idle" THEN Reply(r)
  ELSE Become(r, [Idle EXCEPT !.at = ResumeAt(row[p].status), !.pay = p,
                              !.row = row[p].id])

Post(r, p) ==
  /\ req[r] = Idle
  /\ \/ row[p] = NoRow /\ Become(r, [Idle EXCEPT !.at = "gate", !.pay = p])
     \/ ResumeAt(row[p].status) # "idle" /\ Resume(r, p)
  /\ UNCHANGED <<records, chain, faults>>

-----------------------------------------------------------------------------
(* The gate, requestSettlement.  It lets a task that is SETTLING through,     *)
(* unless its settlement is confirmed; the guarded transition does not.       *)

Gate(r) ==
  LET p == req[r].pay IN
  /\ req[r].at = "gate"
  /\ IF \/ task[p] = "UNDER_REVIEW"
        \/ task[p] = "SETTLING" /\ row[p].status # "CONFIRMED"
       THEN Advance(r, "lock")
       ELSE Advance(r, "raced")
  /\ UNCHANGED <<records, chain, faults>>

(* The gate refused because of the task: another request may have won it. *)
Raced(r) ==
  /\ req[r].at = "raced"
  /\ Resume(r, req[r].pay)
  /\ UNCHANGED <<records, chain, faults>>

(* Faulty variant: trusts the task status the gate read *)
LockGuardById(r) ==
  req[r].at = "lock" /\ row[req[r].pay] = NoRow /\ rows < MaxRows

(* The guarded transition and the unique constraint on submissionId *)
LockGuard(r) ==
  /\ req[r].at = "lock"
  /\ task[req[r].pay] = "UNDER_REVIEW"
  /\ row[req[r].pay] = NoRow
  /\ rows < MaxRows

Lock(r) ==
  /\ LockGuard(r)
  /\ SetTask(r, "SETTLING")
  /\ SetRow(r, [NoRow EXCEPT !.id = rows + 1, !.status = "PENDING"])
  /\ rows' = rows + 1
  /\ Become(r, [req[r] EXCEPT !.at = "execute", !.row = rows + 1])
  /\ UNCHANGED <<chain, faults>>

-----------------------------------------------------------------------------
(* executeSettlement *)

(* Reads the row by its id, whatever its status is by now, and the task *)
Execute(r) ==
  /\ req[r].at = "execute"
  /\ IF ById(r) /\ task[req[r].pay] = "SETTLING"
       THEN Advance(r, "claim")
       ELSE Reply(r)
  /\ UNCHANGED <<records, chain, faults>>

(* Faulty variant: unlocks the task for a later attempt *)
PreflightUnlocks(r) ==
  /\ req[r].at = "claim"
  /\ SetTask(r, "UNDER_REVIEW")
  /\ Reply(r)
  /\ UNCHANGED <<row, rows, chain, faults>>

(* No relayer is configured, or a pre-flight check on the chain, the token,   *)
(* the amount or the allowance fails: the row stays as it is.                 *)
Preflight(r) ==
  /\ req[r].at = "claim"
  /\ Reply(r)
  /\ UNCHANGED <<records, chain, faults>>

(* Faulty variant: an update by id alone *)
ClaimGuardById(r) == req[r].at = "claim" /\ ById(r)

ClaimGuard(r) ==
  req[r].at = "claim" /\ ById(r) /\ RowOf(r).status = "PENDING"

Claim(r) ==
  /\ ClaimGuard(r)
  /\ SetRow(r, [RowOf(r) EXCEPT !.status = "BROADCAST"])
  /\ Advance(r, "send")
  /\ UNCHANGED <<task, rows, chain, faults>>

Accepted(r) ==
  chain' = Append(chain, [ pay |-> req[r].pay, row |-> req[r].row,
                           state |-> "pending", outcome |-> "none" ])

Send(r) ==
  /\ req[r].at = "send"
  /\ Accepted(r)
  /\ Await(r, "persist", Len(chain) + 1)
  /\ UNCHANGED <<records, faults>>

(* A nonce read before an identical pending transaction was counted yields    *)
(* that transaction again, with its hash.                                     *)
SendKnown(r) ==
  /\ req[r].at = "send"
  /\ \E h \in DOMAIN chain :
       /\ chain[h].state = "pending"
       /\ Matches(chain[h], req[r].pay)
       /\ Await(r, "persist", h)
  /\ UNCHANGED <<records, chain, faults>>

(* sendTransaction throws: the node refused, or only its reply was lost. *)
SendError(r) ==
  /\ req[r].at = "send"
  /\ \/ UNCHANGED chain
     \/ "lostReply" \in Hazards /\ Accepted(r)
  /\ Advance(r, "rollback")
  /\ UNCHANGED <<records, faults>>

(* Faulty variants: gives up the payment, releases the claim                  *)
RollbackToFailed(r) ==
  /\ req[r].at = "rollback"
  /\ SetTask(r, "PAYMENT_FAILED")
  /\ Reply(r)
  /\ UNCHANGED <<row, rows, chain, faults>>
RollbackReleases(r) ==
  /\ req[r].at = "rollback"
  /\ SetRow(r, [RowOf(r) EXCEPT !.status = "PENDING"])
  /\ Reply(r)
  /\ UNCHANGED <<task, rows, chain, faults>>

(* The handler of that error writes the task's status by id alone. *)
Rollback(r) ==
  /\ req[r].at = "rollback"
  /\ SetTask(r, "UNDER_REVIEW")
  /\ Reply(r)
  /\ UNCHANGED <<row, rows, chain, faults>>

(* A row that is BROADCAST and has no hash yet *)
Unattached(r) ==
  ById(r) /\ RowOf(r).status = "BROADCAST" /\ RowOf(r).hash = 0

(* The txHash is written where the guard holds; the unique constraint refuses *)
(* a hash that another row has; a guard that matches no row goes unnoticed.   *)
Persist(r) ==
  LET h == req[r].hash IN
  /\ req[r].at = "persist"
  /\ \/ /\ Unattached(r) /\ ~Owned(h)
        /\ SetRow(r, [RowOf(r) EXCEPT !.hash = h])
        /\ Advance(r, "receipt")
     \/ /\ Unattached(r) /\ Owned(h)
        /\ Reply(r)
        /\ UNCHANGED row
     \/ /\ ~Unattached(r)
        /\ Advance(r, "receipt")
        /\ UNCHANGED row
  /\ UNCHANGED <<task, rows, chain, faults>>

-----------------------------------------------------------------------------
(* confirmSettlement and recoverAndConfirm *)

(* Faulty variant: a claim without a hash is refused for good *)
ConfirmKnown(r) ==
  /\ req[r].at = "confirm"
  /\ IF ById(r) /\ RowOf(r).hash # 0 THEN Await(r, "receipt", RowOf(r).hash)
     ELSE Reply(r)
  /\ UNCHANGED <<records, chain, faults>>

Confirm(r) ==
  /\ req[r].at = "confirm"
  /\ IF ~ById(r) THEN Reply(r)
     ELSE IF RowOf(r).hash # 0 THEN Await(r, "receipt", RowOf(r).hash)
     ELSE Advance(r, "scan")
  /\ UNCHANGED <<records, chain, faults>>

(* findMatchingBroadcast: successful transfers of this calldata, as far as    *)
(* the scanned window reaches                                                 *)
Candidates(p) ==
  {h \in DOMAIN chain : Succeeded(h) /\ Matches(chain[h], p)}

Scan(r) ==
  /\ req[r].at = "scan"
  /\ \E found \in SUBSET Candidates(req[r].pay) :
       /\ "missedScan" \in Hazards \/ found = Candidates(req[r].pay)
       /\ IF found = {} THEN Reply(r)
          ELSE Become(r, [req[r] EXCEPT !.at = "filter", !.cands = found])
  /\ UNCHANGED <<records, chain, faults>>

(* The ownership filter, and its refusal to guess among several candidates *)
Available(r) == {h \in req[r].cands : ~Owned(h)}

Filter(r) ==
  /\ req[r].at = "filter"
  /\ IF Cardinality(Available(r)) # 1 THEN Reply(r)
     ELSE \E h \in Available(r) :
            Become(r, [req[r] EXCEPT !.at = "attach", !.hash = h, !.cands = {}])
  /\ UNCHANGED <<records, chain, faults>>

(* Like Persist, except that a guard that matches no row is followed by a     *)
(* read of the hash that another recovery attached                            *)
Attach(r) ==
  LET h == req[r].hash IN
  /\ req[r].at = "attach"
  /\ \/ /\ Unattached(r) /\ ~Owned(h)
        /\ SetRow(r, [RowOf(r) EXCEPT !.hash = h])
        /\ Advance(r, "receipt")
     \/ /\ Unattached(r) /\ Owned(h)
        /\ Reply(r)
        /\ UNCHANGED row
     \/ /\ ~Unattached(r)
        /\ IF ById(r) /\ RowOf(r).hash # 0
             THEN Await(r, "receipt", RowOf(r).hash)
             ELSE Reply(r)
        /\ UNCHANGED row
  /\ UNCHANGED <<task, rows, chain, faults>>

-----------------------------------------------------------------------------
(* confirmByReceipt.  Only a receipt at the required depth decides anything.  *)

(* Faulty variants: at any depth, and without a timeout *)
ReceiptShallow(r) ==
  /\ req[r].at = "receipt"
  /\ IF ById(r) /\ chain[req[r].hash].state # "pending"
       THEN Advance(r, "finalize")
       ELSE Reply(r)
  /\ UNCHANGED <<records, chain, faults>>
ReceiptForever(r) ==
  /\ req[r].at = "receipt"
  /\ chain[req[r].hash].state = "buried"
  /\ Advance(r, "finalize")
  /\ UNCHANGED <<records, chain, faults>>

Receipt(r) ==
  /\ req[r].at = "receipt"
  /\ IF ById(r) /\ chain[req[r].hash].state = "buried"
       THEN Advance(r, "finalize")
       ELSE Reply(r)
  /\ UNCHANGED <<records, chain, faults>>

(* One transaction: the row must be BROADCAST and the task SETTLING.  It does *)
(* not compare the row's hash with the one whose receipt it read.             *)
FinalizeGuard(r) ==
  /\ req[r].at = "finalize"
  /\ ById(r) /\ RowOf(r).status = "BROADCAST"
  /\ task[req[r].pay] = "SETTLING"

Outcome(r) == chain[req[r].hash].outcome

(* Faulty variant: completes the task whatever the receipt says *)
FinalizeAnyReceipt(r) ==
  /\ FinalizeGuard(r)
  /\ SetRow(r, [RowOf(r) EXCEPT !.status =
                  IF Outcome(r) = "paid" THEN "CONFIRMED" ELSE "FAILED"])
  /\ SetTask(r, "COMPLETED")
  /\ Reply(r)
  /\ UNCHANGED <<rows, chain, faults>>

(* Faulty variant: the receipt's status, without its Transfer event *)
FinalizeByStatus(r) ==
  /\ FinalizeGuard(r)
  /\ Outcome(r) # "reverted"
  /\ SetRow(r, [RowOf(r) EXCEPT !.status = "CONFIRMED"])
  /\ SetTask(r, "COMPLETED")
  /\ Reply(r)
  /\ UNCHANGED <<rows, chain, faults>>

Finalize(r) ==
  /\ FinalizeGuard(r)
  /\ \/ /\ Outcome(r) = "paid"
        /\ SetRow(r, [RowOf(r) EXCEPT !.status = "CONFIRMED"])
        /\ SetTask(r, "COMPLETED")
     \/ /\ Outcome(r) = "reverted"
        /\ SetRow(r, [RowOf(r) EXCEPT !.status = "FAILED"])
        /\ SetTask(r, "PAYMENT_FAILED")
  /\ Reply(r)
  /\ UNCHANGED <<rows, chain, faults>>

(* A receipt of success without the expected Transfer decides nothing. *)
Unverified(r) ==
  /\ req[r].at = "finalize"
  /\ Outcome(r) = "unexpected"
  /\ Reply(r)
  /\ UNCHANGED <<records, chain, faults>>

(* A guarded write that matched nothing, or the unique submissionId *)
LoseRace(r) ==
  /\ \/ req[r].at = "lock" /\ ~LockGuard(r)
     \/ req[r].at = "claim" /\ ~ClaimGuard(r)
     \/ req[r].at = "finalize" /\ ~FinalizeGuard(r)
  /\ Reply(r)
  /\ UNCHANGED <<records, chain, faults>>

-----------------------------------------------------------------------------
(* DELETE: the read of the row, and the deletion by submission *)

DeleteRead(r, p) ==
  /\ "deletion" \in Hazards
  /\ req[r] = Idle
  /\ row[p].status \in {"PENDING", "BROADCAST", "FAILED"}
  /\ Become(r, [Idle EXCEPT !.at = "delete", !.pay = p])
  /\ UNCHANGED <<records, chain, faults>>

Delete(r) ==
  /\ req[r].at = "delete"
  /\ SetRow(r, NoRow)
  /\ Reply(r)
  /\ UNCHANGED <<task, rows, chain, faults>>

-----------------------------------------------------------------------------
(* The chain, and faults *)

SetTx(h, state, outcome) ==
  /\ chain' = [chain EXCEPT ![h].state = state, ![h].outcome = outcome]
  /\ UNCHANGED <<records, req, faults>>

Include(h, outcome) ==
  chain[h].state = "pending" /\ SetTx(h, "mined", outcome)
Reorganise(h) == chain[h].state = "mined" /\ SetTx(h, "pending", "none")
Bury(h) == chain[h].state = "mined" /\ SetTx(h, "buried", chain[h].outcome)

(* The process stops, or a read or a write of the database or the chain fails. *)
Fail(r) ==
  /\ req[r].at # "idle"
  /\ faults < MaxFaults
  /\ faults' = faults + 1
  /\ Reply(r)
  /\ UNCHANGED <<records, chain>>

Handle(r) ==
  \/ Gate(r) \/ Raced(r) \/ Lock(r) \/ Execute(r) \/ Preflight(r) \/ Claim(r)
  \/ Send(r) \/ SendKnown(r) \/ SendError(r) \/ Rollback(r) \/ Persist(r)
  \/ Confirm(r) \/ Scan(r) \/ Filter(r) \/ Attach(r) \/ Receipt(r)
  \/ Finalize(r) \/ Unverified(r) \/ LoseRace(r) \/ Delete(r)

Chain ==
  \E h \in DOMAIN chain :
    Reorganise(h) \/ Bury(h) \/ \E outcome \in Outcomes : Include(h, outcome)

Next ==
  \/ \E r \in Requests : Handle(r) \/ Fail(r)
  \/ \E r \in Requests, p \in Payments : Post(r, p) \/ DeleteRead(r, p)
  \/ Chain

Spec == Init /\ [][Next]_vars

(* Every await of a handler settles; a worker who is not paid asks again. *)
Fairness ==
  /\ \A r \in Requests : WF_vars(Handle(r))
  /\ \A p \in Payments : WF_vars(\E r \in Requests : Post(r, p))

FairSpec == Spec /\ Fairness

-----------------------------------------------------------------------------
(* Safety *)

(* Every row, transaction and request holds values of its type. *)
TypeOK ==
  /\ task \in [Payments -> {"UNDER_REVIEW", "SETTLING", "COMPLETED", "PAYMENT_FAILED"}]
  /\ row \in [Payments -> Settlement]
  /\ rows \in 0..MaxRows
  /\ chain \in Seq(Transaction)
  /\ req \in [Requests -> Request]
  /\ faults \in 0..MaxFaults

(* At most one transaction is ever sent for a Settlement row, however many     *)
(* requests, crashes and retries race for it (executeSettlement).             *)
OneBroadcast ==
  \A h, g \in DOMAIN chain : chain[h].row = chain[g].row => h = g

(* At most one transaction is ever sent for a submission (settleSubmission).   *)
PaidOnce ==
  \A h, g \in DOMAIN chain : chain[h].pay = chain[g].pay => h = g

(* A lost reply and a deletion together let a second transaction be sent for  *)
(* a submission; no row can then stand for both.                              *)
SentOnce(p) ==
  \A h, g \in DOMAIN chain : chain[h].pay = p /\ chain[g].pay = p => h = g

(* What a final row says of the chain is true: a confirmed one has a           *)
(* transaction at the required depth that paid, a failed one a reverted one,  *)
(* unless the submission was sent two (confirmByReceipt).                     *)
FinalRowsAreTrue ==
  \A p \in Payments :
    SentOnce(p) /\ row[p].status \in {"CONFIRMED", "FAILED"} =>
      /\ row[p].hash \in DOMAIN chain
      /\ chain[row[p].hash].state = "buried"
      /\ chain[row[p].hash].outcome =
           IF row[p].status = "CONFIRMED" THEN "paid" ELSE "reverted"

(* A task whose payment is said to have failed was not paid, unless the        *)
(* submission was sent two transactions (confirmByReceipt).                   *)
FailedIsUnpaid ==
  \A p \in Payments : SentOnce(p) /\ task[p] = "PAYMENT_FAILED" =>
    \A h \in DOMAIN chain : chain[h].pay = p => chain[h].outcome # "paid"

(* A completed task was paid, at the required depth, by a transaction of its   *)
(* own, and its row says so unless DELETE has removed it: this holds however   *)
(* sends are refused, replies lost and rows deleted (confirmByReceipt,        *)
(* executeSettlement, DELETE).                                                *)
CompletedIsPaid ==
  \A p \in Payments : task[p] = "COMPLETED" =>
    /\ row[p].status \in {"CONFIRMED", "NONE"}
    /\ \E h \in DOMAIN chain :
         chain[h].pay = p /\ chain[h].state = "buried" /\ chain[h].outcome = "paid"

(* No transaction proves two settlements (recoverAndConfirm, Settlement.txHash) *)
OneOwner ==
  \A p, q \in Payments :
    row[p].hash # 0 /\ row[p].hash = row[q].hash => p = q

(* A confirmed settlement has the transaction that was sent for it            *)
(* (recoverAndConfirm).                                                       *)
OwnPayment ==
  \A p \in Payments :
    row[p].status = "CONFIRMED" => chain[row[p].hash].row = row[p].id

(* Requests between the claim of a row and the record of its hash *)
InSending(r) == req[r].at \in {"send", "rollback", "persist"}

(* Until its row is claimed a task is held SETTLING; with a claimed row it is  *)
(* SETTLING, or a send that threw has put it back under review.  It is never  *)
(* under review while a request may still be sending, or recording what it    *)
(* sent, so nobody authorises a second payment beside a send in progress:     *)
(* also when rows are deleted, sends refused and replies lost                 *)
(* (requestSettlement, executeSettlement and its handler of send errors).     *)
BroadcastHoldsLock ==
  /\ \A p \in Payments :
       /\ row[p].status = "PENDING" => task[p] = "SETTLING"
       /\ row[p].status = "BROADCAST" => task[p] \in {"SETTLING", "UNDER_REVIEW"}
  /\ \A r \in Requests : InSending(r) => task[req[r].pay] # "UNDER_REVIEW"

-----------------------------------------------------------------------------
(* The inductive invariant of the proofs *)

Sent(i) == \E h \in DOMAIN chain : chain[h].row = i
Sending(r) == req[r].at = "send"

(* Ids are handed out once, and nothing refers to one that was not. *)
IdsAreFresh ==
  /\ \A p \in Payments :
       row[p].id <= rows /\ (row[p].id = 0 <=> row[p].status = "NONE")
  /\ \A p, q \in Payments : row[p].id # 0 /\ row[p].id = row[q].id => p = q
  /\ \A r \in Requests : req[r].row <= rows
  /\ \A h \in DOMAIN chain : chain[h].row <= rows

(* A request about to send has the row to itself, and the row is not sent yet; *)
(* a row that can still be claimed is neither.                                *)
SendIsExclusive ==
  /\ \A r \in Requests : req[r].at # "idle" => req[r].pay \in Payments
  /\ \A r \in Requests : Sending(r) => req[r].row # 0 /\ ~Sent(req[r].row)
  /\ \A r, s \in Requests :
       Sending(r) /\ Sending(s) /\ req[r].row = req[s].row => r = s
  /\ \A p \in Payments : row[p].status = "PENDING" =>
       ~Sent(row[p].id) /\ \A r \in Requests : Sending(r) => req[r].row # row[p].id

(* The ids that rows, requests and transactions of a submission refer to *)
UsedIds(p) ==
  ( {row[p].id}
    \cup {req[r].row : r \in {x \in Requests : req[x].pay = p}}
    \cup {chain[h].row : h \in {g \in DOMAIN chain : chain[g].pay = p}} ) \ {0}

(* A submission has one sender at a time, whose row is the submission's row or *)
(* deleted, and whose task nobody else puts back under review.                *)
SendersHoldLock ==
  /\ BroadcastHoldsLock
  /\ \A p \in Payments : row[p].status = "PENDING" =>
       \A r \in Requests : InSending(r) => req[r].pay # p
  /\ \A r \in Requests : InSending(r) => row[req[r].pay].id \in {0, req[r].row}
  /\ \A r, s \in Requests :
       InSending(r) /\ InSending(s) /\ req[r].pay = req[s].pay => r = s

(* Unless replies are lost, a throw of sendTransaction means that nothing was  *)
(* sent: a submission that is authorised once more has no transaction, and    *)
(* one that has a transaction keeps the row it was sent for, or none.         *)
Unsent(p) == \A h \in DOMAIN chain : chain[h].pay # p
OneTransaction ==
  "lostReply" \notin Hazards =>
    /\ PaidOnce
    /\ \A h \in DOMAIN chain : row[chain[h].pay].id \in {0, chain[h].row}
    /\ \A p \in Payments :
         task[p] = "UNDER_REVIEW" \/ row[p].status = "PENDING" => Unsent(p)
    /\ \A r \in Requests :
         req[r].at \in {"send", "rollback"} => Unsent(req[r].pay)

(* Unless rows are deleted, a submission only ever has one row. *)
OneRowEach ==
  "deletion" \notin Hazards =>
    /\ \A r \in Requests : req[r].at # "delete"
    /\ \A p \in Payments : row[p].id = 0 => UsedIds(p) = {}
    /\ \A p \in Payments : \A i, j \in UsedIds(p) : i = j

(* The rows, requests and chain always agree as the parts above say            *)
(* (executeSettlement, requestSettlement).                                    *)
ExecutionInv ==
  /\ TypeOK /\ IdsAreFresh /\ SendIsExclusive /\ SendersHoldLock
  /\ OneTransaction /\ OneRowEach /\ OneBroadcast /\ OneOwner

-----------------------------------------------------------------------------
(* What one step may never do *)

(* A row goes PENDING, BROADCAST, then CONFIRMED or FAILED, and its hash, once  *)
(* written, is never replaced (executeSettlement, confirmByReceipt).           *)
RowOrder == [ NONE |-> {}, PENDING |-> {"BROADCAST"},
              BROADCAST |-> {"CONFIRMED", "FAILED"},
              CONFIRMED |-> {}, FAILED |-> {} ]
RowsOnlyAdvance ==
  [][\A p \in Payments :
       row[p].id # 0 /\ row'[p].id = row[p].id =>
         /\ row'[p].status \in {row[p].status} \cup RowOrder[row[p].status]
         /\ row[p].hash # 0 => row'[p].hash = row[p].hash]_vars

(* The task moves along the whitelist, or a send that threw puts it back under *)
(* review: its own sender does, while the row it claimed is still there or    *)
(* deleted, never that of a later attempt (executeSettlement).                *)
Reopens(p) ==
  /\ task'[p] = "UNDER_REVIEW" /\ row'[p] = row[p]
  /\ \E r \in Requests :
       /\ req[r].at = "rollback" /\ req[r].pay = p /\ req'[r] = Idle
       /\ row[p].id \in {0, req[r].row}
LegalOrReopened ==
  [][\A p \in Payments :
       task'[p] # task[p] => LegalCommit(task[p], task'[p]) \/ Reopens(p)]_vars

(* The interleaved requests change the records of each payment only by the     *)
(* atomic operations of PaymentRecord: authorised once, claimed once, given    *)
(* one transaction of its own, concluded together with its task               *)
(* (requestSettlement, executeSettlement, confirmByReceipt).                  *)
Record ==
  INSTANCE PaymentRecord WITH
    status <- [p \in Payments |-> row[p].status],
    hash <- [p \in Payments |-> row[p].hash]
ImplementsRecord == Record!Spec

-----------------------------------------------------------------------------
(* Liveness, under FairSpec *)

(* Every request is answered (all handlers). *)
RequestsAreAnswered ==
  \A r \in Requests : req[r] # Idle ~> req[r] = Idle

(* A submission that was paid on chain ends with its task completed, although *)
(* crashes may lose the hash and sends may be refused (recoverAndConfirm).    *)
PaidTasksComplete ==
  \A p \in Payments :
    (\E h \in DOMAIN chain : chain[h].pay = p /\ chain[h].state = "buried" /\ chain[h].outcome = "paid")
      ~> task[p] = "COMPLETED"
=============================================================================
