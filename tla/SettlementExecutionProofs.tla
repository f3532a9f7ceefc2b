---------------------- MODULE SettlementExecutionProofs ----------------------
(***************************************************************************)
(* Proofs about SettlementExecution, for any number of payments, requests,  *)
(* rows and faults, whether payments can be told apart on chain or not.     *)
(***************************************************************************)
EXTENDS SettlementExecution, SequenceTheorems, TLAPS

(* What request r may become without a new claim, a new id, or a hazard that   *)
(* the environment does not show                                              *)
Harmless(r, q) ==
  /\ q \in Request
  /\ q.at # "send"
  /\ q.at # "idle" => q.pay \in Payments
  /\ q.row <= rows
  /\ q.pay \in Payments => q.row \in {0} \cup UsedIds(q.pay)
  /\ q.at \in {"rollback", "persist"} =>
       req[r].at = "send" /\ q.pay = req[r].pay /\ q.row = req[r].row
  /\ q.at = "delete" => "deletion" \in Hazards

(* What a step may do to a Settlement row without creating or claiming it *)
Settles(old, new) ==
  \/ /\ new.id = old.id
     /\ new.status = "NONE" <=> old.status = "NONE"
     /\ new.status = "PENDING" => old.status = "PENDING"
     /\ new.status = "BROADCAST" => old.status = "BROADCAST"
  \/ new = NoRow /\ "deletion" \in Hazards

(* What a step of request r may do to the task of payment p: put it back under *)
(* review when its own send threw, or make it final with its row              *)
KeepsLock(r, p) ==
  \/ task'[p] = task[p]
  \/ /\ task'[p] = "UNDER_REVIEW"
     /\ req[r].at = "rollback" /\ req[r].pay = p /\ ~InSending(r)'
  \/ /\ task'[p] # "UNDER_REVIEW"
     /\ row[p].status = "BROADCAST"
     /\ row'[p].status \notin {"PENDING", "BROADCAST"}

Typed ==
  /\ task \in [Payments -> {"UNDER_REVIEW", "SETTLING", "COMPLETED", "PAYMENT_FAILED"}]
  /\ row \in [Payments -> Settlement]
  /\ faults \in 0..MaxFaults

(* When no id comes into use, and none that was in use loses its row, each     *)
(* submission keeps its one row.                                              *)
LEMMA OneRowKept ==
  ASSUME OneRowEach,
         \A p \in Payments : UsedIds(p)' \subseteq UsedIds(p),
         \A p \in Payments : row'[p].id = 0 =>
           row[p].id = 0 \/ "deletion" \in Hazards,
         \A r \in Requests : req'[r].at = "delete" => "deletion" \in Hazards
  PROVE  OneRowEach'
BY Zenon DEF OneRowEach

(* A step that lets no request start to send, and gives up no lock but that of *)
(* a send that threw, leaves each submission to its one sender.               *)
LEMMA SendersKept ==
  ASSUME TypeOK, SendIsExclusive, SendersHoldLock, OneTransaction,
         NEW r \in Requests, \A x \in Requests \ {r} : req'[x] = req[x],
         Harmless(r, req'[r]), chain' = chain,
         \A p \in Payments : Settles(row[p], row'[p]) /\ KeepsLock(r, p)
  PROVE  SendersHoldLock' /\ OneTransaction'
<1>1. \A x \in Requests : InSending(x)' =>
        /\ InSending(x) /\ req'[x].pay = req[x].pay /\ req'[x].row = req[x].row
        /\ req[x].pay \in Payments
  BY DEF InSending, Harmless, SendIsExclusive
<1>2. \A p \in Payments :
        /\ row'[p].status = "PENDING" => row[p].status = "PENDING"
        /\ row'[p].status = "BROADCAST" => row[p].status = "BROADCAST"
        /\ row'[p].id \in {0, row[p].id}
  BY DEF Settles, NoRow
<1>3. \A p \in Payments : row[p].status = "PENDING" => task'[p] = task[p]
  BY DEF KeepsLock, SendersHoldLock, InSending
<1>4. \A x \in Requests : InSending(x)' => task'[req[x].pay] # "UNDER_REVIEW"
  <2> SUFFICES ASSUME NEW x \in Requests, InSending(x)'
               PROVE  task'[req[x].pay] # "UNDER_REVIEW"
    OBVIOUS
  <2>1. /\ req[x].pay \in Payments /\ InSending(x)
        /\ task[req[x].pay] # "UNDER_REVIEW"
    BY <1>1 DEF SendersHoldLock, BroadcastHoldsLock
  <2>2. CASE req[r].at = "rollback" /\ req[r].pay = req[x].pay /\ ~InSending(r)'
    BY <2>1, <2>2 DEF SendersHoldLock, InSending
  <2> QED BY <2>1, <2>2 DEF KeepsLock
<1>5. BroadcastHoldsLock'
  <2>1. \A p \in Payments : row'[p].status = "PENDING" => task'[p] = "SETTLING"
    BY <1>2, <1>3 DEF SendersHoldLock, BroadcastHoldsLock
  <2>2. \A p \in Payments :
          row'[p].status = "BROADCAST" => task'[p] \in {"SETTLING", "UNDER_REVIEW"}
    BY <1>2 DEF SendersHoldLock, BroadcastHoldsLock, KeepsLock
  <2>3. \A x \in Requests : InSending(x)' => task'[req'[x].pay] # "UNDER_REVIEW"
    BY <1>1, <1>4
  <2> QED BY <2>1, <2>2, <2>3 DEF BroadcastHoldsLock
<1>6. SendersHoldLock'
  <2>1. \A p \in Payments : row'[p].status = "PENDING" =>
          \A x \in Requests : InSending(x)' => req'[x].pay # p
    BY <1>1, <1>2 DEF SendersHoldLock
  <2>2. \A x \in Requests : InSending(x)' => row'[req'[x].pay].id \in {0, req'[x].row}
    BY <1>1, <1>2 DEF SendersHoldLock
  <2>3. \A x, y \in Requests :
          InSending(x)' /\ InSending(y)' /\ req'[x].pay = req'[y].pay => x = y
    BY <1>1 DEF SendersHoldLock
  <2> QED BY <1>5, <2>1, <2>2, <2>3 DEF SendersHoldLock
<1>7. OneTransaction'
  <2> SUFFICES ASSUME "lostReply" \notin Hazards
               PROVE  /\ PaidOnce'
                      /\ (\A h \in DOMAIN chain :
                            row[chain[h].pay].id \in {0, chain[h].row})'
                      /\ \A p \in Payments :
                           task'[p] = "UNDER_REVIEW" \/ row'[p].status = "PENDING"
                             => Unsent(p)'
                      /\ (\A x \in Requests : req[x].at \in {"send", "rollback"} =>
                            Unsent(req[x].pay))'
    BY DEF OneTransaction
  <2>1. PaidOnce' /\ \A p : Unsent(p)' <=> Unsent(p)
    BY DEF OneTransaction, PaidOnce, Unsent
  <2>2. \A p \in Payments :
          task'[p] = "UNDER_REVIEW" \/ row'[p].status = "PENDING" => Unsent(p)
    BY <1>2 DEF OneTransaction, KeepsLock
  <2>3. \A x \in Requests :
          req'[x].at \in {"send", "rollback"} => Unsent(req'[x].pay)
    BY DEF OneTransaction, Harmless
  <2>4. \A h \in DOMAIN chain : chain[h].pay \in Payments
    <3>1. \A h \in DOMAIN chain : chain[h] \in Transaction
      BY DEF TypeOK
    <3> QED BY <3>1 DEF Transaction
  <2>5. \A h \in DOMAIN chain : row'[chain[h].pay].id \in {0, chain[h].row}
    BY <1>2, <2>4 DEF OneTransaction
  <2> QED BY <2>1, <2>2, <2>3, <2>5
<1> QED BY <1>6, <1>7

(* A step that changes one request into a harmless one, and settles rows,      *)
(* preserves the invariant.                                                   *)
LEMMA QuietStep ==
  ASSUME ExecutionInv, NEW r \in Requests, NEW q, Become(r, q), Harmless(r, q),
         Typed', UNCHANGED <<rows, chain>>,
         \A p \in Payments : Settles(row[p], row'[p]) /\ KeepsLock(r, p),
         OneOwner'
  PROVE  ExecutionInv'
<1>1. /\ TypeOK /\ IdsAreFresh /\ SendIsExclusive /\ SendersHoldLock
      /\ OneTransaction /\ OneRowEach /\ OneBroadcast
  BY DEF ExecutionInv
<1>2. /\ req' \in [Requests -> Request]
      /\ req'[r] = q
      /\ \A s \in Requests \ {r} : req'[s] = req[s]
  BY <1>1 DEF TypeOK, Become, Harmless
<1>3. TypeOK'
  BY <1>1, <1>2 DEF TypeOK, Typed
<1>4. IdsAreFresh'
  <2>1. \A p \in Payments :
          row'[p].id <= rows /\ (row'[p].id = 0 <=> row'[p].status = "NONE")
    BY <1>1 DEF TypeOK, IdsAreFresh, Settles, NoRow
  <2>2. \A p, s \in Payments : row'[p].id # 0 /\ row'[p].id = row'[s].id => p = s
    BY <1>1 DEF IdsAreFresh, Settles, NoRow
  <2>3. \A s \in Requests : req'[s].row <= rows
    BY <1>1, <1>2 DEF IdsAreFresh, Harmless
  <2> QED BY <1>1, <2>1, <2>2, <2>3 DEF IdsAreFresh
<1>5. SendIsExclusive'
  <2>1. \A s \in Requests : Sending(s)' => Sending(s) /\ req'[s] = req[s]
    BY <1>2 DEF Sending, Harmless
  <2>2. \A s \in Requests : req'[s].at # "idle" => req'[s].pay \in Payments
    BY <1>1, <1>2 DEF SendIsExclusive, Harmless
  <2>3. \A p \in Payments : row'[p].status = "PENDING" =>
          row[p].status = "PENDING" /\ row'[p].id = row[p].id
    BY DEF Settles, NoRow
  <2> QED BY <1>1, <2>1, <2>2, <2>3 DEF SendIsExclusive, Sent
<1>6. OneRowEach'
  <2>1. \A p \in Payments : UsedIds(p)' \subseteq UsedIds(p)
    <3> SUFFICES ASSUME NEW p \in Payments, NEW i \in UsedIds(p)'
                 PROVE  i \in UsedIds(p)
      OBVIOUS
    <3>1. i # 0
      BY DEF UsedIds
    <3>2. CASE i = row'[p].id
      BY <3>1, <3>2 DEF Settles, NoRow, UsedIds
    <3>3. ASSUME NEW s \in Requests, req'[s].pay = p, i = req'[s].row
          PROVE  i \in UsedIds(p)
      BY <1>2, <3>1, <3>3 DEF Harmless, UsedIds
    <3>4. ASSUME NEW h \in DOMAIN chain, chain[h].pay = p, i = chain[h].row
          PROVE  i \in UsedIds(p)
      BY <3>1, <3>4 DEF UsedIds
    <3> QED BY <3>2, <3>3, <3>4 DEF UsedIds
  <2>2. \A p \in Payments : row'[p].id = 0 =>
          row[p].id = 0 \/ "deletion" \in Hazards
    BY DEF Settles
  <2>3. \A s \in Requests : req'[s].at = "delete" => "deletion" \in Hazards
    BY <1>1, <1>2 DEF OneRowEach, Harmless
  <2> QED BY <1>1, <2>1, <2>2, <2>3, OneRowKept
<1>7. OneBroadcast'
  BY <1>1 DEF OneBroadcast
<1>8. SendersHoldLock' /\ OneTransaction'
  BY <1>1, <1>2, SendersKept
<1> QED BY <1>3, <1>4, <1>5, <1>6, <1>7, <1>8 DEF ExecutionInv

-----------------------------------------------------------------------------
(* What requests become is harmless *)

LEMMA IdleIsHarmless ==
  ASSUME ExecutionInv
  PROVE  Idle \in Request /\ \A r \in Requests : Harmless(r, Idle)
BY NoPaymentAssumption, BoundsAssumption
   DEF ExecutionInv, TypeOK, Idle, Request, Labels, Harmless

(* A request that carries on with its own row *)
LEMMA CarryOn ==
  ASSUME ExecutionInv, NEW r \in Requests, req[r].at # "idle",
         NEW q \in Request, q.pay = req[r].pay, q.row = req[r].row,
         q.at \notin {"send", "delete"},
         q.at \in {"rollback", "persist"} => req[r].at = "send"
  PROVE  Harmless(r, q)
<1>1. req[r].pay \in Payments /\ req[r].row <= rows
  BY DEF ExecutionInv, SendIsExclusive, IdsAreFresh
<1>2. req[r].row \in {0} \cup UsedIds(req[r].pay)
  BY DEF UsedIds
<1> QED BY <1>1, <1>2 DEF Harmless

(* A request that starts from the row a submission has, or from none *)
LEMMA StartAnew ==
  ASSUME ExecutionInv, NEW q \in Request, q.pay \in Payments,
         q.row \in {0, row[q.pay].id}, q.at \notin {"send", "rollback", "persist"},
         q.at = "delete" => "deletion" \in Hazards
  PROVE  \A r \in Requests : Harmless(r, q)
<1>1. q.row <= rows
  BY DEF ExecutionInv, TypeOK, IdsAreFresh
<1>2. row[q.pay].id \in {0} \cup UsedIds(q.pay)
  BY DEF UsedIds
<1> QED BY <1>1, <1>2 DEF Harmless

LEMMA ReadStep ==
  ASSUME ExecutionInv, NEW r \in Requests, NEW q, Become(r, q), Harmless(r, q),
         UNCHANGED <<records, chain>>, faults' \in 0..MaxFaults
  PROVE  ExecutionInv'
<1>1. Typed' /\ rows' = rows
  BY DEF ExecutionInv, TypeOK, Typed, records
<1>2. \A p \in Payments : Settles(row[p], row'[p]) /\ KeepsLock(r, p)
  BY DEF Settles, KeepsLock, records
<1>3. OneOwner'
  BY DEF ExecutionInv, OneOwner, records
<1> QED BY <1>1, <1>2, <1>3, QuietStep

LEMMA ReplyStep ==
  ASSUME ExecutionInv, NEW r \in Requests, Reply(r),
         UNCHANGED <<records, chain>>, faults' \in 0..MaxFaults
  PROVE  ExecutionInv'
BY ReadStep, IdleIsHarmless DEF Reply

-----------------------------------------------------------------------------
(* The steps that change only their request *)

LEMMA ResumeStep ==
  ASSUME ExecutionInv, NEW r \in Requests, NEW p \in Payments, Resume(r, p),
         UNCHANGED <<records, chain, faults>>
  PROVE  ExecutionInv'
<1>1. faults' \in 0..MaxFaults
  BY DEF ExecutionInv, TypeOK
<1>2. CASE Reply(r)
  BY <1>1, <1>2, ReplyStep
<1>3. CASE ~Reply(r)
  <2> DEFINE q == [Idle EXCEPT !.at = ResumeAt(row[p].status), !.pay = p,
                               !.row = row[p].id]
  <2>1. Become(r, q) /\ ResumeAt(row[p].status) \in {"execute", "confirm"}
    BY <1>3 DEF Resume, ResumeAt
  <2>2. row[p].id \in 0..MaxRows
    BY DEF ExecutionInv, TypeOK, Settlement
  <2> HIDE DEF ResumeAt
  <2>3. q \in Request /\ q.pay = p /\ q.row = row[p].id /\ q.at \in {"execute", "confirm"}
    BY <2>1, <2>2, IdleIsHarmless DEF Idle, Request, Labels
  <2>4. Harmless(r, q)
    BY <2>3, StartAnew
  <2> QED BY <1>1, <2>1, <2>4, ReadStep
<1> QED BY <1>2, <1>3

LEMMA ArriveStep ==
  ASSUME ExecutionInv, NEW r \in Requests, NEW p \in Payments,
         Post(r, p) \/ DeleteRead(r, p)
  PROVE  ExecutionInv'
<1>1. UNCHANGED <<records, chain, faults>> /\ faults' \in 0..MaxFaults
  BY DEF Post, DeleteRead, ExecutionInv, TypeOK
<1>2. CASE Resume(r, p)
  BY <1>1, <1>2, ResumeStep
<1>3. ASSUME NEW label \in {"gate", "delete"},
             label = "delete" => "deletion" \in Hazards,
             Become(r, [Idle EXCEPT !.at = label, !.pay = p])
      PROVE  ExecutionInv'
  <2> DEFINE q == [Idle EXCEPT !.at = label, !.pay = p]
  <2>1. q \in Request /\ q.pay = p /\ q.row = 0 /\ q.at = label
    BY IdleIsHarmless DEF Idle, Request, Labels
  <2>2. Harmless(r, q)
    BY <1>3, <2>1, StartAnew
  <2> QED BY <1>1, <1>3, <2>2, ReadStep
<1> QED BY <1>2, <1>3 DEF Post, DeleteRead

(* Every step that only moves the request on, or answers it *)
ReadSteps(r) ==
  \/ Gate(r) \/ Raced(r) \/ Execute(r) \/ Preflight(r) \/ SendKnown(r)
  \/ Confirm(r) \/ Scan(r) \/ Filter(r) \/ Receipt(r) \/ Unverified(r)
  \/ LoseRace(r)

LEMMA ReadsStep ==
  ASSUME ExecutionInv, NEW r \in Requests, ReadSteps(r)
  PROVE  ExecutionInv'
<1>1. UNCHANGED <<records, chain, faults>> /\ faults' \in 0..MaxFaults
  BY DEF ReadSteps, Gate, Raced, Execute, Preflight, SendKnown, Confirm, Scan,
         Filter, Receipt, Unverified, LoseRace, ExecutionInv, TypeOK
<1>2. req[r].at # "idle" /\ req[r] \in Request /\ chain \in Seq(Transaction)
  BY DEF ReadSteps, Gate, Raced, Execute, Preflight, SendKnown, Confirm, Scan,
         Filter, Receipt, Unverified, LoseRace, ExecutionInv, TypeOK
<1>3. req[r].pay \in Payments /\ RowOf(r).hash \in Nat
  BY <1>2 DEF ExecutionInv, TypeOK, SendIsExclusive, RowOf, Settlement
<1>4. CASE Reply(r)
  BY <1>1, <1>4, ReplyStep
<1>5. ASSUME NEW label \in Labels \ {"send", "rollback", "delete"},
             label = "persist" => req[r].at = "send",
             NEW h \in Nat, NEW found \in SUBSET Nat,
             Become(r, [req[r] EXCEPT !.at = label, !.hash = h, !.cands = found])
      PROVE  ExecutionInv'
  <2> DEFINE q == [req[r] EXCEPT !.at = label, !.hash = h, !.cands = found]
  <2>1. q \in Request /\ q.pay = req[r].pay /\ q.row = req[r].row /\ q.at = label
    BY <1>2 DEF Request
  <2>2. Harmless(r, q)
    BY <1>2, <1>5, <2>1, CarryOn
  <2> QED BY <1>1, <1>5, <2>2, ReadStep
<1>6. ASSUME NEW label \in Labels \ {"send", "rollback", "persist", "delete"},
             Advance(r, label)
      PROVE  ExecutionInv'
  <2>1. [req[r] EXCEPT !.at = label]
          = [req[r] EXCEPT !.at = label, !.hash = req[r].hash, !.cands = req[r].cands]
    BY <1>2 DEF Request
  <2>2. req[r].hash \in Nat /\ req[r].cands \in SUBSET Nat
    BY <1>2 DEF Request
  <2> QED BY <1>5, <1>6, <2>1, <2>2 DEF Advance
<1>7. ASSUME NEW label \in {"persist", "receipt"}, NEW h \in Nat, Await(r, label, h),
             label = "persist" => req[r].at = "send"
      PROVE  ExecutionInv'
  <2>1. [req[r] EXCEPT !.at = label, !.hash = h]
          = [req[r] EXCEPT !.at = label, !.hash = h, !.cands = req[r].cands]
    BY <1>2 DEF Request
  <2>2. req[r].cands \in SUBSET Nat
    BY <1>2 DEF Request
  <2>3. label \in Labels \ {"send", "rollback", "delete"}
    BY DEF Labels
  <2>4. Become(r, [req[r] EXCEPT !.at = label, !.hash = h, !.cands = req[r].cands])
    BY <1>7, <2>1 DEF Await
  <2>5. label = "persist" => req[r].at = "send"
    BY <1>7
  <2> QED BY ONLY <1>5, <2>2, <2>3, <2>4, <2>5, h \in Nat
<1>8. CASE Raced(r)
  BY <1>1, <1>3, <1>8, ResumeStep DEF Raced
<1>9. CASE Gate(r) \/ Execute(r) \/ Preflight(r) \/ Unverified(r) \/ LoseRace(r)
  BY <1>4, <1>6, <1>9 DEF Gate, Execute, Preflight, Unverified, LoseRace, Labels
<1>10. CASE SendKnown(r)
  BY <1>2, <1>7, <1>10 DEF SendKnown
<1>11. CASE Confirm(r)
  BY <1>3, <1>4, <1>6, <1>7, <1>11 DEF Confirm, Labels
<1>12. CASE Receipt(r)
  BY <1>4, <1>6, <1>12 DEF Receipt, Labels
<1>13. CASE Scan(r) /\ ~Reply(r)
  <2>1. PICK found \in SUBSET Candidates(req[r].pay) :
          Become(r, [req[r] EXCEPT !.at = "filter", !.cands = found])
    BY <1>13 DEF Scan
  <2>2. found \in SUBSET Nat /\ req[r].hash \in Nat
    BY <1>2 DEF Candidates, Request
  <2>3. [req[r] EXCEPT !.at = "filter", !.cands = found]
          = [req[r] EXCEPT !.at = "filter", !.hash = req[r].hash, !.cands = found]
    BY <1>2 DEF Request
  <2> QED BY <1>5, <2>1, <2>2, <2>3 DEF Labels
<1>14. CASE Filter(r) /\ ~Reply(r)
  <2>1. PICK h \in Available(r) :
          Become(r, [req[r] EXCEPT !.at = "attach", !.hash = h, !.cands = {}])
    BY <1>14 DEF Filter
  <2>2. h \in Nat
    BY <1>2 DEF Available, Request
  <2> QED BY <1>5, <2>1, <2>2 DEF Labels
<1> QED BY <1>4, <1>8, <1>9, <1>10, <1>11, <1>12, <1>13, <1>14 DEF ReadSteps

LEMMA FailStep ==
  ASSUME ExecutionInv, NEW r \in Requests, Fail(r)
  PROVE  ExecutionInv'
<1>1. faults' \in 0..MaxFaults
  BY BoundsAssumption DEF Fail, ExecutionInv, TypeOK
<1> QED BY <1>1, ReplyStep DEF Fail

-----------------------------------------------------------------------------
(* The writes to a row that exists *)

LEMMA PersistStep ==
  ASSUME ExecutionInv, NEW r \in Requests, Persist(r) \/ Attach(r)
  PROVE  ExecutionInv'
<1>1. /\ req[r].at \in {"persist", "attach"} /\ req[r] \in Request
      /\ UNCHANGED <<task, rows, chain, faults>> /\ faults' \in 0..MaxFaults
  BY DEF Persist, Attach, ExecutionInv, TypeOK
<1>2. req[r].pay \in Payments /\ RowOf(r) \in Settlement
  BY <1>1 DEF ExecutionInv, TypeOK, SendIsExclusive, RowOf
<1>3. CASE UNCHANGED row /\ Reply(r)
  BY <1>1, <1>3, ReplyStep DEF records
<1>4. CASE UNCHANGED row /\ \E h \in Nat : Await(r, "receipt", h)
  <2>1. PICK h \in Nat : Await(r, "receipt", h)
    BY <1>4
  <2> DEFINE q == [req[r] EXCEPT !.at = "receipt", !.hash = h]
  <2>2. q \in Request /\ q.pay = req[r].pay /\ q.row = req[r].row /\ q.at = "receipt"
    BY <1>1 DEF Request, Labels
  <2>3. Harmless(r, q)
    BY <1>1, <2>2, CarryOn
  <2> QED BY <1>1, <1>4, <2>1, <2>3, ReadStep DEF Await, records
<1>5. CASE UNCHANGED row /\ Advance(r, "receipt")
  <2>1. [req[r] EXCEPT !.at = "receipt"]
          = [req[r] EXCEPT !.at = "receipt", !.hash = req[r].hash]
    BY <1>1 DEF Request
  <2> QED BY <1>1, <1>4, <1>5, <2>1 DEF Advance, Await, Request
<1>6. CASE /\ Unattached(r) /\ ~Owned(req[r].hash) /\ Advance(r, "receipt")
           /\ SetRow(r, [RowOf(r) EXCEPT !.hash = req[r].hash])
  <2> DEFINE q == [req[r] EXCEPT !.at = "receipt"]
             s == [RowOf(r) EXCEPT !.hash = req[r].hash]
  <2>1. q \in Request /\ q.pay = req[r].pay /\ q.row = req[r].row /\ q.at = "receipt"
    BY <1>1 DEF Request, Labels
  <2>2. Harmless(r, q)
    BY <1>1, <2>1, CarryOn
  <2>3. /\ s \in Settlement /\ s.id = RowOf(r).id
        /\ s.status = RowOf(r).status /\ s.hash = req[r].hash
    BY <1>1, <1>2 DEF Settlement, Request
  <2> HIDE DEF q, s
  <2>4. /\ row' = [row EXCEPT ![req[r].pay] = s]
        /\ row' \in [Payments -> Settlement] /\ row'[req[r].pay] = s
        /\ \A p \in Payments \ {req[r].pay} : row'[p] = row[p]
    BY <1>2, <1>6, <2>3 DEF SetRow, ExecutionInv, TypeOK, s
  <2>5. Typed' /\ UNCHANGED <<rows, chain>>
    BY <1>1, <2>4 DEF Typed, ExecutionInv, TypeOK
  <2>6. \A p \in Payments : Settles(row[p], row'[p]) /\ KeepsLock(r, p)
    BY <1>1, <2>3, <2>4 DEF Settles, KeepsLock, RowOf
  <2>7. OneOwner'
    BY <1>6, <2>3, <2>4 DEF ExecutionInv, OneOwner, Owned
  <2>8. Become(r, q)
    BY <1>6 DEF Advance, q
  <2> QED BY <2>2, <2>5, <2>6, <2>7, <2>8, QuietStep
<1> QED
  BY <1>2, <1>3, <1>4, <1>5, <1>6 DEF Persist, Attach, Settlement

(* A request that writes its row or its task and is done *)
LEMMA LastWriteStep ==
  ASSUME ExecutionInv, NEW r \in Requests, Reply(r), Typed',
         UNCHANGED <<rows, chain>>, req[r].pay \in Payments,
         \A p \in Payments \ {req[r].pay} : row'[p] = row[p] /\ task'[p] = task[p],
         Settles(RowOf(r), row'[req[r].pay]),
         row'[req[r].pay].hash \in {0, RowOf(r).hash},
         KeepsLock(r, req[r].pay)
  PROVE  ExecutionInv'
<1>1. \A p \in Payments : Settles(row[p], row'[p])
  BY DEF Settles, RowOf
<1>2. \A p \in Payments : KeepsLock(r, p)
  BY DEF KeepsLock
<1>3. OneOwner'
  BY DEF ExecutionInv, OneOwner, RowOf
<1> QED BY <1>1, <1>2, <1>3, QuietStep, IdleIsHarmless DEF Reply

LEMMA RollbackStep ==
  ASSUME ExecutionInv, NEW r \in Requests, Rollback(r)
  PROVE  ExecutionInv'
<1>1. req[r].pay \in Payments /\ req[r].at = "rollback"
  BY DEF Rollback, ExecutionInv, SendIsExclusive
<1>2. /\ Typed' /\ UNCHANGED <<rows, chain>> /\ row' = row /\ Reply(r)
      /\ \A p \in Payments \ {req[r].pay} : task'[p] = task[p]
  BY <1>1 DEF Rollback, SetTask, Typed, ExecutionInv, TypeOK
<1>3. task'[req[r].pay] = "UNDER_REVIEW" /\ ~InSending(r)'
  BY <1>1 DEF Rollback, SetTask, Reply, Become, Idle, InSending, ExecutionInv, TypeOK
<1>4. KeepsLock(r, req[r].pay) /\ Settles(RowOf(r), row'[req[r].pay])
  BY <1>1, <1>2, <1>3 DEF KeepsLock, Settles, RowOf
<1> QED BY <1>1, <1>2, <1>4, LastWriteStep DEF RowOf

LEMMA FinalizeStep ==
  ASSUME ExecutionInv, NEW r \in Requests, Finalize(r)
  PROVE  ExecutionInv'
<1>1. /\ req[r].pay \in Payments /\ RowOf(r) \in Settlement
      /\ RowOf(r).status = "BROADCAST" /\ RowOf(r) = row[req[r].pay]
  BY DEF Finalize, FinalizeGuard, ExecutionInv, TypeOK, SendIsExclusive, RowOf
<1>2. PICK final \in {"CONFIRMED", "FAILED"},
           status \in {"COMPLETED", "PAYMENT_FAILED"} :
        SetRow(r, [RowOf(r) EXCEPT !.status = final]) /\ SetTask(r, status)
  BY DEF Finalize
<1> DEFINE s == [RowOf(r) EXCEPT !.status = final]
<1>3. /\ s \in Settlement /\ s.id = RowOf(r).id /\ s.hash = RowOf(r).hash
      /\ s.status = final
  BY <1>1 DEF Settlement, SettlementStatuses
<1> HIDE DEF s
<1>4. /\ row' \in [Payments -> Settlement] /\ row'[req[r].pay] = s
      /\ \A p \in Payments \ {req[r].pay} : row'[p] = row[p]
  BY <1>1, <1>2, <1>3 DEF SetRow, ExecutionInv, TypeOK, s
<1>5. /\ Typed' /\ UNCHANGED <<rows, chain>> /\ Reply(r)
      /\ task'[req[r].pay] # "UNDER_REVIEW"
      /\ \A p \in Payments \ {req[r].pay} : task'[p] = task[p]
  BY <1>1, <1>2, <1>4 DEF Finalize, SetTask, Typed, ExecutionInv, TypeOK
<1>6. KeepsLock(r, req[r].pay) /\ Settles(RowOf(r), row'[req[r].pay])
  BY <1>1, <1>3, <1>4, <1>5 DEF KeepsLock, Settles
<1> QED BY <1>1, <1>3, <1>4, <1>5, <1>6, LastWriteStep

LEMMA DeleteStep ==
  ASSUME ExecutionInv, NEW r \in Requests, Delete(r)
  PROVE  ExecutionInv'
<1>1. req[r].pay \in Payments /\ "deletion" \in Hazards
  BY DEF Delete, ExecutionInv, SendIsExclusive, OneRowEach
<1>2. NoRow \in Settlement
  BY BoundsAssumption DEF NoRow, Settlement, SettlementStatuses
<1>3. /\ Typed' /\ UNCHANGED <<rows, chain>> /\ task' = task /\ Reply(r)
      /\ row'[req[r].pay] = NoRow
      /\ \A p \in Payments \ {req[r].pay} : row'[p] = row[p]
  BY <1>1, <1>2 DEF Delete, SetRow, Typed, ExecutionInv, TypeOK
<1>4. KeepsLock(r, req[r].pay)
  BY <1>1, <1>3 DEF KeepsLock
<1> QED BY <1>1, <1>3, <1>4, LastWriteStep DEF Settles, NoRow

-----------------------------------------------------------------------------
(* The gate creates a row *)

LEMMA LockStep ==
  ASSUME ExecutionInv, NEW r \in Requests, Lock(r)
  PROVE  ExecutionInv'
<1> DEFINE q == [req[r] EXCEPT !.at = "execute", !.row = rows + 1]
           s == [NoRow EXCEPT !.id = rows + 1, !.status = "PENDING"]
<1>0. PICK mine \in Payments : mine = req[r].pay
  BY DEF Lock, LockGuard, ExecutionInv, SendIsExclusive
<1>1. /\ TypeOK /\ IdsAreFresh /\ SendIsExclusive /\ SendersHoldLock
      /\ OneTransaction /\ OneRowEach /\ OneBroadcast /\ OneOwner
  BY DEF ExecutionInv
<1>2. /\ mine \in Payments /\ req[r] \in Request
      /\ task[mine] = "UNDER_REVIEW" /\ row[mine] = NoRow
      /\ rows \in Nat /\ rows + 1 \in 0..MaxRows
      /\ rows' = rows + 1 /\ UNCHANGED <<chain, faults>>
  BY <1>0, <1>1, BoundsAssumption DEF Lock, LockGuard, TypeOK
<1>3. /\ q \in Request /\ q.pay = mine /\ q.row = rows + 1 /\ q.at = "execute"
      /\ s \in Settlement /\ s.id = rows + 1 /\ s.status = "PENDING" /\ s.hash = 0
  BY <1>0, <1>2 DEF Request, Labels, NoRow, Settlement, SettlementStatuses
<1>4. /\ req' \in [Requests -> Request] /\ req'[r] = q
      /\ \A x \in Requests \ {r} : req'[x] = req[x]
  BY <1>1, <1>3 DEF Lock, Become, TypeOK
<1>5. /\ row' \in [Payments -> Settlement] /\ row'[mine] = s
      /\ \A p \in Payments \ {mine} : row'[p] = row[p]
  BY <1>0, <1>1, <1>2, <1>3 DEF Lock, SetRow, TypeOK
<1>6. /\ task' \in [Payments -> {"UNDER_REVIEW", "SETTLING", "COMPLETED",
                                 "PAYMENT_FAILED"}]
      /\ task'[mine] = "SETTLING"
      /\ \A p \in Payments \ {mine} : task'[p] = task[p]
  BY <1>0, <1>1, <1>2 DEF Lock, SetTask, TypeOK
<1> HIDE DEF q, s
<1>7. TypeOK'
  BY <1>1, <1>2, <1>4, <1>5, <1>6 DEF TypeOK
<1>8. IdsAreFresh'
  <2>1. /\ \A p \in Payments :
             row[p].id \in Nat /\ row[p].id <= rows
             /\ (row[p].id = 0 <=> row[p].status = "NONE")
        /\ \A x \in Requests : req[x].row \in Nat /\ req[x].row <= rows
        /\ \A h \in DOMAIN chain : chain[h].row \in Nat /\ chain[h].row <= rows
    <3>1. \A p \in Payments : row[p] \in Settlement
      BY <1>1 DEF TypeOK
    <3>2. \A x \in Requests : req[x] \in Request
      BY <1>1 DEF TypeOK
    <3>3. \A h \in DOMAIN chain : chain[h] \in Transaction
      BY <1>1 DEF TypeOK
    <3>4. \A h \in DOMAIN chain : chain[h].row \in Nat
      BY <3>3, BoundsAssumption DEF Transaction
    <3> QED BY <1>1, <3>1, <3>2, <3>4 DEF IdsAreFresh, Settlement, Request
  <2>2. \A p \in Payments :
          row'[p].id <= rows + 1 /\ (row'[p].id = 0 <=> row'[p].status = "NONE")
    BY <1>2, <1>3, <1>5, <2>1
  <2>3. \A p, x \in Payments : row'[p].id # 0 /\ row'[p].id = row'[x].id => p = x
    BY <1>1, <1>2, <1>3, <1>5, <2>1 DEF IdsAreFresh
  <2>4. \A x \in Requests : req'[x].row <= rows + 1
    BY <1>2, <1>3, <1>4, <2>1
  <2>5. \A h \in DOMAIN chain : chain[h].row <= rows + 1
    BY <1>2, <2>1
  <2> QED BY <1>2, <2>2, <2>3, <2>4, <2>5 DEF IdsAreFresh
<1>9. SendIsExclusive'
  <2>1. \A x \in Requests : Sending(x)' => Sending(x) /\ req'[x] = req[x]
    BY <1>3, <1>4 DEF Sending
  <2>2. ~Sent(rows + 1) /\ \A x \in Requests : req[x].row # rows + 1
    BY <1>1, <1>2 DEF Sent, IdsAreFresh
  <2>3. \A p \in Payments : row'[p].status = "PENDING" =>
          ~Sent(row'[p].id)
          /\ \A x \in Requests : Sending(x) => req[x].row # row'[p].id
    BY <1>1, <1>3, <1>5, <2>2 DEF SendIsExclusive
  <2>4. \A i : Sent(i)' <=> Sent(i)
    BY <1>2 DEF Sent
  <2>5. \A x \in Requests : req'[x].at # "idle" => req'[x].pay \in Payments
    BY <1>1, <1>2, <1>3, <1>4 DEF SendIsExclusive
  <2> QED BY <1>1, <2>1, <2>3, <2>4, <2>5 DEF SendIsExclusive
<1>10. OneRowEach'
  <2>1. \A p \in Payments \ {mine} : UsedIds(p)' = UsedIds(p)
    <3> SUFFICES ASSUME NEW p \in Payments \ {mine} PROVE UsedIds(p)' = UsedIds(p)
      OBVIOUS
    <3>1. {x \in Requests : req'[x].pay = p} = {x \in Requests : req[x].pay = p}
      BY <1>0, <1>3, <1>4
    <3>2. \A x \in {x \in Requests : req[x].pay = p} : req'[x].row = req[x].row
      BY <1>0, <1>3, <1>4
    <3>3. {req'[x].row : x \in {x \in Requests : req'[x].pay = p}}
            = {req[x].row : x \in {x \in Requests : req[x].pay = p}}
      BY <3>1, <3>2
    <3> QED BY <1>2, <1>5, <3>3 DEF UsedIds
  <2>2. UsedIds(mine)' \subseteq UsedIds(mine) \cup {rows + 1}
    BY <1>2, <1>3, <1>4, <1>5 DEF UsedIds
  <2>3. "deletion" \notin Hazards => UsedIds(mine) = {}
    BY <1>1, <1>2 DEF OneRowEach, NoRow
  <2>4. \A x \in Requests : req'[x].at = "delete" => req'[x] = req[x]
    BY <1>3, <1>4
  <2>5. "deletion" \notin Hazards =>
          \A p \in Payments : row'[p].id = 0 => UsedIds(p)' = {}
    BY <1>1, <1>2, <1>3, <1>5, <2>1 DEF OneRowEach
  <2>6. "deletion" \notin Hazards =>
          \A p \in Payments : \A i, j \in UsedIds(p)' : i = j
    <3> SUFFICES ASSUME "deletion" \notin Hazards, NEW p \in Payments
                 PROVE  \A i, j \in UsedIds(p)' : i = j
      OBVIOUS
    <3>1. CASE p = mine
      BY <2>2, <2>3, <3>1
    <3>2. CASE p # mine
      BY <1>1, <2>1, <3>2 DEF OneRowEach
    <3> QED BY <3>1, <3>2
  <2>7. "deletion" \notin Hazards => \A x \in Requests : req'[x].at # "delete"
    BY <1>1, <2>4 DEF OneRowEach
  <2> QED BY <2>5, <2>6, <2>7 DEF OneRowEach
<1>11. OneBroadcast'
  BY <1>1, <1>2 DEF OneBroadcast
<1>12. OneOwner'
  BY <1>1, <1>3, <1>5 DEF OneOwner
<1>13. \A x \in Requests : InSending(x)' =>
         InSending(x) /\ req'[x] = req[x] /\ req[x].pay \in Payments \ {mine}
  BY <1>1, <1>2, <1>3, <1>4
     DEF InSending, SendIsExclusive, SendersHoldLock, BroadcastHoldsLock
<1>14. SendersHoldLock'
  <2>1. BroadcastHoldsLock'
    BY <1>1, <1>3, <1>5, <1>6, <1>13 DEF SendersHoldLock, BroadcastHoldsLock
  <2>2. \A p \in Payments : row'[p].status = "PENDING" =>
          \A x \in Requests : InSending(x)' => req'[x].pay # p
    BY <1>1, <1>5, <1>13 DEF SendersHoldLock
  <2>3. \A x \in Requests : InSending(x)' => row'[req'[x].pay].id \in {0, req'[x].row}
    BY <1>1, <1>5, <1>13 DEF SendersHoldLock
  <2>4. \A x, y \in Requests :
          InSending(x)' /\ InSending(y)' /\ req'[x].pay = req'[y].pay => x = y
    BY <1>1, <1>13 DEF SendersHoldLock
  <2> QED BY <2>1, <2>2, <2>3, <2>4 DEF SendersHoldLock
<1>15. OneTransaction'
  <2>1. \A p : Unsent(p)' <=> Unsent(p)
    BY <1>2 DEF Unsent
  <2>2. "lostReply" \notin Hazards => Unsent(mine) /\ PaidOnce'
    BY <1>1, <1>2 DEF OneTransaction, PaidOnce
  <2>3. \A x \in Requests : req'[x].at \in {"send", "rollback"} => req'[x] = req[x]
    BY <1>3, <1>4
  <2>4. "lostReply" \notin Hazards =>
          \A h \in DOMAIN chain : row'[chain[h].pay].id \in {0, chain[h].row}
    <3>1. \A h \in DOMAIN chain : chain[h] \in Transaction
      BY <1>1 DEF TypeOK
    <3>2. \A h \in DOMAIN chain : chain[h].pay \in Payments
      BY <3>1 DEF Transaction
    <3> QED BY <1>1, <1>5, <2>2, <3>2 DEF OneTransaction, Unsent
  <2>5. "lostReply" \notin Hazards =>
          \A p \in Payments :
            task'[p] = "UNDER_REVIEW" \/ row'[p].status = "PENDING" => Unsent(p)
    BY <1>1, <1>5, <1>6, <2>2 DEF OneTransaction
  <2> QED BY <1>1, <1>2, <2>1, <2>2, <2>3, <2>4, <2>5 DEF OneTransaction
<1> QED BY <1>7, <1>8, <1>9, <1>10, <1>11, <1>12, <1>14, <1>15 DEF ExecutionInv

-----------------------------------------------------------------------------
(* One request claims the row, and its transaction is sent *)

LEMMA ClaimStep ==
  ASSUME ExecutionInv, NEW r \in Requests, Claim(r)
  PROVE  ExecutionInv'
<1> DEFINE q == [req[r] EXCEPT !.at = "send"]
           s == [RowOf(r) EXCEPT !.status = "BROADCAST"]
<1>0. PICK mine \in Payments : mine = req[r].pay
  BY DEF Claim, ClaimGuard, ExecutionInv, SendIsExclusive
<1>1. /\ TypeOK /\ IdsAreFresh /\ SendIsExclusive /\ SendersHoldLock
      /\ OneTransaction /\ OneRowEach /\ OneBroadcast /\ OneOwner
  BY DEF ExecutionInv
<1>2. /\ req[r] \in Request /\ row[mine] \in Settlement /\ RowOf(r) = row[mine]
      /\ row[mine].id = req[r].row /\ req[r].row # 0
      /\ row[mine].status = "PENDING"
      /\ UNCHANGED <<task, rows, chain, faults>>
  BY <1>0, <1>1 DEF Claim, ClaimGuard, ById, RowOf, TypeOK
<1>3. /\ q \in Request /\ q.pay = mine /\ q.row = req[r].row /\ q.at = "send"
      /\ s \in Settlement /\ s.id = row[mine].id /\ s.status = "BROADCAST"
      /\ s.hash = row[mine].hash
  BY <1>0, <1>2 DEF Request, Labels, Settlement, SettlementStatuses
<1>4. /\ req' \in [Requests -> Request] /\ req'[r] = q
      /\ \A x \in Requests \ {r} : req'[x] = req[x]
  BY <1>1, <1>3 DEF Claim, Advance, Become, TypeOK
<1>5. /\ row' \in [Payments -> Settlement] /\ row'[mine] = s
      /\ \A p \in Payments \ {mine} : row'[p] = row[p]
  BY <1>0, <1>1, <1>3 DEF Claim, SetRow, TypeOK
<1> HIDE DEF q, s
<1>6. TypeOK'
  BY <1>1, <1>2, <1>4, <1>5 DEF TypeOK
<1>7. \A p \in Payments : row'[p].id = row[p].id
  BY <1>3, <1>5
<1>8. \A x \in Requests : req'[x].row = req[x].row /\ req'[x].pay = req[x].pay
  BY <1>0, <1>3, <1>4
<1>9. IdsAreFresh'
  BY <1>1, <1>2, <1>3, <1>5, <1>7, <1>8 DEF IdsAreFresh
<1>10. SendIsExclusive'
  <2>1. ~Sent(req[r].row)
        /\ \A x \in Requests : Sending(x) => req[x].row # req[r].row
    BY <1>1, <1>2 DEF SendIsExclusive
  <2>2. \A i : Sent(i)' <=> Sent(i)
    BY <1>2 DEF Sent
  <2>3. \A x \in Requests \ {r} : Sending(x)' <=> Sending(x)
    BY <1>4 DEF Sending
  <2>4. \A x \in Requests : req'[x].at # "idle" => req'[x].pay \in Payments
    BY <1>0, <1>1, <1>3, <1>4 DEF SendIsExclusive
  <2>5. \A x \in Requests : Sending(x)' => req'[x].row # 0 /\ ~Sent(req'[x].row)
    BY <1>1, <1>2, <1>8, <2>1, <2>3 DEF SendIsExclusive
  <2>6. \A x, y \in Requests :
          Sending(x)' /\ Sending(y)' /\ req'[x].row = req'[y].row => x = y
    BY <1>1, <1>8, <2>1, <2>3 DEF SendIsExclusive
  <2>7. \A p \in Payments : row'[p].status = "PENDING" =>
          p # mine /\ row[p].status = "PENDING" /\ row[p].id # req[r].row
    <3>1. \A p \in Payments : row[p].id = row[mine].id => p = mine
      BY <1>1, <1>2 DEF IdsAreFresh
    <3> QED BY <1>2, <1>3, <1>5, <3>1
  <2>8. \A p \in Payments : row'[p].status = "PENDING" =>
          ~Sent(row'[p].id)
          /\ \A x \in Requests : Sending(x)' => req'[x].row # row'[p].id
    BY <1>1, <1>7, <1>8, <2>3, <2>7 DEF SendIsExclusive
  <2> QED BY <2>2, <2>4, <2>5, <2>6, <2>8 DEF SendIsExclusive
<1>11. OneRowEach'
  <2>1. \A p \in Payments : UsedIds(p)' \subseteq UsedIds(p)
    BY <1>2, <1>7, <1>8 DEF UsedIds
  <2>2. \A x \in Requests : req'[x].at = "delete" => "deletion" \in Hazards
    BY <1>1, <1>3, <1>4 DEF OneRowEach
  <2> QED BY <1>1, <1>2, <1>7, <2>1, <2>2, OneRowKept
<1>12. OneBroadcast'
  BY <1>1, <1>2 DEF OneBroadcast
<1>13. OneOwner'
  BY <1>1, <1>3, <1>5 DEF OneOwner
<1>14. \A x \in Requests : InSending(x)' =>
         \/ x = r
         \/ InSending(x) /\ req[x].pay \in Payments \ {mine}
  BY <1>0, <1>1, <1>2, <1>4 DEF InSending, SendIsExclusive, SendersHoldLock
<1>15. SendersHoldLock'
  <2>1. BroadcastHoldsLock'
    <3>1. task[mine] = "SETTLING"
      BY <1>0, <1>1, <1>2 DEF SendersHoldLock, BroadcastHoldsLock
    <3> QED
      BY <1>0, <1>1, <1>2, <1>3, <1>5, <1>8, <1>14, <3>1
         DEF SendersHoldLock, BroadcastHoldsLock
  <2>2. \A p \in Payments : row'[p].status = "PENDING" =>
          \A x \in Requests : InSending(x)' => req'[x].pay # p
    BY <1>0, <1>1, <1>3, <1>5, <1>8, <1>14 DEF SendersHoldLock
  <2>3. \A x \in Requests : InSending(x)' => row'[req'[x].pay].id \in {0, req'[x].row}
    BY <1>0, <1>1, <1>2, <1>7, <1>8, <1>14 DEF SendersHoldLock
  <2>4. \A x, y \in Requests :
          InSending(x)' /\ InSending(y)' /\ req'[x].pay = req'[y].pay => x = y
    BY <1>0, <1>1, <1>8, <1>14 DEF SendersHoldLock
  <2> QED BY <2>1, <2>2, <2>3, <2>4 DEF SendersHoldLock
<1>16. OneTransaction'
  <2>1. \A p : Unsent(p)' <=> Unsent(p)
    BY <1>2 DEF Unsent
  <2>2. "lostReply" \notin Hazards => Unsent(mine) /\ PaidOnce'
    BY <1>0, <1>1, <1>2 DEF OneTransaction, PaidOnce
  <2>3. \A x \in Requests \ {r} : req'[x] = req[x]
    BY <1>4
  <2>4. \A p \in Payments : row'[p].status = "PENDING" => row[p].status = "PENDING"
    BY <1>3, <1>5
  <2>5. "lostReply" \notin Hazards =>
          \A h \in DOMAIN chain : row'[chain[h].pay].id \in {0, chain[h].row}
    <3>1. \A h \in DOMAIN chain : chain[h] \in Transaction
      BY <1>1 DEF TypeOK
    <3>2. \A h \in DOMAIN chain : chain[h].pay \in Payments
      BY <3>1 DEF Transaction
    <3> QED BY <1>1, <1>7, <3>2 DEF OneTransaction
  <2> QED BY <1>0, <1>1, <1>2, <1>8, <2>1, <2>2, <2>3, <2>4, <2>5 DEF OneTransaction
<1> QED
  BY <1>6, <1>9, <1>10, <1>11, <1>12, <1>13, <1>15, <1>16 DEF ExecutionInv

(* The node accepts the transaction of a request that was about to send it. *)
LEMMA AcceptedStep ==
  ASSUME ExecutionInv, NEW r \in Requests, Sending(r), Accepted(r),
         NEW q \in Request, Become(r, q), q.pay = req[r].pay,
         q.row = req[r].row, q.at \in {"persist", "rollback"},
         q.at = "rollback" => "lostReply" \in Hazards,
         UNCHANGED <<records, faults>>
  PROVE  ExecutionInv'
<1> DEFINE t == [ pay |-> req[r].pay, row |-> req[r].row,
                  state |-> "pending", outcome |-> "none" ]
           n == Len(chain) + 1
<1>1. /\ TypeOK /\ IdsAreFresh /\ SendIsExclusive /\ SendersHoldLock
      /\ OneTransaction /\ OneRowEach /\ OneBroadcast /\ OneOwner
  BY DEF ExecutionInv
<1>2. /\ UNCHANGED <<task, row, rows, faults>>
      /\ req[r] \in Request /\ req[r].pay \in Payments
      /\ req[r].row # 0 /\ ~Sent(req[r].row)
  BY <1>1 DEF Sending, TypeOK, SendIsExclusive, records
<1>3. t \in Transaction /\ t.pay = req[r].pay /\ t.row = req[r].row
  BY <1>2, BoundsAssumption DEF Transaction, Outcomes, Request
<1>4. /\ req' \in [Requests -> Request] /\ req'[r] = q
      /\ \A x \in Requests \ {r} : req'[x] = req[x]
  BY <1>1 DEF Become, TypeOK
<1> HIDE DEF t
<1>5. /\ chain' \in Seq(Transaction) /\ DOMAIN chain' = DOMAIN chain \cup {n}
      /\ chain'[n] = t /\ n \notin DOMAIN chain
      /\ \A h \in DOMAIN chain : chain'[h] = chain[h]
  <2>1. chain' = Append(chain, t) /\ chain \in Seq(Transaction)
    BY <1>1 DEF Accepted, TypeOK, t
  <2> QED BY <1>3, <2>1
<1> HIDE DEF n
<1>6. TypeOK'
  BY <1>1, <1>2, <1>4, <1>5 DEF TypeOK
<1>7. \A x \in Requests : req'[x].row = req[x].row /\ req'[x].pay = req[x].pay
  BY <1>4
<1>8. IdsAreFresh'
  BY <1>1, <1>2, <1>3, <1>5, <1>7 DEF IdsAreFresh
<1>9. SendIsExclusive'
  <2>1. \A i : Sent(i)' => Sent(i) \/ i = req[r].row
    BY <1>3, <1>5 DEF Sent
  <2>2. \A x \in Requests : Sending(x)' => Sending(x) /\ req[x].row # req[r].row
    BY <1>1, <1>4 DEF Sending, SendIsExclusive
  <2>3. \A x \in Requests : req'[x].at # "idle" => req'[x].pay \in Payments
    BY <1>1, <1>2, <1>4 DEF SendIsExclusive
  <2>4. \A p \in Payments : row[p].status = "PENDING" => row[p].id # req[r].row
    BY <1>1 DEF SendIsExclusive
  <2>5. (\A x \in Requests : Sending(x) => req[x].row # 0 /\ ~Sent(req[x].row))'
    BY <1>1, <1>7, <2>1, <2>2 DEF SendIsExclusive
  <2>6. \A x, y \in Requests :
          Sending(x)' /\ Sending(y)' /\ req'[x].row = req'[y].row => x = y
    BY <1>1, <1>7, <2>2 DEF SendIsExclusive
  <2>7. (\A p \in Payments : row[p].status = "PENDING" =>
           ~Sent(row[p].id)
           /\ \A x \in Requests : Sending(x) => req[x].row # row[p].id)'
    BY <1>1, <1>2, <1>7, <2>1, <2>2, <2>4 DEF SendIsExclusive
  <2> QED BY <2>3, <2>5, <2>6, <2>7 DEF SendIsExclusive
<1>10. OneRowEach'
  <2>1. \A p \in Payments : UsedIds(p)' \subseteq UsedIds(p)
    <3> SUFFICES ASSUME NEW p \in Payments, NEW i \in UsedIds(p)'
                 PROVE  i \in UsedIds(p)
      OBVIOUS
    <3>1. ASSUME NEW h \in DOMAIN chain', chain'[h].pay = p, i = chain'[h].row
          PROVE  i \in {row[p].id}
                    \cup {req[x].row : x \in {x \in Requests : req[x].pay = p}}
                    \cup {chain[g].row : g \in {g \in DOMAIN chain : chain[g].pay = p}}
      BY <1>3, <1>5, <3>1
    <3> QED BY <1>2, <1>7, <3>1 DEF UsedIds
  <2>2. \A x \in Requests : req'[x].at = "delete" => "deletion" \in Hazards
    BY <1>1, <1>4 DEF OneRowEach
  <2> QED BY <1>1, <1>2, <2>1, <2>2, OneRowKept
<1>11. OneBroadcast'
  BY <1>1, <1>2, <1>3, <1>5 DEF OneBroadcast, Sent
<1>12. OneOwner'
  BY <1>1, <1>2 DEF OneOwner
<1>13. \A x \in Requests : InSending(x)' => InSending(x) /\ req[x].pay \in Payments
  BY <1>1, <1>4 DEF InSending, Sending, SendIsExclusive
<1>14. SendersHoldLock'
  <2>1. BroadcastHoldsLock'
    BY <1>1, <1>2, <1>7, <1>13 DEF SendersHoldLock, BroadcastHoldsLock
  <2> QED BY <1>1, <1>2, <1>7, <1>13, <2>1 DEF SendersHoldLock
<1>15. OneTransaction'
  <2> SUFFICES ASSUME "lostReply" \notin Hazards
               PROVE  /\ PaidOnce'
                      /\ (\A h \in DOMAIN chain :
                            row[chain[h].pay].id \in {0, chain[h].row})'
                      /\ \A p \in Payments :
                           task'[p] = "UNDER_REVIEW" \/ row'[p].status = "PENDING"
                             => Unsent(p)'
                      /\ (\A x \in Requests : req[x].at \in {"send", "rollback"} =>
                            Unsent(req[x].pay))'
    BY DEF OneTransaction
  <2>1. Unsent(req[r].pay) /\ PaidOnce /\ InSending(r)
    BY <1>1 DEF OneTransaction, Sending, InSending
  <2>2. PaidOnce'
    BY <1>3, <1>5, <2>1 DEF PaidOnce, Unsent
  <2>3. \A p : p # req[r].pay /\ Unsent(p) => Unsent(p)'
    BY <1>3, <1>5 DEF Unsent
  <2>4. \A p \in Payments :
          task'[p] = "UNDER_REVIEW" \/ row'[p].status = "PENDING" =>
            p # req[r].pay /\ Unsent(p)
    BY <1>1, <1>2, <2>1 DEF OneTransaction, SendersHoldLock, BroadcastHoldsLock
  <2>5. \A x \in Requests : req'[x].at \in {"send", "rollback"} =>
          /\ x # r /\ req'[x] = req[x] /\ InSending(x) /\ Unsent(req[x].pay)
    BY <1>1, <1>4 DEF OneTransaction, InSending
  <2>6. \A x \in Requests : req'[x].at \in {"send", "rollback"} =>
          req[x].pay # req[r].pay
    BY <1>1, <2>1, <2>5 DEF SendersHoldLock
  <2>7. (\A h \in DOMAIN chain : row[chain[h].pay].id \in {0, chain[h].row})'
    <3>1. row[req[r].pay].id \in {0, req[r].row}
      BY <1>1, <2>1 DEF SendersHoldLock
    <3> QED BY <1>1, <1>2, <1>3, <1>5, <3>1 DEF OneTransaction
  <2> QED BY <2>2, <2>3, <2>4, <2>5, <2>6, <2>7
<1> QED
  BY <1>6, <1>8, <1>9, <1>10, <1>11, <1>12, <1>14, <1>15 DEF ExecutionInv

LEMMA SendStep ==
  ASSUME ExecutionInv, NEW r \in Requests, Send(r) \/ SendError(r)
  PROVE  ExecutionInv'
<1>1. /\ req[r].at = "send" /\ req[r] \in Request /\ chain \in Seq(Transaction)
      /\ UNCHANGED <<records, faults>> /\ faults' \in 0..MaxFaults
  BY DEF Send, SendError, ExecutionInv, TypeOK
<1>2. CASE Send(r)
  <2> DEFINE h == Len(chain) + 1
             q == [req[r] EXCEPT !.at = "persist", !.hash = h]
  <2>0. h \in Nat
    BY <1>1
  <2> HIDE DEF h
  <2>1. /\ q \in Request /\ q.pay = req[r].pay /\ q.row = req[r].row
        /\ q.at = "persist"
    BY <1>1, <2>0 DEF Request, Labels
  <2>2. Become(r, q)
    BY <1>2 DEF Send, Await, h
  <2> HIDE DEF q
  <2> QED BY <1>1, <1>2, <2>1, <2>2, AcceptedStep DEF Send, Sending
<1>3. CASE SendError(r)
  <2> DEFINE q == [req[r] EXCEPT !.at = "rollback"]
  <2>1. /\ q \in Request /\ q.pay = req[r].pay /\ q.row = req[r].row
        /\ q.at = "rollback" /\ Become(r, q)
    BY <1>1, <1>3 DEF Request, Labels, SendError, Advance
  <2>2. CASE "lostReply" \in Hazards /\ Accepted(r)
    BY <1>1, <2>1, <2>2, AcceptedStep DEF Sending
  <2>3. CASE UNCHANGED chain
    BY <1>1, <2>1, <2>3, CarryOn, ReadStep
  <2> QED BY <1>3, <2>2, <2>3 DEF SendError
<1> QED BY <1>2, <1>3

-----------------------------------------------------------------------------
(* The chain decides on a transaction; it changes neither its payment nor its *)
(* row.                                                                       *)
LEMMA ChainStep ==
  ASSUME ExecutionInv, Chain
  PROVE  ExecutionInv'
<1>1. /\ TypeOK /\ IdsAreFresh /\ SendIsExclusive /\ SendersHoldLock
      /\ OneTransaction /\ OneRowEach /\ OneBroadcast /\ OneOwner
  BY DEF ExecutionInv
<1>2. PICK h \in DOMAIN chain, state \in {"pending", "mined", "buried"},
           outcome \in Outcomes \cup {"none"} : SetTx(h, state, outcome)
  <2>1. PICK h \in DOMAIN chain :
          Reorganise(h) \/ Bury(h) \/ \E outcome \in Outcomes : Include(h, outcome)
    BY DEF Chain
  <2>2. chain[h].outcome \in Outcomes \cup {"none"}
    <3>1. chain[h] \in Transaction
      BY <1>1 DEF TypeOK
    <3> QED BY <3>1 DEF Transaction
  <2>3. CASE Reorganise(h)
    BY <2>1, <2>3 DEF Reorganise
  <2>4. CASE Bury(h)
    BY <2>1, <2>2, <2>4 DEF Bury
  <2>5. ASSUME NEW outcome \in Outcomes, Include(h, outcome)
        PROVE  SetTx(h, "mined", outcome)
    BY <2>5 DEF Include
  <2> QED BY <2>1, <2>3, <2>4, <2>5
<1>3. UNCHANGED <<task, row, rows, req, faults>>
  BY <1>2 DEF SetTx, records
<1>4. /\ chain' \in Seq(Transaction) /\ DOMAIN chain' = DOMAIN chain
      /\ \A g \in DOMAIN chain :
           chain'[g].pay = chain[g].pay /\ chain'[g].row = chain[g].row
  <2> DEFINE t == [chain[h] EXCEPT !.state = state, !.outcome = outcome]
  <2>1. chain' = [chain EXCEPT ![h] = t] /\ chain \in Seq(Transaction)
    <3>1. chain \in Seq(Transaction) /\ chain[h] \in Transaction
      BY <1>1 DEF TypeOK
    <3>2. [[chain EXCEPT ![h].state = state] EXCEPT ![h].outcome = outcome]
            = [chain EXCEPT ![h] = [chain[h] EXCEPT !.state = state, !.outcome = outcome]]
      BY <3>1
    <3> QED BY <1>2, <3>1, <3>2 DEF SetTx
  <2>2. t \in Transaction /\ t.pay = chain[h].pay /\ t.row = chain[h].row
    <3>1. chain[h] \in Transaction
      BY <1>1 DEF TypeOK
    <3> QED BY <3>1 DEF Transaction
  <2> HIDE DEF t
  <2> QED BY <2>1, <2>2
<1>5. TypeOK'
  BY <1>1, <1>3, <1>4 DEF TypeOK
<1>6. IdsAreFresh'
  BY <1>1, <1>3, <1>4 DEF IdsAreFresh
<1>7. SendIsExclusive'
  <2>1. \A i : Sent(i)' <=> Sent(i)
    BY <1>4 DEF Sent
  <2> QED BY <1>1, <1>3, <2>1 DEF SendIsExclusive, Sending
<1>8. OneRowEach'
  <2>1. \A p \in Payments : UsedIds(p)' \subseteq UsedIds(p)
    BY <1>3, <1>4 DEF UsedIds
  <2>2. \A x \in Requests : req'[x].at = "delete" => "deletion" \in Hazards
    BY <1>1, <1>3 DEF OneRowEach
  <2> QED BY <1>1, <1>3, <2>1, <2>2, OneRowKept
<1>9. OneBroadcast' /\ OneOwner'
  BY <1>1, <1>3, <1>4 DEF OneBroadcast, OneOwner
<1>10. SendersHoldLock'
  BY <1>1, <1>3 DEF SendersHoldLock, BroadcastHoldsLock, InSending
<1>11. OneTransaction'
  <2>1. \A p : Unsent(p)' <=> Unsent(p)
    BY <1>4 DEF Unsent
  <2>2. PaidOnce => PaidOnce'
    BY <1>4 DEF PaidOnce
  <2>3. "lostReply" \notin Hazards =>
          (\A g \in DOMAIN chain : row[chain[g].pay].id \in {0, chain[g].row})'
    BY <1>1, <1>3, <1>4 DEF OneTransaction
  <2> QED BY <1>1, <1>3, <2>1, <2>2, <2>3 DEF OneTransaction
<1> QED BY <1>5, <1>6, <1>7, <1>8, <1>9, <1>10, <1>11 DEF ExecutionInv

-----------------------------------------------------------------------------
(* The theorems *)

LEMMA InitInv == Init => ExecutionInv
<1> SUFFICES ASSUME Init PROVE ExecutionInv
  OBVIOUS
<1> USE BoundsAssumption DEF Init
<1>1. NoRow \in Settlement /\ Idle \in Request
  BY DEF NoRow, Settlement, SettlementStatuses, Idle, Request, Labels
<1>2. TypeOK
  BY <1>1 DEF TypeOK
<1>3. IdsAreFresh /\ SendIsExclusive
  BY DEF IdsAreFresh, SendIsExclusive, Sending, Idle, NoRow
<1>4. OneRowEach
  BY DEF OneRowEach, UsedIds, Idle, NoRow
<1>5. OneBroadcast /\ OneOwner
  BY DEF OneBroadcast, OneOwner, NoRow
<1>6. SendersHoldLock
  BY DEF SendersHoldLock, BroadcastHoldsLock, InSending, Idle, NoRow
<1>7. OneTransaction
  BY DEF OneTransaction, PaidOnce, Unsent, Idle, NoRow
<1> QED BY <1>2, <1>3, <1>4, <1>5, <1>6, <1>7 DEF ExecutionInv

LEMMA NextInv == ExecutionInv /\ [Next]_vars => ExecutionInv'
<1> SUFFICES ASSUME ExecutionInv, [Next]_vars PROVE ExecutionInv'
  OBVIOUS
<1>1. ASSUME NEW r \in Requests, Handle(r)
      PROVE  ExecutionInv'
  <2>1. CASE ReadSteps(r)
    BY <2>1, ReadsStep
  <2>2. CASE Lock(r)
    BY <2>2, LockStep
  <2>3. CASE Claim(r)
    BY <2>3, ClaimStep
  <2>4. CASE Send(r) \/ SendError(r)
    BY <2>4, SendStep
  <2>5. CASE Rollback(r)
    BY <2>5, RollbackStep
  <2>6. CASE Persist(r) \/ Attach(r)
    BY <2>6, PersistStep
  <2>7. CASE Finalize(r)
    BY <2>7, FinalizeStep
  <2>8. CASE Delete(r)
    BY <2>8, DeleteStep
  <2> QED
    BY <1>1, <2>1, <2>2, <2>3, <2>4, <2>5, <2>6, <2>7, <2>8
       DEF Handle, ReadSteps
<1>2. ASSUME NEW r \in Requests, Fail(r)
      PROVE  ExecutionInv'
  BY <1>2, FailStep
<1>3. ASSUME NEW r \in Requests, NEW p \in Payments,
             Post(r, p) \/ DeleteRead(r, p)
      PROVE  ExecutionInv'
  BY <1>3, ArriveStep
<1>4. CASE Chain
  BY <1>4, ChainStep
<1>5. CASE UNCHANGED vars
  <2>1. UNCHANGED <<task, row, rows, chain, req, faults>>
    BY <1>5 DEF vars
  <2>2. TypeOK' /\ IdsAreFresh' /\ OneBroadcast' /\ OneOwner'
    BY <2>1 DEF ExecutionInv, TypeOK, IdsAreFresh, OneBroadcast, OneOwner
  <2>3. SendIsExclusive'
    BY <2>1 DEF ExecutionInv, SendIsExclusive, Sent, Sending
  <2>4. \A p \in Payments : UsedIds(p)' = UsedIds(p)
    BY <2>1 DEF UsedIds
  <2>5. OneRowEach'
    BY <2>1, <2>4 DEF ExecutionInv, OneRowEach
  <2>6. SendersHoldLock'
    BY <2>1 DEF ExecutionInv, SendersHoldLock, BroadcastHoldsLock, InSending
  <2>7. OneTransaction'
    BY <2>1 DEF ExecutionInv, OneTransaction, PaidOnce, Unsent
  <2> QED BY <2>2, <2>3, <2>5, <2>6, <2>7 DEF ExecutionInv
<1> QED BY <1>1, <1>2, <1>3, <1>4, <1>5 DEF Next

(* Whatever requests race, whatever is lost and whoever deletes rows, the      *)
(* inductive invariant of the executor always holds (executeSettlement).      *)
THEOREM ExecutionIsSafe == Spec => []ExecutionInv
<1>1. Init => ExecutionInv
  BY InitInv
<1>2. ExecutionInv /\ [Next]_vars => ExecutionInv'
  BY NextInv
<1> QED BY <1>1, <1>2, PTL DEF Spec

(* Rows, transactions and requests always hold values of their types.         *)
THEOREM ExecutionTypeOK == Spec => []TypeOK
<1>1. ExecutionInv => TypeOK
  BY DEF ExecutionInv
<1> QED BY <1>1, ExecutionIsSafe, PTL

(* No Settlement row is ever sent twice, by any number of requests, crashes    *)
(* and retries, with every hazard of the environment (executeSettlement).     *)
THEOREM NeverResent == Spec => []OneBroadcast
<1>1. ExecutionInv => OneBroadcast
  BY DEF ExecutionInv
<1> QED BY <1>1, ExecutionIsSafe, PTL

(* No transaction ever proves two settlements (recoverAndConfirm).            *)
THEOREM NeverSharedProof == Spec => []OneOwner
<1>1. ExecutionInv => OneOwner
  BY DEF ExecutionInv
<1> QED BY <1>1, ExecutionIsSafe, PTL

LEMMA PaidOnceInv ==
  ASSUME ExecutionInv, ~({"lostReply", "deletion"} \subseteq Hazards)
  PROVE  PaidOnce
<1>1. CASE "deletion" \notin Hazards
  <2> SUFFICES ASSUME NEW h \in DOMAIN chain, NEW g \in DOMAIN chain,
                      chain[h].pay = chain[g].pay
               PROVE  h = g
    BY DEF PaidOnce
  <2>1. chain[h] \in Transaction /\ chain[g] \in Transaction
    BY DEF ExecutionInv, TypeOK
  <2>2. /\ chain[h].pay \in Payments /\ chain[h].row # 0 /\ chain[g].row # 0
    BY <2>1 DEF Transaction
  <2>3. chain[h].row \in UsedIds(chain[h].pay) /\ chain[g].row \in UsedIds(chain[h].pay)
    BY <2>2 DEF UsedIds
  <2>4. chain[h].row = chain[g].row
    BY <1>1, <2>2, <2>3 DEF ExecutionInv, OneRowEach
  <2> QED BY <2>4 DEF ExecutionInv, OneBroadcast
<1>2. CASE "lostReply" \notin Hazards
  BY <1>2 DEF ExecutionInv, OneTransaction
<1> QED BY <1>1, <1>2

(* Unless replies of the node are lost and workers also delete rows, at most   *)
(* one transaction is sent for a submission, also when sends are refused and   *)
(* it is authorised once more (settleSubmission).                             *)
THEOREM SubmissionsPaidOnce ==
  ASSUME ~({"lostReply", "deletion"} \subseteq Hazards)
  PROVE  Spec => []PaidOnce
<1>1. ExecutionInv => PaidOnce
  BY PaidOnceInv
<1> QED BY <1>1, ExecutionIsSafe, PTL

(* While a request may be sending a payment, or recording what it sent, its    *)
(* task is not under review, and until a row is claimed it is SETTLING,        *)
(* whatever is refused, lost, deleted or raced (requestSettlement,            *)
(* executeSettlement).                                                        *)
THEOREM LockIsHeld == Spec => []BroadcastHoldsLock
<1>1. ExecutionInv => BroadcastHoldsLock
  BY DEF ExecutionInv, SendersHoldLock
<1> QED BY <1>1, ExecutionIsSafe, PTL

-----------------------------------------------------------------------------
(* What a step does to the records of one payment *)

Kept(p) == task'[p] = task[p] /\ row'[p] = row[p]

Written(p, taskTo, id, status, hash) ==
  /\ task'[p] = taskTo
  /\ row'[p].id = id /\ row'[p].status = status /\ row'[p].hash = hash

Authorised(p) ==
  /\ task[p] = "UNDER_REVIEW"
  /\ row[p].id = 0 /\ row[p].status = "NONE" /\ row[p].hash = 0
  /\ Written(p, "SETTLING", rows + 1, "PENDING", 0)
Claimed(p) ==
  /\ row[p].status = "PENDING"
  /\ Written(p, task[p], row[p].id, "BROADCAST", row[p].hash)
Attached(p) ==
  /\ row[p].status = "BROADCAST" /\ row[p].hash = 0
  /\ \E h : ~Owned(h) /\ Written(p, task[p], row[p].id, "BROADCAST", h)
Concluded(p) ==
  /\ row[p].status = "BROADCAST" /\ task[p] = "SETTLING"
  /\ \/ Written(p, "COMPLETED", row[p].id, "CONFIRMED", row[p].hash)
     \/ Written(p, "PAYMENT_FAILED", row[p].id, "FAILED", row[p].hash)
Reopened(p) ==
  /\ Written(p, "UNDER_REVIEW", row[p].id, row[p].status, row[p].hash)
  /\ Reopens(p)
Removed(p) ==
  "deletion" \in Hazards /\ Written(p, task[p], 0, "NONE", 0)

Changes(p) ==
  \/ Authorised(p) \/ Claimed(p) \/ Attached(p) \/ Concluded(p)
  \/ Reopened(p) \/ Removed(p)

(* A step leaves all records alone, or changes those of one payment. *)
LEMMA RecordStep ==
  ASSUME ExecutionInv, [Next]_vars
  PROVE  \/ UNCHANGED <<task, row>>
         \/ \E p \in Payments :
              Changes(p) /\ \A o \in Payments \ {p} : Kept(o)
<1>1. ASSUME NEW r \in Requests, Handle(r)
      PROVE  \/ UNCHANGED <<task, row>>
             \/ \E p \in Payments :
                  Changes(p) /\ \A o \in Payments \ {p} : Kept(o)
  <2> DEFINE p == req[r].pay
  <2>1. CASE UNCHANGED <<task, row>>
    BY <2>1
  <2>2. CASE req[r].at # "idle" /\ ~UNCHANGED <<task, row>>
    <3>1. p \in Payments /\ RowOf(r) = row[p]
      BY <2>2 DEF ExecutionInv, SendIsExclusive, RowOf
    <3>2. /\ task \in [Payments -> {"UNDER_REVIEW", "SETTLING", "COMPLETED",
                                    "PAYMENT_FAILED"}]
          /\ row \in [Payments -> Settlement]
      BY DEF ExecutionInv, TypeOK
    <3>3. \A t, s : task' = [task EXCEPT ![p] = t] /\ row' = [row EXCEPT ![p] = s] =>
             task'[p] = t /\ row'[p] = s /\ \A o \in Payments \ {p} : Kept(o)
      BY <3>1, <3>2 DEF Kept
    <3>4. /\ task = [task EXCEPT ![p] = task[p]] /\ row = [row EXCEPT ![p] = row[p]]
          /\ row[p] \in Settlement
      BY <3>1, <3>2
    <3> USE DEF SetTask, SetRow
    <3>5. CASE Lock(r)
      <4>1. /\ task'[p] = "SETTLING" /\ \A o \in Payments \ {p} : Kept(o)
            /\ row'[p] = [NoRow EXCEPT !.id = rows + 1, !.status = "PENDING"]
        BY <3>3, <3>5 DEF Lock
      <4>2. task[p] = "UNDER_REVIEW" /\ row[p] = NoRow
        BY <3>5 DEF Lock, LockGuard
      <4>3. Authorised(p)
        BY <4>1, <4>2 DEF Authorised, Written, NoRow
      <4> QED BY <3>1, <4>1, <4>3 DEF Changes
    <3>6. CASE Claim(r)
      <4>1. /\ task'[p] = task[p] /\ \A o \in Payments \ {p} : Kept(o)
            /\ row'[p] = [row[p] EXCEPT !.status = "BROADCAST"]
        BY <3>1, <3>3, <3>4, <3>6 DEF Claim
      <4>2. Claimed(p)
        BY <3>1, <3>4, <3>6, <4>1 DEF Claim, ClaimGuard, Claimed, Written, Settlement
      <4> QED BY <3>1, <4>1, <4>2 DEF Changes
    <3>7. CASE Persist(r) \/ Attach(r)
      <4>1. /\ Unattached(r) /\ ~Owned(req[r].hash) /\ task' = task
            /\ SetRow(r, [RowOf(r) EXCEPT !.hash = req[r].hash])
        BY <2>2, <3>7 DEF Persist, Attach
      <4>2. /\ task'[p] = task[p] /\ \A o \in Payments \ {p} : Kept(o)
            /\ row'[p] = [row[p] EXCEPT !.hash = req[r].hash]
        BY <3>1, <3>3, <3>4, <4>1
      <4>3. Attached(p)
        BY <3>1, <3>4, <4>1, <4>2 DEF Unattached, Attached, Written, Settlement
      <4> QED BY <3>1, <4>2, <4>3 DEF Changes
    <3>8. CASE Rollback(r)
      <4>1. /\ task'[p] = "UNDER_REVIEW" /\ \A o \in Payments \ {p} : Kept(o)
            /\ row'[p] = row[p]
        BY <3>1, <3>3, <3>4, <3>8 DEF Rollback
      <4>2. req[r].at = "rollback" /\ req'[r] = Idle /\ row[p].id \in {0, req[r].row}
        BY <3>8 DEF Rollback, Reply, Become, ExecutionInv, TypeOK, SendersHoldLock,
                    InSending
      <4>3. Reopened(p)
        BY <4>1, <4>2 DEF Reopened, Reopens, Written
      <4> QED BY <3>1, <4>1, <4>3 DEF Changes
    <3>9. CASE Finalize(r)
      <4>1. /\ \/ task'[p] = "COMPLETED" /\ row'[p] = [row[p] EXCEPT !.status = "CONFIRMED"]
               \/ task'[p] = "PAYMENT_FAILED" /\ row'[p] = [row[p] EXCEPT !.status = "FAILED"]
            /\ \A o \in Payments \ {p} : Kept(o)
        BY <3>1, <3>3, <3>9 DEF Finalize
      <4>2. Concluded(p)
        BY <3>1, <3>4, <3>9, <4>1
           DEF Finalize, FinalizeGuard, Concluded, Written, Settlement
      <4> QED BY <3>1, <4>1, <4>2 DEF Changes
    <3>10. CASE Delete(r)
      <4>1. /\ task'[p] = task[p] /\ \A o \in Payments \ {p} : Kept(o)
            /\ row'[p] = NoRow
        BY <3>1, <3>3, <3>4, <3>10 DEF Delete
      <4>2. Removed(p)
        BY <3>10, <4>1 DEF Delete, ExecutionInv, OneRowEach, Removed, Written, NoRow
      <4> QED BY <3>1, <4>1, <4>2 DEF Changes
    <3> QED
      BY <1>1, <2>2, <3>5, <3>6, <3>7, <3>8, <3>9, <3>10
         DEF Handle, Gate, Raced, Execute, Preflight, Send, SendKnown, SendError,
             Confirm, Scan, Filter, Receipt, Unverified, LoseRace, records
  <2>3. req[r].at # "idle"
    BY <1>1 DEF Handle, Gate, Raced, Lock, LockGuard, Execute, Preflight, Claim,
                ClaimGuard, Send, SendKnown, SendError, Rollback, Persist, Confirm,
                Scan, Filter, Attach, Receipt, Finalize, FinalizeGuard, Unverified,
                LoseRace, Delete
  <2> QED BY <2>1, <2>2, <2>3
<1>2. ASSUME NEW r \in Requests,
             \/ Fail(r) \/ \E p \in Payments : Post(r, p) \/ DeleteRead(r, p)
      PROVE  UNCHANGED <<task, row>>
  BY <1>2 DEF Fail, Post, DeleteRead, records
<1>3. CASE Chain
  BY <1>3 DEF Chain, Include, Reorganise, Bury, SetTx, records
<1>4. CASE UNCHANGED vars
  BY <1>4 DEF vars
<1> QED BY <1>1, <1>2, <1>3, <1>4 DEF Next

LEMMA RowTypes ==
  ASSUME ExecutionInv
  PROVE  /\ \A p \in Payments : row[p] \in Settlement
         /\ \A p \in Payments : row[p].id = 0 <=> row[p].status = "NONE"
         /\ rows + 1 # 0
<1>1. rows \in Nat
  BY BoundsAssumption DEF ExecutionInv, TypeOK
<1> QED BY <1>1 DEF ExecutionInv, TypeOK, IdsAreFresh

(* A row moves PENDING, BROADCAST, final, and keeps the hash it was given      *)
(* (executeSettlement, confirmByReceipt).                                     *)
THEOREM RowsNeverGoBack == Spec => RowsOnlyAdvance
<1> DEFINE Advances(p) ==
      row[p].id # 0 /\ row'[p].id = row[p].id =>
        /\ row'[p].status \in {row[p].status} \cup RowOrder[row[p].status]
        /\ row[p].hash # 0 => row'[p].hash = row[p].hash
<1>1. ASSUME ExecutionInv, [Next]_vars
      PROVE  \A p \in Payments : Advances(p)
  <2>1. \A p \in Payments : row'[p] = row[p] => Advances(p)
    OBVIOUS
  <2>2. ASSUME NEW p \in Payments, Changes(p)
        PROVE  Advances(p)
    <3>1. row[p] \in Settlement
      BY <1>1, RowTypes
    <3> QED
      BY <2>2, <3>1
         DEF Changes, Authorised, Claimed, Attached, Concluded, Reopened, Removed,
             Written, RowOrder
  <2>3. UNCHANGED row \/ \E p \in Payments :
          Changes(p) /\ \A o \in Payments \ {p} : row'[o] = row[o]
    BY <1>1, RecordStep DEF Kept
  <2> QED BY <2>1, <2>2, <2>3
<1>2. [][\A p \in Payments : Advances(p)]_vars => RowsOnlyAdvance
  BY PTL DEF RowsOnlyAdvance
<1> QED BY <1>1, <1>2, ExecutionIsSafe, PTL DEF Spec

(* Every task moves along the whitelist of transitions, or is put back under   *)
(* review by the sender whose send threw, while its row is there or deleted:  *)
(* no late handler reopens a later attempt (executeSettlement).               *)
THEOREM SettlementIsLegal == Spec => LegalOrReopened
<1> DEFINE Legal(p) ==
      task'[p] # task[p] => LegalCommit(task[p], task'[p]) \/ Reopens(p)
<1>1. /\ LegalCommit("UNDER_REVIEW", "SETTLING")
      /\ LegalCommit("SETTLING", "COMPLETED")
      /\ LegalCommit("SETTLING", "PAYMENT_FAILED")
  BY DEF LegalCommit, CanTransition, LegalTransitions, TransientStatuses
<1>2. ASSUME ExecutionInv, [Next]_vars
      PROVE  \A p \in Payments : Legal(p)
  <2>1. \A p \in Payments : task'[p] = task[p] => Legal(p)
    OBVIOUS
  <2>2. ASSUME NEW p \in Payments, Changes(p)
        PROVE  Legal(p)
    BY <1>1, <2>2
       DEF Changes, Authorised, Claimed, Attached, Concluded, Reopened, Removed, Written
  <2>3. UNCHANGED task \/ \E p \in Payments :
          Changes(p) /\ \A o \in Payments \ {p} : task'[o] = task[o]
    BY <1>2, RecordStep DEF Kept
  <2> QED BY <2>1, <2>2, <2>3
<1>3. [][\A p \in Payments : Legal(p)]_vars => LegalOrReopened
  BY PTL DEF LegalOrReopened
<1> QED BY <1>2, <1>3, ExecutionIsSafe, PTL DEF Spec

-----------------------------------------------------------------------------
(* The refinement *)

LEMMA InitMaps == Init => Record!Init
BY DEF Init, NoRow, Record!Init

LEMMA StepMaps ==
  ASSUME ExecutionInv, [Next]_vars
  PROVE  [Record!Next]_(Record!vars)
<1> DEFINE status == [p \in Payments |-> row[p].status]
           hash == [p \in Payments |-> row[p].hash]
<1>1. CASE UNCHANGED <<task, row>>
  BY <1>1 DEF Record!vars
<1>2. ASSUME NEW p \in Payments, Changes(p),
             \A o \in Payments \ {p} : Kept(o)
      PROVE  Record!Next
  <2>1. /\ task \in [Payments -> {"UNDER_REVIEW", "SETTLING", "COMPLETED",
                                  "PAYMENT_FAILED"}]
        /\ task' \in [Payments -> {"UNDER_REVIEW", "SETTLING", "COMPLETED",
                                   "PAYMENT_FAILED"}]
        /\ row[p] \in Settlement
    BY NextInv DEF ExecutionInv, TypeOK
  <2>2. /\ task' = [task EXCEPT ![p] = task'[p]]
        /\ status' = [status EXCEPT ![p] = row'[p].status]
        /\ hash' = [hash EXCEPT ![p] = row'[p].hash]
        /\ status[p] = row[p].status /\ hash[p] = row[p].hash
    BY <1>2, <2>1 DEF Kept
  <2>3. /\ task'[p] = task[p] => task' = task
        /\ row'[p].status = row[p].status => status' = status
        /\ row'[p].hash = row[p].hash => hash' = hash
    BY <1>2, <2>1 DEF Kept
  <2>4. CASE Authorised(p)
    <3>1. /\ status[p] = "NONE" /\ status' = [status EXCEPT ![p] = "PENDING"]
          /\ task[p] = "UNDER_REVIEW" /\ task' = [task EXCEPT ![p] = "SETTLING"]
          /\ hash' = hash
      BY <2>2, <2>3, <2>4 DEF Authorised, Written
    <3>2. Record!Authorise(p)
      BY <3>1 DEF Record!Authorise
    <3> QED BY <3>2 DEF Record!Next
  <2>5. CASE Claimed(p)
    <3>1. /\ status[p] = "PENDING" /\ status' = [status EXCEPT ![p] = "BROADCAST"]
          /\ task' = task /\ hash' = hash
      BY <2>2, <2>3, <2>5 DEF Claimed, Written
    <3>2. Record!Broadcast(p)
      BY <3>1 DEF Record!Broadcast
    <3> QED BY <3>2 DEF Record!Next
  <2>6. CASE Attached(p)
    <3>1. PICK h : ~Owned(h) /\ Written(p, task[p], row[p].id, "BROADCAST", h)
      BY <2>6 DEF Attached
    <3>2. /\ status[p] = "BROADCAST" /\ hash[p] = 0
          /\ task' = task /\ status' = status
          /\ hash' = [hash EXCEPT ![p] = h] /\ hash'[p] = h
      BY <2>2, <2>3, <2>6, <3>1 DEF Attached, Written
    <3>3. h \notin {hash[q] : q \in Payments}
      BY <3>1 DEF Owned
    <3>4. Record!Attach(p)
      BY <3>2, <3>3 DEF Record!Attach
    <3> QED BY <3>4 DEF Record!Next
  <2>7. CASE Concluded(p)
    <3>1. /\ task[p] = "SETTLING" /\ status[p] = "BROADCAST" /\ hash' = hash
          /\ \/ /\ task' = [task EXCEPT ![p] = "COMPLETED"]
                /\ status' = [status EXCEPT ![p] = "CONFIRMED"]
             \/ /\ task' = [task EXCEPT ![p] = "PAYMENT_FAILED"]
                /\ status' = [status EXCEPT ![p] = "FAILED"]
      BY <2>2, <2>3, <2>7 DEF Concluded, Written
    <3>2. Record!Conclude(p)
      BY <3>1 DEF Record!Conclude
    <3> QED BY <3>2 DEF Record!Next
  <2>8. CASE Reopened(p)
    <3>1. /\ status' = status /\ hash' = hash
          /\ task' = [task EXCEPT ![p] = "UNDER_REVIEW"]
      BY <2>2, <2>3, <2>8 DEF Reopened, Written
    <3>2. Record!Reopen(p)
      BY <3>1 DEF Record!Reopen
    <3> QED BY <3>2 DEF Record!Next
  <2>9. CASE Removed(p)
    <3>1. /\ "deletion" \in Hazards /\ task' = task
          /\ status' = [status EXCEPT ![p] = "NONE"]
          /\ hash' = [hash EXCEPT ![p] = 0]
      BY <2>2, <2>3, <2>9 DEF Removed, Written
    <3>2. Record!Remove(p)
      BY <3>1 DEF Record!Remove
    <3> QED BY <3>2 DEF Record!Next
  <2> QED BY <1>2, <2>4, <2>5, <2>6, <2>7, <2>8, <2>9 DEF Changes
<1> QED BY <1>1, <1>2, RecordStep

(* The interleaved executor implements the atomic payment record: whatever     *)
(* races, the records of a payment change only by its six operations          *)
(* (requestSettlement, executeSettlement, confirmByReceipt, DELETE).          *)
THEOREM ExecutionImplementsRecord == Spec => ImplementsRecord
<1>1. Init => Record!Init
  BY InitMaps
<1>2. ExecutionInv /\ [Next]_vars => [Record!Next]_(Record!vars)
  BY StepMaps
<1> QED BY <1>1, <1>2, ExecutionIsSafe, PTL DEF Spec, ImplementsRecord, Record!Spec
=============================================================================
