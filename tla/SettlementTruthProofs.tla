----------------------- MODULE SettlementTruthProofs -----------------------
(***************************************************************************)
(* What the records of SettlementExecution say of the chain is true, for any *)
(* number of payments, requests, rows and faults and with every hazard, if   *)
(* payments can be told apart on chain.                                      *)
(***************************************************************************)
EXTENDS SettlementExecutionProofs

IsOwn(h, p) == h \in DOMAIN chain /\ chain[h].pay = p

(* What a request knows, from its own broadcast, the row or the scan, is a   *)
(* transaction of its payment; it waits for a receipt only when the row, if  *)
(* it is still there, has a hash.                                           *)
RequestIsTrue(q) ==
  /\ q.at \in {"persist", "attach", "receipt", "finalize"} => IsOwn(q.hash, q.pay)
  /\ q.at = "filter" => \A h \in q.cands : IsOwn(h, q.pay)
  /\ q.at = "finalize" => chain[q.hash].state = "buried"
  /\ q.row # 0 /\ row[q.pay].id = q.row =>
       /\ q.at \in {"send", "persist"} => row[q.pay].status # "PENDING"
       /\ q.at \in {"receipt", "finalize"} => row[q.pay].hash # 0

Final == {"CONFIRMED", "FAILED"}

(* The outcome of the receipt that a final row stands for                     *)
Says(status) == IF status = "CONFIRMED" THEN "paid" ELSE "reverted"

RowIsTrue(p) ==
  /\ row[p].hash # 0 => IsOwn(row[p].hash, p)
  /\ row[p].status \in Final => row[p].hash # 0
  /\ SentOnce(p) /\ row[p].status \in Final =>
       /\ chain[row[p].hash].state = "buried"
       /\ chain[row[p].hash].outcome = Says(row[p].status)
  /\ task[p] = "PAYMENT_FAILED" =>
       \E h \in DOMAIN chain :
         /\ chain[h].pay = p /\ chain[h].state = "buried"
         /\ chain[h].outcome = "reverted"

TruthInv ==
  /\ \A r \in Requests : RequestIsTrue(req[r])
  /\ \A p \in Payments : RowIsTrue(p)

(* What is buried stays as it is. *)
ChainKept ==
  \A h \in DOMAIN chain :
    /\ h \in DOMAIN chain' /\ chain'[h].pay = chain[h].pay
    /\ chain[h].state = "buried" =>
         chain'[h].state = "buried" /\ chain'[h].outcome = chain[h].outcome

(* A row and a task that say nothing new of the chain *)
SaysNoMore(p) ==
  /\ row'[p].hash \in {0, row[p].hash}
  /\ row'[p].status \in Final => row'[p].status = row[p].status
                                 /\ row'[p].hash = row[p].hash
  /\ task'[p] = "PAYMENT_FAILED" => task[p] = "PAYMENT_FAILED"

LEMMA SentOnceBefore ==
  ASSUME ChainKept, NEW p \in Payments, SentOnce(p)'
  PROVE  SentOnce(p)
BY DEF ChainKept, SentOnce

LEMMA RowsSayNoMore ==
  ASSUME TruthInv, ChainKept, NEW p \in Payments, SaysNoMore(p)
  PROVE  RowIsTrue(p)'
<1>1. RowIsTrue(p)
  BY DEF TruthInv
<1>2. row'[p].hash # 0 => IsOwn(row[p].hash, p)'
  BY <1>1 DEF RowIsTrue, SaysNoMore, IsOwn, ChainKept
<1>3. row'[p].status \in Final =>
        /\ row'[p].hash # 0
        /\ SentOnce(p)' => /\ chain'[row'[p].hash].state = "buried"
                           /\ chain'[row'[p].hash].outcome = Says(row'[p].status)
  <2> SUFFICES ASSUME row'[p].status \in Final
               PROVE  /\ row'[p].hash # 0
                      /\ SentOnce(p)' =>
                           /\ chain'[row'[p].hash].state = "buried"
                           /\ chain'[row'[p].hash].outcome = Says(row'[p].status)
    OBVIOUS
  <2>1. row'[p].status = row[p].status /\ row'[p].hash = row[p].hash
    BY DEF SaysNoMore
  <2>2. /\ row[p].hash \in DOMAIN chain /\ row[p].hash # 0
        /\ SentOnce(p) => /\ chain[row[p].hash].state = "buried"
                          /\ chain[row[p].hash].outcome = Says(row[p].status)
    BY <1>1, <2>1 DEF RowIsTrue, IsOwn
  <2> QED BY <2>1, <2>2, SentOnceBefore DEF ChainKept
<1>4. task'[p] = "PAYMENT_FAILED" =>
        \E h \in DOMAIN chain' :
          /\ chain'[h].pay = p /\ chain'[h].state = "buried"
          /\ chain'[h].outcome = "reverted"
  BY <1>1 DEF RowIsTrue, SaysNoMore, ChainKept
<1> QED BY <1>2, <1>3, <1>4 DEF RowIsTrue, IsOwn, SentOnce, Says

(* What a step may do to the row of a submission: nothing that a request     *)
(* which works on that row has to notice, or the row is another one.         *)
LEMMA RowMoves ==
  ASSUME ExecutionInv, [Next]_vars
  PROVE  \A p \in Payments :
           \/ row'[p].id \in {0, rows + 1}
           \/ /\ row'[p].id = row[p].id
              /\ row'[p].status = "PENDING" => row[p].status = "PENDING"
              /\ row[p].hash # 0 => row'[p].hash # 0
<1>1. CASE UNCHANGED <<task, row>>
  BY <1>1
<1>2. ASSUME NEW p \in Payments, Changes(p), \A o \in Payments \ {p} : Kept(o)
      PROVE  \A o \in Payments :
               \/ row'[o].id \in {0, rows + 1}
               \/ /\ row'[o].id = row[o].id
                  /\ row'[o].status = "PENDING" => row[o].status = "PENDING"
                  /\ row[o].hash # 0 => row'[o].hash # 0
  <2>1. \/ row'[p].id \in {0, rows + 1}
        \/ /\ row'[p].id = row[p].id
           /\ row'[p].status = "PENDING" => row[p].status = "PENDING"
           /\ row[p].hash # 0 => row'[p].hash # 0
    BY <1>2 DEF Changes, Authorised, Claimed, Attached, Concluded, Reopened, Removed,
                Written
  <2> QED BY <1>2, <2>1 DEF Kept
<1> QED BY <1>1, <1>2, RecordStep

(* A request that a step leaves alone stays true.                            *)
LEMMA RequestStays ==
  ASSUME ExecutionInv, [Next]_vars, ChainKept,
         NEW q, RequestIsTrue(q), q.row <= rows, q.row \in Nat,
         q.at # "idle" => q.pay \in Payments
  PROVE  RequestIsTrue(q)'
<1>1. q.at \in {"persist", "attach", "receipt", "finalize"} => IsOwn(q.hash, q.pay)'
  BY DEF RequestIsTrue, IsOwn, ChainKept
<1>2. q.at = "filter" => \A h \in q.cands : IsOwn(h, q.pay)'
  BY DEF RequestIsTrue, IsOwn, ChainKept
<1>3. q.at = "finalize" => chain'[q.hash].state = "buried"
  BY DEF RequestIsTrue, IsOwn, ChainKept
<1>4. ASSUME q.at \in {"send", "persist", "receipt", "finalize"},
             q.row # 0, row'[q.pay].id = q.row
      PROVE  /\ q.at \in {"send", "persist"} => row'[q.pay].status # "PENDING"
             /\ q.at \in {"receipt", "finalize"} => row'[q.pay].hash # 0
  <2>1. rows \in Nat /\ q.pay \in Payments
    BY <1>4, BoundsAssumption DEF ExecutionInv, TypeOK
  <2>2. row'[q.pay].id \notin {0, rows + 1}
    BY <1>4, <2>1
  <2>3. /\ row'[q.pay].id = row[q.pay].id
        /\ row'[q.pay].status = "PENDING" => row[q.pay].status = "PENDING"
        /\ row[q.pay].hash # 0 => row'[q.pay].hash # 0
    BY <2>1, <2>2, RowMoves
  <2> QED BY <1>4, <2>3 DEF RequestIsTrue
<1> QED BY <1>1, <1>2, <1>3, <1>4 DEF RequestIsTrue

(* A step of one request, which becomes q                                    *)
LEMMA TruthStep ==
  ASSUME ExecutionInv, TruthInv, [Next]_vars, ChainKept,
         NEW r \in Requests, NEW q, Become(r, q), RequestIsTrue(q)',
         \A p \in Payments : RowIsTrue(p)'
  PROVE  TruthInv'
<1>1. req' = [req EXCEPT ![r] = q] /\ req \in [Requests -> Request]
  BY DEF Become, ExecutionInv, TypeOK
<1>2. ASSUME NEW s \in Requests
      PROVE  RequestIsTrue(req[s])'
  <2>1. CASE s = r
    <3>1. req'[s] = q
      BY <1>1, <2>1
    <3> QED BY <3>1 DEF RequestIsTrue, IsOwn
  <2>2. CASE s # r
    <3>1. PICK o : o = req[s]
      OBVIOUS
    <3>2. req'[s] = o
      BY <1>1, <2>2, <3>1
    <3>3. /\ RequestIsTrue(o) /\ o.row <= rows /\ o.row \in Nat
          /\ o.at # "idle" => o.pay \in Payments
      <4>1. RequestIsTrue(req[s]) /\ req[s].row <= rows
            /\ (req[s].at # "idle" => req[s].pay \in Payments)
        BY DEF TruthInv, ExecutionInv, IdsAreFresh, SendIsExclusive
      <4>2. req[s].row \in 0..MaxRows
        BY <1>1 DEF Request
      <4> QED BY <3>1, <4>1, <4>2, BoundsAssumption
    <3>4. RequestIsTrue(o)'
      BY <3>3, RequestStays
    <3> QED BY <3>2, <3>4 DEF RequestIsTrue, IsOwn
  <2> QED BY <2>1, <2>2
<1> QED BY <1>2 DEF TruthInv

(* A request that reads                                                      *)
LEMMA ReadTruth ==
  ASSUME ExecutionInv, TruthInv, [Next]_vars, UNCHANGED <<records, chain>>,
         NEW r \in Requests, NEW q, Become(r, q), RequestIsTrue(q)
  PROVE  TruthInv'
<1>1. UNCHANGED <<task, row, chain>>
  BY DEF records
<1>2. ChainKept /\ \A p \in Payments : SaysNoMore(p)
  BY <1>1 DEF ChainKept, SaysNoMore
<1>3. RequestIsTrue(q)'
  BY <1>1 DEF RequestIsTrue, IsOwn
<1> QED BY <1>2, <1>3, RowsSayNoMore, TruthStep

(* At the other labels a request knows nothing of the chain.                 *)
Quiet == {"idle", "gate", "raced", "lock", "execute", "claim", "rollback",
          "confirm", "scan", "delete"}

LEMMA QuietIsTrue == ASSUME NEW q, q.at \in Quiet PROVE RequestIsTrue(q) /\ RequestIsTrue(q)'
BY DEF Quiet, RequestIsTrue

LEMMA QuietTruth ==
  ASSUME ExecutionInv, TruthInv, [Next]_vars, NEW r \in Requests,
         UNCHANGED <<records, chain>>,
         \/ Reply(r)
         \/ \E label \in Quiet : Advance(r, label)
         \/ \E p \in Payments : Resume(r, p)
         \/ \E p \in Payments, label \in Quiet :
              Become(r, [Idle EXCEPT !.at = label, !.pay = p])
  PROVE  TruthInv'
<1>1. PICK q : Become(r, q) /\ q.at \in Quiet
  <2>1. CASE Reply(r)
    <3>1. Idle.at \in Quiet /\ Become(r, Idle)
      BY <2>1 DEF Reply, Idle, Quiet
    <3> QED BY <3>1
  <2>2. ASSUME NEW label \in Quiet, Advance(r, label)
        PROVE  \E q : Become(r, q) /\ q.at \in Quiet
    <3>1. req[r] \in Request
      BY DEF ExecutionInv, TypeOK
    <3>2. [req[r] EXCEPT !.at = label].at = label
      BY <3>1 DEF Request
    <3> QED BY <2>2, <3>2 DEF Advance
  <2>3. ASSUME NEW p \in Payments, Resume(r, p), ~Reply(r)
        PROVE  \E q : Become(r, q) /\ q.at \in Quiet
    <3>1. /\ Become(r, [Idle EXCEPT !.at = ResumeAt(row[p].status), !.pay = p,
                                    !.row = row[p].id])
          /\ ResumeAt(row[p].status) \in {"execute", "confirm"}
      BY <2>3 DEF Resume, ResumeAt
    <3>2. [Idle EXCEPT !.at = ResumeAt(row[p].status), !.pay = p,
                       !.row = row[p].id].at = ResumeAt(row[p].status)
      BY DEF Idle
    <3> QED BY <3>1, <3>2 DEF Quiet
  <2>4. ASSUME NEW p \in Payments, NEW label \in Quiet,
               Become(r, [Idle EXCEPT !.at = label, !.pay = p])
        PROVE  \E q : Become(r, q) /\ q.at \in Quiet
    <3>1. [Idle EXCEPT !.at = label, !.pay = p].at = label
      BY DEF Idle
    <3> QED BY <2>4, <3>1
  <2> QED BY <2>1, <2>2, <2>3, <2>4
<1> QED BY <1>1, QuietIsTrue, ReadTruth

LEMMA QuietSteps ==
  ASSUME ExecutionInv, TruthInv, [Next]_vars, NEW r \in Requests,
         \/ Gate(r) \/ Raced(r) \/ Execute(r) \/ Preflight(r) \/ Unverified(r)
         \/ LoseRace(r) \/ Fail(r)
         \/ \E p \in Payments : Post(r, p) \/ DeleteRead(r, p)
  PROVE  TruthInv'
<1>1. UNCHANGED <<records, chain>>
  BY DEF Gate, Raced, Execute, Preflight, Unverified, LoseRace, Fail, Post, DeleteRead
<1>2. CASE \/ Gate(r) \/ Execute(r) \/ Preflight(r) \/ Unverified(r)
           \/ LoseRace(r) \/ Fail(r)
  <2>1. Reply(r) \/ \E label \in Quiet : Advance(r, label)
    BY <1>2 DEF Gate, Execute, Preflight, Unverified, LoseRace, Fail, Quiet
  <2> QED BY <1>1, <2>1, QuietTruth
<1>3. CASE Raced(r)
  <2>1. req[r].pay \in Payments /\ Resume(r, req[r].pay)
    BY <1>3 DEF Raced, ExecutionInv, SendIsExclusive
  <2> QED BY <1>1, <2>1, QuietTruth
<1>4. ASSUME NEW p \in Payments, Post(r, p) \/ DeleteRead(r, p)
      PROVE  TruthInv'
  <2>1. \/ Resume(r, p)
        \/ \E label \in Quiet : Become(r, [Idle EXCEPT !.at = label, !.pay = p])
    BY <1>4 DEF Post, DeleteRead, Quiet
  <2> QED BY <1>1, <2>1, QuietTruth
<1> QED BY <1>2, <1>3, <1>4

-----------------------------------------------------------------------------
(* The steps by which a request learns of a transaction                      *)

LEMMA Current ==
  ASSUME ExecutionInv, TruthInv, NEW r \in Requests, req[r].at # "idle"
  PROVE  /\ RequestIsTrue(req[r]) /\ req[r] \in Request
         /\ req[r].pay \in Payments /\ RowIsTrue(req[r].pay)
         /\ RowOf(r) = row[req[r].pay] /\ row[req[r].pay] \in Settlement
BY DEF TruthInv, ExecutionInv, TypeOK, SendIsExclusive, RowOf

LEMMA SendKnownTruth ==
  ASSUME ~Alike, ExecutionInv, TruthInv, [Next]_vars, NEW r \in Requests, SendKnown(r)
  PROVE  TruthInv'
<1>1. PICK h \in DOMAIN chain :
        Matches(chain[h], req[r].pay) /\ Await(r, "persist", h)
  BY DEF SendKnown
<1>2. UNCHANGED <<records, chain>> /\ req[r].at = "send"
  BY DEF SendKnown
<1>3. IsOwn(h, req[r].pay)
  BY <1>1 DEF Matches, IsOwn
<1>4. RequestIsTrue(req[r]) /\ req[r] \in Request
  BY <1>2, Current
<1>5. PICK q : q = [req[r] EXCEPT !.at = "persist", !.hash = h]
  OBVIOUS
<1>6. q.at = "persist" /\ q.hash = h /\ q.pay = req[r].pay /\ q.row = req[r].row
  BY <1>4, <1>5 DEF Request
<1>7. RequestIsTrue(q)
  BY <1>2, <1>3, <1>4, <1>6 DEF RequestIsTrue
<1>8. Become(r, q)
  BY <1>1, <1>5 DEF Await
<1> QED BY <1>2, <1>7, <1>8, ReadTruth

LEMMA ConfirmTruth ==
  ASSUME ExecutionInv, TruthInv, [Next]_vars, NEW r \in Requests, Confirm(r)
  PROVE  TruthInv'
<1>1. UNCHANGED <<records, chain>> /\ req[r].at = "confirm"
  BY DEF Confirm
<1>2. CASE Reply(r) \/ Advance(r, "scan")
  BY <1>1, <1>2, QuietTruth DEF Quiet
<1>3. CASE RowOf(r).hash # 0 /\ Await(r, "receipt", RowOf(r).hash)
  <2>1. /\ req[r] \in Request /\ RowIsTrue(req[r].pay)
        /\ RowOf(r) = row[req[r].pay]
    BY <1>1, Current
  <2>2. PICK q : q = [req[r] EXCEPT !.at = "receipt", !.hash = RowOf(r).hash]
    OBVIOUS
  <2>3. /\ q.at = "receipt" /\ q.hash = row[req[r].pay].hash
        /\ q.pay = req[r].pay /\ q.row = req[r].row
    BY <2>1, <2>2 DEF Request
  <2>4. RequestIsTrue(q)
    BY <1>3, <2>1, <2>3 DEF RequestIsTrue, RowIsTrue
  <2> QED BY <1>1, <1>3, <2>2, <2>4, ReadTruth DEF Await
<1> QED BY <1>2, <1>3 DEF Confirm

LEMMA ScanTruth ==
  ASSUME ~Alike, ExecutionInv, TruthInv, [Next]_vars, NEW r \in Requests, Scan(r)
  PROVE  TruthInv'
<1>1. UNCHANGED <<records, chain>> /\ req[r].at = "scan"
  BY DEF Scan
<1>2. CASE Reply(r)
  BY <1>1, <1>2, QuietTruth
<1>3. CASE ~Reply(r)
  <2>1. PICK found \in SUBSET Candidates(req[r].pay) :
          Become(r, [req[r] EXCEPT !.at = "filter", !.cands = found])
    BY <1>3 DEF Scan
  <2>2. \A h \in found : IsOwn(h, req[r].pay)
    BY DEF Candidates, Matches, IsOwn
  <2>3. PICK q : q = [req[r] EXCEPT !.at = "filter", !.cands = found]
    OBVIOUS
  <2>4. req[r] \in Request
    BY <1>1, Current
  <2>5. q.at = "filter" /\ q.cands = found /\ q.pay = req[r].pay
    BY <2>3, <2>4 DEF Request
  <2>6. RequestIsTrue(q)
    BY <2>2, <2>5 DEF RequestIsTrue
  <2> QED BY <1>1, <2>1, <2>3, <2>6, ReadTruth
<1> QED BY <1>2, <1>3

LEMMA FilterTruth ==
  ASSUME ExecutionInv, TruthInv, [Next]_vars, NEW r \in Requests, Filter(r)
  PROVE  TruthInv'
<1>1. UNCHANGED <<records, chain>> /\ req[r].at = "filter"
  BY DEF Filter
<1>2. CASE Reply(r)
  BY <1>1, <1>2, QuietTruth
<1>3. CASE ~Reply(r)
  <2>1. PICK h \in Available(r) :
          Become(r, [req[r] EXCEPT !.at = "attach", !.hash = h, !.cands = {}])
    BY <1>3 DEF Filter
  <2>2. RequestIsTrue(req[r]) /\ req[r] \in Request
    BY <1>1, Current
  <2>3. IsOwn(h, req[r].pay)
    BY <1>1, <2>2 DEF Available, RequestIsTrue
  <2>4. PICK q : q = [req[r] EXCEPT !.at = "attach", !.hash = h, !.cands = {}]
    OBVIOUS
  <2>5. q.at = "attach" /\ q.hash = h /\ q.pay = req[r].pay
    BY <2>2, <2>4 DEF Request
  <2>6. RequestIsTrue(q)
    BY <2>3, <2>5 DEF RequestIsTrue
  <2> QED BY <1>1, <2>1, <2>4, <2>6, ReadTruth
<1> QED BY <1>2, <1>3

LEMMA ReceiptTruth ==
  ASSUME ExecutionInv, TruthInv, [Next]_vars, NEW r \in Requests, Receipt(r)
  PROVE  TruthInv'
<1>1. UNCHANGED <<records, chain>> /\ req[r].at = "receipt"
  BY DEF Receipt
<1>2. CASE Reply(r)
  BY <1>1, <1>2, QuietTruth
<1>3. CASE chain[req[r].hash].state = "buried" /\ Advance(r, "finalize")
  <2>1. RequestIsTrue(req[r]) /\ req[r] \in Request
    BY <1>1, Current
  <2>2. PICK q : q = [req[r] EXCEPT !.at = "finalize"]
    OBVIOUS
  <2>3. /\ q.at = "finalize" /\ q.hash = req[r].hash
        /\ q.pay = req[r].pay /\ q.row = req[r].row
    BY <2>1, <2>2 DEF Request
  <2>4. RequestIsTrue(q)
    BY <1>1, <1>3, <2>1, <2>3 DEF RequestIsTrue
  <2> QED BY <1>1, <1>3, <2>2, <2>4, ReadTruth DEF Advance
<1> QED BY <1>2, <1>3 DEF Receipt

-----------------------------------------------------------------------------
(* The steps that write                                                      *)

(* A request that writes its row or its task, says nothing new with it, and  *)
(* knows nothing new                                                         *)
LEMMA WriteTruth ==
  ASSUME ExecutionInv, TruthInv, [Next]_vars, NEW r \in Requests, chain' = chain,
         NEW q, Become(r, q), RequestIsTrue(q)',
         req[r].pay \in Payments, SaysNoMore(req[r].pay),
         \A p \in Payments \ {req[r].pay} : row'[p] = row[p] /\ task'[p] = task[p]
  PROVE  TruthInv'
<1>1. ChainKept
  BY DEF ChainKept
<1>2. \A p \in Payments : SaysNoMore(p)
  BY DEF SaysNoMore
<1> QED BY <1>1, <1>2, RowsSayNoMore, TruthStep

LEMMA LockTruth ==
  ASSUME ExecutionInv, TruthInv, [Next]_vars, NEW r \in Requests, Lock(r)
  PROVE  TruthInv'
<1>1. req[r].at = "lock" /\ chain' = chain
  BY DEF Lock, LockGuard
<1>2. req[r] \in Request /\ req[r].pay \in Payments
  BY <1>1, Current
<1>3. PICK s : s = [NoRow EXCEPT !.id = rows + 1, !.status = "PENDING"]
  OBVIOUS
<1>4. s.hash = 0 /\ s.status = "PENDING"
  BY <1>3 DEF NoRow
<1>5. /\ row' = [row EXCEPT ![req[r].pay] = s]
      /\ task' = [task EXCEPT ![req[r].pay] = "SETTLING"]
      /\ DOMAIN row = Payments /\ DOMAIN task = Payments
  BY <1>3 DEF Lock, SetRow, SetTask, ExecutionInv, TypeOK
<1>6. /\ row'[req[r].pay] = s /\ task'[req[r].pay] = "SETTLING"
      /\ \A p \in Payments \ {req[r].pay} : row'[p] = row[p] /\ task'[p] = task[p]
  BY <1>2, <1>5
<1>7. SaysNoMore(req[r].pay)
  BY <1>4, <1>6 DEF SaysNoMore, Final
<1>8. PICK q : q = [req[r] EXCEPT !.at = "execute", !.row = rows + 1]
  OBVIOUS
<1>9. q.at \in Quiet /\ Become(r, q)
  BY <1>2, <1>8 DEF Request, Quiet, Lock
<1> QED BY <1>1, <1>2, <1>6, <1>7, <1>9, QuietIsTrue, WriteTruth

LEMMA ClaimTruth ==
  ASSUME ExecutionInv, TruthInv, [Next]_vars, NEW r \in Requests, Claim(r)
  PROVE  TruthInv'
<1>1. req[r].at = "claim" /\ chain' = chain /\ task' = task
  BY DEF Claim, ClaimGuard
<1>2. /\ req[r] \in Request /\ req[r].pay \in Payments
      /\ RowOf(r) = row[req[r].pay] /\ row[req[r].pay] \in Settlement
  BY <1>1, Current
<1>3. PICK s : s = [row[req[r].pay] EXCEPT !.status = "BROADCAST"]
  OBVIOUS
<1>4. s.hash = row[req[r].pay].hash /\ s.status = "BROADCAST"
  BY <1>2, <1>3 DEF Settlement
<1>5. row' = [row EXCEPT ![req[r].pay] = s] /\ DOMAIN row = Payments
  BY <1>2, <1>3 DEF Claim, SetRow, ExecutionInv, TypeOK
<1>6. /\ row'[req[r].pay] = s
      /\ \A p \in Payments \ {req[r].pay} : row'[p] = row[p] /\ task'[p] = task[p]
  BY <1>1, <1>2, <1>5
<1>7. SaysNoMore(req[r].pay)
  BY <1>1, <1>4, <1>6 DEF SaysNoMore, Final
<1>8. PICK q : q = [req[r] EXCEPT !.at = "send"]
  OBVIOUS
<1>9. q.at = "send" /\ q.pay = req[r].pay /\ Become(r, q)
  BY <1>2, <1>8 DEF Request, Claim, Advance
<1>10. RequestIsTrue(q)'
  BY <1>4, <1>6, <1>9 DEF RequestIsTrue
<1> QED BY <1>1, <1>2, <1>6, <1>7, <1>9, <1>10, WriteTruth

LEMMA RollbackDeleteTruth ==
  ASSUME ExecutionInv, TruthInv, [Next]_vars, NEW r \in Requests,
         Rollback(r) \/ Delete(r)
  PROVE  TruthInv'
<1>1. req[r].at \in {"rollback", "delete"} /\ chain' = chain /\ Reply(r)
  BY DEF Rollback, Delete
<1>2. req[r].pay \in Payments /\ DOMAIN row = Payments /\ DOMAIN task = Payments
  BY <1>1, Current DEF ExecutionInv, TypeOK
<1>3. /\ SaysNoMore(req[r].pay)
      /\ \A p \in Payments \ {req[r].pay} : row'[p] = row[p] /\ task'[p] = task[p]
  <2>1. CASE Rollback(r)
    <3>1. task' = [task EXCEPT ![req[r].pay] = "UNDER_REVIEW"] /\ row' = row
      BY <2>1 DEF Rollback, SetTask
    <3> QED BY <1>2, <3>1 DEF SaysNoMore
  <2>2. CASE Delete(r)
    <3>1. row' = [row EXCEPT ![req[r].pay] = NoRow] /\ task' = task
      BY <2>2 DEF Delete, SetRow
    <3>2. NoRow.hash = 0 /\ NoRow.status = "NONE"
      BY DEF NoRow
    <3> QED BY <1>2, <3>1, <3>2 DEF SaysNoMore, Final
  <2> QED BY <2>1, <2>2
<1>4. PICK q : q = Idle
  OBVIOUS
<1>5. q.at \in Quiet /\ Become(r, q)
  BY <1>1, <1>4 DEF Idle, Quiet, Reply
<1> QED BY <1>1, <1>2, <1>3, <1>5, QuietIsTrue, WriteTruth

LEMMA PersistTruth ==
  ASSUME ExecutionInv, TruthInv, [Next]_vars, NEW r \in Requests,
         Persist(r) \/ Attach(r)
  PROVE  TruthInv'
<1>1. /\ req[r].at \in {"persist", "attach"}
      /\ task' = task /\ rows' = rows /\ chain' = chain
  BY DEF Persist, Attach
<1>2. /\ RequestIsTrue(req[r]) /\ req[r] \in Request
      /\ req[r].pay \in Payments /\ RowIsTrue(req[r].pay)
      /\ RowOf(r) = row[req[r].pay] /\ row[req[r].pay] \in Settlement
  BY <1>1, Current
<1>3. IsOwn(req[r].hash, req[r].pay)
  BY <1>1, <1>2 DEF RequestIsTrue
<1>4. CASE row' = row /\ Reply(r)
  BY <1>1, <1>4, QuietTruth DEF records
<1>5. CASE /\ row' = row /\ RowOf(r).hash # 0
           /\ Await(r, "receipt", RowOf(r).hash)
  <2>1. PICK q : q = [req[r] EXCEPT !.at = "receipt", !.hash = RowOf(r).hash]
    OBVIOUS
  <2>2. /\ q.at = "receipt" /\ q.hash = row[req[r].pay].hash
        /\ q.pay = req[r].pay
    BY <1>2, <2>1 DEF Request
  <2>3. RequestIsTrue(q)
    BY <1>2, <1>5, <2>2 DEF RequestIsTrue, RowIsTrue
  <2> QED BY <1>1, <1>5, <2>1, <2>3, ReadTruth DEF Await, records
<1>6. CASE row' = row /\ req[r].at = "persist" /\ ~Unattached(r) /\ Advance(r, "receipt")
  <2>1. PICK q : q = [req[r] EXCEPT !.at = "receipt"]
    OBVIOUS
  <2>2. /\ q.at = "receipt" /\ q.hash = req[r].hash
        /\ q.pay = req[r].pay /\ q.row = req[r].row
    BY <1>2, <2>1 DEF Request
  <2>3. ASSUME req[r].row # 0, row[req[r].pay].id = req[r].row
        PROVE  row[req[r].pay].hash # 0
    <3>1. \/ row[req[r].pay].status # "BROADCAST"
          \/ row[req[r].pay].hash # 0
      BY <1>2, <1>6, <2>3 DEF Unattached, ById
    <3>2. row[req[r].pay].status \notin {"PENDING", "NONE"}
      BY <1>2, <1>6, <2>3 DEF RequestIsTrue, ExecutionInv, IdsAreFresh
    <3>3. row[req[r].pay].status \in {"BROADCAST"} \cup Final
      BY <1>2, <3>2 DEF Settlement, SettlementStatuses, Final
    <3> QED BY <1>2, <3>1, <3>3 DEF RowIsTrue
  <2>4. RequestIsTrue(q)
    BY <1>3, <2>2, <2>3 DEF RequestIsTrue
  <2> QED BY <1>1, <1>6, <2>1, <2>4, ReadTruth DEF Advance, records
<1>7. CASE /\ Unattached(r) /\ Advance(r, "receipt")
           /\ SetRow(r, [RowOf(r) EXCEPT !.hash = req[r].hash])
  <2>1. PICK s : s = [row[req[r].pay] EXCEPT !.hash = req[r].hash]
    OBVIOUS
  <2>2. s.hash = req[r].hash /\ s.status = "BROADCAST"
    BY <1>2, <1>7, <2>1 DEF Settlement, Unattached
  <2>3. row' = [row EXCEPT ![req[r].pay] = s] /\ DOMAIN row = Payments
    BY <1>2, <1>7, <2>1 DEF SetRow, ExecutionInv, TypeOK
  <2>4. row'[req[r].pay] = s /\ \A p \in Payments \ {req[r].pay} : row'[p] = row[p]
    BY <1>2, <2>3
  <2>5. ChainKept /\ \A p \in Payments \ {req[r].pay} : SaysNoMore(p)
    BY <1>1, <2>4 DEF ChainKept, SaysNoMore
  <2>6. \A p \in Payments : RowIsTrue(p)'
    <3> SUFFICES ASSUME NEW p \in Payments PROVE RowIsTrue(p)'
      OBVIOUS
    <3>1. CASE p # req[r].pay
      BY <2>5, <3>1, RowsSayNoMore
    <3>2. CASE p = req[r].pay
      <4>1. /\ row'[p].hash = req[r].hash /\ row'[p].status = "BROADCAST"
            /\ IsOwn(req[r].hash, p) /\ RowIsTrue(p)
        BY <1>2, <1>3, <2>2, <2>4, <3>2
      <4> QED BY <1>1, <4>1 DEF RowIsTrue, IsOwn, Final, Says
    <3> QED BY <3>1, <3>2
  <2>7. PICK q : q = [req[r] EXCEPT !.at = "receipt"]
    OBVIOUS
  <2>8. q.at = "receipt" /\ q.hash = req[r].hash /\ q.pay = req[r].pay /\ Become(r, q)
    BY <1>2, <1>7, <2>7 DEF Request, Advance
  <2>9. req[r].hash # 0
    BY <1>3 DEF IsOwn, ExecutionInv, TypeOK
  <2>10. RequestIsTrue(q)'
    BY <1>1, <1>3, <2>2, <2>4, <2>8, <2>9 DEF RequestIsTrue, IsOwn
  <2> QED BY <2>5, <2>6, <2>8, <2>10, TruthStep
<1> QED BY <1>4, <1>5, <1>6, <1>7 DEF Persist, Attach

(* A broadcast appends a transaction of its payment.                         *)
LEMMA SendTruth ==
  ASSUME ExecutionInv, TruthInv, [Next]_vars, NEW r \in Requests,
         Send(r) \/ SendError(r)
  PROVE  TruthInv'
<1>1. req[r].at = "send" /\ task' = task /\ row' = row
  BY DEF Send, SendError, records
<1>2. RequestIsTrue(req[r]) /\ req[r] \in Request
  BY <1>1, Current
<1>3. CASE chain' = chain /\ Advance(r, "rollback")
  <2>1. UNCHANGED <<records, chain>>
    BY <1>3 DEF Send, SendError
  <2> QED BY <1>3, <2>1, QuietTruth DEF Quiet
<1>4. CASE Accepted(r)
  <2>1. PICK t : t = [ pay |-> req[r].pay, row |-> req[r].row,
                       state |-> "pending", outcome |-> "none" ]
    OBVIOUS
  <2>2. chain' = Append(chain, t) /\ t.pay = req[r].pay /\ chain \in Seq(Transaction)
    BY <1>4, <2>1 DEF Accepted, ExecutionInv, TypeOK
  <2>3. /\ Len(chain) \in Nat /\ DOMAIN chain = 1..Len(chain)
        /\ DOMAIN chain' = 1..(Len(chain) + 1)
        /\ \A h \in 1..Len(chain) : chain'[h] = chain[h]
        /\ chain'[Len(chain) + 1] = t
    BY <2>2
  <2>4. ChainKept
    BY <2>3 DEF ChainKept
  <2>5. \A p \in Payments : RowIsTrue(p)'
    BY <1>1, <2>4, RowsSayNoMore DEF SaysNoMore
  <2>6. CASE Send(r)
    <3>1. PICK q : q = [req[r] EXCEPT !.at = "persist", !.hash = Len(chain) + 1]
      OBVIOUS
    <3>2. /\ q.at = "persist" /\ q.hash = Len(chain) + 1
          /\ q.pay = req[r].pay /\ q.row = req[r].row
      BY <1>2, <3>1 DEF Request
    <3>3. Become(r, q)
      BY <2>6, <3>1 DEF Send, Await
    <3>4. IsOwn(q.hash, q.pay)'
      <4>1. Len(chain) + 1 \in DOMAIN chain' /\ chain'[Len(chain) + 1].pay = q.pay
        BY <2>2, <2>3, <3>2
      <4> QED BY <3>2, <4>1 DEF IsOwn
    <3>5. RequestIsTrue(q)'
      BY <1>1, <1>2, <3>2, <3>4 DEF RequestIsTrue
    <3> QED BY <2>4, <2>5, <3>3, <3>5, TruthStep
  <2>7. CASE SendError(r)
    <3>1. PICK q : q = [req[r] EXCEPT !.at = "rollback"]
      OBVIOUS
    <3>2. q.at \in Quiet /\ Become(r, q)
      BY <1>2, <2>7, <3>1 DEF Request, Quiet, SendError, Advance
    <3> QED BY <2>4, <2>5, <3>2, QuietIsTrue, TruthStep
  <2> QED BY <2>6, <2>7
<1> QED BY <1>3, <1>4 DEF Send, SendError

(* The receipt that decides is of a transaction of this payment: the one that *)
(* the row names, if there is but one.                                       *)
LEMMA FinalizeTruth ==
  ASSUME ExecutionInv, TruthInv, [Next]_vars, NEW r \in Requests, Finalize(r)
  PROVE  TruthInv'
<1>1. /\ req[r].at = "finalize" /\ ById(r) /\ chain' = chain /\ Reply(r)
  BY DEF Finalize, FinalizeGuard
<1>2. /\ RequestIsTrue(req[r]) /\ req[r].pay \in Payments /\ RowIsTrue(req[r].pay)
      /\ RowOf(r) = row[req[r].pay] /\ row[req[r].pay] \in Settlement
  BY <1>1, Current
<1>3. PICK p \in Payments : p = req[r].pay
  BY <1>2
<1>4. PICK h : h = req[r].hash
  OBVIOUS
<1>5. IsOwn(h, p) /\ chain[h].state = "buried"
  BY <1>1, <1>2, <1>3, <1>4 DEF RequestIsTrue
<1>6. row[p].hash # 0 /\ IsOwn(row[p].hash, p) /\ (SentOnce(p) => row[p].hash = h)
  <2>1. row[p].hash # 0
    BY <1>1, <1>2, <1>3 DEF RequestIsTrue, ById
  <2>2. IsOwn(row[p].hash, p)
    BY <1>2, <1>3, <2>1 DEF RowIsTrue
  <2> QED BY <1>5, <2>1, <2>2 DEF IsOwn, SentOnce
<1>7. PICK final \in Final, status \in {"COMPLETED", "PAYMENT_FAILED"} :
        /\ row' = [row EXCEPT ![p] = [row[p] EXCEPT !.status = final]]
        /\ task' = [task EXCEPT ![p] = status]
        /\ chain[h].outcome = Says(final)
        /\ status = "PAYMENT_FAILED" => chain[h].outcome = "reverted"
  BY <1>2, <1>3, <1>4 DEF Finalize, Outcome, SetRow, SetTask, Final, Says
<1>8. /\ row'[p].hash = row[p].hash /\ row'[p].status = final /\ task'[p] = status
      /\ \A o \in Payments \ {p} : row'[o] = row[o] /\ task'[o] = task[o]
  <2>1. DOMAIN row = Payments /\ DOMAIN task = Payments /\ row[p] \in Settlement
    BY DEF ExecutionInv, TypeOK
  <2>2. PICK s : s = [row[p] EXCEPT !.status = final]
    OBVIOUS
  <2>3. s.hash = row[p].hash /\ s.status = final
    BY <2>1, <2>2 DEF Settlement
  <2> QED BY <1>7, <2>1, <2>2, <2>3
<1>9. RowIsTrue(p)'
  <2>1. row'[p].hash # 0 /\ IsOwn(row[p].hash, p)'
    BY <1>1, <1>6, <1>8 DEF IsOwn
  <2>2. task'[p] = "PAYMENT_FAILED" =>
          \E g \in DOMAIN chain' :
            /\ chain'[g].pay = p /\ chain'[g].state = "buried"
            /\ chain'[g].outcome = "reverted"
    BY <1>1, <1>5, <1>7, <1>8 DEF IsOwn
  <2>3. SentOnce(p)' => /\ chain'[row'[p].hash].state = "buried"
                        /\ chain'[row'[p].hash].outcome = Says(row'[p].status)
    BY <1>1, <1>5, <1>6, <1>7, <1>8 DEF SentOnce
  <2> QED BY <1>8, <2>1, <2>2, <2>3 DEF RowIsTrue, IsOwn, SentOnce, Says
<1>10. ChainKept /\ \A o \in Payments \ {p} : SaysNoMore(o)
  BY <1>1, <1>8 DEF ChainKept, SaysNoMore
<1>11. \A o \in Payments : RowIsTrue(o)'
  <2> SUFFICES ASSUME NEW o \in Payments PROVE RowIsTrue(o)'
    OBVIOUS
  <2>1. CASE o = p
    BY <1>9, <2>1 DEF RowIsTrue, IsOwn, SentOnce, Says
  <2>2. CASE o # p
    BY <1>10, <2>2, RowsSayNoMore
  <2> QED BY <2>1, <2>2
<1>12. PICK q : q = Idle
  OBVIOUS
<1>13. q.at \in Quiet /\ Become(r, q)
  BY <1>1, <1>12 DEF Idle, Quiet, Reply
<1> QED BY <1>10, <1>11, <1>13, QuietIsTrue, TruthStep

-----------------------------------------------------------------------------
(* The chain, which may take back only what is not buried                    *)

LEMMA ChainMoves ==
  ASSUME ExecutionInv, Chain
  PROVE  ChainKept
<1>1. PICK h \in DOMAIN chain :
        Reorganise(h) \/ Bury(h) \/ \E outcome \in Outcomes : Include(h, outcome)
  BY DEF Chain
<1>2. PICK state, outcome : SetTx(h, state, outcome) /\ chain[h].state # "buried"
  BY <1>1 DEF Reorganise, Bury, Include
<1>3. chain \in Seq(Transaction) /\ chain[h] \in Transaction
  BY DEF ExecutionInv, TypeOK
<1> DEFINE t == [chain[h] EXCEPT !.state = state, !.outcome = outcome]
<1>4. chain' = [chain EXCEPT ![h] = t]
  <2>1. [[chain EXCEPT ![h].state = state] EXCEPT ![h].outcome = outcome]
          = [chain EXCEPT ![h] = [chain[h] EXCEPT !.state = state, !.outcome = outcome]]
    BY <1>3
  <2> QED BY <1>2, <2>1 DEF SetTx
<1>5. t.pay = chain[h].pay
  BY <1>3 DEF Transaction
<1> HIDE DEF t
<1> QED BY <1>2, <1>3, <1>4, <1>5 DEF ChainKept

LEMMA ChainTruth ==
  ASSUME ExecutionInv, TruthInv, [Next]_vars, Chain
  PROVE  TruthInv'
<1>1. UNCHANGED <<task, row, req>>
  BY DEF Chain, Reorganise, Bury, Include, SetTx, records
<1>2. ChainKept
  BY ChainMoves
<1>3. \A p \in Payments : RowIsTrue(p)'
  BY <1>1, <1>2, RowsSayNoMore DEF SaysNoMore
<1>4. ASSUME NEW r \in Requests
      PROVE  RequestIsTrue(req[r])'
  <2>1. PICK q : q = req[r]
    OBVIOUS
  <2>2. q.row \in Nat
    <3>1. req[r].row \in 0..MaxRows
      BY DEF ExecutionInv, TypeOK, Request
    <3> QED BY <2>1, <3>1, BoundsAssumption
  <2>3. /\ RequestIsTrue(q) /\ q.row <= rows
        /\ q.at # "idle" => q.pay \in Payments
    BY <2>1 DEF TruthInv, ExecutionInv, IdsAreFresh, SendIsExclusive
  <2>4. RequestIsTrue(q)'
    BY <1>2, <2>2, <2>3, RequestStays
  <2> QED BY <1>1, <2>1, <2>4 DEF RequestIsTrue, IsOwn
<1> QED BY <1>3, <1>4 DEF TruthInv

-----------------------------------------------------------------------------
(* The theorems *)

LEMMA InitTruth == Init => TruthInv
BY DEF Init, TruthInv, RequestIsTrue, RowIsTrue, Idle, NoRow, Final

LEMMA NextTruth ==
  ASSUME ~Alike
  PROVE  ExecutionInv /\ TruthInv /\ [Next]_vars => TruthInv'
<1> SUFFICES ASSUME ExecutionInv, TruthInv, [Next]_vars PROVE TruthInv'
  OBVIOUS
<1>1. CASE UNCHANGED vars
  BY <1>1 DEF vars, TruthInv, RequestIsTrue, RowIsTrue, IsOwn, SentOnce, Says
<1>2. ASSUME NEW r \in Requests, Handle(r)
      PROVE  TruthInv'
  <2>1. CASE \/ Gate(r) \/ Raced(r) \/ Execute(r) \/ Preflight(r)
             \/ Unverified(r) \/ LoseRace(r)
    BY <2>1, QuietSteps
  <2>2. CASE Lock(r)
    BY <2>2, LockTruth
  <2>3. CASE Claim(r)
    BY <2>3, ClaimTruth
  <2>4. CASE Send(r) \/ SendError(r)
    BY <2>4, SendTruth
  <2>5. CASE SendKnown(r)
    BY <2>5, SendKnownTruth
  <2>6. CASE Rollback(r) \/ Delete(r)
    BY <2>6, RollbackDeleteTruth
  <2>7. CASE Persist(r) \/ Attach(r)
    BY <2>7, PersistTruth
  <2>8. CASE Confirm(r)
    BY <2>8, ConfirmTruth
  <2>9. CASE Scan(r)
    BY <2>9, ScanTruth
  <2>10. CASE Filter(r)
    BY <2>10, FilterTruth
  <2>11. CASE Receipt(r)
    BY <2>11, ReceiptTruth
  <2>12. CASE Finalize(r)
    BY <2>12, FinalizeTruth
  <2> QED BY <1>2, <2>1, <2>2, <2>3, <2>4, <2>5, <2>6, <2>7, <2>8, <2>9, <2>10,
             <2>11, <2>12 DEF Handle
<1>3. ASSUME NEW r \in Requests,
             Fail(r) \/ \E p \in Payments : Post(r, p) \/ DeleteRead(r, p)
      PROVE  TruthInv'
  BY <1>3, QuietSteps
<1>4. CASE Chain
  BY <1>4, ChainTruth
<1> QED BY <1>1, <1>2, <1>3, <1>4 DEF Next

(* With payments that can be told apart, requests, rows and tasks never claim  *)
(* more than the chain bears out (executeSettlement, recoverAndConfirm,       *)
(* confirmByReceipt).                                                        *)
THEOREM RecordsAreTrue ==
  ASSUME ~Alike
  PROVE  Spec => []TruthInv
<1>1. ExecutionInv /\ TruthInv /\ [Next]_vars => TruthInv'
  BY NextTruth
<1> QED BY <1>1, InitTruth, ExecutionIsSafe, PTL DEF Spec

(* With payments that can be told apart a confirmed row has a transaction at  *)
(* the required depth that paid, a failed one a reverted one, whatever the    *)
(* hazards, unless the submission was sent two (confirmByReceipt).           *)
THEOREM FinalRowsTellTheTruth ==
  ASSUME ~Alike
  PROVE  Spec => []FinalRowsAreTrue
<1>1. TruthInv => FinalRowsAreTrue
  BY DEF TruthInv, RowIsTrue, IsOwn, Final, Says, FinalRowsAreTrue
<1> QED BY <1>1, RecordsAreTrue, PTL

(* With payments that can be told apart a task whose payment is said to have  *)
(* failed was not paid, and is not going to be, whatever the hazards, unless   *)
(* the submission was sent two transactions (confirmByReceipt).              *)
THEOREM FailedTasksAreUnpaid ==
  ASSUME ~Alike
  PROVE  Spec => []FailedIsUnpaid
<1>1. TruthInv => FailedIsUnpaid
  <2> SUFFICES ASSUME TruthInv, NEW p \in Payments, SentOnce(p),
                      task[p] = "PAYMENT_FAILED", NEW h \in DOMAIN chain,
                      chain[h].pay = p
               PROVE  chain[h].outcome # "paid"
    BY DEF FailedIsUnpaid
  <2>1. PICK g \in DOMAIN chain : chain[g].pay = p /\ chain[g].outcome = "reverted"
    BY DEF TruthInv, RowIsTrue
  <2> QED BY <2>1 DEF SentOnce
<1> QED BY <1>1, RecordsAreTrue, PTL

(* Payments can be told apart, and a submission is sent one transaction: both  *)
(* are needed, or a row may get a transaction sent for another row.           *)
Separate == ~Alike /\ ~({"lostReply", "deletion"} \subseteq Hazards)

(* A confirmed settlement has the transaction that was sent for it: recovery   *)
(* takes nobody else's, if payments can be told apart and either no reply is  *)
(* lost or no row deleted (recoverAndConfirm).                               *)
THEOREM ConfirmedByItsOwn ==
  ASSUME Separate
  PROVE  Spec => []OwnPayment
<1>1. ExecutionInv /\ TruthInv => OwnPayment
  <2> SUFFICES ASSUME ExecutionInv, TruthInv, NEW p \in Payments,
                      row[p].status = "CONFIRMED"
               PROVE  chain[row[p].hash].row = row[p].id
    BY DEF OwnPayment
  <2>1. row[p].hash \in DOMAIN chain /\ chain[row[p].hash].pay = p
    BY DEF TruthInv, RowIsTrue, IsOwn, Final
  <2>2. chain[row[p].hash].row # 0 /\ row[p].id # 0
    <3>1. chain[row[p].hash] \in Transaction
      BY <2>1 DEF ExecutionInv, TypeOK
    <3>2. row[p].id # 0
      BY DEF ExecutionInv, IdsAreFresh
    <3> QED BY <3>1, <3>2 DEF Transaction
  <2>3. CASE "deletion" \notin Hazards
    <3>1. chain[row[p].hash].row \in UsedIds(p) /\ row[p].id \in UsedIds(p)
      BY <2>1, <2>2 DEF UsedIds
    <3> QED BY <2>3, <3>1 DEF ExecutionInv, OneRowEach
  <2>4. CASE "lostReply" \notin Hazards
    BY <2>1, <2>2, <2>4 DEF ExecutionInv, OneTransaction
  <2> QED BY <2>3, <2>4 DEF Separate
<1> QED BY <1>1, ExecutionIsSafe, RecordsAreTrue, PTL DEF Separate

-----------------------------------------------------------------------------
(* What was paid                                                             *)

(* Whoever moves, a transaction that is buried stays as it is. *)
LEMMA BuriedStays ==
  ASSUME ExecutionInv, [Next]_vars
  PROVE  ChainKept
<1>1. CASE UNCHANGED chain
  BY <1>1 DEF ChainKept
<1>2. CASE Chain
  BY <1>2, ChainMoves
<1>3. ASSUME NEW r \in Requests, Accepted(r)
      PROVE  ChainKept
  <2>1. PICK tx : chain' = Append(chain, tx)
    BY <1>3 DEF Accepted
  <2>2. chain \in Seq(Transaction)
    BY DEF ExecutionInv, TypeOK
  <2>3. \A h \in DOMAIN chain : h \in DOMAIN chain' /\ chain'[h] = chain[h]
    BY <2>1, <2>2
  <2> QED BY <2>3 DEF ChainKept
<1>4. \/ UNCHANGED chain
      \/ Chain
      \/ \E r \in Requests : Accepted(r)
  BY DEF Next, vars, Handle, Gate, Raced, Lock, Execute, Preflight, Claim, Send, SendKnown,
         SendError, Rollback, Persist, Confirm, Scan, Filter, Attach, Receipt, Finalize,
         Unverified, LoseRace, Delete, Fail, Post, DeleteRead
<1> QED BY <1>1, <1>2, <1>3, <1>4

(* Only the last write of a confirmation completes a task. *)
LEMMA Completes ==
  ASSUME ExecutionInv, [Next]_vars, NEW p \in Payments,
         task[p] # "COMPLETED", task'[p] = "COMPLETED"
  PROVE  \E r \in Requests : Finalize(r) /\ req[r].pay = p
<1>1. DOMAIN task = Payments
  BY DEF ExecutionInv, TypeOK
<1>2. PICK r \in Requests : Handle(r) /\ task' # task
  BY DEF Next, vars, records, Fail, Post, DeleteRead, Chain, Reorganise, Bury,
         Include, SetTx
<1>3. Lock(r) \/ Rollback(r) \/ Finalize(r)
  BY <1>2 DEF Handle, Gate, Raced, Execute, Preflight, Claim, Send, SendKnown,
         SendError, Persist, Confirm, Scan, Filter, Attach, Receipt, Unverified,
         LoseRace, Delete, records
<1>4. \E status : task' = [task EXCEPT ![req[r].pay] = status]
  BY <1>3 DEF Lock, Rollback, Finalize, SetTask
<1>5. req[r].pay = p
  BY <1>1, <1>4
<1>6. ~Lock(r) /\ ~Rollback(r)
  BY <1>1, <1>5 DEF Lock, Rollback, SetTask
<1> QED BY <1>3, <1>5, <1>6

Paid(h, p) ==
  chain[h].pay = p /\ chain[h].state = "buried" /\ chain[h].outcome = "paid"

(* With payments that can be told apart, a completed task was paid by a        *)
(* transaction of its own, and its row says so or has been deleted: however   *)
(* sends are refused, replies lost and rows deleted (executeSettlement,       *)
(* confirmByReceipt, DELETE).                                                *)
THEOREM CompletedTasksWerePaid ==
  ASSUME ~Alike
  PROVE  Spec => []CompletedIsPaid
<1> DEFINE WasPaid(p) == task[p] = "COMPLETED" =>
             /\ row[p].status \in {"CONFIRMED", "NONE"}
             /\ \E h \in DOMAIN chain : Paid(h, p)
           AllPaid == \A p \in Payments : WasPaid(p)
<1>1. Init => AllPaid
  BY DEF Init
<1>2. ASSUME ExecutionInv, TruthInv, TruthInv', AllPaid, [Next]_vars
      PROVE  AllPaid'
  <2>1. ASSUME NEW p \in Payments, task[p] = "COMPLETED"
        PROVE  \E h \in DOMAIN chain' : Paid(h, p)'
    <3>1. PICK h \in DOMAIN chain : Paid(h, p)
      BY <1>2, <2>1
    <3>2. h \in DOMAIN chain' /\ Paid(h, p)'
      BY <1>2, <3>1, BuriedStays DEF ChainKept, Paid
    <3> QED BY <3>2
  <2>2. ASSUME NEW p \in Payments, Kept(p) PROVE WasPaid(p)'
    BY <1>2, <2>1, <2>2 DEF Kept
  <2>3. ASSUME NEW p \in Payments, Changes(p), ~Concluded(p) PROVE WasPaid(p)'
    <3>1. task[p] = "COMPLETED" => row[p].status \notin {"PENDING", "BROADCAST"}
      BY <1>2 DEF ExecutionInv, SendersHoldLock, BroadcastHoldsLock
    <3>2. \/ task'[p] # "COMPLETED"
          \/ task[p] = "COMPLETED" /\ row'[p].status \in {row[p].status, "NONE"}
      BY <2>3, <3>1 DEF Changes, Authorised, Claimed, Attached, Reopened, Removed,
                        Written
    <3> QED BY <1>2, <2>1, <3>2
  <2>4. ASSUME NEW p \in Payments, NEW r \in Requests, Finalize(r),
               req[r].pay = p, task'[p] = "COMPLETED"
        PROVE  WasPaid(p)'
    <3>1. req[r].at = "finalize" /\ chain' = chain
      BY <2>4 DEF Finalize, FinalizeGuard
    <3>2. /\ RequestIsTrue(req[r]) /\ RowOf(r) = row[p] /\ row[p] \in Settlement
      BY <1>2, <2>4, <3>1, Current
    <3>3. DOMAIN row = Payments /\ DOMAIN task = Payments
      BY <1>2 DEF ExecutionInv, TypeOK
    <3>4. /\ Outcome(r) = "paid"
          /\ row' = [row EXCEPT ![p] = [row[p] EXCEPT !.status = "CONFIRMED"]]
      BY <2>4, <3>2, <3>3 DEF Finalize, SetRow, SetTask
    <3>5. PICK h \in DOMAIN chain : Paid(h, p)
      BY <2>4, <3>1, <3>2, <3>4 DEF RequestIsTrue, IsOwn, Paid, Outcome
    <3>6. row'[p].status = "CONFIRMED" /\ h \in DOMAIN chain' /\ Paid(h, p)'
      BY <3>1, <3>2, <3>3, <3>4, <3>5 DEF Paid, Settlement
    <3> QED BY <3>6
  <2>5. ASSUME NEW p \in Payments, Concluded(p) PROVE WasPaid(p)'
    <3> SUFFICES ASSUME task'[p] = "COMPLETED" PROVE WasPaid(p)'
      OBVIOUS
    <3>1. task[p] = "SETTLING"
      BY <2>5 DEF Concluded
    <3>2. PICK r \in Requests : Finalize(r) /\ req[r].pay = p
      BY <1>2, <3>1, Completes
    <3> QED BY <2>4, <3>2
  <2>6. ASSUME NEW p \in Payments PROVE Kept(p) \/ Changes(p)
    BY <1>2, RecordStep DEF Kept
  <2> QED BY <2>2, <2>3, <2>5, <2>6
<1>3. AllPaid => CompletedIsPaid
  BY DEF CompletedIsPaid, Paid
<1> HIDE DEF AllPaid
<1> QED BY <1>1, <1>2, <1>3, ExecutionIsSafe, RecordsAreTrue, PTL DEF Spec
=============================================================================
