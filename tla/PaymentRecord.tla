---------------------------- MODULE PaymentRecord ----------------------------
(***************************************************************************)
(* What the records of a payment promise, without requests, nodes or a       *)
(* chain: each task and its Settlement row change by six atomic operations.  *)
(***************************************************************************)
EXTENDS Naturals

CONSTANTS Payments, Hazards

VARIABLES
  task,        \* status of the task of each payment
  status,      \* status of its Settlement row, "NONE" while there is none
  hash         \* the transaction that the row names, 0 for none

vars == <<task, status, hash>>

Init ==
  /\ task = [p \in Payments |-> "UNDER_REVIEW"]
  /\ status = [p \in Payments |-> "NONE"]
  /\ hash = [p \in Payments |-> 0]

(* A payment is authorised while its task is under review and has no row. *)
Authorise(p) ==
  /\ task[p] = "UNDER_REVIEW" /\ status[p] = "NONE"
  /\ task' = [task EXCEPT ![p] = "SETTLING"]
  /\ status' = [status EXCEPT ![p] = "PENDING"]
  /\ UNCHANGED hash

(* It is claimed for sending once. *)
Broadcast(p) ==
  /\ status[p] = "PENDING"
  /\ status' = [status EXCEPT ![p] = "BROADCAST"]
  /\ UNCHANGED <<task, hash>>

(* It is given a transaction once, and one that no other payment has. *)
Attach(p) ==
  /\ status[p] = "BROADCAST" /\ hash[p] = 0
  /\ hash'[p] \notin {hash[q] : q \in Payments}
  /\ hash' = [hash EXCEPT ![p] = hash'[p]]
  /\ UNCHANGED <<task, status>>

(* Row and task become final together. *)
Conclude(p) ==
  /\ task[p] = "SETTLING" /\ status[p] = "BROADCAST"
  /\ \/ /\ task' = [task EXCEPT ![p] = "COMPLETED"]
        /\ status' = [status EXCEPT ![p] = "CONFIRMED"]
     \/ /\ task' = [task EXCEPT ![p] = "PAYMENT_FAILED"]
        /\ status' = [status EXCEPT ![p] = "FAILED"]
  /\ UNCHANGED hash

(* The send threw, and the task goes back under review. *)
Reopen(p) ==
  /\ task' = [task EXCEPT ![p] = "UNDER_REVIEW"]
  /\ UNCHANGED <<status, hash>>

(* The worker deletes the row. *)
Remove(p) ==
  /\ "deletion" \in Hazards
  /\ status' = [status EXCEPT ![p] = "NONE"]
  /\ hash' = [hash EXCEPT ![p] = 0]
  /\ UNCHANGED task

Next ==
  \E p \in Payments :
    \/ Authorise(p) \/ Broadcast(p) \/ Attach(p) \/ Conclude(p)
    \/ Reopen(p) \/ Remove(p)

Spec == Init /\ [][Next]_vars
=============================================================================
