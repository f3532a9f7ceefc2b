---------------------- MODULE TaskWorkflowOverlapProofs ----------------------
(***************************************************************************)
(* What is left of three promises of the services when requests overlap,    *)
(* for any set of wallets, any number of requests in flight and any         *)
(* revision budget.  A commit does not read again which submission is the   *)
(* current one; what bounds the damage is what its guards do test.          *)
(***************************************************************************)
EXTENDS TaskWorkflowProofs

(* The submission a settlement request carries was approved when it was read, *)
(* and has been superseded since, or rejected together with its task.         *)
SettleOK(q) ==
  q.at \in {"loadSettle", "settle"} =>
    \/ subs[q.sub].status \in {"APPROVED", "SUPERSEDED"}
    \/ task.status = "REJECTED"

OverlapRows == ReviewWasValidated /\ SettledWasApproved /\ RejectionHasItsWork

OverlapInv == OverlapRows /\ \A r \in Requests : SettleOK(req[r])

-----------------------------------------------------------------------------
LEMMA OverlapInit == Init => OverlapInv
BY DEF Init, NoTask, Idle, OverlapInv, OverlapRows, ReviewWasValidated,
       SettledWasApproved, RejectionHasItsWork, SettleOK

(* Nothing that only reads disturbs what the rows say. *)
LEMMA RowsStay ==
  ASSUME OverlapRows, UNCHANGED <<subs, events, settlements>>,
         task'.status = task.status
  PROVE  OverlapRows'
BY DEF OverlapRows, ReviewWasValidated, SettledWasApproved, RejectionHasItsWork,
       IsCurrent, Recorded

(* A request that advances, and changes no row *)
LEMMA OverlapRequest ==
  ASSUME WorkflowInv, OverlapInv, NEW r \in Requests, UNCHANGED rows,
         \A x \in Requests \ {r} : req'[x] = req[x], SettleOK(req'[r])
  PROVE  OverlapInv'
<1>1. OverlapRows'
  BY RowsStay DEF OverlapInv, rows
<1>2. ASSUME NEW x \in Requests PROVE SettleOK(req[x])'
  <2>1. SettleOK(req'[x])
    BY DEF OverlapInv
  <2> QED BY <2>1 DEF SettleOK, rows
<1> QED BY <1>1, <1>2 DEF OverlapInv

(* Only SettleRead brings a request before its settlement, with a submission  *)
(* that is approved, and only SettleLoad leads it on.                         *)
LEMMA OverlapRead ==
  ASSUME WorkflowInv, OverlapInv, NEW r \in Requests,
         Accept(r) \/ ReadSteps(r) \/ SubmitConflict(r) \/ GiveUp(r)
  PROVE  OverlapInv'
<1>1. UNCHANGED rows
  BY ReadsChangeNothing DEF GiveUp
<1>2. req \in [Requests -> Request] /\ SettleOK(req[r])
  BY DEF WorkflowInv, TypeOK, OverlapInv
<1> DEFINE Changes == \A x \in Requests \ {r} : req'[x] = req[x]
<1>3. ASSUME NEW q, Become(r, q) PROVE Changes /\ req'[r] = q
  BY <1>2, <1>3 DEF Become
<1>4. ASSUME Changes, SettleOK(req'[r]) PROVE OverlapInv'
  BY <1>1, <1>4, OverlapRequest
<1>5. ASSUME NEW q, Become(r, q), q.at \notin {"loadSettle", "settle"}
      PROVE  OverlapInv'
  BY <1>3, <1>4, <1>5 DEF SettleOK
<1> DEFINE Early == {"expireOpen", "expireWork", "claim", "submit", "loadValidate",
                     "revise", "loadReview", "loadConfirm", "validate", "evaluate",
                     "reject", "approve", "readRevise", "confirm"}
<1>6. ASSUME NEW label \in Early, Arrive(r, label) PROVE OverlapInv'
  <2>1. [Idle EXCEPT !.at = label].at = label
    BY DEF Idle
  <2> QED BY <1>5, <1>6, <2>1 DEF Arrive
<1>7. ASSUME NEW label \in Early, NEW a, ArriveFrom(r, label, a) PROVE OverlapInv'
  <2>1. [Idle EXCEPT !.at = label, !.actor = a].at = label
    BY DEF Idle
  <2> QED BY <1>5, <1>7, <2>1 DEF ArriveFrom
<1>8. ASSUME NEW label \in Early, Advance(r, label) PROVE OverlapInv'
  <2>1. [req[r] EXCEPT !.at = label].at = label
    BY <1>2 DEF Request
  <2> QED BY <1>5, <1>8, <2>1 DEF Advance
<1>9. ASSUME NEW label \in Early, NEW s, AdvanceWith(r, label, s) PROVE OverlapInv'
  <2>1. [req[r] EXCEPT !.at = label, !.sub = s].at = label
    BY <1>2 DEF Request
  <2> QED BY <1>5, <1>9, <2>1 DEF AdvanceWith
<1>10. CASE Reply(r)
  <2>1. Idle.at \notin {"loadSettle", "settle"}
    BY DEF Idle
  <2> QED BY <1>5, <1>10, <2>1 DEF Reply
<1>11. ASSUME NEW a \in Actors,
              \/ ClaimRead(r, a) \/ SubmitRead(r, a) \/ ValidateRead(r, a)
              \/ RevisionRead(r, a) \/ ConfirmRead(r, a)
       PROVE  OverlapInv'
  BY <1>6, <1>7, <1>11 DEF ClaimRead, SubmitRead, ValidateRead, RevisionRead, ConfirmRead
<1>12. ASSUME NEW a \in Actors, ReviewRead(r, a) PROVE OverlapInv'
  <2> DEFINE q == [Idle EXCEPT !.at = "loadReview",
                               !.budget = task.revisionCount < MaxRevisions]
  <2>1. q.at = "loadReview"
    BY DEF Idle
  <2>2. Become(r, q)
    BY <1>12 DEF ReviewRead
  <2> QED BY <1>5, <2>1, <2>2
<1>13. ASSUME NEW a \in Actors, NEW s \in DOMAIN subs, SettleRead(r, a, s)
       PROVE  OverlapInv'
  <2> DEFINE q == [req[r] EXCEPT !.at = "loadSettle", !.sub = s]
  <2>1. q.sub = s /\ Become(r, q)
    BY <1>2, <1>13 DEF SettleRead, AdvanceWith, Request
  <2> QED BY <1>3, <1>4, <1>13, <2>1 DEF SettleRead, SettleOK
<1>14. ASSUME NEW recommendation \in Recommendations, NEW satisfied \in BOOLEAN,
              EvaluationReturns(r, recommendation, satisfied)
       PROVE  OverlapInv'
  <2>1. ResolveDecision(recommendation, satisfied, req[r].pending, req[r].budget) \in Early
    BY DEF ResolveDecision
  <2> QED BY <1>8, <1>14, <2>1 DEF EvaluationReturns
<1>15. CASE ReviewLoad(r)
  <2>1. ASSUME NEW s,
               Become(r, [req[r] EXCEPT !.at = "evaluate", !.sub = s,
                                        !.pending = (subs[s].status = "PENDING")])
        PROVE  OverlapInv'
    <3>1. [req[r] EXCEPT !.at = "evaluate", !.sub = s,
                         !.pending = (subs[s].status = "PENDING")].at = "evaluate"
      BY <1>2 DEF Request
    <3> QED BY <1>5, <2>1, <3>1
  <2> QED BY <1>10, <1>15, <2>1 DEF ReviewLoad
<1>16. CASE SettleLoad(r) /\ ~Reply(r)
  <2> DEFINE q == [req[r] EXCEPT !.at = "settle"]
  <2>1. req[r].at = "loadSettle" /\ q.sub = req[r].sub /\ Become(r, q)
    BY <1>2, <1>16 DEF SettleLoad, Advance, Request
  <2> QED BY <1>2, <1>3, <1>4, <2>1 DEF SettleOK
<1>17. CASE ValidateLoad(r) \/ ConfirmLoad(r)
  BY <1>9, <1>10, <1>17 DEF ValidateLoad, ConfirmLoad
<1>18. CASE RevisionReadByReview(r) \/ SubmitConflict(r) \/ EvaluationFails(r)
  BY <1>8, <1>10, <1>18 DEF RevisionReadByReview, SubmitConflict, EvaluationFails, GiveUp
<1>19. CASE MeetExpired(r)
  BY <1>6, <1>19 DEF MeetExpired
<1> QED
  BY <1>10, <1>11, <1>12, <1>13, <1>14, <1>15, <1>16, <1>17, <1>18, <1>19
  DEF Accept, ReadSteps, GiveUp

-----------------------------------------------------------------------------
(* What a request before its settlement relies on is kept by a transaction    *)
(* that takes an approval away only by superseding it or with the task.       *)
LEMMA SettleKept ==
  ASSUME WorkflowInv, OverlapInv, NEW r \in Requests, Reply(r),
         task.status = "REJECTED" => task'.status = "REJECTED",
         \A s \in DOMAIN subs : subs[s].status \in {"APPROVED", "SUPERSEDED"} =>
           \/ subs'[s].status \in {"APPROVED", "SUPERSEDED"}
           \/ task'.status = "REJECTED"
  PROVE  \A x \in Requests : SettleOK(req[x])'
<1> SUFFICES ASSUME NEW x \in Requests PROVE SettleOK(req[x])'
  OBVIOUS
<1>1. req'[x] = req[x] \/ req'[x].at = "idle"
  BY DEF WorkflowInv, TypeOK, Reply, Become, Idle
<1>2. SettleOK(req[x]) /\ RequestOK(req[x])
  BY DEF OverlapInv, WorkflowInv
<1> QED BY <1>1, <1>2 DEF SettleOK, RequestOK

LEMMA OverlapCommit ==
  ASSUME WorkflowInv, OverlapInv, NEW r \in Requests, Commits(r)
  PROVE  OverlapInv'
<1>1. OverlapRows /\ SettleOK(req[r]) /\ RequestOK(req[r]) /\ task \in Task
  BY DEF OverlapInv, WorkflowInv, TypeOK
<1>2. Reply(r)
  BY DEF Commits, ExpireTask, ClaimTask, SubmitWork, ValidateSubmission,
         RequestRevision, RecordApproval, RejectTask, ConfirmApproval,
         RequestSettlement
<1>3. /\ subs \in Seq(Submission) /\ DOMAIN subs = 1..Len(subs) /\ Len(subs) \in Nat
      /\ \A s \in DOMAIN subs : subs[s] \in Submission
  BY DEF WorkflowInv, TypeOK
<1>4. task.status # "SETTLING" => settlements = {}
  BY DEF WorkflowInv, OneSettlement
<1>5. OnlyNewestIsLive
  BY DEF WorkflowInv
<1> DEFINE n == req[r].sub
<1> USE DEF OverlapRows
<1>6. CASE ExpireTask(r) \/ ClaimTask(r)
  <2>1. PICK status \in {"EXPIRED", "IN_PROGRESS"} : task'.status = status
    BY <1>1, <1>6 DEF ExpireTask, ClaimTask, Task
  <2>2. /\ UNCHANGED <<subs, events, settlements>> /\ settlements = {}
        /\ task.status # "REJECTED"
    BY <1>4, <1>6 DEF ExpireTask, ClaimTask, ExpireGuard, ClaimGuard, Transition,
                      TransitionVia
  <2>3. OverlapRows'
    BY <1>1, <2>1, <2>2 DEF ReviewWasValidated, SettledWasApproved, RejectionHasItsWork
  <2> QED BY <1>2, <2>2, <2>3, SettleKept DEF OverlapInv
<1>7. ASSUME NEW valid \in BOOLEAN, SubmitWork(r, valid)
      PROVE  OverlapInv'
  <2>1. /\ task.status = "IN_PROGRESS" /\ task'.status = "SUBMITTED" /\ settlements' = {}
        /\ subs' = Append(subs, [submitter |-> req[r].actor, status |-> "PENDING",
                                 valid |-> valid])
    BY <1>1, <1>4, <1>7 DEF SubmitWork, SubmitGuard, Transition, Task
  <2>2. /\ DOMAIN subs' = 1..(Len(subs) + 1) /\ subs'[Len(subs) + 1].status = "PENDING"
        /\ \A s \in DOMAIN subs : subs'[s] = subs[s]
    BY <1>3, <2>1
  <2>3. OverlapRows'
    BY <1>1, <1>3, <2>1, <2>2 DEF ReviewWasValidated, SettledWasApproved,
                                  RejectionHasItsWork
  <2> QED BY <1>2, <2>1, <2>2, <2>3, SettleKept DEF OverlapInv
<1>8. CASE ValidateSubmission(r)
  <2>1. /\ task.status = "SUBMITTED" /\ task'.status = "UNDER_REVIEW"
        /\ settlements' = {} /\ n \in DOMAIN subs
        /\ events' = events \cup {[type |-> "VALIDATION_STARTED", sub |-> n]}
        /\ subs[n].valid \/ subs[n].status = "PENDING"
    BY <1>1, <1>4, <1>8 DEF ValidateSubmission, ValidateGuard, TransitionVia, Task,
                            Record, RequestOK
  <2>2. CASE subs[n].valid
    <3>1. subs' = subs
      BY <1>8, <2>2 DEF ValidateSubmission
    <3>2. OverlapRows'
      BY <1>1, <2>1, <2>2, <3>1 DEF ReviewWasValidated, SettledWasApproved,
                                    RejectionHasItsWork, Recorded
    <3> QED BY <1>2, <2>1, <3>1, <3>2, SettleKept DEF OverlapInv
  <2>3. CASE ~subs[n].valid
    <3>1. n = Len(subs) /\ subs' = [subs EXCEPT ![n].status = "REJECTED"]
      BY <1>5, <1>8, <2>1, <2>3 DEF ValidateSubmission, OnlyNewestIsLive
    <3>2. /\ Len(subs') = Len(subs) /\ DOMAIN subs' = DOMAIN subs
          /\ \A s \in DOMAIN subs :
               /\ subs'[s].valid = subs[s].valid
               /\ subs'[s].status = IF s = n THEN "REJECTED" ELSE subs[s].status
      BY <1>3, <2>1, <3>1, StatusWrite DEF SubmissionStatuses
    <3>3. OverlapRows'
      BY <1>1, <2>1, <2>3, <3>1, <3>2 DEF ReviewWasValidated, SettledWasApproved,
                                          RejectionHasItsWork, Recorded
    <3> QED BY <1>2, <2>1, <2>3, <3>2, <3>3, SettleKept DEF OverlapInv
  <2> QED BY <2>2, <2>3
<1>9. CASE RequestRevision(r)
  <2>1. /\ task.status = "UNDER_REVIEW" /\ task'.status = "IN_PROGRESS"
        /\ settlements' = {} /\ subs' = [s \in DOMAIN subs |-> Superseded(subs[s])]
    BY <1>1, <1>4, <1>9 DEF RequestRevision, RevisionGuard, TransitionVia, Task
  <2>2. /\ DOMAIN subs' = DOMAIN subs
        /\ \A s \in DOMAIN subs :
             /\ subs'[s].valid = subs[s].valid
             /\ subs'[s].status \in {subs[s].status, "SUPERSEDED"}
    BY <1>3, <2>1 DEF Superseded, Submission
  <2>3. OverlapRows'
    BY <1>1, <2>1, <2>2 DEF ReviewWasValidated, SettledWasApproved, RejectionHasItsWork
  <2> QED BY <1>2, <2>1, <2>2, <2>3, SettleKept DEF OverlapInv
<1>10. CASE RecordApproval(r)
  <2>1. UNCHANGED <<task, subs, settlements>> /\ events \subseteq events'
    BY <1>10 DEF RecordApproval, Record
  <2>2. OverlapRows'
    BY <1>1, <2>1 DEF ReviewWasValidated, SettledWasApproved, RejectionHasItsWork,
                      IsCurrent, Recorded
  <2> QED BY <1>2, <2>1, <2>2, SettleKept DEF OverlapInv
<1>11. CASE RejectTask(r)
  <2>1. /\ task.status = "UNDER_REVIEW" /\ task'.status = "REJECTED"
        /\ settlements' = {} /\ n \in DOMAIN subs /\ subs[n].status # "SUPERSEDED"
        /\ subs' = [subs EXCEPT ![n].status = "REJECTED"]
    BY <1>1, <1>4, <1>11 DEF RejectTask, RejectGuard, Transition, Task, RequestOK
  <2>2. /\ Len(subs') = Len(subs) /\ DOMAIN subs' = DOMAIN subs
        /\ \A s \in DOMAIN subs :
             /\ subs'[s].valid = subs[s].valid
             /\ subs'[s].status = IF s = n THEN "REJECTED" ELSE subs[s].status
    BY <1>3, <2>1, StatusWrite DEF SubmissionStatuses
  <2>3. n = Len(subs) \/ ~subs[n].valid
    BY <1>1, <1>3, <1>5, <2>1
    DEF OnlyNewestIsLive, RejectionHasItsWork, Submission, SubmissionStatuses
  <2>4. OverlapRows'
    BY <2>1, <2>2, <2>3 DEF ReviewWasValidated, SettledWasApproved, RejectionHasItsWork
  <2> QED BY <1>2, <2>1, <2>4, SettleKept DEF OverlapInv
<1>12. CASE ConfirmApproval(r)
  <2>1. /\ UNCHANGED <<task, settlements>> /\ events \subseteq events'
        /\ n \in DOMAIN subs /\ subs[n].status = "PENDING"
        /\ subs' = [subs EXCEPT ![n].status = "APPROVED"]
    BY <1>1, <1>12 DEF ConfirmApproval, ConfirmGuard, Record, RequestOK
  <2>2. /\ Len(subs') = Len(subs) /\ DOMAIN subs' = DOMAIN subs
        /\ \A s \in DOMAIN subs :
             /\ subs'[s].valid = subs[s].valid
             /\ subs'[s].status = IF s = n THEN "APPROVED" ELSE subs[s].status
    BY <1>3, <2>1, StatusWrite DEF SubmissionStatuses
  <2>3. SettledWasApproved'
    <3>1. \A s : IsCurrent(s) => IsCurrent(s)'
      BY <2>1, <2>2 DEF IsCurrent
    <3>2. settlements \subseteq DOMAIN subs
      BY <1>1 DEF SettledWasApproved, IsCurrent
    <3> QED BY <1>1, <2>1, <2>2, <3>1, <3>2 DEF SettledWasApproved
  <2>4. (ReviewWasValidated /\ RejectionHasItsWork)'
    BY <1>1, <2>1, <2>2 DEF ReviewWasValidated, RejectionHasItsWork, Recorded
  <2> QED BY <1>2, <2>1, <2>2, <2>3, <2>4, SettleKept DEF OverlapInv
<1>13. CASE RequestSettlement(r)
  <2>1. /\ task.status = "UNDER_REVIEW" /\ task'.status = "SETTLING"
        /\ settlements' = {n} /\ subs' = subs /\ req[r].at = "settle"
        /\ n \in DOMAIN subs /\ subs[n].status \in {"APPROVED", "SUPERSEDED"}
    BY <1>1, <1>4, <1>13 DEF RequestSettlement, SettleGuard, Transition, Task,
                             SettleOK, RequestOK
  <2>2. subs[n].status = "APPROVED" => IsCurrent(n)
    BY <1>3, <1>5, <2>1 DEF OnlyNewestIsLive, IsCurrent
  <2>3. OverlapRows'
    BY <1>1, <2>1, <2>2 DEF ReviewWasValidated, SettledWasApproved,
                            RejectionHasItsWork, IsCurrent
  <2> QED BY <1>2, <2>1, <2>3, SettleKept DEF OverlapInv
<1> QED
  BY <1>6, <1>7, <1>8, <1>9, <1>10, <1>11, <1>12, <1>13 DEF Commits

LEMMA OverlapStep == WorkflowInv /\ OverlapInv /\ [Next]_vars => OverlapInv'
<1> SUFFICES ASSUME WorkflowInv, OverlapInv, [Next]_vars PROVE OverlapInv'
  OBVIOUS
<1> DEFINE Same == UNCHANGED <<subs, events, settlements, req>>
<1>1. CASE UNCHANGED vars
  BY <1>1 DEF vars, OverlapInv, OverlapRows, ReviewWasValidated, SettledWasApproved,
              RejectionHasItsWork, IsCurrent, Recorded, SettleOK
<1>2. ASSUME NEW a \in Actors, NEW designated \in Actors \cup {NoActor},
             NEW deadline \in {"none", "future", "past"}, NEW payable \in BOOLEAN,
             CreateTask(a, designated, deadline, payable)
      PROVE  OverlapInv'
  <2>1. /\ task.status = "ABSENT" /\ task'.status = "OPEN" /\ settlements = {}
        /\ subs = <<>> /\ Same
    BY <1>2 DEF CreateTask, WorkflowInv, OneSettlement, AwaitingWork
  <2> QED BY <2>1 DEF OverlapInv, OverlapRows, ReviewWasValidated, SettledWasApproved,
                      RejectionHasItsWork, SettleOK
<1>3. CASE DeadlinePasses
  <2>1. task'.status = task.status /\ Same
    BY <1>3 DEF DeadlinePasses, WorkflowInv, TypeOK, Task
  <2>2. OverlapRows'
    BY <2>1, RowsStay DEF OverlapInv
  <2> QED BY <2>1, <2>2 DEF OverlapInv, SettleOK
<1>4. ASSUME NEW r \in Requests, Accept(r) \/ Handle(r) \/ Fail(r)
      PROVE  OverlapInv'
  BY <1>4, OverlapRead, OverlapCommit DEF Handle, LoseRace, Fail
<1> QED BY <1>1, <1>2, <1>3, <1>4 DEF Next

-----------------------------------------------------------------------------
(* The inductive invariant of rows and of the requests about to settle. *)
THEOREM OverlapIsSafe == Spec => []OverlapInv
BY OverlapInit, OverlapStep, WorkflowIsSafe, PTL DEF Spec

(* A task under review had its newest submission validated, or an earlier one *)
(* that is valid, however validations overlap revisions (validateSubmission). *)
THEOREM ReviewsFollowAValidation == Spec => []ReviewWasValidated
<1>1. OverlapInv => ReviewWasValidated
  BY DEF OverlapInv, OverlapRows
<1> QED BY <1>1, OverlapIsSafe, PTL

(* What is settled is the current, approved submission, or one approved until *)
(* a revision superseded it, however settlements overlap revisions            *)
(* (requestSettlement).                                                       *)
THEOREM SettlementsFollowAnApproval == Spec => []SettledWasApproved
<1>1. OverlapInv => SettledWasApproved
  BY DEF OverlapInv, OverlapRows
<1> QED BY <1>1, OverlapIsSafe, PTL

(* A rejected task is rejected for its newest submission or for one that the  *)
(* validator had refused, however late a verdict comes (reviewSubmission).    *)
THEOREM RejectionsHaveTheirWork == Spec => []RejectionHasItsWork
<1>1. OverlapInv => RejectionHasItsWork
  BY DEF OverlapInv, OverlapRows
<1> QED BY <1>1, OverlapIsSafe, PTL
=============================================================================
