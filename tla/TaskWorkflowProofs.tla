------------------------- MODULE TaskWorkflowProofs -------------------------
(***************************************************************************)
(* Proofs about TaskWorkflow, for any set of wallets, any number of         *)
(* requests in flight and any revision budget.                              *)
(***************************************************************************)
EXTENDS TaskWorkflow, SequenceTheorems, TLAPS

(* A step that changes one request, to one that relies on nothing more than   *)
(* it may, and no row, preserves the invariant.                               *)
LEMMA RequestStep ==
  ASSUME WorkflowInv, NEW r \in Requests, NEW q \in Request,
         Become(r, q), UNCHANGED rows, RequestOK(q)
  PROVE  WorkflowInv'
<1> USE DEF WorkflowInv
<1>1. TypeOK'
  BY DEF TypeOK, rows, Become
<1>2. \A x \in Requests : RequestOK(req[x])'
  <2> SUFFICES ASSUME NEW x \in Requests PROVE RequestOK(req[x])'
    OBVIOUS
  <2>1. RequestOK(req'[x])
    BY DEF TypeOK, Become
  <2> QED BY <2>1 DEF RequestOK, rows, DeadlineOpen, Recorded
<1>3. (AwaitingWork /\ RoundsMatchSubmissions /\ OnlyNewestIsLive)'
  BY DEF AwaitingWork, RoundsMatchSubmissions, OnlyNewestIsLive, rows
<1>4. (PaymentNeedsConfirmation /\ OneSettlement /\ WorkIsByAssignee)'
  BY DEF PaymentNeedsConfirmation, OneSettlement, WorkIsByAssignee, rows,
         Recorded
<1> QED BY <1>1, <1>2, <1>3, <1>4

(* A request that is answered relies on nothing. *)
LEMMA IdleOK == Idle \in Request /\ RequestOK(Idle)
BY NoActorAssumption DEF Idle, Request, Labels, RequestOK

LEMMA GiveUpStep ==
  ASSUME WorkflowInv, NEW r \in Requests, GiveUp(r)
  PROVE  WorkflowInv'
BY RequestStep, IdleOK DEF GiveUp, Reply

-----------------------------------------------------------------------------
(* The steps that only read *)

LEMMA MeetExpiredStep ==
  ASSUME WorkflowInv, NEW r \in Requests, MeetExpired(r)
  PROVE  WorkflowInv'
<1> DEFINE Q(label) == [Idle EXCEPT !.at = label]
<1>1. PICK label \in {"expireOpen", "expireWork"} : Become(r, Q(label))
  BY DEF MeetExpired, Arrive
<1>2. Q(label) \in Request /\ RequestOK(Q(label))
  BY IdleOK DEF MeetExpired, Idle, Request, Labels, CommitLabels, RequestOK
<1> QED BY <1>1, <1>2, RequestStep DEF MeetExpired

LEMMA AcceptStep ==
  ASSUME WorkflowInv, NEW r \in Requests, Accept(r)
  PROVE  WorkflowInv'
<1> USE DEF Request, Labels, CommitLabels, ReadLabels
<1>1. ASSUME NEW a \in Actors, ClaimRead(r, a)
      PROVE  WorkflowInv'
  <2> DEFINE q == [Idle EXCEPT !.at = "claim", !.actor = a]
  <2>1. q \in Request /\ RequestOK(q)
    BY <1>1, IdleOK DEF ClaimRead, MayClaim, Idle, RequestOK
  <2> QED BY <1>1, <2>1, RequestStep DEF ClaimRead, ArriveFrom
<1>2. ASSUME NEW a \in Actors, SubmitRead(r, a)
      PROVE  WorkflowInv'
  <2> DEFINE q == [Idle EXCEPT !.at = "submit", !.actor = a]
  <2>1. q \in Request /\ RequestOK(q)
    BY <1>2, IdleOK DEF SubmitRead, Idle, RequestOK
  <2> QED BY <1>2, <2>1, RequestStep DEF SubmitRead, ArriveFrom
<1>3. ASSUME NEW a \in Actors,
             \/ ValidateRead(r, a) \/ RevisionRead(r, a) \/ ConfirmRead(r, a)
      PROVE  WorkflowInv'
  <2> DEFINE Q(label) == [Idle EXCEPT !.at = label]
  <2>1. PICK label \in {"loadValidate", "revise", "loadConfirm"} :
          task.status # "ABSENT" /\ UNCHANGED rows /\ Become(r, Q(label))
    BY <1>3 DEF ValidateRead, RevisionRead, ConfirmRead, Arrive
  <2>2. Q(label) \in Request /\ RequestOK(Q(label))
    BY <2>1, IdleOK DEF Idle, RequestOK
  <2> QED BY <2>1, <2>2, RequestStep
<1>4. ASSUME NEW a \in Actors, ReviewRead(r, a)
      PROVE  WorkflowInv'
  <2> DEFINE Q(budget) == [Idle EXCEPT !.at = "loadReview", !.budget = budget]
  <2>1. (task.revisionCount < MaxRevisions) \in BOOLEAN
    BY MaxRevisionsAssumption DEF WorkflowInv, TypeOK, Task
  <2>2. PICK budget \in BOOLEAN : Become(r, Q(budget))
    BY <1>4, <2>1 DEF ReviewRead
  <2>3. Q(budget) \in Request /\ RequestOK(Q(budget))
    BY <1>4, IdleOK DEF ReviewRead, Idle, RequestOK
  <2> QED BY <1>4, <2>2, <2>3, RequestStep DEF ReviewRead
<1>5. ASSUME NEW a \in Actors, NEW s \in DOMAIN subs, SettleRead(r, a, s)
      PROVE  WorkflowInv'
  <2> DEFINE q == [req[r] EXCEPT !.at = "loadSettle", !.sub = s]
  <2>1. s \in Nat
    BY DEF WorkflowInv, TypeOK
  <2>2. /\ Recorded("EVALUATION_COMPLETED", s)
        /\ Recorded("APPROVAL_CONFIRMED", s)
    BY <1>5 DEF SettleRead, WorkflowInv, PaymentNeedsConfirmation
  <2>3. q \in Request /\ RequestOK(q)
    BY <1>5, <2>1, <2>2, IdleOK DEF SettleRead, Idle, RequestOK
  <2> QED BY <1>5, <2>3, RequestStep DEF SettleRead, AdvanceWith
<1>6. ASSUME NEW recommendation \in Recommendations, NEW satisfied \in BOOLEAN,
             EvaluationReturns(r, recommendation, satisfied)
      PROVE  WorkflowInv'
  <2> DEFINE label == ResolveDecision(recommendation, satisfied,
                                      req[r].pending, req[r].budget)
             q == [req[r] EXCEPT !.at = label]
  <2>1. label \in {"reject", "approve", "readRevise"}
    BY DEF ResolveDecision
  <2>2. req[r] \in Request /\ RequestOK(req[r]) /\ req[r].at = "evaluate"
    BY <1>6 DEF EvaluationReturns, WorkflowInv, TypeOK
  <2> HIDE DEF label
  <2>3. q \in Request /\ RequestOK(q)
    BY <2>1, <2>2 DEF RequestOK
  <2> QED BY <1>6, <2>3, RequestStep DEF EvaluationReturns, Advance, label
<1> QED
  BY <1>1, <1>2, <1>3, <1>4, <1>5, <1>6, MeetExpiredStep DEF Accept

LEMMA ReadStep ==
  ASSUME WorkflowInv, NEW r \in Requests,
         ReadSteps(r) \/ SubmitConflict(r)
  PROVE  WorkflowInv'
<1> USE DEF Request, Labels, CommitLabels, ReadLabels
<1>1. req[r] \in Request /\ RequestOK(req[r])
  BY DEF WorkflowInv, TypeOK
<1>2. UNCHANGED rows
  BY DEF ReadSteps, ValidateLoad, ReviewLoad, EvaluationFails, GiveUp,
         RevisionReadByReview, ConfirmLoad, SettleLoad, SubmitConflict
<1>3. CASE Reply(r)
  BY <1>2, <1>3, GiveUpStep DEF GiveUp
<1>4. ASSUME NEW s \in DOMAIN subs, NEW label \in {"validate", "evaluate"},
             NEW pending \in BOOLEAN, req[r].at # "idle",
             Become(r, [req[r] EXCEPT !.at = label, !.sub = s,
                                      !.pending = pending])
      PROVE  WorkflowInv'
  <2> DEFINE q == [req[r] EXCEPT !.at = label, !.sub = s, !.pending = pending]
  <2>1. s \in Nat
    BY DEF WorkflowInv, TypeOK
  <2>2. q \in Request /\ RequestOK(q)
    BY <1>1, <1>4, <2>1 DEF RequestOK
  <2> QED BY <1>2, <1>4, <2>2, RequestStep
<1>5. CASE ValidateLoad(r) /\ ~Reply(r)
  <2>1. PICK s \in DOMAIN subs : AdvanceWith(r, "validate", s)
    BY <1>5 DEF ValidateLoad
  <2> DEFINE q == [req[r] EXCEPT !.at = "validate", !.sub = s]
  <2>2. s \in Nat
    BY DEF WorkflowInv, TypeOK
  <2>3. q \in Request /\ RequestOK(q)
    BY <1>1, <1>5, <2>2 DEF ValidateLoad, RequestOK
  <2> QED BY <1>2, <2>1, <2>3, RequestStep DEF AdvanceWith
<1>6. CASE ReviewLoad(r) /\ ~Reply(r)
  <2>1. PICK s \in DOMAIN subs :
          Become(r, [req[r] EXCEPT !.at = "evaluate", !.sub = s,
                                   !.pending = (subs[s].status = "PENDING")])
    BY <1>6 DEF ReviewLoad
  <2>2. req[r].at # "idle"
    BY <1>6 DEF ReviewLoad
  <2> QED BY <1>4, <2>1, <2>2
<1>7. CASE RevisionReadByReview(r) /\ ~Reply(r)
  <2> DEFINE q == [req[r] EXCEPT !.at = "revise"]
  <2>1. q \in Request /\ RequestOK(q)
    BY <1>1, <1>7 DEF RevisionReadByReview, RequestOK
  <2> QED BY <1>2, <1>7, <2>1, RequestStep DEF RevisionReadByReview, Advance
<1>8. CASE ConfirmLoad(r) /\ ~Reply(r)
  <2>1. PICK s \in DOMAIN subs : Confirmable(s) /\ AdvanceWith(r, "confirm", s)
    BY <1>8 DEF ConfirmLoad
  <2> DEFINE q == [req[r] EXCEPT !.at = "confirm", !.sub = s]
  <2>2. s \in Nat /\ Recorded("EVALUATION_COMPLETED", s)
    BY <2>1 DEF Confirmable, WorkflowInv, TypeOK
  <2>3. q \in Request /\ RequestOK(q)
    BY <1>1, <1>8, <2>2 DEF ConfirmLoad, RequestOK
  <2> QED BY <1>2, <2>1, <2>3, RequestStep DEF AdvanceWith
<1>9. CASE SettleLoad(r) /\ ~Reply(r)
  <2> DEFINE q == [req[r] EXCEPT !.at = "settle"]
  <2>1. q \in Request /\ RequestOK(q)
    BY <1>1, <1>9 DEF SettleLoad, RequestOK
  <2> QED BY <1>2, <1>9, <2>1, RequestStep DEF SettleLoad, Advance
<1>10. CASE SubmitConflict(r) /\ ~Reply(r)
  <2> DEFINE q == [req[r] EXCEPT !.at = "expireWork"]
  <2>1. q \in Request /\ RequestOK(q)
    BY <1>1, <1>10 DEF SubmitConflict, RequestOK
  <2> QED BY <1>2, <1>10, <2>1, RequestStep DEF SubmitConflict, Advance
<1> QED
  BY <1>3, <1>5, <1>6, <1>7, <1>8, <1>9, <1>10
  DEF ReadSteps, EvaluationFails, GiveUp

-----------------------------------------------------------------------------
(* The transactions that write only the Task row *)

LEMMA CreateTaskStep ==
  ASSUME WorkflowInv,
         NEW a \in Actors, NEW designated \in Actors \cup {NoActor},
         NEW deadline \in {"none", "future", "past"}, NEW payable \in BOOLEAN,
         CreateTask(a, designated, deadline, payable)
  PROVE  WorkflowInv'
<1> USE DEF WorkflowInv, CreateTask
<1>1. task \in Task /\ subs = <<>> /\ settlements = {}
  BY DEF TypeOK, AwaitingWork, OneSettlement
<1>2. TypeOK'
  BY MaxRevisionsAssumption DEF TypeOK, Task, TaskStatuses
<1>3. \A x \in Requests : RequestOK(req[x])'
  BY <1>1 DEF RequestOK, Recorded, DeadlineOpen
<1>4. (AwaitingWork /\ RoundsMatchSubmissions /\ OnlyNewestIsLive)'
  BY <1>1 DEF AwaitingWork, RoundsMatchSubmissions, OnlyNewestIsLive
<1>5. (PaymentNeedsConfirmation /\ OneSettlement /\ WorkIsByAssignee)'
  BY <1>1 DEF PaymentNeedsConfirmation, OneSettlement, WorkIsByAssignee
<1> QED BY <1>2, <1>3, <1>4, <1>5

LEMMA DeadlinePassesStep ==
  ASSUME WorkflowInv, DeadlinePasses
  PROVE  WorkflowInv'
<1> USE DEF WorkflowInv, DeadlinePasses
<1>1. TypeOK'
  BY DEF TypeOK, Task
<1>2. /\ task'.status = task.status /\ task'.revisionCount = task.revisionCount
      /\ task'.creator = task.creator /\ task'.assignee = task.assignee
  BY DEF TypeOK, Task
<1>3. \A x \in Requests : RequestOK(req[x])'
  BY <1>2 DEF RequestOK, Recorded, DeadlineOpen, TypeOK, Task
<1>4. task.status # "ABSENT"
  BY DEF AwaitingWork, NoTask
<1>5. (AwaitingWork /\ RoundsMatchSubmissions /\ OnlyNewestIsLive)'
  BY <1>2, <1>4 DEF AwaitingWork, RoundsMatchSubmissions, OnlyNewestIsLive
<1>6. (PaymentNeedsConfirmation /\ OneSettlement /\ WorkIsByAssignee)'
  BY <1>2 DEF PaymentNeedsConfirmation, OneSettlement, WorkIsByAssignee, Recorded
<1> QED BY <1>1, <1>3, <1>5, <1>6

-----------------------------------------------------------------------------
(* The transactions of the handlers.  Each answers its own request; what the  *)
(* others have read survives it, because of what rows only ever gain.         *)

RowsOnlyGain ==
  /\ task.status # "ABSENT" =>
       task'.status # "ABSENT" /\ task'.creator = task.creator
  /\ ~DeadlineOpen => ~DeadlineOpen'
  /\ task.status \notin {"ABSENT", "OPEN"} =>
       task'.status \notin {"ABSENT", "OPEN"} /\ task'.assignee = task.assignee
  /\ DOMAIN subs \subseteq DOMAIN subs'
  /\ events \subseteq events'

LEMMA OtherRequests ==
  ASSUME WorkflowInv, NEW r \in Requests, Reply(r), RowsOnlyGain
  PROVE  /\ (req \in [Requests -> Request])'
         /\ (\A x \in Requests : RequestOK(req[x]))'
<1> USE DEF WorkflowInv, TypeOK, Reply, Become
<1>1. req' \in [Requests -> Request]
  BY IdleOK
<1>2. (\A x \in Requests : RequestOK(req[x]))'
  <2> SUFFICES ASSUME NEW x \in Requests PROVE RequestOK(req[x])'
    OBVIOUS
  <2>1. CASE x = r
    <3>1. req'[x].at = "idle"
      BY <2>1 DEF Idle
    <3> QED BY <3>1 DEF RequestOK
  <2>2. CASE x # r
    <3>1. req'[x] = req[x] /\ RequestOK(req[x])
      BY <2>2
    <3> QED BY <3>1 DEF RequestOK, RowsOnlyGain, Recorded
  <2> QED BY <2>1, <2>2
<1> QED BY <1>1, <1>2

(* A transaction that sets the status of one submission keeps the others, and *)
(* every submitter.                                                           *)
LEMMA StatusWrite ==
  ASSUME NEW before \in Seq(Submission), NEW n \in DOMAIN before,
         NEW status \in SubmissionStatuses,
         NEW after, after = [before EXCEPT ![n].status = status]
  PROVE  /\ after \in Seq(Submission)
         /\ Len(after) = Len(before)
         /\ DOMAIN after = DOMAIN before
         /\ \A s \in DOMAIN before :
              /\ after[s].submitter = before[s].submitter
              /\ after[s].valid = before[s].valid
              /\ after[s].status = IF s = n THEN status ELSE before[s].status
<1> DEFINE new == [before[n] EXCEPT !.status = status]
<1>1. before[n] \in Submission
  OBVIOUS
<1>2. /\ new \in Submission
      /\ new.submitter = before[n].submitter
      /\ new.valid = before[n].valid
      /\ new.status = status
  BY <1>1 DEF Submission
<1>3. after = [before EXCEPT ![n] = new]
  OBVIOUS
<1> HIDE DEF new
<1>4. /\ after \in Seq(Submission)
      /\ Len(after) = Len(before)
      /\ DOMAIN after = DOMAIN before
      /\ after[n] = new
      /\ \A s \in DOMAIN before \ {n} : after[s] = before[s]
  BY <1>2, <1>3
<1> QED BY <1>2, <1>4

LEMMA ExpireTaskStep ==
  ASSUME WorkflowInv, NEW r \in Requests, ExpireTask(r)
  PROVE  WorkflowInv'
<1> USE DEF WorkflowInv, ExpireTask
<1>1. task.status \in {"OPEN", "IN_PROGRESS"}
  BY DEF ExpireGuard, Transition
<1>2. task' \in Task /\ RowsOnlyGain /\ task' = [task EXCEPT !.status = "EXPIRED"]
  BY <1>1 DEF TypeOK, Task, TaskStatuses, RowsOnlyGain, DeadlineOpen
<1>3. TypeOK' /\ (\A x \in Requests : RequestOK(req[x]))'
  BY <1>2, OtherRequests DEF TypeOK
<1>4. (AwaitingWork /\ RoundsMatchSubmissions /\ OnlyNewestIsLive)'
  BY <1>1 DEF TypeOK, Task, AwaitingWork, RoundsMatchSubmissions, OnlyNewestIsLive
<1>5. (PaymentNeedsConfirmation /\ OneSettlement /\ WorkIsByAssignee)'
  BY <1>1 DEF TypeOK, Task, PaymentNeedsConfirmation, OneSettlement, WorkIsByAssignee,
              Recorded
<1> QED BY <1>3, <1>4, <1>5

LEMMA ClaimTaskStep ==
  ASSUME WorkflowInv, NEW r \in Requests, ClaimTask(r)
  PROVE  WorkflowInv'
<1> USE DEF WorkflowInv, ClaimTask
<1>1. task.status = "OPEN" /\ subs = <<>> /\ settlements = {}
  BY DEF ClaimGuard, TransitionVia, AwaitingWork, OneSettlement
<1>2. req[r].actor \in Actors \ {task.creator}
  BY DEF ClaimGuard, RequestOK
<1>3. task' \in Task /\ RowsOnlyGain
  BY <1>1, <1>2 DEF TypeOK, Task, TaskStatuses, RowsOnlyGain, DeadlineOpen
<1>4. TypeOK' /\ (\A x \in Requests : RequestOK(req[x]))'
  BY <1>3, OtherRequests DEF TypeOK
<1>5. (AwaitingWork /\ RoundsMatchSubmissions /\ OnlyNewestIsLive)'
  BY <1>1, <1>2
  DEF TypeOK, Task, AwaitingWork, RoundsMatchSubmissions, OnlyNewestIsLive
<1>6. (PaymentNeedsConfirmation /\ OneSettlement /\ WorkIsByAssignee)'
  BY <1>1
  DEF TypeOK, Task, PaymentNeedsConfirmation, OneSettlement, WorkIsByAssignee
<1> QED BY <1>4, <1>5, <1>6

LEMMA SubmitWorkStep ==
  ASSUME WorkflowInv, NEW r \in Requests, NEW valid \in BOOLEAN,
         SubmitWork(r, valid)
  PROVE  WorkflowInv'
<1> USE DEF WorkflowInv, SubmitWork
<1> DEFINE new == [ submitter |-> req[r].actor, status |-> "PENDING",
                    valid |-> valid ]
<1>1. task.status = "IN_PROGRESS" /\ settlements = {}
  BY DEF SubmitGuard, Transition, OneSettlement
<1>2. req[r].actor = task.assignee /\ task.assignee \in Actors \ {task.creator}
  BY <1>1 DEF SubmitGuard, RequestOK, AwaitingWork
<1>3. new \in Submission /\ subs \in Seq(Submission)
  BY <1>2 DEF TypeOK, Submission, SubmissionStatuses
<1> HIDE DEF new
<1>4. /\ subs' = Append(subs, new)
      /\ subs' \in Seq(Submission)
      /\ Len(subs') = Len(subs) + 1
      /\ DOMAIN subs = 1..Len(subs) /\ DOMAIN subs' = 1..(Len(subs) + 1)
      /\ \A s \in DOMAIN subs : subs'[s] = subs[s]
      /\ subs'[Len(subs) + 1] = new
  BY <1>3 DEF new
<1>5. task' \in Task /\ RowsOnlyGain
  BY <1>1, <1>4 DEF TypeOK, Task, TaskStatuses, RowsOnlyGain, DeadlineOpen
<1>6. TypeOK' /\ (\A x \in Requests : RequestOK(req[x]))'
  BY <1>4, <1>5, OtherRequests DEF TypeOK
<1>7. (AwaitingWork /\ RoundsMatchSubmissions)'
  <2>1. /\ task \in Task /\ task'.status = "SUBMITTED"
        /\ task'.revisionCount = task.revisionCount
    BY <1>1 DEF TypeOK, Task
  <2>2. Len(subs) = task.revisionCount /\ task.revisionCount \in 0..MaxRevisions
    BY <1>1, <2>1 DEF Task, RoundsMatchSubmissions
  <2> QED BY <1>4, <2>1, <2>2, MaxRevisionsAssumption
          DEF AwaitingWork, RoundsMatchSubmissions
<1>8. OnlyNewestIsLive'
  BY <1>1, <1>4 DEF AwaitingWork, OnlyNewestIsLive
<1>9. (PaymentNeedsConfirmation /\ OneSettlement)'
  <2>1. new.status = "PENDING"
    BY DEF new
  <2> QED BY <1>1, <1>4, <2>1
          DEF TypeOK, Task, PaymentNeedsConfirmation, OneSettlement, Recorded
<1>10. WorkIsByAssignee'
  <2>1. new.submitter = task.assignee
    BY <1>2 DEF new
  <2> QED BY <1>2, <1>4, <2>1 DEF TypeOK, Task, WorkIsByAssignee
<1> QED BY <1>6, <1>7, <1>8, <1>9, <1>10

LEMMA ValidateSubmissionStep ==
  ASSUME WorkflowInv, NEW r \in Requests, ValidateSubmission(r)
  PROVE  WorkflowInv'
<1> USE DEF WorkflowInv, ValidateSubmission
<1> DEFINE n == req[r].sub
<1>1. task.status = "SUBMITTED" /\ settlements = {} /\ n \in DOMAIN subs
  BY DEF ValidateGuard, TransitionVia, OneSettlement, RequestOK
<1>2. task' \in Task /\ task' = [task EXCEPT !.status = "UNDER_REVIEW"]
  BY DEF TypeOK, Task, TaskStatuses
<1>3. n \in Nat /\ events' \subseteq Event /\ events \subseteq events'
  BY <1>1 DEF TypeOK, Event, Record
<1>4. /\ subs' \in Seq(Submission)
      /\ Len(subs') = Len(subs)
      /\ DOMAIN subs' = DOMAIN subs
      /\ \A s \in DOMAIN subs :
           /\ subs'[s].submitter = subs[s].submitter
           /\ subs'[s].status \in {subs[s].status, "REJECTED"}
  <2>1. CASE subs[n].valid
    BY <2>1 DEF TypeOK
  <2>2. CASE ~subs[n].valid
    BY <1>1, <2>2, StatusWrite DEF TypeOK, SubmissionStatuses
  <2> QED BY <2>1, <2>2
<1>5. RowsOnlyGain
  BY <1>1, <1>2, <1>3, <1>4 DEF TypeOK, Task, RowsOnlyGain, DeadlineOpen
<1>6. TypeOK' /\ (\A x \in Requests : RequestOK(req[x]))'
  BY <1>2, <1>3, <1>4, <1>5, OtherRequests DEF TypeOK
<1>7. (AwaitingWork /\ RoundsMatchSubmissions)'
  BY <1>1, <1>4 DEF TypeOK, Task, AwaitingWork, RoundsMatchSubmissions
<1>8. OnlyNewestIsLive'
  BY <1>4 DEF OnlyNewestIsLive
<1>9. (PaymentNeedsConfirmation /\ OneSettlement)'
  BY <1>1, <1>3, <1>4
  DEF TypeOK, Task, PaymentNeedsConfirmation, OneSettlement, Recorded
<1>10. WorkIsByAssignee'
  BY <1>4 DEF TypeOK, Task, WorkIsByAssignee
<1> QED BY <1>6, <1>7, <1>8, <1>9, <1>10

LEMMA RequestRevisionStep ==
  ASSUME WorkflowInv, NEW r \in Requests, RequestRevision(r)
  PROVE  WorkflowInv'
<1> USE DEF WorkflowInv, RequestRevision
<1>1. /\ task.status = "UNDER_REVIEW" /\ settlements = {}
      /\ task.revisionCount < MaxRevisions
  BY DEF RevisionGuard, TransitionVia, OneSettlement
<1> DEFINE round == task.revisionCount
<1>2. /\ task' \in Task
      /\ task' = [task EXCEPT !.status = "IN_PROGRESS",
                              !.revisionCount = round + 1]
      /\ round \in Nat
  <2>1. round \in Nat /\ round + 1 \in 0..MaxRevisions
    BY <1>1, MaxRevisionsAssumption DEF TypeOK, Task
  <2>2. task' = [task EXCEPT !.status = "IN_PROGRESS",
                             !.revisionCount = round + 1]
    OBVIOUS
  <2> HIDE DEF round
  <2>3. task' \in Task
    BY <2>1, <2>2 DEF TypeOK, Task, TaskStatuses
  <2> QED BY <2>1, <2>2, <2>3
<1>3. \A s \in DOMAIN subs :
        /\ Superseded(subs[s]) \in Submission
        /\ Superseded(subs[s]).submitter = subs[s].submitter
        /\ Superseded(subs[s]).status \in {"REJECTED", "SUPERSEDED"}
  <2> SUFFICES ASSUME NEW x \in Submission
               PROVE  /\ Superseded(x) \in Submission
                      /\ Superseded(x).submitter = x.submitter
                      /\ Superseded(x).status \in {"REJECTED", "SUPERSEDED"}
    BY DEF TypeOK
  <2> QED BY DEF Submission, SubmissionStatuses, Superseded
<1>4. /\ subs' \in Seq(Submission)
      /\ Len(subs') = Len(subs)
      /\ DOMAIN subs' = DOMAIN subs
      /\ \A s \in DOMAIN subs :
           /\ subs'[s].submitter = subs[s].submitter
           /\ subs'[s].status \in {"REJECTED", "SUPERSEDED"}
  BY <1>3 DEF TypeOK
<1>5. RowsOnlyGain
  BY <1>1, <1>2, <1>4 DEF TypeOK, Task, RowsOnlyGain, DeadlineOpen
<1>6. TypeOK' /\ (\A x \in Requests : RequestOK(req[x]))'
  BY <1>2, <1>4, <1>5, OtherRequests DEF TypeOK
<1>7. AwaitingWork' /\ WorkIsByAssignee'
  <2>1. Len(subs) = task.revisionCount + 1 /\ 1 \in DOMAIN subs
    <3>1. Len(subs) = task.revisionCount + 1
      BY <1>1 DEF RoundsMatchSubmissions
    <3> QED BY <1>2, <3>1 DEF TypeOK
  <2>2. task.assignee \in Actors \ {task.creator}
    <3>1. subs[1] \in Submission
      BY <2>1 DEF TypeOK
    <3>2. subs[1].submitter \in Actors
      BY <3>1 DEF Submission
    <3> QED BY <2>1, <3>2 DEF WorkIsByAssignee
  <2>3. WorkIsByAssignee'
    BY <1>4 DEF TypeOK, Task, WorkIsByAssignee
  <2>4. AwaitingWork'
    BY <1>4, <2>2 DEF TypeOK, Task, AwaitingWork
  <2> QED BY <2>3, <2>4
<1>8. RoundsMatchSubmissions'
  BY <1>1, <1>2, <1>4 DEF TypeOK, Task, RoundsMatchSubmissions
<1>9. (OnlyNewestIsLive /\ PaymentNeedsConfirmation /\ OneSettlement)'
  BY <1>1, <1>4
  DEF TypeOK, Task, OnlyNewestIsLive, PaymentNeedsConfirmation, OneSettlement
<1> QED BY <1>6, <1>7, <1>8, <1>9

LEMMA RecordApprovalStep ==
  ASSUME WorkflowInv, NEW r \in Requests, RecordApproval(r)
  PROVE  WorkflowInv'
<1> USE DEF WorkflowInv, RecordApproval
<1>1. req[r].sub \in Nat /\ events' \subseteq Event /\ events \subseteq events'
  BY DEF TypeOK, Request, Event, Record
<1>2. RowsOnlyGain
  BY <1>1 DEF RowsOnlyGain, DeadlineOpen
<1>3. TypeOK' /\ (\A x \in Requests : RequestOK(req[x]))'
  BY <1>1, <1>2, OtherRequests DEF TypeOK
<1>4. (AwaitingWork /\ RoundsMatchSubmissions /\ OnlyNewestIsLive)'
  BY DEF AwaitingWork, RoundsMatchSubmissions, OnlyNewestIsLive
<1>5. (PaymentNeedsConfirmation /\ OneSettlement /\ WorkIsByAssignee)'
  BY <1>1 DEF PaymentNeedsConfirmation, OneSettlement, WorkIsByAssignee, Recorded
<1> QED BY <1>3, <1>4, <1>5

LEMMA RejectTaskStep ==
  ASSUME WorkflowInv, NEW r \in Requests, RejectTask(r)
  PROVE  WorkflowInv'
<1> USE DEF WorkflowInv, RejectTask
<1> DEFINE n == req[r].sub
<1>1. task.status = "UNDER_REVIEW" /\ settlements = {} /\ n \in DOMAIN subs
  BY DEF RejectGuard, Transition, OneSettlement, RequestOK
<1>2. task' \in Task /\ task' = [task EXCEPT !.status = "REJECTED"]
  BY DEF TypeOK, Task, TaskStatuses
<1>3. /\ subs' \in Seq(Submission)
      /\ Len(subs') = Len(subs)
      /\ DOMAIN subs' = DOMAIN subs
      /\ \A s \in DOMAIN subs :
           /\ subs'[s].submitter = subs[s].submitter
           /\ subs'[s].status \in {subs[s].status, "REJECTED"}
  <2>1. /\ subs \in Seq(Submission) /\ "REJECTED" \in SubmissionStatuses
        /\ subs' = [subs EXCEPT ![n].status = "REJECTED"]
    BY DEF TypeOK, SubmissionStatuses
  <2>2. /\ subs' \in Seq(Submission)
        /\ Len(subs') = Len(subs)
        /\ DOMAIN subs' = DOMAIN subs
        /\ \A s \in DOMAIN subs :
             /\ subs'[s].submitter = subs[s].submitter
             /\ subs'[s].status = IF s = n THEN "REJECTED" ELSE subs[s].status
    BY <1>1, <2>1, StatusWrite
  <2> QED BY <2>2
<1>4. RowsOnlyGain
  BY <1>1, <1>2, <1>3 DEF TypeOK, Task, RowsOnlyGain, DeadlineOpen
<1>5. TypeOK' /\ (\A x \in Requests : RequestOK(req[x]))'
  BY <1>2, <1>3, <1>4, OtherRequests DEF TypeOK
<1>6. (AwaitingWork /\ RoundsMatchSubmissions)'
  BY <1>1, <1>3 DEF TypeOK, Task, AwaitingWork, RoundsMatchSubmissions
<1>7. OnlyNewestIsLive'
  BY <1>3 DEF OnlyNewestIsLive
<1>8. (PaymentNeedsConfirmation /\ OneSettlement)'
  BY <1>1, <1>3
  DEF TypeOK, Task, PaymentNeedsConfirmation, OneSettlement, Recorded
<1>9. WorkIsByAssignee'
  BY <1>3 DEF TypeOK, Task, WorkIsByAssignee
<1> QED BY <1>5, <1>6, <1>7, <1>8, <1>9

LEMMA ConfirmApprovalStep ==
  ASSUME WorkflowInv, NEW r \in Requests, ConfirmApproval(r)
  PROVE  WorkflowInv'
<1> USE DEF WorkflowInv, ConfirmApproval
<1> DEFINE n == req[r].sub
<1>1. /\ n \in DOMAIN subs /\ n \in Nat /\ subs[n].status = "PENDING"
      /\ Recorded("EVALUATION_COMPLETED", n)
  BY DEF ConfirmGuard, RequestOK, TypeOK
<1>2. n = Len(subs)
  BY <1>1 DEF OnlyNewestIsLive
<1>3. /\ events' \subseteq Event /\ events \subseteq events'
      /\ [type |-> "APPROVAL_CONFIRMED", sub |-> n] \in events'
  BY <1>1 DEF TypeOK, Event, Record
<1>4. /\ subs' \in Seq(Submission)
      /\ Len(subs') = Len(subs)
      /\ DOMAIN subs' = DOMAIN subs
      /\ \A s \in DOMAIN subs :
           /\ subs'[s].submitter = subs[s].submitter
           /\ s # n => subs'[s].status = subs[s].status
      /\ subs'[n].status = "APPROVED"
  BY <1>1, StatusWrite DEF TypeOK, SubmissionStatuses
<1>5. RowsOnlyGain
  BY <1>3, <1>4 DEF RowsOnlyGain, DeadlineOpen
<1>6. TypeOK' /\ (\A x \in Requests : RequestOK(req[x]))'
  BY <1>3, <1>4, <1>5, OtherRequests DEF TypeOK
<1>7. (AwaitingWork /\ RoundsMatchSubmissions)'
  BY <1>1, <1>4 DEF AwaitingWork, RoundsMatchSubmissions
<1>8. (OnlyNewestIsLive /\ OneSettlement /\ WorkIsByAssignee)'
  BY <1>2, <1>4 DEF OnlyNewestIsLive, OneSettlement, WorkIsByAssignee
<1>9. PaymentNeedsConfirmation'
  <2> SUFFICES ASSUME NEW s \in DOMAIN subs,
                      subs'[s].status = "APPROVED" \/ s \in settlements
               PROVE  /\ [type |-> "EVALUATION_COMPLETED", sub |-> s] \in events'
                      /\ [type |-> "APPROVAL_CONFIRMED", sub |-> s] \in events'
    BY <1>4 DEF PaymentNeedsConfirmation, Recorded
  <2>1. CASE s = n
    BY <1>1, <1>3, <2>1 DEF Recorded
  <2>2. CASE s # n
    BY <1>3, <1>4, <2>2 DEF PaymentNeedsConfirmation, Recorded
  <2> QED BY <2>1, <2>2
<1> QED BY <1>6, <1>7, <1>8, <1>9

LEMMA RequestSettlementStep ==
  ASSUME WorkflowInv, NEW r \in Requests, RequestSettlement(r)
  PROVE  WorkflowInv'
<1> USE DEF WorkflowInv, RequestSettlement
<1> DEFINE n == req[r].sub
<1>1. /\ task.status = "UNDER_REVIEW" /\ settlements = {}
      /\ n \in DOMAIN subs /\ n \in Nat
      /\ Recorded("EVALUATION_COMPLETED", n) /\ Recorded("APPROVAL_CONFIRMED", n)
  BY DEF SettleGuard, Transition, OneSettlement, RequestOK, TypeOK
<1>2. task' \in Task /\ task' = [task EXCEPT !.status = "SETTLING"]
  BY DEF TypeOK, Task, TaskStatuses
<1>3. RowsOnlyGain
  BY <1>1, <1>2 DEF TypeOK, Task, RowsOnlyGain, DeadlineOpen
<1>4. TypeOK' /\ (\A x \in Requests : RequestOK(req[x]))'
  BY <1>1, <1>2, <1>3, OtherRequests DEF TypeOK
<1>5. (AwaitingWork /\ RoundsMatchSubmissions /\ OnlyNewestIsLive)'
  BY <1>1 DEF TypeOK, Task, AwaitingWork, RoundsMatchSubmissions, OnlyNewestIsLive
<1>6. (PaymentNeedsConfirmation /\ OneSettlement /\ WorkIsByAssignee)'
  BY <1>1
  DEF TypeOK, Task, PaymentNeedsConfirmation, OneSettlement, WorkIsByAssignee,
      Recorded
<1> QED BY <1>4, <1>5, <1>6

-----------------------------------------------------------------------------
(* The invariant *)

LEMMA InitOK == Init => WorkflowInv
<1> SUFFICES ASSUME Init PROVE WorkflowInv
  OBVIOUS
<1> USE DEF Init
<1>1. task.status = "ABSENT" /\ task.revisionCount = 0
  BY DEF NoTask
<1>2. TypeOK
  BY IdleOK, MaxRevisionsAssumption DEF TypeOK, NoTask, Task
<1>3. \A r \in Requests : RequestOK(req[r])
  BY IdleOK
<1>4. AwaitingWork /\ RoundsMatchSubmissions /\ OnlyNewestIsLive
  BY <1>1, MaxRevisionsAssumption
  DEF AwaitingWork, RoundsMatchSubmissions, OnlyNewestIsLive
<1>5. PaymentNeedsConfirmation /\ OneSettlement /\ WorkIsByAssignee
  BY <1>1 DEF PaymentNeedsConfirmation, OneSettlement, WorkIsByAssignee
<1> QED BY <1>2, <1>3, <1>4, <1>5 DEF WorkflowInv

LEMMA StutterOK == WorkflowInv /\ UNCHANGED vars => WorkflowInv'
<1> SUFFICES ASSUME WorkflowInv, UNCHANGED vars PROVE WorkflowInv'
  OBVIOUS
<1> USE DEF WorkflowInv, vars
<1>1. TypeOK' /\ (\A r \in Requests : RequestOK(req[r]))'
  BY DEF TypeOK, RequestOK, DeadlineOpen, Recorded
<1>2. (AwaitingWork /\ RoundsMatchSubmissions /\ OnlyNewestIsLive)'
  BY DEF AwaitingWork, RoundsMatchSubmissions, OnlyNewestIsLive
<1>3. (PaymentNeedsConfirmation /\ OneSettlement /\ WorkIsByAssignee)'
  BY DEF PaymentNeedsConfirmation, OneSettlement, WorkIsByAssignee, Recorded
<1> QED BY <1>1, <1>2, <1>3

LEMMA StepOK == WorkflowInv /\ [Next]_vars => WorkflowInv'
<1> SUFFICES ASSUME WorkflowInv, Next PROVE WorkflowInv'
  BY StutterOK
<1>1. CASE \E a \in Actors, designated \in Actors \cup {NoActor},
             deadline \in {"none", "future", "past"}, payable \in BOOLEAN :
              CreateTask(a, designated, deadline, payable)
  BY <1>1, CreateTaskStep
<1>2. CASE DeadlinePasses
  BY <1>2, DeadlinePassesStep
<1>3. ASSUME NEW r \in Requests, Accept(r) PROVE WorkflowInv'
  BY <1>3, AcceptStep
<1>4. ASSUME NEW r \in Requests, Commits(r) PROVE WorkflowInv'
  BY <1>4, ExpireTaskStep, ClaimTaskStep, SubmitWorkStep,
     ValidateSubmissionStep, RequestRevisionStep, RecordApprovalStep,
     RejectTaskStep, ConfirmApprovalStep, RequestSettlementStep
  DEF Commits
<1>5. ASSUME NEW r \in Requests, ReadSteps(r) \/ SubmitConflict(r)
      PROVE  WorkflowInv'
  BY <1>5, ReadStep
<1>6. ASSUME NEW r \in Requests, LoseRace(r) \/ Fail(r) PROVE WorkflowInv'
  BY <1>6, GiveUpStep DEF LoseRace, Fail
<1> QED BY <1>1, <1>2, <1>3, <1>4, <1>5, <1>6 DEF Next, Handle

(* Whatever the interleaving of handlers, lost races, failures and late       *)
(* answers of the model, every request still has at its commit what it        *)
(* relies on, and the safety invariants hold (TaskService.ts and the four     *)
(* services beside it).                                                       *)
THEOREM WorkflowIsSafe == Spec => []WorkflowInv
BY InitOK, StepOK, PTL DEF Spec

(* The rows and the requests keep their types. *)
THEOREM WorkflowTypeOK == Spec => []TypeOK
<1>1. WorkflowInv => TypeOK
  BY DEF WorkflowInv
<1> QED BY <1>1, WorkflowIsSafe, PTL

(* Rounds and submissions never get out of step, and the budget of revisions  *)
(* is never exceeded (requestRevision, submitWork).                           *)
THEOREM RoundsAreCounted == Spec => []RoundsMatchSubmissions
<1>1. WorkflowInv => RoundsMatchSubmissions
  BY DEF WorkflowInv
<1> QED BY <1>1, WorkflowIsSafe, PTL

(* No earlier submission can be confirmed once a newer one exists             *)
(* (requestRevision, confirmApproval).                                        *)
THEOREM OnlyNewestCanBePaid == Spec => []OnlyNewestIsLive
<1>1. WorkflowInv => OnlyNewestIsLive
  BY DEF WorkflowInv
<1> QED BY <1>1, WorkflowIsSafe, PTL

(* No payment is authorised without the model's recommendation of that very   *)
(* submission and the creator's confirmation (reviewSubmission,               *)
(* confirmApproval, requestSettlement).                                       *)
THEOREM NoPaymentWithoutConfirmation == Spec => []PaymentNeedsConfirmation
<1>1. WorkflowInv => PaymentNeedsConfirmation
  BY DEF WorkflowInv
<1> QED BY <1>1, WorkflowIsSafe, PTL

(* However many settlement requests race, a task is settled at most once      *)
(* (requestSettlement).                                                       *)
THEOREM AtMostOneSettlement == Spec => []OneSettlement
<1>1. WorkflowInv => OneSettlement
  BY DEF WorkflowInv
<1> QED BY <1>1, WorkflowIsSafe, PTL

(* The recipient of a payment is the worker who claimed the task, and never   *)
(* its creator (claimTask, submitWork).                                       *)
THEOREM PaymentGoesToAssignee == Spec => []WorkIsByAssignee
<1>1. WorkflowInv => WorkIsByAssignee
  BY DEF WorkflowInv
<1> QED BY <1>1, WorkflowIsSafe, PTL

-----------------------------------------------------------------------------
(* What one step does *)

(* The steps of a request that write no row *)
LEMMA ReadsChangeNothing ==
  ASSUME NEW r \in Requests,
         Accept(r) \/ ReadSteps(r) \/ SubmitConflict(r) \/ LoseRace(r) \/ Fail(r)
  PROVE  UNCHANGED rows
BY DEF Accept, MeetExpired, ClaimRead, SubmitRead, ValidateRead, RevisionRead,
       ReviewRead, ConfirmRead, SettleRead, EvaluationReturns, ReadSteps,
       ValidateLoad, ReviewLoad, EvaluationFails, RevisionReadByReview,
       ConfirmLoad, SettleLoad, SubmitConflict, LoseRace, Fail, GiveUp

(* The transactions that move the task are legal commits. *)
LEMMA LegalMoves ==
  /\ LegalCommit("OPEN", "EXPIRED") /\ LegalCommit("IN_PROGRESS", "EXPIRED")
  /\ LegalCommit("OPEN", "IN_PROGRESS")
  /\ LegalCommit("IN_PROGRESS", "SUBMITTED")
  /\ LegalCommit("SUBMITTED", "UNDER_REVIEW")
  /\ LegalCommit("UNDER_REVIEW", "IN_PROGRESS")
  /\ LegalCommit("UNDER_REVIEW", "REJECTED")
  /\ LegalCommit("UNDER_REVIEW", "SETTLING")
BY DEF LegalCommit, CanTransition, LegalTransitions, TransientStatuses

LEMMA StepIsLegal == WorkflowInv /\ Next => LegalStep
<1> SUFFICES ASSUME WorkflowInv, Next PROVE LegalStep
  OBVIOUS
<1> USE DEF LegalStep
<1>1. task \in Task
  BY DEF WorkflowInv, TypeOK
<1>2. ASSUME NEW a \in Actors, NEW designated \in Actors \cup {NoActor},
             NEW deadline \in {"none", "future", "past"}, NEW payable \in BOOLEAN,
             CreateTask(a, designated, deadline, payable)
      PROVE  LegalStep
  BY <1>2 DEF CreateTask
<1>3. CASE DeadlinePasses
  BY <1>1, <1>3 DEF DeadlinePasses, Task
<1>4. ASSUME NEW r \in Requests, Commits(r) PROVE LegalStep
  <2>1. CASE ExpireTask(r)
    BY <1>1, <2>1, LegalMoves DEF ExpireTask, ExpireGuard, Transition, Task
  <2>2. CASE ClaimTask(r)
    BY <1>1, <2>2, LegalMoves DEF ClaimTask, ClaimGuard, TransitionVia, Task
  <2>3. CASE \E valid \in BOOLEAN : SubmitWork(r, valid)
    BY <1>1, <2>3, LegalMoves DEF SubmitWork, SubmitGuard, Transition, Task
  <2>4. CASE ValidateSubmission(r)
    BY <1>1, <2>4, LegalMoves
    DEF ValidateSubmission, ValidateGuard, TransitionVia, Task
  <2>5. CASE RequestRevision(r)
    BY <1>1, <2>5, LegalMoves
    DEF RequestRevision, RevisionGuard, TransitionVia, Task
  <2>6. CASE RecordApproval(r) \/ ConfirmApproval(r)
    BY <2>6 DEF RecordApproval, ConfirmApproval
  <2>7. CASE RejectTask(r)
    BY <1>1, <2>7, LegalMoves DEF RejectTask, RejectGuard, Transition, Task
  <2>8. CASE RequestSettlement(r)
    BY <1>1, <2>8, LegalMoves DEF RequestSettlement, SettleGuard, Transition, Task
  <2> QED
    BY <1>4, <2>1, <2>2, <2>3, <2>4, <2>5, <2>6, <2>7, <2>8 DEF Commits
<1>5. CASE UNCHANGED rows
  BY <1>5 DEF rows
<1> QED
  BY <1>2, <1>3, <1>4, <1>5, ReadsChangeNothing DEF Next, Handle

(* No interleaving of handlers applies a transition that is not on the        *)
(* whitelist (transitionTask and its callers).                                *)
THEOREM TransitionsAreLegal == Spec => OnlyLegalSteps
BY WorkflowIsSafe, StepIsLegal, PTL DEF Spec, OnlyLegalSteps

LEMMA StepKeepsDead ==
  ASSUME WorkflowInv, Next, NEW s \in DOMAIN subs,
         subs[s].status \in {"SUPERSEDED", "REJECTED"}
  PROVE  subs'[s].status = subs[s].status
<1> DEFINE Kept == subs'[s].status = subs[s].status
<1>1. subs \in Seq(Submission) /\ subs[s] \in Submission
  BY DEF WorkflowInv, TypeOK
<1>2. CASE subs' = subs
  BY <1>2
<1>3. ASSUME NEW r \in Requests, NEW valid \in BOOLEAN, SubmitWork(r, valid)
      PROVE  Kept
  BY <1>1, <1>3, AppendProperties DEF SubmitWork
<1>4. ASSUME NEW r \in Requests, NEW status \in SubmissionStatuses,
             req[r].sub \in DOMAIN subs,
             subs' = [subs EXCEPT ![req[r].sub].status = status],
             req[r].sub = s => status = subs[s].status
      PROVE  Kept
  BY <1>1, <1>4, StatusWrite
<1>5. ASSUME NEW r \in Requests, Commits(r) PROVE Kept
  <2>1. RequestOK(req[r])
    BY DEF WorkflowInv
  <2>2. CASE ExpireTask(r) \/ ClaimTask(r) \/ RecordApproval(r)
             \/ RequestSettlement(r)
    BY <1>2, <2>2 DEF ExpireTask, ClaimTask, RecordApproval, RequestSettlement
  <2>3. CASE ValidateSubmission(r)
    <3>1. req[r].sub \in DOMAIN subs
      BY <2>1, <2>3 DEF ValidateSubmission, ValidateGuard, RequestOK
    <3>2. CASE subs[req[r].sub].valid
      BY <1>2, <2>3, <3>2 DEF ValidateSubmission
    <3>3. CASE ~subs[req[r].sub].valid
      <4>1. subs[req[r].sub].status = "PENDING"
        BY <2>3, <3>3 DEF ValidateSubmission, ValidateGuard
      <4> QED BY <1>4, <2>3, <3>1, <3>3, <4>1
              DEF ValidateSubmission, SubmissionStatuses
    <3> QED BY <3>2, <3>3
  <2>4. CASE RequestRevision(r)
    BY <1>1, <2>4 DEF RequestRevision, Superseded
  <2>5. CASE RejectTask(r)
    <3>1. /\ req[r].sub \in DOMAIN subs
          /\ subs[req[r].sub].status # "SUPERSEDED"
      BY <2>1, <2>5 DEF RejectTask, RejectGuard, RequestOK
    <3> QED BY <1>4, <2>5, <3>1 DEF RejectTask, SubmissionStatuses
  <2>6. CASE ConfirmApproval(r)
    <3>1. /\ req[r].sub \in DOMAIN subs
          /\ subs[req[r].sub].status = "PENDING"
      BY <2>1, <2>6 DEF ConfirmApproval, ConfirmGuard, RequestOK
    <3> QED BY <1>4, <2>6, <3>1 DEF ConfirmApproval, SubmissionStatuses
  <2> QED BY <1>3, <1>5, <2>2, <2>3, <2>4, <2>5, <2>6 DEF Commits
<1>6. CASE DeadlinePasses
  BY <1>2, <1>6 DEF DeadlinePasses
<1>7. ASSUME NEW a \in Actors, NEW designated \in Actors \cup {NoActor},
             NEW deadline \in {"none", "future", "past"}, NEW payable \in BOOLEAN,
             CreateTask(a, designated, deadline, payable)
      PROVE  Kept
  BY <1>2, <1>7 DEF CreateTask
<1> QED
  BY <1>2, <1>5, <1>6, <1>7, ReadsChangeNothing DEF Next, Handle, rows

(* No late verdict, validation or confirmation revives a superseded or        *)
(* rejected submission (confirmApproval, reviewSubmission).                   *)
THEOREM DeadStayDead == Spec => DeadSubmissionsStayDead
<1>1. WorkflowInv /\ [Next]_vars =>
        [\A s \in DOMAIN subs :
           subs[s].status \in {"SUPERSEDED", "REJECTED"} =>
             subs'[s].status = subs[s].status]_vars
  BY StepKeepsDead
<1> QED BY <1>1, WorkflowIsSafe, PTL DEF Spec, DeadSubmissionsStayDead

-----------------------------------------------------------------------------
(* The refinement *)

LEMMA InitMaps == Init => Lifecycle!Init
BY DEF Init, NoTask, Lifecycle!Init

LEMMA CommitMaps ==
  ASSUME WorkflowInv, NEW r \in Requests, Commits(r)
  PROVE  Lifecycle!Next \/ UNCHANGED Lifecycle!lifecycle
<1> USE DEF Lifecycle!Next
<1>1. task \in Task
  BY DEF WorkflowInv, TypeOK
<1>2. RequestOK(req[r])
  BY DEF WorkflowInv
<1>3. CASE ExpireTask(r)
  <2>1. /\ task.status \in {"OPEN", "IN_PROGRESS"} /\ task.deadline = "past"
        /\ task' = [task EXCEPT !.status = "EXPIRED"]
    BY <1>2, <1>3 DEF ExpireTask, ExpireGuard, Transition, RequestOK, DeadlineOpen
  <2>2. Lifecycle!Expire
    BY <1>1, <2>1 DEF Lifecycle!Expire, Task
  <2> QED BY <2>2
<1>4. CASE ClaimTask(r)
  <2> DEFINE a == req[r].actor
  <2>1. /\ task.status = "OPEN" /\ task.assignee \in {NoActor, a}
        /\ task.deadline # "past"
        /\ a \in Actors \ {task.creator}
        /\ task' = [task EXCEPT !.status = "IN_PROGRESS", !.assignee = a]
    BY <1>2, <1>4 DEF ClaimTask, ClaimGuard, TransitionVia, RequestOK, DeadlineOpen
  <2> HIDE DEF a
  <2>2. Lifecycle!Claim(a)
    BY <1>1, <2>1 DEF Lifecycle!Claim, Task
  <2> QED BY <2>1, <2>2
<1>5. CASE \E valid \in BOOLEAN : SubmitWork(r, valid)
  <2>1. /\ task.status = "IN_PROGRESS" /\ task.deadline # "past"
        /\ task' = [task EXCEPT !.status = "SUBMITTED"]
    BY <1>5 DEF SubmitWork, SubmitGuard, Transition, DeadlineOpen
  <2>2. Lifecycle!HandIn
    BY <1>1, <2>1 DEF Lifecycle!HandIn, Task
  <2> QED BY <2>2
<1>6. CASE ValidateSubmission(r)
  <2>1. /\ task.status = "SUBMITTED"
        /\ task' = [task EXCEPT !.status = "UNDER_REVIEW"]
    BY <1>6 DEF ValidateSubmission, ValidateGuard, TransitionVia
  <2>2. Lifecycle!Admit
    BY <1>1, <2>1 DEF Lifecycle!Admit, Task
  <2> QED BY <2>2
<1>7. CASE RequestRevision(r)
  <2> DEFINE round == task.revisionCount
  <2>1. /\ task.status = "UNDER_REVIEW" /\ round < MaxRevisions
        /\ task' = [task EXCEPT !.status = "IN_PROGRESS",
                                !.revisionCount = round + 1]
    BY <1>7 DEF RequestRevision, RevisionGuard, TransitionVia
  <2>2. Lifecycle!Revise
    BY <1>1, <2>1 DEF Lifecycle!Revise, Task
  <2> QED BY <2>2
<1>8. CASE RecordApproval(r) \/ ConfirmApproval(r)
  BY <1>8 DEF RecordApproval, ConfirmApproval, Lifecycle!lifecycle
<1>9. CASE RejectTask(r) \/ RequestSettlement(r)
  <2>1. task.status = "UNDER_REVIEW"
    BY <1>9 DEF RejectTask, RejectGuard, RequestSettlement, SettleGuard, Transition
  <2>2. PICK status \in {"REJECTED", "SETTLING"} :
          task' = [task EXCEPT !.status = status]
    BY <1>9 DEF RejectTask, RequestSettlement
  <2>3. Lifecycle!Conclude
    BY <1>1, <2>1, <2>2 DEF Lifecycle!Conclude, Task
  <2> QED BY <2>3
<1> QED BY <1>3, <1>4, <1>5, <1>6, <1>7, <1>8, <1>9 DEF Commits

LEMMA StepMaps ==
  WorkflowInv /\ [Next]_vars => [Lifecycle!Next]_(Lifecycle!lifecycle)
<1> SUFFICES ASSUME WorkflowInv, [Next]_vars
             PROVE  Lifecycle!Next \/ UNCHANGED Lifecycle!lifecycle
  OBVIOUS
<1>1. task \in Task
  BY DEF WorkflowInv, TypeOK
<1>2. CASE UNCHANGED rows
  BY <1>2 DEF rows, Lifecycle!lifecycle
<1>3. CASE UNCHANGED vars
  BY <1>3 DEF vars, Lifecycle!lifecycle
<1>4. ASSUME NEW a \in Actors, NEW designated \in Actors \cup {NoActor},
             NEW deadline \in {"none", "future", "past"}, NEW payable \in BOOLEAN,
             CreateTask(a, designated, deadline, payable)
      PROVE  Lifecycle!Next
  <2>1. task.status = "ABSENT" /\ task.revisionCount = 0
    BY <1>4 DEF CreateTask, WorkflowInv, AwaitingWork, NoTask
  <2>2. (task'.deadline = "past") \in BOOLEAN
    OBVIOUS
  <2>3. Lifecycle!Publish(a, designated)
    BY <1>4, <2>1, <2>2 DEF CreateTask, Lifecycle!Publish
  <2> QED BY <2>3 DEF Lifecycle!Next
<1>5. CASE DeadlinePasses
  <2>1. task.status # "ABSENT"
    BY <1>5 DEF DeadlinePasses, WorkflowInv, AwaitingWork, NoTask
  <2>2. Lifecycle!BecomeLate
    BY <1>1, <1>5, <2>1 DEF DeadlinePasses, Lifecycle!BecomeLate, Task
  <2> QED BY <2>2 DEF Lifecycle!Next
<1> QED
  BY <1>2, <1>3, <1>4, <1>5, CommitMaps, ReadsChangeNothing DEF Next, Handle

(* The Task row behaves as if every operation were atomic, whatever the       *)
(* handlers interleave (transitionTask and all its callers).                  *)
THEOREM WorkflowImplementsLifecycle == Spec => ImplementsLifecycle
BY InitMaps, StepMaps, WorkflowIsSafe, PTL
DEF Spec, ImplementsLifecycle, Lifecycle!Spec
=============================================================================
