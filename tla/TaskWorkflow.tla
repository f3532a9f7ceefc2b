---------------------------- MODULE TaskWorkflow ----------------------------
(***************************************************************************)
(* The request handlers that move one task from creation to an authorised   *)
(* settlement: lib/workflow/TaskService.ts, ValidationService.ts,           *)
(* ReviewService.ts, ConfirmationService.ts and SettlementService.ts.       *)
(*                                                                         *)
(* Every handler reads the database, decides, and then commits one guarded  *)
(* transaction.  Between two of its awaits any other handler may commit, so *)
(* a handler is a request slot that walks through labels, one step for each *)
(* read and one for the transaction.  A transaction is one step: its first  *)
(* write is a guarded updateMany that locks the row it tests.               *)
(*                                                                         *)
(* Handlers of different tasks share no row, so the module has one task.    *)
(***************************************************************************)
EXTENDS TaskStatus, Naturals, Sequences

CONSTANTS
  Actors,        \* authenticated wallet addresses
  NoActor,       \* the null of a nullable address column
  Requests,      \* slots for requests being handled at the same time
  MaxRevisions   \* MAX_REVISION_ATTEMPTS

ASSUME NoActorAssumption == NoActor \notin Actors
ASSUME MaxRevisionsAssumption == MaxRevisions \in Nat

VARIABLES
  task,          \* the Task row
  subs,          \* the task's Submission rows, in the order of createdAt
  events,        \* the TaskEvent rows that a handler or a property reads back
  settlements,   \* ids of the submissions that have a Settlement row
  req            \* what each request in flight has read, and its next step

vars == <<task, subs, events, settlements, req>>
rows == <<task, subs, events, settlements>>

-----------------------------------------------------------------------------
(* The rows.  Amount and token are abstracted to whether the settlement gate *)
(* accepts them, the content of a submission to whether the deterministic    *)
(* validator does, the deadline to its order with the clock.                 *)

Task ==
  [ status        : TaskStatuses \cup {"ABSENT"},
    creator       : Actors \cup {NoActor},
    assignee      : Actors \cup {NoActor},
    deadline      : {"none", "future", "past"},
    payable       : BOOLEAN,
    revisionCount : 0..MaxRevisions ]

NoTask ==
  [ status |-> "ABSENT", creator |-> NoActor, assignee |-> NoActor,
    deadline |-> "none", payable |-> FALSE, revisionCount |-> 0 ]

Submission ==
  [ submitter : Actors, status : SubmissionStatuses, valid : BOOLEAN ]

Event ==
  [ type : {"VALIDATION_STARTED", "EVALUATION_COMPLETED", "APPROVAL_CONFIRMED"},
    sub  : Nat ]

(* deadlineNotPassedWhere, and the negation of isExpired *)
DeadlineOpen == task.deadline # "past"

(* Faulty variant: the oldest row, superseded or not *)
IsCurrentOldest(s) == s \in DOMAIN subs /\ \A t \in DOMAIN subs : s <= t

(* findFirst where status is not SUPERSEDED, orderBy createdAt desc *)
IsCurrent(s) ==
  /\ s \in DOMAIN subs
  /\ subs[s].status # "SUPERSEDED"
  /\ \A t \in DOMAIN subs : t > s => subs[t].status = "SUPERSEDED"

NoCurrent == \A s \in DOMAIN subs : subs[s].status = "SUPERSEDED"

Recorded(type, s) == [type |-> type, sub |-> s] \in events
Record(type, s) == events' = events \cup {[type |-> type, sub |-> s]}

(* transitionTask: assertTransition, then an updateMany guarded on status *)
Transition(from, to) ==
  CanTransition(from, to) /\ task.status = from

(* Two guarded transitions in one transaction *)
TransitionVia(from, via, to) ==
  CanTransition(from, via) /\ CanTransition(via, to) /\ task.status = from

-----------------------------------------------------------------------------
(* Requests in flight *)

CommitLabels ==
  {"claim", "submit", "validate", "approve", "reject", "revise", "confirm",
   "settle", "expireOpen", "expireWork"}
ReadLabels ==
  {"loadValidate", "loadReview", "evaluate", "readRevise", "loadConfirm",
   "loadSettle"}
Labels == {"idle"} \cup CommitLabels \cup ReadLabels

Request ==
  [ at      : Labels,
    actor   : Actors \cup {NoActor},  \* kept where the commit writes it
    sub     : Nat,                    \* the submission read, 0 before that
    pending : BOOLEAN,                \* what a review read of its submission
    budget  : BOOLEAN ]               \* what a review read of revisionCount

Idle ==
  [ at |-> "idle", actor |-> NoActor, sub |-> 0, pending |-> FALSE,
    budget |-> FALSE ]

Become(r, q) == req' = [req EXCEPT ![r] = q]

Arrive(r, label) ==
  req[r] = Idle /\ Become(r, [Idle EXCEPT !.at = label])
ArriveFrom(r, label, a) ==
  req[r] = Idle /\ Become(r, [Idle EXCEPT !.at = label, !.actor = a])
Advance(r, label) == Become(r, [req[r] EXCEPT !.at = label])
AdvanceWith(r, label, s) ==
  Become(r, [req[r] EXCEPT !.at = label, !.sub = s])
Reply(r) == Become(r, Idle)

(* A request whose read finds nothing to do changes nothing: it is not      *)
(* modelled, except where an earlier read of the same request succeeded.    *)
GiveUp(r) == Reply(r) /\ UNCHANGED rows

-----------------------------------------------------------------------------
(* Creation, and the clock *)

Init ==
  /\ task = NoTask
  /\ subs = <<>>
  /\ events = {}
  /\ settlements = {}
  /\ req = [r \in Requests |-> Idle]

(* createTask: created and opened in one transaction.  The request schema    *)
(* bounds neither the reward, nor its token, nor the deadline, and lets the   *)
(* creator designate anyone.                                                 *)
CreateTask(a, designated, deadline, payable) ==
  /\ task.status = "ABSENT"
  /\ CanTransition("CREATED", "OPEN")
  /\ task' = [ status |-> "OPEN", creator |-> a, assignee |-> designated,
               deadline |-> deadline, payable |-> payable,
               revisionCount |-> 0 ]
  /\ UNCHANGED <<subs, events, settlements, req>>

DeadlinePasses ==
  /\ task.deadline = "future"
  /\ task' = [task EXCEPT !.deadline = "past"]
  /\ UNCHANGED <<subs, events, settlements, req>>

-----------------------------------------------------------------------------
(* Lazy expiry: a reader that meets a task past its deadline sends it to      *)
(* EXPIRED.  The listing and claimTask do so for an OPEN task, submitWork and *)
(* getTaskForActor for one IN_PROGRESS.                                       *)

(* Faulty variant: only the listing notices *)
MeetExpiredOpen(r) ==
  /\ ~DeadlineOpen
  /\ task.status = "OPEN" /\ Arrive(r, "expireOpen")
  /\ UNCHANGED rows

MeetExpired(r) ==
  /\ ~DeadlineOpen
  /\ \/ task.status = "OPEN"        /\ Arrive(r, "expireOpen")
     \/ task.status = "IN_PROGRESS" /\ Arrive(r, "expireWork")
  /\ UNCHANGED rows

ExpireGuard(r) ==
  \/ req[r].at = "expireOpen" /\ Transition("OPEN", "EXPIRED")
  \/ req[r].at = "expireWork" /\ Transition("IN_PROGRESS", "EXPIRED")

ExpireTask(r) ==
  /\ ExpireGuard(r)
  /\ task' = [task EXCEPT !.status = "EXPIRED"]
  /\ Reply(r)
  /\ UNCHANGED <<subs, events, settlements>>

-----------------------------------------------------------------------------
(* claimTask *)

MayClaim(a) ==
  /\ task.status = "OPEN"
  /\ task.assignee \in {NoActor, a}
  /\ DeadlineOpen

(* Faulty variant: the creator may claim *)
ClaimReadByAnyone(r, a) ==
  MayClaim(a) /\ ArriveFrom(r, "claim", a) /\ UNCHANGED rows

ClaimRead(r, a) ==
  /\ a # task.creator
  /\ MayClaim(a)
  /\ ArriveFrom(r, "claim", a)
  /\ UNCHANGED rows

(* Faulty variant: an update by id alone *)
ClaimGuardById(r) == req[r].at = "claim" /\ DeadlineOpen

ClaimGuard(r) ==
  /\ req[r].at = "claim"
  /\ TransitionVia("OPEN", "ASSIGNED", "IN_PROGRESS")
  /\ task.assignee \in {NoActor, req[r].actor}
  /\ DeadlineOpen

ClaimTask(r) ==
  /\ ClaimGuard(r)
  /\ task' = [task EXCEPT !.status = "IN_PROGRESS", !.assignee = req[r].actor]
  /\ Reply(r)
  /\ UNCHANGED <<subs, events, settlements>>

-----------------------------------------------------------------------------
(* submitWork *)

SubmitRead(r, a) ==
  /\ task.status = "IN_PROGRESS"
  /\ task.assignee = a
  /\ DeadlineOpen
  /\ ArriveFrom(r, "submit", a)
  /\ UNCHANGED rows

(* Faulty variant: without the deadline *)
SubmitGuardLate(r) ==
  req[r].at = "submit" /\ Transition("IN_PROGRESS", "SUBMITTED")

SubmitGuard(r) ==
  /\ req[r].at = "submit"
  /\ Transition("IN_PROGRESS", "SUBMITTED")
  /\ DeadlineOpen

SubmitWork(r, valid) ==
  /\ SubmitGuard(r)
  /\ task' = [task EXCEPT !.status = "SUBMITTED"]
  /\ subs' = Append(subs, [ submitter |-> req[r].actor, status |-> "PENDING",
                            valid |-> valid ])
  /\ Reply(r)
  /\ UNCHANGED <<events, settlements>>

(* The guard failed: a second read tells a passed deadline from a lost race. *)
SubmitConflict(r) ==
  /\ req[r].at = "submit"
  /\ ~SubmitGuard(r)
  /\ IF task.status = "IN_PROGRESS" /\ ~DeadlineOpen
       THEN Advance(r, "expireWork")
       ELSE Reply(r)
  /\ UNCHANGED rows

-----------------------------------------------------------------------------
(* validateSubmission *)

ValidateRead(r, a) ==
  /\ a = task.creator
  /\ task.status = "SUBMITTED"
  /\ Arrive(r, "loadValidate")
  /\ UNCHANGED rows

ValidateLoad(r) ==
  /\ req[r].at = "loadValidate"
  /\ \/ \E s \in DOMAIN subs : IsCurrent(s) /\ AdvanceWith(r, "validate", s)
     \/ NoCurrent /\ Reply(r)
  /\ UNCHANGED rows

(* Faulty variant: the task is updated by id alone *)
ValidateGuardById(r) ==
  /\ req[r].at = "validate"
  /\ subs[req[r].sub].valid \/ subs[req[r].sub].status = "PENDING"

(* Faulty variant: an invalid submission may be rejected already *)
ValidateGuardAgain(r) ==
  /\ req[r].at = "validate"
  /\ TransitionVia("SUBMITTED", "UNDER_VALIDATION", "UNDER_REVIEW")

(* An invalid submission must still be PENDING, or everything rolls back. *)
ValidateGuard(r) ==
  /\ req[r].at = "validate"
  /\ TransitionVia("SUBMITTED", "UNDER_VALIDATION", "UNDER_REVIEW")
  /\ subs[req[r].sub].valid \/ subs[req[r].sub].status = "PENDING"

ValidateSubmission(r) ==
  LET s == req[r].sub IN
  /\ ValidateGuard(r)
  /\ task' = [task EXCEPT !.status = "UNDER_REVIEW"]
  /\ subs' = IF subs[s].valid THEN subs
             ELSE [subs EXCEPT ![s].status = "REJECTED"]
  /\ Record("VALIDATION_STARTED", s)
  /\ Reply(r)
  /\ UNCHANGED settlements

-----------------------------------------------------------------------------
(* requestRevision, from its route or from a review that decided so *)

RevisionRead(r, a) ==
  /\ a = task.creator
  /\ task.status = "UNDER_REVIEW"
  /\ task.revisionCount < MaxRevisions
  /\ Arrive(r, "revise")
  /\ UNCHANGED rows

RevisionReadByReview(r) ==
  /\ req[r].at = "readRevise"
  /\ IF task.status = "UNDER_REVIEW" /\ task.revisionCount < MaxRevisions
       THEN Advance(r, "revise")
       ELSE Reply(r)
  /\ UNCHANGED rows

(* Faulty variant: trusts the revisionCount it read *)
RevisionGuardUnbudgeted(r) ==
  /\ req[r].at = "revise"
  /\ TransitionVia("UNDER_REVIEW", "REVISION_REQUESTED", "IN_PROGRESS")

RevisionGuard(r) ==
  /\ req[r].at = "revise"
  /\ TransitionVia("UNDER_REVIEW", "REVISION_REQUESTED", "IN_PROGRESS")
  /\ task.revisionCount < MaxRevisions

(* Faulty variant: forgets a submission that was approved *)
SupersededPending(sub) ==
  IF sub.status = "PENDING" THEN [sub EXCEPT !.status = "SUPERSEDED"] ELSE sub

Superseded(sub) ==
  IF sub.status \in {"PENDING", "APPROVED"}
    THEN [sub EXCEPT !.status = "SUPERSEDED"]
    ELSE sub

RequestRevision(r) ==
  /\ RevisionGuard(r)
  /\ task' = [task EXCEPT !.status = "IN_PROGRESS", !.revisionCount = @ + 1]
  /\ subs' = [s \in DOMAIN subs |-> Superseded(subs[s])]
  /\ Reply(r)
  /\ UNCHANGED <<events, settlements>>

-----------------------------------------------------------------------------
(* reviewSubmission.  The evaluation may take minutes: what the request read  *)
(* of the task and of its submission is as old when the answer comes.         *)

Recommendations == {"APPROVE", "REQUEST_REVISION", "REJECT"}

(* resolveAuthoritativeDecision, as the label of the branch taken; satisfied  *)
(* says that the model covered and accepted every criterion of the rubric     *)
(* and no other.                                                              *)
ResolveDecision(recommendation, satisfied, pending, budget) ==
  CASE recommendation = "REJECT" -> "reject"
    [] recommendation = "APPROVE" /\ satisfied /\ pending -> "approve"
    [] OTHER -> IF budget THEN "readRevise" ELSE "reject"

ReviewRead(r, a) ==
  /\ a = task.creator
  /\ task.status = "UNDER_REVIEW"
  /\ req[r] = Idle
  /\ Become(r, [Idle EXCEPT !.at = "loadReview",
                            !.budget = task.revisionCount < MaxRevisions])
  /\ UNCHANGED rows

ReviewLoad(r) ==
  /\ req[r].at = "loadReview"
  /\ \/ \E s \in DOMAIN subs :
          /\ IsCurrent(s)
          /\ Become(r, [req[r] EXCEPT !.at = "evaluate", !.sub = s,
                                      !.pending = (subs[s].status = "PENDING")])
     \/ NoCurrent /\ Reply(r)
  /\ UNCHANGED rows

EvaluationReturns(r, recommendation, satisfied) ==
  /\ req[r].at = "evaluate"
  /\ Advance(r, ResolveDecision(recommendation, satisfied,
                                req[r].pending, req[r].budget))
  /\ UNCHANGED rows

(* Faulty variant: no timeout, and a provider that never answers *)
EvaluationHangs(r) == req[r].at = "evaluate" /\ FALSE /\ GiveUp(r)

(* No provider, a provider error, malformed output, or the hard timeout *)
EvaluationFails(r) ==
  /\ req[r].at = "evaluate"
  /\ GiveUp(r)

(* The review only records its verdict: a person must confirm it. *)
RecordApproval(r) ==
  /\ req[r].at = "approve"
  /\ Record("EVALUATION_COMPLETED", req[r].sub)
  /\ Reply(r)
  /\ UNCHANGED <<task, subs, settlements>>

(* Faulty variant: a late verdict on a superseded submission counts *)
RejectGuardLate(r) ==
  req[r].at = "reject" /\ Transition("UNDER_REVIEW", "REJECTED")

RejectGuard(r) ==
  /\ req[r].at = "reject"
  /\ Transition("UNDER_REVIEW", "REJECTED")
  /\ subs[req[r].sub].status # "SUPERSEDED"

(* Faulty variant: leaves the submission as it was *)
RejectTaskOnly(r) ==
  /\ RejectGuard(r)
  /\ task' = [task EXCEPT !.status = "REJECTED"]
  /\ Reply(r)
  /\ UNCHANGED <<subs, events, settlements>>

RejectTask(r) ==
  /\ RejectGuard(r)
  /\ task' = [task EXCEPT !.status = "REJECTED"]
  /\ subs' = [subs EXCEPT ![req[r].sub].status = "REJECTED"]
  /\ Reply(r)
  /\ UNCHANGED <<events, settlements>>

-----------------------------------------------------------------------------
(* confirmApproval.  The reads of the submission and of its evaluation are    *)
(* one step: events are never deleted, and the commit tests PENDING again.    *)

ConfirmRead(r, a) ==
  /\ a = task.creator
  /\ task.status = "UNDER_REVIEW"
  /\ Arrive(r, "loadConfirm")
  /\ UNCHANGED rows

(* Faulty variant: the evaluation is not required *)
ConfirmableUnevaluated(s) == IsCurrent(s) /\ subs[s].status = "PENDING"

Confirmable(s) ==
  IsCurrent(s) /\ subs[s].status = "PENDING" /\ Recorded("EVALUATION_COMPLETED", s)

ConfirmLoad(r) ==
  /\ req[r].at = "loadConfirm"
  /\ \/ \E s \in DOMAIN subs : Confirmable(s) /\ AdvanceWith(r, "confirm", s)
     \/ (\A s \in DOMAIN subs : ~Confirmable(s)) /\ Reply(r)
  /\ UNCHANGED rows

(* Faulty variant: trusts the status it read *)
ConfirmGuardById(r) == req[r].at = "confirm"

ConfirmGuard(r) ==
  req[r].at = "confirm" /\ subs[req[r].sub].status = "PENDING"

ConfirmApproval(r) ==
  /\ ConfirmGuard(r)
  /\ subs' = [subs EXCEPT ![req[r].sub].status = "APPROVED"]
  /\ Record("APPROVAL_CONFIRMED", req[r].sub)
  /\ Reply(r)
  /\ UNCHANGED <<task, settlements>>

-----------------------------------------------------------------------------
(* requestSettlement.  The gate lets a SETTLING task through its reads, for   *)
(* the retries of the executor; the transaction does not.                     *)

(* Faulty variant: any submission of the worker will do *)
SettleReadUnapproved(r, a, s) ==
  /\ subs[s].submitter = a
  /\ task.status \in {"UNDER_REVIEW", "SETTLING"}
  /\ task.payable
  /\ req[r] = Idle
  /\ AdvanceWith(r, "loadSettle", s)
  /\ UNCHANGED rows

SettleRead(r, a, s) ==
  /\ subs[s].submitter = a
  /\ subs[s].status = "APPROVED"
  /\ task.status \in {"UNDER_REVIEW", "SETTLING"}
  /\ task.payable
  /\ req[r] = Idle
  /\ AdvanceWith(r, "loadSettle", s)
  /\ UNCHANGED rows

SettleLoad(r) ==
  /\ req[r].at = "loadSettle"
  /\ IF IsCurrent(req[r].sub) THEN Advance(r, "settle") ELSE Reply(r)
  /\ UNCHANGED rows

(* Faulty variant: trusts the task status it read *)
SettleGuardById(r) == req[r].at = "settle" /\ req[r].sub \notin settlements

(* The second conjunct is the unique constraint on Settlement.submissionId. *)
SettleGuard(r) ==
  /\ req[r].at = "settle"
  /\ Transition("UNDER_REVIEW", "SETTLING")
  /\ req[r].sub \notin settlements

RequestSettlement(r) ==
  /\ SettleGuard(r)
  /\ task' = [task EXCEPT !.status = "SETTLING"]
  /\ settlements' = settlements \cup {req[r].sub}
  /\ Reply(r)
  /\ UNCHANGED <<subs, events>>

-----------------------------------------------------------------------------
(* Lost races, failures, and the next-state relation *)

(* The guard of the transaction did not match: it writes no row. *)
LoseRace(r) ==
  /\ req[r].at \in CommitLabels \ {"submit", "approve"}
  /\ ~ \/ ExpireGuard(r) \/ ClaimGuard(r) \/ ValidateGuard(r) \/ RejectGuard(r)
       \/ RevisionGuard(r) \/ ConfirmGuard(r) \/ SettleGuard(r)
  /\ GiveUp(r)

(* The process stops, or the database fails a read or rolls back. *)
Fail(r) ==
  req[r].at # "idle" /\ GiveUp(r)

ReadSteps(r) ==
  \/ ValidateLoad(r) \/ ReviewLoad(r) \/ EvaluationFails(r)
  \/ RevisionReadByReview(r) \/ ConfirmLoad(r) \/ SettleLoad(r)

Commits(r) ==
  \/ ExpireTask(r) \/ ClaimTask(r) \/ ValidateSubmission(r)
  \/ RequestRevision(r) \/ RecordApproval(r) \/ RejectTask(r)
  \/ ConfirmApproval(r) \/ RequestSettlement(r)
  \/ \E valid \in BOOLEAN : SubmitWork(r, valid)

(* What the server does of itself with a request it has accepted *)
Handle(r) ==
  ReadSteps(r) \/ Commits(r) \/ SubmitConflict(r) \/ LoseRace(r)

(* What people and the model provider do *)
Accept(r) ==
  \/ MeetExpired(r)
  \/ \E a \in Actors :
       \/ ClaimRead(r, a) \/ SubmitRead(r, a) \/ ValidateRead(r, a)
       \/ RevisionRead(r, a) \/ ReviewRead(r, a) \/ ConfirmRead(r, a)
       \/ \E s \in DOMAIN subs : SettleRead(r, a, s)
  \/ \E recommendation \in Recommendations, satisfied \in BOOLEAN :
       EvaluationReturns(r, recommendation, satisfied)

Next ==
  \/ \E a \in Actors, designated \in Actors \cup {NoActor},
        deadline \in {"none", "future", "past"}, payable \in BOOLEAN :
       CreateTask(a, designated, deadline, payable)
  \/ DeadlinePasses
  \/ \E r \in Requests : Accept(r) \/ Handle(r) \/ Fail(r)

Spec == Init /\ [][Next]_vars

(* The server carries on with every request it accepted: each await of a      *)
(* handler settles, the evaluation by its timeout at the latest.  Readers     *)
(* keep looking at the task, and not every expiry they start fails.           *)
Fairness ==
  /\ \A r \in Requests : WF_vars(Handle(r))
  /\ SF_vars(\E r \in Requests : MeetExpired(r))
  /\ \A r \in Requests : SF_vars(ExpireTask(r))

FairSpec == Spec /\ Fairness

-----------------------------------------------------------------------------
(* Safety *)

(* Every row and every request holds values of its type. *)
TypeOK ==
  /\ task \in Task
  /\ subs \in Seq(Submission)
  /\ events \subseteq Event
  /\ settlements \subseteq Nat
  /\ req \in [Requests -> Request]

(* One submission for each round: a round is opened by a revision, spent by   *)
(* the submission that closes it, and the budget of rounds is never exceeded, *)
(* however revisions, reviews and submissions race (requestRevision,          *)
(* submitWork).                                                               *)
RoundsMatchSubmissions ==
  /\ Len(subs) = task.revisionCount +
       (IF task.status \in {"ABSENT", "OPEN", "IN_PROGRESS", "EXPIRED"}
          THEN 0 ELSE 1)
  /\ Len(subs) <= MaxRevisions + 1

(* Only the newest submission is ever PENDING or APPROVED: a revision leaves  *)
(* no earlier one that could be confirmed or paid (requestRevision).          *)
OnlyNewestIsLive ==
  \A s \in DOMAIN subs :
    subs[s].status \in {"PENDING", "APPROVED"} => s = Len(subs)

(* A submission is APPROVED, or has a settlement, only when the model         *)
(* recommended that very submission and the creator confirmed it              *)
(* (reviewSubmission, confirmApproval, requestSettlement).                    *)
PaymentNeedsConfirmation ==
  \A s \in DOMAIN subs :
    (subs[s].status = "APPROVED" \/ s \in settlements) =>
      Recorded("EVALUATION_COMPLETED", s) /\ Recorded("APPROVAL_CONFIRMED", s)

(* A task has at most one settlement, and has it exactly while SETTLING: of    *)
(* concurrent settlement requests one wins and the others leave no row         *)
(* (requestSettlement).                                                       *)
OneSettlement ==
  /\ \A s, t \in settlements : s = t
  /\ task.status = "SETTLING" <=> settlements # {}

(* All the work of a task is its assignee's, so the recipient of the payment  *)
(* is the worker who claimed it, who is not the creator (claimTask,           *)
(* submitWork).                                                               *)
WorkIsByAssignee ==
  \A s \in DOMAIN subs :
    subs[s].submitter = task.assignee /\ subs[s].submitter # task.creator

-----------------------------------------------------------------------------
(* What one step may never do *)

(* Every committed transaction moves the task along the whitelist: no handler *)
(* applies a transition that it read an earlier status for (transitionTask).  *)
LegalStep ==
  task'.status # task.status =>
    \/ task.status = "ABSENT" /\ task'.status = "OPEN"
    \/ task.status # "ABSENT" /\ LegalCommit(task.status, task'.status)
OnlyLegalSteps == [][LegalStep]_vars

(* A submission that was superseded or rejected stays so: no late verdict or  *)
(* confirmation revives it (confirmApproval, reviewSubmission).               *)
DeadSubmissionsStayDead ==
  [][\A s \in DOMAIN subs :
       subs[s].status \in {"SUPERSEDED", "REJECTED"} =>
         subs'[s].status = subs[s].status]_vars

-----------------------------------------------------------------------------
(* What is left of three promises of the services when requests overlap.  No  *)
(* transaction reads again which submission is the current one, so each       *)
(* promise holds of the submission its handler had found.                     *)

(* Work that the validator refused never counts as validated: a task is under *)
(* review because its newest submission was validated, or because an earlier  *)
(* one was that is valid (validateSubmission).                                *)
ReviewWasValidated ==
  task.status = "UNDER_REVIEW" =>
    \E s \in DOMAIN subs :
      Recorded("VALIDATION_STARTED", s) /\ (s = Len(subs) \/ subs[s].valid)

(* What is settled is the current submission, approved, or was approved until *)
(* a revision superseded it; never work that was rejected or awaits a verdict *)
(* (requestSettlement).                                                       *)
SettledWasApproved ==
  \A s \in settlements :
    \/ subs[s].status = "APPROVED" /\ IsCurrent(s)
    \/ s \in DOMAIN subs /\ subs[s].status = "SUPERSEDED"

(* A verdict that comes late rejects no task for work that was superseded: a  *)
(* rejected task is rejected for its newest submission, or for one the        *)
(* validator had refused; and nobody's valid work is rejected while the task  *)
(* goes on (reviewSubmission).                                                *)
RejectionHasItsWork ==
  /\ task.status = "REJECTED" =>
       \E s \in DOMAIN subs :
         subs[s].status = "REJECTED" /\ (s = Len(subs) \/ ~subs[s].valid)
  /\ \A s \in DOMAIN subs :
       subs[s].status = "REJECTED" /\ subs[s].valid => task.status = "REJECTED"

-----------------------------------------------------------------------------
(* What handlers that never overlap guarantee besides *)

(* A task is under review only with its newest submission validated           *)
(* (validateSubmission).                                                      *)
ReviewFollowsValidation ==
  task.status = "UNDER_REVIEW" => Recorded("VALIDATION_STARTED", Len(subs))

(* Only the current submission, approved, is ever settled                     *)
(* (requestSettlement).                                                       *)
SettlesCurrent ==
  \A s \in settlements : IsCurrent(s) /\ subs[s].status = "APPROVED"

(* A rejected task is one whose newest submission was rejected                *)
(* (reviewSubmission).                                                        *)
RejectionIsOfNewest ==
  task.status = "REJECTED" => subs[Len(subs)].status = "REJECTED"

-----------------------------------------------------------------------------
(* The inductive invariant *)

(* What a request relies on at its next step, although others may commit      *)
(* before it takes it: facts that no later transaction can undo.              *)
RequestOK(q) ==
  /\ q.at # "idle" => task.status # "ABSENT"
  /\ q.at \in {"expireOpen", "expireWork"} => ~DeadlineOpen
  /\ q.at = "claim" => q.actor \in Actors \ {task.creator}
  /\ q.at = "submit" =>
       q.actor = task.assignee /\ task.status \notin {"ABSENT", "OPEN"}
  /\ q.at \in {"validate", "evaluate", "approve", "reject", "confirm",
               "loadSettle", "settle"} => q.sub \in DOMAIN subs
  /\ q.at \in {"confirm", "loadSettle", "settle"} =>
       Recorded("EVALUATION_COMPLETED", q.sub)
  /\ q.at \in {"loadSettle", "settle"} => Recorded("APPROVAL_CONFIRMED", q.sub)

(* Before creation there is no row; before work is handed in nothing awaits a *)
(* verdict, and whoever works is not the creator.                             *)
AwaitingWork ==
  /\ task.status = "ABSENT" => task = NoTask
  /\ task.status \in {"ABSENT", "OPEN"} => subs = <<>>
  /\ task.status = "IN_PROGRESS" =>
       /\ task.assignee \in Actors \ {task.creator}
       /\ \A s \in DOMAIN subs : subs[s].status \in {"REJECTED", "SUPERSEDED"}

(* The safety invariants and what makes them inductive: every request in      *)
(* flight still has what it relies on when it commits (all handlers).         *)
WorkflowInv ==
  /\ TypeOK
  /\ \A r \in Requests : RequestOK(req[r])
  /\ AwaitingWork
  /\ RoundsMatchSubmissions
  /\ OnlyNewestIsLive
  /\ PaymentNeedsConfirmation
  /\ OneSettlement
  /\ WorkIsByAssignee

-----------------------------------------------------------------------------
(* Liveness, under FairSpec *)

(* Every request is answered, whatever the evaluation provider does           *)
(* (reviewSubmission and its timeout, and every other handler).               *)
RequestsAreAnswered ==
  \A r \in Requests : req[r].at # "idle" ~> req[r].at = "idle"

(* A task that is past its deadline before work is handed in ends EXPIRED     *)
(* instead of staying OPEN or IN_PROGRESS, although nothing but its readers   *)
(* notices and every one of them may lose a race (expireTask).                *)
PastDeadlineExpires ==
  task.status \in {"OPEN", "IN_PROGRESS"} /\ ~DeadlineOpen
    ~> task.status = "EXPIRED"

-----------------------------------------------------------------------------
(* The workflow implements the lifecycle its services promise: however        *)
(* requests interleave, the Task row moves as if every operation were atomic  *)
(* (transitionTask and all its callers).                                      *)
Lifecycle == INSTANCE TaskLifecycle WITH
  status   <- task.status,
  creator  <- task.creator,
  assignee <- task.assignee,
  late     <- task.deadline = "past",
  round    <- task.revisionCount

ImplementsLifecycle == Lifecycle!Spec
=============================================================================
