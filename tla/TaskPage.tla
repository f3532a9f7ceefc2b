------------------------------ MODULE TaskPage ------------------------------
(***************************************************************************)
(* The page of one task: components/tasks/TaskDetail.tsx with the forms it  *)
(* shows (RequesterReview, SubmitWorkForm, PaymentSection), the bundle it   *)
(* loads from app/api/tasks/[id]/state and the routes its buttons post to.  *)
(*                                                                         *)
(* The page never polls.  It shows what the server answered once, offers    *)
(* the actions that this allows, and loads again after each that succeeded; *)
(* meanwhile other pages act on the task, and the wallet of this one may    *)
(* sign in as someone else.                                                *)
(*                                                                         *)
(* A handler of the server is one step here: TaskWorkflow has the           *)
(* interleavings of its reads and transactions.  A review is two, with the  *)
(* evaluation between them.                                                *)
(***************************************************************************)
EXTENDS TaskStatus, Evaluation, Naturals, Sequences

CONSTANTS
  Requester,      \* the creator of the task
  Workers,        \* other wallets
  Nobody,         \* not signed in; also the assignee of an unclaimed task
  MaxRevisions,   \* MAX_REVISION_ATTEMPTS
  MaxSwitches,    \* bound: how often the page's wallet signs in as another
  MaxMet          \* bound: after how many changes a load meets none by others

ASSUME RevisionsAssumption == MaxRevisions \in Nat
ASSUME SwitchesAssumption == MaxSwitches \in Nat

VARIABLES
  srv,       \* the task's rows on the server
  page,      \* the state of TaskDetail
  load,      \* the request for the bundle that the page waits for
  dropped,   \* an answer to an earlier one, on its way to the page
  posts,     \* the requests of the page's buttons
  switches   \* how often the identity has changed

vars == <<srv, page, load, dropped, posts, switches, call>>
pageVars == <<page, dropped, switches>>

People == Workers \cup {Requester}
Kinds == {"claim", "submit", "validate", "review", "confirm", "release"}

-----------------------------------------------------------------------------
(* The server.  A submission is its number, its submitter the assignee, its  *)
(* settlement the entry of that number in payments.                          *)

(* Whoever reads a row that is deleted finds none; that one was is history.   *)
NoRow == {"none", "deleted"}
Payments == NoRow \cup {"open", "CONFIRMED", "FAILED"}

(* sending is history too: the executor that the last lock started may still *)
(* have its sendTransaction throw.                                           *)
Server ==
  [ status     : TaskStatuses,
    assignee   : Workers \cup {Nobody},
    subs       : Seq(SubmissionStatuses),
    validated  : Nat,                 \* submission of the newest validation
    evaluated  : [sub : Nat, outcome : {"none", "approve", "revise", "reject"}],
    confirmable : SUBSET Nat,         \* submissions with a confirmable event
    payments   : Seq(Payments),
    sending    : BOOLEAN,
    revisions  : 0..MaxRevisions ]

NoEvaluation == [sub |-> 0, outcome |-> "none"]

(* findFirst where status is not SUPERSEDED, orderBy createdAt desc; 0 if none *)
Current(v) ==
  IF \E s \in DOMAIN v.subs : v.subs[s] # "SUPERSEDED"
  THEN CHOOSE s \in DOMAIN v.subs :
         /\ v.subs[s] # "SUPERSEDED"
         /\ \A t \in DOMAIN v.subs : t > s => v.subs[t] = "SUPERSEDED"
  ELSE 0

(* Faulty variant: the last attempt is not counted. *)
HasBudgetOrUsedUp(v) == v.revisions <= MaxRevisions

HasBudget(v) == v.revisions < MaxRevisions

(* What each route lets an actor do.  The session route names the actor. *)

AcceptsClaim(v, a) ==
  v.status = "OPEN" /\ a # Requester /\ v.assignee \in {Nobody, a}

AcceptsSubmit(v, a) == v.status = "IN_PROGRESS" /\ v.assignee = a

AcceptsValidate(v, a) ==
  a = Requester /\ v.status = "SUBMITTED" /\ Current(v) # 0

AcceptsReview(v, a) ==
  a = Requester /\ v.status = "UNDER_REVIEW" /\ Current(v) # 0

(* The second disjunct: confirming again is answered as a success. *)
AcceptsConfirm(v, a) ==
  /\ a = Requester /\ v.status = "UNDER_REVIEW" /\ Current(v) # 0
  /\ \/ v.subs[Current(v)] = "PENDING" /\ Current(v) \in v.confirmable
     \/ v.subs[Current(v)] = "APPROVED"

(* settleSubmission: resumes a settlement, or asks requestSettlement for one *)
AcceptsRelease(v, a, s) ==
  /\ s \in DOMAIN v.subs /\ a = v.assignee
  /\ \/ v.payments[s] \in {"open", "CONFIRMED"}
     \/ /\ v.payments[s] \in NoRow /\ v.status = "UNDER_REVIEW"
        /\ s = Current(v) /\ v.subs[s] = "APPROVED"

Accepts(v, kind, a, s) ==
  CASE kind = "claim" -> AcceptsClaim(v, a)
    [] kind = "submit" -> AcceptsSubmit(v, a)
    [] kind = "validate" -> AcceptsValidate(v, a)
    [] kind = "review" -> AcceptsReview(v, a)
    [] kind = "confirm" -> AcceptsConfirm(v, a)
    [] kind = "release" -> AcceptsRelease(v, a, s)

Legal(v, a) == {kind \in Kinds : Accepts(v, kind, a, Current(v))}

(* What each does to the rows. *)

Claimed(v, a) == [v EXCEPT !.status = "IN_PROGRESS", !.assignee = a]

Submitted(v) ==
  [v EXCEPT !.status = "SUBMITTED", !.subs = Append(@, "PENDING"),
            !.payments = Append(@, "none")]

Validated(v, valid) ==
  [v EXCEPT !.status = "UNDER_REVIEW", !.validated = Current(v),
            !.subs = IF valid THEN @ ELSE [@ EXCEPT ![Current(v)] = "REJECTED"]]

Confirmed(v) == [v EXCEPT !.subs[Current(v)] = "APPROVED"]

Released(v, s) ==
  IF v.payments[s] \in NoRow
  THEN [v EXCEPT !.status = "SETTLING", !.payments[s] = "open", !.sending = TRUE]
  ELSE v

(* The outcomes of the executor, which SettlementExecution is about.  The row *)
(* may be one of an earlier submission, which a rolled back task has left.    *)
Settles(v, s) == s \in DOMAIN v.payments /\ v.payments[s] = "open" /\ v.status = "SETTLING"

Settled(v, s, paid) ==
  [v EXCEPT !.status = IF paid THEN "COMPLETED" ELSE "PAYMENT_FAILED",
            !.payments[s] = IF paid THEN "CONFIRMED" ELSE "FAILED"]

(* sendTransaction has thrown: by id alone, whatever a recovery has made of   *)
(* the task by then, and with the row as it is.                              *)
RolledBack(v) == [v EXCEPT !.status = "UNDER_REVIEW", !.sending = FALSE]

(* DELETE; a row that it has read may have been confirmed before it goes.     *)
Deleted(v, s) == [v EXCEPT !.payments[s] = "deleted"]

Revised(v) ==
  [v EXCEPT !.status = "IN_PROGRESS", !.revisions = @ + 1,
            !.subs = [s \in DOMAIN @ |-> IF @[s] \in {"PENDING", "APPROVED"}
                                         THEN "SUPERSEDED" ELSE @[s]]]

(* The last transaction of a review of submission s, and whether its guard   *)
(* holds; an approval is only recorded, whatever has become of the task.     *)
Applies(v, decision, s) ==
  CASE decision = "approve" -> TRUE
    [] decision = "reject" -> v.status = "UNDER_REVIEW" /\ v.subs[s] # "SUPERSEDED"
    [] decision = "revise" -> v.status = "UNDER_REVIEW" /\ HasBudget(v)

Reviewed(v, decision, s) ==
  LET noted == [v EXCEPT !.evaluated = [sub |-> s, outcome |-> decision]]
  IN  CASE decision = "approve" -> [noted EXCEPT !.confirmable = @ \cup {s}]
        [] decision = "reject" ->
             [noted EXCEPT !.status = "REJECTED", !.subs[s] = "REJECTED"]
        [] decision = "revise" -> Revised(noted)

-----------------------------------------------------------------------------
(* The bundle, app/api/tasks/[id]/state/route.ts, read row by row.           *)

Bundle ==
  [ status : TaskStatuses, assignee : Workers \cup {Nobody},
    n : Nat, sub : SubmissionStatuses \cup {"none"},       \* the submission
    validated : BOOLEAN,
    outcome : {"none", "approve", "revise", "reject"},     \* of the evaluation
    settlement : Payments ]

Blank ==
  [ status |-> "CREATED", assignee |-> Nobody, n |-> 0, sub |-> "none",
    validated |-> FALSE, outcome |-> "none", settlement |-> "none" ]

(* legal, behind and met are history: what the server would have accepted    *)
(* from this actor while the rows were read, of which changes of its own the *)
(* page has been told since, and how many changes the reads have met.        *)
Load ==
  [ at : {"none", "task", "sub", "validation", "evaluation", "settlement", "answer"},
    by : People \cup {Nobody}, bundle : Bundle, kind : {"state", "denied", "failed"},
    legal : SUBSET Kinds, behind : SUBSET Kinds, met : Nat ]

NoLoad ==
  [ at |-> "none", by |-> Nobody, bundle |-> Blank, kind |-> "state",
    legal |-> {}, behind |-> {}, met |-> 0 ]

Reading == {"sub", "validation", "evaluation", "settlement"}

(* Every change of the rows goes through here, for the history of the load. *)
Commit(v) ==
  /\ srv' = v
  /\ load' = IF load.at \in Reading
             THEN [load EXCEPT !.legal = @ \cup Legal(v, load.by), !.met = @ + 1]
             ELSE load

(* getTaskForActor with allowOpenView *)
MayView(v, a) == v.status = "OPEN" \/ a \in {Requester, v.assignee}

Refuse(kind) ==
  load' = [load EXCEPT !.at = "answer", !.kind = kind, !.bundle = Blank,
                       !.legal = {}, !.met = 0]

ReadTask ==
  /\ load.at = "task"
  /\ IF MayView(srv, load.by)
     THEN load' = [load EXCEPT !.at = "sub", !.legal = Legal(srv, load.by),
                               !.bundle.status = srv.status,
                               !.bundle.assignee = srv.assignee]
     ELSE Refuse("denied")
  /\ UNCHANGED <<srv, posts, pageVars, call>>

ReadSubmission ==
  /\ load.at = "sub"
  /\ load' = [load EXCEPT !.at = "validation",
                          !.bundle.n = Current(srv),
                          !.bundle.sub = IF Current(srv) = 0 THEN "none"
                                         ELSE srv.subs[Current(srv)]]
  /\ UNCHANGED <<srv, posts, pageVars, call>>

ReadValidation ==
  /\ load.at = "validation"
  /\ load' = [load EXCEPT !.at = "evaluation",
                          !.bundle.validated = load.bundle.n # 0
                                               /\ srv.validated = load.bundle.n]
  /\ UNCHANGED <<srv, posts, pageVars, call>>

(* Faulty variant: the evaluation of an earlier submission is kept. *)
OutcomeOfAny(v, n) == IF n = 0 THEN "none" ELSE v.evaluated.outcome

(* Only the newest evaluation is looked at, and only kept if it is of the    *)
(* submission that was read.                                                 *)
OutcomeOf(v, n) ==
  IF n # 0 /\ v.evaluated.sub = n THEN v.evaluated.outcome ELSE "none"

ReadEvaluation ==
  /\ load.at = "evaluation"
  /\ load' = [load EXCEPT !.at = "settlement",
                          !.bundle.outcome = OutcomeOf(srv, load.bundle.n)]
  /\ UNCHANGED <<srv, posts, pageVars, call>>

(* The row of the submission that was read *)
ReadSettlement ==
  /\ load.at = "settlement"
  /\ load' = [load EXCEPT !.at = "answer", !.met = 0,
                          !.bundle.settlement = IF load.bundle.n = 0 THEN "none"
                                                ELSE srv.payments[load.bundle.n]]
  /\ UNCHANGED <<srv, posts, pageVars, call>>

(* The rate limit, an expired session, a failed read, no network *)
LoadFails ==
  /\ load.at \in {"task"} \cup Reading
  /\ Refuse("failed")
  /\ UNCHANGED <<srv, posts, pageVars, call>>

-----------------------------------------------------------------------------
(* The page. *)

Result ==
  [ kind : {"none", "state", "denied", "failed"}, by : People \cup {Nobody},
    bundle : Bundle, taskBy : People \cup {Nobody}, behind : SUBSET Kinds ]

NoResult ==
  [ kind |-> "none", by |-> Nobody, bundle |-> Blank, taskBy |-> Nobody,
    behind |-> {} ]

(* taskBy is history: whom the server gave the task to.                      *)
(* due: the effect's dependencies have changed and it has not run yet *)
Page == [identity : People \cup {Nobody}, result : Result, due : BOOLEAN]

(* current of TaskDetail *)
Shown(p) == p.identity # Nobody /\ p.result.kind # "none" /\ p.result.by = p.identity
Displayed == Shown(page) /\ page.result.kind = "state"

(* What TaskContent and the sections below it offer: the worker's side, ...   *)
WorkerOffers(b, a) ==
  {kind \in {"claim", "submit"} :
     IF kind = "claim"
     THEN b.status = "OPEN" /\ a # Requester /\ b.assignee \in {Nobody, a}
     ELSE b.status = "IN_PROGRESS" /\ a = b.assignee}

(* ... the three steps of RequesterReview, once there is a submission, ...    *)
ReviewOffers(b, a) ==
  LET Offered == [validate |-> b.status = "SUBMITTED" /\ ~b.validated,
                  review |-> b.status = "UNDER_REVIEW" /\ b.outcome = "none",
                  confirm |-> b.status = "UNDER_REVIEW" /\ b.outcome = "approve"
                                /\ b.sub = "PENDING"]
  IN  {kind \in DOMAIN Offered : a = Requester /\ b.n # 0 /\ Offered[kind]}

(* ... and PaymentSection, where WorkerSettlement is the worker's.            *)
SettleReady(b) ==
  \/ b.status \in {"SETTLING", "SETTLED", "COMPLETED", "PAYMENT_FAILED", "UNDER_REVIEW"}
  \/ b.settlement \notin NoRow

PaymentOffers(b, a) ==
  {kind \in {"release"} : a = b.assignee /\ b.sub = "APPROVED" /\ SettleReady(b)}

OffersIn(b, a) == WorkerOffers(b, a) \cup ReviewOffers(b, a) \cup PaymentOffers(b, a)

Offers == IF Displayed THEN OffersIn(page.result.bundle, page.identity) ELSE {}

(* Taking the content off the page ends its pending flags, not its requests. *)
Unmounted == [s \in Slots |-> [posts[s] EXCEPT !.mounted = FALSE]]

(* Nothing else happens on the page before an answer that is next in line. *)
InLine == dropped.at = "none"

(* The session of the page: synchronize of WalletProvider clears it before it *)
(* sets another, and so do connect and disconnect.                           *)
SwitchIdentity ==
  /\ switches < MaxSwitches /\ InLine
  /\ \E who \in IF page.identity = Nobody THEN People ELSE {Nobody} :
       page' = [page EXCEPT !.identity = who, !.due = TRUE]
  /\ posts' = Unmounted
  /\ switches' = switches + 1
  /\ UNCHANGED <<srv, load, dropped, call>>

(* The effect: its clean-up drops the load in flight.  If the answer is in by *)
(* now it is past aborting and next in line for the page.                    *)
RunEffect ==
  /\ page.due /\ InLine
  /\ page' = [page EXCEPT !.result = NoResult, !.due = FALSE]
  /\ dropped' = IF load.at = "answer" THEN [load EXCEPT !.legal = {}] ELSE dropped
  /\ load' = IF page.identity = Nobody THEN NoLoad
             ELSE [NoLoad EXCEPT !.at = "task", !.by = page.identity]
  /\ posts' = Unmounted
  /\ UNCHANGED <<srv, switches, call>>

ResultOf(l) ==
  [ kind |-> l.kind, by |-> l.by, bundle |-> l.bundle, taskBy |-> l.by,
    behind |-> l.behind ]

LoadArrives ==
  /\ load.at = "answer" /\ InLine
  /\ page' = [page EXCEPT !.result = ResultOf(load)]
  /\ load' = NoLoad
  /\ UNCHANGED <<srv, posts, dropped, switches, call>>

(* Faulty variant: the flag of the effect's closure is not looked at. *)
HeardAnyway(active) == TRUE

Heard(active) == active

DroppedArrives ==
  /\ dropped.at = "answer"
  /\ page' = IF Heard(FALSE) THEN [page EXCEPT !.result = ResultOf(dropped)] ELSE page
  /\ dropped' = NoLoad
  /\ UNCHANGED <<srv, load, posts, switches, call>>

(* Faulty variant: the attempt is not counted up. *)
RefreshedOnce(p) == [p EXCEPT !.result = NoResult]

Refreshed(p) == [p EXCEPT !.result = NoResult, !.due = TRUE]

(* There is no such button on a refusal to show the task.  React runs an     *)
(* effect that is due before it handles a click.                             *)
Retry ==
  /\ ~page.due /\ InLine /\ Shown(page) /\ page.result.kind = "failed"
  /\ page' = Refreshed(page)
  /\ UNCHANGED <<srv, load, posts, dropped, switches, call>>

-----------------------------------------------------------------------------
(* The buttons. *)

(* n is the submission a release names, or the one under review. *)
Post ==
  [ at : {"none", "sent", "evaluating", "answered"}, kind : Kinds,
    by : People \cup {Nobody}, n : Nat, pending : BOOLEAN, budget : BOOLEAN,
    ok : BOOLEAN, mounted : BOOLEAN ]

NoPost ==
  [ at |-> "none", kind |-> "claim", by |-> Nobody, n |-> 0, pending |-> FALSE,
    budget |-> FALSE, ok |-> FALSE, mounted |-> FALSE ]

(* The running flag of each form *)
Running(kind) ==
  \E s \in Slots : posts[s].at # "none" /\ posts[s].kind = kind /\ posts[s].mounted

(* kind is one of the Offers. *)
Click(s, kind) ==
  /\ posts[s].at = "none" /\ ~page.due /\ InLine
  /\ ~Running(kind)
  /\ posts' = [posts EXCEPT ![s] =
       [NoPost EXCEPT !.at = "sent", !.kind = kind, !.by = page.identity,
                      !.n = IF kind = "release" THEN page.result.bundle.n ELSE 0,
                      !.mounted = TRUE]]
  /\ UNCHANGED <<srv, load, pageVars, call>>

Answers(s, ok) ==
  posts' = [posts EXCEPT ![s] = [NoPost EXCEPT !.at = "answered", !.kind = posts[s].kind,
                                               !.by = posts[s].by, !.ok = ok,
                                               !.mounted = posts[s].mounted]]

Effects(v, kind, a, s) ==
  CASE kind = "claim" -> {Claimed(v, a)}
    [] kind = "submit" -> {Submitted(v)}
    [] kind = "validate" -> {Validated(v, valid) : valid \in BOOLEAN}
    [] kind = "confirm" -> {Confirmed(v)}
    [] kind = "release" -> {Released(v, s)}

(* A settlement that is open may be answered either way, and every answer    *)
(* may be lost, which the form takes for a failure.                          *)
Serve(s) ==
  /\ posts[s].at = "sent" /\ posts[s].kind # "review"
  /\ Accepts(srv, posts[s].kind, posts[s].by, posts[s].n)
  /\ \E v \in Effects(srv, posts[s].kind, posts[s].by, posts[s].n) : Commit(v)
  /\ \E ok \in BOOLEAN : Answers(s, ok)
  /\ UNCHANGED <<pageVars, call>>

(* reviewSubmission up to the call of the provider *)
ServeReview(s) ==
  /\ posts[s].at = "sent" /\ posts[s].kind = "review"
  /\ AcceptsReview(srv, posts[s].by)
  /\ posts' = [posts EXCEPT ![s].at = "evaluating", ![s].n = Current(srv),
                            ![s].pending = srv.subs[Current(srv)] = "PENDING",
                            ![s].budget = HasBudget(srv)]
  /\ StartCall(s)
  /\ UNCHANGED <<srv, load, pageVars>>

(* Not accepted, no provider, the rate limit, an expired session, a failure, *)
(* or the request is lost                                                    *)
ServeRefuses(s) ==
  /\ posts[s].at = "sent"
  /\ Answers(s, FALSE)
  /\ UNCHANGED <<srv, load, pageVars, call>>

(* ... and from there on *)
ReviewEnds(s) ==
  /\ posts[s].at = "evaluating" /\ call[s].at = "done"
  /\ LET verdict == call[s].result
         decision == Decide(verdict, posts[s].pending, posts[s].budget)
         applies == verdict \in Verdicts /\ Applies(srv, decision, posts[s].n)
     IN  /\ IF applies THEN Commit(Reviewed(srv, decision, posts[s].n))
            ELSE UNCHANGED <<srv, load>>
         /\ \E ok \in {FALSE, applies} : Answers(s, ok)
  /\ EndCall(s)
  /\ UNCHANGED pageVars

(* Faulty variant: the review trusts the provider's timer. *)
ReviewTimesOutNever(s) == FALSE /\ UNCHANGED vars

(* The race's own timer; the call goes on, but nobody listens to it. *)
ReviewTimesOut(s) ==
  /\ posts[s].at = "evaluating" /\ call[s].at # "done"
  /\ Answers(s, FALSE)
  /\ EndCall(s)
  /\ UNCHANGED <<srv, load, pageVars>>

Provider(s) ==
  /\ Fetched(s) \/ Abort(s) \/ BodyRead(s)
  /\ UNCHANGED <<srv, load, posts, pageVars>>

(* For the history of a load that is out *)
ToldOf(kind) ==
  load' = IF load.at = "none" THEN load ELSE [load EXCEPT !.behind = @ \cup {kind}]

(* onRefresh: the bundle is asked for again. *)
HearSuccess(s) ==
  /\ posts[s].ok /\ posts[s].kind # "claim"
  /\ page' = Refreshed(page)
  /\ posts' = [Unmounted EXCEPT ![s] = NoPost]
  /\ ToldOf(posts[s].kind)

(* onClaimed: what a claim returned goes over whatever the page has by now.   *)
HearClaim(s) ==
  /\ posts[s].ok /\ posts[s].kind = "claim"
  /\ page' = IF page.result.kind # "state" THEN page
             ELSE [page EXCEPT !.result.bundle.status = "IN_PROGRESS",
                               !.result.bundle.assignee = posts[s].by,
                               !.result.taskBy = posts[s].by]
  /\ posts' = [posts EXCEPT ![s] = NoPost]
  /\ ToldOf("claim")

(* The form shows the error, if it is still there, and is free again.         *)
HearFailure(s) ==
  /\ ~posts[s].ok
  /\ posts' = [posts EXCEPT ![s] = NoPost]
  /\ UNCHANGED <<page, load>>

Hear(s) ==
  /\ posts[s].at = "answered" /\ InLine
  /\ HearSuccess(s) \/ HearClaim(s) \/ HearFailure(s)
  /\ UNCHANGED <<srv, dropped, switches, call>>

-----------------------------------------------------------------------------
(* Everyone else: other pages, scripts, the executor, and the first reader   *)
(* after the deadline.                                                       *)

Elsewhere ==
  /\ load.at \in Reading => load.met < MaxMet
  /\ \/ \E kind \in Kinds \ {"review"}, a \in People :
          /\ Accepts(srv, kind, a, Current(srv))
          /\ \E v \in Effects(srv, kind, a, Current(srv)) : v # srv /\ Commit(v)
     \/ /\ AcceptsReview(srv, Requester)
        /\ \E verdict \in Verdicts :
             LET decision == Decide(verdict, srv.subs[Current(srv)] = "PENDING",
                                    HasBudget(srv))
             IN  /\ Applies(srv, decision, Current(srv))
                 /\ Commit(Reviewed(srv, decision, Current(srv)))
     \/ /\ srv.status = "UNDER_REVIEW" /\ HasBudget(srv)      \* requestRevision
        /\ Commit(Revised(srv))
     \/ \E s \in DOMAIN srv.payments, paid \in BOOLEAN :
          Settles(srv, s) /\ Commit(Settled(srv, s, paid))
     \/ srv.sending /\ Commit(RolledBack(srv))
     \/ \E s \in DOMAIN srv.payments :
          srv.payments[s] \notin NoRow /\ Commit(Deleted(srv, s))
     \/ /\ srv.status \in {"OPEN", "IN_PROGRESS"}               \* expireTask
        /\ Commit([srv EXCEPT !.status = "EXPIRED"])
  /\ UNCHANGED <<posts, pageVars, call>>

-----------------------------------------------------------------------------
Init ==
  /\ \E worker \in Workers \cup {Nobody} :
       srv = [ status |-> "OPEN", assignee |-> worker, subs |-> <<>>, validated |-> 0,
               evaluated |-> NoEvaluation, confirmable |-> {},
               payments |-> <<>>, sending |-> FALSE, revisions |-> 0 ]
  /\ \E who \in People \cup {Nobody} :
       page = [identity |-> who, result |-> NoResult, due |-> TRUE]
  /\ load = NoLoad /\ dropped = NoLoad
  /\ posts = [s \in Slots |-> NoPost]
  /\ switches = 0
  /\ EvaluationInit

LoadSteps ==
  \/ ReadTask \/ ReadSubmission \/ ReadValidation \/ ReadEvaluation
  \/ ReadSettlement \/ LoadFails \/ LoadArrives \/ DroppedArrives

PostSteps(s) ==
  \/ Serve(s) \/ ServeReview(s) \/ ServeRefuses(s) \/ ReviewEnds(s)
  \/ ReviewTimesOut(s) \/ Hear(s)

Next ==
  \/ LoadSteps \/ SwitchIdentity \/ RunEffect \/ Retry \/ Elsewhere
  \/ \E s \in Slots :
       \/ PostSteps(s) \/ Provider(s)
       \/ \E kind \in Offers : Click(s, kind)

(* The browser and the server go on, and timers fire; the provider, people   *)
(* and other pages need not do anything.                                     *)
Fairness ==
  /\ WF_vars(LoadSteps) /\ WF_vars(RunEffect)
  /\ \A s \in Slots : WF_vars(PostSteps(s))

Spec == Init /\ [][Next]_vars /\ Fairness

-----------------------------------------------------------------------------
TypeOK ==
  /\ srv \in Server
  /\ page \in Page
  /\ load \in Load /\ dropped \in Load
  /\ posts \in [Slots -> Post]
  /\ switches \in 0..MaxSwitches
  /\ call \in [Slots -> Call]

(* A page never starts out with a button that the server would have refused  *)
(* during the whole load: the bundle's rows, read at different times, are    *)
(* combined into nothing that was never true.  Two buttons are exceptions: a *)
(* release is offered, and refused, of a settlement that has failed, and of  *)
(* one whose row was deleted while its task was not back under review; and   *)
(* an approval is recorded even when the review that it is of has been       *)
(* overtaken, so it may reach a bundle whose task was read before that.      *)
OffersWereLegal ==
  load.at = "answer" /\ load.kind = "state" =>
    \A kind \in OffersIn(load.bundle, load.by) :
      \/ kind \in load.legal
      \/ kind = "release" /\ load.bundle.settlement \in {"FAILED", "deleted"}
      \/ kind = "confirm" /\ "review" \in load.legal /\ load.bundle.n \in srv.confirmable

(* Once the server has told the page of a change it asked for, the page does *)
(* not show the task as it was before, whichever answers are still to come.  *)
(* The exception is a claim, whose answer is shown without a load of its own *)
(* and gives way to one that was already out.                                *)
OwnWritesAreShown == Displayed /\ ~page.due => page.result.behind \subseteq {"claim"}

(* Whatever the provider does, every button that was pressed is free again. *)
PostsAreAnswered ==
  \A s \in Slots : []<>(posts[s].at = "none")

(* The page never stays on "Loading task". *)
PageSettles == []<>(~page.due /\ (page.identity = Nobody \/ Shown(page)))

(* TaskDetail.tsx:84: "Never display an earlier wallet's private response    *)
(* after an account change."                                                 *)
OwnView == Displayed => page.result.taskBy = page.identity
=============================================================================
