# CeloTasker: verification models

CeloTasker lets a requester post a paid task, a worker claim it and hand in
work, a language model recommend a verdict, a person confirm it, and a relayer
account pay the worker on the Celo chain. The models in this directory are
about the parts of it where mistakes cost money or show someone what is not
theirs: the request handlers that move a task through its life, the executor
that pays, signing in, and the page on which all of it is done.

## The system

| Component | State | Operations | Interacts with |
|---|---|---|---|
| Task state machine (`lib/workflow/TaskStatus.ts`) | none: the whitelist of transitions | `canTransition` | every service |
| Task service (`TaskService.ts`) | `Task`, `Submission`, `TaskEvent` rows | create, list, claim, submit, revise, expire | routes; the review delegates revisions to it |
| Validation (`ValidationService.ts`, `DeterministicValidator.ts`) | the same rows | validate the current submission, enter review | deterministic validator |
| Review (`ReviewService.ts`) | the same rows | evaluate, decide, reject or record | evaluation provider, with a timeout |
| Confirmation (`ConfirmationService.ts`) | the same rows | a person confirms the recorded recommendation | |
| Settlement gate (`SettlementService.ts`) | `Settlement` row, `Task.status` | authorise one payment | executor |
| Settlement executor (`lib/settlement/SettlementExecutor.ts`) | `Settlement` row, `Task.status` | claim, broadcast, store the hash, recover it, wait for depth, finalise | relayer account, Celo RPC |
| Settlement routes (`app/api/settlements/route.ts`) | `Settlement` row | POST (settle or resume), DELETE | executor |
| Relayer (`CeloRelayer.ts`, `RelayerConfig.ts`) | none | build calldata, send, read receipts, scan for a lost broadcast | Celo RPC |
| Sign-in (`lib/auth/*`, `app/api/auth/*`) | challenges in memory, `Session` rows | challenge, verify, validate, log out | wallet |
| Rate limiter (`lib/security/rateLimit.ts`) | buckets in memory | count and refuse | every route |
| Evaluation provider (`lib/evaluation/*`) | none | prompt, bounded read, parse | Gemini |
| Wallet provider (`components/wallet/*`, `lib/wallet/eip1193.ts`) | React state, refs, the session cookie | detect, synchronise, connect, read the balance, disconnect | injected wallet, sign-in routes |
| State bundle (`app/api/tasks/[id]/state`) | none | read a task and what belongs to it | database, page |
| Task page (`components/tasks/*`) | React state: the last bundle, forms | load, claim, submit, validate, review, confirm, release | state bundle, routes, wallet provider |

The server keeps its state in the database, except for challenges and rate
limits; handlers run concurrently and share nothing else. Each handler reads rows, decides, and commits one transaction
whose first write is an `updateMany` guarded on what must still hold. What is
hard is everything that lies between the reads and the guard, and between the
database and the chain: requests that overlap or arrive late, verdicts that
take minutes, deadlines that only readers notice, replies of the node that are
lost, crashes between the broadcast and the hash, reorganisations, and payments
that nothing on chain tells apart. In the browser it is that nothing waits for
anything else: the wallet changes its account while a sign-in is out, answers
arrive after what they answer, and a page that never polls acts on a task that
others have moved on. `PROJECT.json` lists these hazards, each at
its line, with the properties that cover it.

## Modules

| Module | What it is |
|---|---|
| `TaskStatus` | the whitelist, and what one committed transaction may do to a status |
| `TaskWorkflow` | all handlers of the workflow over one task, as overlapping requests |
| `TaskLifecycle` | what a task's row promises: the same life with atomic operations |
| `TaskWorkflowProofs` | theorems about `TaskWorkflow`, and that it implements `TaskLifecycle` |
| `TaskWorkflowOverlapProofs` | theorems about what overlapping requests leave of three promises of the services |
| `SettlementExecution` | the executor, the gate's rows and DELETE, over a chain that reorganises |
| `PaymentRecord` | what the records of a payment promise: six atomic operations |
| `SettlementExecutionProofs` | theorems about `SettlementExecution`, and that it implements `PaymentRecord` |
| `SettlementTruthProofs` | theorems about `SettlementExecution` that relate its records to the chain |
| `AuthServer` | challenges, sessions and the bucket of one route, each request served in one step |
| `WalletSession` | the wallet provider of one page, extending `AuthServer`: every await of detection, synchronisation, sign-in, balance and sign-out |
| `WalletSessionProofs` | theorems about both |
| `Evaluation` | one call of the evaluation provider, and what the review makes of its answer |
| `TaskPage` | the page of one task, extending `Evaluation`: the bundle it loads, the buttons it offers, the requests they send, and everyone else |
| `TaskPageProofs` | a theorem about it: what it shows after a change of its own |
| `TaskPageServerProofs` | lemmas about what one operation of its server makes of the rows |
| `TaskPageOfferProofs` | theorems about its rows, its types and the buttons it offers |
| `MCTaskWorkflow`, `MCSettlementExecution`, `MCWalletSession`, `MCTaskPage` | symmetry for TLC, and bounds that relate several counters (`Bounded`); the other bounds are in the `.cfg` files |

Definitions marked "Faulty variant" are deliberate mistakes, used only to show
that the properties notice them: in place of the definition that follows, each
makes TLC report a violation.

### TaskWorkflow and the code

A request in flight is a record in `req`: the label of its next step and what it
has read (`sub`, the submission; `actor`; what a review remembers of `PENDING`
and of the revision budget). A handler is a few actions: one for each read that
later steps depend on (`ClaimRead`, `ValidateRead`, `ValidateLoad`, ...) and one
for its transaction (`ClaimTask`, `ValidateSubmission`, ...), whose guard is the
`where` of its first `updateMany`. The guard is tested again at the commit, the
reads are not: that gap is what the model is about.

* One transaction is one step. PostgreSQL runs it at READ COMMITTED, and its
  first statement is the guarded update, which locks the row it tests.
* One task. No handler's transaction touches rows of two tasks.
* Statuses written and left in the same transaction (`ASSIGNED`,
  `UNDER_VALIDATION`, ...) are never visible; `TransitionVia` and `LegalCommit`
  check both moves.
* Content of a submission is whether the deterministic validator accepts it;
  reward and token are whether the gate accepts them (`payable`); the deadline
  is none, future or past, and time passes in `DeadlinePasses`.
* The evaluation answers any recommendation, or fails, or times out.
* Of `TaskEvent`, the model keeps the types that a handler or a property reads
  back. Reads that find nothing to do answer without a step.
* `Fail` is a crash, a failed read, or a rolled back transaction, at any step.

`TaskLifecycle` has no requests: seven atomic operations on status, creator,
assignee, lateness and round. `ImplementsLifecycle` says every step of the
interleaved handlers is one of them or changes nothing of the row.

### SettlementExecution and the code

A payment is the approved submission of a task (one per task; the workflow up
to the approval is `TaskWorkflow`'s). `row` is its `Settlement` row, with an id
because the executor addresses rows by id and DELETE may replace them; `chain`
is the sequence of transactions that a node accepted, so that a hash is an
index. A transaction is pending, mined or buried (deep enough), and it succeeds
or reverts when it is mined, or succeeds without the expected Transfer
(`Unverified`, `:904-922`: nothing final is written); a reorganisation makes it pending again; a
transaction that is dropped is one that stays pending.

Each `await` of `settleSubmission` and what it calls is one action: `Post` (look
up the row), `Gate`, `Lock` (the gate's transaction), `Raced` (the second look
after a lost race), `Execute` (reads before the pre-flight), `Claim`, `Send`,
`Persist`, `Confirm`, `Scan`, `Filter`, `Attach`, `Receipt`, `Finalize`;
`SendError` and `Rollback` are the error path of the broadcast. In every run
`sendTransaction` may throw, and then the task is put back under review
(`SettlementExecutor.ts:350-385`), whatever the reason was. The constant
`Hazards` says which hazards a run admits besides: that the node has the
transaction although it threw (`"lostReply"`), a recovery scan whose window misses
transactions (`"missedScan"`), the use of DELETE (`"deletion"`). `Alike` says that all
payments have the same requester, worker, token and amount, so that their
calldata is identical. Crashes and failures are counted by `faults`.

Abstracted: the audit events (nobody reads them back), the pre-flight checks
(any may refuse, `Preflight`), amounts and addresses, the block numbers behind
"deep enough", and the arithmetic of the recovery window. `PaymentRecord` keeps
only each payment's task, row status and hash, with the operations authorise,
broadcast, attach, conclude, reopen and remove. Between the rollback
and the retry the workflow could also ask for a revision: `TaskPage` does, with the
executor as its outcomes; composing it with every step of the executor is planned.

### AuthServer, WalletSession and the code

`AuthServer` has one operator for each route of `app/api/auth`, and one for the
decision and one for the count of the limiter. A nonce is its number, a session
token the number of its `grants` entry; `admitted` and `grants` are history,
which the code does not keep. A restart empties what a process has in memory
and leaves the rows. Signatures are who signed; a message is its nonce, address
and times, since the page signs what the server has built and its other checks
cannot fail.

`WalletSession` lets the wallet change its account or chain at any step, and
tells the page later (`notices`). `walletRevision` only ever says whether an
operation's captured number is still the newest, so the model keeps that answer
(`fresh`) in the operation. Several `synchronize()` may run at a time, one
`connect()` does (its button is disabled), with a balance read for each session.
An overtaken synchronisation could only have its answers discarded: it is kept
if they would sign the page in and dropped if not (`Kept`), which loses no
behaviour of the page. The two reads of the wallet in one synchronisation are
one step, because a change between them sends a notice just as one after them
does. A request may be refused or fail at any step, and a verification may be
served and its answer lost, after which it is delivered again or fails.

The balance is read by an effect that React runs some time after the render that
signed the page in (`WalletProvider.tsx:211-213`). `due` holds the sessions whose effect has
not run: when a wallet event comes first, the effect reads for the account of its
render under the revision that the event has made current (`RunBalanceEffect`). The
cookie is changed by this page only. A sign-in in another tab of the browser, which
shares it, is not modelled.

### TaskPage, Evaluation and the code

A load is a record that goes through the route's reads one by one
(`ReadTask` to `ReadSettlement`), then an answer; `dropped` is one whose effect
was cleaned up when the answer was already past aborting. `page.due` says that
the effect's dependencies have changed and that React has yet to run it; React
does so before it handles another event. `OffersIn` translates the conditions
under which each component renders its button, `Accepts` what each route lets an
actor do; both look at the same rows, one at what was loaded, the other at what
is. What is offered to someone (`Offers`) is what he can click. A handler is one
step here, since its interleavings are `TaskWorkflow`'s, but for a review, which
evaluates in between. `Elsewhere` is every change that other pages, scripts, the
readers of an expired task and the executor can make.

Each submission has its own settlement (`payments`), as in the database, and the
bundle shows that of the submission it read. The executor appears as its outcomes:
an open settlement is concluded while the task is SETTLING (`Settled`), also that of
an earlier submission; a send that threw puts the task back under review, with its
settlement as it is (`RolledBack`); and DELETE removes any settlement, a confirmed
one too, since its read is a step earlier (`Deleted`). So a task may be revised after a
failed send, and have two settlements. `sending` says that the executor of the last
lock may still throw; `"deleted"` is what the code sees as no row. Texts, scores and reasons are left out. `legal`, `behind`, `met` and
`taskBy` are history for the properties.

`Evaluation` has the provider's own timer, which ends when the headers arrive
(`GeminiEvaluator.ts:411`): the body may take for ever, and what bounds it is the
timer of the review (`ReviewService.ts:300`). The development override may stand
in for any failure of the call, but not for an answer that is no evaluation.

## What is checked

Safety of the workflow (`workflow`, three wallets, two overlapping requests,
two revisions, which is the code's own limit, `SecurityPolicy.ts:52`):

* `RoundsMatchSubmissions`: one submission per round, and never more than the
  budget of revisions and one, however revisions and reviews race for the last.
* `OnlyNewestIsLive`: nothing but the newest submission is pending or approved.
* `PaymentNeedsConfirmation`: no approval or settlement without the
  recommendation and the confirmation of that very submission.
* `OneSettlement`, `WorkIsByAssignee`, `OnlyLegalSteps`,
  `DeadSubmissionsStayDead`, `ImplementsLifecycle`, and the inductive invariant
  `WorkflowInv` of the proofs, which has the type invariant as its first part.

Three promises of the documentation hold when requests do not overlap, and
`workflow_serial` (one request at a time) shows that: only a validated submission
is reviewed (`ReviewFollowsValidation`), only the current one is settled
(`SettlesCurrent`), and a rejection is of the newest (`RejectionIsOfNewest`). With
two overlapping requests each of the three fails, because no transaction repeats
the reads that came before it; `workflow_stale_settlement` is the run for the one
that moves money. What overlap leaves of them is checked in `workflow`, and proved
for any number of requests:

* `ReviewWasValidated`: a task is under review because its newest submission was
  validated, or an earlier one that is valid. Refused work never counts.
* `SettledWasApproved`: what is settled is the current, approved submission, or was
  approved until a revision superseded it.
* `RejectionHasItsWork`: a rejection is of the newest submission, or of one the
  validator had refused; valid work is rejected only together with its task.

`workflow_serial` also checks that every request is answered and that a task past
its deadline expires.

Settlement:

* `settlement` (one payment, three requests, one fault, two rows, every hazard at
  once):
  * `FinalRowsAreTrue` and `FailedIsUnpaid`: final rows and failed tasks tell the
    truth about the chain, unless the submission was sent two transactions
    (`SentOnce`): one may fail and the other pay, and a row cannot stand for both.
  * `CompletedIsPaid`: a completed task was paid by a transaction of its own,
    whatever was deleted.
  * `BroadcastHoldsLock`: no task is under review while a request may be sending for
    it or recording what it sent.
  * `LegalOrReopened`: the only step off the whitelist is the rollback of the very
    send that threw, never one of an earlier attempt.
  * `RowsOnlyAdvance` and `ImplementsRecord`: rows and tasks change only as
    `PaymentRecord` allows. `ExecutionInv` is the inductive invariant of the proofs,
    with the type invariant in it.
* `settlement_steady` (three requests, two faults, sends that are refused): every
  request is answered, and a payment made on chain completes its task although a
  crash lost its hash.
* `settlement_alike` (two payments with the same calldata, rows deleted at any
  moment, missed scans): one transfer for each row and for each submission, and
  no transfer proves two rows.
* `settlement_paid_never_completes`, `settlement_paid_twice` and
  `settlement_others_payment` refute statements of the code's own comments and
  tests. The rollback after a lost reply leaves a paid task open for ever; followed
  by DELETE it pays twice; and recovery may credit a settlement with the transfer of
  another.

Signing in (`sign_in`: two wallets, up to three challenges and events of the
environment beside what the page does, two synchronisations at a time):

* `SignInIsCurrent`: a page that says it is signed in names a wallet that proved
  itself, and, when no notice is on its way, the wallet's own account and chain,
  whatever was out when they changed.
* `BalanceIsOfSession`: the balance on display is of the account beside it.
* `SessionsWereSigned`: one session for one challenge, signed by its wallet, with
  verifications delivered twice and restarts that forget what was used.
* `BurstBounded`: what a fixed window promises. Of any `2 * limit` admissions in a
  row the first and the last are a window apart. A window begins with an admission,
  so up to `2 * limit - 1` may fall into one interval of its length. With the limit
  of two and the window of two ticks of this run that is three, and three do: other
  clients ask for up to six challenges, over several windows and restarts. The
  route's limit is 5 in 60 s.

The page. `task_page` has requester and worker, one request at a time, one revision,
up to two changes of identity, and up to two changes by others within a load:

* `OffersWereLegal`: rows that were read at different times are combined into
  no offer that the server would have refused all through the load. There are
  exceptions: a settlement that FAILED, or one that was deleted while its task
  was not back under review, is still offered for release, and refused; and an
  approval is recorded even after another review has overtaken it
  (`ReviewService.ts:400`), so that a load which read the task before may offer to
  confirm it. The property ends with the load: what others do afterwards is not on
  the page before the next one, and a click on what has become illegal is refused.
* `PostsAreAnswered`: no button stays busy, although the provider may never answer.
* `OwnWritesAreShown`: once told of a change of its own, the page never goes back
  to showing the task before it, although loads are dropped and answers to them
  still arrive. The exception is a claim: its answer is shown without a new load,
  and one that was out before undoes it.
* `PageSettles`: the page does not stay loading.

`page_shows_earlier_identity` refutes a comment (`TaskDetail.tsx:84`): the answer to a
claim goes over whatever the page shows when it arrives (`:121`), also when another
wallet's bundle is on display by then.

What a run of the executor assumes is in its `Hazards`, and where one is left out it
is needed. `PaidOnce` fails when replies are lost and rows are deleted as well, which
`settlement_paid_twice` shows; without lost replies `settlement_alike` checks it, and
`SubmissionsPaidOnce` proves it unless the two hazards meet. `PaidTasksComplete` fails
with `"lostReply"` (`settlement_paid_never_completes`), with `"deletion"`, and with
`"missedScan"`, since a transfer outside the scanned window is never found.
`FinalRowsAreTrue` is checked for one payment. It fails with two alike, even without
other hazards: an executor whose guarded persist matched nothing
(`SettlementExecutor.ts:415`) finalises the row by the receipt of its own hash.

### Bounds

Two overlapping requests show every race of the workflow between a read and a
commit, since a commit conflicts with at most one other at a time; three wallets
are a requester, a worker and a rival. Two revisions give three rounds, so a
request can be stale by one and by two. In the executor three requests let one
send, one recover and one still be at the gate; two payments are enough to take
each other's transfer; `MaxRows` lets a deleted row be replaced, and faults are
bounded by `MaxFaults`.

In `settlement` a second fault changes nothing (1.95 million states); it is left out to
keep the run short.

In `sign_in` two wallets are the account before a change and the one after; two
synchronisations let one be overtaken by another; a second challenge lets one be
replayed or lost while the next is in use; lifetimes of one and two ticks let
either expire. Events are changes of the wallet, ticks, restarts and requests of
other clients. To fill two windows takes nine of them and six challenges: that many
are allowed while the page does nothing yet, and three in all once it takes part
(`PageBound`), which is enough for any of its own operations to be overtaken. The page
by itself also passes with two events and two challenges.

In `task_page` `MaxMet = 2` lets two changes of others fall between the reads of a
load, at any place. Two changes of identity sign out and in again as another, or as
the same. `Bounded` keeps two things apart: the page's last change of identity, and
the reviews and revisions, which matter to what it reads rather than to what it makes
of its answers. It blocks only steps without fairness, so that liveness is not
weakened. Safety also passes with five changes by others in a load, with two
revisions, with two requests at a time, and, without `Bounded`, with one revision, two
changes of identity and `MaxMet = 1` (5.9 million states). The run for the earlier
identity has two slots and a second worker.

The proofs hold for every value of the constants that state these bounds.

### Fairness

`TaskWorkflow`: weak fairness of each request's steps, since every `await` of a
handler settles (the evaluation by its timeout); strong fairness that some
reader meets an expired task while one exists, and of the expiry it starts,
since readers may lose races and fail but not for ever. Nothing is assumed of
people or of the provider. `SettlementExecution`: weak fairness of each
request's steps, and of the worker's POST, since the page keeps offering it; the
bound on faults says that failures end. No fairness of the chain is assumed:
`PaidTasksComplete` starts from a transaction that is buried. `TaskPage`: weak
fairness of the load, of the effect (React runs it), and of each request's
steps, including the review's timer; nothing of the provider, of people, or of
other pages. `WalletSession` states no liveness and no fairness: a wallet may
leave a request open for ever, and the page then waits with it.

## What is proved

`TaskWorkflowProofs`, for any set of wallets, any set of concurrent requests and
any revision budget, assuming only that `NoActor` is not a wallet and that
`MaxRevisions` is a natural number.

`WorkflowInv` is inductive. The safety invariants alone are not: a commit trusts
what its request read some steps earlier. `RequestOK` therefore says, label by
label, what a request in flight may rely on, all of it facts that no transaction
can undo: a deadline that has passed, a submission that exists, an event that is
recorded, the creator, and the assignee once there is one. `RowsOnlyGain` states
this monotonicity once, and every commit is shown to satisfy it, so that the
other requests keep what they rely on (`OtherRequests`). `AwaitingWork` adds that
nothing awaits a verdict before work is handed in. There is one lemma per
transaction; reads change no row. From `WorkflowInv` follow the type invariant
and the five safety invariants (`WorkflowTypeOK` to `PaymentGoesToAssignee`),
the two action properties (`TransitionsAreLegal`, `DeadStayDead`), and the
refinement (`WorkflowImplementsLifecycle`): every step of the handlers maps to a
step of `TaskLifecycle` or to a stutter.

`TaskWorkflowOverlapProofs` is about the three promises that overlapping requests
break. It proves, for any number of requests, what is left of them
(`ReviewsFollowAValidation`, `SettlementsFollowAnApproval`,
`RejectionsHaveTheirWork`). None is about the submission that is current at the commit,
since no commit looks for it; each is about the one its handler had found. The
inductive `OverlapInv` adds to the three `SettleOK`: what a settlement request
carries was approved when it was read, and nothing but a revision or the rejection of
the task can have changed that since. It rests on `WorkflowInv`, whose
`OnlyNewestIsLive` says that whatever a guard finds alive is the newest.

`SettlementExecutionProofs`, for any payments, requests, rows and faults,
identical calldata or not, assuming that `NoPayment` is not a payment and the
bounds are natural numbers; `sendTransaction` may always throw. `OneBroadcast` is not
inductive: a request between its claim and its send has sent nothing yet.
`ExecutionInv` adds

* `SendIsExclusive`: such a request has the row to itself, nothing was sent for the
  row, and a row that can still be claimed has neither;
* `IdsAreFresh`: ids are handed out once;
* `SendersHoldLock`: a submission has one sender at a time, which ends before its
  task is under review. This is why a rollback, which writes by id alone, cannot
  undo the lock of a later attempt;
* `OneTransaction`: where no reply is lost, a send that threw has sent nothing, so
  that a submission which is authorised once more has no transaction;
* `OneRowEach`: where rows are not deleted, what rows, requests and transactions of
  a submission refer to is at most one id.

The last two are two separate reasons for `PaidOnce` (`SubmissionsPaidOnce`). Only when
both hazards meet does it fail (`settlement_paid_twice`). All steps that neither create,
claim nor send a row are covered by one lemma, `QuietStep`.

`RecordStep` says what any step does to the row and task of a payment. From it
follow `RowsNeverGoBack`, `SettlementIsLegal`, and the refinement
`ExecutionImplementsRecord`; `LockIsHeld` is part of the invariant. All of them hold with every
hazard.

`SettlementTruthProofs` relates the records to the chain, with every hazard, where
payments can be told apart (`~Alike`): with payments alike a receipt may be that of
another (`settlement_others_payment`). The inductive `TruthInv` says what a request in
flight knows: its hash, and every candidate of its scan, is a transaction of its
own payment; it waits for a receipt only when its row has a hash; what it
finalises is buried. It also says what a row and a task may claim: a hash is of a
transaction of the payment, a failed task has a buried reverted one. A request
finalises by its own hash, not by that of the row; that the two are the same follows
where the submission was sent one transaction (`SentOnce`). So a final row agrees
with the outcome of its transaction (`FinalRowsTellTheTruth`), and a failed task was
not paid (`FailedTasksAreUnpaid`). `CompletedTasksWerePaid` needs no `SentOnce`: a
completed task has a transaction of its own, successful and buried, and what is
buried stays (`BuriedStays`), also when the row is deleted.

`ConfirmedByItsOwn` assumes `Separate` besides, that replies are not lost where rows
are deleted as well: recovery then confirms no settlement with a transfer that was
sent for another row.

`WalletSessionProofs`, for any wallets, lifetimes, clock skew, limit and window,
assuming that `NoWallet` is not a wallet and that the times are naturals, the
limit and the window positive. The server's part of the invariant, `ServerInv`,
adds two facts. `NoncesAreSpent`: the challenge of a session has been issued
before and, where the process still remembers it, it is marked as used; so a
restart may forget it, but nothing un-uses it. `WindowsAreCounted`: the bucket's
count is the number of admissions since its window began with one of them, and
whatever lies a full limit before that is a window older. `BurstBounded` alone
says nothing about the bucket.

The page's part, `PageInv`, adds what each operation that is out may rely on.
`Listening`: whoever has reason to be told of a change of the wallet is
listening, so that no notice means no change. `SyncOK`: at most one
synchronisation counts, and only while the page is neither signing in nor signed
in; what it has read of the wallet is current unless a notice is on its way.
`CookieOK`: whose session the cookie is, which only a sign-in of this page changes
(`Holders`), so that an effect which runs late reads for the account that may sign in
again, or for none. `ConnectOK` says the same of a sign-in that has read its account back, and
`ReadOK` of balances. Since grants are only added (`GrantsKept`), the server's
steps disturb none of this (`QuietStep`). From the two follow `SignInTypeOK`,
`EverySessionWasSigned`, `BurstsAreBounded`, `SignedInAsTheWallet` and
`BalanceOfTheSession`.

`TaskPageProofs`, with no assumption at all: `PageShowsItsWrites`. A result, or a
request that would bring one, may be older than a change the page knows of; the
invariant `BehindIsDue` is that the effect is then due which drops them both, unless
the change was a claim, after which no effect is due.

`TaskPageServerProofs` and `TaskPageOfferProofs`, for any people, any number of
requests at once and any budgets, assuming that `MaxRevisions` and `MaxSwitches`
are naturals. They lead to `OffersAreLegal`, in two layers. The first is the
rows. `RowsAgree` relates the settlements to the status, and the status to the
newest submission: without it an approved submission could be read of a task
that is open, where no release is legal. It is weaker than one would expect of the code,
since a failed send leaves a settlement behind on a task that goes on, and DELETE may
remove one at any time: the settlement by which a task ended need not be that of its
newest submission. `Follows(v, w)` says what an operation may make
of rows `v`: rows `w` that agree again, by a legal move or the rollback of a send
(`Reopens`), with no submission, assignee or confirmable event lost, each settlement
changed only as `PaymentMoves` lists, nothing changed once the task is rejected or expired, and an
approval in a rejected task only if it was there before. There is one lemma per
operation, about any rows and independent of requests; the greatest submission
that is not superseded exists by the principle of the least number (`Greatest`).
`RowsAlwaysAgree`, with the types (`PageTypes`), follows, and with it
`PageMovesAreLegal`: the whitelist, or one rollback for each lock.

The second layer is the load. `OffersWereLegal` speaks of the moment when all
rows have been read, so `OfferInv` says, read by read, what is known until then:
`StatusSeen`, what the status that was read promises; `KeepsUp`, that everything
legal now has been noted, that the assignee is still the one that was read, and
that a rejection is final; `ApprovalSeen`, that an approved submission
was releasable at some time since the first read, or its settlement has failed or is
deleted (`Lost`), or the task had been rejected before, with no settlement. The reads
of a later row may meet any number of operations of others (`MetOK`): each is covered
by `Follows`, and what it makes legal joins the history. The last read
(`SettlementReadOK`) puts these together; the case that is left, a task rejected with
an approved submission, is not offered because no settlement goes with it.

## What is only model-checked

Liveness: `RequestsAreAnswered`, `PastDeadlineExpires`, `PaidTasksComplete`,
`PostsAreAnswered` and `PageSettles` rest on fairness and ENABLED, which the prover
does not handle. `ReviewFollowsValidation`, `SettlesCurrent` and `RejectionIsOfNewest`
are of one request at a time, which no server guarantees; what is proved is what
holds without that. Every other property of the passing runs is a theorem.

## What the models show besides

Behaviour that contradicts no statement of the repository, or that a model could
not reach because nothing reaches it. Signing in:

* The answer to a sign-out clears the cookie it finds. When it is late, that is
  the cookie of the sign-in that followed (`LogoutArrives`): the page says it is
  signed in and the server disagrees.
* A wallet event after Disconnect and before its request is served synchronises
  with the old cookie and signs the page in again.
* A sign-out that failed asks to try again, on a page without a Disconnect button.
* A sign-in that fails its last comparison, after the verification, leaves its
  session and its cookie.
* `VerifyFailureReason` declares `nonce_replayed` (`verification.ts:28`); what the code
  answers (`:89`), and `tests/auth.test.ts:83` expects, is `challenge_replayed`.

Settlement:

* Any throw of `sendTransaction` writes UNDER_REVIEW over SETTLING by id
  (`SettlementExecutor.ts:365`). The whitelist has no such transition, although
  `TaskService.ts:58-60` says that every write of a status, also in the settlement
  path, goes through `transitionTask`. `LegalOrReopened` says when it happens.
* DELETE refuses a CONFIRMED row by what it read before, and deletes by submission
  alone (`route.ts:229`): a row confirmed between the two is removed, against
  `route.ts:158-159`, and the completed task has no record of its payment.
  `CompletedIsPaid` says what is left.

The page:

* `release()` sets its result and refreshes the page, which unmounts the form
  with it: the progress of the settlement and "Retry settlement"
  (`PaymentSection.tsx:560-572`) are never seen, nor is the branch for
  `eligible: false` (`:460`), since the route answers otherwise only with an error.
  That is why `TaskPage` has no action for them.
* The confirmation names no submission: it confirms what is current when it arrives.
* Only the newest `EVALUATION_COMPLETED` is read: a late one, of an earlier
  submission, hides the approval of the current one from the page.
* `lib/api/taskState.ts` repeats the state route with another access rule, and no
  route uses it; the comment at `TaskService.ts:502-503` describes that rule, while
  `state/route.ts:56` also lets anyone see an open task.
* The answer to a claim is undone by the bundle of a load that was sent before it:
  the one exception of `OwnWritesAreShown`.
* DELETE of the settlement of a task that is SETTLING leaves it there without a row:
  the gate lets a retry pass (`SettlementService.ts:82`), and its transaction refuses it.
* DELETE is there "to allow retry" (`route.ts:156`), but a task whose payment failed
  stays PAYMENT_FAILED, and the gate refuses it from then on.
* A rollback, then a revision: the task has two settlements, and the executor of the
  first may still conclude the task while the second is open.
* The allowance of a requester is shared by all tasks: "Already authorized"
  (`PaymentSection.tsx:384`) may be shown for two tasks when it covers one.

## Plan

1. The composition of workflow and executor, step by step: a revision after a
   rollback, and two payments of one task (`TaskPage` has both, with the executor as
   its outcomes).
2. The ERC-20 allowance (`RequesterAllowance` and the executor's pre-flight): two
   releases whose checks both pass on one allowance, of which the second reverts.
3. `BroadcastRecovery`: the window of the recovery scan against the age of a
   settlement and the block time of the chain.
4. The deterministic validator and `RelayerConfig`, as functions over small
   inputs against a reference definition.
5. A second server process, with a memory of its own for challenges and limits.

## What is not modelled

Presentation, serialisation, request-body schemas, scripts and tests: they have
no state, or none that outlives a call. Of the task page, `RequesterAllowance`
and `TaskActivity`; of the evaluation provider, prompt and configuration; of the
relayer, configuration and the arithmetic of its scan. `PROJECT.json` lists every
component with its status and reason.
