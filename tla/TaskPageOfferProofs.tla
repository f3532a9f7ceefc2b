------------------------ MODULE TaskPageOfferProofs ------------------------
(***************************************************************************)
(* What the page offers, for any people, any number of requests at once and *)
(* any budgets: the rows of the task agree with each other also after a     *)
(* rollback or a deletion, the rollback is the only change of its status    *)
(* that is not a legal one, and a bundle whose rows were read at five       *)
(* different times offers no button that the server would have refused      *)
(* during all of them.                                                      *)
(***************************************************************************)
EXTENDS TaskPageServerProofs

-----------------------------------------------------------------------------
(* The requests of the buttons                                               *)

(* A review is of a submission there is; no one claims a task of their own.  *)
PostOK(p, v) ==
  /\ p \in Post
  /\ p.at = "evaluating" => p.n \in DOMAIN v.subs
  /\ p.kind = "claim" => p.by \in Workers \cup {Nobody}

Posted(f, v) == f \in [Slots -> Post] /\ \A s \in Slots : PostOK(f[s], v)

(* What a load has read of a submission is of one there is. *)
SubReads == {"validation", "evaluation", "settlement"}

ReadsOf(l, v) ==
  l.at \in SubReads /\ l.bundle.n # 0 => l.bundle.n \in DOMAIN v.subs

Base ==
  /\ Sound(srv) /\ Posted(posts, srv) /\ ReadsOf(load, srv)
  /\ page \in Page /\ load \in Load /\ dropped \in Load
  /\ switches \in 0..MaxSwitches /\ call \in [Slots -> Call]

LEMMA NothingPosted ==
  ASSUME NEW v
  PROVE  PostOK(NoPost, v)
BY DEF PostOK, NoPost, Post, Kinds

LEMMA AnswerOK ==
  ASSUME NEW v, NEW kind \in Kinds, NEW by \in People \cup {Nobody},
         kind = "claim" => by \in Workers \cup {Nobody},
         NEW ok \in BOOLEAN, NEW mounted \in BOOLEAN
  PROVE  PostOK([NoPost EXCEPT !.at = "answered", !.kind = kind, !.by = by,
                               !.ok = ok, !.mounted = mounted], v)
BY DEF PostOK, NoPost, Post

(* The rows may have grown when one request moves on. *)
LEMMA OnePosted ==
  ASSUME NEW f, NEW v, NEW w, Posted(f, v), DOMAIN v.subs \subseteq DOMAIN w.subs,
         NEW s \in Slots, NEW p, PostOK(p, w)
  PROVE  Posted([f EXCEPT ![s] = p], w)
BY DEF Posted, PostOK

LEMMA StillPosted ==
  ASSUME NEW f, NEW v, Posted(f, v)
  PROVE  Posted([s \in Slots |-> [f[s] EXCEPT !.mounted = FALSE]], v)
<1>1. ASSUME NEW s \in Slots PROVE PostOK([f[s] EXCEPT !.mounted = FALSE], v)
  BY DEF Posted, PostOK, Post
<1> QED BY <1>1 DEF Posted, PostOK

-----------------------------------------------------------------------------
(* The changes of the rows                                                   *)

LEMMA Decisions ==
  ASSUME NEW verdict, NEW pending, NEW budget
  PROVE  Decide(verdict, pending, budget) \in {"approve", "reject", "revise"}
BY DEF Decide

LEMMA MetLoad ==
  ASSUME NEW l \in Load, NEW legal \in SUBSET Kinds
  PROVE  [l EXCEPT !.legal = @ \cup legal, !.met = @ + 1] \in Load
<1>1. l.legal \cup legal \in SUBSET Kinds /\ l.met + 1 \in Nat
  BY DEF Load
<1> QED BY <1>1 DEF Load

LEMMA ServeCommits ==
  ASSUME Base, NEW s \in Slots, Serve(s)
  PROVE  \E w : Commit(w) /\ Follows(srv, w)
<1>1. PICK v : v = srv
  OBVIOUS
<1>2. PICK kind, a, n : kind = posts[s].kind /\ a = posts[s].by /\ n = posts[s].n
  OBVIOUS
<1>3. kind \in Kinds \ {"review"} /\ a \in People \cup {Nobody}
  BY <1>2 DEF Base, Posted, PostOK, Post, Serve
<1>4. Sound(v) /\ Accepts(v, kind, a, n)
  BY <1>1, <1>2 DEF Base, Serve
<1>5. PICK w \in Effects(v, kind, a, n) : Commit(w)
  BY <1>1, <1>2 DEF Serve
<1>6. Follows(v, w)
  BY <1>3, <1>4, <1>5, EffectsFollow
<1> QED BY <1>1, <1>5, <1>6

LEMMA ReviewCommits ==
  ASSUME Base, NEW s \in Slots, ReviewEnds(s)
  PROVE  \/ srv' = srv /\ load' = load
         \/ \E w : Commit(w) /\ Follows(srv, w)
<1>1. PICK v : v = srv
  OBVIOUS
<1>2. PICK decision, n : /\ decision = Decide(call[s].result, posts[s].pending, posts[s].budget)
                         /\ n = posts[s].n
  OBVIOUS
<1>3. decision \in {"approve", "reject", "revise"}
  BY <1>2, Decisions
<1>4. Sound(v) /\ n \in DOMAIN v.subs
  BY <1>1, <1>2 DEF Base, Posted, PostOK, ReviewEnds
<1>5. \/ Applies(v, decision, n) /\ Commit(Reviewed(v, decision, n))
      \/ srv' = srv /\ load' = load
  BY <1>1, <1>2 DEF ReviewEnds
<1>6. ASSUME Applies(v, decision, n) PROVE Follows(v, Reviewed(v, decision, n))
  BY <1>3, <1>4, <1>6, ReviewedFollows
<1> QED BY <1>1, <1>5, <1>6

LEMMA ElsewhereCommits ==
  ASSUME Base, Elsewhere
  PROVE  \E w : Commit(w) /\ Follows(srv, w)
<1>1. PICK v : v = srv
  OBVIOUS
<1>2. Sound(v)
  BY <1>1 DEF Base
<1>3. CASE \E kind \in Kinds \ {"review"}, a \in People :
             /\ Accepts(v, kind, a, Current(v))
             /\ \E w \in Effects(v, kind, a, Current(v)) : Commit(w)
  <2>1. PICK kind \in Kinds \ {"review"}, a \in People :
               /\ Accepts(v, kind, a, Current(v))
               /\ \E w \in Effects(v, kind, a, Current(v)) : Commit(w)
    BY <1>3
  <2>2. PICK w \in Effects(v, kind, a, Current(v)) : Commit(w)
    BY <2>1
  <2>3. Follows(v, w)
    BY <1>2, <2>1, <2>2, EffectsFollow
  <2> QED BY <1>1, <2>2, <2>3
<1>4. CASE /\ AcceptsReview(v, Requester)
           /\ \E decision \in {"approve", "reject", "revise"} :
                Applies(v, decision, Current(v)) /\ Commit(Reviewed(v, decision, Current(v)))
  <2>1. PICK c : c = Current(v)
    OBVIOUS
  <2>2. c \in DOMAIN v.subs
    BY <1>2, <1>4, <2>1, CurrentIs DEF Sound, AcceptsReview
  <2>3. PICK decision \in {"approve", "reject", "revise"} :
          Applies(v, decision, c) /\ Commit(Reviewed(v, decision, c))
    BY <1>4, <2>1
  <2>4. Follows(v, Reviewed(v, decision, c))
    BY <1>2, <2>2, <2>3, ReviewedFollows
  <2> QED BY <1>1, <2>3, <2>4
<1>5. CASE v.status = "UNDER_REVIEW" /\ HasBudget(v) /\ Commit(Revised(v))
  BY <1>1, <1>2, <1>5, RevisedFollows
<1>6. CASE \E s \in DOMAIN v.payments, paid \in BOOLEAN :
             Settles(v, s) /\ Commit(Settled(v, s, paid))
  BY <1>1, <1>2, <1>6, SettledFollows
<1>7. CASE /\ v.status \in {"OPEN", "IN_PROGRESS"}
           /\ Commit([v EXCEPT !.status = "EXPIRED"])
  BY <1>1, <1>2, <1>7, ExpiredFollows
<1>8. CASE v.sending /\ Commit(RolledBack(v))
  BY <1>1, <1>2, <1>8, RolledBackFollows
<1>9. CASE \E s \in DOMAIN v.payments :
             v.payments[s] \notin NoRow /\ Commit(Deleted(v, s))
  BY <1>1, <1>2, <1>9, DeletedFollows
<1> QED BY <1>1, <1>3, <1>4, <1>5, <1>6, <1>7, <1>8, <1>9, Decisions DEF Elsewhere

LEMMA CommitOK ==
  ASSUME Base, NEW w, Commit(w), Follows(srv, w)
  PROVE  /\ srv' = w /\ Sound(srv') /\ load' \in Load /\ ReadsOf(load', srv')
         /\ DOMAIN srv.subs \subseteq DOMAIN w.subs
<1>1. srv' = w /\ Sound(w) /\ DOMAIN srv.subs \subseteq DOMAIN w.subs
  BY DEF Commit, Follows, Moves
<1>2. Legal(w, load.by) \subseteq Kinds
  BY DEF Legal
<1>3. load' \in Load
  <2>1. CASE load.at \notin Reading
    BY <2>1 DEF Base, Commit
  <2>2. CASE load.at \in Reading
    <3>1. PICK legal : legal = Legal(w, load.by)
      OBVIOUS
    <3>2. load' = [load EXCEPT !.legal = @ \cup legal, !.met = @ + 1]
      BY <2>2, <3>1 DEF Commit
    <3> QED BY <1>2, <3>1, <3>2, MetLoad DEF Base
  <2> QED BY <2>1, <2>2
<1>4. load'.at = load.at /\ load'.bundle = load.bundle
  BY DEF Base, Load, Commit
<1> QED BY <1>1, <1>3, <1>4 DEF Base, ReadsOf

-----------------------------------------------------------------------------
(* The reads of the bundle, field by field                                   *)

LEMMA Blanks == Blank \in Bundle /\ NoLoad \in Load /\ NoResult \in Result
<1>1. Blank \in Bundle
  BY DEF Blank, Bundle, TaskStatuses, Payments, NoRow
<1> QED BY <1>1 DEF NoLoad, Load, NoResult, Result

(* The bundle after each read *)
WithTask(l, v) ==
  [l EXCEPT !.at = "sub", !.legal = Legal(v, l.by),
             !.bundle.status = v.status, !.bundle.assignee = v.assignee]

WithSubmission(l, n, sub) ==
  [l EXCEPT !.at = "validation", !.bundle.n = n, !.bundle.sub = sub]

WithValidation(l, validated) ==
  [l EXCEPT !.at = "evaluation", !.bundle.validated = validated]

WithOutcome(l, outcome) ==
  [l EXCEPT !.at = "settlement", !.bundle.outcome = outcome]

WithSettlement(l, row) ==
  [l EXCEPT !.at = "answer", !.met = 0, !.bundle.settlement = row]

Refusal(l, kind) ==
  [l EXCEPT !.at = "answer", !.kind = kind, !.bundle = Blank, !.legal = {}, !.met = 0]

(* What a read leaves of it *)
SameTask(l, m) ==
  /\ m.by = l.by /\ m.legal = l.legal
  /\ m.bundle.status = l.bundle.status /\ m.bundle.assignee = l.bundle.assignee

SameSubmission(l, m) ==
  SameTask(l, m) /\ m.bundle.n = l.bundle.n /\ m.bundle.sub = l.bundle.sub

LEMMA Refused ==
  ASSUME NEW l \in Load, NEW kind \in {"denied", "failed"},
         NEW m, m = Refusal(l, kind)
  PROVE  /\ m \in Load /\ m.at = "answer" /\ m.by = l.by /\ m.kind = kind
         /\ m.bundle = Blank
BY Blanks DEF Load, Refusal

LEMMA TaskRead ==
  ASSUME NEW l \in Load, NEW v \in Server,
         NEW m, m = WithTask(l, v)
  PROVE  /\ m \in Load /\ m.at = "sub" /\ m.by = l.by /\ m.legal = Legal(v, l.by)
         /\ m.bundle.status = v.status /\ m.bundle.assignee = v.assignee
<1>1. PICK b : b = [l.bundle EXCEPT !.status = v.status, !.assignee = v.assignee]
  OBVIOUS
<1>2. b \in Bundle /\ b.status = v.status /\ b.assignee = v.assignee
  BY <1>1 DEF Load, Bundle, Server
<1>3. m = [l EXCEPT !.at = "sub", !.legal = Legal(v, l.by), !.bundle = b]
  BY <1>1 DEF Load, Bundle, WithTask
<1>4. Legal(v, l.by) \in SUBSET Kinds
  BY DEF Legal
<1> QED BY <1>2, <1>3, <1>4 DEF Load

LEMMA SubmissionRead ==
  ASSUME NEW l \in Load, NEW n \in Nat, NEW sub \in SubmissionStatuses \cup {"none"},
         NEW m, m = WithSubmission(l, n, sub)
  PROVE  /\ m \in Load /\ m.at = "validation" /\ SameTask(l, m)
         /\ m.bundle.n = n /\ m.bundle.sub = sub
<1>1. PICK b : b = [l.bundle EXCEPT !.n = n, !.sub = sub]
  OBVIOUS
<1>2. /\ b \in Bundle /\ b.status = l.bundle.status /\ b.assignee = l.bundle.assignee
      /\ b.n = n /\ b.sub = sub
  BY <1>1 DEF Load, Bundle
<1>3. m = [l EXCEPT !.at = "validation", !.bundle = b]
  BY <1>1 DEF Load, Bundle, WithSubmission
<1> QED BY <1>2, <1>3 DEF Load, SameTask

LEMMA ValidationRead ==
  ASSUME NEW l \in Load, NEW validated \in BOOLEAN,
         NEW m, m = WithValidation(l, validated)
  PROVE  /\ m \in Load /\ m.at = "evaluation" /\ SameSubmission(l, m)
<1>1. PICK b : b = [l.bundle EXCEPT !.validated = validated]
  OBVIOUS
<1>2. /\ b \in Bundle /\ b.status = l.bundle.status /\ b.assignee = l.bundle.assignee
      /\ b.n = l.bundle.n /\ b.sub = l.bundle.sub
  BY <1>1 DEF Load, Bundle
<1>3. m = [l EXCEPT !.at = "evaluation", !.bundle = b]
  BY <1>1 DEF Load, Bundle, WithValidation
<1> QED BY <1>2, <1>3 DEF Load, SameTask, SameSubmission

LEMMA EvaluationRead ==
  ASSUME NEW l \in Load, NEW outcome \in {"none", "approve", "revise", "reject"},
         NEW m, m = WithOutcome(l, outcome)
  PROVE  /\ m \in Load /\ m.at = "settlement" /\ SameSubmission(l, m)
         /\ m.bundle.outcome = outcome
<1>1. PICK b : b = [l.bundle EXCEPT !.outcome = outcome]
  OBVIOUS
<1>2. /\ b \in Bundle /\ b.status = l.bundle.status /\ b.assignee = l.bundle.assignee
      /\ b.n = l.bundle.n /\ b.sub = l.bundle.sub /\ b.outcome = outcome
  BY <1>1 DEF Load, Bundle
<1>3. m = [l EXCEPT !.at = "settlement", !.bundle = b]
  BY <1>1 DEF Load, Bundle, WithOutcome
<1>4. m \in Load
  BY <1>2, <1>3 DEF Load
<1> QED BY <1>2, <1>3, <1>4 DEF Load, SameTask, SameSubmission

LEMMA SettlementRead ==
  ASSUME NEW l \in Load, NEW row \in Payments,
         NEW m, m = WithSettlement(l, row)
  PROVE  /\ m \in Load /\ m.at = "answer" /\ SameSubmission(l, m)
         /\ m.bundle.outcome = l.bundle.outcome /\ m.bundle.settlement = row
<1>1. PICK b : b = [l.bundle EXCEPT !.settlement = row]
  OBVIOUS
<1>2. /\ b \in Bundle /\ b.status = l.bundle.status /\ b.assignee = l.bundle.assignee
      /\ b.n = l.bundle.n /\ b.sub = l.bundle.sub /\ b.outcome = l.bundle.outcome
      /\ b.settlement = row
  BY <1>1 DEF Load, Bundle
<1>3. m = [l EXCEPT !.at = "answer", !.met = 0, !.bundle = b]
  BY <1>1 DEF Load, Bundle, WithSettlement
<1>4. m \in Load
  <2>1. m = [ at |-> "answer", by |-> l.by, bundle |-> b, kind |-> l.kind,
              legal |-> l.legal, behind |-> l.behind, met |-> 0 ]
    BY <1>3 DEF Load
  <2> QED BY <1>2, <2>1 DEF Load
<1>5. m.at = "answer" /\ m.by = l.by /\ m.legal = l.legal /\ m.bundle = b
  BY <1>3 DEF Load
<1> QED BY <1>2, <1>4, <1>5 DEF SameTask, SameSubmission

(* What is read of the rows *)
LEMMA RowsRead ==
  ASSUME NEW v, Sound(v), NEW n, n # 0 => n \in DOMAIN v.subs
  PROVE  /\ Current(v) \in Nat /\ (Current(v) # 0 => Current(v) \in DOMAIN v.subs)
         /\ (IF Current(v) = 0 THEN "none" ELSE v.subs[Current(v)])
              \in SubmissionStatuses \cup {"none"}
         /\ (n # 0 /\ v.validated = n) \in BOOLEAN
         /\ OutcomeOf(v, n) \in {"none", "approve", "revise", "reject"}
         /\ (IF n = 0 THEN "none" ELSE v.payments[n]) \in Payments
<1>1. OutcomeOf(v, n) \in {"none", "approve", "revise", "reject"}
  BY DEF OutcomeOf, Sound, Server
<1>2. "none" \in Payments
  BY DEF Payments, NoRow
<1> QED BY <1>1, <1>2, CurrentIs, SubsAre, PaymentsAre DEF Sound

-----------------------------------------------------------------------------
(* The types, and the agreement of the rows                                  *)

BundleReads ==
  \/ ReadTask \/ ReadSubmission \/ ReadValidation \/ ReadEvaluation
  \/ ReadSettlement \/ LoadFails

LEMMA ReadLoads ==
  ASSUME Base, BundleReads
  PROVE  load' \in Load /\ ReadsOf(load', srv')
<1>1. PICK l, v, m : l = load /\ v = srv /\ m = load'
  OBVIOUS
<1>2. l \in Load /\ v \in Server /\ Sound(v) /\ ReadsOf(l, v) /\ srv' = v
  BY <1>1 DEF Base, Sound, BundleReads, ReadTask, ReadSubmission, ReadValidation,
              ReadEvaluation, ReadSettlement, LoadFails
<1>3. SUFFICES m \in Load /\ ReadsOf(m, v)
  BY <1>1, <1>2
<1>4. CASE ReadTask
  <2>1. CASE Refuse("denied")
    BY <1>1, <1>2, <2>1, Refused DEF Refuse, Refusal, ReadsOf, SubReads
  <2>2. CASE m = WithTask(l, v)
    BY <1>1, <1>2, <2>2, TaskRead DEF ReadsOf, SubReads
  <2> QED BY <1>1, <1>4, <2>1, <2>2 DEF ReadTask, WithTask
<1>5. CASE ReadSubmission
  <2>1. PICK n, sub : n = Current(v) /\ sub = IF n = 0 THEN "none" ELSE v.subs[n]
    OBVIOUS
  <2>2. /\ n \in Nat /\ sub \in SubmissionStatuses \cup {"none"}
        /\ n # 0 => n \in DOMAIN v.subs
    BY <1>2, <2>1, RowsRead
  <2>3. m = WithSubmission(l, n, sub)
    BY <1>1, <1>5, <2>1 DEF ReadSubmission, WithSubmission
  <2>4. m \in Load /\ m.bundle.n = n
    BY <1>2, <2>2, <2>3, SubmissionRead
  <2> QED BY <2>2, <2>4 DEF ReadsOf
<1>6. CASE ReadValidation
  <2>1. PICK validated : validated = (l.bundle.n # 0 /\ v.validated = l.bundle.n)
    OBVIOUS
  <2>2. validated \in BOOLEAN
    BY <2>1
  <2>3. m = WithValidation(l, validated) /\ l.at = "validation"
    BY <1>1, <1>6, <2>1 DEF ReadValidation, WithValidation
  <2>4. m \in Load /\ m.bundle.n = l.bundle.n
    BY <1>2, <2>2, <2>3, ValidationRead DEF SameSubmission
  <2> QED BY <1>2, <2>3, <2>4 DEF ReadsOf, SubReads
<1>7. CASE ReadEvaluation
  <2>1. PICK outcome : outcome = OutcomeOf(v, l.bundle.n)
    OBVIOUS
  <2>2. m = WithOutcome(l, outcome) /\ l.at = "evaluation"
    BY <1>1, <1>7, <2>1 DEF ReadEvaluation, WithOutcome
  <2>3. outcome \in {"none", "approve", "revise", "reject"}
    BY <1>2, <2>1, <2>2, RowsRead DEF ReadsOf, SubReads
  <2>4. m \in Load /\ m.bundle.n = l.bundle.n
    BY <1>2, <2>2, <2>3, EvaluationRead DEF SameSubmission
  <2> QED BY <1>2, <2>2, <2>4 DEF ReadsOf, SubReads
<1>8. CASE ReadSettlement
  <2>1. PICK row : row = IF l.bundle.n = 0 THEN "none" ELSE v.payments[l.bundle.n]
    OBVIOUS
  <2>2. m = WithSettlement(l, row) /\ l.at = "settlement"
    BY <1>1, <1>8, <2>1 DEF ReadSettlement, WithSettlement
  <2>3. row \in Payments
    BY <1>2, <2>1, <2>2, RowsRead DEF ReadsOf, SubReads
  <2>4. m \in Load /\ m.at = "answer"
    BY <1>2, <2>2, <2>3, SettlementRead
  <2> QED BY <2>4 DEF ReadsOf, SubReads
<1>9. CASE LoadFails
  BY <1>1, <1>2, <1>9, Refused DEF LoadFails, Refuse, Refusal, ReadsOf, SubReads
<1> QED BY <1>4, <1>5, <1>6, <1>7, <1>8, <1>9 DEF BundleReads

LEMMA BaseRead ==
  ASSUME Base, BundleReads
  PROVE  Base'
<1>1. load' \in Load /\ ReadsOf(load', srv')
  BY ReadLoads
<1>2. UNCHANGED <<srv, posts, page, dropped, switches, call>>
  BY DEF BundleReads, ReadTask, ReadSubmission, ReadValidation, ReadEvaluation,
         ReadSettlement, LoadFails, pageVars
<1> QED BY <1>1, <1>2 DEF Base

LEMMA BaseArrive ==
  ASSUME Base, LoadArrives \/ DroppedArrives
  PROVE  Base'
<1>1. UNCHANGED <<srv, posts, switches, call>> /\ load' \in Load /\ dropped' \in Load
  BY Blanks DEF LoadArrives, DroppedArrives, Base
<1>2. ResultOf(load) \in Result
  BY DEF Base, ResultOf, Result, Load
<1>3. page' \in Page
  BY <1>2 DEF LoadArrives, DroppedArrives, Heard, Base, Page
<1>4. ReadsOf(load', srv')
  <2>1. CASE LoadArrives
    BY <2>1 DEF LoadArrives, NoLoad, ReadsOf, SubReads
  <2>2. CASE DroppedArrives
    BY <1>1, <2>2 DEF DroppedArrives, Base
  <2> QED BY <2>1, <2>2
<1> QED BY <1>1, <1>3, <1>4 DEF Base

LEMMA BaseEffect ==
  ASSUME Base, SwitchIdentity \/ RunEffect \/ Retry
  PROVE  Base'
<1>1. srv' = srv /\ call' = call
  BY DEF SwitchIdentity, RunEffect, Retry
<1>2. Posted(posts', srv')
  <2>1. PICK f, v : f = posts /\ v = srv
    OBVIOUS
  <2>2. posts' = f \/ posts' = [s \in Slots |-> [f[s] EXCEPT !.mounted = FALSE]]
    BY <2>1 DEF SwitchIdentity, RunEffect, Retry, Unmounted
  <2> QED BY <1>1, <2>1, <2>2, StillPosted DEF Base
<1>3. page' \in Page
  BY Blanks DEF SwitchIdentity, RunEffect, Retry, Refreshed, Base, Page
<1>4. load' \in Load /\ dropped' \in Load
  <2>1. CASE load' = load /\ dropped' = dropped
    BY <2>1 DEF Base
  <2>2. CASE RunEffect
    <3>1. dropped' = [load EXCEPT !.legal = {}] \/ dropped' = dropped
      BY <2>2 DEF RunEffect
    <3>2. dropped' \in Load
      BY <3>1 DEF Base, Load
    <3>3. load' = NoLoad \/ load' = [NoLoad EXCEPT !.at = "task", !.by = page.identity]
      BY <2>2 DEF RunEffect
    <3>4. load' \in Load
      <4>1. PICK by : by = page.identity
        OBVIOUS
      <4>2. by \in People \cup {Nobody}
        BY <4>1 DEF Base, Page
      <4>3. [NoLoad EXCEPT !.at = "task", !.by = by] \in Load
        BY <4>2, Blanks DEF Load
      <4> QED BY <3>3, <4>1, <4>3, Blanks
    <3> QED BY <3>2, <3>4
  <2> QED BY <2>1, <2>2 DEF SwitchIdentity, Retry
<1>5. switches' \in 0..MaxSwitches
  <2>1. \/ switches' = switches
        \/ switches < MaxSwitches /\ switches' = switches + 1
    BY DEF SwitchIdentity, RunEffect, Retry
  <2> QED BY <2>1, SwitchesAssumption DEF Base
<1>6. ReadsOf(load', srv')
  <2>1. CASE load' = load
    BY <1>1, <2>1 DEF Base
  <2>2. CASE RunEffect
    <3>1. load'.at \in {"none", "task"}
      BY <2>2 DEF RunEffect, NoLoad
    <3> QED BY <3>1 DEF ReadsOf, SubReads
  <2> QED BY <2>1, <2>2 DEF SwitchIdentity, Retry
<1> QED BY <1>1, <1>2, <1>3, <1>4, <1>5, <1>6 DEF Base

(* A call of the provider moves on by itself. *)
LEMMA CallStep ==
  ASSUME call \in [Slots -> Call], NEW s \in Slots,
         Provider(s) \/ StartCall(s) \/ EndCall(s)
  PROVE  call' \in [Slots -> Call]
<1>1. PICK c \in Call : call' = [call EXCEPT ![s] = c]
  <2>1. CASE EndCall(s)
    BY <2>1 DEF EndCall, NoCall, Call, Results
  <2>2. CASE \E at \in {"fetch", "body", "done"}, result \in Results : Becomes(s, at, result)
    BY <2>2 DEF Becomes, Call
  <2> QED BY <2>1, <2>2 DEF Provider, StartCall, Fetched, Abort, BodyRead, Fails,
                            Results, Verdicts
<1> QED BY <1>1

(* What a click asks for is offered, and a claim to others than the creator.  *)
LEMMA ClickOK ==
  ASSUME Base, NEW s \in Slots, NEW kind \in Offers, Click(s, kind)
  PROVE  \E p : PostOK(p, srv) /\ posts' = [posts EXCEPT ![s] = p]
<1>1. kind \in OffersIn(page.result.bundle, page.identity)
  BY DEF Offers
<1>2. kind \in Kinds
  BY <1>1 DEF OffersIn, WorkerOffers, ReviewOffers, PaymentOffers, Kinds
<1>3. kind = "claim" => page.identity # Requester
  BY <1>1 DEF OffersIn, WorkerOffers, ReviewOffers, PaymentOffers
<1>4. page.identity \in People \cup {Nobody} /\ page.result.bundle.n \in Nat
  BY DEF Base, Page, Result, Bundle
<1>5. PICK by, n : /\ by = page.identity
                   /\ n = IF kind = "release" THEN page.result.bundle.n ELSE 0
  OBVIOUS
<1>6. PICK p : p = [NoPost EXCEPT !.at = "sent", !.kind = kind, !.by = by, !.n = n,
                                  !.mounted = TRUE]
  OBVIOUS
<1>7. posts' = [posts EXCEPT ![s] = p]
  BY <1>5, <1>6 DEF Click
<1>8. p \in Post /\ p.at = "sent" /\ p.kind = kind /\ p.by = by
  BY <1>2, <1>4, <1>5, <1>6 DEF NoPost, Post
<1>9. kind = "claim" => by \in Workers \cup {Nobody}
  BY <1>3, <1>4, <1>5 DEF People
<1> QED BY <1>7, <1>8, <1>9 DEF PostOK

LEMMA Answered ==
  ASSUME Base, NEW s \in Slots, NEW ok \in BOOLEAN, Answers(s, ok), NEW w
  PROVE  \E p : PostOK(p, w) /\ posts' = [posts EXCEPT ![s] = p]
<1>1. PICK kind, by, mounted :
        kind = posts[s].kind /\ by = posts[s].by /\ mounted = posts[s].mounted
  OBVIOUS
<1>2. /\ kind \in Kinds /\ by \in People \cup {Nobody} /\ mounted \in BOOLEAN
      /\ kind = "claim" => by \in Workers \cup {Nobody}
  BY <1>1 DEF Base, Posted, PostOK, Post
<1>3. PICK p : p = [NoPost EXCEPT !.at = "answered", !.kind = kind, !.by = by,
                                  !.ok = ok, !.mounted = mounted]
  OBVIOUS
<1>4. posts' = [posts EXCEPT ![s] = p]
  BY <1>1, <1>3 DEF Answers
<1>5. PostOK(p, w)
  BY <1>2, <1>3, AnswerOK
<1> QED BY <1>4, <1>5

LEMMA ReviewStarts ==
  ASSUME Base, NEW s \in Slots, ServeReview(s)
  PROVE  \E p : PostOK(p, srv) /\ posts' = [posts EXCEPT ![s] = p]
<1>1. PICK v, n, pending, budget :
        /\ v = srv /\ n = Current(v) /\ pending = (v.subs[n] = "PENDING")
        /\ budget = HasBudget(v)
  OBVIOUS
<1>2. n \in DOMAIN v.subs /\ n \in Nat
  BY <1>1, CurrentIs DEF Base, Sound, ServeReview, AcceptsReview
<1>3. pending \in BOOLEAN /\ budget \in BOOLEAN
  BY <1>1 DEF HasBudget
<1>4. PICK p : p = [posts[s] EXCEPT !.at = "evaluating", !.n = n, !.pending = pending,
                                    !.budget = budget]
  OBVIOUS
<1>5. posts' = [posts EXCEPT ![s] = p]
  BY <1>1, <1>4 DEF ServeReview, Base, Posted
<1>6. posts[s] \in Post /\ posts[s].kind = "review"
  BY DEF Base, Posted, PostOK, ServeReview
<1>7. p \in Post /\ p.n = n /\ p.kind = "review"
  BY <1>2, <1>3, <1>4, <1>6 DEF Post
<1> QED BY <1>1, <1>2, <1>5, <1>7 DEF PostOK

(* A request that moves on, whether or not the rows change with it            *)
LEMMA BasePost ==
  ASSUME Base, NEW s \in Slots, PostSteps(s), ~Hear(s)
  PROVE  Base'
<1>1. /\ page' = page /\ dropped' = dropped /\ switches' = switches
  BY DEF PostSteps, Serve, ServeReview, ServeRefuses, ReviewEnds, ReviewTimesOut, pageVars
<1>2. call' \in [Slots -> Call]
  <2>1. call' = call \/ StartCall(s) \/ EndCall(s)
    BY DEF PostSteps, Serve, ServeReview, ServeRefuses, ReviewEnds, ReviewTimesOut
  <2> QED BY <2>1, CallStep DEF Base
<1>3. \/ srv' = srv /\ load' = load
      \/ \E w : Commit(w) /\ Follows(srv, w)
  BY ServeCommits, ReviewCommits
  DEF PostSteps, ServeReview, ServeRefuses, ReviewTimesOut
<1>4. /\ Sound(srv') /\ load' \in Load /\ ReadsOf(load', srv')
      /\ DOMAIN srv.subs \subseteq DOMAIN srv'.subs
  BY <1>3, CommitOK DEF Base
<1>5. PICK v, w, f : v = srv /\ w = srv' /\ f = posts
  OBVIOUS
<1>6. \E p : PostOK(p, w) /\ posts' = [posts EXCEPT ![s] = p]
  <2>1. CASE \E ok \in BOOLEAN : Answers(s, ok)
    BY <2>1, Answered
  <2>2. CASE ServeReview(s)
    BY <1>5, <2>2, ReviewStarts DEF ServeReview
  <2> QED BY <2>1, <2>2 DEF PostSteps, Serve, ServeRefuses, ReviewEnds, ReviewTimesOut
<1>7. Posted(posts', srv')
  <2>1. Posted(f, v) /\ DOMAIN v.subs \subseteq DOMAIN w.subs
    BY <1>4, <1>5 DEF Base
  <2>2. PICK p : PostOK(p, w) /\ posts' = [f EXCEPT ![s] = p]
    BY <1>5, <1>6
  <2>3. Posted([f EXCEPT ![s] = p], w)
    BY <2>1, <2>2, OnePosted
  <2> QED BY <1>5, <2>2, <2>3
<1> QED BY <1>1, <1>2, <1>4, <1>7 DEF Base

LEMMA BaseHear ==
  ASSUME Base, NEW s \in Slots, Hear(s)
  PROVE  Base'
<1>1. UNCHANGED <<srv, dropped, switches, call>>
  BY DEF Hear
<1>2. load' \in Load /\ ReadsOf(load', srv')
  <2>1. posts[s].kind \in Kinds
    BY DEF Base, Posted, PostOK, Post
  <2>2. \/ load' = load
        \/ \E kind \in Kinds : load' = [load EXCEPT !.behind = @ \cup {kind}]
    BY <2>1 DEF Hear, HearSuccess, HearClaim, HearFailure, ToldOf, Kinds
  <2>3. load' \in Load /\ load'.at = load.at /\ load'.bundle = load.bundle
    BY <2>2 DEF Base, Load
  <2> QED BY <1>1, <2>3 DEF Base, ReadsOf
<1>3. page' \in Page
  <2>1. CASE HearSuccess(s)
    BY <2>1, Blanks DEF HearSuccess, Refreshed, Base, Page
  <2>2. CASE HearClaim(s)
    <3>1. PICK by : by = posts[s].by
      OBVIOUS
    <3>2. by \in Workers \cup {Nobody}
      BY <2>2, <3>1 DEF HearClaim, Base, Posted, PostOK
    <3>3. PICK b : b = [page.result.bundle EXCEPT !.status = "IN_PROGRESS", !.assignee = by]
      OBVIOUS
    <3>4. b \in Bundle
      BY <3>2, <3>3 DEF Base, Page, Result, Bundle, TaskStatuses
    <3>5. PICK r : r = [page.result EXCEPT !.bundle = b, !.taskBy = by]
      OBVIOUS
    <3>6. r \in Result
      BY <3>2, <3>4, <3>5 DEF Base, Page, Result, People
    <3>7. page' = page \/ page' = [page EXCEPT !.result = r]
      <4>1. CASE page.result.kind # "state"
        BY <2>2, <4>1 DEF HearClaim
      <4>2. CASE page.result.kind = "state"
        <5>1. page' = [page EXCEPT !.result.bundle.status = "IN_PROGRESS",
                                   !.result.bundle.assignee = by, !.result.taskBy = by]
          BY <2>2, <3>1, <4>2 DEF HearClaim
        <5>2. page' = [page EXCEPT !.result.bundle = b, !.result.taskBy = by]
          BY <3>3, <5>1 DEF Base, Page, Result
        <5> QED BY <3>5, <5>2 DEF Base, Page, Result
      <4> QED BY <4>1, <4>2
    <3> QED BY <3>6, <3>7 DEF Base, Page
  <2>3. CASE HearFailure(s)
    BY <2>3 DEF HearFailure, Base
  <2> QED BY <2>1, <2>2, <2>3 DEF Hear
<1>4. Posted(posts', srv')
  <2>1. PICK v, f, g : v = srv /\ f = posts /\ g = [r \in Slots |-> [f[r] EXCEPT !.mounted = FALSE]]
    OBVIOUS
  <2>2. posts' = [f EXCEPT ![s] = NoPost] \/ posts' = [g EXCEPT ![s] = NoPost]
    BY <2>1 DEF Hear, HearSuccess, HearClaim, HearFailure, Unmounted
  <2>3. Posted(f, v) /\ Posted(g, v)
    BY <2>1, StillPosted DEF Base
  <2>4. Posted([f EXCEPT ![s] = NoPost], v) /\ Posted([g EXCEPT ![s] = NoPost], v)
    BY <2>3, NothingPosted, OnePosted
  <2> QED BY <1>1, <2>1, <2>2, <2>4
<1> QED BY <1>1, <1>2, <1>3, <1>4 DEF Base

LEMMA BaseElsewhere ==
  ASSUME Base, Elsewhere
  PROVE  Base'
<1>1. UNCHANGED <<posts, page, dropped, switches, call>>
  BY DEF Elsewhere, pageVars
<1>2. /\ Sound(srv') /\ load' \in Load /\ ReadsOf(load', srv')
      /\ DOMAIN srv.subs \subseteq DOMAIN srv'.subs
  BY ElsewhereCommits, CommitOK
<1>3. Posted(posts', srv')
  BY <1>1, <1>2 DEF Base, Posted, PostOK
<1> QED BY <1>1, <1>2, <1>3 DEF Base

LEMMA BaseInit == Init => Base
<1> SUFFICES ASSUME Init PROVE Base
  OBVIOUS
<1>1. PICK worker \in Workers \cup {Nobody} :
        srv = [ status |-> "OPEN", assignee |-> worker, subs |-> <<>>, validated |-> 0,
                evaluated |-> NoEvaluation, confirmable |-> {},
                payments |-> <<>>, sending |-> FALSE, revisions |-> 0 ]
  BY DEF Init
<1>2. PICK v : /\ v = srv
               /\ v = [ status |-> "OPEN", assignee |-> worker, subs |-> <<>>,
                        validated |-> 0, evaluated |-> NoEvaluation, confirmable |-> {},
                        payments |-> <<>>, sending |-> FALSE, revisions |-> 0 ]
  BY <1>1
<1>3. v.subs \in Seq(SubmissionStatuses) /\ v.payments \in Seq(Payments)
  BY <1>2
<1>4. v \in Server
  BY <1>2, <1>3, RevisionsAssumption DEF Server, TaskStatuses, NoEvaluation
<1>5. RowsAgree(v)
  BY <1>2 DEF RowsAgree, Locked, TransientStatuses, NoEvaluation
<1>6. page \in Page
  BY Blanks DEF Init, Page
<1>7. Posted(posts, srv)
  <2>1. posts = [s \in Slots |-> NoPost]
    BY DEF Init
  <2> QED BY <2>1, NothingPosted DEF Posted, PostOK
<1>8. switches \in 0..MaxSwitches
  BY SwitchesAssumption DEF Init
<1>9. call \in [Slots -> Call]
  BY DEF Init, EvaluationInit, NoCall, Call, Results
<1>10. ReadsOf(load, srv)
  BY DEF Init, NoLoad, ReadsOf, SubReads
<1> QED BY <1>2, <1>4, <1>5, <1>6, <1>7, <1>8, <1>9, <1>10, Blanks DEF Base, Sound, Init

LEMMA BaseStep == Base /\ [Next]_vars => Base'
<1> SUFFICES ASSUME Base, [Next]_vars PROVE Base'
  OBVIOUS
<1>1. CASE UNCHANGED vars
  BY <1>1 DEF vars, Base
<1>2. CASE LoadSteps
  BY <1>2, BaseRead, BaseArrive DEF LoadSteps, BundleReads
<1>3. CASE SwitchIdentity \/ RunEffect \/ Retry
  BY <1>3, BaseEffect
<1>4. CASE Elsewhere
  BY <1>4, BaseElsewhere
<1>5. ASSUME NEW s \in Slots, PostSteps(s) PROVE Base'
  BY <1>5, BasePost, BaseHear
<1>6. ASSUME NEW s \in Slots, Provider(s) PROVE Base'
  BY <1>6, CallStep DEF Provider, pageVars, Base
<1>7. ASSUME NEW s \in Slots, NEW kind \in Offers, Click(s, kind) PROVE Base'
  <2>1. UNCHANGED <<srv, load, page, dropped, switches, call>>
    BY <1>7 DEF Click, pageVars
  <2>2. PICK v, f : v = srv /\ f = posts
    OBVIOUS
  <2>3. Posted(posts', srv')
    BY <1>7, <2>1, <2>2, ClickOK, OnePosted DEF Base
  <2> QED BY <2>1, <2>3 DEF Base
<1> QED BY <1>1, <1>2, <1>3, <1>4, <1>5, <1>6, <1>7 DEF Next

(* The rows of the task agree with each other, whatever the executor rolls    *)
(* back and whichever settlements are deleted: work in review is the newest, *)
(* a task whose payment is under way or over had its newest submission       *)
(* approved and a settlement made for it, a completed task has a settlement  *)
(* that is confirmed or was deleted.  A review under way, and what a load    *)
(* has read, are of a submission there is.                                   *)
THEOREM RowsAlwaysAgree == Spec => []Base
BY BaseInit, BaseStep, PTL DEF Spec

(* Every variable keeps its type; in particular the page's claims are never   *)
(* made by the creator, so that what it shows after one names a worker.       *)
THEOREM PageTypes == Spec => []TypeOK
<1>1. Base => TypeOK
  BY DEF Base, TypeOK, Sound, Posted
<1> QED BY <1>1, RowsAlwaysAgree, PTL

-----------------------------------------------------------------------------
(* The offers.  What has been read so far of a bundle, against the rows as    *)
(* they are by now: the rows may have moved on since the first read, but then *)
(* the move itself made legal what a later read finds.                       *)

(* What the status that was read promises: it was read while it was so. *)
StatusSeen(l) ==
  LET b == l.bundle IN
  /\ b.status = "OPEN" /\ l.by # Requester /\ b.assignee \in {Nobody, l.by} =>
       "claim" \in l.legal
  /\ b.status = "IN_PROGRESS" /\ b.assignee = l.by => "submit" \in l.legal
  /\ b.status = "SUBMITTED" /\ l.by = Requester => "validate" \in l.legal
  /\ b.status = "UNDER_REVIEW" /\ l.by = Requester => "review" \in l.legal

(* A settlement with which nothing is released any more *)
Lost == {"FAILED", "deleted"}

(* What is legal now has been noted; the assignee stays; and an approval that *)
(* outlives a rejection was there before it.                                 *)
KeepsUp(l, v) ==
  LET b == l.bundle IN
  /\ Legal(v, l.by) \subseteq l.legal
  /\ b.assignee # Nobody => v.assignee = b.assignee
  /\ l.by = v.assignee /\ v.status = "REJECTED" /\ ApprovedNow(v) =>
       \/ b.status = "REJECTED" \/ "release" \in l.legal
       \/ v.payments[Current(v)] \in Lost
  /\ b.status = "REJECTED" => v.status = "REJECTED"

(* An approved submission was releasable, or its settlement has failed or is  *)
(* deleted, or the task had been rejected before the first read, without one. *)
ApprovalSeen(l, v) ==
  LET b == l.bundle IN
  l.by = b.assignee /\ b.sub = "APPROVED" =>
    /\ b.n # 0 /\ b.n \in DOMAIN v.subs
    /\ \/ "release" \in l.legal
       \/ v.payments[b.n] \in Lost
       \/ b.status = "REJECTED" /\ v.payments[b.n] = "none"

OffersOf(l, v) ==
  l.at = "answer" /\ l.kind = "state" =>
    \A kind \in OffersIn(l.bundle, l.by) :
      \/ kind \in l.legal
      \/ kind = "release" /\ l.bundle.settlement \in Lost
      \/ kind = "confirm" /\ "review" \in l.legal /\ l.bundle.n \in v.confirmable

LoadOK(l, v) ==
  /\ l.at # "none" => l.by # Nobody
  /\ l.at \in Reading => StatusSeen(l) /\ KeepsUp(l, v)
  /\ l.at \in Reading \ {"sub"} => ApprovalSeen(l, v)
  /\ l.at = "settlement" /\ l.bundle.outcome = "approve" => l.bundle.n \in v.confirmable
  /\ OffersOf(l, v)

OfferInv == Base /\ LoadOK(load, srv)

(* An approval was good for a release, unless its payment or the task had     *)
(* been lost.                                                                *)
LEMMA ApprovalIsReleasable ==
  ASSUME NEW v, Sound(v), NEW a, a = v.assignee, ApprovedNow(v)
  PROVE  \/ "release" \in Legal(v, a)
         \/ v.payments[Current(v)] \in Lost
         \/ v.status = "REJECTED" /\ v.payments[Current(v)] = "none"
<1>1. PICK c : c = Current(v) /\ c \in DOMAIN v.subs /\ v.subs[c] = "APPROVED"
  BY CurrentIs DEF Sound, ApprovedNow
<1>2. v.payments[c] \in {"open", "CONFIRMED", "none"} \cup Lost
  BY <1>1, PaymentsAre DEF Payments, NoRow, Lost
<1>3. AcceptsRelease(v, a, c) => "release" \in Legal(v, a)
  BY <1>1 DEF Legal, Accepts, Kinds
<1>4. CASE v.payments[c] \in {"open", "CONFIRMED"}
  BY <1>1, <1>3, <1>4 DEF AcceptsRelease
<1>5. CASE v.payments[c] = "none" /\ v.status # "REJECTED"
  <2>1. v.status \notin {"OPEN", "IN_PROGRESS", "EXPIRED"}
    BY <1>1 DEF Sound, RowsAgree, Live
  <2>2. v.status # "SUBMITTED"
    BY NewestApproved DEF Sound, RowsAgree
  <2>3. v.status \notin Locked
    <3>1. v.status \in Locked => c = Len(v.subs) /\ v.payments[Len(v.subs)] # "none"
      BY <1>1, NewestIsCurrent DEF Sound, RowsAgree
    <3> QED BY <1>5, <3>1
  <2>4. v.status = "UNDER_REVIEW"
    BY <1>5, <2>1, <2>2, <2>3
    DEF Sound, RowsAgree, Server, TaskStatuses, TransientStatuses, Locked
  <2> QED BY <1>1, <1>3, <1>5, <2>4 DEF AcceptsRelease, NoRow
<1> QED BY <1>1, <1>2, <1>4, <1>5

(* An operation while the rows are read *)
LEMMA MetOK ==
  ASSUME NEW l, l \in Load, NEW v, Sound(v), NEW w, Follows(v, w), LoadOK(l, v),
         l.at \in Reading,
         NEW m, m = [l EXCEPT !.legal = @ \cup Legal(w, l.by), !.met = @ + 1]
  PROVE  LoadOK(m, w)
<1>1. /\ m.at = l.at /\ m.by = l.by /\ m.bundle = l.bundle
      /\ m.legal = l.legal \cup Legal(w, l.by)
  BY DEF Load
<1>2. StatusSeen(l) /\ KeepsUp(l, v) /\ Moves(v, w) /\ l.by # Nobody
  BY DEF LoadOK, Follows, Reading
<1>3. StatusSeen(m)
  BY <1>1, <1>2 DEF StatusSeen
<1>4. KeepsUp(m, w)
  <2>1. l.bundle.assignee # Nobody => w.assignee = l.bundle.assignee
    BY <1>2 DEF KeepsUp, Moves
  <2>2. l.bundle.status = "REJECTED" => w.status = "REJECTED"
    BY <1>2 DEF KeepsUp, Moves, Ended
  <2>3. ASSUME l.by = w.assignee, w.status = "REJECTED", ApprovedNow(w)
        PROVE  \/ l.bundle.status = "REJECTED" \/ "release" \in l.legal
               \/ w.payments[Current(w)] \in Lost
    <3>1. v.status # "OPEN"
      BY <1>2, <2>3, LegalMoves DEF Moves, LegalCommit, CanTransition, LegalTransitions
    <3>2. l.by = v.assignee
      BY <1>2, <2>3, <3>1 DEF Moves
    <3>3. CASE v.status = "REJECTED"
      <4>1. /\ w.subs = v.subs /\ Current(w) = Current(v) /\ ApprovedNow(v)
        BY <1>2, <2>3, <3>3, SameSubs DEF Moves, Ended
      <4>2. PICK c : c = Current(v) /\ c \in DOMAIN v.subs
        BY <4>1, CurrentIs DEF ApprovedNow, Sound
      <4>3. v.payments[c] \in Lost => w.payments[c] \in Lost
        BY <1>2, <3>3, <4>2 DEF Moves, PaymentMoves, Lost, NoRow
      <4> QED BY <1>2, <3>2, <3>3, <4>1, <4>2, <4>3 DEF KeepsUp
    <3>4. CASE v.status # "REJECTED"
      <4>1. /\ v.status = "UNDER_REVIEW" /\ ApprovedNow(v)
            /\ Current(w) = Current(v) /\ w.payments = v.payments
        BY <1>2, <2>3, <3>4 DEF Moves
      <4>2. \/ "release" \in Legal(v, l.by)
            \/ v.payments[Current(v)] \in Lost
        BY <3>2, <4>1, ApprovalIsReleasable
      <4> QED BY <1>2, <4>1, <4>2 DEF KeepsUp
    <3> QED BY <3>3, <3>4
  <2> QED BY <1>1, <2>1, <2>2, <2>3 DEF KeepsUp
<1>5. l.at # "sub" => ApprovalSeen(m, w)
  <2>1. SUFFICES ASSUME l.at # "sub", l.by = l.bundle.assignee, l.bundle.sub = "APPROVED"
                 PROVE  ApprovalSeen(m, w)
    BY <1>1 DEF ApprovalSeen
  <2>2. PICK n : n = l.bundle.n
    OBVIOUS
  <2>3. /\ n # 0 /\ n \in DOMAIN v.subs
        /\ \/ "release" \in l.legal
           \/ v.payments[n] \in Lost
           \/ l.bundle.status = "REJECTED" /\ v.payments[n] = "none"
    BY <2>1, <2>2 DEF LoadOK, ApprovalSeen
  <2>4. n \in DOMAIN w.subs /\ PaymentMoves(v, w, n)
    BY <1>2, <2>3 DEF Moves
  <2>5. ASSUME v.payments[n] \in NoRow, v.status = "UNDER_REVIEW",
               n = Current(v), v.subs[n] = "APPROVED"
        PROVE  "release" \in l.legal
    <3>1. l.by = v.assignee
      BY <1>2, <2>1 DEF KeepsUp
    <3>2. AcceptsRelease(v, l.by, Current(v))
      BY <2>3, <2>5, <3>1 DEF AcceptsRelease
    <3> QED BY <1>2, <3>2 DEF Legal, Accepts, Kinds, KeepsUp
  <2>6. l.bundle.status = "REJECTED" => v.status = "REJECTED"
    BY <1>2 DEF KeepsUp
  <2>7. \/ "release" \in l.legal
        \/ w.payments[n] \in Lost
        \/ l.bundle.status = "REJECTED" /\ w.payments[n] = "none"
    BY <2>3, <2>4, <2>5, <2>6 DEF PaymentMoves, Lost, NoRow
  <2> QED BY <1>1, <2>2, <2>3, <2>4, <2>7 DEF ApprovalSeen
<1>6. v.confirmable \subseteq w.confirmable
  BY <1>2 DEF Moves
<1>7. l.at # "answer"
  BY DEF Reading
<1> QED BY <1>1, <1>2, <1>3, <1>4, <1>5, <1>6, <1>7 DEF LoadOK, OffersOf

(* An operation at any other time *)
LEMMA UnmetOK ==
  ASSUME NEW l, NEW v, NEW w, Follows(v, w), LoadOK(l, v), l.at \notin Reading
  PROVE  LoadOK(l, w)
<1>1. v.confirmable \subseteq w.confirmable /\ l.at # "settlement"
  BY DEF Follows, Moves, Reading
<1> QED BY <1>1 DEF LoadOK, OffersOf, Reading

-----------------------------------------------------------------------------
(* The reads *)

LEMMA TaskReadOK ==
  ASSUME NEW l, NEW v, Sound(v), l.by # Nobody,
         NEW m, m.at = "sub", m.by = l.by, m.legal = Legal(v, l.by),
         m.bundle.status = v.status, m.bundle.assignee = v.assignee
  PROVE  LoadOK(m, v)
<1>1. StatusSeen(m)
  <2>1. v.status \in {"SUBMITTED", "UNDER_REVIEW"} => Current(v) # 0
    BY NewestIsCurrent DEF Sound, RowsAgree
  <2> QED BY <2>1 DEF StatusSeen, Legal, Accepts, Kinds, AcceptsClaim, AcceptsSubmit,
                      AcceptsValidate, AcceptsReview
<1>2. KeepsUp(m, v)
  BY DEF KeepsUp
<1> QED BY <1>1, <1>2 DEF LoadOK, OffersOf

LEMMA SubmissionReadOK ==
  ASSUME NEW l, NEW v, Sound(v), LoadOK(l, v), l.at = "sub",
         NEW m, m.at = "validation", SameTask(l, m),
         m.bundle.n = Current(v),
         m.bundle.sub = IF Current(v) = 0 THEN "none" ELSE v.subs[Current(v)]
  PROVE  LoadOK(m, v)
<1>1. StatusSeen(l) /\ KeepsUp(l, v) /\ l.by # Nobody
  BY DEF LoadOK, Reading
<1>2. StatusSeen(m) /\ KeepsUp(m, v)
  BY <1>1 DEF StatusSeen, KeepsUp, SameTask
<1>3. ApprovalSeen(m, v)
  <2>1. SUFFICES ASSUME l.by = l.bundle.assignee, m.bundle.sub = "APPROVED"
                 PROVE  /\ Current(v) # 0 /\ Current(v) \in DOMAIN v.subs
                        /\ \/ "release" \in l.legal
                           \/ v.payments[Current(v)] \in Lost
                           \/ /\ l.bundle.status = "REJECTED"
                              /\ v.payments[Current(v)] = "none"
    BY DEF ApprovalSeen, SameTask
  <2>2. ApprovedNow(v) /\ Current(v) # 0 /\ Current(v) \in DOMAIN v.subs
    BY <2>1, CurrentIs DEF ApprovedNow, Sound
  <2>3. l.by = v.assignee
    BY <1>1, <2>1 DEF KeepsUp
  <2>4. \/ "release" \in Legal(v, l.by)
        \/ v.payments[Current(v)] \in Lost
        \/ v.status = "REJECTED" /\ v.payments[Current(v)] = "none"
    BY <2>2, <2>3, ApprovalIsReleasable
  <2> QED BY <1>1, <2>2, <2>3, <2>4 DEF KeepsUp
<1> QED BY <1>1, <1>2, <1>3 DEF LoadOK, OffersOf, SameTask

LEMMA ValidationReadOK ==
  ASSUME NEW l, NEW v, LoadOK(l, v), l.at = "validation",
         NEW m, m.at = "evaluation", SameSubmission(l, m)
  PROVE  LoadOK(m, v)
BY DEF LoadOK, StatusSeen, KeepsUp, ApprovalSeen, OffersOf, Reading,
       SameTask, SameSubmission

LEMMA EvaluationReadOK ==
  ASSUME NEW l, NEW v, Sound(v), LoadOK(l, v), l.at = "evaluation",
         NEW m, m.at = "settlement", SameSubmission(l, m),
         m.bundle.outcome = OutcomeOf(v, l.bundle.n)
  PROVE  LoadOK(m, v)
<1>1. /\ StatusSeen(m) /\ KeepsUp(m, v) /\ ApprovalSeen(m, v) /\ m.by # Nobody
  BY DEF LoadOK, StatusSeen, KeepsUp, ApprovalSeen, Reading, SameTask,
         SameSubmission
<1>2. m.bundle.outcome = "approve" => m.bundle.n \in v.confirmable
  BY DEF OutcomeOf, Sound, RowsAgree, SameSubmission
<1> QED BY <1>1, <1>2 DEF LoadOK, OffersOf

(* The last read: what the page will offer was legal. *)
LEMMA SettlementReadOK ==
  ASSUME NEW l, NEW v, Sound(v), LoadOK(l, v), l.at = "settlement",
         NEW m, m.at = "answer", SameSubmission(l, m),
         m.bundle.outcome = l.bundle.outcome,
         m.bundle.settlement = IF l.bundle.n = 0 THEN "none" ELSE v.payments[l.bundle.n]
  PROVE  LoadOK(m, v)
<1>2. /\ StatusSeen(l) /\ KeepsUp(l, v) /\ ApprovalSeen(l, v) /\ l.by # Nobody
      /\ l.bundle.outcome = "approve" => l.bundle.n \in v.confirmable
  BY DEF LoadOK, Reading
<1>1. /\ m.by = l.by /\ m.legal = l.legal
      /\ m.bundle.status = l.bundle.status /\ m.bundle.assignee = l.bundle.assignee
      /\ m.bundle.n = l.bundle.n /\ m.bundle.sub = l.bundle.sub
  BY DEF SameTask, SameSubmission
<1>3. ASSUME NEW kind \in WorkerOffers(m.bundle, m.by) PROVE kind \in m.legal
  BY <1>1, <1>2 DEF WorkerOffers, StatusSeen
<1>4. ASSUME NEW kind \in ReviewOffers(m.bundle, m.by)
      PROVE  \/ kind \in m.legal
             \/ kind = "confirm" /\ "review" \in m.legal /\ m.bundle.n \in v.confirmable
  <2>1. /\ m.by = Requester
        /\ \/ kind = "validate" /\ m.bundle.status = "SUBMITTED"
           \/ kind = "review" /\ m.bundle.status = "UNDER_REVIEW"
           \/ /\ kind = "confirm" /\ m.bundle.status = "UNDER_REVIEW"
              /\ m.bundle.outcome = "approve"
    <3>1. PICK Offered :
            /\ Offered = [ validate |-> m.bundle.status = "SUBMITTED" /\ ~m.bundle.validated,
                           review |-> m.bundle.status = "UNDER_REVIEW"
                                      /\ m.bundle.outcome = "none",
                           confirm |-> m.bundle.status = "UNDER_REVIEW"
                                       /\ m.bundle.outcome = "approve"
                                       /\ m.bundle.sub = "PENDING" ]
            /\ kind \in DOMAIN Offered /\ m.by = Requester /\ Offered[kind]
      BY <1>4 DEF ReviewOffers
    <3>2. kind \in {"validate", "review", "confirm"}
      BY <3>1
    <3>3. CASE kind = "validate"
      BY <3>1, <3>3
    <3>4. CASE kind = "review"
      BY <3>1, <3>4
    <3>5. CASE kind = "confirm"
      BY <3>1, <3>5
    <3> QED BY <3>1, <3>2, <3>3, <3>4, <3>5
  <2> QED BY <1>1, <1>2, <2>1 DEF StatusSeen
<1>5. ASSUME NEW kind \in PaymentOffers(m.bundle, m.by)
      PROVE  kind = "release" /\ (kind \in m.legal \/ m.bundle.settlement \in Lost)
  <2>1. /\ kind = "release" /\ l.by = l.bundle.assignee /\ l.bundle.sub = "APPROVED"
        /\ SettleReady(m.bundle)
    BY <1>1, <1>5 DEF PaymentOffers
  <2>2. ~(m.bundle.status = "REJECTED" /\ m.bundle.settlement = "none")
    BY <2>1 DEF SettleReady, NoRow
  <2> QED BY <1>1, <1>2, <2>1, <2>2 DEF ApprovalSeen
<1>6. OffersOf(m, v)
  BY <1>3, <1>4, <1>5 DEF OffersOf, OffersIn
<1> QED BY <1>1, <1>2, <1>6 DEF LoadOK, Reading

-----------------------------------------------------------------------------
(* The steps                                                                 *)

LEMMA OfferCommit ==
  ASSUME OfferInv, \E w : Commit(w) /\ Follows(srv, w)
  PROVE  LoadOK(load, srv)'
<1>1. PICK w : Commit(w) /\ Follows(srv, w)
  OBVIOUS
<1>2. PICK l, v, m : l = load /\ v = srv /\ m = load'
  OBVIOUS
<1>3. l \in Load /\ Sound(v) /\ LoadOK(l, v) /\ Follows(v, w) /\ srv' = w
  BY <1>1, <1>2 DEF OfferInv, Base, Commit
<1>4. LoadOK(m, w)
  <2>1. CASE l.at \in Reading
    <3>1. m = [l EXCEPT !.legal = @ \cup Legal(w, l.by), !.met = @ + 1]
      BY <1>1, <1>2, <2>1 DEF Commit
    <3> QED BY <1>3, <2>1, <3>1, MetOK
  <2>2. CASE l.at \notin Reading
    <3>1. m = l
      BY <1>1, <1>2, <2>2 DEF Commit
    <3> QED BY <1>3, <2>2, <3>1, UnmetOK
  <2> QED BY <2>1, <2>2
<1> QED BY <1>2, <1>3, <1>4

LEMMA OfferRead ==
  ASSUME OfferInv, BundleReads
  PROVE  LoadOK(load, srv)'
<1>1. PICK l, v, m : l = load /\ v = srv /\ m = load'
  OBVIOUS
<1>2. /\ l \in Load /\ Sound(v) /\ v \in Server /\ LoadOK(l, v) /\ ReadsOf(l, v)
      /\ srv' = v
  BY <1>1 DEF OfferInv, Base, Sound, BundleReads, ReadTask, ReadSubmission,
              ReadValidation, ReadEvaluation, ReadSettlement, LoadFails
<1>3. ASSUME NEW kind \in {"denied", "failed"}, Refuse(kind), l.at # "none"
      PROVE  LoadOK(m, v)
  <2>1. m \in Load /\ m.at = "answer" /\ m.by = l.by /\ m.kind = kind
    <3>1. m = Refusal(l, kind)
      BY <1>1, <1>3 DEF Refuse, Refusal
    <3> QED BY <1>2, <3>1, Refused
  <2> QED BY <1>2, <1>3, <2>1 DEF LoadOK, OffersOf, Reading
<1>4. CASE ReadTask
  <2>1. l.at = "task" /\ l.by # Nobody
    BY <1>1, <1>2, <1>4 DEF ReadTask, LoadOK
  <2>2. CASE Refuse("denied")
    BY <1>1, <1>3, <2>1, <2>2, <1>2
  <2>3. CASE load' = [load EXCEPT !.at = "sub", !.legal = Legal(srv, load.by),
                                  !.bundle.status = srv.status,
                                  !.bundle.assignee = srv.assignee]
    <3>1. m = WithTask(l, v)
      BY <1>1, <2>3 DEF WithTask
    <3>2. /\ m \in Load /\ m.at = "sub" /\ m.by = l.by /\ m.legal = Legal(v, l.by)
          /\ m.bundle.status = v.status /\ m.bundle.assignee = v.assignee
      BY <1>2, <3>1, TaskRead
    <3> QED BY <1>1, <1>2, <2>1, <3>2, TaskReadOK
  <2> QED BY <1>4, <2>2, <2>3 DEF ReadTask
<1>5. CASE ReadSubmission
  <2>1. PICK n, sub : n = Current(v) /\ sub = IF n = 0 THEN "none" ELSE v.subs[n]
    OBVIOUS
  <2>2. n \in Nat /\ sub \in SubmissionStatuses \cup {"none"}
    BY <1>2, <2>1, RowsRead
  <2>3. m = WithSubmission(l, n, sub)
    BY <1>1, <1>5, <2>1 DEF ReadSubmission, WithSubmission
  <2>4. /\ m \in Load /\ m.at = "validation" /\ SameTask(l, m)
        /\ m.bundle.n = n /\ m.bundle.sub = sub
    BY <1>2, <2>2, <2>3, SubmissionRead
  <2>5. l.at = "sub"
    BY <1>1, <1>5 DEF ReadSubmission
  <2>6. LoadOK(m, v)
    BY <1>2, <2>1, <2>4, <2>5, SubmissionReadOK
  <2> QED BY <1>1, <1>2, <2>6
<1>6. CASE ReadValidation
  <2>1. PICK validated : validated = (l.bundle.n # 0 /\ v.validated = l.bundle.n)
    OBVIOUS
  <2>2. validated \in BOOLEAN
    BY <2>1
  <2>3. m = WithValidation(l, validated)
    BY <1>1, <1>6, <2>1 DEF ReadValidation, WithValidation
  <2>4. /\ m \in Load /\ m.at = "evaluation" /\ SameSubmission(l, m)
    BY <1>2, <2>2, <2>3, ValidationRead
  <2>5. l.at = "validation"
    BY <1>1, <1>6 DEF ReadValidation
  <2>6. LoadOK(m, v)
    BY <1>2, <2>4, <2>5, ValidationReadOK
  <2> QED BY <1>1, <1>2, <2>6
<1>7. CASE ReadEvaluation
  <2>1. PICK outcome : outcome = OutcomeOf(v, l.bundle.n)
    OBVIOUS
  <2>2. outcome \in {"none", "approve", "revise", "reject"}
    <3>1. l.at = "evaluation"
      BY <1>1, <1>7 DEF ReadEvaluation
    <3> QED BY <1>2, <2>1, <3>1, RowsRead DEF ReadsOf, SubReads
  <2>3. m = WithOutcome(l, outcome)
    BY <1>1, <1>7, <2>1 DEF ReadEvaluation, WithOutcome
  <2>4. /\ m \in Load /\ m.at = "settlement" /\ SameSubmission(l, m)
        /\ m.bundle.outcome = outcome
    BY <1>2, <2>2, <2>3, EvaluationRead
  <2>5. l.at = "evaluation"
    BY <1>1, <1>7 DEF ReadEvaluation
  <2>6. LoadOK(m, v)
    BY <1>2, <2>1, <2>4, <2>5, EvaluationReadOK
  <2> QED BY <1>1, <1>2, <2>6
<1>8. CASE ReadSettlement
  <2>1. PICK row : row = IF l.bundle.n = 0 THEN "none" ELSE v.payments[l.bundle.n]
    OBVIOUS
  <2>2. row \in Payments
    <3>1. l.at = "settlement"
      BY <1>1, <1>8 DEF ReadSettlement
    <3> QED BY <1>2, <2>1, <3>1, RowsRead DEF ReadsOf, SubReads
  <2>3. m = WithSettlement(l, row)
    BY <1>1, <1>8, <2>1 DEF ReadSettlement, WithSettlement
  <2>4. /\ m \in Load /\ m.at = "answer" /\ SameSubmission(l, m)
        /\ m.bundle.outcome = l.bundle.outcome /\ m.bundle.settlement = row
    BY <1>2, <2>2, <2>3, SettlementRead
  <2>5. l.at = "settlement"
    BY <1>1, <1>8 DEF ReadSettlement
  <2>6. LoadOK(m, v)
    BY <1>2, <2>1, <2>4, <2>5, SettlementReadOK
  <2> QED BY <1>1, <1>2, <2>6
<1>9. CASE LoadFails
  <2>1. Refuse("failed") /\ l.at # "none"
    BY <1>1, <1>9 DEF LoadFails, Reading
  <2> QED BY <1>1, <1>2, <1>3, <2>1
<1> QED BY <1>4, <1>5, <1>6, <1>7, <1>8, <1>9 DEF BundleReads

(* A load that starts, or is over *)
LEMMA OfferFresh ==
  ASSUME load'.at \in {"none", "task"}, load'.at = "task" => load'.by # Nobody
  PROVE  LoadOK(load, srv)'
BY DEF LoadOK, OffersOf, Reading

(* One that the page has overtaken meanwhile *)
LEMMA OfferHear ==
  ASSUME OfferInv, NEW s \in Slots, Hear(s)
  PROVE  LoadOK(load, srv)'
<1>1. srv' = srv
  BY DEF Hear
<1>2. /\ load'.at = load.at /\ load'.by = load.by /\ load'.kind = load.kind
      /\ load'.legal = load.legal /\ load'.bundle = load.bundle
  BY DEF Hear, HearSuccess, HearClaim, HearFailure, ToldOf, OfferInv, Base, Load
<1> QED BY <1>1, <1>2 DEF OfferInv, LoadOK, OffersOf, StatusSeen, KeepsUp, ApprovalSeen

LEMMA OfferStep == OfferInv /\ [Next]_vars => OfferInv'
<1> SUFFICES ASSUME OfferInv, [Next]_vars PROVE LoadOK(load, srv)'
  BY BaseStep DEF OfferInv
<1> USE DEF OfferInv
<1>1. ASSUME srv' = srv, load' = load PROVE LoadOK(load, srv)'
  BY <1>1
<1>2. CASE BundleReads
  BY <1>2, OfferRead
<1>3. CASE LoadArrives
  BY <1>3, OfferFresh DEF LoadArrives, NoLoad
<1>4. CASE RunEffect
  <2>1. \/ load' = NoLoad
        \/ page.identity # Nobody /\ load' = [NoLoad EXCEPT !.at = "task",
                                                           !.by = page.identity]
    BY <1>4 DEF RunEffect
  <2>2. CASE load' = NoLoad
    BY <2>2, OfferFresh DEF NoLoad
  <2>3. CASE page.identity # Nobody /\ load' = [NoLoad EXCEPT !.at = "task",
                                                            !.by = page.identity]
    <3>1. PICK by : by = page.identity
      OBVIOUS
    <3>2. load'.at = "task" /\ load'.by = by
      BY <2>3, <3>1 DEF NoLoad
    <3> QED BY <2>3, <3>1, <3>2, OfferFresh
  <2> QED BY <2>1, <2>2, <2>3
<1>5. CASE Elsewhere
  BY <1>5, ElsewhereCommits, OfferCommit
<1>6. ASSUME NEW s \in Slots, PostSteps(s) PROVE LoadOK(load, srv)'
  <2>1. CASE Hear(s)
    BY <2>1, OfferHear
  <2>2. CASE Serve(s)
    BY <2>2, ServeCommits, OfferCommit
  <2>3. CASE ReviewEnds(s)
    BY <1>1, <2>3, ReviewCommits, OfferCommit
  <2>4. CASE ServeReview(s) \/ ServeRefuses(s) \/ ReviewTimesOut(s)
    BY <1>1, <2>4 DEF ServeReview, ServeRefuses, ReviewTimesOut
  <2> QED BY <1>6, <2>1, <2>2, <2>3, <2>4 DEF PostSteps
<1>7. CASE UNCHANGED vars \/ SwitchIdentity \/ Retry \/ DroppedArrives
  BY <1>1, <1>7 DEF vars, SwitchIdentity, Retry, DroppedArrives
<1>8. ASSUME NEW s \in Slots, Provider(s) \/ \E kind \in Offers : Click(s, kind)
      PROVE  LoadOK(load, srv)'
  BY <1>1, <1>8 DEF Provider, Click
<1> QED BY <1>2, <1>3, <1>4, <1>5, <1>6, <1>7, <1>8 DEF Next, LoadSteps, BundleReads

(* What a load has read agrees with what was legal while it read. *)
THEOREM ReadsAreCovered == Spec => []OfferInv
<1>1. Init => OfferInv
  <2> SUFFICES ASSUME Init PROVE LoadOK(load, srv)
    BY BaseInit DEF OfferInv
  <2>1. load.at = "none"
    BY DEF Init, NoLoad
  <2> QED BY <2>1 DEF LoadOK, OffersOf, Reading
<1> QED BY <1>1, OfferStep, PTL DEF Spec

(* A page never starts out with a button that the server would have refused  *)
(* during the whole load: the rows of the bundle, read at different times    *)
(* while anyone may change them, are combined into nothing that was never    *)
(* true.  The exceptions are those of the property.                          *)
THEOREM OffersAreLegal == Spec => []OffersWereLegal
<1>1. OfferInv => OffersWereLegal
  BY DEF OfferInv, LoadOK, OffersOf, Lost, OffersWereLegal
<1> QED BY <1>1, ReadsAreCovered, PTL

(* Whoever acts, from whatever page, the status of the task moves as          *)
(* LEGAL_TRANSITIONS allows, a rejection and an expiry being final.  The one *)
(* exception is the executor's rollback, which takes a task back to          *)
(* UNDER_REVIEW by its id, also when it has ended by then.  It does so at     *)
(* most once for each lock: only a lock under review lets another follow.     *)
LegalMove ==
  /\ srv'.status # srv.status =>
       LegalCommit(srv.status, srv'.status) \/ Reopens(srv, srv')
  /\ srv'.sending /\ ~srv.sending =>
       srv.status = "UNDER_REVIEW" /\ srv'.status = "SETTLING"

THEOREM PageMovesAreLegal == Spec => [][LegalMove]_vars
<1>1. Base /\ [Next]_vars => [LegalMove]_vars
  <2> SUFFICES ASSUME Base, Next PROVE LegalMove
    OBVIOUS
  <2>1. ASSUME \E w : Commit(w) /\ Follows(srv, w) PROVE LegalMove
    BY <2>1 DEF Commit, Follows, Moves, LegalMove
  <2>2. ASSUME srv' = srv PROVE LegalMove
    BY <2>2 DEF LegalMove
  <2>3. CASE LoadSteps \/ SwitchIdentity \/ RunEffect \/ Retry
    BY <2>2, <2>3 DEF LoadSteps, ReadTask, ReadSubmission, ReadValidation, ReadEvaluation,
       ReadSettlement, LoadFails, LoadArrives, DroppedArrives, SwitchIdentity, RunEffect,
       Retry
  <2>4. CASE Elsewhere
    BY <2>1, <2>4, ElsewhereCommits
  <2>5. ASSUME NEW s \in Slots, PostSteps(s) PROVE LegalMove
    BY <2>1, <2>2, <2>5, ServeCommits, ReviewCommits
    DEF PostSteps, ServeReview, ServeRefuses, ReviewTimesOut, Hear
  <2>6. ASSUME NEW s \in Slots, Provider(s) \/ \E kind \in Offers : Click(s, kind)
        PROVE  LegalMove
    BY <2>2, <2>6 DEF Provider, Click
  <2> QED BY <2>3, <2>4, <2>5, <2>6 DEF Next
<1> QED BY <1>1, RowsAlwaysAgree, PTL DEF Spec
=============================================================================
