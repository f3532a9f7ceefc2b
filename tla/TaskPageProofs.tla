--------------------------- MODULE TaskPageProofs ---------------------------
(***************************************************************************)
(* What the page owes its own buttons, for any people, any number of        *)
(* requests at once and any budget of revisions: once it has been told of a *)
(* change it asked for, no answer that was already on its way is shown,      *)
(* unless that change was a claim.                                          *)
(***************************************************************************)
EXTENDS TaskPage, TLAPS

(* The fields of the page and of its request, whatever they hold. *)
Shape ==
  /\ page = [identity |-> page.identity, result |-> page.result, due |-> page.due]
  /\ page.result = [ kind |-> page.result.kind, by |-> page.result.by,
                     bundle |-> page.result.bundle, taskBy |-> page.result.taskBy,
                     behind |-> page.result.behind ]
  /\ load = [ at |-> load.at, by |-> load.by, bundle |-> load.bundle,
              kind |-> load.kind, legal |-> load.legal, behind |-> load.behind,
              met |-> load.met ]
  /\ page.due \in BOOLEAN

(* Whatever is behind is about to be thrown away: the effect that replaces   *)
(* it is due, and React runs it before the page is left to itself.  Only a   *)
(* claim does not ask for that.                                              *)
BehindIsDue ==
  /\ ~page.due => load.behind \subseteq {"claim"}
  /\ ~page.due => page.result.behind \subseteq {"claim"}

PageInv == Shape /\ BehindIsDue

LEMMA InitOK == Init => PageInv
<1> SUFFICES ASSUME Init PROVE PageInv
  OBVIOUS
<1>1. PICK who : page = [identity |-> who, result |-> NoResult, due |-> TRUE]
  BY DEF Init
<1>2. /\ page.identity = who /\ page.result = NoResult /\ page.due = TRUE
      /\ load = NoLoad
  BY <1>1 DEF Init
<1> QED BY <1>1, <1>2 DEF PageInv, Shape, BehindIsDue, NoResult, NoLoad

(* A change of the rows leaves the request what it is, but for its history. *)
LEMMA CommitStep ==
  ASSUME PageInv, NEW v, Commit(v), page' = page
  PROVE  PageInv'
<1>1. \/ load' = load
      \/ load' = [load EXCEPT !.legal = @ \cup Legal(v, load.by), !.met = @ + 1]
  BY DEF Commit
<1> QED BY <1>1 DEF PageInv, Shape, BehindIsDue

(* A read of the bundle fills in its answer. *)
LEMMA ReadStep ==
  ASSUME PageInv,
         ReadTask \/ ReadSubmission \/ ReadValidation \/ ReadEvaluation
         \/ ReadSettlement \/ LoadFails
  PROVE  PageInv'
<1>1. page' = page
  BY DEF ReadTask, ReadSubmission, ReadValidation, ReadEvaluation, ReadSettlement,
         LoadFails, pageVars
<1>2. PICK at, kind, bundle, legal, met :
        load' = [ at |-> at, by |-> load.by, bundle |-> bundle, kind |-> kind,
                  legal |-> legal, behind |-> load.behind, met |-> met ]
  <2>1. CASE ReadTask
    BY <2>1 DEF ReadTask, Refuse, PageInv, Shape
  <2>2. CASE ReadSubmission
    <3>1. PICK n, sub : load' = [load EXCEPT !.at = "validation", !.bundle.n = n,
                                             !.bundle.sub = sub]
      BY <2>2 DEF ReadSubmission
    <3> QED BY <3>1 DEF PageInv, Shape
  <2>3. CASE ReadValidation
    BY <2>3 DEF ReadValidation, PageInv, Shape
  <2>4. CASE ReadEvaluation
    BY <2>4 DEF ReadEvaluation, PageInv, Shape
  <2>5. CASE ReadSettlement
    <3>1. PICK row : load' = [load EXCEPT !.at = "answer", !.met = 0,
                                          !.bundle.settlement = row]
      BY <2>5 DEF ReadSettlement
    <3> DEFINE b == [load.bundle EXCEPT !.settlement = row]
    <3>2. load' = [ at |-> "answer", by |-> load.by, bundle |-> b,
                    kind |-> load.kind, legal |-> load.legal,
                    behind |-> load.behind, met |-> 0 ]
      BY <3>1 DEF PageInv, Shape
    <3> QED BY <3>2
  <2>6. CASE LoadFails
    BY <2>6 DEF LoadFails, Refuse, PageInv, Shape
  <2> QED BY <2>1, <2>2, <2>3, <2>4, <2>5, <2>6
<1> QED BY <1>1, <1>2 DEF PageInv, Shape, BehindIsDue

(* What the effect waits for is shown, what it has dropped is not.           *)
LEMMA ArriveStep ==
  ASSUME PageInv, LoadArrives \/ DroppedArrives
  PROVE  PageInv'
<1>1. CASE LoadArrives
  <2>1. /\ page' = [page EXCEPT !.result = ResultOf(load)]
        /\ load' = NoLoad
    BY <1>1 DEF LoadArrives
  <2> QED BY <2>1 DEF PageInv, Shape, BehindIsDue, ResultOf, NoLoad
<1>2. CASE DroppedArrives
  <2>1. page' = page /\ load' = load
    BY <1>2 DEF DroppedArrives, Heard
  <2> QED BY <2>1 DEF PageInv, Shape, BehindIsDue
<1> QED BY <1>1, <1>2

(* The effect replaces the result and the request it finds. *)
LEMMA EffectStep ==
  ASSUME PageInv, SwitchIdentity \/ RunEffect \/ Retry
  PROVE  PageInv'
<1>1. CASE SwitchIdentity
  <2>1. PICK who : page' = [page EXCEPT !.identity = who, !.due = TRUE]
    BY <1>1 DEF SwitchIdentity
  <2>2. load' = load
    BY <1>1 DEF SwitchIdentity
  <2> QED BY <2>1, <2>2 DEF PageInv, Shape, BehindIsDue
<1>2. CASE RunEffect
  <2>1. page' = [identity |-> page.identity, result |-> NoResult, due |-> FALSE]
    BY <1>2 DEF RunEffect, PageInv, Shape
  <2>2. PICK at, by :
          load' = [ at |-> at, by |-> by, bundle |-> Blank, kind |-> "state",
                    legal |-> {}, behind |-> {}, met |-> 0 ]
    <3>1. CASE page.identity = Nobody
      BY <1>2, <3>1 DEF RunEffect, NoLoad
    <3>2. CASE page.identity # Nobody
      BY <1>2, <3>2 DEF RunEffect, NoLoad
    <3> QED BY <3>1, <3>2
  <2>3. page'.result.behind = {} /\ load'.behind = {}
    BY <2>1, <2>2 DEF NoResult
  <2> QED BY <2>1, <2>2, <2>3 DEF PageInv, Shape, BehindIsDue, NoResult
<1>3. CASE Retry
  <2>1. page' = Refreshed(page) /\ load' = load
    BY <1>3 DEF Retry
  <2> QED BY <2>1 DEF PageInv, Shape, BehindIsDue, Refreshed, NoResult
<1> QED BY <1>1, <1>2, <1>3

(* Telling a request that is out adds to what it is behind of. *)
LEMMA ToldIs ==
  ASSUME PageInv, NEW kind, ToldOf(kind)
  PROVE  \E behind : /\ load' = [load EXCEPT !.behind = behind]
                     /\ behind \subseteq load.behind \cup {kind}
<1>1. CASE load.at = "none"
  <2>1. load' = [load EXCEPT !.behind = load.behind]
    BY <1>1 DEF ToldOf, PageInv, Shape
  <2> QED BY <2>1
<1>2. CASE load.at # "none"
  <2>1. load' = [load EXCEPT !.behind = load.behind \cup {kind}]
    BY <1>2 DEF ToldOf, PageInv, Shape
  <2> QED BY <2>1
<1> QED BY <1>1, <1>2

(* Hearing of a success makes the request that is out one that is behind,    *)
(* and the effect due, unless it is of a claim.                              *)
LEMMA HearStep ==
  ASSUME PageInv, NEW s \in Slots, Hear(s)
  PROVE  PageInv'
<1>1. CASE HearSuccess(s)
  <2>1. /\ page' = Refreshed(page)
        /\ \E behind : load' = [load EXCEPT !.behind = behind]
    BY <1>1, ToldIs DEF HearSuccess
  <2> QED BY <2>1 DEF PageInv, Shape, BehindIsDue, Refreshed, NoResult
<1>2. CASE HearClaim(s)
  <2>1. PICK bundle :
          \/ page' = page
          \/ page' = [page EXCEPT !.result.bundle = bundle,
                                  !.result.taskBy = posts[s].by]
    <3>1. CASE page.result.kind # "state"
      BY <1>2, <3>1 DEF HearClaim
    <3>2. CASE page.result.kind = "state"
      <4>1. page' = [page EXCEPT !.result.bundle.status = "IN_PROGRESS",
                                 !.result.bundle.assignee = posts[s].by,
                                 !.result.taskBy = posts[s].by]
        BY <1>2, <3>2 DEF HearClaim
      <4> DEFINE b == [page.result.bundle EXCEPT !.status = "IN_PROGRESS",
                                                 !.assignee = posts[s].by]
      <4>2. page' = [page EXCEPT !.result.bundle = b, !.result.taskBy = posts[s].by]
        BY <4>1 DEF PageInv, Shape
      <4> QED BY <4>2
    <3> QED BY <3>1, <3>2
  <2>2. PICK behind : /\ load' = [load EXCEPT !.behind = behind]
                      /\ behind \subseteq load.behind \cup {"claim"}
    BY <1>2, ToldIs DEF HearClaim
  <2>3. PICK taskBy, shown :
          page' = [ identity |-> page.identity, due |-> page.due,
                    result |-> [ kind |-> page.result.kind, by |-> page.result.by,
                                 bundle |-> shown, taskBy |-> taskBy,
                                 behind |-> page.result.behind ] ]
    <3>1. CASE page' = page
      BY <3>1 DEF PageInv, Shape
    <3>2. CASE page' = [page EXCEPT !.result.bundle = bundle,
                                    !.result.taskBy = posts[s].by]
      BY <3>2 DEF PageInv, Shape
    <3> QED BY <2>1, <3>1, <3>2
  <2> QED BY <2>2, <2>3 DEF PageInv, Shape, BehindIsDue
<1>3. CASE HearFailure(s)
  BY <1>3 DEF HearFailure, PageInv, Shape, BehindIsDue
<1> QED BY <1>1, <1>2, <1>3 DEF Hear

(* The other steps of a button change no more than the rows. *)
LEMMA PostStep ==
  ASSUME PageInv, NEW s \in Slots,
         Serve(s) \/ ServeReview(s) \/ ServeRefuses(s) \/ ReviewEnds(s)
         \/ ReviewTimesOut(s) \/ Provider(s) \/ (\E kind \in Offers : Click(s, kind))
  PROVE  PageInv'
<1>1. page' = page
  BY DEF Serve, ServeReview, ServeRefuses, ReviewEnds, ReviewTimesOut, Provider,
         Click, pageVars
<1>2. load' = load \/ \E v : Commit(v)
  BY DEF Serve, ServeReview, ServeRefuses, ReviewEnds, ReviewTimesOut, Provider, Click
<1>3. CASE load' = load
  BY <1>1, <1>3 DEF PageInv, Shape, BehindIsDue
<1>4. CASE \E v : Commit(v)
  BY <1>1, <1>4, CommitStep
<1> QED BY <1>2, <1>3, <1>4

(* Nor do other people.                                                      *)
LEMMA ElsewhereStep ==
  ASSUME PageInv, Elsewhere
  PROVE  PageInv'
<1>1. page' = page
  BY DEF Elsewhere, pageVars
<1>2. \E v : Commit(v)
  BY DEF Elsewhere
<1> QED BY <1>1, <1>2, CommitStep

LEMMA StepOK == PageInv /\ [Next]_vars => PageInv'
<1> SUFFICES ASSUME PageInv, [Next]_vars PROVE PageInv'
  OBVIOUS
<1>1. CASE UNCHANGED vars
  BY <1>1 DEF vars, PageInv, Shape, BehindIsDue
<1>2. CASE LoadSteps
  BY <1>2, ReadStep, ArriveStep DEF LoadSteps
<1>3. CASE SwitchIdentity \/ RunEffect \/ Retry
  BY <1>3, EffectStep
<1>4. CASE Elsewhere
  BY <1>4, ElsewhereStep
<1>5. ASSUME NEW s \in Slots,
             PostSteps(s) \/ Provider(s) \/ (\E kind \in Offers : Click(s, kind))
      PROVE  PageInv'
  BY <1>5, PostStep, HearStep DEF PostSteps
<1> QED BY <1>1, <1>2, <1>3, <1>4, <1>5 DEF Next

(* The inductive invariant of the page: what is behind is about to go.       *)
THEOREM BehindIsNeverKept == Spec => []PageInv
BY InitOK, StepOK, PTL DEF Spec

(* Once the server has told the page of a change it asked for, the page does *)
(* not show the task as it was before, whichever answers are still to come;  *)
(* only the answer to a claim gives way to a load that was out before it.    *)
THEOREM PageShowsItsWrites == Spec => []OwnWritesAreShown
<1>1. PageInv => OwnWritesAreShown
  BY DEF PageInv, Shape, BehindIsDue, OwnWritesAreShown
<1> QED BY <1>1, BehindIsNeverKept, PTL
=============================================================================
