------------------------ MODULE TaskPageServerProofs ------------------------
(***************************************************************************)
(* What one operation of the server makes of the rows that TaskPage sees:   *)
(* lemmas about the operators Claimed, Submitted, Validated, Confirmed,     *)
(* Released, Settled, RolledBack, Deleted, Reviewed and Revised, without any *)
(* request in flight.                                                       *)
(***************************************************************************)
EXTENDS TaskPage, SequenceTheorems, WellFoundedInduction, TLAPS

Live == {"PENDING", "APPROVED"}

Locked == {"SETTLING", "COMPLETED", "PAYMENT_FAILED"}

(* The rows agree with each other: the status with what is awaited of the    *)
(* newest submission, and with what has become of its settlement.  That      *)
(* settlement may have been deleted at any time; and since a failed send     *)
(* puts its task back under review with the row in place, the settlement by  *)
(* which a task has ended need not be that of the newest submission.         *)
RowsAgree(v) ==
  /\ v.status \notin TransientStatuses
  /\ Len(v.payments) = Len(v.subs)
  /\ v.status \in {"OPEN", "IN_PROGRESS", "EXPIRED"} =>
       \A s \in DOMAIN v.subs : v.subs[s] \notin Live
  /\ v.status = "SUBMITTED" => v.subs # <<>> /\ v.subs[Len(v.subs)] = "PENDING"
  /\ v.status = "UNDER_REVIEW" => v.subs # <<>> /\ v.subs[Len(v.subs)] # "SUPERSEDED"
  /\ v.status \in Locked =>
       /\ v.subs # <<>> /\ v.subs[Len(v.subs)] = "APPROVED"
       /\ v.payments[Len(v.subs)] # "none"
  /\ v.status = "COMPLETED" =>
       \E s \in DOMAIN v.payments : v.payments[s] \in {"CONFIRMED", "deleted"}
  /\ v.status = "PAYMENT_FAILED" =>
       \E s \in DOMAIN v.payments : v.payments[s] \in {"FAILED", "deleted"}
  /\ v.sending => v.status \in Locked
  /\ v.evaluated.outcome = "approve" => v.evaluated.sub \in v.confirmable

ApprovedNow(v) == Current(v) # 0 /\ v.subs[Current(v)] = "APPROVED"

Ended == {"REJECTED", "EXPIRED"}

(* The one move that leaves the whitelist *)
Reopens(v, w) == v.sending /\ ~w.sending /\ w.status = "UNDER_REVIEW"

(* What may become of the settlement of submission s *)
PaymentMoves(v, w, s) ==
  \/ w.payments[s] = v.payments[s]
  \/ /\ v.payments[s] \in NoRow /\ w.payments[s] = "open"
     /\ v.status = "UNDER_REVIEW" /\ s = Current(v) /\ v.subs[s] = "APPROVED"
  \/ v.payments[s] = "open" /\ w.payments[s] \in {"CONFIRMED", "FAILED"}
  \/ v.payments[s] \notin NoRow /\ w.payments[s] = "deleted"

(* What any operation may do to them, and never undoes *)
Moves(v, w) ==
  /\ w.status # v.status => LegalCommit(v.status, w.status) \/ Reopens(v, w)
  /\ w.sending /\ ~v.sending => v.status = "UNDER_REVIEW" /\ w.status = "SETTLING"
  /\ DOMAIN v.subs \subseteq DOMAIN w.subs
  /\ \A s \in DOMAIN v.subs : PaymentMoves(v, w, s)
  /\ v.confirmable \subseteq w.confirmable
  /\ v.assignee # Nobody \/ v.status # "OPEN" => w.assignee = v.assignee
  /\ v.status \in Ended => w.status = v.status /\ w.subs = v.subs
  /\ w.status = "REJECTED" /\ v.status # "REJECTED" /\ ApprovedNow(w) =>
       /\ v.status = "UNDER_REVIEW" /\ ApprovedNow(v)
       /\ Current(w) = Current(v) /\ w.payments = v.payments

Sound(v) == v \in Server /\ RowsAgree(v)
Follows(v, w) == Sound(w) /\ Moves(v, w)

-----------------------------------------------------------------------------
(* The current submission                                                    *)

(* The principle of the least number, for the distances from the end *)
LEMMA Greatest ==
  ASSUME NEW n \in Nat, NEW T \in SUBSET (1..n), T # {}
  PROVE  \E x \in T : \A y \in T : y <= x
<1>1. PICK U : U = {m \in Nat : \E x \in T : m = n - x}
  OBVIOUS
<1>2. U \subseteq Nat /\ U # {}
  <2>1. PICK x \in T : TRUE
    OBVIOUS
  <2>2. x \in 1..n /\ n - x \in Nat
    BY <2>1
  <2> QED BY <1>1, <2>1, <2>2
<1>3. PICK R : R = OpToRel(<, Nat)
  OBVIOUS
<1>4. IsWellFoundedOn(R, Nat)
  BY <1>3, NatLessThanWellFounded
<1>5. \A k, m \in Nat : k < m => <<k, m>> \in R
  BY <1>3 DEF OpToRel
<1>6. PICK m \in U : \A k \in U : <<k, m>> \notin R
  BY <1>2, <1>4, WFMin
<1>7. PICK x \in T : m = n - x
  BY <1>1
<1>8. ASSUME NEW y \in T PROVE y <= x
  <2>1. n - y \in U
    BY <1>1
  <2>2. ~(n - y < m)
    BY <1>2, <1>5, <1>6, <2>1
  <2> QED BY <1>7, <2>2
<1> QED BY <1>8

LEMMA SubsAre ==
  ASSUME NEW v \in Server
  PROVE  /\ v.subs \in Seq(SubmissionStatuses) /\ Len(v.subs) \in Nat
         /\ DOMAIN v.subs = 1..Len(v.subs)
         /\ \A s \in DOMAIN v.subs : v.subs[s] \in SubmissionStatuses
<1>1. v.subs \in Seq(SubmissionStatuses)
  BY DEF Server
<1> QED BY <1>1, LenProperties, ElementOfSeq

LEMMA PaymentsAre ==
  ASSUME NEW v, Sound(v)
  PROVE  /\ v.payments \in Seq(Payments) /\ Len(v.payments) = Len(v.subs)
         /\ DOMAIN v.payments = DOMAIN v.subs
         /\ \A s \in DOMAIN v.subs : v.payments[s] \in Payments
<1>1. v.payments \in Seq(Payments) /\ Len(v.payments) = Len(v.subs) /\ v \in Server
  BY DEF Sound, Server, RowsAgree
<1> QED BY <1>1, SubsAre, LenProperties, ElementOfSeq

LEMMA CurrentIs ==
  ASSUME NEW v \in Server
  PROVE  /\ Current(v) \in Nat
         /\ Current(v) # 0 =>
              Current(v) \in DOMAIN v.subs /\ v.subs[Current(v)] # "SUPERSEDED"
<1> DEFINE T == {s \in DOMAIN v.subs : v.subs[s] # "SUPERSEDED"}
<1>1. CASE T = {}
  BY <1>1 DEF Current
<1>2. CASE T # {}
  <2>1. PICK x \in T : \A y \in T : y <= x
    BY <1>2, SubsAre, Greatest
  <2>2. \A t \in DOMAIN v.subs : t > x => v.subs[t] = "SUPERSEDED"
    BY <2>1, SubsAre
  <2> QED BY <2>1, <2>2, SubsAre DEF Current
<1> QED BY <1>1, <1>2

LEMMA NewestIsCurrent ==
  ASSUME NEW v \in Server, v.subs # <<>>, v.subs[Len(v.subs)] # "SUPERSEDED"
  PROVE  Current(v) = Len(v.subs) /\ Current(v) \in DOMAIN v.subs /\ Current(v) # 0
<1>1. Len(v.subs) \in DOMAIN v.subs /\ Len(v.subs) # 0
  BY SubsAre, EmptySeq
<1>2. \A s \in DOMAIN v.subs :
        (/\ v.subs[s] # "SUPERSEDED"
         /\ \A t \in DOMAIN v.subs : t > s => v.subs[t] = "SUPERSEDED")
          <=> s = Len(v.subs)
  BY <1>1, SubsAre
<1> QED BY <1>1, <1>2 DEF Current

(* ApprovedNow is a matter of the submissions alone. *)
LEMMA SameSubs ==
  ASSUME NEW v, NEW w, w.subs = v.subs
  PROVE  Current(w) = Current(v) /\ (ApprovedNow(w) <=> ApprovedNow(v))
BY DEF Current, ApprovedNow

(* Whose newest submission is in play has an approval exactly if that is it. *)
LEMMA NewestApproved ==
  ASSUME NEW v \in Server, v.subs # <<>>, v.subs[Len(v.subs)] # "SUPERSEDED"
  PROVE  ApprovedNow(v) <=> v.subs[Len(v.subs)] = "APPROVED"
BY NewestIsCurrent DEF ApprovedNow

-----------------------------------------------------------------------------
(* The operations                                                            *)

LEMMA LegalMoves ==
  /\ LegalCommit("OPEN", "IN_PROGRESS") /\ LegalCommit("IN_PROGRESS", "SUBMITTED")
  /\ LegalCommit("SUBMITTED", "UNDER_REVIEW") /\ LegalCommit("UNDER_REVIEW", "SETTLING")
  /\ LegalCommit("UNDER_REVIEW", "REJECTED") /\ LegalCommit("UNDER_REVIEW", "IN_PROGRESS")
  /\ LegalCommit("SETTLING", "COMPLETED") /\ LegalCommit("SETTLING", "PAYMENT_FAILED")
  /\ LegalCommit("OPEN", "EXPIRED") /\ LegalCommit("IN_PROGRESS", "EXPIRED")
BY DEF LegalCommit, CanTransition, LegalTransitions, TransientStatuses

LEMMA ClaimedFollows ==
  ASSUME NEW v, Sound(v), NEW a \in People \cup {Nobody}, AcceptsClaim(v, a)
  PROVE  Follows(v, Claimed(v, a))
<1>1. PICK w : w = Claimed(v, a)
  OBVIOUS
<1>2. w \in Server
  BY <1>1 DEF Claimed, Sound, Server, AcceptsClaim, People, TaskStatuses
<1>3. /\ v.status = "OPEN" /\ w.status = "IN_PROGRESS" /\ w.assignee = a
      /\ w.subs = v.subs /\ w.payments = v.payments /\ w.sending = v.sending
      /\ w.evaluated = v.evaluated /\ w.confirmable = v.confirmable
      /\ v.assignee \in {Nobody, a}
  BY <1>1 DEF Claimed, Sound, Server, AcceptsClaim
<1>4. RowsAgree(w)
  BY <1>3 DEF Sound, RowsAgree, Locked, TransientStatuses
<1>5. Moves(v, w)
  BY <1>3, LegalMoves DEF Moves, PaymentMoves, Ended
<1> QED BY <1>1, <1>2, <1>4, <1>5 DEF Follows, Sound

LEMMA SubmittedFollows ==
  ASSUME NEW v, Sound(v), v.status = "IN_PROGRESS"
  PROVE  Follows(v, Submitted(v))
<1>1. PICK w : w = Submitted(v)
  OBVIOUS
<1>2. /\ w.status = "SUBMITTED" /\ w.assignee = v.assignee
      /\ w.subs = Append(v.subs, "PENDING")
      /\ w.payments = Append(v.payments, "none") /\ w.sending = v.sending
      /\ w.evaluated = v.evaluated /\ w.confirmable = v.confirmable
  BY <1>1 DEF Submitted, Sound, Server
<1>3. /\ w.subs \in Seq(SubmissionStatuses) /\ w.subs # <<>>
      /\ w.subs[Len(w.subs)] = "PENDING" /\ DOMAIN v.subs \subseteq DOMAIN w.subs
      /\ Len(w.subs) = Len(v.subs) + 1
  <2>1. v.subs \in Seq(SubmissionStatuses) /\ "PENDING" \in SubmissionStatuses
    BY DEF Sound, Server, SubmissionStatuses
  <2> QED BY <1>2, <2>1, AppendProperties, LenProperties
<1>4. /\ w.payments \in Seq(Payments) /\ Len(w.payments) = Len(w.subs)
      /\ \A s \in DOMAIN v.subs : w.payments[s] = v.payments[s]
  <2>1. "none" \in Payments
    BY DEF Payments, NoRow
  <2> QED BY <1>2, <1>3, <2>1, PaymentsAre, AppendProperties, LenProperties
<1>5. w \in Server
  BY <1>1, <1>2, <1>3, <1>4 DEF Submitted, Sound, Server, TaskStatuses
<1>6. RowsAgree(w)
  BY <1>2, <1>3, <1>4 DEF Sound, RowsAgree, Locked, TransientStatuses
<1>7. Moves(v, w)
  BY <1>2, <1>3, <1>4, LegalMoves DEF Moves, PaymentMoves, Ended
<1> QED BY <1>1, <1>5, <1>6, <1>7 DEF Follows, Sound

LEMMA Statuses ==
  "APPROVED" \in SubmissionStatuses /\ "REJECTED" \in SubmissionStatuses
BY DEF SubmissionStatuses

(* Writing an entry of a sequence that exists *)
LEMMA Written ==
  ASSUME NEW S, NEW before \in Seq(S), NEW s \in DOMAIN before, NEW e \in S,
         NEW after, after = [before EXCEPT ![s] = e]
  PROVE  /\ after \in Seq(S) /\ Len(after) = Len(before)
         /\ DOMAIN after = DOMAIN before /\ (before # <<>> => after # <<>>)
         /\ \A t \in DOMAIN before : after[t] = IF t = s THEN e ELSE before[t]
<1>1. /\ Len(before) \in Nat /\ DOMAIN before = 1..Len(before)
  BY LenProperties
<1>2. /\ after \in Seq(S) /\ Len(after) = Len(before)
      /\ \A t \in 1..Len(before) : after[t] = IF t = s THEN e ELSE before[t]
  BY <1>1, ExceptSeq
<1>3. DOMAIN after = DOMAIN before
  OBVIOUS
<1> QED BY <1>1, <1>2, <1>3, EmptySeq

LEMMA ValidatedFollows ==
  ASSUME NEW v, Sound(v), v.status = "SUBMITTED", NEW valid \in BOOLEAN
  PROVE  Follows(v, Validated(v, valid))
<1>1. PICK w : w = Validated(v, valid)
  OBVIOUS
<1>2. PICK c : c = Current(v)
  OBVIOUS
<1>3. /\ w.status = "UNDER_REVIEW" /\ w.assignee = v.assignee
      /\ w.subs = IF valid THEN v.subs ELSE [v.subs EXCEPT ![c] = "REJECTED"]
      /\ w.payments = v.payments /\ w.sending = v.sending /\ w.evaluated = v.evaluated
      /\ w.confirmable = v.confirmable
  BY <1>1, <1>2 DEF Validated, Sound, Server
<1>4. c = Len(v.subs) /\ c \in DOMAIN v.subs /\ v.subs[c] = "PENDING" /\ v.subs # <<>>
      /\ c \in Nat
  BY <1>2, NewestIsCurrent, SubsAre DEF Sound, RowsAgree
<1>5. /\ w.subs \in Seq(SubmissionStatuses) /\ DOMAIN w.subs = DOMAIN v.subs
      /\ w.subs # <<>> /\ w.subs[Len(w.subs)] # "SUPERSEDED"
  <2>1. CASE valid
    BY <1>3, <1>4, <2>1, SubsAre DEF Sound
  <2>2. CASE ~valid
    <3>1. v.subs \in Seq(SubmissionStatuses)
      BY SubsAre DEF Sound
    <3> QED BY <1>3, <1>4, <2>2, <3>1, Statuses, Written
  <2> QED BY <2>1, <2>2
<1>6. w \in Server
  <2>1. w = [v EXCEPT !.status = "UNDER_REVIEW", !.validated = c, !.subs = w.subs]
    BY <1>1, <1>2, <1>3 DEF Validated, Sound, Server
  <2> QED BY <1>4, <1>5, <2>1 DEF Sound, Server, TaskStatuses
<1>7. RowsAgree(w)
  BY <1>3, <1>5 DEF Sound, RowsAgree, Locked, TransientStatuses
<1>8. Moves(v, w)
  BY <1>3, <1>5, LegalMoves DEF Moves, PaymentMoves, Ended
<1> QED BY <1>1, <1>6, <1>7, <1>8 DEF Follows, Sound

LEMMA ConfirmedFollows ==
  ASSUME NEW v, Sound(v), v.status = "UNDER_REVIEW"
  PROVE  Follows(v, Confirmed(v))
<1>1. PICK w : w = Confirmed(v)
  OBVIOUS
<1>2. PICK c : c = Current(v)
  OBVIOUS
<1>3. w = [v EXCEPT !.subs = [v.subs EXCEPT ![c] = "APPROVED"]]
  BY <1>1, <1>2 DEF Confirmed, Sound, Server
<1>4. /\ w.status = v.status /\ w.assignee = v.assignee
      /\ w.subs = [v.subs EXCEPT ![c] = "APPROVED"]
      /\ w.payments = v.payments /\ w.sending = v.sending /\ w.evaluated = v.evaluated
      /\ w.confirmable = v.confirmable
  BY <1>3 DEF Sound, Server
<1>5. c = Len(v.subs) /\ c \in DOMAIN v.subs /\ v.subs # <<>>
  BY <1>2, NewestIsCurrent DEF Sound, RowsAgree
<1>6. /\ w.subs \in Seq(SubmissionStatuses) /\ DOMAIN w.subs = DOMAIN v.subs
      /\ w.subs # <<>> /\ w.subs[Len(w.subs)] # "SUPERSEDED"
  <2>1. v.subs \in Seq(SubmissionStatuses)
    BY SubsAre DEF Sound
  <2> QED BY <1>4, <1>5, <2>1, Statuses, Written
<1>7. w \in Server
  BY <1>3, <1>4, <1>6 DEF Sound, Server
<1>8. RowsAgree(w)
  BY <1>4, <1>6 DEF Sound, RowsAgree, Locked
<1>9. Moves(v, w)
  BY <1>4, <1>6 DEF Moves, PaymentMoves, Ended
<1> QED BY <1>1, <1>7, <1>8, <1>9 DEF Follows, Sound

(* Whose status and submissions stay has moved no further. *)
LEMMA StaysFollows ==
  ASSUME NEW v, Sound(v)
  PROVE  Follows(v, v)
BY DEF Follows, Moves, PaymentMoves

LEMMA ReleasedFollows ==
  ASSUME NEW v, Sound(v), NEW a, NEW s, AcceptsRelease(v, a, s)
  PROVE  Follows(v, Released(v, s))
<1>1. CASE v.payments[s] \notin NoRow
  BY <1>1, StaysFollows DEF Released
<1>2. CASE v.payments[s] \in NoRow
  <2>1. /\ v.status = "UNDER_REVIEW" /\ s = Current(v) /\ v.subs[s] = "APPROVED"
        /\ s \in DOMAIN v.subs
    BY <1>2 DEF AcceptsRelease, NoRow
  <2>2. s = Len(v.subs) /\ v.subs # <<>>
    BY <2>1, NewestIsCurrent DEF Sound, RowsAgree
  <2>3. PICK payments : payments = [v.payments EXCEPT ![s] = "open"]
    OBVIOUS
  <2>4. /\ payments \in Seq(Payments) /\ Len(payments) = Len(v.subs)
        /\ \A t \in DOMAIN v.subs : payments[t] = IF t = s THEN "open" ELSE v.payments[t]
    <3>1. "open" \in Payments
      BY DEF Payments
    <3> QED BY <2>1, <2>3, <3>1, PaymentsAre, Written
  <2>5. PICK w : w = Released(v, s)
    OBVIOUS
  <2>6. w = [v EXCEPT !.status = "SETTLING", !.payments = payments, !.sending = TRUE]
    BY <1>2, <2>3, <2>5 DEF Released, Sound, Server
  <2>7. w \in Server
    BY <2>4, <2>6 DEF Sound, Server, TaskStatuses
  <2>8. /\ w.status = "SETTLING" /\ w.assignee = v.assignee /\ w.subs = v.subs
        /\ w.payments = payments /\ w.sending /\ w.evaluated = v.evaluated
        /\ w.confirmable = v.confirmable
    BY <2>6 DEF Sound, Server
  <2>9. RowsAgree(w)
    BY <2>1, <2>2, <2>4, <2>8 DEF Sound, RowsAgree, Locked, TransientStatuses
  <2>10. \A t \in DOMAIN v.subs : PaymentMoves(v, w, t)
    BY <1>2, <2>1, <2>4, <2>8 DEF PaymentMoves
  <2>11. Moves(v, w)
    BY <2>1, <2>8, <2>10, LegalMoves DEF Moves, Ended
  <2> QED BY <2>5, <2>7, <2>9, <2>11 DEF Follows, Sound
<1> QED BY <1>1, <1>2

(* Settling, of whichever submission, ends a task that is being paid. *)
LEMMA SettledFollows ==
  ASSUME NEW v, Sound(v), NEW s, Settles(v, s), NEW paid \in BOOLEAN
  PROVE  Follows(v, Settled(v, s, paid))
<1>1. PICK row : row = IF paid THEN "CONFIRMED" ELSE "FAILED"
  OBVIOUS
<1>2. PICK payments : payments = [v.payments EXCEPT ![s] = row]
  OBVIOUS
<1>3. s \in DOMAIN v.subs /\ v.payments[s] = "open" /\ v.status = "SETTLING"
  BY PaymentsAre DEF Settles
<1>4. /\ payments \in Seq(Payments) /\ Len(payments) = Len(v.subs)
      /\ DOMAIN payments = DOMAIN v.subs
      /\ \A t \in DOMAIN v.subs : payments[t] = IF t = s THEN row ELSE v.payments[t]
  <2>1. row \in Payments
    BY <1>1 DEF Payments
  <2> QED BY <1>2, <1>3, <2>1, PaymentsAre, Written
<1>5. PICK w : w = Settled(v, s, paid)
  OBVIOUS
<1>6. w = [v EXCEPT !.status = IF paid THEN "COMPLETED" ELSE "PAYMENT_FAILED",
                    !.payments = payments]
  BY <1>1, <1>2, <1>5 DEF Settled, Sound, Server
<1>7. w \in Server
  BY <1>4, <1>6 DEF Sound, Server, TaskStatuses
<1>8. /\ w.status = IF paid THEN "COMPLETED" ELSE "PAYMENT_FAILED"
      /\ w.payments = payments /\ w.sending = v.sending
      /\ w.assignee = v.assignee /\ w.subs = v.subs
      /\ w.evaluated = v.evaluated /\ w.confirmable = v.confirmable
  BY <1>6 DEF Sound, Server
<1>9. /\ v.subs # <<>> /\ v.subs[Len(v.subs)] = "APPROVED"
      /\ payments[Len(v.subs)] # "none"
  <2>1. /\ v.subs # <<>> /\ v.subs[Len(v.subs)] = "APPROVED"
        /\ v.payments[Len(v.subs)] # "none"
    BY <1>3 DEF Sound, RowsAgree, Locked
  <2>2. Len(v.subs) \in DOMAIN v.subs
    BY <2>1, NewestIsCurrent DEF Sound
  <2> QED BY <1>1, <1>4, <2>1, <2>2
<1>10. payments[s] = row /\ s \in DOMAIN payments
  BY <1>3, <1>4
<1>11. RowsAgree(w)
  BY <1>1, <1>4, <1>8, <1>9, <1>10 DEF Sound, RowsAgree, Locked, TransientStatuses
<1>12. \A t \in DOMAIN v.subs : PaymentMoves(v, w, t)
  BY <1>1, <1>3, <1>4, <1>8 DEF PaymentMoves
<1>13. Moves(v, w)
  BY <1>3, <1>8, <1>12, LegalMoves DEF Moves, Ended
<1> QED BY <1>5, <1>7, <1>11, <1>13 DEF Follows, Sound

(* The newest submission of a task that goes back under review is approved.  *)
LEMMA RolledBackFollows ==
  ASSUME NEW v, Sound(v), v.sending
  PROVE  Follows(v, RolledBack(v))
<1>1. PICK w : w = RolledBack(v)
  OBVIOUS
<1>2. w \in Server
  BY <1>1 DEF RolledBack, Sound, Server, TaskStatuses
<1>3. /\ w.status = "UNDER_REVIEW" /\ ~w.sending /\ w.assignee = v.assignee
      /\ w.subs = v.subs /\ w.payments = v.payments
      /\ w.evaluated = v.evaluated /\ w.confirmable = v.confirmable
  BY <1>1 DEF RolledBack, Sound, Server
<1>4. v.status \in Locked
  BY DEF Sound, RowsAgree
<1>5. RowsAgree(w)
  BY <1>3, <1>4 DEF Sound, RowsAgree, Locked, TransientStatuses
<1>6. Moves(v, w)
  BY <1>3, <1>4 DEF Moves, PaymentMoves, Reopens, Locked, Ended
<1> QED BY <1>1, <1>2, <1>5, <1>6 DEF Follows, Sound

LEMMA DeletedFollows ==
  ASSUME NEW v, Sound(v), NEW s \in DOMAIN v.payments, v.payments[s] \notin NoRow
  PROVE  Follows(v, Deleted(v, s))
<1>1. PICK payments : payments = [v.payments EXCEPT ![s] = "deleted"]
  OBVIOUS
<1>2. /\ payments \in Seq(Payments) /\ Len(payments) = Len(v.subs)
      /\ DOMAIN payments = DOMAIN v.subs /\ s \in DOMAIN v.subs
      /\ \A t \in DOMAIN v.subs : payments[t] = IF t = s THEN "deleted" ELSE v.payments[t]
  <2>1. "deleted" \in Payments
    BY DEF Payments, NoRow
  <2> QED BY <1>1, <2>1, PaymentsAre, Written
<1>3. PICK w : w = Deleted(v, s)
  OBVIOUS
<1>4. w = [v EXCEPT !.payments = payments]
  BY <1>1, <1>3 DEF Deleted, Sound, Server
<1>5. w \in Server
  BY <1>2, <1>4 DEF Sound, Server
<1>6. /\ w.status = v.status /\ w.sending = v.sending /\ w.assignee = v.assignee
      /\ w.subs = v.subs /\ w.payments = payments
      /\ w.evaluated = v.evaluated /\ w.confirmable = v.confirmable
  BY <1>4 DEF Sound, Server
<1>7. v.subs # <<>> => Len(v.subs) \in DOMAIN v.subs
  BY SubsAre, EmptySeq DEF Sound
<1>8. DOMAIN v.payments = DOMAIN v.subs
  BY PaymentsAre
<1>9. RowsAgree(w)
  BY <1>2, <1>6, <1>7, <1>8 DEF Sound, RowsAgree, Locked, TransientStatuses
<1>10. \A t \in DOMAIN v.subs : PaymentMoves(v, w, t)
  BY <1>2, <1>6 DEF PaymentMoves
<1>11. Moves(v, w)
  BY <1>6, <1>10 DEF Moves
<1> QED BY <1>3, <1>5, <1>9, <1>11 DEF Follows, Sound

LEMMA ExpiredFollows ==
  ASSUME NEW v, Sound(v), v.status \in {"OPEN", "IN_PROGRESS"}
  PROVE  Follows(v, [v EXCEPT !.status = "EXPIRED"])
<1>1. PICK w : w = [v EXCEPT !.status = "EXPIRED"]
  OBVIOUS
<1>2. w \in Server
  BY <1>1 DEF Sound, Server, TaskStatuses
<1>3. /\ w.status = "EXPIRED" /\ w.assignee = v.assignee /\ w.subs = v.subs
      /\ w.payments = v.payments /\ w.sending = v.sending /\ w.evaluated = v.evaluated
      /\ w.confirmable = v.confirmable
  BY <1>1 DEF Sound, Server
<1>4. RowsAgree(w)
  BY <1>3 DEF Sound, RowsAgree, Locked, TransientStatuses
<1>5. Moves(v, w)
  BY <1>3, LegalMoves DEF Moves, PaymentMoves, Ended
<1> QED BY <1>1, <1>2, <1>4, <1>5 DEF Follows, Sound

LEMMA RevisedFollows ==
  ASSUME NEW v, Sound(v), v.status = "UNDER_REVIEW", HasBudget(v)
  PROVE  Follows(v, Revised(v))
<1>1. PICK w : w = Revised(v)
  OBVIOUS
<1>2. PICK subs : subs = [s \in DOMAIN v.subs |-> IF v.subs[s] \in {"PENDING", "APPROVED"}
                                                 THEN "SUPERSEDED" ELSE v.subs[s]]
  OBVIOUS
<1>3. w = [v EXCEPT !.status = "IN_PROGRESS", !.revisions = @ + 1, !.subs = subs]
  BY <1>1, <1>2 DEF Revised
<1>4. /\ subs \in Seq(SubmissionStatuses) /\ DOMAIN subs = DOMAIN v.subs
      /\ \A s \in DOMAIN subs : subs[s] \notin Live
  BY <1>2, SubsAre DEF Sound, SubmissionStatuses, Live
<1>5. v.revisions + 1 \in 0..MaxRevisions
  BY RevisionsAssumption DEF Sound, Server, HasBudget
<1>6. w \in Server
  BY <1>3, <1>4, <1>5 DEF Sound, Server, TaskStatuses
<1>7. /\ w.status = "IN_PROGRESS" /\ w.assignee = v.assignee /\ w.subs = subs
      /\ w.payments = v.payments /\ w.sending = v.sending /\ w.evaluated = v.evaluated
      /\ w.confirmable = v.confirmable
  BY <1>3 DEF Sound, Server
<1>8. RowsAgree(w)
  BY <1>4, <1>7 DEF Sound, RowsAgree, Locked, TransientStatuses
<1>9. Moves(v, w)
  BY <1>4, <1>7, LegalMoves DEF Moves, PaymentMoves, Ended
<1> QED BY <1>1, <1>6, <1>8, <1>9 DEF Follows, Sound

(* The verdict of a review of submission s, which may have been overtaken    *)
LEMMA ReviewedFollows ==
  ASSUME NEW v, Sound(v), NEW s \in DOMAIN v.subs,
         NEW decision \in {"approve", "reject", "revise"}, Applies(v, decision, s)
  PROVE  Follows(v, Reviewed(v, decision, s))
<1>1. PICK w : w = Reviewed(v, decision, s)
  OBVIOUS
<1>2. PICK noted : noted = [v EXCEPT !.evaluated = [sub |-> s, outcome |-> decision]]
  OBVIOUS
<1>3. s \in Nat
  BY SubsAre DEF Sound
<1>4. /\ noted \in Server
      /\ noted.status = v.status /\ noted.assignee = v.assignee
      /\ noted.subs = v.subs /\ noted.payments = v.payments /\ noted.sending = v.sending
      /\ noted.evaluated = [sub |-> s, outcome |-> decision]
      /\ noted.confirmable = v.confirmable /\ noted.revisions = v.revisions
  BY <1>2, <1>3 DEF Sound, Server
<1>5. CASE decision = "approve"
  <2>1. w = [noted EXCEPT !.confirmable = noted.confirmable \cup {s}]
    BY <1>1, <1>2, <1>5 DEF Reviewed
  <2>2. w \in Server
    BY <1>3, <1>4, <2>1 DEF Server
  <2>3. /\ w.status = v.status /\ w.assignee = v.assignee /\ w.subs = v.subs
        /\ w.payments = v.payments /\ w.sending = v.sending /\ w.evaluated = [sub |-> s, outcome |-> decision]
        /\ w.confirmable = v.confirmable \cup {s}
    BY <1>4, <2>1 DEF Server
  <2>4. RowsAgree(w)
    BY <2>3 DEF Sound, RowsAgree
  <2>5. Moves(v, w)
    BY <2>3 DEF Moves, PaymentMoves
  <2> QED BY <1>1, <2>2, <2>4, <2>5 DEF Follows, Sound
<1>6. CASE decision = "reject"
  <2>1. v.status = "UNDER_REVIEW" /\ v.subs[s] # "SUPERSEDED"
    BY <1>6 DEF Applies
  <2>2. PICK subs : subs = [v.subs EXCEPT ![s] = "REJECTED"]
    OBVIOUS
  <2>3. w = [noted EXCEPT !.status = "REJECTED", !.subs = subs]
    <3>1. w = [noted EXCEPT !.status = "REJECTED", !.subs[s] = "REJECTED"]
      BY <1>1, <1>2, <1>6 DEF Reviewed
    <3> QED BY <1>4, <2>2, <3>1 DEF Server
  <2>4. /\ subs \in Seq(SubmissionStatuses) /\ Len(subs) = Len(v.subs)
        /\ DOMAIN subs = DOMAIN v.subs /\ (v.subs # <<>> => subs # <<>>)
        /\ \A t \in DOMAIN v.subs : subs[t] = IF t = s THEN "REJECTED" ELSE v.subs[t]
    <3>1. v.subs \in Seq(SubmissionStatuses)
      BY SubsAre DEF Sound
    <3> QED BY <2>2, <3>1, Statuses, Written
  <2>5. w \in Server
    BY <1>4, <2>3, <2>4 DEF Server, TaskStatuses
  <2>6. /\ w.status = "REJECTED" /\ w.assignee = v.assignee /\ w.subs = subs
        /\ w.payments = v.payments /\ w.sending = v.sending /\ w.evaluated = [sub |-> s, outcome |-> decision]
        /\ w.confirmable = v.confirmable
    BY <1>4, <2>3 DEF Server
  <2>7. RowsAgree(w)
    BY <1>6, <2>1, <2>4, <2>6 DEF Sound, RowsAgree, Locked, TransientStatuses
  <2>8. Current(w) = Current(v) /\ (ApprovedNow(w) => ApprovedNow(v))
    <3>1. v.subs # <<>> /\ v.subs[Len(v.subs)] # "SUPERSEDED" /\ Len(v.subs) \in DOMAIN v.subs
      BY <2>1, NewestIsCurrent DEF Sound, RowsAgree
    <3>2. w.subs # <<>> /\ w.subs[Len(w.subs)] # "SUPERSEDED"
      BY <2>4, <2>6, <3>1
    <3> QED BY <2>4, <2>5, <2>6, <3>1, <3>2, NewestIsCurrent, NewestApproved DEF Sound
  <2>9. Moves(v, w)
    BY <2>1, <2>4, <2>6, <2>8, LegalMoves DEF Moves, PaymentMoves, Ended
  <2> QED BY <1>1, <2>5, <2>7, <2>9 DEF Follows, Sound
<1>7. CASE decision = "revise"
  <2>1. v.status = "UNDER_REVIEW" /\ HasBudget(v)
    BY <1>7 DEF Applies
  <2>2. Sound(noted)
    BY <1>4, <1>7 DEF Sound, RowsAgree
  <2>3. Follows(noted, Revised(noted))
    BY <1>4, <2>1, <2>2, RevisedFollows DEF HasBudget
  <2>4. w = Revised(noted)
    BY <1>1, <1>2, <1>7 DEF Reviewed
  <2>5. Moves(v, w)
    <3>1. noted.status = v.status /\ noted.subs = v.subs /\ noted.sending = v.sending
      BY <1>4
    <3>2. Moves(noted, w)
      BY <2>3, <2>4 DEF Follows
    <3>3. \A t \in DOMAIN v.subs : PaymentMoves(v, w, t)
      BY <1>4, <3>1, <3>2, SameSubs DEF Moves, PaymentMoves
    <3> QED BY <1>4, <3>1, <3>2, <3>3, SameSubs DEF Moves, Reopens
  <2> QED BY <1>1, <2>3, <2>4, <2>5 DEF Follows
<1> QED BY <1>5, <1>6, <1>7

(* The operations behind the buttons *)
LEMMA EffectsFollow ==
  ASSUME NEW v, Sound(v), NEW kind \in Kinds \ {"review"}, NEW a \in People \cup {Nobody},
         NEW s, Accepts(v, kind, a, s), NEW w \in Effects(v, kind, a, s)
  PROVE  Follows(v, w)
<1>1. CASE kind = "claim"
  BY <1>1, ClaimedFollows DEF Accepts, Effects
<1>2. CASE kind = "submit"
  BY <1>2, SubmittedFollows DEF Accepts, AcceptsSubmit, Effects
<1>3. CASE kind = "validate"
  BY <1>3, ValidatedFollows DEF Accepts, AcceptsValidate, Effects
<1>4. CASE kind = "confirm"
  BY <1>4, ConfirmedFollows DEF Accepts, AcceptsConfirm, Effects
<1>5. CASE kind = "release"
  BY <1>5, ReleasedFollows DEF Accepts, Effects
<1> QED BY <1>1, <1>2, <1>3, <1>4, <1>5 DEF Kinds
=============================================================================
