----------------------------- MODULE TaskStatus -----------------------------
(***************************************************************************)
(* The task state machine of lib/workflow/TaskStatus.ts: the statuses, the  *)
(* whitelist of legal transitions, and what a committed database            *)
(* transaction may do to a status.                                          *)
(***************************************************************************)

TaskStatuses ==
  {"CREATED", "OPEN", "ASSIGNED", "IN_PROGRESS", "SUBMITTED",
   "UNDER_VALIDATION", "UNDER_REVIEW", "REVISION_REQUESTED", "SETTLING",
   "SETTLED", "COMPLETED", "REJECTED", "PAYMENT_FAILED", "EXPIRED"}

SubmissionStatuses == {"PENDING", "APPROVED", "REJECTED", "SUPERSEDED"}

LegalTransitions ==
  [ CREATED            |-> {"OPEN"},
    OPEN               |-> {"ASSIGNED", "EXPIRED"},
    ASSIGNED           |-> {"IN_PROGRESS", "EXPIRED"},
    IN_PROGRESS        |-> {"SUBMITTED", "EXPIRED"},
    SUBMITTED          |-> {"UNDER_VALIDATION"},
    UNDER_VALIDATION   |-> {"UNDER_REVIEW"},
    UNDER_REVIEW       |-> {"REVISION_REQUESTED", "SETTLING", "REJECTED"},
    REVISION_REQUESTED |-> {"IN_PROGRESS"},
    SETTLING           |-> {"SETTLED", "PAYMENT_FAILED"},
    SETTLED            |-> {"COMPLETED"},
    COMPLETED          |-> {},
    REJECTED           |-> {},
    PAYMENT_FAILED     |-> {},
    EXPIRED            |-> {} ]

CanTransition(from, to) == to \in LegalTransitions[from]

TerminalStatuses == {s \in TaskStatuses : LegalTransitions[s] = {}}

(***************************************************************************)
(* The statuses a transaction only passes through: every write that enters  *)
(* one of them is followed, in the same transaction, by the write that      *)
(* leaves it, so no other transaction ever reads them.                      *)
(***************************************************************************)
TransientStatuses ==
  {"CREATED", "ASSIGNED", "UNDER_VALIDATION", "REVISION_REQUESTED", "SETTLED"}

(* What one committed transaction may do: one legal move, or two through a *)
(* transient status.                                                       *)
LegalCommit(from, to) ==
  \/ CanTransition(from, to)
  \/ \E via \in TransientStatuses :
       CanTransition(from, via) /\ CanTransition(via, to)
=============================================================================
