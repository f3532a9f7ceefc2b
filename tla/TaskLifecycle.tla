---------------------------- MODULE TaskLifecycle ----------------------------
(***************************************************************************)
(* What the workflow promises about a task, with every operation atomic:    *)
(* the row that the creator and the worker see, and nothing of the requests *)
(* in flight.  It is the life that lib/workflow/TaskStatus.ts describes up  *)
(* to an authorised settlement, with the conditions the services announce.  *)
(***************************************************************************)
EXTENDS Naturals

CONSTANTS
  Actors,        \* authenticated wallet addresses
  NoActor,       \* no address
  MaxRevisions   \* rounds of revision a task may have

VARIABLES
  status,        \* the committed status
  creator,
  assignee,      \* the designated worker, then the one at work
  late,          \* the deadline has passed
  round          \* revisions so far

lifecycle == <<status, creator, assignee, late, round>>

Init ==
  /\ status = "ABSENT"
  /\ creator = NoActor /\ assignee = NoActor
  /\ late = FALSE
  /\ round = 0

(* A task may be published with its deadline already behind it. *)
Publish(a, designated) ==
  /\ status = "ABSENT" /\ status' = "OPEN"
  /\ creator' = a /\ assignee' = designated
  /\ late' \in BOOLEAN
  /\ UNCHANGED round

(* The first worker allowed takes the task; the creator is not one. *)
Claim(a) ==
  /\ status = "OPEN" /\ status' = "IN_PROGRESS"
  /\ a # creator /\ assignee \in {NoActor, a} /\ ~late
  /\ assignee' = a
  /\ UNCHANGED <<creator, late, round>>

HandIn ==
  /\ status = "IN_PROGRESS" /\ status' = "SUBMITTED"
  /\ ~late
  /\ UNCHANGED <<creator, assignee, late, round>>

Admit ==
  /\ status = "SUBMITTED" /\ status' = "UNDER_REVIEW"
  /\ UNCHANGED <<creator, assignee, late, round>>

Revise ==
  /\ status = "UNDER_REVIEW" /\ status' = "IN_PROGRESS"
  /\ round < MaxRevisions /\ round' = round + 1
  /\ UNCHANGED <<creator, assignee, late>>

Conclude ==
  /\ status = "UNDER_REVIEW" /\ status' \in {"REJECTED", "SETTLING"}
  /\ UNCHANGED <<creator, assignee, late, round>>

(* Only a task that is late, and that nobody has handed work in for *)
Expire ==
  /\ late
  /\ status \in {"OPEN", "IN_PROGRESS"} /\ status' = "EXPIRED"
  /\ UNCHANGED <<creator, assignee, late, round>>

BecomeLate ==
  /\ status # "ABSENT" /\ ~late /\ late' = TRUE
  /\ UNCHANGED <<status, creator, assignee, round>>

Next ==
  \/ \E a \in Actors, designated \in Actors \cup {NoActor} :
       Publish(a, designated)
  \/ \E a \in Actors : Claim(a)
  \/ HandIn \/ Admit \/ Revise \/ Conclude \/ Expire \/ BecomeLate

Spec == Init /\ [][Next]_lifecycle
=============================================================================
