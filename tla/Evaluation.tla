----------------------------- MODULE Evaluation -----------------------------
(***************************************************************************)
(* One call of the evaluation provider, lib/evaluation/GeminiEvaluator.ts,  *)
(* as reviewSubmission of ReviewService.ts makes it.                        *)
(*                                                                         *)
(* The provider has a timer of its own, but stops it as soon as the headers *)
(* have arrived: the body may then take for ever.  Prompt and answer are    *)
(* abstracted to what the review can tell apart.                            *)
(***************************************************************************)
CONSTANT Slots     \* requests that may each have an evaluation running

VARIABLE call     \* the provider call of each slot

(* What ModelEvaluationSchema makes of an answer, and the rubric of it: an    *)
(* approval that leaves a criterion out, or unsatisfied, or reports one that *)
(* is not in the rubric is treated as REQUEST_REVISION.                      *)
Verdicts == {"APPROVE", "REQUEST_REVISION", "REJECT"}
Results == {"none", "error"} \cup Verdicts

Call == [at : {"idle", "fetch", "body", "done"}, result : Results]
NoCall == [at |-> "idle", result |-> "none"]

(* isDevOverrideArmed, from the environment of the process that serves the   *)
(* request                                                                   *)
Armed(autoApprove, production, underTest) ==
  autoApprove /\ ~production /\ ~underTest

EvaluationInit == call = [s \in Slots |-> NoCall]

Becomes(s, at, result) == call' = [call EXCEPT ![s] = [at |-> at, result |-> result]]

StartCall(s) == Becomes(s, "fetch", "none")
EndCall(s) == call' = [call EXCEPT ![s] = NoCall]

(* evaluate: the override stands in for every failure of callProvider.  It   *)
(* is schema-valid and covers the rubric, which has 1 to 20 criteria.        *)
Fails(s) ==
  \E armed \in {Armed(a, p, t) : a, p, t \in BOOLEAN} :
    Becomes(s, "done", IF armed THEN "APPROVE" ELSE "error")

(* The headers arrive, with a success or an error; or the network fails. *)
Fetched(s) ==
  /\ call[s].at = "fetch"
  /\ Becomes(s, "body", "none") \/ Fails(s)

(* The provider's timer *)
Abort(s) ==
  /\ call[s].at = "fetch"
  /\ Fails(s)

(* What reading the body comes to, when it ends: too large, no JSON, no text *)
(* or text that is no JSON fails the call; JSON that is no evaluation is the *)
(* caller's error, for which nothing stands in.                              *)
BodyRead(s) ==
  /\ call[s].at = "body"
  /\ Fails(s) \/ \E result \in Verdicts \cup {"error"} : Becomes(s, "done", result)

(* resolveAuthoritativeDecision, as what the review then does *)
Decide(verdict, pending, budget) ==
  CASE verdict = "REJECT" -> "reject"
    [] verdict = "APPROVE" /\ pending -> "approve"
    [] OTHER -> IF budget THEN "revise" ELSE "reject"
=============================================================================
