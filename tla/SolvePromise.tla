---------------------------- MODULE SolvePromise ----------------------------
(***************************************************************************)
(* What the solve service promises one client request, whatever the queue, *)
(* the worker thread and the job store do in between.  A request opens at  *)
(* most one job; the job is decided at most once; and what the client is   *)
(* told agrees with that decision.                                         *)
(***************************************************************************)
CONSTANT Requests

VARIABLES
  outcome,   \* outcome[r]: what became of the job of request r
  told       \* told[r]: the answer the client of r received

vars == <<outcome, told>>

Init ==
  /\ outcome = [r \in Requests |-> "none"]
  /\ told = [r \in Requests |-> "nothing"]

\* The request is refused before a job exists.
Refuse(r) ==
  /\ outcome[r] = "none"
  /\ told[r] = "nothing"
  /\ told' = [told EXCEPT ![r] = "bad_request"]
  /\ UNCHANGED outcome

\* A job appears; only a request that was told nothing yet gets one.
Open(r) ==
  /\ outcome[r] = "none"
  /\ told[r] = "nothing"
  /\ outcome' = [outcome EXCEPT ![r] = "solving"]
  /\ UNCHANGED told

\* The one decision about an accepted job.
Decide(r) ==
  /\ outcome[r] = "solving"
  /\ told[r] # "busy"
  /\ \E o \in {"success", "failure"} : outcome' = [outcome EXCEPT ![r] = o]
  /\ UNCHANGED told

\* No room: the job is recorded as failed and the client is told so, at once.
TurnAway(r) ==
  /\ outcome[r] = "solving"
  /\ told[r] = "nothing"
  /\ outcome' = [outcome EXCEPT ![r] = "failure"]
  /\ told' = [told EXCEPT ![r] = "busy"]

\* A decided job is reported as it was decided.
Report(r) ==
  /\ outcome[r] \in {"success", "failure"}
  /\ told[r] = "nothing"
  /\ told' = [told EXCEPT ![r] = outcome[r]]
  /\ UNCHANGED outcome

\* The wait ends without the decision: the server gives up or the client leaves.
GiveUp(r) ==
  /\ outcome[r] # "none"
  /\ told[r] = "nothing"
  /\ \/ /\ outcome[r] = "solving"
        /\ told' = [told EXCEPT ![r] = "timeout"]
     \/ told' = [told EXCEPT ![r] = "left"]
  /\ UNCHANGED outcome

Next == \E r \in Requests :
  Refuse(r) \/ Open(r) \/ Decide(r) \/ TurnAway(r) \/ Report(r) \/ GiveUp(r)

Spec == Init /\ [][Next]_vars
=============================================================================
