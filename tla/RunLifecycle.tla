----------------------------- MODULE RunLifecycle -----------------------------
(* What a run promises its client, without workers, attempts or replays: it   *)
(* walks through the four stages in order, is judged once, and is never       *)
(* judged again.  AgentPipeline implements this specification.                *)
EXTENDS Naturals

VARIABLES status,    \* how the run stands
          progress,  \* how many of the four stages have been ordered
          verdict    \* what a run that ended in its own words said

lifecycle == <<status, progress, verdict>>

Closed == {"COMPLETED", "FAILED", "CANCELED", "TIMED_OUT", "TERMINATED"}

(* A run is open or closed in one of five ways, and is judged at most once. *)
TypeOK ==
  /\ status \in {"RUNNING"} \cup Closed
  /\ progress \in 0..4
  /\ verdict \in {"none", "completed", "failed"}

Init ==
  /\ status = "RUNNING"
  /\ progress = 0
  /\ verdict = "none"

(* The next stage is ordered. *)
Advance ==
  /\ status = "RUNNING"
  /\ progress < 4
  /\ progress' = progress + 1
  /\ UNCHANGED <<status, verdict>>

(* The summary is in: a success, which only a run of all four stages can be. *)
Succeed ==
  /\ status = "RUNNING"
  /\ progress = 4
  /\ status' = "COMPLETED"
  /\ verdict' = "completed"
  /\ UNCHANGED progress

(* The sandbox judged the code: the run completes, and says it failed. *)
Reject ==
  /\ status = "RUNNING"
  /\ progress = 3
  /\ status' = "COMPLETED"
  /\ verdict' = "failed"
  /\ UNCHANGED progress

(* The machinery gave up on a stage that had been ordered. *)
Break ==
  /\ status = "RUNNING"
  /\ progress > 0
  /\ status' = "FAILED"
  /\ UNCHANGED <<progress, verdict>>

(* The client, an operator or the run's own time limit ended it. *)
Stop ==
  /\ status = "RUNNING"
  /\ status' \in {"CANCELED", "TIMED_OUT", "TERMINATED"}
  /\ UNCHANGED <<progress, verdict>>

Next == Advance \/ Succeed \/ Reject \/ Break \/ Stop

Spec == Init /\ [][Next]_lifecycle

=============================================================================
