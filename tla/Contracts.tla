------------------------------ MODULE Contracts ------------------------------
(* The data the workflow and the sandbox activity exchange                    *)
(* (app/contracts.py).  Of a SandboxResult only the three fields that decide  *)
(* a verdict are kept: output tails, timings and digests decide nothing.      *)
EXTENDS Integers

SandboxResults ==
  [exit_code : Int, oom_killed : BOOLEAN, wall_clock_exceeded : BOOLEAN]

(* SandboxResult.ok *)
Ok(r) == r.exit_code = 0 /\ ~r.oom_killed /\ ~r.wall_clock_exceeded

(* SandboxResult.failure_reason: "none" stands for Python's None, and the     *)
(* exit code inside the text "nonzero_exit:<n>" is left to the result itself. *)
FailureReason(r) ==
  CASE Ok(r)                                              -> "none"
    [] ~Ok(r) /\ r.wall_clock_exceeded                    -> "wall_clock_exceeded"
    [] ~Ok(r) /\ ~r.wall_clock_exceeded /\ r.oom_killed   -> "oom_killed"
    [] ~Ok(r) /\ ~r.wall_clock_exceeded /\ ~r.oom_killed  -> "nonzero_exit"

FailureReasons == {"wall_clock_exceeded", "oom_killed", "nonzero_exit"}

=============================================================================
