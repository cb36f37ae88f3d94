--------------------------- MODULE MCAgentPipeline ---------------------------
(* AgentPipeline with the four ways generated code can end: well, with an     *)
(* error, killed by the memory limit and killed by the wall clock.            *)
EXTENDS AgentPipeline

Exited(rc) == [exit_code |-> rc, oom_killed |-> rc = 137, wall_clock_exceeded |-> FALSE]
MCOutcomes == {Exited(0), Exited(1), Exited(137),
               [exit_code |-> 124, oom_killed |-> FALSE, wall_clock_exceeded |-> TRUE]}
=============================================================================
