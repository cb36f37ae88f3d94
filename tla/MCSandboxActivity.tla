-------------------------- MODULE MCSandboxActivity --------------------------
(* SandboxActivity with the requests a run can make: each runtime, code that  *)
(* fits and code that does not, a host with and without the runtime.          *)
EXTENDS SandboxActivity

Ask(r, f, k) == [runtime |-> r, fits |-> f, registered |-> k]

(* The default runtime on a host that has it. *)
Usual == {Ask("runsc", TRUE, TRUE)}

MCRequests == Usual \cup {Ask("runsc", TRUE, FALSE), Ask("runsc", FALSE, TRUE),
                          Ask("runc", TRUE, FALSE), Ask("firecracker", TRUE, TRUE),
                          Ask("other", TRUE, TRUE)}
=============================================================================
