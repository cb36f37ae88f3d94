--------------------------- MODULE SandboxActivity ---------------------------
(* The run_sandbox activity of one run (app/activities/sandbox.py) and the    *)
(* gVisor runner under it (app/sandbox/gvisor.py): the attempts the server    *)
(* starts, which may overlap once one of them has been given up, the docker   *)
(* client each of them waits for, and the containers the daemon holds.        *)
(*                                                                            *)
(* Every `await` of the code is a value of pc, for a cancellation may arrive  *)
(* at each of them.  The daemon acts on a request some time after the client  *)
(* made it.  Docker and the server are external.                              *)
EXTENDS Contracts, FiniteSets

CONSTANTS
  MaxAttempts,  \* settings.max_attempts
  Requests,     \* what a run may ask: see AllRequests
  Faults,       \* what may go wrong around the program: a subset of AllFaults
  LooksLikeLaunch, \* programs that exit 125 may print a launch signature
  MaxCancels,   \* bound: cancellations delivered to one attempt
  MaxCrashes    \* bound: worker crashes

AllFaults == {"info", "spawn", "launch", "launch_named", "rm", "drain"}
AllRequests == [runtime : {"runsc", "runc", "firecracker", "other"},
                fits : BOOLEAN, registered : BOOLEAN]

ASSUME MaxAttemptsAssumption == MaxAttempts \in Nat \ {0}
ASSUME RequestsAssumption == Requests \subseteq AllRequests
ASSUME FaultsAssumption == Faults \subseteq AllFaults
ASSUME LooksAssumption == LooksLikeLaunch \in BOOLEAN
ASSUME BoundsAssumption == MaxCancels \in Nat /\ MaxCrashes \in Nat

VARIABLES
  request,  \* what this run asks: the runtime, whether the code fits in
            \* max_code_bytes, whether docker knows the runtime
  server,   \* the activity task: its state and the attempt it is about
  verdict,  \* what the server recorded as the activity's outcome
  pc,       \* where each attempt awaits
  staged,   \* whether the directory with the attempt's code exists
  client,   \* the attempt's `docker run` process and what it left
  asked,    \* the daemon has yet to act on the attempt's request
  box,      \* the daemon's containers, by name
  fate,     \* how the attempt's program fared
  cancels,  \* cancellations each attempt has received
  crashes   \* worker crashes so far

vars == <<request, server, verdict, pc, staged, client, asked, box, fate,
          cancels, crashes>>
docker == <<client, asked, box, fate>>

Ids == 1..MaxAttempts

-----------------------------------------------------------------------------
Awaits == {"preflight", "inspect", "spawn", "watch", "deadline_kill",
           "deadline_drain", "drain", "inner_kill", "outer_kill"}

(* 124 is the runner's own code for a deadline, 137 a program that was        *)
(* killed, 125 stands for the three codes docker uses for a failed launch.    *)
ExitCodes == {0, 1, 125, 137}
LaunchCodes == {125}

(* What stderr holds: nothing of interest, a launch signature, or one next to *)
(* the name of the runtime; and nothing, once it could not be collected.      *)
Texts == {"plain", "launch", "launch_named", "lost"}

NoClient == [state |-> "none", rc |-> 0, text |-> "plain"]
NoBox == [owner |-> 0, spared |-> FALSE]

Result(a, rc, timeout) ==
  [kind |-> "result", attempt |-> a,
   value |-> [exit_code |-> rc, oom_killed |-> rc = 137 /\ ~timeout,
              wall_clock_exceeded |-> timeout]]
Error(a, type) == [kind |-> type, attempt |-> a, value |-> Result(a, 0, FALSE).value]
NoVerdict == Error(0, "none")

(* A policy that leaves violations to the flag of the exception. *)
NonRetryableSizeOnly == {"PayloadTooLarge"}

(* SANDBOX_RETRY.non_retryable_error_types. *)
NonRetryable == {"SandboxPolicyViolation", "PayloadTooLarge"}

(* _container_name, and one that forgets the attempt. *)
NameOfRunOnly(a) == 1
Name(a) == a

Init ==
  /\ request \in Requests
  /\ server = [state |-> "scheduled", attempt |-> 1]
  /\ verdict = NoVerdict
  /\ pc = [a \in Ids |-> "idle"]
  /\ staged = [a \in Ids |-> FALSE]
  /\ client = [a \in Ids |-> NoClient]
  /\ asked = [a \in Ids |-> FALSE]
  /\ box = [n \in Ids |-> NoBox]
  /\ fate = [a \in Ids |-> "none"]
  /\ cancels = [a \in Ids |-> 0]
  /\ crashes = 0

-----------------------------------------------------------------------------
(* The server's side of an attempt that is over, answered or given up.        *)

(* What the activity raises as non-retryable whatever the policy says: code   *)
(* that is too large, and a violation it translates - not get_runner's, which *)
(* is raised outside its try.                                                 *)
Flagged(type) ==
  \/ type = "PayloadTooLarge"
  \/ type = "SandboxPolicyViolation" /\ request.runtime # "other"

(* A budget of retries and not of attempts: one attempt too many. *)
RetriesOnceMore(a, type) ==
  IF type \notin NonRetryable /\ ~Flagged(type) /\ a <= MaxAttempts
  THEN /\ server' = [state |-> "scheduled", attempt |-> a + 1]
       /\ UNCHANGED verdict
  ELSE /\ server' = [state |-> "closed", attempt |-> a]
       /\ verdict' = Error(a, type)

(* Attempt a is over with an error of this type: retry it, or fail. *)
Retries(a, type) ==
  IF type \notin NonRetryable /\ ~Flagged(type) /\ a < MaxAttempts
  THEN /\ server' = [state |-> "scheduled", attempt |-> a + 1]
       /\ UNCHANGED verdict
  ELSE /\ server' = [state |-> "closed", attempt |-> a]
       /\ verdict' = Error(a, type)

(* An answer counts if it comes from the attempt the server waits for. *)
Answers(a, reply) ==
  IF server # [state |-> "started", attempt |-> a]
  THEN UNCHANGED <<server, verdict>>
  ELSE IF reply.kind = "result"
       THEN /\ server' = [state |-> "closed", attempt |-> a]
            /\ verdict' = reply
       ELSE Retries(a, reply.kind)

(* The attempt leaves run_sandbox, and with it the temporary directory. *)
Ends(a, reply) ==
  /\ pc' = [pc EXCEPT ![a] = "done"]
  /\ staged' = [staged EXCEPT ![a] = FALSE]
  /\ Answers(a, reply)

(* start_to_close, heartbeat or, when the run is closed, nothing more to wait *)
(* for: the attempt is given up, not stopped.                                 *)
GivesUp ==
  /\ server.state = "started"
  /\ \/ Retries(server.attempt, "Timeout")
     \/ /\ server' = [server EXCEPT !.state = "closed"]
        /\ UNCHANGED verdict
  /\ UNCHANGED <<request, pc, staged, docker, cancels, crashes>>

-----------------------------------------------------------------------------
(* One attempt, from await to await.                                          *)

(* The payload check and get_runner, before anything that can be awaited.     *)
Start(a) ==
  /\ server = [state |-> "scheduled", attempt |-> a]
  /\ IF request.fits /\ request.runtime # "other"
     THEN /\ pc' = [pc EXCEPT ![a] = "preflight"]
          /\ server' = [server EXCEPT !.state = "started"]
          /\ UNCHANGED <<verdict, staged>>
     ELSE /\ pc' = [pc EXCEPT ![a] = "done"]
          /\ Retries(a, IF request.fits THEN "SandboxPolicyViolation" ELSE "PayloadTooLarge")
          /\ UNCHANGED staged
  /\ UNCHANGED <<request, docker, cancels, crashes>>

(* A preflight that lets an unknown runtime pass. *)
RuntimeThereAssumed == TRUE

(* preflight: runc is taken for granted, firecracker is refused, and runsc    *)
(* must be listed by `docker info`, which may itself fail.                    *)
RuntimeThere ==
  CASE request.runtime = "runc"        -> TRUE
    [] request.runtime = "firecracker" -> FALSE
    [] OTHER                           -> request.registered

Preflight(a) ==
  /\ pc[a] = "preflight"
  /\ \/ /\ RuntimeThere
        /\ pc' = [pc EXCEPT ![a] = "inspect"]
        /\ UNCHANGED <<server, verdict, staged>>
     \/ /\ ~RuntimeThere \/ (request.runtime = "runsc" /\ "info" \in Faults)
        /\ Ends(a, Error(a, "SandboxPolicyViolation"))
  /\ UNCHANGED <<request, docker, cancels, crashes>>

(* The image digest is in, or could not be had: stage the code. *)
Stage(a) ==
  /\ pc[a] = "inspect"
  /\ pc' = [pc EXCEPT ![a] = "spawn"]
  /\ staged' = [staged EXCEPT ![a] = TRUE]
  /\ UNCHANGED <<request, server, verdict, docker, cancels, crashes>>

(* The docker client runs, and has asked the daemon for a container.          *)
Launch(a) ==
  /\ pc[a] = "spawn"
  /\ pc' = [pc EXCEPT ![a] = "watch"]
  /\ client' = [client EXCEPT ![a].state = "live"]
  /\ asked' = [asked EXCEPT ![a] = TRUE]
  /\ UNCHANGED <<request, server, verdict, staged, box, fate, cancels, crashes>>

(* A command cannot be started, or the code not be staged: an OSError that    *)
(* nothing translates, and that the server retries.  Only a docker that is not*)
(* there at all is told apart, and reported by the command as having failed.  *)
Breaks(a) ==
  /\ \/ pc[a] = "preflight" /\ request.runtime = "runsc"
     \/ pc[a] \in {"inspect", "spawn"}
  /\ "spawn" \in Faults
  /\ Ends(a, Error(a, "OSError"))
  /\ UNCHANGED <<request, docker, cancels, crashes>>

(* The loop sees that the client has ended. *)
Collect(a) ==
  /\ pc[a] = "watch"
  /\ client[a].state = "ended"
  /\ pc' = [pc EXCEPT ![a] = "drain"]
  /\ UNCHANGED <<request, server, verdict, staged, docker, cancels, crashes>>

(* A runner without a clock of its own. *)
DeadlineNever(a) == pc[a] = "none" /\ UNCHANGED vars

(* The loop sees that the time is up, before it looks at the client again. *)
Deadline(a) ==
  /\ pc[a] = "watch"
  /\ pc' = [pc EXCEPT ![a] = "deadline_kill"]
  /\ UNCHANGED <<request, server, verdict, staged, docker, cancels, crashes>>

(* `docker rm -f`, as it takes effect: the container of that name is gone and *)
(* its owner's client ends with 137.  No such container is no error.          *)
Remove(n) ==
  LET owner == box[n].owner
  IN IF owner = 0 THEN UNCHANGED docker
     ELSE /\ box' = [box EXCEPT ![n] = NoBox]
          /\ fate' = [fate EXCEPT ![owner] = "removed"]
          /\ client' = IF client[owner].state = "live"
                       THEN [client EXCEPT ![owner] =
                               [state |-> "ended", rc |-> 137, text |-> "plain"]]
                       ELSE client
          /\ UNCHANGED asked

(* A container that a teardown should have removed is marked as spared.       *)
Spare(n) ==
  /\ box' = [box EXCEPT ![n].spared = box[n].owner # 0]
  /\ UNCHANGED <<client, asked, fate>>

(* Whatever `docker rm -f` did, kill returns: its result is not looked at.    *)
Kill(a) ==
  \/ Remove(Name(a))
  \/ "rm" \in Faults /\ Spare(Name(a))

DeadlineKill(a) ==
  /\ pc[a] = "deadline_kill"
  /\ Kill(a)
  /\ pc' = [pc EXCEPT ![a] = "deadline_drain"]
  /\ UNCHANGED <<request, server, verdict, staged, cancels, crashes>>

DeadlineDrain(a) ==
  /\ pc[a] = "deadline_drain"
  /\ Ends(a, Result(a, 124, TRUE))
  /\ UNCHANGED <<request, docker, cancels, crashes>>

(* A classifier that believes the exit code alone. *)
VerdictOfCode(a, rc, text) ==
  IF rc \in LaunchCodes THEN Error(a, "SandboxInfraError") ELSE Result(a, rc, FALSE)

(* A classifier that takes every exit for the program's own. *)
VerdictUnclassified(a, rc, text) == Result(a, rc, FALSE)

(* _classify_infra, then the result. *)
VerdictOf(a, rc, text) ==
  CASE rc \notin LaunchCodes \/ text \in {"plain", "lost"} -> Result(a, rc, FALSE)
    [] rc \in LaunchCodes /\ text = "launch_named" -> Error(a, "SandboxPolicyViolation")
    [] rc \in LaunchCodes /\ text = "launch" -> Error(a, "SandboxInfraError")

(* Output that cannot be collected in time is given up.                       *)
Drain(a) ==
  /\ pc[a] = "drain"
  /\ client' \in {client} \cup {[client EXCEPT ![a].text = "lost"] : f \in {"drain"} \cap Faults}
  /\ Ends(a, VerdictOf(a, client[a].rc, client'[a].text))
  /\ UNCHANGED <<request, asked, box, fate, cancels, crashes>>

(* The runner's own teardown on cancellation; leaving it, the directory goes  *)
(* and the activity tears down once more.                                     *)
InnerKill(a) ==
  /\ pc[a] = "inner_kill"
  /\ Kill(a)
  /\ pc' = [pc EXCEPT ![a] = "outer_kill"]
  /\ staged' = [staged EXCEPT ![a] = FALSE]
  /\ UNCHANGED <<request, server, verdict, cancels, crashes>>

OuterKill(a) ==
  /\ pc[a] = "outer_kill"
  /\ Kill(a)
  /\ Ends(a, Error(a, "CancelledError"))
  /\ UNCHANGED <<request, cancels, crashes>>

(* `docker rm -f` cannot be started: its OSError takes the place of the answer*)
(* or cancellation under way, and no handler tears down once more.            *)
KillBreaks(a) ==
  /\ pc[a] \in {"deadline_kill", "inner_kill", "outer_kill"}
  /\ "spawn" \in Faults
  /\ Spare(Name(a))
  /\ Ends(a, Error(a, "OSError"))
  /\ UNCHANGED <<request, cancels, crashes>>

-----------------------------------------------------------------------------
(* A cancellation: from the server with a heartbeat, or from a worker that    *)
(* shuts down.  It interrupts the attempt where it awaits.                    *)

(* A runner without a handler of its own: one teardown, the activity's.       *)
AfterCancelNoInner(at) == IF at = "outer_kill" THEN "done" ELSE "outer_kill"

(* Where the exception leads: inside the runner's try, to the runner's        *)
(* handler; outside it or in that handler, to the activity's; in the          *)
(* activity's, out.                                                           *)
AfterCancel(at) ==
  CASE at \in {"watch", "deadline_kill", "deadline_drain"} -> "inner_kill"
    [] at \in {"preflight", "inspect", "spawn", "drain", "inner_kill"} -> "outer_kill"
    [] at = "outer_kill" -> "done"

Cancel(a) ==
  /\ pc[a] \in Awaits
  /\ pc[a] = "preflight" => request.runtime = "runsc"
  /\ cancels[a] < MaxCancels
  /\ cancels' = [cancels EXCEPT ![a] = @ + 1]
  (* a docker command under way may or may not get through *)
  /\ \/ UNCHANGED docker
     \/ /\ pc[a] \in {"deadline_kill", "inner_kill", "outer_kill"}
        /\ Remove(Name(a))
     \/ /\ pc[a] = "spawn"
        /\ asked' = [asked EXCEPT ![a] = TRUE]
        /\ client' = [client EXCEPT ![a].state = "gone"]
        /\ UNCHANGED <<box, fate>>
  /\ LET next == AfterCancel(pc[a])
     IN IF next = "done"
        THEN Ends(a, Error(a, "CancelledError"))
        ELSE /\ pc' = [pc EXCEPT ![a] = next]
             /\ staged' = IF next = "outer_kill"
                          THEN [staged EXCEPT ![a] = FALSE] ELSE staged
             /\ UNCHANGED <<server, verdict>>
  /\ UNCHANGED <<request, crashes>>

(* The worker of the attempt dies, and the docker client with it.  The        *)
(* daemon keeps the container, and may still act on what it was asked.        *)
Crash(a) ==
  /\ pc[a] \in Awaits
  /\ crashes < MaxCrashes
  /\ crashes' = crashes + 1
  /\ pc' = [pc EXCEPT ![a] = "crashed"]
  /\ client' = [client EXCEPT ![a].state = "gone"]
  /\ asked' \in {asked, [asked EXCEPT ![a] = FALSE]}
  /\ UNCHANGED <<request, server, verdict, staged, box, fate, cancels>>

-----------------------------------------------------------------------------
(* The docker daemon and the program.                                         *)

ClientEnds(a, rc, text) ==
  client' = IF client[a].state = "live"
            THEN [client EXCEPT ![a] = [state |-> "ended", rc |-> rc, text |-> text]]
            ELSE client

(* The container is created and its program started, or its name is taken.    *)
(* It is spared if its attempt will try to remove that name once more at best.*)
Create(a) ==
  /\ asked[a]
  /\ asked' = [asked EXCEPT ![a] = FALSE]
  /\ IF box[Name(a)].owner = 0
     THEN /\ box' = [box EXCEPT ![Name(a)] =
                       [owner |-> a,
                        spared |-> pc[a] \in {"deadline_drain", "outer_kill", "done", "crashed"}]]
          /\ fate' = [fate EXCEPT ![a] = "running"]
          /\ UNCHANGED client
     ELSE /\ ClientEnds(a, 125, "launch")
          /\ UNCHANGED <<box, fate>>
  /\ UNCHANGED <<request, server, verdict, pc, staged, cancels, crashes>>

(* The launch fails, for a reason that may name the runtime. *)
Refuse(a) ==
  /\ asked[a]
  /\ asked' = [asked EXCEPT ![a] = FALSE]
  /\ \E text \in {"launch", "launch_named"} \cap Faults : ClientEnds(a, 125, text)
  /\ UNCHANGED <<request, server, verdict, pc, staged, box, fate, cancels, crashes>>

(* The program ends by itself or at its memory limit; --rm takes the          *)
(* container with it.  What it printed may read like docker's own words for a *)
(* failed launch, with the name of the runtime among them or without it.      *)
ProgramEnds(a) ==
  /\ box[Name(a)].owner = a
  /\ box' = [box EXCEPT ![Name(a)] = NoBox]
  /\ fate' = [fate EXCEPT ![a] = "ended"]
  /\ \E rc \in ExitCodes, text \in {"plain", "launch", "launch_named"} :
       /\ text # "plain" => rc \in LaunchCodes /\ LooksLikeLaunch
       /\ ClientEnds(a, rc, text)
  /\ UNCHANGED <<request, server, verdict, pc, staged, asked, cancels, crashes>>

Attempt(a) ==
  \/ Preflight(a) \/ Stage(a) \/ Launch(a) \/ Breaks(a)
  \/ Collect(a) \/ Drain(a)
  \/ Deadline(a) \/ DeadlineKill(a) \/ DeadlineDrain(a)
  \/ InnerKill(a) \/ OuterKill(a) \/ KillBreaks(a)

Next ==
  \/ GivesUp
  \/ \E a \in Ids :
       \/ Start(a) \/ Attempt(a) \/ Cancel(a) \/ Crash(a)
       \/ Create(a) \/ Refuse(a) \/ ProgramEnds(a)

Spec == Init /\ [][Next]_vars

(* An attempt that can go on does: its event loop is alive and every command  *)
(* it awaits has a time limit.  Nothing is assumed of the program, of the     *)
(* daemon's promptness or of the server.                                      *)
Fairness == \A a \in Ids : WF_vars(Attempt(a))

FairSpec == Spec /\ Fairness

-----------------------------------------------------------------------------
(* Attempts are at their awaits, containers belong to attempts, and a verdict *)
(* is a result or a named error.                                              *)
TypeOK ==
  /\ request \in AllRequests
  /\ server \in [state : {"scheduled", "started", "closed"}, attempt : Ids]
  /\ verdict.kind \in {"none", "result", "SandboxPolicyViolation", "SandboxInfraError",
                       "PayloadTooLarge", "OSError", "CancelledError", "Timeout"}
  /\ verdict.attempt \in 0..MaxAttempts /\ verdict.value \in SandboxResults
  /\ pc \in [Ids -> Awaits \cup {"idle", "done", "crashed"}]
  /\ staged \in [Ids -> BOOLEAN]
  /\ client \in [Ids -> [state : {"none", "live", "ended", "gone"},
                         rc : ExitCodes, text : Texts]]
  /\ asked \in [Ids -> BOOLEAN]
  /\ box \in [Ids -> [owner : 0..MaxAttempts, spared : BOOLEAN]]
  /\ fate \in [Ids -> {"none", "running", "ended", "removed"}]
  /\ cancels \in [Ids -> 0..MaxCancels]
  /\ crashes \in 0..MaxCrashes

(* A result the server records was earned by the program of the attempt that  *)
(* returned it: it is the code that program ended with, or that attempt's own *)
(* deadline.  A launch that failed, a container removed by a teardown and the *)
(* end of another attempt's program are never taken for it - but for a failed *)
(* launch whose words could not be collected from stderr.                     *)
ResultIsTheProgramsOwn ==
  verdict.kind = "result" =>
    LET a == verdict.attempt
    IN \/ verdict.value.wall_clock_exceeded /\ pc[a] = "done"
       \/ /\ verdict.value.exit_code = client[a].rc
          /\ \/ fate[a] = "ended"
             \/ client[a].text = "lost" /\ client[a].rc \in LaunchCodes

(* However an attempt that was not lost in a crash ended - its program's end, *)
(* its deadline, one cancellation or one more that interrupts the teardown of *)
(* the first - a container that was there when its teardown began is gone,    *)
(* unless docker would not remove it or could not be asked to, and so is the  *)
(* staged code.                                                               *)
TornDown ==
  \A a \in Ids : pc[a] = "done" =>
    /\ ~staged[a]
    /\ \A n \in Ids : box[n].owner = a => box[n].spared

(* The runtime is unknown, not of this build, or not registered with docker. *)
Unavailable ==
  \/ request.runtime \in {"firecracker", "other"}
  \/ request.runtime = "runsc" /\ ~request.registered

(* The code of a run whose runtime is not there is not staged, not launched   *)
(* under another runtime and not given a result, by its first attempt or by   *)
(* one that follows an attempt that was given up, cancelled or cut short.     *)
FailsClosed ==
  Unavailable =>
    /\ \A a \in Ids : ~staged[a] /\ ~asked[a] /\ box[a].owner = 0
    /\ verdict.kind # "result"

(* The attempt is over before it awaits docker for more than the preflight,   *)
(* and not because it could not ask.                                          *)
TurnedAway(a) ==
  pc[a] \in {"idle", "preflight"} /\ pc'[a] = "done" /\ ~Breaks(a)

(* An attempt that finds the runtime missing is the last, wherever it finds   *)
(* out - outside the activity's try or inside it: while the server waits for  *)
(* it, its violation is the verdict and nothing is retried.                   *)
RefusedForGood ==
  [][\A a \in Ids :
       Unavailable /\ request.fits /\ server.attempt = a /\ server.state # "closed"
         /\ TurnedAway(a)
       => server'.state = "closed" /\ verdict'.kind = "SandboxPolicyViolation"]_vars

(* No step of one attempt, whatever overlaps, ends the program of another.    *)
OnlyOwnProgramsRemoved ==
  [][\A a \in Ids : fate[a] # "removed" /\ fate'[a] = "removed" => pc[a] # pc'[a]]_vars

(* A container that was there when its attempt's teardown began does not run  *)
(* for ever, whatever the program does: it ends, is removed, or its worker    *)
(* dies - or docker would not remove it, or could not be asked to.            *)
SandboxesStop ==
  \A a \in Ids :
    box[Name(a)].owner = a
      ~> box[Name(a)].owner # a \/ box[Name(a)].spared \/ pc[a] = "crashed"

(* An attempt does not wait for ever, whatever the program, the daemon and    *)
(* the commands of its teardown do: it answers, unless its worker dies.       *)
AttemptsEnd ==
  \A a \in Ids : pc[a] \in Awaits ~> pc[a] \in {"done", "crashed"}

(* ARCHITECTURE.md: the untrusted code "loses ... unbounded time": a running  *)
(* container would always have a runner that times it or tears it down.       *)
EverySandboxIsTimed ==
  \A n \in Ids : box[n].owner # 0 => pc[box[n].owner] \in Awaits

(* ARCHITECTURE.md: the runner "tears the container down on timeout or        *)
(* cancellation", safely in every case: nothing would be left of an attempt   *)
(* that has ended.                                                            *)
NothingOutlivesAttempt ==
  \A a, n \in Ids : pc[a] = "done" => box[n].owner # a

=============================================================================
