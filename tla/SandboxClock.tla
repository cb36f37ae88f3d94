----------------------------- MODULE SandboxClock -----------------------------
(* One attempt of run_sandbox against the clock: the time limits of the       *)
(* runner (app/sandbox/gvisor.py), those the server holds the attempt to      *)
(* (app/temporal/policies.py), and the heartbeats between the two.            *)
(*                                                                            *)
(* Time passes in ticks, and no tick passes while something is due: a timer   *)
(* that expires, a program that ended, an answer to a heartbeat.  What is due *)
(* at the same tick happens in any order.  A command may take any time up to  *)
(* its limit.  The server, docker and the program are external.               *)
EXTENDS Integers

CONSTANTS
  Heartbeat,     \* settings.sandbox_heartbeat_s: how often the runner beats,
                 \* and how long the server waits for a beat
  StartToClose,  \* settings.sandbox_start_to_close_s
  WallClock,     \* settings.sandbox_wall_clock_s
  Control,       \* limit of `docker info` and `docker image inspect`
  Removal,       \* limit of `docker rm -f`
  Collection     \* limit on collecting each of stdout and stderr

Limits == {Heartbeat, StartToClose, WallClock, Control, Removal, Collection}
ASSUME LimitsAssumption == \A limit \in Limits : limit \in Nat \ {0}

VARIABLES
  wall,     \* this run's wall_clock_s
  pc,       \* where the attempt awaits
  since,    \* for how long
  wait,     \* how long the loop waits this time, while it watches
  elapsed,  \* time since the docker client was started
  program,  \* the program in its container
  endedAt,  \* when it ended by itself, in elapsed time, or -1
  server,   \* what the server made of the attempt
  age,      \* time since the server started the attempt
  silence,  \* time since the last heartbeat, or since the start
  stale,    \* for how long a program has run for an attempt nobody awaits
  told      \* the server has answered a beat: stop

vars == <<wall, pc, since, wait, elapsed, program, endedAt, server, age,
          silence, stale, told>>
clocks == <<age, silence, stale>>
loop == <<wall, wait, elapsed>>

Awaits == {"preflight", "inspect", "watch", "kill", "drain_out", "drain_err",
           "inner_kill", "outer_kill"}

Lesser(m, n) == IF m < n THEN m ELSE n

(* create_run clamps what the request asks for. *)
Clamped == 1..WallClock

Init ==
  /\ wall \in Clamped
  /\ pc = "preflight"
  /\ since = 0 /\ wait = 0 /\ elapsed = 0
  /\ program = "none" /\ endedAt = -1
  /\ server = "started"
  /\ age = 0 /\ silence = 0 /\ stale = 0
  /\ told = FALSE

(* A loop that sleeps until the deadline, and one that only beats. *)
WaitForDeadline(remaining) == remaining
WaitForBeat(remaining) == Heartbeat

(* wait_for *)
WaitFor(remaining) == Lesser(Heartbeat, remaining)

(* A time limit for the attempt and not for each of its commands. *)
GoesSameClock(next) == pc' = next /\ UNCHANGED since

Goes(next) == pc' = next /\ since' = 0

(* The attempt answers, if anybody still waits for it. *)
Ends(outcome) ==
  /\ Goes("done")
  /\ server' = IF server = "started" THEN outcome ELSE server

-----------------------------------------------------------------------------
(* The runner.                                                                *)

Preflight ==
  /\ pc = "preflight"
  /\ Goes("inspect")
  /\ UNCHANGED <<loop, program, endedAt, server, clocks, told>>

Refuses ==
  /\ pc = "preflight"
  /\ Ends("raised")
  /\ UNCHANGED <<loop, program, endedAt, clocks, told>>

(* The image was inspected: launch, and enter the loop. *)
Launch ==
  /\ pc = "inspect"
  /\ Goes("watch")
  /\ program' = "running"
  /\ elapsed' = 0
  /\ wait' = WaitFor(wall)
  /\ UNCHANGED <<wall, endedAt, server, clocks, told>>

(* A loop that calls it a day when less than a tick is left. *)
BeatEarly ==
  /\ pc = "watch"
  /\ since = wait
  /\ program = "running"
  /\ IF server = "started" THEN silence' = 0 /\ UNCHANGED told
                           ELSE told' = TRUE /\ UNCHANGED silence
  /\ IF wall - elapsed <= 1
     THEN Goes("kill") /\ UNCHANGED wait
     ELSE Goes("watch") /\ wait' = WaitFor(wall - elapsed)
  /\ UNCHANGED <<wall, elapsed, program, endedAt, server, age, stale>>

(* The loop's wait is up and the client still runs: beat, then look at the    *)
(* time.  A beat of an attempt given up or cancelled is answered so.          *)
Beat ==
  /\ pc = "watch"
  /\ since = wait
  /\ program = "running"
  /\ IF server = "started" THEN silence' = 0 /\ UNCHANGED told
                           ELSE told' = TRUE /\ UNCHANGED silence
  /\ IF wall - elapsed <= 0
     THEN Goes("kill") /\ UNCHANGED wait
     ELSE Goes("watch") /\ wait' = WaitFor(wall - elapsed)
  /\ UNCHANGED <<wall, elapsed, program, endedAt, server, age, stale>>

(* The client has ended: leave the loop. *)
Wake ==
  /\ pc = "watch"
  /\ program # "running"
  /\ Goes("drain_out")
  /\ UNCHANGED <<loop, program, endedAt, server, clocks, told>>

Removed == IF program = "running" THEN "removed" ELSE program

Kill ==
  /\ pc = "kill"
  /\ program' = Removed
  /\ Goes("late_out")
  /\ UNCHANGED <<loop, endedAt, server, clocks, told>>

Collect ==
  /\ \/ pc = "late_out" /\ Goes("late_err") /\ UNCHANGED server
     \/ pc = "late_err" /\ Ends("exceeded")
     \/ pc = "drain_out" /\ Goes("drain_err") /\ UNCHANGED server
     \/ pc = "drain_err" /\ Ends("returned")
  /\ UNCHANGED <<loop, program, endedAt, clocks, told>>

(* The cancellation the server's answer brings, and the teardown it leads to. *)
Cancel ==
  /\ told
  /\ told' = FALSE
  /\ IF pc \in {"drain_out", "drain_err"} THEN Goes("outer_kill")
     ELSE IF pc \in {"watch", "kill", "late_out", "late_err"} THEN Goes("inner_kill")
     ELSE UNCHANGED <<pc, since>>
  /\ UNCHANGED <<loop, program, endedAt, server, clocks>>

TearDown ==
  /\ \/ pc = "inner_kill" /\ Goes("outer_kill") /\ UNCHANGED server
     \/ pc = "outer_kill" /\ Ends("cancelled")
  /\ program' = Removed
  /\ UNCHANGED <<loop, endedAt, clocks, told>>

-----------------------------------------------------------------------------
(* The program, the server and the clock.                                     *)

ProgramEnds ==
  /\ program = "running"
  /\ program' = "ended"
  /\ endedAt' = elapsed
  /\ UNCHANGED <<loop, pc, since, server, clocks, told>>

GivesUp(why) ==
  /\ server = "started"
  /\ server' = why
  /\ UNCHANGED <<loop, pc, since, program, endedAt, clocks, told>>

HeartbeatTimeout == silence >= Heartbeat /\ GivesUp("heartbeat_timeout")
StartToCloseTimeout == age >= StartToClose /\ GivesUp("start_to_close_timeout")
RunCancelled == GivesUp("cancelled")

Limit ==
  CASE pc \in {"preflight", "inspect"} -> Control
    [] pc = "watch" -> wait
    [] pc \in {"kill", "inner_kill", "outer_kill"} -> Removal
    [] OTHER -> Collection

(* Something is due: time waits for it. *)
Due ==
  \/ since >= Limit
  \/ told
  \/ pc = "watch" /\ program # "running"
  \/ server = "started" /\ (silence >= Heartbeat \/ age >= StartToClose)

Tick ==
  /\ pc # "done"
  /\ ~Due
  /\ since' = since + 1
  /\ elapsed' = IF program = "none" THEN 0 ELSE elapsed + 1
  /\ age' = age + 1
  /\ silence' = IF server = "started" THEN silence + 1 ELSE silence
  /\ stale' = IF server # "started" /\ program = "running" THEN stale + 1 ELSE stale
  /\ UNCHANGED <<wall, pc, wait, program, endedAt, server, told>>

Next ==
  \/ Preflight \/ Refuses \/ Launch \/ Beat \/ Wake \/ Kill \/ Collect
  \/ Cancel \/ TearDown
  \/ ProgramEnds
  \/ HeartbeatTimeout \/ StartToCloseTimeout \/ RunCancelled
  \/ Tick

Spec == Init /\ [][Next]_vars

-----------------------------------------------------------------------------
(* The attempt awaits within the limit of its await, and clocks are clocks.   *)
TypeOK ==
  /\ wall \in 1..WallClock
  /\ pc \in Awaits \cup {"late_out", "late_err", "done"}
  /\ since \in 0..Limit
  /\ wait \in 0..Heartbeat
  /\ elapsed \in Nat
  /\ program \in {"none", "running", "ended", "removed"}
  /\ endedAt \in -1..elapsed
  /\ server \in {"started", "returned", "raised", "exceeded", "cancelled",
                 "heartbeat_timeout", "start_to_close_timeout"}
  /\ age \in Nat /\ silence \in 0..Heartbeat /\ stale \in Nat
  /\ told \in BOOLEAN

(* Whenever heartbeats fall and whatever the request asked for, no program    *)
(* runs longer than its wall clock and one `docker rm` - so long as the       *)
(* worker lives, and the daemon can be asked to remove it and obeys.          *)
WallClockHolds == program = "running" => elapsed <= wall + Removal

(* A run reported to have exceeded its wall clock had all of it, and its      *)
(* program had not ended by itself before, even when the loop wakes at the    *)
(* very end and the teardown takes its time.                                  *)
InTimeIsNotExceeded ==
  server = "exceeded" => elapsed >= wall /\ (endedAt = -1 \/ endedAt >= wall)

(* A program whose attempt the server has given up, or whose run was          *)
(* cancelled, runs on until the next beat and one `docker rm`, and no longer: *)
(* that is how long attempts of one run can overlap.                          *)
StaleIsTornDownSoon == stale <= Heartbeat + Removal

(* README.md: a heartbeat "turns a silent hang into a fast failure".  An      *)
(* attempt that watches its program, and whose next beat is not even due, is  *)
(* no hang and would not be given up for one.                                 *)
OnlyHangsAreGivenUp ==
  [][server = "started" /\ server' = "heartbeat_timeout"
       => ~(pc = "watch" /\ since < wait)]_vars

=============================================================================
