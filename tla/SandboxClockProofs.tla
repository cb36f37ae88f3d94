-------------------------- MODULE SandboxClockProofs --------------------------
(* Theorems about SandboxClock, for every choice of the time limits: how long *)
(* a program can run, when it is reported to have run too long, and how long  *)
(* it can outlive the attempt the server has given up.                        *)
EXTENDS SandboxClock, TLAPS

-----------------------------------------------------------------------------
(* The inductive invariant. *)

(* A program is launched between the inspection and the loop, runs while it   *)
(* is watched or torn down, and has not ended before.                         *)
ProgramInv ==
  /\ program = "running" => pc \in {"watch", "kill", "inner_kill"}
  /\ pc \in {"preflight", "inspect"} => program = "none"
  /\ program = "none" => pc \in {"preflight", "inspect", "done"}
  /\ program \in {"none", "running"} => endedAt = -1

(* The loop's wait ends by the deadline, and a teardown begins by it. *)
DeadlineInv ==
  /\ pc = "watch" /\ program = "running" => elapsed + wait <= wall + since
  /\ pc \in {"kill", "inner_kill"} /\ program = "running" => elapsed <= wall + since
  /\ pc \in {"kill", "late_out", "late_err"} =>
       elapsed >= wall /\ (endedAt = -1 \/ endedAt >= wall)
  /\ server = "exceeded" =>
       pc = "done" /\ elapsed >= wall /\ (endedAt = -1 \/ endedAt >= wall)

(* A program is stale for no longer than the loop has waited since its last   *)
(* beat; no time passes between the answer to a beat and the cancellation.    *)
StaleInv ==
  /\ server = "started" \/ program = "none" => stale = 0
  /\ told => server # "started" /\ since = 0 /\ stale <= Heartbeat
  /\ pc \in {"watch", "kill"} => stale <= since \/ told
  /\ pc = "inner_kill" => stale <= Heartbeat + since
  /\ stale <= Heartbeat + Removal

IInv == TypeOK /\ ProgramInv /\ DeadlineInv /\ StaleInv

Pcs == Awaits \cup {"late_out", "late_err", "done"}

-----------------------------------------------------------------------------
(* The limit of each await. *)

LEMMA LimitIs ==
  /\ pc \in {"preflight", "inspect"} => Limit = Control
  /\ pc = "watch" => Limit = wait
  /\ pc \in {"kill", "inner_kill", "outer_kill"} => Limit = Removal
  /\ pc \in {"drain_out", "drain_err", "late_out", "late_err", "done"} => Limit = Collection
BY DEF Limit

LEMMA LimitIsNext ==
  /\ pc' \in {"preflight", "inspect"} => Limit' = Control
  /\ pc' = "watch" => Limit' = wait'
  /\ pc' \in {"kill", "inner_kill", "outer_kill"} => Limit' = Removal
  /\ pc' \in {"drain_out", "drain_err", "late_out", "late_err", "done"} => Limit' = Collection
BY DEF Limit

(* Limits are not zero. *)
LEMMA LimitTypes ==
  \A limit \in {Heartbeat, StartToClose, WallClock, Control, Removal, Collection} :
    limit \in Nat /\ limit >= 1
BY LimitsAssumption DEF Limits

(* An await that has just begun is within its limit. *)
LEMMA Begun ==
  ASSUME pc' \in Pcs, wait' \in Nat, since' = 0
  PROVE  since' \in 0..Limit'
BY LimitIsNext, LimitTypes DEF Pcs, Awaits

(* One that is where it was still is. *)
LEMMA Same ==
  ASSUME TypeOK, UNCHANGED <<pc, since, wait>>
  PROVE  since' \in 0..Limit'
<1>1. Limit' = Limit
  BY DEF Limit
<1>. QED
  BY <1>1 DEF TypeOK

-----------------------------------------------------------------------------
(* The steps. *)

LEMMA InitInv == Init => IInv
<1>. SUFFICES ASSUME Init PROVE IInv
  OBVIOUS
<1>1. since \in 0..Limit
  BY LimitIs, LimitTypes DEF Init
<1>2. TypeOK
  <2>1. wall \in 1..WallClock /\ elapsed \in Nat /\ endedAt \in -1..elapsed /\ age \in Nat
    BY LimitTypes DEF Init, Clamped
  <2>2. wait \in 0..Heartbeat /\ silence \in 0..Heartbeat /\ stale \in Nat
    BY LimitTypes DEF Init
  <2>. QED
    BY <1>1, <2>1, <2>2 DEF Init, TypeOK, Awaits
<1>3. ProgramInv /\ DeadlineInv /\ StaleInv
  BY LimitTypes DEF Init, ProgramInv, DeadlineInv, StaleInv
<1>. QED
  BY <1>2, <1>3 DEF IInv

(* The runner. *)
LEMMA PreflightKeepsInv == IInv /\ Preflight => IInv'
<1>. SUFFICES ASSUME IInv, Preflight PROVE IInv'
  OBVIOUS
<1>1. /\ pc = "preflight" /\ pc' = "inspect" /\ since' = 0
      /\ UNCHANGED <<wall, wait, elapsed, program, endedAt, server, age, silence, stale, told>>
  BY DEF Preflight, Goes, loop, clocks
<1>2. TypeOK /\ ProgramInv /\ DeadlineInv /\ StaleInv
  BY DEF IInv
<1>3. since' \in 0..Limit'
  BY <1>1, <1>2, Begun DEF TypeOK, Pcs, Awaits
<1>4. TypeOK'
  BY <1>1, <1>2, <1>3, LimitTypes DEF TypeOK, Awaits
<1>5. ProgramInv'
  BY <1>1, <1>2 DEF ProgramInv, StaleInv
<1>6. DeadlineInv'
  BY <1>1, <1>2, LimitTypes DEF TypeOK, ProgramInv, DeadlineInv, StaleInv
<1>7. StaleInv'
  BY <1>1, <1>2, LimitIs, LimitTypes DEF TypeOK, ProgramInv, StaleInv
<1>. QED
  BY <1>4, <1>5, <1>6, <1>7 DEF IInv

LEMMA RefusesKeepsInv == IInv /\ Refuses => IInv'
<1>. SUFFICES ASSUME IInv, Refuses PROVE IInv'
  OBVIOUS
<1>1. /\ pc = "preflight" /\ pc' = "done" /\ since' = 0
      /\ \/ server = "started" /\ server' = "raised"
         \/ server # "started" /\ server' = server
      /\ UNCHANGED <<wall, wait, elapsed, program, endedAt, age, silence, stale, told>>
  BY DEF Refuses, Ends, Goes, loop, clocks
<1>2. TypeOK /\ ProgramInv /\ DeadlineInv /\ StaleInv
  BY DEF IInv
<1>3. since' \in 0..Limit'
  BY <1>1, <1>2, Begun DEF TypeOK, Pcs, Awaits
<1>4. TypeOK'
  BY <1>1, <1>2, <1>3, LimitTypes DEF TypeOK, Awaits
<1>5. ProgramInv'
  BY <1>1, <1>2 DEF ProgramInv, StaleInv
<1>6. DeadlineInv'
  BY <1>1, <1>2, LimitTypes DEF TypeOK, ProgramInv, DeadlineInv, StaleInv
<1>7. StaleInv'
  BY <1>1, <1>2, LimitIs, LimitTypes DEF TypeOK, ProgramInv, StaleInv
<1>. QED
  BY <1>4, <1>5, <1>6, <1>7 DEF IInv

(* wait_for is of both limits, and a positive wait if time remains. *)
LEMMA WaitForIs ==
  ASSUME NEW m \in Int PROVE /\ WaitFor(m) \in Int /\ WaitFor(m) <= m /\ WaitFor(m) <= Heartbeat
                             /\ m > 0 => WaitFor(m) \in 0..Heartbeat
BY LimitTypes DEF WaitFor, Lesser

LEMMA LaunchKeepsInv == IInv /\ Launch => IInv'
<1>. SUFFICES ASSUME IInv, Launch PROVE IInv'
  OBVIOUS
<1>1. /\ pc = "inspect" /\ pc' = "watch" /\ since' = 0
      /\ program' = "running" /\ elapsed' = 0 /\ wait' = WaitFor(wall)
      /\ UNCHANGED <<wall, endedAt, server, age, silence, stale, told>>
  BY DEF Launch, Goes, clocks
<1>2. TypeOK /\ ProgramInv /\ DeadlineInv /\ StaleInv
  BY DEF IInv
<1>3. wall \in Int /\ wall > 0
  BY <1>2, LimitTypes DEF TypeOK
<1>4. wait' \in 0..Heartbeat /\ wait' <= wall
  BY <1>1, <1>3, WaitForIs
<1>5. since' \in 0..Limit'
  BY <1>1, <1>4, Begun, LimitTypes DEF Pcs, Awaits
<1>6. endedAt = -1
  BY <1>1, <1>2 DEF ProgramInv
<1>7. TypeOK'
  BY <1>1, <1>2, <1>4, <1>5, <1>6, LimitTypes DEF TypeOK, Awaits
<1>8. ProgramInv'
  BY <1>1, <1>6 DEF ProgramInv
<1>9. DeadlineInv'
  BY <1>1, <1>2, <1>3, <1>4 DEF TypeOK, DeadlineInv
<1>10. StaleInv'
  BY <1>1, <1>2 DEF ProgramInv, TypeOK, StaleInv
<1>. QED
  BY <1>7, <1>8, <1>9, <1>10 DEF IInv

LEMMA WakeKeepsInv == IInv /\ Wake => IInv'
<1>. SUFFICES ASSUME IInv, Wake PROVE IInv'
  OBVIOUS
<1>1. /\ pc = "watch" /\ program # "running" /\ pc' = "drain_out" /\ since' = 0
      /\ UNCHANGED <<wall, wait, elapsed, program, endedAt, server, age, silence, stale, told>>
  BY DEF Wake, Goes, loop, clocks
<1>2. TypeOK /\ ProgramInv /\ DeadlineInv /\ StaleInv
  BY DEF IInv
<1>3. since' \in 0..Limit'
  BY <1>1, <1>2, Begun DEF TypeOK, Pcs, Awaits
<1>4. TypeOK'
  BY <1>1, <1>2, <1>3, LimitTypes DEF TypeOK, Awaits
<1>5. ProgramInv'
  BY <1>1, <1>2 DEF ProgramInv, StaleInv
<1>6. DeadlineInv'
  BY <1>1, <1>2, LimitTypes DEF TypeOK, ProgramInv, DeadlineInv, StaleInv
<1>7. StaleInv'
  BY <1>1, <1>2, LimitIs, LimitTypes DEF TypeOK, ProgramInv, StaleInv
<1>. QED
  BY <1>4, <1>5, <1>6, <1>7 DEF IInv

LEMMA KillKeepsInv == IInv /\ Kill => IInv'
<1>. SUFFICES ASSUME IInv, Kill PROVE IInv'
  OBVIOUS
<1>1. /\ pc = "kill" /\ pc' = "late_out" /\ since' = 0
      /\ program' = IF program = "running" THEN "removed" ELSE program
      /\ UNCHANGED <<wall, wait, elapsed, endedAt, server, age, silence, stale, told>>
  BY DEF Kill, Goes, Removed, loop, clocks
<1>2. TypeOK /\ ProgramInv /\ DeadlineInv /\ StaleInv
  BY DEF IInv
<1>3. since' \in 0..Limit'
  BY <1>1, <1>2, Begun DEF TypeOK, Pcs, Awaits
<1>4. TypeOK'
  BY <1>1, <1>2, <1>3, LimitTypes DEF TypeOK, Awaits
<1>5. ProgramInv'
  BY <1>1, <1>2 DEF ProgramInv, StaleInv
<1>6. DeadlineInv'
  BY <1>1, <1>2, LimitTypes DEF TypeOK, ProgramInv, DeadlineInv, StaleInv
<1>7. StaleInv'
  BY <1>1, <1>2, LimitIs, LimitTypes DEF TypeOK, ProgramInv, StaleInv
<1>. QED
  BY <1>4, <1>5, <1>6, <1>7 DEF IInv

LEMMA CollectKeepsInv == IInv /\ Collect => IInv'
<1>. SUFFICES ASSUME IInv, Collect PROVE IInv'
  OBVIOUS
<1>1. /\ \/ pc = "late_out" /\ pc' = "late_err" /\ server' = server
         \/ /\ pc = "late_err" /\ pc' = "done"
            /\ \/ server = "started" /\ server' = "exceeded"
               \/ server # "started" /\ server' = server
         \/ pc = "drain_out" /\ pc' = "drain_err" /\ server' = server
         \/ /\ pc = "drain_err" /\ pc' = "done"
            /\ \/ server = "started" /\ server' = "returned"
               \/ server # "started" /\ server' = server
      /\ since' = 0
      /\ UNCHANGED <<wall, wait, elapsed, program, endedAt, age, silence, stale, told>>
  BY DEF Collect, Ends, Goes, loop, clocks
<1>2. TypeOK /\ ProgramInv /\ DeadlineInv /\ StaleInv
  BY DEF IInv
<1>3. since' \in 0..Limit'
  BY <1>1, <1>2, Begun DEF TypeOK, Pcs, Awaits
<1>4. TypeOK'
  BY <1>1, <1>2, <1>3, LimitTypes DEF TypeOK, Awaits
<1>5. ProgramInv'
  BY <1>1, <1>2 DEF ProgramInv, StaleInv
<1>6. DeadlineInv'
  BY <1>1, <1>2, LimitTypes DEF TypeOK, ProgramInv, DeadlineInv, StaleInv
<1>7. StaleInv'
  BY <1>1, <1>2, LimitIs, LimitTypes DEF TypeOK, ProgramInv, StaleInv
<1>. QED
  BY <1>4, <1>5, <1>6, <1>7 DEF IInv

LEMMA TearDownKeepsInv == IInv /\ TearDown => IInv'
<1>. SUFFICES ASSUME IInv, TearDown PROVE IInv'
  OBVIOUS
<1>1. /\ \/ pc = "inner_kill" /\ pc' = "outer_kill" /\ server' = server
         \/ /\ pc = "outer_kill" /\ pc' = "done"
            /\ \/ server = "started" /\ server' = "cancelled"
               \/ server # "started" /\ server' = server
      /\ since' = 0 /\ program' = IF program = "running" THEN "removed" ELSE program
      /\ UNCHANGED <<wall, wait, elapsed, endedAt, age, silence, stale, told>>
  BY DEF TearDown, Ends, Goes, Removed, loop, clocks
<1>2. TypeOK /\ ProgramInv /\ DeadlineInv /\ StaleInv
  BY DEF IInv
<1>3. since' \in 0..Limit'
  BY <1>1, <1>2, Begun DEF TypeOK, Pcs, Awaits
<1>4. TypeOK'
  BY <1>1, <1>2, <1>3, LimitTypes DEF TypeOK, Awaits
<1>5. ProgramInv'
  BY <1>1, <1>2 DEF ProgramInv, StaleInv
<1>6. DeadlineInv'
  BY <1>1, <1>2, LimitTypes DEF TypeOK, ProgramInv, DeadlineInv, StaleInv
<1>7. StaleInv'
  BY <1>1, <1>2, LimitIs, LimitTypes DEF TypeOK, ProgramInv, StaleInv
<1>. QED
  BY <1>4, <1>5, <1>6, <1>7 DEF IInv

(* The program, the server and the clock. *)
LEMMA ProgramEndsKeepsInv == IInv /\ ProgramEnds => IInv'
<1>. SUFFICES ASSUME IInv, ProgramEnds PROVE IInv'
  OBVIOUS
<1>1. /\ program = "running" /\ program' = "ended" /\ endedAt' = elapsed
      /\ UNCHANGED <<wall, wait, elapsed, pc, since, server, age, silence, stale, told>>
  BY DEF ProgramEnds, loop, clocks
<1>2. TypeOK /\ ProgramInv /\ DeadlineInv /\ StaleInv
  BY DEF IInv
<1>3. since' \in 0..Limit'
  BY <1>1, <1>2, Same
<1>4. TypeOK'
  BY <1>1, <1>2, <1>3, LimitTypes DEF TypeOK, Awaits
<1>5. ProgramInv'
  BY <1>1, <1>2 DEF ProgramInv, StaleInv
<1>6. DeadlineInv'
  BY <1>1, <1>2, LimitTypes DEF TypeOK, ProgramInv, DeadlineInv, StaleInv
<1>7. StaleInv'
  BY <1>1, <1>2, LimitIs, LimitTypes DEF TypeOK, ProgramInv, StaleInv
<1>. QED
  BY <1>4, <1>5, <1>6, <1>7 DEF IInv

(* The server gives the attempt up: nothing of it is stale yet. *)
LEMMA GivesUpKeepsInv ==
  ASSUME IInv, NEW why \in {"heartbeat_timeout", "start_to_close_timeout", "cancelled"},
         GivesUp(why)
  PROVE  IInv'
<1>1. /\ server = "started" /\ server' = why
      /\ UNCHANGED <<wall, wait, elapsed, pc, since, program, endedAt, age, silence, stale, told>>
  BY DEF GivesUp, loop, clocks
<1>2. TypeOK /\ ProgramInv /\ DeadlineInv /\ StaleInv
  BY DEF IInv
<1>3. since' \in 0..Limit'
  BY <1>1, <1>2, Same
<1>4. TypeOK'
  BY <1>1, <1>2, <1>3 DEF TypeOK
<1>5. ProgramInv' /\ DeadlineInv'
  BY <1>1, <1>2 DEF ProgramInv, DeadlineInv
<1>6. StaleInv'
  BY <1>1, <1>2, LimitTypes DEF TypeOK, StaleInv
<1>. QED
  BY <1>4, <1>5, <1>6 DEF IInv

(* A beat: the loop's wait is up, so the program has run for no longer than   *)
(* the wall clock, and if it is stale it has been so for one wait.            *)
LEMMA BeatKeepsInv == IInv /\ Beat => IInv'
<1>. SUFFICES ASSUME IInv, Beat PROVE IInv'
  OBVIOUS
<1>1. /\ pc = "watch" /\ since = wait /\ program = "running" /\ since' = 0
      /\ \/ server = "started" /\ silence' = 0 /\ told' = told
         \/ server # "started" /\ silence' = silence /\ told' = TRUE
      /\ \/ wall - elapsed <= 0 /\ pc' = "kill" /\ wait' = wait
         \/ /\ ~(wall - elapsed <= 0) /\ pc' = "watch" /\ wait' = WaitFor(wall - elapsed)
      /\ UNCHANGED <<wall, elapsed, program, endedAt, server, age, stale>>
  BY DEF Beat, Goes
<1>2. TypeOK /\ ProgramInv /\ DeadlineInv /\ StaleInv
  BY DEF IInv
<1>3. /\ elapsed \in Nat /\ wall \in Nat /\ stale \in Nat /\ elapsed <= wall
      /\ wait \in 0..Heartbeat
  BY <1>1, <1>2, LimitTypes DEF TypeOK, DeadlineInv
<1>4. pc' = "watch" => wait' \in 0..Heartbeat /\ wait' <= wall - elapsed
  BY <1>1, <1>3, WaitForIs
<1>5. since' \in 0..Limit'
  BY <1>1, <1>3, <1>4, Begun, LimitTypes DEF Pcs, Awaits
<1>6. TypeOK'
  <2>1. pc' \in Awaits /\ wait' \in 0..Heartbeat
    BY <1>1, <1>3, <1>4 DEF Awaits
  <2>2. silence' \in 0..Heartbeat
    BY <1>1, <1>2, LimitTypes DEF TypeOK
  <2>3. told' \in BOOLEAN
    BY <1>1, <1>2 DEF TypeOK
  <2>. QED
    BY <1>1, <1>2, <1>5, <2>1, <2>2, <2>3 DEF TypeOK
<1>7. ProgramInv'
  BY <1>1, <1>2 DEF ProgramInv
<1>8. DeadlineInv'
  BY <1>1, <1>2, <1>3, <1>4 DEF ProgramInv, DeadlineInv
<1>9. StaleInv'
  <2>1. stale <= Heartbeat
    BY <1>1, <1>2, <1>3, LimitTypes DEF StaleInv
  <2>. QED
    BY <1>1, <1>2, <1>3, <2>1, LimitTypes DEF StaleInv
<1>. QED
  BY <1>6, <1>7, <1>8, <1>9 DEF IInv

(* The cancellation comes without any time passing since the beat. *)
LEMMA CancelKeepsInv == IInv /\ Cancel => IInv'
<1>. SUFFICES ASSUME IInv, Cancel PROVE IInv'
  OBVIOUS
<1>1. /\ told /\ told' = FALSE
      /\ \/ pc \in {"drain_out", "drain_err"} /\ pc' = "outer_kill" /\ since' = 0
         \/ /\ pc \in {"watch", "kill", "late_out", "late_err"}
            /\ pc' = "inner_kill" /\ since' = 0
         \/ /\ pc \notin {"drain_out", "drain_err", "watch", "kill", "late_out", "late_err"}
            /\ pc' = pc /\ since' = since
      /\ UNCHANGED <<wall, wait, elapsed, program, endedAt, server, age, silence, stale>>
  BY DEF Cancel, Goes, loop, clocks
<1>2. TypeOK /\ ProgramInv /\ DeadlineInv /\ StaleInv
  BY DEF IInv
<1>3. since = 0 /\ since' = 0 /\ server # "started" /\ stale <= Heartbeat
  BY <1>1, <1>2 DEF StaleInv
<1>4. since' \in 0..Limit'
  BY <1>1, <1>2, <1>3, Begun DEF TypeOK, Pcs, Awaits
<1>5. TypeOK'
  BY <1>1, <1>2, <1>4 DEF TypeOK, Awaits
<1>6. ProgramInv'
  BY <1>1, <1>2 DEF ProgramInv
<1>7. DeadlineInv'
  BY <1>1, <1>2, <1>3 DEF TypeOK, ProgramInv, DeadlineInv
<1>8. StaleInv'
  BY <1>1, <1>2, <1>3, LimitTypes DEF TypeOK, StaleInv
<1>. QED
  BY <1>5, <1>6, <1>7, <1>8 DEF IInv

(* Time passes, with nothing due. *)
LEMMA TickKeepsInv == IInv /\ Tick => IInv'
<1>. SUFFICES ASSUME IInv, Tick PROVE IInv'
  OBVIOUS
<1>1. /\ pc # "done" /\ ~(since >= Limit) /\ ~told
      /\ pc = "watch" => program = "running"
      /\ server = "started" => ~(silence >= Heartbeat)
      /\ since' = since + 1 /\ age' = age + 1
      /\ \/ program = "none" /\ elapsed' = 0
         \/ program # "none" /\ elapsed' = elapsed + 1
      /\ \/ server = "started" /\ silence' = silence + 1
         \/ server # "started" /\ silence' = silence
      /\ \/ server # "started" /\ program = "running" /\ stale' = stale + 1
         \/ ~(server # "started" /\ program = "running") /\ stale' = stale
      /\ UNCHANGED <<wall, pc, wait, program, endedAt, server, told>>
  BY DEF Tick, Due
<1>2. TypeOK /\ ProgramInv /\ DeadlineInv /\ StaleInv
  BY DEF IInv
<1>3. Limit \in Nat /\ since \in Nat /\ Limit' = Limit
  <2>1. Limit' = Limit
    BY <1>1 DEF Limit
  <2>2. Limit \in Nat
    BY <1>2, LimitIs, LimitTypes DEF TypeOK, Awaits
  <2>. QED
    BY <1>2, <2>1, <2>2 DEF TypeOK
<1>4. since' \in 0..Limit'
  BY <1>1, <1>3
<1>5. TypeOK'
  <2>1. elapsed' \in Nat /\ age' \in Nat /\ stale' \in Nat
    BY <1>1, <1>2 DEF TypeOK
  <2>2. silence' \in 0..Heartbeat
    BY <1>1, <1>2, LimitTypes DEF TypeOK
  <2>3. endedAt' \in -1..elapsed'
    BY <1>1, <1>2 DEF TypeOK, ProgramInv
  <2>. QED
    BY <1>1, <1>2, <1>4, <2>1, <2>2, <2>3 DEF TypeOK
<1>6. ProgramInv'
  BY <1>1, <1>2 DEF ProgramInv
<1>7. DeadlineInv'
  <2>1. elapsed \in Nat /\ wall \in Nat /\ wait \in Nat
    BY <1>2, LimitTypes DEF TypeOK
  <2>2. pc \in {"kill", "late_out", "late_err"} => elapsed' >= elapsed
    BY <1>1, <1>2, <2>1 DEF ProgramInv
  <2>. QED
    BY <1>1, <1>2, <1>3, <2>1, <2>2 DEF ProgramInv, DeadlineInv
<1>8. StaleInv'
  <2>1. stale \in Nat /\ Heartbeat \in Nat /\ Removal \in Nat /\ wait <= Heartbeat
    BY <1>2, LimitTypes DEF TypeOK
  <2>2. CASE stale' = stale
    BY <1>1, <1>2, <1>3, <2>1, <2>2 DEF StaleInv
  <2>3. CASE server # "started" /\ program = "running" /\ stale' = stale + 1
    <3>1. pc \in {"watch", "kill", "inner_kill"}
      BY <1>2, <2>3 DEF ProgramInv
    <3>2. /\ pc = "watch" => since' <= Heartbeat
          /\ pc \in {"kill", "inner_kill"} => since' <= Removal
      BY <1>1, <1>3, <1>4, <2>1, LimitIs
    <3>. QED
      BY <1>1, <1>2, <1>3, <2>1, <2>3, <3>1, <3>2 DEF StaleInv
  <2>. QED
    BY <1>1, <2>2, <2>3
<1>. QED
  BY <1>5, <1>6, <1>7, <1>8 DEF IInv

-----------------------------------------------------------------------------
(* The theorems. *)

LEMMA StutterKeepsInv == IInv /\ UNCHANGED vars => IInv'
<1>. SUFFICES ASSUME IInv, UNCHANGED vars PROVE IInv'
  OBVIOUS
<1>1. UNCHANGED <<wall, pc, since, wait, elapsed, program, endedAt, server, age, silence, stale, told>>
  BY DEF vars
<1>2. since' \in 0..Limit'
  BY <1>1, Same DEF IInv
<1>. QED
  BY <1>1, <1>2 DEF IInv, TypeOK, ProgramInv, DeadlineInv, StaleInv

LEMMA NextKeepsInv == IInv /\ [Next]_vars => IInv'
BY PreflightKeepsInv, RefusesKeepsInv, LaunchKeepsInv, BeatKeepsInv, WakeKeepsInv,
   KillKeepsInv, CollectKeepsInv, CancelKeepsInv, TearDownKeepsInv, ProgramEndsKeepsInv,
   GivesUpKeepsInv, TickKeepsInv, StutterKeepsInv
   DEF Next, HeartbeatTimeout, StartToCloseTimeout, RunCancelled

(* The clocks of the attempt, the program and the server agree. *)
THEOREM Inductive == Spec => []IInv
BY InitInv, NextKeepsInv, PTL DEF Spec

(* Every await is within its limit. *)
THEOREM TypeCorrect == Spec => []TypeOK
<1>1. IInv => TypeOK
  BY DEF IInv
<1>. QED
  BY <1>1, Inductive, PTL

(* The loop of GvisorRunner.run: however the heartbeats divide it, a program  *)
(* has its wall clock and the time its removal takes, and no more.            *)
THEOREM WallClockIsKept == Spec => []WallClockHolds
<1>1. IInv => WallClockHolds
  <2>. SUFFICES ASSUME IInv, program = "running" PROVE elapsed <= wall + Removal
    BY DEF WallClockHolds
  <2>1. /\ TypeOK /\ ProgramInv /\ DeadlineInv
        /\ elapsed \in Nat /\ wall \in Nat /\ since \in Nat /\ Removal \in Nat
    BY LimitTypes, LimitIs DEF IInv, TypeOK, Awaits
  <2>2. CASE pc = "watch"
    BY <2>1, <2>2, LimitIs DEF TypeOK, DeadlineInv
  <2>3. CASE pc \in {"kill", "inner_kill"}
    BY <2>1, <2>3, LimitIs DEF TypeOK, DeadlineInv
  <2>. QED
    BY <2>1, <2>2, <2>3 DEF ProgramInv
<1>. QED
  BY <1>1, Inductive, PTL

(* wall_clock_exceeded is said of a program that had all its time.            *)
THEOREM ExceededIsExceeded == Spec => []InTimeIsNotExceeded
<1>1. IInv => InTimeIsNotExceeded
  BY DEF IInv, DeadlineInv, InTimeIsNotExceeded
<1>. QED
  BY <1>1, Inductive, PTL

(* Attempts of one run overlap for one heartbeat and one removal at most.     *)
THEOREM StaleAttemptsEnd == Spec => []StaleIsTornDownSoon
<1>1. IInv => StaleIsTornDownSoon
  BY DEF IInv, StaleInv, StaleIsTornDownSoon
<1>. QED
  BY <1>1, Inductive, PTL

=============================================================================
