------------------------ MODULE SandboxActivityProofs ------------------------
(* Theorems about SandboxActivity, for any number of attempts, cancellations  *)
(* and crashes, any requests and any faults: what overlapping attempts leave  *)
(* behind, which verdicts they earn, and what a missing runtime comes to.     *)
EXTENDS SandboxActivity, TLAPS

-----------------------------------------------------------------------------
(* The inductive invariant. *)

(* Where an attempt has asked docker for nothing. *)
Ahead == {"idle", "preflight", "inspect", "spawn"}

(* The container of an attempt is named after it, and runs its program. *)
BoxIsOwn(a) ==
  /\ box[a].owner \in {0, a}
  /\ fate[a] = "running" <=> box[a].owner = a

(* A request not acted on has come to nothing yet, and a client that ended    *)
(* has seen its program end or removed, or its launch fail.                   *)
ClientIsTold(a) ==
  /\ pc[a] \in Ahead => client[a].state = "none" /\ ~asked[a] /\ fate[a] = "none"
  /\ asked[a] => fate[a] = "none" /\ client[a].state \in {"live", "gone"}
  /\ client[a].state = "ended" =>
       /\ fate[a] # "running"
       /\ fate[a] = "none" =>
            client[a].rc \in LaunchCodes /\ client[a].text \in {"launch", "launch_named", "lost"}
  /\ pc[a] = "drain" => client[a].state = "ended"
  /\ fate[a] = "removed" => pc[a] \notin Ahead \cup {"watch", "drain"}

(* A container that its teardown missed: not reached yet, or cut short by one *)
(* cancellation after another.                                                *)
TeardownReached(a) ==
  /\ pc[a] \in {"idle", "preflight", "inspect", "outer_kill", "done"} => ~staged[a]
  /\ pc[a] = "inner_kill" => cancels[a] >= 1
  /\ box[a].owner = a /\ ~box[a].spared =>
       \/ pc[a] \in {"watch", "deadline_kill", "inner_kill", "crashed"}
       \/ pc[a] = "outer_kill" /\ cancels[a] >= 2
       \/ pc[a] = "done" /\ cancels[a] >= 3

(* Without its runtime an attempt gets no further than the preflight, and for *)
(* one that has no runner it does not get there.                              *)
NotLaunched(a) ==
  /\ Unavailable => /\ pc[a] \in {"idle", "preflight", "outer_kill", "done", "crashed"}
                    /\ ~staged[a] /\ ~asked[a] /\ box[a].owner = 0
  /\ request.runtime = "other" => pc[a] \in {"idle", "done"}

Sound(a) == BoxIsOwn(a) /\ ClientIsTold(a) /\ TeardownReached(a) /\ NotLaunched(a)

(* The server is about the newest attempt, and records a verdict once. *)
InOrder ==
  /\ \A a \in Ids : a > server.attempt => pc[a] = "idle"
  /\ server.state = "scheduled" => pc[server.attempt] = "idle"
  /\ server.state # "closed" => verdict = NoVerdict
  /\ verdict.kind # "none" => verdict.attempt = server.attempt

(* A result is earned by an attempt that is over, and that had its runtime. *)
Earned(a, value) ==
  /\ pc[a] = "done" /\ ~Unavailable
  /\ \/ value.wall_clock_exceeded
     \/ /\ client[a].state = "ended"
        /\ value.exit_code = client[a].rc
        /\ fate[a] = "ended" \/ (client[a].text = "lost" /\ client[a].rc \in LaunchCodes)

VerdictEarned ==
  verdict.kind = "result" => verdict.attempt \in Ids /\ Earned(verdict.attempt, verdict.value)

IInv == TypeOK /\ (\A a \in Ids : Sound(a)) /\ InOrder /\ VerdictEarned

-----------------------------------------------------------------------------
(* Types. *)

DockerOK ==
  /\ client \in [Ids -> [state : {"none", "live", "ended", "gone"},
                         rc : ExitCodes, text : Texts]]
  /\ asked \in [Ids -> BOOLEAN]
  /\ box \in [Ids -> [owner : 0..MaxAttempts, spared : BOOLEAN]]
  /\ fate \in [Ids -> {"none", "running", "ended", "removed"}]

Kinds == {"result", "SandboxPolicyViolation", "SandboxInfraError",
          "PayloadTooLarge", "OSError", "CancelledError", "Timeout"}

ServerOK ==
  /\ server \in [state : {"scheduled", "started", "closed"}, attempt : Ids]
  /\ verdict.kind \in {"none"} \cup Kinds
  /\ verdict.attempt \in 0..MaxAttempts /\ verdict.value \in SandboxResults

AttemptsOK ==
  /\ pc \in [Ids -> Awaits \cup {"idle", "done", "crashed"}]
  /\ staged \in [Ids -> BOOLEAN]
  /\ cancels \in [Ids -> 0..MaxCancels]
  /\ crashes \in 0..MaxCrashes

LEMMA Types == TypeOK <=> request \in AllRequests /\ ServerOK /\ DockerOK /\ AttemptsOK
BY DEF TypeOK, ServerOK, DockerOK, AttemptsOK, Kinds

LEMMA TypesNext ==
  TypeOK' <=> request' \in AllRequests /\ ServerOK' /\ DockerOK' /\ AttemptsOK'
BY DEF TypeOK, ServerOK, DockerOK, AttemptsOK, Kinds

(* An answer of attempt a. *)
ReplyOf(a, reply) ==
  reply.kind \in Kinds /\ reply.attempt = a /\ reply.value \in SandboxResults

LEMMA ResultReply ==
  ASSUME NEW a \in Ids, NEW rc \in Int, NEW timeout \in BOOLEAN
  PROVE  /\ ReplyOf(a, Result(a, rc, timeout)) /\ Result(a, rc, timeout).kind = "result"
         /\ Result(a, rc, timeout).value.exit_code = rc
         /\ Result(a, rc, timeout).value.wall_clock_exceeded = timeout
<1>. DEFINE oom == rc = 137 /\ ~timeout
<1>1. oom \in BOOLEAN
  BY Zenon
<1>2. Result(a, rc, timeout) =
        [kind |-> "result", attempt |-> a,
         value |-> [exit_code |-> rc, oom_killed |-> oom, wall_clock_exceeded |-> timeout]]
  BY Zenon DEF Result
<1>. HIDE DEF oom
<1>3. [exit_code |-> rc, oom_killed |-> oom, wall_clock_exceeded |-> timeout] \in SandboxResults
  BY <1>1 DEF SandboxResults
<1>. QED
  BY <1>2, <1>3 DEF ReplyOf, Kinds

LEMMA ErrorReply ==
  ASSUME NEW a \in Ids, NEW type \in Kinds
  PROVE  ReplyOf(a, Error(a, type)) /\ Error(a, type).kind = type
<1>. DEFINE value == Result(a, 0, FALSE).value
<1>1. ReplyOf(a, Result(a, 0, FALSE))
  <2>1. 0 \in Int /\ FALSE \in BOOLEAN
    OBVIOUS
  <2>. QED
    BY Zenon, <2>1, ResultReply
<1>2. value \in SandboxResults
  BY Zenon, <1>1 DEF ReplyOf
<1>3. Error(a, type) = [kind |-> type, attempt |-> a, value |-> value]
  BY Zenon DEF Error
<1>. HIDE DEF value
<1>. QED
  BY <1>2, <1>3 DEF ReplyOf

LEMMA NoVerdictReply ==
  NoVerdict.kind = "none" /\ NoVerdict.attempt = 0 /\ NoVerdict.value \in SandboxResults
<1>. DEFINE value == Result(0, 0, FALSE).value
<1>1. value \in SandboxResults
  BY DEF Result, SandboxResults
<1>2. NoVerdict = [kind |-> "none", attempt |-> 0, value |-> value]
  BY Zenon DEF NoVerdict, Error
<1>. HIDE DEF value
<1>. QED
  BY <1>1, <1>2

(* What the server makes of the answer: nothing, its verdict, or a retry. *)
LEMMA AnswersDo ==
  ASSUME NEW a \in Ids, NEW reply, Answers(a, reply)
  PROVE  \/ server' = server /\ verdict' = verdict
         \/ /\ server = [state |-> "started", attempt |-> a]
            /\ \/ /\ server' = [state |-> "closed", attempt |-> a]
                  /\ IF reply.kind = "result" THEN verdict' = reply
                     ELSE verdict' = Error(a, reply.kind)
               \/ /\ a < MaxAttempts /\ verdict' = verdict
                  /\ server' = [state |-> "scheduled", attempt |-> a + 1]
BY DEF Answers, Retries

-----------------------------------------------------------------------------
(* What a step of one attempt leaves alone. *)

(* What is sound of an attempt stays so while nothing of it changes. *)
LEMMA Elsewhere ==
  ASSUME NEW b \in Ids, Sound(b), request' = request, pc'[b] = pc[b],
         client'[b] = client[b], asked'[b] = asked[b], box'[b] = box[b],
         fate'[b] = fate[b], staged'[b] = staged[b], cancels'[b] = cancels[b]
  PROVE  Sound(b)'
BY DEF Sound, BoxIsOwn, ClientIsTold, TeardownReached, NotLaunched, Unavailable

(* A step within an attempt that tells the server nothing. *)
LEMMA StaysInOrder ==
  ASSUME IInv, request' = request,
         NEW a \in Ids, pc[a] \in Awaits, NEW at \in Awaits \cup {"crashed"},
         pc' = [pc EXCEPT ![a] = at], server' = server, verdict' = verdict,
         \A b \in Ids : b # a => client'[b] = client[b] /\ fate'[b] = fate[b]
  PROVE  InOrder' /\ VerdictEarned'
<1>1. pc \in [Ids -> Awaits \cup {"idle", "done", "crashed"}] /\ server.attempt \in Ids
  BY DEF IInv, TypeOK
<1>2. at # "idle" /\ pc[a] # "idle" /\ pc[a] # "done"
  BY DEF Awaits
<1>3. InOrder'
  BY <1>1, <1>2 DEF IInv, InOrder
<1>4. VerdictEarned'
  BY <1>1, <1>2 DEF IInv, VerdictEarned, Earned, Unavailable
<1>. QED
  BY <1>3, <1>4

(* A step of docker alone: a client that has ended stays as it is. *)
LEMMA DockerInOrder ==
  ASSUME IInv, request' = request,
         NEW a \in Ids, pc' = pc, server' = server, verdict' = verdict,
         client[a].state = "ended" => client'[a] = client[a] /\ fate'[a] = fate[a],
         \A b \in Ids : b # a => client'[b] = client[b] /\ fate'[b] = fate[b]
  PROVE  InOrder' /\ VerdictEarned'
<1>1. InOrder'
  BY DEF IInv, InOrder
<1>2. VerdictEarned'
  BY DEF IInv, VerdictEarned, Earned, Unavailable
<1>. QED
  BY <1>1, <1>2

(* The last step of an attempt. *)
LEMMA EndsInOrder ==
  ASSUME IInv, request' = request,
         NEW a \in Ids, pc[a] \in Awaits, NEW reply, ReplyOf(a, reply), Ends(a, reply),
         reply.kind = "result" => Earned(a, reply.value)',
         \A b \in Ids : b # a => client'[b] = client[b] /\ fate'[b] = fate[b]
  PROVE  ServerOK' /\ InOrder' /\ VerdictEarned'
<1>1. /\ pc \in [Ids -> Awaits \cup {"idle", "done", "crashed"}]
      /\ pc' = [pc EXCEPT ![a] = "done"] /\ pc[a] # "idle" /\ pc[a] # "done"
      /\ server \in [state : {"scheduled", "started", "closed"}, attempt : Ids]
  BY DEF Ends, IInv, TypeOK, Awaits
<1>2. ServerOK
  BY Types DEF IInv
<1>3. Ids = 1..MaxAttempts /\ MaxAttempts \in Nat
  BY MaxAttemptsAssumption DEF Ids
<1>4. CASE server' = server /\ verdict' = verdict
  <2>1. ServerOK'
    BY <1>2, <1>4 DEF ServerOK
  <2>2. InOrder'
    BY <1>1, <1>3, <1>4 DEF IInv, InOrder
  <2>3. VerdictEarned'
    BY <1>1, <1>4 DEF IInv, VerdictEarned, Earned, Unavailable
  <2>. QED
    BY <2>1, <2>2, <2>3
<1>5. CASE /\ server = [state |-> "started", attempt |-> a]
           /\ server' = [state |-> "closed", attempt |-> a]
           /\ IF reply.kind = "result" THEN verdict' = reply
              ELSE verdict' = Error(a, reply.kind)
  <2>1. ReplyOf(a, verdict') /\ verdict'.kind = reply.kind
    BY <1>5, ErrorReply DEF ReplyOf
  <2>2. ServerOK'
    BY <1>3, <1>5, <2>1 DEF ServerOK, ReplyOf
  <2>3. InOrder'
    BY <1>1, <1>3, <1>5, <2>1 DEF IInv, InOrder, ReplyOf
  <2>4. VerdictEarned'
    BY <1>1, <1>5, <2>1 DEF VerdictEarned, Earned, Unavailable, ReplyOf
  <2>. QED
    BY <2>2, <2>3, <2>4
<1>6. CASE /\ server = [state |-> "started", attempt |-> a]
           /\ a < MaxAttempts /\ verdict' = verdict
           /\ server' = [state |-> "scheduled", attempt |-> a + 1]
  <2>1. ServerOK'
    BY <1>2, <1>3, <1>6 DEF ServerOK
  <2>2. InOrder'
    <3>1. verdict = NoVerdict /\ verdict.kind = "none"
      BY <1>6, NoVerdictReply DEF IInv, InOrder
    <3>. QED
      BY <1>1, <1>3, <1>6, <3>1 DEF IInv, InOrder
  <2>3. VerdictEarned'
    BY <1>1, <1>6 DEF IInv, VerdictEarned, Earned, Unavailable
  <2>. QED
    BY <2>1, <2>2, <2>3
<1>. QED
  BY <1>4, <1>5, <1>6, AnswersDo DEF Ends

-----------------------------------------------------------------------------
(* What docker does to a container. *)

(* `docker rm -f` of an attempt's name. *)
LEMMA RemoveDoes ==
  ASSUME DockerOK, NEW a \in Ids, BoxIsOwn(a), Remove(Name(a))
  PROVE  /\ DockerOK' /\ asked' = asked
         /\ \A b \in Ids : b # a =>
              client'[b] = client[b] /\ fate'[b] = fate[b] /\ box'[b] = box[b]
         /\ \/ box[a].owner = 0 /\ UNCHANGED <<client, box, fate>>
            \/ /\ box[a].owner = a /\ box'[a].owner = 0 /\ fate'[a] = "removed"
               /\ IF client[a].state = "live" THEN client'[a].state = "ended"
                  ELSE client'[a] = client[a]
<1>1. Name(a) = a /\ a # 0 /\ 0 \in 0..MaxAttempts
  BY MaxAttemptsAssumption DEF Name, Ids
<1>2. CASE box[a].owner = 0
  BY <1>1, <1>2 DEF Remove, docker, DockerOK
<1>3. CASE box[a].owner = a
  <2>. DEFINE killed == [state |-> "ended", rc |-> 137, text |-> "plain"]
  <2>1. /\ box' = [box EXCEPT ![a] = NoBox] /\ fate' = [fate EXCEPT ![a] = "removed"]
        /\ client' = IF client[a].state = "live" THEN [client EXCEPT ![a] = killed] ELSE client
        /\ asked' = asked
    BY <1>1, <1>3 DEF Remove
  <2>2. NoBox \in [owner : 0..MaxAttempts, spared : BOOLEAN] /\ NoBox.owner = 0
    BY <1>1 DEF NoBox
  <2>3. killed \in [state : {"none", "live", "ended", "gone"}, rc : ExitCodes, text : Texts]
        /\ killed.state = "ended"
    BY DEF ExitCodes, Texts
  <2>. HIDE DEF killed
  <2>4. DockerOK'
    BY <2>1, <2>2, <2>3 DEF DockerOK
  <2>. QED
    BY <1>3, <2>1, <2>2, <2>3, <2>4 DEF DockerOK
<1>. QED
  BY <1>2, <1>3 DEF BoxIsOwn

(* `docker rm -f` that did not work, or was not there to be asked. *)
LEMMA SpareDoes ==
  ASSUME DockerOK, NEW a \in Ids, BoxIsOwn(a), Spare(Name(a))
  PROVE  /\ DockerOK' /\ asked' = asked
         /\ \A b \in Ids : b # a =>
              client'[b] = client[b] /\ fate'[b] = fate[b] /\ box'[b] = box[b]
         /\ box'[a].owner = box[a].owner /\ fate'[a] = fate[a] /\ client'[a] = client[a]
         /\ box'[a].owner = a => box'[a].spared
<1>. DEFINE held == box[a].owner # 0
<1>1. Name(a) = a /\ a # 0
  BY MaxAttemptsAssumption DEF Name, Ids
<1>2. held \in BOOLEAN /\ (box[a].owner = a => held)
  BY Zenon, <1>1
<1>3. box' = [box EXCEPT ![a].spared = held] /\ UNCHANGED <<client, asked, fate>>
  BY <1>1 DEF Spare
<1>. HIDE DEF held
<1>4. DockerOK'
  BY <1>2, <1>3 DEF DockerOK
<1>5. box'[a].owner = box[a].owner /\ box'[a].spared = held
  BY <1>3 DEF DockerOK
<1>. QED
  BY <1>2, <1>3, <1>4, <1>5 DEF DockerOK

(* kill, which may not have worked. *)
LEMMA KillDoes ==
  ASSUME DockerOK, NEW a \in Ids, BoxIsOwn(a), Kill(a)
  PROVE  /\ DockerOK' /\ asked' = asked
         /\ \A b \in Ids : b # a =>
              client'[b] = client[b] /\ fate'[b] = fate[b] /\ box'[b] = box[b]
         /\ \/ /\ box'[a].owner = box[a].owner /\ fate'[a] = fate[a] /\ client'[a] = client[a]
               /\ box'[a].owner = a => box'[a].spared
            \/ /\ box[a].owner = a /\ box'[a].owner = 0 /\ fate'[a] = "removed"
               /\ IF client[a].state = "live" THEN client'[a].state = "ended"
                  ELSE client'[a] = client[a]
<1>1. Name(a) = a /\ a # 0
  BY MaxAttemptsAssumption DEF Name, Ids
<1>2. CASE Remove(Name(a))
  BY <1>1, <1>2, RemoveDoes
<1>3. CASE Spare(Name(a))
  BY <1>3, SpareDoes
<1>. QED
  BY <1>2, <1>3 DEF Kill

-----------------------------------------------------------------------------
(* The steps. *)

(* A step of attempt a preserves the invariant if it does so for a.           *)
Apart(a) ==
  \A b \in Ids : b # a =>
    /\ pc'[b] = pc[b] /\ client'[b] = client[b] /\ asked'[b] = asked[b]
    /\ box'[b] = box[b] /\ fate'[b] = fate[b]
    /\ staged'[b] = staged[b] /\ cancels'[b] = cancels[b]

LEMMA Assembled ==
  ASSUME IInv, NEW a \in Ids, request' = request, ServerOK', DockerOK', AttemptsOK',
         Sound(a)', Apart(a), InOrder', VerdictEarned'
  PROVE  IInv'
<1>1. TypeOK'
  BY TypesNext DEF IInv, TypeOK
<1>2. ASSUME NEW b \in Ids, b # a PROVE Sound(b)'
  BY <1>2, Elsewhere DEF IInv, Apart
<1>. QED
  BY <1>1, <1>2 DEF IInv

LEMMA InitInv == Init => IInv
<1>. SUFFICES ASSUME Init PROVE IInv
  OBVIOUS
<1>1. Ids = 1..MaxAttempts /\ MaxAttempts \in Nat \ {0}
  BY MaxAttemptsAssumption DEF Ids
<1>2. ServerOK
  BY <1>1, NoVerdictReply DEF Init, ServerOK
<1>3. DockerOK
  BY <1>1 DEF Init, DockerOK, NoClient, NoBox, ExitCodes, Texts
<1>4. AttemptsOK
  BY BoundsAssumption DEF Init, AttemptsOK
<1>5. TypeOK
  BY <1>2, <1>3, <1>4, Types, RequestsAssumption DEF Init
<1>6. ASSUME NEW a \in Ids PROVE Sound(a)
  BY <1>1 DEF Init, Sound, BoxIsOwn, ClientIsTold, TeardownReached, NotLaunched,
              NoClient, NoBox, Ahead
<1>7. InOrder /\ VerdictEarned
  BY <1>1, NoVerdictReply DEF Init, InOrder, VerdictEarned
<1>. QED
  BY <1>5, <1>6, <1>7 DEF IInv

(* The parts of the invariant, as the steps of an attempt use them. *)
LEMMA Parts ==
  ASSUME IInv, NEW a \in Ids
  PROVE  /\ ServerOK /\ DockerOK /\ AttemptsOK /\ request \in AllRequests
         /\ BoxIsOwn(a) /\ ClientIsTold(a) /\ TeardownReached(a) /\ NotLaunched(a)
         /\ a # 0
BY Types, MaxAttemptsAssumption DEF IInv, Sound, Ids

LEMMA StageKeepsInv == ASSUME IInv, NEW a \in Ids, Stage(a) PROVE IInv'
<1>1. /\ pc[a] = "inspect" /\ pc' = [pc EXCEPT ![a] = "spawn"]
      /\ staged' = [staged EXCEPT ![a] = TRUE]
      /\ UNCHANGED <<request, server, verdict, client, asked, box, fate, cancels, crashes>>
  BY DEF Stage, docker
<1>2. /\ ServerOK /\ DockerOK /\ AttemptsOK /\ BoxIsOwn(a) /\ ClientIsTold(a)
      /\ TeardownReached(a) /\ NotLaunched(a)
  BY Parts
<1>3. ServerOK' /\ DockerOK' /\ AttemptsOK'
  BY <1>1, <1>2 DEF ServerOK, DockerOK, AttemptsOK, Awaits
<1>4. Apart(a) /\ pc'[a] = "spawn"
  BY <1>1, <1>2 DEF Apart, AttemptsOK
<1>5. Sound(a)'
  BY <1>1, <1>2, <1>4 DEF Sound, BoxIsOwn, ClientIsTold, TeardownReached, NotLaunched,
                          Unavailable, Ahead
<1>6. InOrder' /\ VerdictEarned'
  BY <1>1, StaysInOrder DEF Awaits
<1>. QED
  BY <1>1, <1>3, <1>4, <1>5, <1>6, Assembled

LEMMA LaunchKeepsInv == ASSUME IInv, NEW a \in Ids, Launch(a) PROVE IInv'
<1>1. /\ pc[a] = "spawn" /\ pc' = [pc EXCEPT ![a] = "watch"]
      /\ client' = [client EXCEPT ![a].state = "live"] /\ asked' = [asked EXCEPT ![a] = TRUE]
      /\ UNCHANGED <<request, server, verdict, staged, box, fate, cancels, crashes>>
  BY DEF Launch
<1>2. /\ ServerOK /\ DockerOK /\ AttemptsOK /\ BoxIsOwn(a) /\ ClientIsTold(a)
      /\ TeardownReached(a) /\ NotLaunched(a)
  BY Parts
<1>3. ServerOK' /\ DockerOK' /\ AttemptsOK'
  BY <1>1, <1>2 DEF ServerOK, DockerOK, AttemptsOK, Awaits
<1>4. /\ Apart(a) /\ pc'[a] = "watch" /\ client'[a].state = "live"
      /\ \A b \in Ids : b # a => client'[b] = client[b] /\ fate'[b] = fate[b]
  BY <1>1, <1>2 DEF Apart, AttemptsOK, DockerOK
<1>5. Sound(a)'
  BY <1>1, <1>2, <1>4 DEF Sound, BoxIsOwn, ClientIsTold, TeardownReached, NotLaunched,
                          Unavailable, Ahead
<1>6. InOrder' /\ VerdictEarned'
  BY <1>1, <1>4, StaysInOrder DEF Awaits
<1>. QED
  BY <1>1, <1>3, <1>4, <1>5, <1>6, Assembled

(* The loop is left, for the end of the client or of the time. *)
LEMMA LeaveLoopKeepsInv == ASSUME IInv, NEW a \in Ids, Collect(a) \/ Deadline(a) PROVE IInv'
<1>1. /\ pc[a] = "watch"
      /\ \/ client[a].state = "ended" /\ pc' = [pc EXCEPT ![a] = "drain"]
         \/ pc' = [pc EXCEPT ![a] = "deadline_kill"]
      /\ UNCHANGED <<request, server, verdict, staged, client, asked, box, fate, cancels, crashes>>
  BY DEF Collect, Deadline, docker
<1>2. /\ ServerOK /\ DockerOK /\ AttemptsOK /\ BoxIsOwn(a) /\ ClientIsTold(a)
      /\ TeardownReached(a) /\ NotLaunched(a)
  BY Parts
<1>3. ServerOK' /\ DockerOK' /\ AttemptsOK'
  BY <1>1, <1>2 DEF ServerOK, DockerOK, AttemptsOK, Awaits
<1>4. /\ Apart(a)
      /\ \/ pc'[a] = "deadline_kill"
         \/ pc'[a] = "drain" /\ client[a].state = "ended"
  BY <1>1, <1>2 DEF Apart, AttemptsOK
<1>5. Sound(a)'
  <2>1. BoxIsOwn(a)' /\ NotLaunched(a)'
    BY <1>1, <1>2, <1>4 DEF BoxIsOwn, NotLaunched, Unavailable
  <2>2. ClientIsTold(a)'
    BY <1>1, <1>2, <1>4 DEF ClientIsTold, Ahead
  <2>3. TeardownReached(a)'
    BY <1>1, <1>2, <1>4 DEF TeardownReached, ClientIsTold, BoxIsOwn
  <2>. QED
    BY <2>1, <2>2, <2>3 DEF Sound
<1>6. InOrder' /\ VerdictEarned'
  BY <1>1, StaysInOrder DEF Awaits
<1>. QED
  BY <1>1, <1>3, <1>4, <1>5, <1>6, Assembled

(* The preflight passes, or refuses for good. *)
LEMMA PreflightKeepsInv == ASSUME IInv, NEW a \in Ids, Preflight(a) PROVE IInv'
<1>1. /\ pc[a] = "preflight"
      /\ UNCHANGED <<request, client, asked, box, fate, cancels, crashes>>
  BY DEF Preflight, docker
<1>2. /\ ServerOK /\ DockerOK /\ AttemptsOK /\ BoxIsOwn(a) /\ ClientIsTold(a)
      /\ TeardownReached(a) /\ NotLaunched(a)
  BY Parts
<1>3. CASE RuntimeThere /\ pc' = [pc EXCEPT ![a] = "inspect"] /\ UNCHANGED <<server, verdict, staged>>
  <2>1. ServerOK' /\ DockerOK' /\ AttemptsOK'
    BY <1>1, <1>2, <1>3 DEF ServerOK, DockerOK, AttemptsOK, Awaits
  <2>2. Apart(a) /\ pc'[a] = "inspect"
    BY <1>1, <1>2, <1>3 DEF Apart, AttemptsOK
  <2>3. ~ Unavailable
    <3>1. request.runtime # "other"
      BY <1>1, <1>2 DEF NotLaunched
    <3>2. request.runtime # "firecracker"
      BY <1>3 DEF RuntimeThere
    <3>3. request.runtime = "runsc" => request.registered
      BY Zenon, <1>3 DEF RuntimeThere
    <3>. QED
      BY <3>1, <3>2, <3>3 DEF Unavailable
  <2>4. Sound(a)'
    BY <1>1, <1>2, <1>3, <2>2, <2>3 DEF Sound, BoxIsOwn, ClientIsTold, TeardownReached,
                                       NotLaunched, Unavailable, Ahead
  <2>5. InOrder' /\ VerdictEarned'
    BY <1>1, <1>3, StaysInOrder DEF Awaits
  <2>. QED
    BY <1>1, <2>1, <2>2, <2>4, <2>5, Assembled
<1>4. CASE Ends(a, Error(a, "SandboxPolicyViolation"))
  <2>1. pc' = [pc EXCEPT ![a] = "done"] /\ staged' = [staged EXCEPT ![a] = FALSE]
    BY <1>4 DEF Ends
  <2>2. DockerOK' /\ AttemptsOK'
    BY <1>1, <1>2, <2>1 DEF DockerOK, AttemptsOK
  <2>3. Apart(a) /\ pc'[a] = "done" /\ ~staged'[a]
    BY <1>1, <1>2, <2>1 DEF Apart, AttemptsOK
  <2>4. Sound(a)'
    BY <1>1, <1>2, <2>3 DEF Sound, BoxIsOwn, ClientIsTold, TeardownReached,
                            NotLaunched, Unavailable, Ahead
  <2>5. ServerOK' /\ InOrder' /\ VerdictEarned'
    BY <1>1, <1>4, ErrorReply, EndsInOrder DEF Awaits, Kinds
  <2>. QED
    BY <1>1, <2>2, <2>3, <2>4, <2>5, Assembled
<1>. QED
  BY <1>3, <1>4 DEF Preflight

(* A command could not be started, or the code not be staged. *)
LEMMA BreaksKeepsInv == ASSUME IInv, NEW a \in Ids, Breaks(a) PROVE IInv'
<1>1. /\ pc[a] \in {"preflight", "inspect", "spawn"} /\ Ends(a, Error(a, "OSError"))
      /\ pc' = [pc EXCEPT ![a] = "done"] /\ staged' = [staged EXCEPT ![a] = FALSE]
      /\ UNCHANGED <<request, client, asked, box, fate, cancels, crashes>>
  BY DEF Breaks, docker, Ends
<1>2. /\ ServerOK /\ DockerOK /\ AttemptsOK /\ BoxIsOwn(a) /\ ClientIsTold(a)
      /\ TeardownReached(a) /\ NotLaunched(a)
  BY Parts
<1>3. DockerOK' /\ AttemptsOK'
  BY <1>1, <1>2 DEF DockerOK, AttemptsOK
<1>4. Apart(a) /\ pc'[a] = "done" /\ ~staged'[a]
  BY <1>1, <1>2 DEF Apart, AttemptsOK
<1>5. Sound(a)'
  BY <1>1, <1>2, <1>4 DEF Sound, BoxIsOwn, ClientIsTold, TeardownReached,
                          NotLaunched, Unavailable, Ahead
<1>6. ServerOK' /\ InOrder' /\ VerdictEarned'
  BY <1>1, ErrorReply, EndsInOrder DEF Awaits, Kinds
<1>. QED
  BY <1>1, <1>3, <1>4, <1>5, <1>6, Assembled

(* The wall clock was exceeded: the answer is earned by that alone. *)
LEMMA DeadlineDrainKeepsInv == ASSUME IInv, NEW a \in Ids, DeadlineDrain(a) PROVE IInv'
<1>1. /\ pc[a] = "deadline_drain" /\ Ends(a, Result(a, 124, TRUE))
      /\ pc' = [pc EXCEPT ![a] = "done"] /\ staged' = [staged EXCEPT ![a] = FALSE]
      /\ UNCHANGED <<request, client, asked, box, fate, cancels, crashes>>
  BY DEF DeadlineDrain, docker, Ends
<1>2. /\ ServerOK /\ DockerOK /\ AttemptsOK /\ BoxIsOwn(a) /\ ClientIsTold(a)
      /\ TeardownReached(a) /\ NotLaunched(a)
  BY Parts
<1>3. DockerOK' /\ AttemptsOK'
  BY <1>1, <1>2 DEF DockerOK, AttemptsOK
<1>4. Apart(a) /\ pc'[a] = "done" /\ ~staged'[a]
  BY <1>1, <1>2 DEF Apart, AttemptsOK
<1>5. Sound(a)'
  <2>1. BoxIsOwn(a)' /\ NotLaunched(a)'
    BY <1>1, <1>2, <1>4 DEF BoxIsOwn, NotLaunched, Unavailable, ClientIsTold, Ahead
  <2>2. ClientIsTold(a)'
    BY <1>1, <1>2, <1>4 DEF ClientIsTold, BoxIsOwn, Ahead
  <2>3. TeardownReached(a)'
    BY <1>1, <1>2, <1>4 DEF TeardownReached, ClientIsTold, BoxIsOwn, Ahead
  <2>. QED
    BY <2>1, <2>2, <2>3 DEF Sound
<1>6. ServerOK' /\ InOrder' /\ VerdictEarned'
  <2>. DEFINE reply == Result(a, 124, TRUE)
  <2>1. ReplyOf(a, reply) /\ reply.value.wall_clock_exceeded
    <3>1. 124 \in Int /\ TRUE \in BOOLEAN
      OBVIOUS
    <3>. QED
      BY Zenon, <3>1, ResultReply
  <2>. HIDE DEF reply
  <2>2. Ends(a, reply)
    BY <1>1 DEF reply
  <2>3. Earned(a, reply.value)'
    BY <1>1, <1>2, <1>4, <2>1 DEF Earned, NotLaunched, Unavailable, reply
  <2>. QED
    BY <1>1, <2>1, <2>2, <2>3, EndsInOrder DEF Awaits
<1>. QED
  BY <1>1, <1>3, <1>4, <1>5, <1>6, Assembled

(* A client that ended answers with what its program did, unless a failed     *)
(* launch is told apart - which takes the words of its failure.               *)
LEMMA DrainKeepsInv == ASSUME IInv, NEW a \in Ids, Drain(a) PROVE IInv'
<1>0. PICK reply : reply = VerdictOf(a, client[a].rc, client'[a].text)
  OBVIOUS
<1>1. /\ pc[a] = "drain" /\ Ends(a, reply)
      /\ client' = client \/ client' = [client EXCEPT ![a].text = "lost"]
      /\ pc' = [pc EXCEPT ![a] = "done"] /\ staged' = [staged EXCEPT ![a] = FALSE]
      /\ UNCHANGED <<request, asked, box, fate, cancels, crashes>>
  BY <1>0 DEF Drain, Ends
<1>2. /\ ServerOK /\ DockerOK /\ AttemptsOK /\ BoxIsOwn(a) /\ ClientIsTold(a)
      /\ TeardownReached(a) /\ NotLaunched(a)
  BY Parts
<1>3. /\ client'[a].state = "ended" /\ client'[a].rc = client[a].rc
      /\ client'[a].text \in {client[a].text, "lost"}
      /\ \A b \in Ids : b # a => client'[b] = client[b] /\ fate'[b] = fate[b]
      /\ client[a].rc \in Int /\ client[a].state = "ended" /\ client[a].text \in Texts
  <2>1. client[a].state = "ended"
    BY <1>1, <1>2 DEF ClientIsTold
  <2>2. client[a].rc \in Int /\ client[a].text \in Texts
    BY <1>2 DEF DockerOK, ExitCodes
  <2>3. CASE client' = client
    BY <1>1, <2>1, <2>2, <2>3
  <2>4. CASE client' = [client EXCEPT ![a].text = "lost"]
    BY <1>1, <1>2, <2>1, <2>2, <2>4 DEF DockerOK
  <2>. QED
    BY <1>1, <2>3, <2>4
<1>4. DockerOK' /\ AttemptsOK'
  <2>1. AttemptsOK'
    BY <1>1, <1>2 DEF AttemptsOK
  <2>2. DockerOK'
    BY <1>1, <1>2 DEF DockerOK, Texts
  <2>. QED
    BY <2>1, <2>2
<1>5. Apart(a) /\ pc'[a] = "done" /\ ~staged'[a]
  BY <1>1, <1>2, <1>3 DEF Apart, AttemptsOK
<1>6. Sound(a)'
  <2>1. BoxIsOwn(a)' /\ NotLaunched(a)'
    BY <1>1, <1>2, <1>3, <1>5 DEF BoxIsOwn, NotLaunched, Unavailable, ClientIsTold, Ahead
  <2>2. ClientIsTold(a)'
    BY <1>1, <1>2, <1>3, <1>5 DEF ClientIsTold, BoxIsOwn, Ahead
  <2>3. TeardownReached(a)'
    BY <1>1, <1>2, <1>3, <1>5 DEF TeardownReached, ClientIsTold, BoxIsOwn, Ahead
  <2>. QED
    BY <2>1, <2>2, <2>3 DEF Sound
<1>7. /\ ReplyOf(a, reply)
      /\ reply.kind = "result" =>
           /\ reply.value.exit_code = client[a].rc
           /\ client[a].rc \notin LaunchCodes \/ client'[a].text \in {"plain", "lost"}
  <2>1. CASE client[a].rc \notin LaunchCodes \/ client'[a].text \in {"plain", "lost"}
    <3>1. reply = Result(a, client[a].rc, FALSE)
      BY Zenon, <1>0, <2>1 DEF VerdictOf
    <3>2. FALSE \in BOOLEAN
      OBVIOUS
    <3>3. ReplyOf(a, reply) /\ reply.value.exit_code = client[a].rc
      BY Zenon, <1>3, <3>1, <3>2, ResultReply
    <3>. QED
      BY <2>1, <3>3
  <2>2. CASE /\ client[a].rc \in LaunchCodes /\ client'[a].text \notin {"plain", "lost"}
             /\ client'[a].text = "launch_named"
    <3>1. reply = Error(a, "SandboxPolicyViolation")
      BY <1>0, <2>2 DEF VerdictOf
    <3>. QED
      BY <3>1, ErrorReply DEF Kinds
  <2>3. CASE /\ client[a].rc \in LaunchCodes /\ client'[a].text \notin {"plain", "lost"}
             /\ client'[a].text = "launch"
    <3>1. reply = Error(a, "SandboxInfraError")
      BY <1>0, <2>3 DEF VerdictOf
    <3>. QED
      BY <3>1, ErrorReply DEF Kinds
  <2>. QED
    BY <1>3, <2>1, <2>2, <2>3 DEF Texts
<1>8. reply.kind = "result" => Earned(a, reply.value)'
  <2>. SUFFICES ASSUME reply.kind = "result" PROVE Earned(a, reply.value)'
    OBVIOUS
  <2>1. fate[a] = "ended" \/ (client'[a].text = "lost" /\ client'[a].rc \in LaunchCodes)
    BY <1>1, <1>2, <1>3, <1>7 DEF ClientIsTold, DockerOK
  <2>2. fate'[a] = "ended" \/ (client'[a].text = "lost" /\ client'[a].rc \in LaunchCodes)
    BY <1>1, <2>1
  <2>3. ~Unavailable'
    BY <1>1, <1>2 DEF NotLaunched, Unavailable
  <2>. QED
    BY <1>3, <1>5, <1>7, <2>2, <2>3 DEF Earned
<1>9. ServerOK' /\ InOrder' /\ VerdictEarned'
  <2>1. pc[a] \in Awaits
    BY <1>1 DEF Awaits
  <2>2. \A b \in Ids : b # a => client'[b] = client[b] /\ fate'[b] = fate[b]
    BY <1>3
  <2>. QED
    BY <1>1, <1>7, <1>8, <2>1, <2>2, EndsInOrder
<1>. QED
  BY <1>1, <1>4, <1>5, <1>6, <1>9, Assembled

(* The teardown at the deadline. *)
LEMMA DeadlineKillKeepsInv == ASSUME IInv, NEW a \in Ids, DeadlineKill(a) PROVE IInv'
<1>1. /\ pc[a] = "deadline_kill" /\ Kill(a) /\ pc' = [pc EXCEPT ![a] = "deadline_drain"]
      /\ UNCHANGED <<request, server, verdict, staged, cancels, crashes>>
  BY DEF DeadlineKill
<1>2. /\ ServerOK /\ DockerOK /\ AttemptsOK /\ BoxIsOwn(a) /\ ClientIsTold(a)
      /\ TeardownReached(a) /\ NotLaunched(a)
  BY Parts
<1>3. /\ DockerOK' /\ asked' = asked
      /\ \A b \in Ids : b # a =>
           client'[b] = client[b] /\ fate'[b] = fate[b] /\ box'[b] = box[b]
      /\ \/ /\ box'[a].owner = box[a].owner /\ fate'[a] = fate[a] /\ client'[a] = client[a]
            /\ box'[a].owner = a => box'[a].spared
         \/ /\ box[a].owner = a /\ box'[a].owner = 0 /\ fate'[a] = "removed"
            /\ IF client[a].state = "live" THEN client'[a].state = "ended"
               ELSE client'[a] = client[a]
  BY <1>1, <1>2, KillDoes
<1>4. ServerOK' /\ AttemptsOK'
  BY <1>1, <1>2 DEF ServerOK, AttemptsOK, Awaits
<1>5. Apart(a) /\ pc'[a] = "deadline_drain" /\ a # 0
  BY <1>1, <1>2, <1>3, Parts DEF Apart, AttemptsOK
<1>6. Sound(a)'
  <2>1. BoxIsOwn(a)' /\ NotLaunched(a)'
    BY <1>1, <1>2, <1>3, <1>5 DEF BoxIsOwn, NotLaunched, Unavailable, ClientIsTold, Ahead
  <2>2. ClientIsTold(a)'
    BY <1>1, <1>2, <1>3, <1>5 DEF ClientIsTold, BoxIsOwn, Ahead
  <2>3. TeardownReached(a)'
    BY <1>1, <1>2, <1>3, <1>5 DEF TeardownReached, ClientIsTold, BoxIsOwn, Ahead
  <2>. QED
    BY <2>1, <2>2, <2>3 DEF Sound
<1>7. InOrder' /\ VerdictEarned'
  BY <1>1, <1>3, StaysInOrder DEF Awaits
<1>. QED
  BY <1>1, <1>3, <1>4, <1>5, <1>6, <1>7, Assembled

(* The two teardowns of a cancelled attempt. *)
LEMMA InnerKillKeepsInv == ASSUME IInv, NEW a \in Ids, InnerKill(a) PROVE IInv'
<1>1. /\ pc[a] = "inner_kill" /\ Kill(a) /\ pc' = [pc EXCEPT ![a] = "outer_kill"]
      /\ staged' = [staged EXCEPT ![a] = FALSE]
      /\ UNCHANGED <<request, server, verdict, cancels, crashes>>
  BY DEF InnerKill
<1>2. /\ ServerOK /\ DockerOK /\ AttemptsOK /\ BoxIsOwn(a) /\ ClientIsTold(a)
      /\ TeardownReached(a) /\ NotLaunched(a)
  BY Parts
<1>3. /\ DockerOK' /\ asked' = asked
      /\ \A b \in Ids : b # a =>
           client'[b] = client[b] /\ fate'[b] = fate[b] /\ box'[b] = box[b]
      /\ \/ /\ box'[a].owner = box[a].owner /\ fate'[a] = fate[a] /\ client'[a] = client[a]
            /\ box'[a].owner = a => box'[a].spared
         \/ /\ box[a].owner = a /\ box'[a].owner = 0 /\ fate'[a] = "removed"
            /\ IF client[a].state = "live" THEN client'[a].state = "ended"
               ELSE client'[a] = client[a]
  BY <1>1, <1>2, KillDoes
<1>4. ServerOK' /\ AttemptsOK'
  BY <1>1, <1>2 DEF ServerOK, AttemptsOK, Awaits
<1>5. Apart(a) /\ pc'[a] = "outer_kill" /\ ~staged'[a] /\ a # 0
  BY <1>1, <1>2, <1>3, Parts DEF Apart, AttemptsOK
<1>6. Sound(a)'
  <2>1. BoxIsOwn(a)' /\ NotLaunched(a)'
    BY <1>1, <1>2, <1>3, <1>5 DEF BoxIsOwn, NotLaunched, Unavailable, ClientIsTold, Ahead
  <2>2. ClientIsTold(a)'
    BY <1>1, <1>2, <1>3, <1>5 DEF ClientIsTold, BoxIsOwn, Ahead
  <2>3. TeardownReached(a)'
    BY <1>1, <1>2, <1>3, <1>5 DEF TeardownReached, ClientIsTold, BoxIsOwn, Ahead
  <2>. QED
    BY <2>1, <2>2, <2>3 DEF Sound
<1>7. InOrder' /\ VerdictEarned'
  BY <1>1, <1>3, StaysInOrder DEF Awaits
<1>. QED
  BY <1>1, <1>3, <1>4, <1>5, <1>6, <1>7, Assembled

LEMMA OuterKillKeepsInv == ASSUME IInv, NEW a \in Ids, OuterKill(a) PROVE IInv'
<1>1. /\ pc[a] = "outer_kill" /\ Kill(a) /\ Ends(a, Error(a, "CancelledError"))
      /\ pc' = [pc EXCEPT ![a] = "done"] /\ staged' = [staged EXCEPT ![a] = FALSE]
      /\ UNCHANGED <<request, cancels, crashes>>
  BY DEF OuterKill, Ends
<1>2. /\ ServerOK /\ DockerOK /\ AttemptsOK /\ BoxIsOwn(a) /\ ClientIsTold(a)
      /\ TeardownReached(a) /\ NotLaunched(a)
  BY Parts
<1>3. /\ DockerOK' /\ asked' = asked
      /\ \A b \in Ids : b # a =>
           client'[b] = client[b] /\ fate'[b] = fate[b] /\ box'[b] = box[b]
      /\ \/ /\ box'[a].owner = box[a].owner /\ fate'[a] = fate[a] /\ client'[a] = client[a]
            /\ box'[a].owner = a => box'[a].spared
         \/ /\ box[a].owner = a /\ box'[a].owner = 0 /\ fate'[a] = "removed"
            /\ IF client[a].state = "live" THEN client'[a].state = "ended"
               ELSE client'[a] = client[a]
  BY <1>1, <1>2, KillDoes
<1>4. AttemptsOK'
  BY <1>1, <1>2 DEF AttemptsOK
<1>5. Apart(a) /\ pc'[a] = "done" /\ ~staged'[a] /\ a # 0
  BY <1>1, <1>2, <1>3, Parts DEF Apart, AttemptsOK
<1>6. Sound(a)'
  <2>1. BoxIsOwn(a)' /\ NotLaunched(a)'
    BY <1>1, <1>2, <1>3, <1>5 DEF BoxIsOwn, NotLaunched, Unavailable, ClientIsTold, Ahead
  <2>2. ClientIsTold(a)'
    BY <1>1, <1>2, <1>3, <1>5 DEF ClientIsTold, BoxIsOwn, Ahead
  <2>3. TeardownReached(a)'
    BY <1>1, <1>2, <1>3, <1>5 DEF TeardownReached, ClientIsTold, BoxIsOwn, Ahead
  <2>. QED
    BY <2>1, <2>2, <2>3 DEF Sound
<1>7. ServerOK' /\ InOrder' /\ VerdictEarned'
  BY <1>1, <1>3, ErrorReply, EndsInOrder DEF Awaits, Kinds
<1>. QED
  BY <1>1, <1>3, <1>4, <1>5, <1>6, <1>7, Assembled

(* A teardown whose `docker rm -f` cannot be started ends the attempt. *)
LEMMA KillBreaksKeepsInv == ASSUME IInv, NEW a \in Ids, KillBreaks(a) PROVE IInv'
<1>1. /\ pc[a] \in {"deadline_kill", "inner_kill", "outer_kill"}
      /\ Spare(Name(a)) /\ Ends(a, Error(a, "OSError"))
      /\ pc' = [pc EXCEPT ![a] = "done"] /\ staged' = [staged EXCEPT ![a] = FALSE]
      /\ UNCHANGED <<request, cancels, crashes>>
  BY DEF KillBreaks, Ends
<1>2. /\ ServerOK /\ DockerOK /\ AttemptsOK /\ BoxIsOwn(a) /\ ClientIsTold(a)
      /\ TeardownReached(a) /\ NotLaunched(a)
  BY Parts
<1>3. /\ DockerOK' /\ asked' = asked
      /\ \A b \in Ids : b # a =>
           client'[b] = client[b] /\ fate'[b] = fate[b] /\ box'[b] = box[b]
      /\ box'[a].owner = box[a].owner /\ fate'[a] = fate[a] /\ client'[a] = client[a]
      /\ box'[a].owner = a => box'[a].spared
  BY <1>1, <1>2, SpareDoes
<1>4. AttemptsOK'
  BY <1>1, <1>2 DEF AttemptsOK
<1>5. Apart(a) /\ pc'[a] = "done" /\ ~staged'[a] /\ a # 0
  BY <1>1, <1>2, <1>3, Parts DEF Apart, AttemptsOK
<1>6. Sound(a)'
  <2>1. BoxIsOwn(a)' /\ NotLaunched(a)'
    BY <1>1, <1>2, <1>3, <1>5 DEF BoxIsOwn, NotLaunched, Unavailable
  <2>2. ClientIsTold(a)'
    BY <1>1, <1>2, <1>3, <1>5 DEF ClientIsTold, BoxIsOwn, Ahead
  <2>3. TeardownReached(a)'
    BY <1>1, <1>2, <1>3, <1>5 DEF TeardownReached, BoxIsOwn
  <2>. QED
    BY <2>1, <2>2, <2>3 DEF Sound
<1>7. ServerOK' /\ InOrder' /\ VerdictEarned'
  BY <1>1, <1>3, ErrorReply, EndsInOrder DEF Awaits, Kinds
<1>. QED
  BY <1>1, <1>3, <1>4, <1>5, <1>6, <1>7, Assembled

(* A worker that dies leaves its container to nobody. *)
LEMMA CrashKeepsInv == ASSUME IInv, NEW a \in Ids, Crash(a) PROVE IInv'
<1>1. /\ pc[a] \in Awaits /\ crashes < MaxCrashes /\ crashes' = crashes + 1
      /\ pc' = [pc EXCEPT ![a] = "crashed"] /\ client' = [client EXCEPT ![a].state = "gone"]
      /\ asked' = asked \/ asked' = [asked EXCEPT ![a] = FALSE]
      /\ UNCHANGED <<request, server, verdict, staged, box, fate, cancels>>
  BY DEF Crash
<1>2. /\ ServerOK /\ DockerOK /\ AttemptsOK /\ BoxIsOwn(a) /\ ClientIsTold(a)
      /\ TeardownReached(a) /\ NotLaunched(a)
  BY Parts
<1>3. ServerOK' /\ DockerOK' /\ AttemptsOK'
  <2>1. ServerOK'
    BY <1>1, <1>2 DEF ServerOK
  <2>2. crashes' \in 0..MaxCrashes
    BY <1>1, <1>2, BoundsAssumption DEF AttemptsOK
  <2>3. DockerOK'
    <3>1. asked' \in [Ids -> BOOLEAN]
      BY <1>1, <1>2 DEF DockerOK
    <3>2. client' \in [Ids -> [state : {"none", "live", "ended", "gone"},
                              rc : ExitCodes, text : Texts]]
      BY <1>1, <1>2 DEF DockerOK
    <3>. QED
      BY <1>1, <1>2, <3>1, <3>2 DEF DockerOK
  <2>. QED
    BY <1>1, <1>2, <2>1, <2>2, <2>3 DEF AttemptsOK
<1>4. /\ pc'[a] = "crashed" /\ client'[a].state = "gone"
      /\ asked'[a] => asked[a]
      /\ \A b \in Ids : b # a => client'[b] = client[b] /\ fate'[b] = fate[b]
  BY <1>1, <1>2 DEF AttemptsOK, DockerOK
<1>5. Apart(a)
  BY <1>1, <1>2 DEF Apart, AttemptsOK, DockerOK
<1>6. Sound(a)'
  <2>1. BoxIsOwn(a)'
    BY <1>1, <1>2 DEF BoxIsOwn
  <2>2. ClientIsTold(a)'
    BY <1>1, <1>2, <1>4 DEF ClientIsTold, Ahead
  <2>3. TeardownReached(a)'
    BY <1>1, <1>2, <1>4 DEF TeardownReached
  <2>4. NotLaunched(a)'
    BY <1>1, <1>2, <1>4 DEF NotLaunched, Unavailable, Awaits
  <2>. QED
    BY <2>1, <2>2, <2>3, <2>4 DEF Sound
<1>7. InOrder' /\ VerdictEarned'
  BY <1>1, <1>4, StaysInOrder
<1>. QED
  BY <1>1, <1>3, <1>5, <1>6, <1>7, Assembled

(* What a cancellation does to the container: nothing, a `docker rm` under way *)
(* gets through, or a client has already asked for the container.             *)
LEMMA CancelDocker ==
  ASSUME IInv, NEW a \in Ids, Cancel(a)
  PROVE  /\ DockerOK'
         /\ \A b \in Ids : b # a => /\ client'[b] = client[b] /\ asked'[b] = asked[b]
                                   /\ fate'[b] = fate[b] /\ box'[b] = box[b]
         /\ \/ /\ client'[a] = client[a] /\ asked'[a] = asked[a]
               /\ fate'[a] = fate[a] /\ box'[a] = box[a]
            \/ /\ pc[a] \in {"deadline_kill", "inner_kill", "outer_kill"}
               /\ box[a].owner = a /\ box'[a].owner = 0 /\ fate'[a] = "removed"
               /\ asked'[a] = asked[a]
               /\ IF client[a].state = "live" THEN client'[a].state = "ended"
                  ELSE client'[a] = client[a]
            \/ /\ pc[a] = "spawn" /\ asked'[a] = TRUE /\ client'[a].state = "gone"
               /\ fate'[a] = fate[a] /\ box'[a] = box[a]
<1>1. DockerOK /\ BoxIsOwn(a)
  BY Parts
<1>2. CASE UNCHANGED docker
  BY <1>1, <1>2 DEF docker, DockerOK
<1>3. CASE pc[a] \in {"deadline_kill", "inner_kill", "outer_kill"} /\ Remove(Name(a))
  <2>1. /\ DockerOK' /\ asked' = asked
        /\ \A b \in Ids : b # a =>
             client'[b] = client[b] /\ fate'[b] = fate[b] /\ box'[b] = box[b]
        /\ \/ box[a].owner = 0 /\ UNCHANGED <<client, box, fate>>
           \/ /\ box[a].owner = a /\ box'[a].owner = 0 /\ fate'[a] = "removed"
              /\ IF client[a].state = "live" THEN client'[a].state = "ended"
                 ELSE client'[a] = client[a]
    BY <1>1, <1>3, RemoveDoes
  <2>. QED
    BY <1>3, <2>1
<1>4. CASE /\ pc[a] = "spawn" /\ asked' = [asked EXCEPT ![a] = TRUE]
           /\ client' = [client EXCEPT ![a].state = "gone"] /\ UNCHANGED <<box, fate>>
  BY <1>1, <1>4 DEF DockerOK
<1>. QED
  BY <1>2, <1>3, <1>4 DEF Cancel

(* A cancellation leads to a teardown, or cuts the last one short. *)
LEMMA CancelKeepsInv == ASSUME IInv, NEW a \in Ids, Cancel(a) PROVE IInv'
<1>1. /\ pc[a] \in Awaits /\ cancels[a] < MaxCancels
      /\ cancels' = [cancels EXCEPT ![a] = cancels[a] + 1]
      /\ UNCHANGED <<request, crashes>>
  BY DEF Cancel
<1>2. /\ ServerOK /\ DockerOK /\ AttemptsOK /\ BoxIsOwn(a) /\ ClientIsTold(a)
      /\ TeardownReached(a) /\ NotLaunched(a)
  BY Parts
<1>3. /\ DockerOK'
      /\ \A b \in Ids : b # a => /\ client'[b] = client[b] /\ asked'[b] = asked[b]
                                /\ fate'[b] = fate[b] /\ box'[b] = box[b]
      /\ \/ /\ client'[a] = client[a] /\ asked'[a] = asked[a]
            /\ fate'[a] = fate[a] /\ box'[a] = box[a]
         \/ /\ pc[a] \in {"deadline_kill", "inner_kill", "outer_kill"}
            /\ box[a].owner = a /\ box'[a].owner = 0 /\ fate'[a] = "removed"
            /\ asked'[a] = asked[a]
            /\ IF client[a].state = "live" THEN client'[a].state = "ended"
               ELSE client'[a] = client[a]
         \/ /\ pc[a] = "spawn" /\ asked'[a] = TRUE /\ client'[a].state = "gone"
            /\ fate'[a] = fate[a] /\ box'[a] = box[a]
  BY CancelDocker
<1>4. /\ cancels[a] \in Nat /\ cancels'[a] = cancels[a] + 1 /\ a # 0
      /\ cancels' \in [Ids -> 0..MaxCancels]
  BY <1>1, <1>2, BoundsAssumption, Parts DEF AttemptsOK
<1>5. CASE pc[a] \in {"watch", "deadline_kill", "deadline_drain"}
  <2>1. pc' = [pc EXCEPT ![a] = "inner_kill"] /\ UNCHANGED <<staged, server, verdict>>
    BY <1>5 DEF Cancel, AfterCancel
  <2>2. ServerOK' /\ AttemptsOK'
    BY <1>1, <1>2, <1>4, <2>1 DEF ServerOK, AttemptsOK, Awaits
  <2>3. Apart(a) /\ pc'[a] = "inner_kill"
    BY <1>1, <1>2, <1>3, <2>1 DEF Apart, AttemptsOK
  <2>4. Sound(a)'
    <3>1. BoxIsOwn(a)' /\ NotLaunched(a)'
      BY <1>1, <1>2, <1>3, <1>4, <1>5, <2>3 DEF BoxIsOwn, NotLaunched, Unavailable
    <3>2. ClientIsTold(a)'
      BY <1>2, <1>3, <1>4, <1>5, <2>3 DEF ClientIsTold, BoxIsOwn, Ahead
    <3>3. TeardownReached(a)'
      BY <1>4, <2>3 DEF TeardownReached
    <3>. QED
      BY <3>1, <3>2, <3>3 DEF Sound
  <2>5. InOrder' /\ VerdictEarned'
    BY <1>1, <1>3, <2>1, StaysInOrder DEF Awaits
  <2>. QED
    BY <1>1, <1>3, <2>2, <2>3, <2>4, <2>5, Assembled
<1>6. CASE pc[a] \in {"preflight", "inspect", "spawn", "drain", "inner_kill"}
  <2>1. /\ pc' = [pc EXCEPT ![a] = "outer_kill"] /\ staged' = [staged EXCEPT ![a] = FALSE]
        /\ UNCHANGED <<server, verdict>>
    BY <1>6 DEF Cancel, AfterCancel
  <2>2. ServerOK' /\ AttemptsOK'
    BY <1>1, <1>2, <1>4, <2>1 DEF ServerOK, AttemptsOK, Awaits
  <2>3. Apart(a) /\ pc'[a] = "outer_kill" /\ ~staged'[a]
    BY <1>1, <1>2, <1>3, <2>1 DEF Apart, AttemptsOK
  <2>4. Sound(a)'
    <3>1. BoxIsOwn(a)' /\ NotLaunched(a)'
      BY <1>1, <1>2, <1>3, <1>4, <1>6, <2>3 DEF BoxIsOwn, NotLaunched, Unavailable
    <3>2. ClientIsTold(a)'
      BY <1>2, <1>3, <1>4, <1>6, <2>3 DEF ClientIsTold, BoxIsOwn, Ahead
    <3>3. TeardownReached(a)'
      BY <1>2, <1>3, <1>4, <1>6, <2>3 DEF TeardownReached, ClientIsTold, BoxIsOwn, Ahead
    <3>. QED
      BY <3>1, <3>2, <3>3 DEF Sound
  <2>5. InOrder' /\ VerdictEarned'
    BY <1>1, <1>3, <2>1, StaysInOrder DEF Awaits
  <2>. QED
    BY <1>1, <1>3, <2>2, <2>3, <2>4, <2>5, Assembled
<1>7. CASE pc[a] = "outer_kill"
  <2>1. Ends(a, Error(a, "CancelledError"))
    BY <1>7 DEF Cancel, AfterCancel
  <2>2. pc' = [pc EXCEPT ![a] = "done"] /\ staged' = [staged EXCEPT ![a] = FALSE]
    BY <2>1 DEF Ends
  <2>3. AttemptsOK'
    BY <1>1, <1>2, <1>4, <2>2 DEF AttemptsOK
  <2>4. Apart(a) /\ pc'[a] = "done" /\ ~staged'[a]
    BY <1>1, <1>2, <1>3, <2>2 DEF Apart, AttemptsOK
  <2>5. Sound(a)'
    <3>1. BoxIsOwn(a)' /\ NotLaunched(a)'
      BY <1>1, <1>2, <1>3, <1>4, <1>7, <2>4 DEF BoxIsOwn, NotLaunched, Unavailable
    <3>2. ClientIsTold(a)'
      BY <1>2, <1>3, <1>4, <1>7, <2>4 DEF ClientIsTold, BoxIsOwn, Ahead
    <3>3. TeardownReached(a)'
      BY <1>2, <1>3, <1>4, <1>7, <2>4 DEF TeardownReached, BoxIsOwn
    <3>. QED
      BY <3>1, <3>2, <3>3 DEF Sound
  <2>6. ServerOK' /\ InOrder' /\ VerdictEarned'
    BY <1>1, <1>3, <2>1, ErrorReply, EndsInOrder DEF Kinds
  <2>. QED
    BY <1>1, <1>3, <2>3, <2>4, <2>5, <2>6, Assembled
<1>. QED
  BY <1>1, <1>5, <1>6, <1>7 DEF Awaits

(* The end of a client, if it lives. *)
LEMMA ClientEndsDoes ==
  ASSUME DockerOK, NEW a \in Ids, NEW rc \in ExitCodes, NEW text \in Texts, ClientEnds(a, rc, text)
  PROVE  /\ client' \in [Ids -> [state : {"none", "live", "ended", "gone"},
                                 rc : ExitCodes, text : Texts]]
         /\ \A b \in Ids : b # a => client'[b] = client[b]
         /\ IF client[a].state = "live"
            THEN client'[a].state = "ended" /\ client'[a].rc = rc /\ client'[a].text = text
            ELSE client'[a] = client[a]
<1>. DEFINE over == [state |-> "ended", rc |-> rc, text |-> text]
<1>1. client' = IF client[a].state = "live" THEN [client EXCEPT ![a] = over] ELSE client
  BY DEF ClientEnds
<1>2. /\ over \in [state : {"none", "live", "ended", "gone"}, rc : ExitCodes, text : Texts]
      /\ over.state = "ended" /\ over.rc = rc /\ over.text = text
  OBVIOUS
<1>. HIDE DEF over
<1>. QED
  BY <1>1, <1>2 DEF DockerOK

(* The daemon acts on a request: it creates the container, for the name is    *)
(* the attempt's own.                                                         *)
LEMMA CreateKeepsInv == ASSUME IInv, NEW a \in Ids, Create(a) PROVE IInv'
<1>. DEFINE late == pc[a] \in {"deadline_drain", "outer_kill", "done", "crashed"}
<1>1. /\ asked[a] /\ asked' = [asked EXCEPT ![a] = FALSE]
      /\ IF box[a].owner = 0
         THEN /\ box' = [box EXCEPT ![a] = [owner |-> a, spared |-> late]]
              /\ fate' = [fate EXCEPT ![a] = "running"] /\ client' = client
         ELSE ClientEnds(a, 125, "launch") /\ box' = box /\ fate' = fate
      /\ UNCHANGED <<request, server, verdict, pc, staged, cancels, crashes>>
  BY DEF Create, Name
<1>2. /\ ServerOK /\ DockerOK /\ AttemptsOK /\ BoxIsOwn(a) /\ ClientIsTold(a)
      /\ TeardownReached(a) /\ NotLaunched(a)
  BY Parts
<1>3. late \in BOOLEAN /\ (pc[a] \in {"deadline_drain", "outer_kill", "done", "crashed"} => late)
  OBVIOUS
<1>. HIDE DEF late
<1>4. box[a].owner = 0 /\ client[a].state \in {"live", "gone"} /\ fate[a] = "none" /\ a # 0
  BY <1>1, <1>2, Parts DEF ClientIsTold, BoxIsOwn
<1>5. ServerOK' /\ AttemptsOK'
  BY <1>1, <1>2 DEF ServerOK, AttemptsOK
<1>6. DockerOK'
  <2>1. [owner |-> a, spared |-> late] \in [owner : 0..MaxAttempts, spared : BOOLEAN]
    BY <1>3, MaxAttemptsAssumption DEF Ids
  <2>2. /\ box' = [box EXCEPT ![a] = [owner |-> a, spared |-> late]] /\ client' = client
        /\ asked' = [asked EXCEPT ![a] = FALSE] /\ fate' = [fate EXCEPT ![a] = "running"]
    BY <1>1, <1>4
  <2>3. box' \in [Ids -> [owner : 0..MaxAttempts, spared : BOOLEAN]]
    BY <1>2, <2>1, <2>2 DEF DockerOK
  <2>4. /\ asked' \in [Ids -> BOOLEAN] /\ client' = client
        /\ fate' \in [Ids -> {"none", "running", "ended", "removed"}]
    BY <1>2, <2>2 DEF DockerOK
  <2>. QED
    BY <1>2, <2>3, <2>4 DEF DockerOK
<1>7. /\ box'[a].owner = a /\ box'[a].spared = late /\ fate'[a] = "running"
      /\ asked'[a] = FALSE /\ client' = client
      /\ \A b \in Ids : b # a => client'[b] = client[b] /\ fate'[b] = fate[b]
  BY <1>1, <1>2, <1>4 DEF DockerOK
<1>8. Apart(a)
  BY <1>1, <1>2, <1>4 DEF Apart, DockerOK
<1>9. Sound(a)'
  <2>1. BoxIsOwn(a)' /\ NotLaunched(a)'
    BY <1>1, <1>2, <1>4, <1>7 DEF BoxIsOwn, NotLaunched, Unavailable
  <2>2. ClientIsTold(a)'
    BY <1>1, <1>2, <1>4, <1>7 DEF ClientIsTold, Ahead
  <2>3. TeardownReached(a)'
    <3>1. pc[a] \in Awaits \cup {"idle", "done", "crashed"}
      BY <1>2 DEF AttemptsOK
    <3>2. pc[a] \notin Ahead \cup {"drain"}
      BY <1>1, <1>2, <1>4 DEF ClientIsTold
    <3>3. pc[a] \in {"watch", "deadline_kill", "inner_kill", "crashed"} \/ late
      BY <1>3, <3>1, <3>2 DEF Awaits, Ahead
    <3>. QED
      BY <1>1, <1>2, <1>7, <3>3 DEF TeardownReached
  <2>. QED
    BY <2>1, <2>2, <2>3 DEF Sound
<1>10. InOrder' /\ VerdictEarned'
  BY <1>1, <1>4, <1>7, DockerInOrder
<1>. QED
  BY <1>1, <1>5, <1>6, <1>8, <1>9, <1>10, Assembled

(* A launch that fails leaves its words, if anybody listens. *)
LEMMA RefuseKeepsInv == ASSUME IInv, NEW a \in Ids, Refuse(a) PROVE IInv'
<1>1. PICK text \in {"launch", "launch_named"} : ClientEnds(a, 125, text)
  BY DEF Refuse
<1>2. /\ ServerOK /\ DockerOK /\ AttemptsOK /\ BoxIsOwn(a) /\ ClientIsTold(a)
      /\ TeardownReached(a) /\ NotLaunched(a)
  BY Parts
<1>3. /\ asked[a] /\ asked' = [asked EXCEPT ![a] = FALSE]
      /\ UNCHANGED <<request, server, verdict, pc, staged, box, fate, cancels, crashes>>
  BY DEF Refuse
<1>4. client[a].state \in {"live", "gone"} /\ fate[a] = "none"
  BY <1>2, <1>3 DEF ClientIsTold
<1>5. /\ client' \in [Ids -> [state : {"none", "live", "ended", "gone"},
                              rc : ExitCodes, text : Texts]]
      /\ \A b \in Ids : b # a => client'[b] = client[b]
      /\ IF client[a].state = "live"
         THEN client'[a].state = "ended" /\ client'[a].rc = 125 /\ client'[a].text = text
         ELSE client'[a] = client[a]
  BY <1>1, <1>2, ClientEndsDoes DEF ExitCodes, Texts
<1>6. ServerOK' /\ DockerOK' /\ AttemptsOK'
  BY <1>2, <1>3, <1>5 DEF ServerOK, DockerOK, AttemptsOK
<1>7. Apart(a) /\ asked'[a] = FALSE
  BY <1>2, <1>3, <1>5 DEF Apart, DockerOK
<1>8. Sound(a)'
  <2>1. BoxIsOwn(a)' /\ NotLaunched(a)'
    BY <1>2, <1>3, <1>7 DEF BoxIsOwn, NotLaunched, Unavailable
  <2>2. ClientIsTold(a)'
    BY <1>1, <1>2, <1>3, <1>4, <1>5, <1>7 DEF ClientIsTold, Ahead, LaunchCodes
  <2>3. TeardownReached(a)'
    BY <1>2, <1>3 DEF TeardownReached
  <2>. QED
    BY <2>1, <2>2, <2>3 DEF Sound
<1>9. InOrder' /\ VerdictEarned'
  BY <1>3, <1>4, <1>5, DockerInOrder
<1>. QED
  BY <1>3, <1>6, <1>7, <1>8, <1>9, Assembled

(* A program that ends takes its container with it. *)
LEMMA ProgramEndsKeepsInv == ASSUME IInv, NEW a \in Ids, ProgramEnds(a) PROVE IInv'
<1>1. PICK rc \in ExitCodes, text \in {"plain", "launch", "launch_named"} : ClientEnds(a, rc, text)
  BY DEF ProgramEnds
<1>2. /\ ServerOK /\ DockerOK /\ AttemptsOK /\ BoxIsOwn(a) /\ ClientIsTold(a)
      /\ TeardownReached(a) /\ NotLaunched(a)
  BY Parts
<1>3. /\ box[a].owner = a /\ box' = [box EXCEPT ![a] = NoBox]
      /\ fate' = [fate EXCEPT ![a] = "ended"]
      /\ UNCHANGED <<request, server, verdict, pc, staged, asked, cancels, crashes>>
  BY DEF ProgramEnds, Name
<1>4. client[a].state # "ended" /\ fate[a] = "running" /\ a # 0
  BY <1>2, <1>3, Parts DEF ClientIsTold, BoxIsOwn
<1>5. /\ client' \in [Ids -> [state : {"none", "live", "ended", "gone"},
                              rc : ExitCodes, text : Texts]]
      /\ \A b \in Ids : b # a => client'[b] = client[b]
      /\ IF client[a].state = "live"
         THEN client'[a].state = "ended" /\ client'[a].rc = rc /\ client'[a].text = text
         ELSE client'[a] = client[a]
  BY <1>1, <1>2, ClientEndsDoes DEF Texts
<1>6. NoBox \in [owner : 0..MaxAttempts, spared : BOOLEAN] /\ NoBox.owner = 0
  BY MaxAttemptsAssumption DEF NoBox
<1>7. ServerOK' /\ DockerOK' /\ AttemptsOK'
  BY <1>2, <1>3, <1>5, <1>6 DEF ServerOK, DockerOK, AttemptsOK
<1>8. Apart(a) /\ box'[a].owner = 0 /\ fate'[a] = "ended"
  BY <1>2, <1>3, <1>5, <1>6 DEF Apart, DockerOK
<1>9. Sound(a)'
  <2>1. BoxIsOwn(a)' /\ NotLaunched(a)'
    BY <1>2, <1>3, <1>4, <1>8 DEF BoxIsOwn, NotLaunched, Unavailable
  <2>2. ClientIsTold(a)'
    BY <1>2, <1>3, <1>4, <1>5, <1>8 DEF ClientIsTold, Ahead
  <2>3. TeardownReached(a)'
    BY <1>2, <1>3, <1>4, <1>8 DEF TeardownReached
  <2>. QED
    BY <2>1, <2>2, <2>3 DEF Sound
<1>10. InOrder' /\ VerdictEarned'
  <2>1. \A b \in Ids : b # a => client'[b] = client[b] /\ fate'[b] = fate[b]
    BY <1>5, <1>8 DEF Apart
  <2>. QED
    BY <1>3, <1>4, <2>1, DockerInOrder
<1>. QED
  BY <1>3, <1>7, <1>8, <1>9, <1>10, Assembled

(* The server starts an attempt, or has it refused before it awaits anything. *)
LEMMA StartKeepsInv == ASSUME IInv, NEW a \in Ids, Start(a) PROVE IInv'
<1>1. /\ server = [state |-> "scheduled", attempt |-> a]
      /\ UNCHANGED <<request, client, asked, box, fate, staged, cancels, crashes>>
  BY DEF Start, docker
<1>2. /\ ServerOK /\ DockerOK /\ AttemptsOK /\ BoxIsOwn(a) /\ ClientIsTold(a)
      /\ TeardownReached(a) /\ NotLaunched(a)
  BY Parts
<1>3. /\ pc[a] = "idle" /\ verdict.kind = "none" /\ verdict = NoVerdict
      /\ \A b \in Ids : b > a => pc[b] = "idle"
  BY <1>1, NoVerdictReply DEF IInv, InOrder
<1>4. Ids = 1..MaxAttempts /\ MaxAttempts \in Nat
  BY MaxAttemptsAssumption DEF Ids
<1>5. CASE /\ request.runtime # "other"
           /\ pc' = [pc EXCEPT ![a] = "preflight"]
           /\ server' = [server EXCEPT !.state = "started"] /\ verdict' = verdict
  <2>1. server' = [state |-> "started", attempt |-> a]
    BY <1>1, <1>5
  <2>2. ServerOK' /\ DockerOK' /\ AttemptsOK'
    BY <1>1, <1>2, <1>5, <2>1 DEF ServerOK, DockerOK, AttemptsOK, Awaits
  <2>3. Apart(a) /\ pc'[a] = "preflight"
    BY <1>1, <1>2, <1>5 DEF Apart, AttemptsOK
  <2>4. Sound(a)'
    BY <1>1, <1>2, <1>3, <1>5, <2>3 DEF Sound, BoxIsOwn, ClientIsTold, TeardownReached,
                                       NotLaunched, Unavailable, Ahead
  <2>5. InOrder' /\ VerdictEarned'
    BY <1>1, <1>2, <1>3, <1>4, <1>5, <2>1 DEF InOrder, VerdictEarned, AttemptsOK
  <2>. QED
    BY <1>1, <2>2, <2>3, <2>4, <2>5, Assembled
<1>6. CASE /\ pc' = [pc EXCEPT ![a] = "done"]
           /\ Retries(a, "SandboxPolicyViolation") \/ Retries(a, "PayloadTooLarge")
  <2>1. PICK type \in {"SandboxPolicyViolation", "PayloadTooLarge"} : Retries(a, type)
    BY <1>6
  <2>2. server' = [state |-> "closed", attempt |-> a] /\ verdict' = Error(a, type)
    BY <2>1 DEF Retries, NonRetryable
  <2>3. ReplyOf(a, verdict') /\ verdict'.kind = type
    BY <2>2, ErrorReply DEF Kinds
  <2>4. ServerOK' /\ DockerOK' /\ AttemptsOK'
    BY <1>1, <1>2, <1>4, <1>6, <2>2, <2>3 DEF ServerOK, DockerOK, AttemptsOK, ReplyOf
  <2>5. Apart(a) /\ pc'[a] = "done"
    BY <1>1, <1>2, <1>6 DEF Apart, AttemptsOK
  <2>6. Sound(a)'
    BY <1>1, <1>2, <1>3, <2>5 DEF Sound, BoxIsOwn, ClientIsTold, TeardownReached,
                                 NotLaunched, Unavailable, Ahead
  <2>7. InOrder' /\ VerdictEarned'
    BY <1>1, <1>2, <1>3, <1>4, <1>6, <2>2, <2>3 DEF InOrder, VerdictEarned, ReplyOf, AttemptsOK
  <2>. QED
    BY <1>1, <2>4, <2>5, <2>6, <2>7, Assembled
<1>. QED
  BY <1>5, <1>6 DEF Start

(* The server gives an attempt up, and leaves it running. *)
LEMMA GivesUpKeepsInv == ASSUME IInv, GivesUp PROVE IInv'
<1>. DEFINE a == server.attempt
<1>1. /\ server.state = "started"
      /\ UNCHANGED <<request, pc, staged, client, asked, box, fate, cancels, crashes>>
  BY DEF GivesUp, docker
<1>2. ServerOK /\ DockerOK /\ AttemptsOK /\ a \in Ids /\ request \in AllRequests
  BY Types DEF IInv, ServerOK
<1>3. verdict = NoVerdict /\ verdict.kind = "none" /\ \A b \in Ids : b > a => pc[b] = "idle"
  BY <1>1, NoVerdictReply DEF IInv, InOrder
<1>4. Ids = 1..MaxAttempts /\ MaxAttempts \in Nat
  BY MaxAttemptsAssumption DEF Ids
<1>5. DockerOK' /\ AttemptsOK' /\ request' \in AllRequests
  BY <1>1, <1>2 DEF DockerOK, AttemptsOK
<1>6. ASSUME NEW b \in Ids PROVE Sound(b)'
  BY <1>1, Elsewhere DEF IInv
<1>7. ServerOK' /\ InOrder' /\ VerdictEarned'
  <2>1. CASE server' = [server EXCEPT !.state = "closed"] /\ verdict' = verdict
    BY <1>1, <1>2, <1>3, <2>1 DEF ServerOK, InOrder, VerdictEarned
  <2>2. CASE /\ a < MaxAttempts /\ verdict' = verdict
             /\ server' = [state |-> "scheduled", attempt |-> a + 1]
    BY <1>1, <1>2, <1>3, <1>4, <2>2 DEF ServerOK, InOrder, VerdictEarned
  <2>3. CASE server' = [state |-> "closed", attempt |-> a] /\ verdict' = Error(a, "Timeout")
    <3>1. ReplyOf(a, verdict') /\ verdict'.kind = "Timeout"
      BY <1>2, <2>3, ErrorReply DEF Kinds
    <3>. QED
      BY <1>1, <1>2, <1>3, <1>4, <2>3, <3>1 DEF ServerOK, InOrder, VerdictEarned, ReplyOf
  <2>. QED
    BY <2>1, <2>2, <2>3 DEF GivesUp, Retries
<1>8. TypeOK'
  BY <1>5, <1>7, TypesNext
<1>. QED
  BY <1>6, <1>7, <1>8 DEF IInv

-----------------------------------------------------------------------------
(* The theorems. *)

LEMMA StutterKeepsInv == IInv /\ UNCHANGED vars => IInv'
<1>. SUFFICES ASSUME IInv, UNCHANGED vars PROVE IInv'
  OBVIOUS
<1>1. UNCHANGED <<request, server, verdict, pc, staged, client, asked, box, fate, cancels, crashes>>
  BY DEF vars
<1>2. TypeOK'
  BY <1>1 DEF IInv, TypeOK
<1>3. ASSUME NEW b \in Ids PROVE Sound(b)'
  BY <1>1, Elsewhere DEF IInv
<1>4. InOrder' /\ VerdictEarned'
  BY <1>1 DEF IInv, InOrder, VerdictEarned, Earned, Unavailable
<1>. QED
  BY <1>2, <1>3, <1>4 DEF IInv

LEMMA NextKeepsInv == IInv /\ [Next]_vars => IInv'
<1>. SUFFICES ASSUME IInv, [Next]_vars PROVE IInv'
  OBVIOUS
<1>1. ASSUME NEW a \in Ids, Attempt(a) PROVE IInv'
  BY <1>1, PreflightKeepsInv, StageKeepsInv, LaunchKeepsInv, BreaksKeepsInv,
     LeaveLoopKeepsInv, DrainKeepsInv, DeadlineKillKeepsInv, DeadlineDrainKeepsInv,
     InnerKillKeepsInv, OuterKillKeepsInv, KillBreaksKeepsInv
     DEF Attempt
<1>. QED
  BY <1>1, GivesUpKeepsInv, StartKeepsInv, CancelKeepsInv, CrashKeepsInv, CreateKeepsInv,
     RefuseKeepsInv, ProgramEndsKeepsInv, StutterKeepsInv
     DEF Next

(* What an attempt holds, the daemon owes and the server records go together. *)
THEOREM Inductive == Spec => []IInv
BY InitInv, NextKeepsInv, PTL DEF Spec

(* Attempts are at their awaits, containers are of attempts. *)
THEOREM TypeCorrect == Spec => []TypeOK
<1>1. IInv => TypeOK
  BY DEF IInv
<1>. QED
  BY <1>1, Inductive, PTL

(* preflight and get_runner: a run whose runtime is not there has no code on  *)
(* disk, no container and no result, in any of its attempts.                  *)
THEOREM RunsFailClosed == Spec => []FailsClosed
<1>1. IInv => FailsClosed
  <2>. SUFFICES ASSUME IInv, Unavailable PROVE FailsClosed
    BY DEF FailsClosed
  <2>1. \A a \in Ids : ~staged[a] /\ ~asked[a] /\ box[a].owner = 0
    BY DEF IInv, Sound, NotLaunched
  <2>2. verdict.kind # "result"
    BY DEF IInv, VerdictEarned, Earned
  <2>. QED
    BY <2>1, <2>2 DEF FailsClosed
<1>. QED
  BY <1>1, Inductive, PTL

(* An attempt that is refused before docker was asked to run anything closes  *)
(* the task with its violation.                                               *)
LEMMA RefusalCloses ==
  ASSUME IInv, Next, NEW a \in Ids, Unavailable, request.fits, server.attempt = a,
         server.state # "closed", TurnedAway(a)
  PROVE  server'.state = "closed" /\ verdict'.kind = "SandboxPolicyViolation"
<1>1. /\ pc \in [Ids -> Awaits \cup {"idle", "done", "crashed"}]
      /\ server \in [state : {"scheduled", "started", "closed"}, attempt : Ids]
      /\ pc[a] \in {"idle", "preflight"} /\ pc'[a] = "done" /\ ~Breaks(a)
  BY DEF IInv, TypeOK, TurnedAway
<1>2. PICK b \in Ids : Start(b) \/ Attempt(b) \/ Cancel(b) \/ Crash(b)
  BY <1>1 DEF Next, GivesUp, Create, Refuse, ProgramEnds
<1>3. b = a
  BY <1>1, <1>2 DEF Start, Attempt, Preflight, Stage, Launch, Breaks, Collect, Drain, Deadline,
                    DeadlineKill, DeadlineDrain, InnerKill, OuterKill, KillBreaks, Cancel,
                    Crash, Ends
<1>4. CASE Start(a)
  <2>1. Retries(a, "SandboxPolicyViolation")
    BY <1>1, <1>4 DEF Start
  <2>2. server' = [state |-> "closed", attempt |-> a] /\ verdict' = Error(a, "SandboxPolicyViolation")
    BY <2>1 DEF Retries, NonRetryable
  <2>. QED
    BY <2>2, ErrorReply DEF Kinds
<1>5. CASE Preflight(a)
  <2>1. Answers(a, Error(a, "SandboxPolicyViolation"))
    BY <1>1, <1>5 DEF Preflight, Ends
  <2>2. server = [state |-> "started", attempt |-> a]
    BY <1>1, <1>5 DEF Preflight, IInv, InOrder
  <2>3. Error(a, "SandboxPolicyViolation").kind = "SandboxPolicyViolation"
    BY ErrorReply DEF Kinds
  <2>4. Retries(a, "SandboxPolicyViolation")
    BY <2>1, <2>2, <2>3 DEF Answers
  <2>5. server' = [state |-> "closed", attempt |-> a] /\ verdict' = Error(a, "SandboxPolicyViolation")
    BY <2>4 DEF Retries, NonRetryable
  <2>. QED
    BY <2>3, <2>5
<1>6. ~Cancel(a) /\ ~Crash(a)
  <2>1. Cancel(a) => pc'[a] = "outer_kill"
    BY <1>1 DEF Cancel, AfterCancel, Awaits
  <2>. QED
    BY <1>1, <2>1 DEF Crash
<1>. QED
  BY <1>1, <1>2, <1>3, <1>4, <1>5, <1>6
     DEF Attempt, Stage, Launch, Collect, Drain, Deadline, DeadlineKill, DeadlineDrain,
         InnerKill, OuterKill, KillBreaks

(* policies.py and sandbox.py: a refusal is not retried, whether the activity *)
(* flags it or only the policy's list knows it.                               *)
THEOREM RefusalsStand == Spec => RefusedForGood
<1>1. IInv /\ [Next]_vars =>
        [\A a \in Ids :
           Unavailable /\ request.fits /\ server.attempt = a /\ server.state # "closed"
             /\ TurnedAway(a)
           => server'.state = "closed" /\ verdict'.kind = "SandboxPolicyViolation"]_vars
  BY RefusalCloses
<1>. QED
  BY <1>1, Inductive, PTL DEF Spec, RefusedForGood

(* _classify_infra and the deadline: a result on record was earned by the     *)
(* program of the attempt that answered, however many of them overlapped.     *)
THEOREM ResultsAreEarned == Spec => []ResultIsTheProgramsOwn
<1>1. IInv => ResultIsTheProgramsOwn
  BY DEF IInv, VerdictEarned, Earned, ResultIsTheProgramsOwn
<1>. QED
  BY <1>1, Inductive, PTL

(* What an attempt that is over can have left, however often it was cancelled.*)
LeftOnlyIfCutShort ==
  \A a \in Ids : pc[a] = "done" =>
    /\ ~staged[a]
    /\ \A n \in Ids : box[n].owner = a => box[n].spared \/ cancels[a] >= 3

(* The teardowns of the runner and of the activity leave no container that    *)
(* was there when they began, unless it took three cancellations to end the   *)
(* attempt - the third can cut short the last teardown there is - and never   *)
(* leave the staged code, which is removed without an await.                  *)
THEOREM OnlyThreeCancelsLeave == Spec => []LeftOnlyIfCutShort
<1>1. IInv => LeftOnlyIfCutShort
  <2>. SUFFICES ASSUME IInv, NEW a \in Ids, pc[a] = "done"
                PROVE  /\ ~staged[a]
                       /\ \A n \in Ids : box[n].owner = a => box[n].spared \/ cancels[a] >= 3
    BY DEF LeftOnlyIfCutShort
  <2>1. ~staged[a] /\ (box[a].owner = a => box[a].spared \/ cancels[a] >= 3)
    BY DEF IInv, Sound, TeardownReached
  <2>2. \A n \in Ids : box[n].owner = a => n = a
    BY MaxAttemptsAssumption DEF IInv, Sound, BoxIsOwn, Ids
  <2>. QED
    BY <2>1, <2>2
<1>. QED
  BY <1>1, Inductive, PTL

(* So the server's cancellation and the worker's shutdown, of which an attempt*)
(* meets one each, leave nothing behind.                                      *)
THEOREM AttemptsTearDown == MaxCancels <= 2 => (Spec => []TornDown)
<1>. SUFFICES ASSUME MaxCancels <= 2 PROVE Spec => []TornDown
  OBVIOUS
<1>1. TypeOK /\ LeftOnlyIfCutShort => TornDown
  <2>. SUFFICES ASSUME TypeOK, LeftOnlyIfCutShort, NEW a \in Ids, pc[a] = "done"
                PROVE  ~staged[a] /\ \A n \in Ids : box[n].owner = a => box[n].spared
    BY DEF TornDown
  <2>1. cancels[a] \in 0..MaxCancels /\ MaxCancels \in Nat
    BY BoundsAssumption DEF TypeOK
  <2>. QED
    BY <2>1 DEF LeftOnlyIfCutShort
<1>. QED
  BY <1>1, OnlyThreeCancelsLeave, TypeCorrect, PTL

-----------------------------------------------------------------------------
(* Programs are removed by their own attempt. *)

LEMMA OwnRemoval ==
  ASSUME IInv, Next, NEW a \in Ids, fate[a] # "removed", fate'[a] = "removed"
  PROVE  pc[a] # pc'[a]
<1>0. pc \in [Ids -> Awaits \cup {"idle", "done", "crashed"}] /\ fate \in [Ids -> {"none", "running", "ended", "removed"}]
  BY DEF IInv, TypeOK
<1>1. fate' # fate
  OBVIOUS
<1>2. PICK b \in Ids : \/ DeadlineKill(b) \/ InnerKill(b) \/ OuterKill(b) \/ Cancel(b)
                       \/ Create(b) \/ ProgramEnds(b)
  BY <1>1 DEF Next, GivesUp, Start, Attempt, Preflight, Stage, Launch, Breaks, Collect, Drain,
              Deadline, DeadlineDrain, KillBreaks, Spare, Crash, Refuse, docker
<1>3. DockerOK /\ BoxIsOwn(b)
  BY Parts
<1>4. CASE DeadlineKill(b) \/ InnerKill(b) \/ OuterKill(b)
  <2>1. Kill(b) /\ pc[b] # pc'[b]
    BY <1>0, <1>4 DEF DeadlineKill, InnerKill, OuterKill, Ends
  <2>2. b = a
    BY <1>3, <2>1, KillDoes
  <2>. QED
    BY <2>1, <2>2
<1>5. CASE Cancel(b)
  <2>1. b = a
    BY <1>5, CancelDocker
  <2>2. pc[b] \in {"deadline_kill", "inner_kill", "outer_kill"}
    BY <1>5, <2>1, CancelDocker
  <2>3. pc'[b] \in {"inner_kill", "outer_kill", "done"} /\ pc'[b] # pc[b]
    BY <1>0, <1>5, <2>2 DEF Cancel, AfterCancel, Ends
  <2>. QED
    BY <2>1, <2>3
<1>6. CASE Create(b) \/ ProgramEnds(b)
  BY <1>0, <1>6 DEF Create, ProgramEnds
<1>. QED
  BY <1>2, <1>4, <1>5, <1>6

(* Container names that differ between attempts: no teardown, early or late,  *)
(* ends the program of another attempt.                                       *)
THEOREM TeardownsAreOwn == Spec => OnlyOwnProgramsRemoved
<1>1. IInv /\ [Next]_vars =>
        [\A a \in Ids : fate[a] # "removed" /\ fate'[a] = "removed" => pc[a] # pc'[a]]_vars
  BY OwnRemoval
<1>. QED
  BY <1>1, Inductive, PTL DEF Spec, OnlyOwnProgramsRemoved

=============================================================================
