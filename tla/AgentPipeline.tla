---------------------------- MODULE AgentPipeline ----------------------------
(* The workflow of one run (app/temporal/workflows.py), the worker that holds *)
(* it in memory, and the Temporal server that schedules its activities,       *)
(* retries them under the policies of app/temporal/policies.py, and keeps the *)
(* history from which a crashed worker rebuilds the workflow.                 *)
(*                                                                            *)
(* The server and the SDK are external: they are modelled by what the code    *)
(* relies on.  The n-th workflow task consumes one event, `history[n]`, and   *)
(* answers with one command, `commands[n]`: the stage to schedule, or the way *)
(* the workflow function left.                                                *)
EXTENDS Contracts, Sequences, FiniteSets

CONSTANTS
  Outcomes,     \* the sandbox results the code under test may earn
  NoOutcome,    \* the value of an activity that carries no verdict
  MaxAttempts,  \* settings.max_attempts, the budget of either retry policy
  MaxCrashes    \* bound: how many worker crashes a behaviour contains

ASSUME OutcomesAssumption == Outcomes \subseteq SandboxResults
ASSUME NoOutcomeAssumption == NoOutcome \notin SandboxResults
ASSUME MaxAttemptsAssumption == MaxAttempts \in Nat \ {0}
ASSUME MaxCrashesAssumption == MaxCrashes \in Nat

VARIABLES
  status,    \* the run as the server lists it
  result,    \* the RunResult the workflow returned, or NoResult
  history,   \* the events the workflow has consumed, in order
  commands,  \* what it answered to each of them
  inbox,     \* the event waiting for the next workflow task, or NoEvent
  cancel,    \* the client's cancellation: "none", "pending" or "delivered"
  task,      \* the activity task of the last stage ordered
  running,   \* activity attempts executing on some worker, stale ones too
  wf,        \* the workflow object in the worker's cache
  cursor,    \* how many events of the history that object has consumed
  answer,    \* the last answer a status query was given
  crashes    \* worker crashes so far

record == <<result, history, commands>>
server == <<status, inbox, cancel, task>>
cache == <<wf, cursor>>
vars == <<status, result, history, commands, inbox, cancel, task, running,
          wf, cursor, answer, crashes>>

-----------------------------------------------------------------------------
(* The values these variables take.                                           *)

Pipeline == <<"plan", "generate_code", "run_sandbox", "summarize">>
Steps == {"plan", "generate_code", "run_sandbox", "summarize"}
Exits == {"returned", "raised", "cancelled"}
Stages == Steps \cup {"queued", "completed", "failed"}
Closed == {"COMPLETED", "FAILED", "CANCELED", "TIMED_OUT", "TERMINATED"}

NoEvent == [kind |-> "none", value |-> NoOutcome, wins |-> FALSE]
NoTask == [state |-> "none", attempt |-> 0]
NoResult == [status |-> "none", sandbox |-> NoOutcome, reason |-> "none"]
NoAnswer == [stage |-> "none", steps |-> <<>>]

(* An event of the history: the start of the run, the completion of the stage *)
(* in progress with the value it returned, its final failure, or nothing but  *)
(* a cancellation.  `wins`: a cancellation arrived with it and came first.    *)
Events == [kind : {"started", "completed", "failed", "none"},
           value : Outcomes \cup {NoOutcome}, wins : BOOLEAN]

StepRecords == [name : Steps,
                state : {"running", "completed", "failed"},
                detail : FailureReasons \cup {"none"}]

Results == [status : {"none", "completed", "failed"},
            sandbox : Outcomes \cup {NoOutcome},
            reason : FailureReasons \cup {"none"}]

Answers == [stage : Stages \cup {"none"}, steps : Seq(StepRecords)]

(* An attempt of an activity: the command that ordered the activity, the      *)
(* activity, and the number the server gave this try of it.                   *)
Attempts == [order : 1..4, step : Steps, attempt : 1..MaxAttempts]

-----------------------------------------------------------------------------
(* The workflow object: where it awaits (0 before `run`, k in stage k, 5 when *)
(* it has left), what the status query shows, and its locals.                 *)

Workflows == [at : 0..5, stage : Stages, steps : Seq(StepRecords),
              sbx : Outcomes \cup {NoOutcome}, exit : Exits \cup {"none"},
              result : Results]

Fresh == [at |-> 0, stage |-> "queued", steps |-> <<>>, sbx |-> NoOutcome,
          exit |-> "none", result |-> NoResult]

(* Entering a stage with a list of its own. *)
BeginStepAlone(w, k) ==
  [w EXCEPT !.at = k, !.stage = Pipeline[k],
            !.steps = <<[name |-> Pipeline[k], state |-> "running",
                         detail |-> "none"]>>]

(* Entering _step or _run_sandbox for stage k, up to the await. *)
BeginStep(w, k) ==
  [w EXCEPT !.at = k, !.stage = Pipeline[k],
            !.steps = Append(@, [name |-> Pipeline[k], state |-> "running",
                                 detail |-> "none"])]

(* Settling the stage in progress. *)
EndStep(w, state, detail) ==
  [w EXCEPT !.steps[Len(w.steps)] = [@ EXCEPT !.state = state, !.detail = detail]]

(* `except Exception: step.state = "failed"; raise`, out of `run`. *)
Unwind(w, exit) == [EndStep(w, "failed", "none") EXCEPT !.at = 5, !.exit = exit]

Leave(w, stage, res) ==
  [w EXCEPT !.at = 5, !.stage = stage, !.exit = "returned", !.result = res]

(* A pipeline that forgets to look at the verdict before it summarizes. *)
AfterSandboxUnchecked(w, v) ==
  BeginStep([EndStep(w, "completed", "none") EXCEPT !.sbx = v], 4)

(* A pipeline that reports the sandbox's answer as a success without asking   *)
(* for the summary.                                                           *)
AfterSandboxUnsummarized(w, v) ==
  Leave([EndStep(w, "completed", "none") EXCEPT !.sbx = v], "completed",
        [status |-> "completed", sandbox |-> v, reason |-> "none"])

(* The tail of _run_sandbox, and the terminal status `run` decides from it. *)
AfterSandbox(w, v) ==
  LET settled == [EndStep(w, IF Ok(v) THEN "completed" ELSE "failed",
                          FailureReason(v)) EXCEPT !.sbx = v]
  IN IF Ok(v)
     THEN BeginStep(settled, 4)
     ELSE Leave(settled, "failed",
                [status |-> "failed", sandbox |-> v, reason |-> FailureReason(v)])

(* A stage answered: settle it and go on to the next await, or return. *)
AfterStep(w, v) ==
  CASE w.at \in {1, 2} -> BeginStep(EndStep(w, "completed", "none"), w.at + 1)
    [] w.at = 3 -> AfterSandbox(w, v)
    [] OTHER -> Leave(EndStep(w, "completed", "none"), "completed",
                      [status |-> "completed", sandbox |-> w.sbx, reason |-> "none"])

(* A workflow that orders the sandbox once more when the server gives up.     *)
ResumeOrderingAgain(w, e) ==
  CASE e.wins -> Unwind(IF w.at = 0 THEN BeginStep(w, 1) ELSE w, "cancelled")
    [] ~e.wins /\ w.at = 0 -> BeginStep(w, 1)
    [] ~e.wins /\ w.at = 3 /\ e.kind = "failed" ->
         BeginStep(EndStep(w, "failed", "none"), 3)
    [] ~e.wins /\ w.at \notin {0, 3} /\ e.kind = "failed" -> Unwind(w, "raised")
    [] OTHER -> AfterStep(w, e.value)

(* The coroutine from one await to the next.  A cancellation that comes first *)
(* raises at the await in progress, that of the plan when the run has just    *)
(* begun; one that comes after an answer is absorbed by it.                   *)
Resume(w, e) ==
  CASE e.wins -> Unwind(IF w.at = 0 THEN BeginStep(w, 1) ELSE w, "cancelled")
    [] ~e.wins /\ w.at = 0 -> BeginStep(w, 1)
    [] ~e.wins /\ w.at # 0 /\ e.kind = "failed" -> Unwind(w, "raised")
    [] OTHER -> AfterStep(w, e.value)

(* The command the workflow task ends with. *)
Issues(w) == IF w.exit = "none" THEN Pipeline[w.at] ELSE w.exit

-----------------------------------------------------------------------------
Init ==
  /\ status = "RUNNING"
  /\ result = NoResult
  /\ history = <<>>
  /\ commands = <<>>
  /\ inbox = [NoEvent EXCEPT !.kind = "started"]
  /\ cancel = "none"
  /\ task = NoTask
  /\ running = {}
  /\ wf = Fresh
  /\ cursor = 0
  /\ answer = NoAnswer
  /\ crashes = 0

(* The command that ordered the activity `task` is about. *)
Pending == Len(commands)

CaughtUp == cursor = Len(history)

(* What the server makes of the way a workflow function left. *)
StatusAfter(exit) ==
  CASE exit = "none"      -> "RUNNING"
    [] exit = "returned"  -> "COMPLETED"
    [] exit = "raised"    -> "FAILED"
    [] exit = "cancelled" -> "CANCELED"

(* A live workflow task: the cached workflow consumes what is waiting, and    *)
(* the server carries out its command.  Cancelling is TRY_CANCEL, the default *)
(* of execute_activity: the workflow does not wait for the attempt to stop.   *)
WorkflowTask ==
  /\ status = "RUNNING"
  /\ CaughtUp
  /\ \E wins \in BOOLEAN :
       /\ wins => cancel = "pending"
       /\ inbox.kind = "none" => wins
       /\ LET e == [inbox EXCEPT !.wins = wins]
              w == Resume(wf, e)
          IN /\ wf' = w
             /\ history' = Append(history, e)
             /\ commands' = Append(commands, Issues(w))
             /\ status' = StatusAfter(w.exit)
             /\ result' = w.result
             /\ task' = IF w.exit = "none"
                        THEN [state |-> "scheduled", attempt |-> 1]
                        ELSE NoTask
  /\ cursor' = cursor + 1
  /\ inbox' = NoEvent
  /\ cancel' = IF cancel = "pending" THEN "delivered" ELSE cancel
  /\ UNCHANGED <<running, answer, crashes>>

(* A worker without the workflow in its cache rebuilds it from the history;   *)
(* the commands it issues on the way match the recorded ones and do nothing.  *)
Replay ==
  /\ ~CaughtUp
  /\ wf' = Resume(wf, history[cursor + 1])
  /\ cursor' = cursor + 1
  /\ UNCHANGED <<record, server, running, answer, crashes>>

-----------------------------------------------------------------------------
(* The activity task of the pending stage: attempts, time limits, retries.    *)

PickUp ==
  /\ task.state = "scheduled"
  /\ task' = [task EXCEPT !.state = "started"]
  /\ running' = running \cup {[order |-> Pending, step |-> commands[Pending],
                                 attempt |-> task.attempt]}
  /\ UNCHANGED <<record, status, inbox, cancel, cache, answer, crashes>>

(* A budget of retries and not of attempts: one attempt too many. *)
FailsOnceMore(retryable) ==
  IF retryable /\ task.attempt <= MaxAttempts
  THEN /\ task' = [task EXCEPT !.state = "backoff"]
       /\ inbox' = inbox
  ELSE /\ task' = NoTask
       /\ inbox' = [NoEvent EXCEPT !.kind = "failed"]

(* The attempt under way did not succeed: retry it or give up on the stage.   *)
Fails(retryable) ==
  IF retryable /\ task.attempt < MaxAttempts
  THEN /\ task' = [task EXCEPT !.state = "backoff"]
       /\ inbox' = inbox
  ELSE /\ task' = NoTask
       /\ inbox' = [NoEvent EXCEPT !.kind = "failed"]

(* The server takes an answer from the attempt it is waiting for only. *)
IsCurrent(r) ==
  task.state = "started" /\ r.order = Pending /\ r.attempt = task.attempt

(* An attempt returns: the sandbox with a verdict, the agents without one.    *)
Returns(r) ==
  /\ r \in running
  /\ running' = running \ {r}
  /\ \E v \in IF r.step = "run_sandbox" THEN Outcomes ELSE {NoOutcome} :
       IF IsCurrent(r)
       THEN /\ task' = NoTask
            /\ inbox' = [NoEvent EXCEPT !.kind = "completed", !.value = v]
       ELSE UNCHANGED <<task, inbox>>
  /\ UNCHANGED <<record, status, cancel, cache, answer, crashes>>

(* An attempt raises; only SANDBOX_RETRY names errors not to be retried.      *)
Raises(r) ==
  /\ r \in running
  /\ running' = running \ {r}
  /\ \E retryable \in BOOLEAN :
       /\ ~retryable => r.step = "run_sandbox"
       /\ IF IsCurrent(r) THEN Fails(retryable) ELSE UNCHANGED <<task, inbox>>
  /\ UNCHANGED <<record, status, cancel, cache, answer, crashes>>

(* start_to_close, or a heartbeat that did not come: the server goes on       *)
(* without the attempt, which may well be still running.                      *)
AttemptTimesOut ==
  /\ task.state = "started"
  /\ Fails(TRUE)
  /\ UNCHANGED <<record, status, cancel, running, cache, answer, crashes>>

(* An activity scheduled without a schedule_to_start_timeout waits for ever.  *)
NobodyCameNoTimeout == FALSE /\ UNCHANGED vars

(* schedule_to_start: no worker took the task.  This timeout is not retried.  *)
NobodyCame ==
  /\ task.state = "scheduled"
  /\ Fails(FALSE)
  /\ UNCHANGED <<record, status, cancel, running, cache, answer, crashes>>

BackoffEnds ==
  /\ task.state = "backoff"
  /\ task' = [state |-> "scheduled", attempt |-> task.attempt + 1]
  /\ UNCHANGED <<record, status, inbox, cancel, running, cache, answer, crashes>>

-----------------------------------------------------------------------------
(* The client, the server's own clock, the operator, and crashes.             *)

RequestCancel ==
  /\ status = "RUNNING"
  /\ cancel = "none"
  /\ cancel' = "pending"
  /\ UNCHANGED <<record, status, inbox, task, running, cache, answer, crashes>>

(* WORKFLOW_RUN_TIMEOUT, or a termination by hand: no workflow task is run.   *)
ServerCloses ==
  /\ status = "RUNNING"
  /\ status' \in {"TIMED_OUT", "TERMINATED"}
  /\ task' = NoTask
  /\ inbox' = NoEvent
  /\ UNCHANGED <<record, cancel, running, cache, answer, crashes>>

(* What a worker that dies leaves of the workflow object: nothing.  A list    *)
(* of steps held by the class and not by the object would survive an evict.   *)
EvictedSharedSteps(w) == [Fresh EXCEPT !.steps = w.steps]
Evicted(w) == Fresh

(* A worker dies with some of the attempts in flight, and with the cached     *)
(* workflow if it was the one that held it.  The server is not told.          *)
WorkerCrash ==
  /\ crashes < MaxCrashes
  /\ crashes' = crashes + 1
  /\ \E lost \in SUBSET running : running' = running \ lost
  /\ \/ wf' = Evicted(wf) /\ cursor' = 0
     \/ UNCHANGED cache
  /\ UNCHANGED <<record, server, answer>>

(* The status query, answered by a workflow with nothing left to consume.     *)
Query ==
  /\ CaughtUp
  /\ cursor > 0
  /\ status = "RUNNING" => inbox.kind = "none" /\ cancel # "pending"
  /\ answer' = [stage |-> wf.stage, steps |-> wf.steps]
  /\ UNCHANGED <<record, server, running, cache, crashes>>

Next ==
  \/ WorkflowTask
  \/ Replay
  \/ PickUp
  \/ \E r \in running : Returns(r) \/ Raises(r)
  \/ AttemptTimesOut
  \/ NobodyCame
  \/ BackoffEnds
  \/ RequestCancel
  \/ ServerCloses
  \/ WorkerCrash
  \/ Query

Spec == Init /\ [][Next]_vars

(* What the server's timers and a live worker guarantee: a workflow task is   *)
(* run, a history replayed, a task nobody takes given up, an attempt nobody   *)
(* answers for timed out, a retry scheduled.  Nobody has to take an activity  *)
(* task, to answer it or to cancel the run, and the run's own time limit is   *)
(* not what ends it.                                                          *)
Fairness ==
  /\ WF_vars(WorkflowTask)
  /\ WF_vars(Replay)
  /\ WF_vars(NobodyCame)
  /\ WF_vars(AttemptTimesOut)
  /\ WF_vars(BackoffEnds)

FairSpec == Spec /\ Fairness

-----------------------------------------------------------------------------
(* The variables hold values of the code's own types: a stage and a list of   *)
(* StepStatus in the workflow, a RunResult, numbered attempts in the server.  *)
TypeOK ==
  /\ status \in {"RUNNING"} \cup Closed
  /\ result \in Results
  /\ history \in Seq(Events)
  /\ commands \in Seq(Steps \cup Exits)
  /\ inbox \in Events
  /\ cancel \in {"none", "pending", "delivered"}
  /\ task \in [state : {"none", "scheduled", "started", "backoff"},
               attempt : 0..MaxAttempts]
  /\ running \subseteq Attempts
  /\ wf \in Workflows
  /\ cursor \in 0..Len(history)
  /\ answer \in Answers
  /\ crashes \in 0..MaxCrashes

(* The story a workflow object tells of itself is coherent. *)
Coherent(w) ==
  LET n == Len(w.steps)
      last == w.steps[n]
  IN /\ n <= 4
     /\ \A i \in 1..n : w.steps[i].name = Pipeline[i]
     /\ \A i \in 1..n - 1 : w.steps[i].state = "completed"
     /\ w.exit = "none" <=> n = 0 \/ last.state = "running"
     /\ w.exit \in {"raised", "cancelled"} => last.state = "failed"
     /\ w.exit = "returned" <=> w.stage \in {"completed", "failed"}
     /\ w.exit # "returned" => w.stage = IF n = 0 THEN "queued" ELSE last.name
     /\ w.stage = "completed" <=> n = 4 /\ last.state = "completed"
     /\ w.stage = "failed" => n = 3 /\ last.state = "failed" /\ last.detail # "none"

(* Whatever crashes, evictions and replays have happened, the object a worker *)
(* holds tells one coherent story: its steps are the pipeline's in order,     *)
(* each but the last is settled as a success, none is reported as running     *)
(* once the workflow has left, "completed" means all four succeeded, and an   *)
(* activity that failed or was cancelled shows as the failed step it was, in  *)
(* the stage the run was in.                                                  *)
ViewCoherent == Coherent(wf)

(* The verdict a client reads is the one the sandbox's recorded answer earns: *)
(* a run is called completed, or summarized at all, only on an ok result, and *)
(* a rejected one carries the result that was not ok and its reason; a run    *)
(* that was cancelled, timed out or broke carries no verdict.                 *)
VerdictMatchesRecord ==
  /\ status = "COMPLETED" <=> result # NoResult
  /\ Len(commands) >= 4 /\ commands[4] = "summarize" => Ok(history[4].value)
  /\ result.status = "completed" =>
       /\ Len(history) = 5
       /\ result.sandbox = history[4].value
       /\ Ok(result.sandbox)
  /\ result.status = "failed" =>
       /\ Len(history) = 4
       /\ result.sandbox = history[4].value
       /\ ~Ok(result.sandbox)
       /\ result.reason = FailureReason(result.sandbox)

(* The attempt of the sandbox about to start shares its number with none that *)
(* is still executing, the stale ones the server has given up on included:    *)
(* the runner names containers by run and attempt alone, and so counts on a   *)
(* workflow that orders its sandbox once, through whatever fails.             *)
ContainerNameUnused ==
  task.state = "scheduled" /\ commands[Pending] = "run_sandbox" =>
    \A r \in running : r.step = "run_sandbox" => r.attempt # task.attempt

(* What a polling client is told never goes back, although the object that    *)
(* answers may have been lost and rebuilt in between: a step once listed      *)
(* stays, a step settled stays as it was settled, a final stage stays final.  *)
AnswersNeverRegress ==
  [][/\ Len(answer.steps) <= Len(answer'.steps)
     /\ \A i \in 1..Len(answer.steps) :
          /\ answer'.steps[i].name = answer.steps[i].name
          /\ answer.steps[i].state # "running" => answer'.steps[i] = answer.steps[i]
     /\ answer.stage \in {"completed", "failed"} => answer' = answer]_answer

(* With a live workflow worker and the server's timers, every run comes to an *)
(* end, without the help of the run's own time limit and even if no worker    *)
(* ever takes or answers an activity.                                         *)
EveryRunCloses == <>(status \in Closed)

(* The README says of POST /runs/{id}/cancel: "the workflow tears the sandbox  *)
(* down on the way out".  A cancelled run would then leave none executing.    *)
CancelledRunLeavesNoSandbox ==
  status = "CANCELED" => \A r \in running : r.step # "run_sandbox"

-----------------------------------------------------------------------------
(* How a run as its client sees it is read off this state.                    *)
Progress ==
  IF commands # <<>> /\ commands[Len(commands)] \in Exits
  THEN Len(commands) - 1
  ELSE Len(commands)

Lifecycle == INSTANCE RunLifecycle
               WITH progress <- Progress, verdict <- result.status

(* The run behaves as RunLifecycle says: stages in order, one verdict, which  *)
(* only a run of all four stages can have favourable, no change after the end.*)
ImplementsLifecycle == Lifecycle!Spec

=============================================================================
