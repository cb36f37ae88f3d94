# A verification development for temporal-agent-sandbox

TLA+ modules for the agent pipeline: the workflow and its activities under
Temporal, the gVisor sandbox runner and what it collects, the way from a task to
its program and verdict, the run submission and the status stream. TLC checks
them on small instances; TLAPS proves every safety property the runs check, and the
refinements, for every value of the constants.

Contents: [Inventory](#inventory) · [Modules](#modules) ·
[How the modules correspond to the code](#how-the-modules-correspond-to-the-code) ·
[Runs](#runs) · [Fairness](#fairness) · [Proofs](#proofs) ·
[Where the code and its documents disagree](#where-the-code-and-its-documents-disagree) ·
[Not modelled](#not-modelled) · [Plan](#plan) · [Running it](#running-it)

## Inventory

A client posts a task. The API starts one Temporal workflow for it; the workflow
orders four activities one after another - `plan`, `generate_code`,
`run_sandbox`, `summarize` - and returns a verdict. Workers run the workflow and
the activities; `run_sandbox` starts one docker container per attempt. The client
learns how the run stands by polling or from a server-sent event stream, and may
cancel it. There is no database: all durable state is Temporal's history.

| Component | Source | State it keeps | Operations | Interacts with |
|---|---|---|---|---|
| Workflow | `app/temporal/workflows.py`, `app/contracts.py` | `_stage`, `_steps` (in memory, rebuilt by replay), the coroutine's position | `run`, `_step`, `_run_sandbox`, `status` query | server (commands, events), activities (results), API (queries) |
| Retry policies and timeouts | `app/temporal/policies.py`, `app/config.py` | none; read once at start | attempt budget, non-retryable errors, five time limits | held by the server against activities |
| Sandbox activity and gVisor runner | `app/activities/sandbox.py`, `app/sandbox/*.py` | position of the attempt, staged directory, docker client process, tail buffers | `run_sandbox`, `preflight`, `run`, `kill`, `_classify_infra`, `_read_capped` | docker daemon (containers), server (heartbeats, answers, cancellation) |
| Agent activities | `app/activities/agents.py` | none | `plan`, `generate_code`, `summarize` | workflow |
| Agent transforms, code generation | `app/agents/*.py` | none | `parse_directive`, templates | agent activities |
| Submission and cancel | `app/api/routes_runs.py` | none; the workflow id and memo hold what there is | `create_run`, `_handle_already_started`, `cancel_run` | server |
| Status and stream | `app/api/routes_runs.py` | per stream: last answer, first, ticks | `_resolve_status`, `get_run`, `stream_run` | server (describe, query, result), client |
| Worker process | `app/temporal/worker.py`, `client.py` | none | `main` | server |
| API application | `app/api/main.py`, `auth.py`, `errors.py` | none | authentication, error envelope, health | client |
| Sandbox entrypoint | `app/sandbox/runtime/entrypoint.py` | none | runs the mounted program | inside the container |
| Observability | `app/observability/*.py` | none | logs, spans | nothing reads them back |
| Deployment | `deploy/`, `infra/` | none | configuration | - |

What is hard in each, and what makes it correct:

* **Workflow.** Attempts the server has given up go on running and answer late;
  a cancellation may share a workflow task with the answer of a stage and come
  before or after it; a worker that dies loses the workflow object, which another
  worker rebuilds from the history; status queries are answered by whichever
  object there is. Correct means: the verdict is the one the *recorded* sandbox
  result earns, the steps tell a coherent story through any crash, a polling
  client is never told less than before, no two attempts of a run share a container
  name, every run ends.
* **Sandbox runner.** A cancellation can arrive at any `await`, and a second one
  (worker shutdown after a server cancellation) during the teardown of the first;
  the docker daemon acts some time after it was asked; every docker command
  can fail, and any can fail to start; attempts of one run overlap; whether a launch failed is guessed
  from exit code and stderr. Correct means: a recorded result is the attempt's own
  program's, whatever was launched is torn down, a missing runtime is refused
  once and for all, the wall clock holds, no attempt waits for ever.
* **Output.** Program, docker client and two readers run side by side with the
  runner's loop; the client copies one connection into two pipes, so that one full
  pipe stops both; a reader gets its bytes in pieces of any size, and may be given
  up. Correct means: what is collected is the tail of what was written, and called
  truncated exactly when there was more; memory is bounded; no program is held up
  for good because nobody reads.
* **From task to verdict.** A task may name several directives, or one in another
  spelling; the program is built by quoting the task; memory, PIDs, network and time
  end programs in different ways. Correct means: verdict and summary are those of
  the one directive the plan took.
* **Submission.** Overlapping calls, lost answers and repeated calls, ids
  derived by hash or key, retention. Correct means: one run per submission, and
  an answer that is about the caller's own submission.
* **Stream.** Each poll is two calls to the server and the run may change
  between them; four branches emit events. Correct means: the end told is the
  run's true end, the event sequence is well formed, steps are news and never go
  back, the stream itself ends.

The hazards are listed with their lines, and with the property that covers each,
in `PROJECT.json`.

## Modules

| Module | What it is |
|---|---|
| `Contracts` | `SandboxResult` as far as it decides a verdict, with `ok` and `failure_reason` |
| `RunLifecycle` | the abstract specification: what a run promises its client |
| `AgentPipeline` | the workflow, its worker and the server's activity tasks; implements `RunLifecycle` |
| `AgentPipelineProofs` | TLAPS proofs about `AgentPipeline` |
| `SandboxActivity` | the attempts of `run_sandbox`, await by await, with the docker daemon |
| `SandboxActivityProofs` | TLAPS proofs about `SandboxActivity` |
| `SandboxOutput` | what one attempt collects of its program's output |
| `SandboxOutputProofs` | TLAPS proofs about `SandboxOutput` |
| `TaskProgram` | from a task through plan, template and entrypoint to `SandboxOutput`'s program, and from its result to the summary |
| `TaskProgramProofs` | TLAPS proofs about `TaskProgram` |
| `SandboxClock` | one attempt of `run_sandbox` against its time limits and heartbeats |
| `SandboxClockProofs` | TLAPS proofs about `SandboxClock` |
| `StatusStream` | one event stream on a run, the run being `RunLifecycle` |
| `StatusStreamProofs` | TLAPS proofs about `StatusStream` |
| `PipelineStream` | the same stream on the run of `AgentPipeline`; implements `StatusStream` |
| `PipelineStreamProofs` | TLAPS proofs about `PipelineStream` |
| `Submission` | overlapping `POST /runs` calls |
| `SubmissionProofs` | TLAPS proofs about `Submission` |
| `MCAgentPipeline`, `MCSandboxActivity`, `MCTaskProgram`, `MCSubmission` | values of the constants for TLC |

How they compose. `AgentPipeline` treats an activity attempt as something that
returns, raises or is timed out; `SandboxActivity` opens one such attempt of the
third stage and shows which results and errors it can answer. Each gives the other
one fact: `SandboxActivity` names containers by the attempt and so needs a workflow
that orders its sandbox once, which is `AgentPipeline`'s `ContainerNameUnused`;
`AgentPipeline` records any sandbox result, which is meaningful since
`SandboxActivity` answers only with results that an attempt's own program earned,
`ResultIsTheProgramsOwn`. `TaskProgram` extends `SandboxOutput`: it chooses the program the
latter runs, and reads its result. `SandboxClock`
keeps the same awaits but counts time, which the former leaves out: there, any
wait may end when it may. `StatusStream` takes of the run only what `RunLifecycle`
allows, and of a status query that it shows how far the run is. In the code the
query is answered by the workflow object that some worker holds: `PipelineStream`
runs the generator against that one, crashes and replays included, and is proved
to implement `StatusStream`, so that what is checked and proved of streams holds
for the streams of the pipeline. `Contracts` is shared
by the workflow and the activity, as in the code.

## How the modules correspond to the code

`PROJECT.json` maps every definition to its lines. In short:

**AgentPipeline.** `wf` is the workflow object: `at` is the `await` the coroutine
is at, `stage` and `steps` are `_stage` and `_steps`, `sbx` the local that
survives an await. `Resume(w, e)` is the coroutine from one `await` to the next,
every assignment between the two included (`BeginStep`, `EndStep`, `Unwind`,
`AfterSandbox` are the parts of `_step`, `_run_sandbox` and `run`). A live
`WorkflowTask` applies it to the waiting event and appends event and command to
the recorded history; `Replay` applies the same operator to the recorded events,
which is all a worker without the cached object has. `task` is the server's
activity task with its attempt number, `running` the attempts executing on
workers - those the server gave up included, which is why it is a set. `Fails`
holds the retry policies. `answer` keeps the last status a client was told, so
that successive answers can be compared.

Cancellation is the SDK's default for `execute_activity`, TRY_CANCEL: the await
raises at once, as an `ActivityError`, which `except Exception` catches (the step
becomes "failed"); the attempt is not waited for. A cancellation and the answer
of a stage may come in one workflow task in either order (`wins`).

**SandboxActivity.** `pc[a]` is the `await` attempt `a` is at. The `await`s of
`run_sandbox` and `GvisorRunner.run` are: the preflight's `docker info`, `docker
image inspect`, the spawn, the watch loop's wait, the deadline's kill and drains,
the drains after the end, and the two teardowns (`except CancelledError` in the
runner and again in the activity). `Cancel` may strike at each of them and
`AfterCancel` says where the exception goes. `Kill` is `docker rm -f`, whose
outcome the code does not look at; when it fails, the container it should have
removed is marked `spared`. A command that cannot be started is another matter:
`_run_cmd` catches only the `FileNotFoundError` of a host without docker, and any
other `OSError` (too many processes or open files, a full disk under the staged
code) leaves the attempt at once. That is `Breaks` before the watch loop and
`KillBreaks` at a teardown, after which no handler tears down once more. The policy
lets the server retry such an attempt, and none that was refused: `Flagged` are the
exceptions the activity itself raises as non-retryable, `NonRetryable` the policy's
list, and a violation raised outside the activity's `try` needs the latter.
What a program prints may read like docker's words for a failed launch, with the
name of the runtime or without it (`LooksLikeLaunch`). `asked` is a `docker run` the daemon has not acted on
yet. `VerdictOf` is `_classify_infra` followed by the result. The two drains of
stdout and stderr are one step here; only stderr is looked at, and it is "lost" if
it could not be collected in time.

**SandboxOutput.** The bytes of a stream are numbered, so that "the tail" can be
told from other bytes. `Write` is one byte through the docker client into a pipe
of `Capacity`, in the program's order over both streams; `Read` is one turn of
`_read_capped`'s loop, with any number of the bytes that are there up to `Chunk`;
`Keep` is the `del buf[:...]`. `Collect`, `Deadline` and `Kill` are the runner's
loop, `Safe(s)` is `_safe`: the reader's result if it has ended, nothing
(and the reader cancelled) after five seconds, which may strike at any time
here. A cancellation, which throws the output away, is `SandboxActivity`'s. `Kill`
may fail and leave the client alive.

**TaskProgram.** A task is the set of directives it names and whether it holds a
character beyond the BMP; the words around them decide nothing. `Entrypoint` gives
for each template how its program may end: the bytes it writes to which stream and
its exit code, or `Never`. A program that allocates without end dies of SIGKILL
or of a MemoryError; a fork loop meets the PID limit or does not. A program that
prints, and a traceback, prints one of the amounts in `Usual` - some ten to some
thousand bytes in the templates - and `bigout` prints `Flood`, 5,120,001 bytes.

**SandboxClock.** `since` counts the time at the present await and `Limit` is the
await's time limit; `wait` is `wait_for`, `elapsed`, `wall` are the code's.
`silence` and `age` are the server's heartbeat and start-to-close clocks. No tick
passes while something is due, so processing is instantaneous against a tick;
commands take any time up to their limit. Reading the code's clock, the loop can
overshoot by `max(remaining, 0.1)`, a tenth of a second, which is below a tick.

**StatusStream.** Actions are the awaits of `gen` and `_resolve_status`:
`Describe`, then `Query` or `Result`, then what is sent. The run moves between any
two. `CallFails` is any error of a call; `Forgotten` is retention, after which the
describe is a 404, on which the generator breaks. A status view is reduced to how
many steps are listed, whether the last is settled, and the verdict. `last` is
both `first` and `last` of the code: it is `NoAnswer` exactly while `first`.

**PipelineStream.** The generator is `StatusStream`'s own, by INSTANCE, with the
run's `progress` and verdict those of `AgentPipeline`. `StreamQuery` is the query
call of `_resolve_status`: it is the workflow's `Query`, whose answer `Shown`
reduces to what `StatusStream` keeps of a `RunStatusResponse`. The queries of other
clients, who poll `GET /runs/{id}`, are among `PipelineMoves`.

**Submission.** One call per element of `Calls`, from arrival to reply. A hash is
the payload itself (collisions are not modelled, and a key is assumed not to be a
payload's hash). A refused call is refused for its body's syntax, its token, its
body's schema or its size, in that order: the first is FastAPI's, before any
dependency. A lost answer is a call that
gets 500 or 503 although the run was started. `run` remembers which run of its id
a call was given or refused for, and what that run was started with. `Replays` is
`_handle_already_started`, which answers 200 whatever it finds: temporalio is
pinned to 1.9.0 (pyproject.toml:12), where `memo` of a workflow description is a
coroutine method, so that `desc.memo.get` (routes_runs.py:169) raises
`AttributeError` and the `except` one line on takes it for a memo that cannot be
read. The comparison behind it is never made and is not modelled.

Each module also holds, next to the definition it varies and never used by it, a
version of that definition with a plausible slip (a forgotten reset, a dropped
check, an off-by-one). Substituting it breaks the property named for it in
`PROJECT.json`: this is how we know that a property can fail.

## Runs

| Run | States | Question and answer |
|---|---|---|
| `pipeline` | 40 thousand | Does a run keep its verdict and its view true to the record through retries, timeouts, late answers, a cancellation, a worker crash with replay? Does it close, and behave as `RunLifecycle`? Yes. |
| `sandbox_safety` | 223 thousand | Under every request, two overlapping attempts, two cancellations each, two crashes, every docker command failing or not starting: is each recorded result earned, everything torn down and stopped, a missing runtime refused for good, no attempt's program removed by another? Does every attempt end? Yes. |
| `clock` | 29 thousand | Does the wall clock hold, is it never applied early, how long can a stale program run? It holds; a heartbeat and a `docker rm`. |
| `program` | 164 thousand | For every task, and every program of up to six bytes in any order of its streams: is the collected output the tail, is no program held up by a full pipe, does the verdict fit the directive? Yes. |
| `stream` | 36 thousand | Is a stream well formed and truthful whatever happens between its calls, and does it end? Yes. |
| `submission` | 168 thousand | Is a submission run once, and told of another's run only if its client reused a key? Yes. |
| `pipeline_cancel`, `sandbox_crash`, `sandbox_teardown`, `clock_heartbeat`, `program_literal`, `submission_conflict` | - | Statements of documents, docstrings and tests that the code does not keep: see below. |

The properties, by run:

* `pipeline`: `ViewCoherent`, `VerdictMatchesRecord`, `ContainerNameUnused`
  (invariants), `AnswersNeverRegress` (action property), `EveryRunCloses`
  (liveness), `ImplementsLifecycle` (refinement).
* `sandbox_safety`: `ResultIsTheProgramsOwn`, `TornDown`, `FailsClosed`
  (invariants), `OnlyOwnProgramsRemoved`, `RefusedForGood` (action properties),
  `SandboxesStop`, `AttemptsEnd` (liveness).
* `clock`: `WallClockHolds`, `InTimeIsNotExceeded`, `StaleIsTornDownSoon`.
* `program`: `ResultIsTheTail`, `VerdictFitsDirective` (invariants),
  `FloodsAreDrained` (liveness).
* `stream`: `EndsAreTrue`, `WellFormed`, `StepsAreNews` (invariants), `StreamEnds`
  (liveness).
* `submission`: `RunsOnce`, `OthersRunsOnlyByKey`, `RunsAreNotShared`.

Each run also checks a type invariant, `TypeOK`; in `SandboxOutput` it says that no
buffer exceeds the limit.

### Bounds, and why they are enough

* **MaxAttempts = 2** (3 in the settings). Two attempts are what it takes for one
  to be stale while another is current, and for the budget to be both available
  and exhausted. The proofs cover every value.
* **MaxCrashes = 1** in `pipeline`. A crash at any point followed by a full replay
  is the case; a second crash meets the same states. The proofs cover every number.
  **2** in `sandbox_safety`: each of the two attempts may be lost in one.
* **Outcomes**: exit 0, exit 1, memory limit, wall clock: one for each branch of
  `ok` and `failure_reason`.
* **Requests**: each runtime the code distinguishes, code that fits or not, a
  host with and without the runtime.
* **Faults**: `info` (the preflight's command fails), `spawn` (a docker command
  cannot be started, or the code not be staged), `launch` and `launch_named` (the daemon refuses; the
  text names the runtime), `rm`, `drain` (stderr not collected within its limit).
  With `drain`, a failed launch whose words were lost passes for the program's own
  exit; `ResultIsTheProgramsOwn` names that exception.
* **LooksLikeLaunch**: programs may themselves end with docker's launch code and a
  launch phrase, with or without the runtime's name. `sandbox_crash` and
  `sandbox_teardown` need no faults and no such programs.
* **MaxCancels = 2**: the server's cancellation and the worker's shutdown are two
  different sources and each delivers one. `TornDown` is proved for up to two, the
  other properties for any number.
* **Clock**: `clock` uses heartbeat 3, start-to-close 5, wall clock 7, control
  commands 3, removal 2, collection 1: the heartbeat does not divide the wall
  clock, every wall clock from 1 to 7 is tried, and start-to-close is shorter than
  the longest, so that attempts are given up for each reason. `clock_heartbeat`
  has the defaults of `config.py` in ticks of five seconds: 10/5, 60/5, 30/5,
  15/5, 10/5, 5/5. `SandboxClockProofs` covers every choice of limits.
* **Limit = 2, Chunk = 3, Capacity = 3, MaxWrites = 6** (a mebibyte, 65536, a pipe's
  65536): a chunk can be longer than the limit, so that one read replaces the
  whole buffer, and shorter, so that buffers are cut in the middle; six bytes fill
  both pipes, or one of them twice. Every task over the seven directives is an
  initial state. **Usual = {1, 2}, Flood = 3**: a usual output is shorter than the
  limit or just fits, a flood is one byte too long. `SandboxOutputProofs` covers every
  value of the first three, `TaskProgramProofs` every `Usual` and `Flood` on their
  sides of the limit.
* **MaxTicks = 5, KeepaliveEvery = 2** (472 polls, 21): five polls are enough to
  send a snapshot, several steps, an idle keepalive, an end, or to run out of time. `StatusStreamProofs` covers any
  number of polls and any period.
* **Submission**: three calls, two tenants, one key or none, two payloads: two
  calls race for an id while a third comes before, between or after, of the same
  or another submission. Calls are interchangeable (symmetry); tenants and
  parameters are left alone. The proofs cover any number of each.

Runs do not check for deadlock: a run, an attempt, a stream and a set of calls all
really come to their end.

## Fairness

* **AgentPipeline**: weak fairness of `WorkflowTask` and `Replay` (some worker for
  workflows lives), and of `NobodyCame`, `AttemptTimesOut` and `BackoffEnds` (the
  server's timers). Nobody has to take or answer an activity: `EveryRunCloses`
  therefore says that schedule-to-start, start-to-close and the budget alone end
  a run. `ServerCloses`, the run's own timeout, is not fair and so not used.
* **SandboxActivity**: weak fairness of an attempt's own steps. Each await has a
  time limit in the code (`_run_cmd`'s, the loop's deadline, `_safe`'s), so an
  event loop that runs takes them. None for the program, the daemon or the server.
* **SandboxOutput**: weak fairness of each reader (a task of the event loop with
  bytes to read is scheduled), and of the program and the docker client, which go on
  when they are not held up: `FloodsAreDrained` is about being held up. The runner's
  own steps are not fair there, so that a program gets to its end whether or not
  the runner looks.
* **StatusStream**: weak fairness of the generator: a call returns or fails and a
  sleep ends. None for the run or the client.

## Proofs

Eight modules hold proofs, seven about one component each and one about the
pipeline and its streams together, for every value of the constants. Each has one inductive invariant, `IInv`, of named parts, a lemma per
action that the action preserves it, and short proofs of the theorems from it.
Nothing is assumed but what the model's modules assume of their constants and, in
three places, a hypothesis that is part of the theorem and said below.

### The workflow

`AgentPipelineProofs` proves, for every set of outcomes, attempt budget and number
of crashes:

| Theorem | States |
|---|---|
| `TypeCorrect` | `Spec => []TypeOK` |
| `ViewsAreCoherent` | `Spec => []ViewCoherent` |
| `VerdictsMatchRecord` | `Spec => []VerdictMatchesRecord` |
| `ContainerNamesAreUnused` | `Spec => []ContainerNameUnused` |
| `PollingNeverGoesBack` | `Spec => AnswersNeverRegress` |
| `PipelineImplementsLifecycle` | `Spec => Lifecycle!Spec` |

They assume what the module assumes of its constants: outcomes are sandbox
results, the "no outcome" value is none of them, `MaxAttempts` is a positive
natural, `MaxCrashes` a natural.

**The argument.** None of the properties is inductive by itself, since the
workflow object can be thrown away at any time and is rebuilt from the history.
The invariant `IInv` therefore speaks of the history and derives the rest:

* `Log`: the recorded history is well ordered - five events at most, each one
  deliverable where it stands, each but the last such that the coroutine goes on -
  and the recorded commands are the ones the coroutine issues after each event.
* `Standing`: the run is open exactly while the coroutine waits; a run that
  completed has the result it returned, any other none.
* `Cached`: the workflow object is `At(history, cursor)`, the object that has
  consumed the first `cursor` events. `At` is given outright, as the object that
  waits in stage `n - 1` resumed with the n-th event, and not by recursion.
* `Answered`: the last answer is one that some prefix of the history shows.
* `Delivery`: an event waits only where the coroutine can take it and while no
  activity task is in progress; a task belongs to an open run, and backs off only
  with budget left.
* `Numbers`: attempts of the pending stage in flight bear numbers up to the task's
  own, and lower ones while it is scheduled.

`Cached` is the heart: a step of `WorkflowTask` and a step of `Replay` apply the
same `Resume` to the same events, so the object after either is the view of one
more event. `ViewCoherent` follows from `Cached` and `Log`, `VerdictMatchesRecord`
from `Log` and `Standing`, `ContainerNameUnused` from `Numbers`
and `Log` (the sandbox is ordered by the third command alone, so any of its attempts
in flight is of the pending task),
`AnswersNeverRegress` from `Answered` (views of longer prefixes extend those of
shorter ones), and the refinement maps `WorkflowTask` to `Advance`, `Succeed`,
`Reject`, `Break` or `Stop`, `ServerCloses` to `Stop`, and all else to a stutter.

### The sandbox attempts

`SandboxActivityProofs` proves, for any number of attempts, cancellations and
crashes, any set of requests and any faults:

| Theorem | States |
|---|---|
| `TypeCorrect` | `Spec => []TypeOK` |
| `RunsFailClosed` | `Spec => []FailsClosed`: no staged code, no container, no result |
| `RefusalsStand` | `Spec => RefusedForGood`: the violation is the verdict, nothing is retried |
| `ResultsAreEarned` | `Spec => []ResultIsTheProgramsOwn` |
| `OnlyThreeCancelsLeave` | `Spec => []LeftOnlyIfCutShort` |
| `AttemptsTearDown` | `MaxCancels <= 2 => (Spec => []TornDown)` |
| `TeardownsAreOwn` | `Spec => OnlyOwnProgramsRemoved` |

Attempts share only the docker daemon's names and the server's task, so the
invariant is one `Sound(a)` per attempt and two statements about the server:

* `BoxIsOwn`: the container named after an attempt is that attempt's, and its program
  runs exactly while it is there.
* `ClientIsTold`: before the spawn nothing has been asked of docker; a request the
  daemon has not acted on has had no effect; a client that ended has seen its own
  program end, or be removed, or its launch fail.
* `TeardownReached`: a container that its teardown would have removed and has not is
  one whose teardown is still ahead or under way. Two nested `except CancelledError`
  mean that it takes a third cancellation to leave one behind. That is
  `OnlyThreeCancelsLeave`, for any number of them; `AttemptsTearDown` is the case of
  at most two, the server's and the worker's, in which nothing is left.
* `NotLaunched`: without its runtime an attempt does not get past the preflight and
  has nothing staged or asked for; with an unknown one it does not get to it.
* `InOrder`: attempts later than the server's have not begun, and a verdict is the
  current attempt's. `VerdictEarned`: the recorded result is earned by an attempt
  that is over and had its runtime, so nothing it could still do changes what it answered.

A step of one attempt leaves every other `Sound(a)` alone, which is proved once
(`Elsewhere`, `Assembled`) and used by every action. `RefusedForGood` needs one look
at the steps that end an attempt in the preflight or before it: an attempt whose
server still waits is either refused, which closes the task whichever of `Flagged`
and `NonRetryable` says so, or could not ask, which is `Breaks`.

### The clock

`SandboxClockProofs` proves, for every choice of the six time limits (positive
numbers of ticks), `TypeCorrect`, `WallClockIsKept` (`[]WallClockHolds`),
`ExceededIsExceeded` (`[]InTimeIsNotExceeded`) and `StaleAttemptsEnd`
(`[]StaleIsTornDownSoon`). The invariant relates the clocks at each await: while
the loop watches, what it has waited and will wait ends by the deadline
(`elapsed + wait <= wall + since`); a teardown of a running program began by it
(`elapsed <= wall + since`, with `since` at most `Removal`); and a program that is
stale has been so for no longer than the loop has waited since its last beat.

### The stream

`StatusStreamProofs` proves, for every duration and keepalive period,
`TypeCorrect`, `ClientsAreToldTheEnd` (`[]EndsAreTrue`), `StreamsAreWellFormed`
(`[]WellFormed`) and `StepsOnlyGoOn` (`[]StepsAreNews`). The run moves between
the generator's two calls, so the invariant says what is known at each await
(`Knows`): "running" may be out of date, and then the answer is an older view of
the run (`Below`, which is transitive and only grows with the run); a closed status
never is, so the end sent is the run's. `Open` describes a stream that goes on, a
snapshot followed by steps and keepalives none of which is newer than the last
answer, `Told` one that has ended.

### The stream on the pipeline

`PipelineStreamProofs` proves, for any outcomes, attempt budget, crashes, durations
and keepalive periods:

| Theorem | States |
|---|---|
| `PipelineStreamsAreStreams` | `StreamSpec => ImplementsStream` |
| `PipelineClientsAreToldTheEnd` | `Bounds => (StreamSpec => []Stream!EndsAreTrue)` |
| `PipelineStreamsAreWellFormed` | `Bounds => (StreamSpec => []Stream!WellFormed)` |
| `PipelineStepsOnlyGoOn` | `Bounds => (StreamSpec => []Stream!StepsAreNews)` |
| `SuccessIsEarned` | `Bounds => (StreamSpec => []ToldIsEarned)` |

`Bounds` says that a stream polls at least once and sends keepalives with a positive
period, which is what `StatusStream` assumes; the code polls for a positive run
timeout and thirty seconds more, and beats every 21 polls.

The first theorem is the composition: what is proved of streams on an abstract run
is true of streams on the pipeline, and the next three restate it there. It rests
on the workflow's `IInv` and on `QueryShowsView`: a query waits for a worker to have
replayed the whole history, so the object that answers it is the one that the
history determines (`Cached`), whichever worker holds it; and what that one shows is
the answer `StatusStream` expects of a run as far as this.

The last one goes from end to end: an event that reports success, or lists the
summary as a step, is sent only when the sandbox's recorded result was ok. It takes
both sides and two more invariants: `Account`, that a closed run's status in the
server is the one its coroutine's exit earns, and `Listing`, that an answer which
lists four steps, held or sent, has the record to show for it. The second stays
true because history is only ever appended to (`EvidenceStays`) and events, once
sent, stay sent (`SendsGrow`).

### The collected output

`SandboxOutputProofs` proves, for every limit, chunk size, pipe size and program:
`OutputIsBounded` (`Spec => []TypeOK`) and `CollectedIsTheTail`
(`Spec => []ResultIsTheTail`). The heart is the loop invariant of `_read_capped`,
"the buffer is the tail of what was read" (`buf[s] = LastBytes(total[s])`):
`KeepIsLastBytes` shows that appending a chunk and cutting again preserves it.
Beside it the inductive invariant says that a reader that has ended has read
everything its stream will ever hold, since it saw an empty pipe whose writer was
gone, and that results are taken in the order of the streams. Assumed are a natural
limit and positive chunk and pipe sizes.

### From task to verdict

`TaskProgramProofs` proves, for any set of tasks over the directives and any other
programs:

| Theorem | States |
|---|---|
| `TasksAreOutput` | `TaskSpec => Spec`: the templates' programs are run by `SandboxOutput` |
| `TasksOutputIsBounded` | `TaskSpec => []TypeOK` |
| `TasksOutputIsTheTail` | `TaskSpec => []ResultIsTheTail` |
| `VerdictsFit` | `LimitFits => (TaskSpec => []VerdictFitsDirective)` |

To the output's invariant it adds: the program is the one the plan's template makes
of the task (`PlannedInv`), one that writes to one stream has written nothing to the
other (`StreamInv`), and a client that nobody killed has ended with its program and
after all of its output (`EndInv`). A verdict then follows directive by directive:
which templates can end with which code is a matter of `Entrypoint`, whether the tail
is truncated one of how much the program writes. `LimitFits` says that the limit
lies between the usual amounts and the flood, as a mebibyte does between a thousand
bytes and five million. For other limits nothing is claimed: the setting may be any
number, zero included, and with one below the length of a normal program's hundred-odd
bytes the run succeeds with a truncated output, with one above the flood's a flood is
not cut.

### Submissions

`SubmissionProofs` proves, for any calls, tenants, keys and payloads:

| Theorem | States |
|---|---|
| `TypeCorrect` | `Spec => []TypeOK` |
| `SubmissionsRunOnce` | `Spec => []RunsOnce` |
| `OnlyReusedKeysMislead` | `Spec => []OthersRunsOnlyByKey` |
| `NoRunIsShared` | `Spec => []RunsAreNotShared` |

The inductive invariant adds to them: where a call stands determines what it holds
(`Progress`); a run that the server knows, or that a call was told of, was started for
a request some call made under that id (`Origins`), which is where the client that
reused a key is found; and each start of an id has ended a call of its own
(`Counted`), which bounds the number of starts by that of calls. Assumed are finitely
many calls, that "none" is no key, and that no key is a payload's digest. The first
of the code's two promises about a reused id, one run per submission, holds; the
second, 409 for another payload, does not, and is the run `submission_conflict`.

### Only model-checked

`EveryRunCloses`, `SandboxesStop`, `AttemptsEnd`, `FloodsAreDrained` and
`StreamEnds` are liveness, which is out of the prover's reach. All the safety
properties of the runs that pass are proved.

### Only proved

`PipelineStream` is in none of the runs: pipeline and stream together have some ten
million states on the smallest instance of interest (two outcomes, two attempts, one
crash, three polls). On that one TLC finds `ToldIsEarned`, `ImplementsStream` and the
stream's three invariants to hold, `Account` among the lemmas too; the theorems above
are what the project relies on.

## Where the code and its documents disagree

Each is a run that ends in a counterexample.

* `pipeline_cancel` - README.md:101 has a cancelled run's workflow tear its
  sandbox down on the way out. It leaves at once and the attempt executes on; the
  attempt tears down by itself, when its next heartbeat tells it.
* `sandbox_crash` - ARCHITECTURE.md:150-151 denies the program unbounded time. A
  worker crash leaves a container that nobody times.
* `sandbox_teardown` - ARCHITECTURE.md:127-129 calls the teardown safe in every
  case. One that runs before the daemon has created the container leaves it behind.
* `submission_conflict` - routes_runs.py:164 has a reused key answered 200 or, for
  another payload, 409. It is always answered 200, with the id of the first payload's
  run: the memo that would tell is never read (routes_runs.py:169-170).
* `clock_heartbeat` - README.md:147-148 has the heartbeat catch hangs. With the
  defaults it catches every attempt whose program runs for more than about ten
  seconds, since first beat and patience are equally long and the beat is counted
  from later.
* `program_literal` - tests/test_activities.py:41 has the task embedded safely by
  `json.dumps`, and a normal program is expected to succeed
  (tests/test_sandbox_isolation.py:44-47). A task with a character beyond the BMP,
  an emoji for instance, becomes a literal with two lone surrogates;
  `TASK.encode()` refuses them, and the run ends FAILED with a traceback.

Met while modelling and not made runs: README.md:140-141 has the activity raise
only when the container could not be launched, but a program that ran and ended
with 125 to 127 and a launch phrase on stderr is taken for that (gvisor.py:217-221), and not even
retried if the runtime's name is among its words; README.md:133 has a failed launch
retried, but not one whose message holds that name (gvisor.py:220);
the opposite happens when stderr could not be collected; output given up after five
seconds is empty and not called truncated (gvisor.py:228-230); README.md:62-63 says the worker refuses to
start without the runtime (`worker.py` starts and each attempt refuses, which is
what `FailsClosed` checks); README.md:100 promises a terminal event on every
stream (a stream whose poll fails just stops or is cut); a replayed submission is
answered `PENDING` even if its run has closed; README.md:92-93 promises one error envelope, which
errors other than `APIError` and validation errors do not get (routes_runs.py:223);
`CorrelationFilter` overwrites the `run_id` a caller passes as `extra`
(logging.py:30-31).

## Not modelled

* **Container flags, seccomp**: configuration that docker and the kernel interpret.
  The models start where a container exists or not; `TaskProgram` takes either
  outcome of a limit.
* **The words of plans, summaries, errors and events**: of a summary only which
  tail it quotes and whether it says completed is modelled.
* **Health probes, request id, error wording** of the API application: stateless. How
  a submission is refused is `Submission`'s `Refusal`; the same checks in front of the
  other routes are left out, since they change nothing.
* **decode("utf-8", "replace")**: a tail cut in the middle of a character begins with
  replacement characters; bytes are not grouped into characters in `SandboxOutput`.
* **Observability, deployment**: no other component reads them.
* **Worker start-up**: its preflight only logs.
* **External**: the Temporal server and SDK, the docker client and daemon, and the
  program, are modelled from how the code uses them. Assumed are: an activity's
  answer counts only from the current attempt; TRY_CANCEL; schedule-to-start is not
  retried; replay is deterministic; ids of known runs are rejected; attempts of a task are
  numbered from one; `memo` of a description is a coroutine method, as in the pinned
  temporalio 1.9.0.

## Plan

In the order of importance; all are done.

1. `RunLifecycle`, `AgentPipeline`: the run and its abstract specification; the
   proofs of its safety and refinement.
2. `SandboxActivity`: overlapping attempts, teardown, classification.
3. `SandboxClock`: time limits and heartbeats.
4. `StatusStream`, `Submission`: what clients see; the proofs about `Submission`.
5. `SandboxOutput`: the pipes, `_read_capped` and `_safe`, with proofs.
6. `TaskProgram`: from directives to verdicts.
7. Proofs of the safety of `SandboxActivity`, of `SandboxClock` for all settings, and
   of `StatusStream`.
8. Proofs about `TaskProgram`; `PipelineStream`, the stream against the workflow
   object itself, and its proofs; `OnlyThreeCancelsLeave`.

Still worth doing: a sandbox attempt as "launch at most once, end once, leave
nothing", which `SandboxActivity` without a late daemon implements; the workflow and
the attempts composed into one module, as `PipelineStream` composes workflow and
stream.

## Running it

    tlc -config pipeline.cfg MCAgentPipeline
    tlc -config sandbox_safety.cfg MCSandboxActivity
    tlc -config clock.cfg SandboxClock
    tlc -config program.cfg MCTaskProgram
    tlc -config stream.cfg StatusStream
    tlc -config submission.cfg MCSubmission
    tlapm AgentPipelineProofs.tla
    tlapm SandboxActivityProofs.tla
    tlapm SandboxClockProofs.tla
    tlapm StatusStreamProofs.tla
    tlapm SandboxOutputProofs.tla
    tlapm SubmissionProofs.tla
    tlapm TaskProgramProofs.tla
    tlapm PipelineStreamProofs.tla

The other configurations run with the module `PROJECT.json` names for them. Each
takes seconds to a minute; the proofs of a module take up to a few minutes.
