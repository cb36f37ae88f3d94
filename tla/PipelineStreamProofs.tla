------------------------- MODULE PipelineStreamProofs -------------------------
(* Theorems about a stream on a run of the pipeline, for every set of         *)
(* outcomes, retry budget and number of crashes: what StatusStream takes for  *)
(* granted of the run and its queries holds of the workflow, so that what is  *)
(* proved of it there holds here; and a success is told only if earned.       *)
EXTENDS PipelineStream, AgentPipelineProofs

Facts == INSTANCE StatusStreamProofs
           WITH progress <- Progress, verdict <- result.status, answer <- reply

-----------------------------------------------------------------------------
(* The pipeline's status, in terms of its record: what is needed of it beyond *)
(* AgentPipelineProofs to know what a query shows after the run has closed.   *)
Account ==
  LET n == Len(history)
  IN IF Waits(history, n)
     THEN status \in {"RUNNING", "TIMED_OUT", "TERMINATED"}
     ELSE status = StatusAfter(At(history, n).exit)

LEMMA InitAccount == Init => Account
<1>. SUFFICES ASSUME Init PROVE Account
  OBVIOUS
<1>1. Len(history) = 0 /\ status = "RUNNING"
  BY EmptySeq DEF Init
<1>. QED
  BY <1>1 DEF Account, Waits

(* The command a workflow leaves with decides the status; a run that is cut   *)
(* off was awaiting a stage.                                                  *)
LEMMA StepKeepsAccount ==
  ASSUME IInv, IInv', Account, [Next]_vars
  PROVE  Account'
<1>1. CASE WorkflowTask
  <2>1. /\ status' = StatusAfter(wf'.exit) /\ cursor' = cursor + 1
        /\ cursor = Len(history)
        /\ \E e : history' = Append(history, e) /\ e \in Events
    <3>1. PICK wins \in BOOLEAN :
            /\ history' = Append(history, [inbox EXCEPT !.wins = wins])
            /\ status' = StatusAfter(wf'.exit)
      BY <1>1 DEF WorkflowTask
    <3>2. [inbox EXCEPT !.wins = wins] \in Events
      BY DEF IInv, Delivery, Events
    <3>. QED
      BY <1>1, <3>1, <3>2 DEF WorkflowTask, CaughtUp
  <2>2. Len(history') = Len(history) + 1
    BY <2>1, HistoryLength, AppendProperties DEF IInv, Log
  <2>3. wf' = At(history', Len(history'))
    BY <2>1, <2>2 DEF IInv, Cached
  <2>4. CASE Waits(history', Len(history'))
    <3>1. Len(history') \in 0..Len(history') /\ WellOrdered(history')
      BY HistoryLength DEF IInv, Log
    <3>2. wf' = Await(Len(history'), history'[4].value)
      BY <2>3, <2>4, <3>1, AtWaiting
    <3>3. wf'.exit = "none"
      BY <3>2 DEF Await, Fresh
    <3>. QED
      BY <2>1, <2>4, <3>3 DEF Account, StatusAfter
  <2>5. CASE ~Waits(history', Len(history'))
    BY <2>1, <2>3, <2>5 DEF Account
  <2>. QED
    BY <2>4, <2>5
<1>2. CASE ServerCloses
  <2>1. status = "RUNNING" /\ status' \in {"TIMED_OUT", "TERMINATED"} /\ history' = history
    BY <1>2 DEF ServerCloses, record
  <2>2. Waits(history, Len(history))
    BY <2>1 DEF IInv, Standing
  <2>. QED
    BY <2>1, <2>2 DEF Account
<1>3. CASE ~WorkflowTask /\ ~ServerCloses
  <2>1. UNCHANGED <<status, history>>
    BY <1>3 DEF Next, vars, Replay, PickUp, Returns, Raises, AttemptTimesOut, NobodyCame,
                BackoffEnds, RequestCancel, WorkerCrash, Query, record, server
  <2>. QED
    BY <2>1 DEF Account
<1>. QED
  BY <1>1, <1>2, <1>3

(* The stream moves the pipeline by its query at most. *)
LEMMA StreamStepsAreSteps == [StreamNext]_streamVars => [Next]_vars
BY DEF StreamNext, streamVars, PipelineMoves, StreamQuery, StreamCalls, Next

(* A stream leaves the pipeline what it is.                                   *)
LEMMA StreamedPipeline == StreamSpec => Spec
BY StreamStepsAreSteps, PTL DEF StreamSpec, StreamInit, Spec

LEMMA StreamedInvariance == StreamSpec => [](IInv /\ Account)
<1>1. Spec => []Account
  BY InitAccount, StepKeepsAccount, Invariance, PTL DEF Spec
<1>. QED
  BY <1>1, StreamedPipeline, Invariance, PTL

-----------------------------------------------------------------------------
(* What the workflow's answer shows is the view StatusStream has of the run.  *)

ShownOf(w) == Shown([stage |-> w.stage, steps |-> w.steps])

(* A workflow that awaits a stage. *)
LEMMA AwaitShows ==
  ASSUME NEW k \in 1..4, NEW v
  PROVE  ShownOf(Await(k, v)) = [listed |-> k, settled |-> FALSE, verdict |-> "none"]
<1>1. /\ Await(k, v).steps = Listed(k) /\ Await(k, v).stage = Pipeline[k]
  BY DEF Await
<1>2. /\ Len(Listed(k)) = k /\ Listed(k)[k] = Settled(k, "running", "none")
      /\ Listed(k) \in Seq(StepRecords)
  BY ListedTyped
<1>3. Listed(k)[k].state = "running" /\ Pipeline[k] \notin {"completed", "failed"}
  BY <1>2, StageNames DEF Settled
<1>. QED
  BY <1>1, <1>2, <1>3 DEF ShownOf, Shown

(* A workflow object whose k stages are settled. *)
LEMMA SettledShows ==
  ASSUME NEW k \in 1..4, NEW state \in {"completed", "failed"}, NEW detail \in Details,
         NEW stage
  PROVE  Shown([stage |-> stage, steps |-> ListedSettled(k, state, detail)]) =
           [listed |-> k, settled |-> TRUE,
            verdict |-> IF stage \in {"completed", "failed"} THEN stage ELSE "none"]
<1>. DEFINE s == ListedSettled(k, state, detail)
<1>1. Len(s) = k /\ s[k].state = state /\ s \in Seq(StepRecords)
  <2>1. state \in StepStates
    BY DEF StepStates
  <2>2. s \in Seq(StepRecords) /\ Len(s) = k
    BY <2>1, ListedSettledTyped
  <2>3. s[k].state = state
    BY <2>1, ListedSettledCoherent
  <2>. QED
    BY <2>2, <2>3
<1>. HIDE DEF s
<1>2. s # <<>>
  BY <1>1, EmptySeq
<1>. QED
  BY <1>1, <1>2 DEF Shown, s

(* A workflow that has left: what broke or cancelled stage k, or the run      *)
(* before its first, is no verdict.                                           *)
LEMMA BrokenShows ==
  ASSUME NEW k \in 1..4, NEW v, NEW exit
  PROVE  ShownOf(Broken(k, v, exit)) = [listed |-> k, settled |-> TRUE, verdict |-> "none"]
<1>1. Pipeline[k] \notin {"completed", "failed"} /\ "none" \in Details
  BY StageNames DEF Details
<1>2. ShownOf(Broken(k, v, exit)) =
        Shown([stage |-> Pipeline[k], steps |-> ListedSettled(k, "failed", "none")])
  BY DEF ShownOf, Broken
<1>. QED
  BY <1>1, <1>2, SettledShows

LEMMA LeftShows ==
  ASSUME NEW k \in 0..4, NEW v, NEW e, NEW w, Leaves(w, k, v, e)
  PROVE  \/ /\ w.exit \in {"cancelled", "raised"} /\ (k = 0 => w.exit = "cancelled")
            /\ ShownOf(w) = [listed |-> IF k = 0 THEN 1 ELSE k, settled |-> TRUE,
                             verdict |-> "none"]
         \/ /\ w.exit = "returned" /\ k = 3 /\ w.result.status = "failed"
            /\ ShownOf(w) = [listed |-> 3, settled |-> TRUE, verdict |-> "failed"]
         \/ /\ w.exit = "returned" /\ k = 4 /\ w.result.status = "completed"
            /\ ShownOf(w) = [listed |-> 4, settled |-> TRUE, verdict |-> "completed"]
<1>1. CASE k = 0 /\ w = Broken(1, v, "cancelled")
  <2>1. ShownOf(w) = [listed |-> 1, settled |-> TRUE, verdict |-> "none"]
    BY <1>1, BrokenShows
  <2>2. w.exit = "cancelled"
    BY <1>1 DEF Broken
  <2>. QED
    BY <1>1, <2>1, <2>2
<1>2. CASE k \in 1..4 /\ (w = Broken(k, v, "cancelled") \/ w = Broken(k, v, "raised"))
  <2>1. ShownOf(w) = [listed |-> k, settled |-> TRUE, verdict |-> "none"]
    BY <1>2, BrokenShows
  <2>2. w.exit \in {"cancelled", "raised"} /\ k # 0
    BY <1>2 DEF Broken
  <2>. QED
    BY <2>1, <2>2
<1>3. CASE k = 3 /\ w = Rejected(e.value)
  <2>1. ShownOf(w) = [listed |-> 3, settled |-> TRUE, verdict |-> "failed"]
    BY <1>3, SettledShows, ReasonTyped DEF ShownOf, Rejected
  <2>. QED
    BY <1>3, <2>1 DEF Rejected
<1>4. CASE k = 4 /\ w = Accepted(v)
  <2>1. ShownOf(w) = [listed |-> 4, settled |-> TRUE, verdict |-> "completed"]
    BY <1>4, SettledShows DEF ShownOf, Accepted, Details
  <2>. QED
    BY <1>4, <2>1 DEF Accepted
<1>. QED
  BY <1>1, <1>2, <1>3, <1>4 DEF Leaves

(* The view of a run in every way it can stand. *)
LEMMA ViewIs ==
  /\ status \in {"RUNNING", "TIMED_OUT", "TERMINATED"} =>
       Stream!View = [listed |-> Progress, settled |-> FALSE, verdict |-> result.status]
  /\ status \in {"COMPLETED", "FAILED", "CANCELED"} =>
       Stream!View = [listed |-> IF Progress = 0 /\ status = "CANCELED" THEN 1 ELSE Progress,
                      settled |-> TRUE, verdict |-> result.status]
<1>1. ASSUME status \in {"RUNNING", "TIMED_OUT", "TERMINATED"}
      PROVE  /\ (status \in {"COMPLETED", "FAILED", "CANCELED"}) = FALSE
             /\ ~ (Progress = 0 /\ status = "CANCELED")
  BY <1>1
<1>2. ASSUME status \in {"COMPLETED", "FAILED", "CANCELED"}
      PROVE  (status \in {"COMPLETED", "FAILED", "CANCELED"}) = TRUE
  BY <1>2
<1>. QED
  BY <1>1, <1>2, Zenon DEF Stream!View

(* The workflow's answer to a query is the view of the run, open or closed.   *)
LEMMA QueryShowsView ==
  ASSUME IInv, Account, Query
  PROVE  Shown(answer') = Stream!View
<1>1. WellOrdered(history) /\ Len(history) \in 0..5 /\ ProgressIs
  BY HistoryLength, ProgressLemma DEF IInv, Log
<1>2. PICK n \in 0..5 : n = Len(history)
  BY <1>1
<1>3. n # 0 /\ Shown(answer') = ShownOf(At(history, n))
  BY <1>2 DEF Query, CaughtUp, IInv, Cached, ShownOf
<1>4. CASE Waits(history, n)
  <2>1. n \in 1..4 /\ At(history, n) = Await(n, history[4].value)
    BY <1>1, <1>2, <1>3, <1>4, AtWaiting
  <2>2. Progress = n /\ status \in {"RUNNING", "TIMED_OUT", "TERMINATED"}
    BY <1>1, <1>2, <1>4 DEF ProgressIs, Account
  <2>3. result.status = "none"
    BY <2>2 DEF IInv, Standing, NoResult
  <2>4. Shown(answer') = [listed |-> n, settled |-> FALSE, verdict |-> "none"]
    BY <1>3, <2>1, AwaitShows
  <2>. QED
    BY <2>2, <2>3, <2>4, ViewIs
<1>5. CASE ~Waits(history, n)
  <2>1. PICK w : w = At(history, n)
    OBVIOUS
  <2>2. PICK k \in 0..4 : k = n - 1
    BY <1>2, <1>3
  <2>3. Leaves(w, k, history[4].value, history[n])
    BY <1>1, <1>2, <1>5, <2>1, <2>2, AtLeft
  <2>4. Progress = k /\ status = StatusAfter(w.exit)
    BY <1>1, <1>2, <1>5, <2>1, <2>2 DEF ProgressIs, Account
  <2>5. /\ status # "COMPLETED" => result.status = "none"
        /\ status = "COMPLETED" => result = w.result
    BY <1>2, <2>1 DEF IInv, Standing, NoResult
  <2>6. CASE /\ w.exit \in {"cancelled", "raised"} /\ (k = 0 => w.exit = "cancelled")
             /\ ShownOf(w) = [listed |-> IF k = 0 THEN 1 ELSE k, settled |-> TRUE,
                              verdict |-> "none"]
    BY <1>3, <2>1, <2>4, <2>5, <2>6, ViewIs DEF StatusAfter
  <2>7. CASE /\ w.exit = "returned"
             /\ \/ /\ k = 3 /\ w.result.status = "failed"
                   /\ ShownOf(w) = [listed |-> 3, settled |-> TRUE, verdict |-> "failed"]
                \/ /\ k = 4 /\ w.result.status = "completed"
                   /\ ShownOf(w) = [listed |-> 4, settled |-> TRUE, verdict |-> "completed"]
    BY <1>3, <2>1, <2>4, <2>5, <2>7, ViewIs DEF StatusAfter
  <2>. QED
    BY <2>3, <2>6, <2>7, LeftShows
<1>. QED
  BY <1>4, <1>5

-----------------------------------------------------------------------------
(* The stream on the pipeline is a stream on a run. *)

LEMMA StreamStepRefines ==
  ASSUME IInv, IInv', Account, [StreamNext]_streamVars
  PROVE  [Stream!Next]_(Stream!vars)
<1>1. CASE PipelineMoves
  <2>1. [Lifecycle!Next]_<<status, Progress, result.status>>
    BY <1>1, StepRefines DEF PipelineMoves
  <2>2. UNCHANGED stream
    BY <1>1 DEF PipelineMoves
  <2>3. CASE Lifecycle!Next
    <3>1. Stream!Run!Next
      BY <2>3 DEF Lifecycle!Next, Lifecycle!Advance, Lifecycle!Succeed, Lifecycle!Reject,
                  Lifecycle!Break, Lifecycle!Stop, Stream!Run!Next, Stream!Run!Advance,
                  Stream!Run!Succeed, Stream!Run!Reject, Stream!Run!Break, Stream!Run!Stop
    <3>. QED
      BY <2>2, <3>1 DEF Stream!Next, Stream!RunMoves, stream
  <2>4. CASE UNCHANGED <<status, Progress, result.status>>
    BY <2>2, <2>4 DEF Stream!vars, stream
  <2>. QED
    BY <2>1, <2>3, <2>4
<1>2. CASE StreamQuery
  <2>1. /\ at = "query" /\ known /\ Query /\ at' = "send"
        /\ reply' = Stream!Running(Shown(answer'))
        /\ UNCHANGED <<known, seen, last, ticks, sent>>
    BY <1>2 DEF StreamQuery
  <2>2. reply' = Stream!Running(Stream!View)
    BY <2>1, QueryShowsView
  <2>3. UNCHANGED <<status, result, history, commands>>
    BY <2>1 DEF Query, record, server
  <2>4. Progress' = Progress
    BY <2>3 DEF Progress
  <2>5. Progress > 0 \/ status = "CANCELED"
    <3>1. Len(history) \in 0..5 /\ Len(history) # 0 /\ ProgressIs
      <4>1. WellOrdered(history) /\ cursor = Len(history) /\ cursor > 0
        BY <2>1 DEF Query, CaughtUp, IInv, Log
      <4>2. Len(history) \in 0..5
        BY <4>1, HistoryLength
      <4>3. ProgressIs
        BY ProgressLemma
      <4>. QED
        BY <4>1, <4>2, <4>3
    <3>2. CASE Waits(history, Len(history))
      BY <3>1, <3>2 DEF ProgressIs
    <3>3. CASE ~Waits(history, Len(history)) /\ Len(history) = 1
      <4>1. 1 \in 0..Len(history) /\ 1 - 1 = 0
        BY <3>1
      <4>2. Leaves(At(history, 1), 0, history[4].value, history[1])
        BY <3>3, <4>1, AtLeft DEF IInv, Log
      <4>3. At(history, 1).exit = "cancelled"
        BY <4>2 DEF Leaves, Broken
      <4>. QED
        BY <3>3, <4>3 DEF Account, StatusAfter
    <3>4. CASE ~Waits(history, Len(history)) /\ Len(history) # 1
      BY <3>1, <3>4 DEF ProgressIs
    <3>. QED
      BY <3>2, <3>3, <3>4
  <2>6. Stream!Query
    BY <2>1, <2>2, <2>3, <2>4, <2>5 DEF Stream!Query, Stream!run
  <2>. QED
    BY <2>6 DEF Stream!Next, Stream!Generator
<1>3. CASE StreamCalls
  BY <1>3 DEF StreamCalls, Stream!Next, Stream!Generator
<1>4. CASE UNCHANGED streamVars
  <2>1. UNCHANGED <<status, result, commands>> /\ UNCHANGED stream
    BY <1>4 DEF streamVars, vars
  <2>2. Progress' = Progress
    BY <2>1 DEF Progress
  <2>. QED
    BY <2>1, <2>2 DEF Stream!vars, stream
<1>. QED
  BY <1>1, <1>2, <1>3, <1>4 DEF StreamNext

(* routes_runs.py takes the workflow's own status for the truth about a run:  *)
(* whatever crashes, is replayed, retried or cancelled, that answer is what   *)
(* the run's lifecycle makes it, and the stream is a StatusStream.            *)
THEOREM PipelineStreamsAreStreams == StreamSpec => ImplementsStream
<1>1. StreamInit => Stream!Init
  BY DEF StreamInit
<1>2. IInv /\ Account /\ IInv' /\ [StreamNext]_streamVars => [Stream!Next]_(Stream!vars)
  BY StreamStepRefines
<1>. QED
  BY <1>1, <1>2, StreamedInvariance, PTL DEF StreamSpec, ImplementsStream, Stream!Spec

-----------------------------------------------------------------------------
(* What is proved of StatusStream, of the stream on the pipeline. *)

Bounds == MaxTicks \in Nat \ {0} /\ KeepaliveEvery \in Nat \ {0}

(* The two instances of StatusStream are one specification. *)
LEMMA FactsApply == ImplementsStream => Facts!Spec
<1>1. Stream!Init => Facts!Init
  BY DEF Stream!Init, Facts!Init, Stream!Run!Init, Facts!Run!Init, Stream!NoAnswer,
         Facts!NoAnswer, Stream!NoView, Facts!NoView
<1>2. Stream!Run!Next <=> Facts!Run!Next
  BY DEF Stream!Run!Next, Facts!Run!Next, Stream!Run!Advance,
         Facts!Run!Advance, Stream!Run!Succeed, Facts!Run!Succeed,
         Stream!Run!Reject, Facts!Run!Reject, Stream!Run!Break,
         Facts!Run!Break, Stream!Run!Stop, Facts!Run!Stop, Stream!Run!Closed,
         Facts!Run!Closed
<1>3. Stream!Next => Facts!Next
  <2>. USE DEF Stream!run, Facts!run, Stream!View, Facts!View, Stream!Running,
               Facts!Running, Stream!Completed, Facts!Completed,
               Stream!TerminalFailure, Facts!TerminalFailure, Stream!Terminal,
               Facts!Terminal, Stream!SseEvent, Facts!SseEvent, Stream!Event,
               Facts!Event, Stream!Done, Facts!Done, Stream!NoAnswer,
               Facts!NoAnswer, Stream!NoView, Facts!NoView, Stream!Remember,
               Facts!Remember, Stream!Run!Closed, Facts!Run!Closed
  <2>. QED
    BY <1>2 DEF Stream!Next, Facts!Next, Stream!Connect, Facts!Connect,
                Stream!Describe, Facts!Describe, Stream!Query, Facts!Query,
                Stream!Result, Facts!Result, Stream!CallFails, Facts!CallFails,
                Stream!SendEnd, Facts!SendEnd, Stream!SendProgress,
                Facts!SendProgress, Stream!Wake, Facts!Wake, Stream!HangUp,
                Facts!HangUp, Stream!RunMoves, Facts!RunMoves,
                Stream!Forgotten, Facts!Forgotten, Stream!Generator,
                Facts!Generator
<1>4. [Stream!Next]_(Stream!vars) => [Facts!Next]_(Facts!vars)
  BY <1>3 DEF Stream!vars, Facts!vars
<1>. QED
  BY <1>1, <1>4, PTL DEF ImplementsStream, Stream!Spec, Facts!Spec

(* stream_run on the real workflow: the end a client is told is the one its   *)
(* run came to.                                                               *)
THEOREM PipelineClientsAreToldTheEnd == Bounds => (StreamSpec => []Stream!EndsAreTrue)
<1>1. Bounds => (Facts!Spec => []Facts!EndsAreTrue)
  BY Facts!ClientsAreToldTheEnd DEF Bounds
<1>2. Facts!EndsAreTrue => Stream!EndsAreTrue
  BY DEF Facts!EndsAreTrue, Stream!EndsAreTrue, Facts!Ends, Stream!Ends
<1>. QED
  BY <1>1, <1>2, FactsApply, PipelineStreamsAreStreams, PTL

(* stream_run's events on the real workflow: a snapshot opens the stream, and *)
(* nothing follows "done".                                                    *)
THEOREM PipelineStreamsAreWellFormed == Bounds => (StreamSpec => []Stream!WellFormed)
<1>1. Bounds => (Facts!Spec => []Facts!WellFormed)
  BY Facts!StreamsAreWellFormed DEF Bounds
<1>2. Facts!WellFormed => Stream!WellFormed
  BY DEF Facts!WellFormed, Stream!WellFormed, Facts!Ends, Stream!Ends
<1>. QED
  BY <1>1, <1>2, FactsApply, PipelineStreamsAreStreams, PTL

(* The steps a client is sent go on from what it was sent before, although    *)
(* the workflow object that tells them may have been lost and rebuilt.        *)
THEOREM PipelineStepsOnlyGoOn == Bounds => (StreamSpec => []Stream!StepsAreNews)
<1>1. Bounds => (Facts!Spec => []Facts!StepsAreNews)
  BY Facts!StepsOnlyGoOn DEF Bounds
<1>2. Facts!StepsAreNews => Stream!StepsAreNews
  BY DEF Facts!StepsAreNews, Stream!StepsAreNews
<1>. QED
  BY <1>1, <1>2, FactsApply, PipelineStreamsAreStreams, PTL

(* Its variables have the types StatusStream gives them. *)
LEMMA StreamTyped == Bounds => (StreamSpec => []Facts!TypeOK)
<1>1. Bounds => (Facts!Spec => []Facts!TypeOK)
  BY Facts!TypeCorrect DEF Bounds
<1>. QED
  BY <1>1, FactsApply, PipelineStreamsAreStreams, PTL

-----------------------------------------------------------------------------
(* A success is earned. *)

(* The sandbox's recorded result, and it was ok. *)
Evidence ==
  /\ Len(history) >= 4
  /\ history[4].kind = "completed"
  /\ Ok(history[4].value)

(* No answer lists the summary without it, be it read or sent.                *)
Listing ==
  /\ reply.view.listed = 4 => Evidence
  /\ \A i \in 1..Len(sent) : sent[i].answer.view.listed = 4 => Evidence

(* The summary is ordered, and a run judged a success, on an ok result only.  *)
LEMMA FourMeansEarned ==
  ASSUME IInv, Progress = 4 \/ result.status = "completed"
  PROVE  Evidence
<1>1. WellOrdered(history) /\ Len(history) \in 0..5 /\ ProgressIs
  BY HistoryLength, ProgressLemma DEF IInv, Log
<1>2. result.status = "completed" => Len(history) = 5
  BY CompletedMeans DEF IInv, Standing, NoResult
<1>3. CASE Len(history) = 5
  <2>1. 4 \in 1..Len(history) /\ 4 < Len(history) /\ 4 - 1 = 3
    BY <1>3
  <2>2. GoesOn(3, history[4])
    BY <1>1, <2>1 DEF WellOrdered
  <2>. QED
    BY <1>3, <2>2 DEF GoesOn, Evidence
<1>4. CASE Len(history) # 5 /\ Progress = 4
  <2>1. Waits(history, Len(history))
    BY <1>1, <1>4 DEF ProgressIs
  <2>2. Len(history) = 4
    BY <1>1, <1>4, <2>1 DEF ProgressIs
  <2>3. GoesOn(3, history[4])
    <3>1. 4 # 0 /\ 4 - 1 = 3
      OBVIOUS
    <3>. QED
      BY <2>1, <2>2, <3>1 DEF Waits
  <2>. QED
    BY <2>2, <2>3 DEF GoesOn, Evidence
<1>. QED
  BY <1>2, <1>3, <1>4

(* What has been recorded stays. *)
LEMMA EvidenceStays ==
  ASSUME IInv, Evidence, [StreamNext]_streamVars
  PROVE  Evidence'
<1>1. [Next]_vars
  BY StreamStepsAreSteps
<1>2. CASE WorkflowTask
  <2>1. PICK e : history' = Append(history, e) /\ e \in Events
    <3>1. PICK wins \in BOOLEAN : history' = Append(history, [inbox EXCEPT !.wins = wins])
      BY <1>2 DEF WorkflowTask
    <3>2. [inbox EXCEPT !.wins = wins] \in Events
      BY DEF IInv, Delivery, Events
    <3>. QED
      BY <3>1, <3>2
  <2>2. history \in Seq(Events) /\ Len(history) \in 0..5
    BY HistoryLength DEF IInv, Log
  <2>3. Len(history') = Len(history) + 1 /\ \A i \in 1..Len(history) : history'[i] = history[i]
    BY <2>1, <2>2, AppendProperties
  <2>. QED
    BY <2>2, <2>3 DEF Evidence
<1>3. CASE ~WorkflowTask
  <2>1. history' = history
    BY <1>1, <1>3 DEF Next, vars, Replay, PickUp, Returns, Raises, AttemptTimesOut, NobodyCame,
                      BackoffEnds, RequestCancel, ServerCloses, WorkerCrash, Query, record
  <2>. QED
    BY <2>1 DEF Evidence
<1>. QED
  BY <1>2, <1>3

(* Every event sent is of the poll's answer, or of none. *)
Grows(s, t) ==
  \A i \in 1..Len(t) :
    \/ i \in 1..Len(s) /\ t[i] = s[i]
    \/ t[i].answer = reply
    \/ t[i].answer = Facts!NoAnswer

(* Two events at once are one after the other. *)
LEMMA ConcatIsAppend ==
  ASSUME NEW S, NEW s \in Seq(S), NEW a \in S, NEW b \in S
  PROVE  s \o <<a, b>> = Append(Append(s, a), b)
<1>. DEFINE t == Append(s, a)
            u == Append(t, b)
            c == s \o <<a, b>>
<1>1. Len(s) \in Nat
  BY LenProperties
<1>2. /\ t \in Seq(S) /\ Len(t) = Len(s) + 1 /\ t[Len(s) + 1] = a
      /\ \A i \in 1..Len(s) : t[i] = s[i]
  BY AppendProperties
<1>3. /\ u \in Seq(S) /\ Len(u) = Len(t) + 1 /\ u[Len(t) + 1] = b
      /\ \A i \in 1..Len(t) : u[i] = t[i]
  BY <1>2, AppendProperties
<1>4. <<a, b>> \in Seq(S) /\ Len(<<a, b>>) = 2 /\ <<a, b>>[1] = a /\ <<a, b>>[2] = b
  OBVIOUS
<1>5. /\ c \in Seq(S) /\ Len(c) = Len(s) + 2
      /\ \A i \in 1..Len(s) : c[i] = s[i]
      /\ c[Len(s) + 1] = a /\ c[Len(s) + 2] = b
  BY <1>1, <1>4, ConcatProperties
<1>. HIDE DEF t, u, c
<1>6. \A i \in 1..Len(c) : c[i] = u[i]
  <2>. SUFFICES ASSUME NEW i \in 1..Len(c) PROVE c[i] = u[i]
    OBVIOUS
  <2>1. i \in 1..Len(s) \/ i = Len(s) + 1 \/ i = Len(s) + 2
    BY <1>1, <1>5
  <2>. QED
    BY <1>1, <1>2, <1>3, <1>5, <2>1
<1>7. Len(c) = Len(u)
  BY <1>1, <1>2, <1>3, <1>5
<1>8. c = u
  BY <1>3, <1>5, <1>6, <1>7, SeqEqual
<1>. QED
  BY <1>8 DEF c, u, t

LEMMA OneEventMore ==
  ASSUME NEW s \in Seq(Facts!EventRecords), NEW kind \in Facts!Kinds,
         NEW a \in Facts!Answers, a = reply \/ a = Facts!NoAnswer
  PROVE  /\ Append(s, Facts!Event(kind, a)) \in Seq(Facts!EventRecords)
         /\ Grows(s, Append(s, Facts!Event(kind, a)))
<1>. DEFINE e == Facts!Event(kind, a)
<1>1. e \in Facts!EventRecords /\ e.answer = a
  BY DEF Facts!Event, Facts!EventRecords
<1>. HIDE DEF e
<1>2. /\ Append(s, e) \in Seq(Facts!EventRecords)
      /\ Len(s) \in Nat /\ Len(Append(s, e)) = Len(s) + 1
      /\ \A i \in 1..Len(s) : Append(s, e)[i] = s[i]
      /\ Append(s, e)[Len(s) + 1] = e
  BY <1>1, AppendProperties, LenProperties
<1>3. Grows(s, Append(s, e))
  BY <1>1, <1>2 DEF Grows
<1>. QED
  BY <1>2, <1>3 DEF e

LEMMA GrowsTransitive ==
  ASSUME NEW s, NEW t, NEW u, Grows(s, t), Grows(t, u)
  PROVE  Grows(s, u)
BY DEF Grows

LEMMA SendsGrow ==
  ASSUME Facts!TypeOK, [StreamNext]_streamVars
  PROVE  Grows(sent, sent')
<1>1. /\ sent \in Seq(Facts!EventRecords) /\ Len(sent) \in Nat
      /\ reply \in Facts!Answers /\ Facts!NoAnswer \in Facts!Answers
  BY LenProperties DEF Facts!TypeOK, Facts!EventRecords, Facts!NoAnswer, Facts!NoView,
                       Facts!Answers, Facts!Views
<1>2. CASE sent' = sent
  BY <1>2 DEF Grows
<1>3. CASE Stream!SendProgress
  <2>1. \/ sent' = sent
        \/ sent' = Append(sent, Facts!Event("snapshot", reply))
        \/ sent' = Append(sent, Facts!Event("step", reply))
        \/ sent' = Append(sent, Facts!Event("keepalive", Facts!NoAnswer))
    BY <1>3 DEF Stream!SendProgress, Stream!Event, Facts!Event, Stream!NoAnswer, Facts!NoAnswer,
                Stream!NoView, Facts!NoView
  <2>. QED
    BY <1>1, <1>2, <2>1, OneEventMore DEF Facts!Kinds
<1>4. CASE Stream!Wake
  <2>1. sent' = sent \/ sent' = Append(sent, Facts!Event("done", Facts!NoAnswer))
    BY <1>4 DEF Stream!Wake, Stream!Done, Stream!Event, Facts!Event, Stream!NoAnswer,
                Facts!NoAnswer, Stream!NoView, Facts!NoView
  <2>. QED
    BY <1>1, <1>2, <2>1, OneEventMore DEF Facts!Kinds
<1>5. CASE Stream!SendEnd
  <2>. DEFINE first == Facts!Event("snapshot", reply)
              end   == Facts!Event(Facts!SseEvent[reply.status], reply)
              done  == Facts!Event("done", Facts!NoAnswer)
              pre   == IF last = Facts!NoAnswer THEN Append(sent, first) ELSE sent
  <2>1. Facts!SseEvent[reply.status] \in Facts!Kinds
    BY <1>5 DEF Stream!SendEnd, Stream!Terminal, Facts!SseEvent, Facts!Kinds
  <2>2. pre \in Seq(Facts!EventRecords) /\ Grows(sent, pre)
    <3>1. CASE last = Facts!NoAnswer
      BY <1>1, <3>1, OneEventMore DEF Facts!Kinds
    <3>2. CASE last # Facts!NoAnswer
      BY <1>1, <3>2 DEF Grows
    <3>. QED
      BY <3>1, <3>2
  <2>3. Append(pre, end) \in Seq(Facts!EventRecords) /\ Grows(pre, Append(pre, end))
    BY <1>1, <2>1, <2>2, OneEventMore
  <2>4. Grows(Append(pre, end), Append(Append(pre, end), done))
    BY <1>1, <2>3, OneEventMore DEF Facts!Kinds
  <2>5. sent' = Append(Append(pre, end), done)
    <3>1. end \in Facts!EventRecords /\ done \in Facts!EventRecords
          /\ first \in Facts!EventRecords
      BY <1>1, <2>1 DEF Facts!Event, Facts!EventRecords, Facts!Kinds
    <3>2. sent' = sent \o (IF last = Facts!NoAnswer THEN <<first>> ELSE <<>>) \o <<end, done>>
      BY <1>5 DEF Stream!SendEnd, Stream!Event, Stream!Done, Stream!NoAnswer, Stream!NoView,
                  Stream!SseEvent, Facts!SseEvent, Facts!Event, Facts!NoAnswer, Facts!NoView
    <3>3. sent \o (IF last = Facts!NoAnswer THEN <<first>> ELSE <<>>) = pre
      <4>. HIDE DEF first
      <4>1. sent \o <<>> = sent /\ sent \o <<first>> = Append(sent, first)
        BY <1>1, <3>1, ConcatEmptySeq, AppendIsConcat
      <4>. QED
        BY <4>1
    <3>. HIDE DEF pre, end, done
    <3>4. sent' = pre \o <<end, done>>
      BY <3>2, <3>3
    <3>. QED
      BY <2>2, <3>1, <3>4, ConcatIsAppend
  <2>. QED
    BY <2>2, <2>3, <2>4, <2>5, GrowsTransitive
<1>6. \/ sent' = sent \/ Stream!SendProgress \/ Stream!Wake \/ Stream!SendEnd
  BY DEF StreamNext, streamVars, stream, PipelineMoves, StreamQuery, StreamCalls, Stream!Connect,
         Stream!Describe, Stream!Result, Stream!CallFails, Stream!HangUp, Stream!Forgotten
<1>. QED
  BY <1>2, <1>3, <1>4, <1>5, <1>6

(* A poll reads the view of the run, or a result that lists nothing. *)
LEMMA StepKeepsListing ==
  ASSUME IInv, Account, Facts!TypeOK, Listing, [StreamNext]_streamVars
  PROVE  Listing'
<1>1. Evidence => Evidence'
  BY EvidenceStays
<1>2. reply'.view.listed = 4 => Evidence'
  <2>1. CASE reply' = reply
    BY <1>1, <2>1 DEF Listing
  <2>2. CASE StreamQuery
    <3>1. reply' = Stream!Running(Stream!View)
      BY <2>2, QueryShowsView DEF StreamQuery
    <3>2. reply'.view.listed = 4 => Progress = 4
      BY <3>1 DEF Stream!Running, Stream!View
    <3>. QED
      BY <1>1, <3>2, FourMeansEarned
  <2>3. CASE Stream!Result
    <3>1. reply'.view.listed = 0
      BY <2>3 DEF Stream!Result, Stream!Completed, Stream!TerminalFailure, Stream!NoView
    <3>. QED
      BY <3>1
  <2>4. reply' = reply \/ StreamQuery \/ Stream!Result
    BY DEF StreamNext, streamVars, stream, PipelineMoves, StreamCalls, Stream!Connect,
           Stream!Describe, Stream!CallFails, Stream!SendEnd, Stream!SendProgress, Stream!Wake,
           Stream!HangUp, Stream!Forgotten
  <2>. QED
    BY <2>1, <2>2, <2>3, <2>4
<1>3. ASSUME NEW i \in 1..Len(sent'), sent'[i].answer.view.listed = 4
      PROVE  Evidence'
  <2>1. Facts!NoAnswer.view.listed = 0
    BY DEF Facts!NoAnswer, Facts!NoView
  <2>2. \/ i \in 1..Len(sent) /\ sent'[i] = sent[i]
        \/ sent'[i].answer = reply
    BY <1>3, <2>1, SendsGrow DEF Grows
  <2>. QED
    BY <1>1, <1>3, <2>2 DEF Listing
<1>. QED
  BY <1>2, <1>3 DEF Listing

LEMMA ListingIsEarned == Bounds => (StreamSpec => []Listing)
<1>1. StreamInit => Listing
  <2>. SUFFICES ASSUME StreamInit PROVE Listing
    OBVIOUS
  <2>1. sent = <<>> /\ reply.view.listed = 0
    BY DEF StreamInit, Stream!Init, Stream!NoAnswer, Stream!NoView
  <2>2. Len(sent) = 0
    BY <2>1, EmptySeq
  <2>. QED
    BY <2>1, <2>2 DEF Listing
<1>2. IInv /\ Account /\ Facts!TypeOK /\ Listing /\ [StreamNext]_streamVars => Listing'
  BY StepKeepsListing
<1>. QED
  BY <1>1, <1>2, StreamedInvariance, StreamTyped, PTL DEF StreamSpec

(* From the sandbox to the client: whichever workers die, attempts overlap or *)
(* calls fail, a client is told of a success, or shown the summary as a step, *)
(* only if the run's recorded sandbox result was ok.                          *)
THEOREM SuccessIsEarned == Bounds => (StreamSpec => []ToldIsEarned)
<1>1. IInv /\ Facts!TypeOK /\ Stream!EndsAreTrue /\ Listing => ToldIsEarned
  <2>. SUFFICES ASSUME IInv, Facts!TypeOK, Stream!EndsAreTrue, Listing,
                       NEW i \in 1..Len(sent),
                       sent[i].kind = "completed" \/ sent[i].answer.view.listed = 4
                PROVE  Evidence
    BY DEF ToldIsEarned, Evidence
  <2>1. CASE sent[i].kind = "completed"
    <3>1. result.status = "completed"
      BY <2>1 DEF Stream!EndsAreTrue, Stream!Ends
    <3>. QED
      BY <3>1, FourMeansEarned
  <2>2. CASE sent[i].answer.view.listed = 4
    BY <2>2 DEF Listing
  <2>. QED
    BY <2>1, <2>2
<1>. QED
  BY <1>1, StreamedInvariance, StreamTyped, PipelineClientsAreToldTheEnd, ListingIsEarned, PTL

=============================================================================
