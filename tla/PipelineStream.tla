---------------------------- MODULE PipelineStream ----------------------------
(* An event stream on a run of the pipeline: StatusStream's generator beside  *)
(* AgentPipeline's workflow, worker and server.  Where StatusStream takes a   *)
(* status query to show what RunLifecycle tells of the run, the query here is *)
(* answered by the workflow object that some worker holds, evicted, replayed  *)
(* and cancelled as it may be.                                                *)
EXTENDS AgentPipeline

CONSTANTS
  MaxTicks,       \* as in StatusStream
  KeepaliveEvery

VARIABLES
  known,   \* the server still has the run
  at,      \* where the stream's generator awaits, or how it ended
  seen,    \* the status the poll's describe returned
  reply,   \* the RunStatusResponse of the poll
  last,    \* the one last sent
  ticks,   \* polls so far
  sent     \* the events the client has been sent

stream == <<known, at, seen, reply, last, ticks, sent>>
streamVars == <<vars, stream>>

Stream == INSTANCE StatusStream
            WITH progress <- Progress, verdict <- result.status, answer <- reply

-----------------------------------------------------------------------------
StreamInit == Init /\ Stream!Init

(* What StatusStream keeps of the workflow's answer: how many steps it lists, *)
(* whether the last of them is settled, and the stage if it is a verdict.     *)
Shown(a) ==
  [listed  |-> Len(a.steps),
   settled |-> a.steps # <<>> /\ a.steps[Len(a.steps)].state # "running",
   verdict |-> IF a.stage \in {"completed", "failed"} THEN a.stage ELSE "none"]

(* The poll's query, of which nothing but `answer` changes in the pipeline.   *)
StreamQuery ==
  /\ at = "query"
  /\ known
  /\ Query
  /\ reply' = Stream!Running(Shown(answer'))
  /\ at' = "send"
  /\ UNCHANGED <<known, seen, last, ticks, sent>>

(* The stream's other calls and its sends read the run, or leave it aside.    *)
StreamCalls ==
  /\ UNCHANGED vars
  /\ \/ Stream!Connect \/ Stream!Describe \/ Stream!Result \/ Stream!CallFails
     \/ Stream!SendEnd \/ Stream!SendProgress \/ Stream!Wake \/ Stream!HangUp
     \/ Stream!Forgotten

(* The pipeline goes its way, other clients' queries included: those of a run *)
(* the server no longer has are not answered.                                 *)
PipelineMoves ==
  /\ Next
  /\ ~known => UNCHANGED answer
  /\ UNCHANGED stream

StreamNext == PipelineMoves \/ StreamQuery \/ StreamCalls

StreamSpec == StreamInit /\ [][StreamNext]_streamVars

-----------------------------------------------------------------------------
(* A client is told of a success, or shown the summary as a step of its run,  *)
(* only when the sandbox's recorded result was ok - whichever workers died,   *)
(* and however the run moved between the calls of a poll.                     *)
ToldIsEarned ==
  \A i \in 1..Len(sent) :
    sent[i].kind = "completed" \/ sent[i].answer.view.listed = 4 =>
      /\ Len(history) >= 4
      /\ history[4].kind = "completed"
      /\ Ok(history[4].value)

(* To the stream, the pipeline and its queries are what StatusStream says.    *)
ImplementsStream == Stream!Spec

=============================================================================
