----------------------------- MODULE StatusStream -----------------------------
(* GET /runs/{id}/stream (app/api/routes_runs.py): one client's event stream, *)
(* which polls the status of a run that goes its own way meanwhile.  Every    *)
(* poll is at least two calls to the server, and the run may move on, end or  *)
(* be forgotten between any two of them; any of them may fail.                *)
(*                                                                            *)
(* The run is RunLifecycle, which AgentPipeline implements: the stream sees   *)
(* no more of it than that.                                                   *)
EXTENDS Naturals, Sequences

CONSTANTS
  MaxTicks,       \* polls in max_dur, workflow_run_timeout_s + 30 seconds
  KeepaliveEvery  \* idle polls from one keepalive to the next, 21 in the code

ASSUME TicksAssumption == MaxTicks \in Nat \ {0} /\ KeepaliveEvery \in Nat \ {0}

VARIABLES
  status, progress, verdict,  \* the run
  known,   \* the server still has the run
  at,      \* where the stream's generator awaits, or how it ended
  seen,    \* the status the poll's describe returned
  answer,  \* the RunStatusResponse of the poll
  last,    \* the answer last sent, or NoAnswer before the snapshot
  ticks,   \* polls so far
  sent     \* the events the client has been sent

Run == INSTANCE RunLifecycle

run == <<status, progress, verdict>>
vars == <<status, progress, verdict, known, at, seen, answer, last, ticks, sent>>

-----------------------------------------------------------------------------
(* What a status query shows: how many steps are listed, whether the last one *)
(* is settled, and the verdict, which the workflow keeps as its stage.  A run *)
(* cut off by the server leaves its steps as they were.                       *)
Views == [listed : 0..4, settled : BOOLEAN, verdict : {"none", "completed", "failed"}]

View ==
  [listed |-> IF progress = 0 /\ status = "CANCELED" THEN 1 ELSE progress,
   settled |-> status \in {"COMPLETED", "FAILED", "CANCELED"},
   verdict |-> verdict]

NoView == [listed |-> 0, settled |-> FALSE, verdict |-> "none"]
NoAnswer == [status |-> "none", view |-> NoView]

Answers == [status : {"none", "RUNNING", "COMPLETED", "FAILED", "TIMED_OUT", "CANCELLED"},
            view : Views]

(* _running: "RUNNING" is what describe said, the rest what the query says.   *)
Running(view) == [status |-> "RUNNING", view |-> view]

(* An API for which a run that completed is a success. *)
CompletedUnread == [status |-> "COMPLETED", view |-> NoView]

(* _completed: the status a client reads is that of the result.               *)
Completed ==
  [status |-> IF verdict = "completed" THEN "COMPLETED" ELSE "FAILED", view |-> NoView]

(* _terminal_failure. *)
TerminalFailure(st) ==
  [status |-> CASE st = "TIMED_OUT" -> "TIMED_OUT"
                [] st = "CANCELED"  -> "CANCELLED"
                [] OTHER            -> "FAILED",
   view |-> NoView]

(* _TERMINAL, and one spelt as the server spells it. *)
TerminalAsListed == {"COMPLETED", "FAILED", "TIMED_OUT", "CANCELED"}
Terminal == {"COMPLETED", "FAILED", "TIMED_OUT", "CANCELLED"}

(* _SSE_EVENT *)
SseEvent ==
  [st \in {"COMPLETED", "FAILED", "TIMED_OUT", "CANCELLED"} |->
     CASE st = "COMPLETED" -> "completed"
       [] st = "TIMED_OUT" -> "timed_out"
       [] OTHER            -> "failed"]

Event(kind, a) == [kind |-> kind, answer |-> a]
Done == Event("done", NoAnswer)

-----------------------------------------------------------------------------
Init ==
  /\ Run!Init
  /\ known = TRUE
  /\ at = "connect"
  /\ seen = "none"
  /\ answer = NoAnswer
  /\ last = NoAnswer
  /\ ticks = 0
  /\ sent = <<>>

Over == {"refused", "gone", "lost", "broken", "over"}

(* stream_run itself: a run the server does not know is a 404. *)
Connect ==
  /\ at = "connect"
  /\ at' = IF known THEN "poll" ELSE "refused"
  /\ UNCHANGED <<run, known, seen, answer, last, ticks, sent>>

(* _resolve_status, first call.  A run that is no longer there is an APIError,*)
(* on which the generator just stops.                                         *)
Describe ==
  /\ at = "poll"
  /\ IF known
     THEN /\ seen' = status
          /\ at' = IF status = "RUNNING" THEN "query" ELSE "result"
     ELSE at' = "lost" /\ UNCHANGED seen
  /\ UNCHANGED <<run, known, answer, last, ticks, sent>>

(* Second call, for a run described as running: the workflow answers, whether *)
(* it is still running or not, once it has begun.                             *)
Query ==
  /\ at = "query"
  /\ known
  /\ progress > 0 \/ status = "CANCELED"
  /\ answer' = Running(View)
  /\ at' = "send"
  /\ UNCHANGED <<run, known, seen, last, ticks, sent>>

(* Second call, for a run described as closed.  The result of one that did    *)
(* not complete is only asked for the words of its failure.                   *)
Result ==
  /\ at = "result"
  /\ seen = "COMPLETED" => known
  /\ answer' = IF seen = "COMPLETED" THEN Completed ELSE TerminalFailure(seen)
  /\ at' = "send"
  /\ UNCHANGED <<run, known, seen, last, ticks, sent>>

(* Any other error of a call leaves the generator as an exception, and the    *)
(* response is cut: no worker answers the query, the server is not reached.   *)
CallFails ==
  /\ \/ at \in {"connect", "poll", "query"}
     \/ at = "result" /\ seen = "COMPLETED"
  /\ at' = IF at = "connect" THEN "refused" ELSE "broken"
  /\ UNCHANGED <<run, known, seen, answer, last, ticks, sent>>

SendEnd ==
  /\ at = "send"
  /\ answer.status \in Terminal
  /\ sent' = sent
             \o (IF last = NoAnswer THEN <<Event("snapshot", answer)>> ELSE <<>>)
             \o <<Event(SseEvent[answer.status], answer), Done>>
  /\ at' = "over"
  /\ UNCHANGED <<run, known, seen, answer, last, ticks>>

(* A stream that remembers its snapshot but not its steps. *)
RememberSnapshot == IF last = NoAnswer THEN answer ELSE last
Remember == answer

SendProgress ==
  /\ at = "send"
  /\ answer.status \notin Terminal
  /\ \/ /\ last = NoAnswer
        /\ sent' = Append(sent, Event("snapshot", answer))
     \/ /\ last # NoAnswer
        /\ answer # last
        /\ sent' = Append(sent, Event("step", answer))
     \/ /\ answer = last
        /\ sent' = IF ticks % KeepaliveEvery = 0
                   THEN Append(sent, Event("keepalive", NoAnswer)) ELSE sent
  /\ last' = Remember
  /\ at' = "sleep"
  /\ UNCHANGED <<run, known, seen, answer, ticks>>

(* A stream without a maximal duration: its clock stops at the bound. *)
WakeForEver ==
  /\ at = "sleep"
  /\ ticks' = IF ticks < MaxTicks THEN ticks + 1 ELSE ticks
  /\ at' = "poll"
  /\ UNCHANGED <<run, known, seen, answer, last, sent>>

(* A stream that compares before it counts. *)
WakeOneLate ==
  /\ at = "sleep"
  /\ ticks' = ticks + 1
  /\ IF ticks > MaxTicks
     THEN sent' = Append(sent, Done) /\ at' = "over"
     ELSE at' = "poll" /\ UNCHANGED sent
  /\ UNCHANGED <<run, known, seen, answer, last>>

Wake ==
  /\ at = "sleep"
  /\ ticks' = ticks + 1
  /\ IF ticks' > MaxTicks
     THEN sent' = Append(sent, Done) /\ at' = "over"
     ELSE at' = "poll" /\ UNCHANGED sent
  /\ UNCHANGED <<run, known, seen, answer, last>>

(* The client hangs up: seen between polls, or at the next thing sent to it.  *)
HangUp ==
  /\ at \in {"poll", "send"}
  /\ at' = "gone"
  /\ UNCHANGED <<run, known, seen, answer, last, ticks, sent>>

-----------------------------------------------------------------------------
RunMoves == Run!Next /\ UNCHANGED <<known, at, seen, answer, last, ticks, sent>>

(* The server drops a closed run at the end of its retention. *)
Forgotten ==
  /\ known
  /\ status \in Run!Closed
  /\ known' = FALSE
  /\ UNCHANGED <<run, at, seen, answer, last, ticks, sent>>

Generator ==
  \/ Connect \/ Describe \/ Query \/ Result \/ CallFails
  \/ SendEnd \/ SendProgress \/ Wake

Next == Generator \/ HangUp \/ RunMoves \/ Forgotten

Spec == Init /\ [][Next]_vars

(* The generator goes on: a call returns or fails, a sleep ends.  Nothing is  *)
(* assumed of the run or of the client.                                       *)
FairSpec == Spec /\ WF_vars(Generator)

-----------------------------------------------------------------------------
Kinds == {"snapshot", "step", "keepalive", "completed", "failed", "timed_out", "done"}
Ends == {"completed", "failed", "timed_out"}

(* The generator is at one of its awaits, and its clock within its bound. *)
TypeOK ==
  /\ Run!TypeOK
  /\ known \in BOOLEAN
  /\ at \in {"connect", "poll", "query", "result", "send", "sleep"} \cup Over
  /\ seen \in {"none", "RUNNING"} \cup Run!Closed
  /\ answer \in Answers /\ last \in Answers
  /\ ticks \in 0..MaxTicks + 1
  /\ sent \in Seq([kind : Kinds, answer : Answers])

(* The end a client is told is the one the run came to, whatever happened to  *)
(* the run between the calls: "completed" only with a favourable verdict,     *)
(* "timed_out" only when the run's time was up, "failed" for all the rest -   *)
(* and an end is never told while the run goes on.                            *)
EndsAreTrue ==
  \A i \in 1..Len(sent) : sent[i].kind \in Ends =>
    sent[i].kind = CASE status = "COMPLETED" /\ verdict = "completed" -> "completed"
                     [] status = "TIMED_OUT" -> "timed_out"
                     [] status = "RUNNING" -> "none"
                     [] OTHER -> "failed"

(* A client can read the stream without knowing when it connected: a snapshot *)
(* opens it and comes once; an end comes once, right before "done"; "done" is *)
(* the last thing sent, and is sent whenever the generator ends of its own    *)
(* will - with the run's end if the last poll found it closed, without one if *)
(* the stream's own time was up.                                              *)
WellFormed ==
  LET n == Len(sent)
  IN /\ \A i \in 1..n : sent[i].kind = "snapshot" <=> i = 1
     /\ \A i \in 1..n : sent[i].kind = "done" => i = n
     /\ \A i \in 1..n : sent[i].kind \in Ends => i = n - 1
     /\ at = "over" <=> n > 0 /\ sent[n].kind = "done"
     /\ at = "over" => (sent[n-1].kind \in Ends <=> seen # "RUNNING")

(* Steps are news: each differs from what was sent before it, lists no fewer  *)
(* steps of the run, and takes back neither a verdict nor a settled step.     *)
StepsAreNews ==
  \A i, j \in 1..Len(sent) :
    i < j /\ sent[j].kind = "step" /\ sent[i].kind \in {"snapshot", "step"} =>
      LET old == sent[i].answer.view
          new == sent[j].answer.view
      IN /\ new # old
         /\ old.listed <= new.listed
         /\ old.settled => new.settled
         /\ old.verdict # "none" => new.verdict = old.verdict

(* A stream ends, even on a run that never does. *)
StreamEnds == <>(at \in Over)

=============================================================================
