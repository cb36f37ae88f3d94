------------------------- MODULE AgentPipelineProofs -------------------------
(* What AgentPipeline guarantees for every set of outcomes, every retry       *)
(* budget and every number of crashes.                                        *)
EXTENDS AgentPipeline, SequenceTheorems, TLAPS

-----------------------------------------------------------------------------
(* The workflow object in closed form, as it awaits stage k.                  *)

Settled(k, state, detail) ==
  [name |-> Pipeline[k], state |-> state, detail |-> detail]

Listed(k) ==
  [i \in 1..k |-> IF i < k THEN Settled(i, "completed", "none")
                           ELSE Settled(i, "running", "none")]

Await(k, v) ==
  IF k = 0 THEN Fresh
  ELSE [at |-> k, stage |-> Pipeline[k], steps |-> Listed(k),
        sbx |-> IF k = 4 THEN v ELSE NoOutcome, exit |-> "none",
        result |-> NoResult]

(* The list when stage k has been settled. *)
ListedSettled(k, state, detail) ==
  [i \in 1..k |-> IF i < k THEN Settled(i, "completed", "none")
                           ELSE Settled(i, state, detail)]

Values == Outcomes \cup {NoOutcome}
Details == FailureReasons \cup {"none"}
StepStates == {"running", "completed", "failed"}

(* The names of the stages are what StepRecords and Stages say they are. *)
LEMMA StageNames ==
  /\ \A k \in 1..4 : Pipeline[k] \in Steps
  /\ \A k \in 1..4 : Pipeline[k] \notin Exits
  /\ \A k \in 1..4 : Pipeline[k] \notin {"queued", "completed", "failed"}
BY DEF Pipeline, Steps, Exits

(* A settled record of a stage is a step record. *)
LEMMA SettledTyped ==
  ASSUME NEW k \in 1..4, NEW state \in StepStates, NEW detail \in Details
  PROVE  Settled(k, state, detail) \in StepRecords
BY StageNames DEF Settled, StepRecords, StepStates, Details

(* The first k stages, the last settled in a given way, are a list of step records. *)
LEMMA ListedSettledTyped ==
  ASSUME NEW k \in 1..4, NEW state \in StepStates, NEW detail \in Details
  PROVE  /\ ListedSettled(k, state, detail) \in Seq(StepRecords)
         /\ Len(ListedSettled(k, state, detail)) = k
<1>1. \A i \in 1..k : i \in 1..4 /\ ListedSettled(k, state, detail)[i] \in StepRecords
  BY SettledTyped DEF ListedSettled, StepStates, Details
<1>2. ListedSettled(k, state, detail) \in [1..k -> StepRecords]
  BY <1>1 DEF ListedSettled
<1> QED
  BY <1>2

(* The first k stages, the last still running, are such a list. *)
LEMMA ListedTyped ==
  ASSUME NEW k \in 1..4
  PROVE  /\ Listed(k) = ListedSettled(k, "running", "none")
         /\ Listed(k) \in Seq(StepRecords)
         /\ Len(Listed(k)) = k
         /\ Listed(k)[k] = Settled(k, "running", "none")
<1>1. Listed(k) = ListedSettled(k, "running", "none")
  BY DEF Listed, ListedSettled
<1>2. "running" \in StepStates /\ "none" \in Details
  BY DEF StepStates, Details
<1>3. Listed(k)[k] = Settled(k, "running", "none")
  BY DEF Listed
<1> QED BY <1>1, <1>2, <1>3, ListedSettledTyped

(* Settling the last record of a list touches no other. *)
LEMMA SettleLast ==
  ASSUME NEW k \in 1..4, NEW state \in StepStates, NEW detail \in Details
  PROVE  [Listed(k) EXCEPT ![k] = Settled(k, state, detail)]
           = ListedSettled(k, state, detail)
<1>1. [Listed(k) EXCEPT ![k] = Settled(k, state, detail)]
        = [i \in 1..k |-> IF i = k THEN Settled(k, state, detail) ELSE Listed(k)[i]]
  BY DEF Listed
<1>2. \A i \in 1..k : i # k => i < k /\ Listed(k)[i] = Settled(i, "completed", "none")
  BY DEF Listed
<1> QED BY <1>1, <1>2 DEF ListedSettled

(* Settling the last stage and listing the next one gives the next list. *)
LEMMA ListNext ==
  ASSUME NEW k \in 1..3
  PROVE  Append(ListedSettled(k, "completed", "none"), Settled(k + 1, "running", "none"))
           = Listed(k + 1)
<1> DEFINE old == ListedSettled(k, "completed", "none")
           new == Settled(k + 1, "running", "none")
<1>1. k \in 1..4 /\ k + 1 \in 1..4 /\ "completed" \in StepStates
      /\ "running" \in StepStates /\ "none" \in Details
  BY DEF StepStates, Details
<1>2. old \in Seq(StepRecords) /\ Len(old) = k /\ new \in StepRecords
  BY <1>1, ListedSettledTyped, SettledTyped
<1>3. Listed(k + 1) \in Seq(StepRecords) /\ Len(Listed(k + 1)) = k + 1
  BY <1>1, ListedTyped
<1>4. /\ Append(old, new) \in Seq(StepRecords)
      /\ Len(Append(old, new)) = k + 1
      /\ \A i \in 1..k : Append(old, new)[i] = old[i]
      /\ Append(old, new)[k + 1] = new
  BY <1>2, AppendProperties
<1>5. \A i \in 1..k + 1 : Append(old, new)[i] = Listed(k + 1)[i]
  <2> SUFFICES ASSUME NEW i \in 1..k + 1
               PROVE  Append(old, new)[i] = Listed(k + 1)[i]
    OBVIOUS
  <2>0. i \in 1..k \/ i = k + 1
    OBVIOUS
  <2>1. CASE i \in 1..k
    BY <2>1, <1>4 DEF Listed, ListedSettled
  <2>2. CASE i = k + 1
    <3>1. Listed(k + 1)[k + 1] = new
      BY <1>1, ListedTyped
    <3> QED BY <2>2, <3>1, <1>4
  <2> QED BY <2>0, <2>1, <2>2
<1> QED BY <1>3, <1>4, <1>5, SeqEqual

(* The first stage makes the first list. *)
LEMMA ListFirst == Append(<<>>, Settled(1, "running", "none")) = Listed(1)
<1> DEFINE new == Settled(1, "running", "none")
<1>1. new \in StepRecords
  BY SettledTyped DEF StepStates, Details
<1>2. Listed(1) \in Seq(StepRecords) /\ Len(Listed(1)) = 1 /\ Listed(1)[1] = new
  BY ListedTyped
<1>3. <<>> \in Seq(StepRecords) /\ Len(<<>>) = 0
  OBVIOUS
<1>4. /\ Append(<<>>, new) \in Seq(StepRecords)
      /\ Len(Append(<<>>, new)) = 1
      /\ Append(<<>>, new)[1] = new
  BY <1>1, <1>3, AppendProperties
<1> QED BY <1>2, <1>4, SeqEqual

-----------------------------------------------------------------------------
(* The helpers of the workflow, on objects of the right type.                 *)

(* A failure reason is a step detail. *)
LEMMA ReasonTyped == \A v : FailureReason(v) \in Details
BY DEF FailureReason, Details, FailureReasons

(* A workflow awaiting stage k is a workflow object. *)
LEMMA AwaitTyped ==
  ASSUME NEW k \in 0..4, NEW v, k = 4 => v \in Values
  PROVE  Await(k, v) \in Workflows
<1>1. CASE k = 0
  BY <1>1 DEF Await, Fresh, Workflows, NoResult, Results, Values, Stages, Exits
<1>2. CASE k \in 1..4
  <2>1. Listed(k) \in Seq(StepRecords)
    BY <1>2, ListedTyped
  <2>2. Pipeline[k] \in Stages
    BY <1>2, StageNames DEF Stages
  <2>3. NoResult \in Results
    BY DEF NoResult, Results
  <2> QED
    BY <1>2, <2>1, <2>2, <2>3 DEF Await, Workflows, Values
<1> QED BY <1>1, <1>2

(* What settling one record does to a workflow object, field by field. *)
LEMMA StepUpdate ==
  ASSUME NEW r \in StepRecords, NEW a \in StepStates, NEW b \in Details
  PROVE  [r EXCEPT !.state = a, !.detail = b]
           = [name |-> r.name, state |-> a, detail |-> b]
<1> DEFINE new == [r EXCEPT !.state = a, !.detail = b]
<1>1. new \in StepRecords
  BY DEF StepRecords, StepStates, Details
<1>2. new.name = r.name /\ new.state = a /\ new.detail = b
  BY DEF StepRecords
<1> HIDE DEF new
<1>3. new = [name |-> new.name, state |-> new.state, detail |-> new.detail]
  BY <1>1 DEF StepRecords
<1> QED BY <1>2, <1>3 DEF new

(* What entering a stage does to a workflow object, field by field. *)
LEMMA EnterUpdate ==
  ASSUME NEW w \in Workflows, NEW a \in 0..5, NEW b \in Stages,
         NEW c \in Seq(StepRecords)
  PROVE  [w EXCEPT !.at = a, !.stage = b, !.steps = c]
           = [at |-> a, stage |-> b, steps |-> c,
              sbx |-> w.sbx, exit |-> w.exit, result |-> w.result]
<1> DEFINE new == [w EXCEPT !.at = a, !.stage = b, !.steps = c]
<1>1. new \in Workflows
  BY DEF Workflows
<1>2. /\ new.at = a /\ new.stage = b /\ new.steps = c
      /\ new.sbx = w.sbx /\ new.exit = w.exit /\ new.result = w.result
  BY DEF Workflows
<1> HIDE DEF new
<1>3. new = [at |-> new.at, stage |-> new.stage, steps |-> new.steps,
             sbx |-> new.sbx, exit |-> new.exit, result |-> new.result]
  BY <1>1 DEF Workflows
<1> QED BY <1>2, <1>3 DEF new

(* What replacing its list of steps does to a workflow object. *)
LEMMA StepsUpdate ==
  ASSUME NEW w \in Workflows, NEW c
  PROVE  [w EXCEPT !.steps = c]
           = [at |-> w.at, stage |-> w.stage, steps |-> c,
              sbx |-> w.sbx, exit |-> w.exit, result |-> w.result]
BY DEF Workflows

(* BeginStep, from a workflow object given field by field. *)
LEMMA BeginStepValue ==
  ASSUME NEW w \in Workflows, NEW k \in 1..4
  PROVE  BeginStep(w, k) =
           [at |-> k, stage |-> Pipeline[k],
            steps |-> Append(w.steps, Settled(k, "running", "none")),
            sbx |-> w.sbx, exit |-> w.exit, result |-> w.result]
<1> DEFINE new == Settled(k, "running", "none")
<1>1. new \in StepRecords
  BY SettledTyped DEF StepStates, Details
<1>2. Append(w.steps, new) \in Seq(StepRecords)
  BY <1>1, AppendProperties DEF Workflows
<1>3. k \in 0..5 /\ Pipeline[k] \in Stages
  BY StageNames DEF Stages
<1>4. BeginStep(w, k)
        = [w EXCEPT !.at = k, !.stage = Pipeline[k], !.steps = Append(w.steps, new)]
  BY DEF BeginStep, Settled
<1> HIDE DEF new
<1>5. BeginStep(w, k) =
        [at |-> k, stage |-> Pipeline[k], steps |-> Append(w.steps, new),
         sbx |-> w.sbx, exit |-> w.exit, result |-> w.result]
  BY <1>2, <1>3, <1>4, EnterUpdate
<1> QED BY <1>5 DEF new

(* EndStep, from a workflow object given field by field. *)
LEMMA EndStepValue ==
  ASSUME NEW k \in 1..4, NEW v, k = 4 => v \in Values,
         NEW state \in StepStates, NEW detail \in Details
  PROVE  EndStep(Await(k, v), state, detail) =
           [at |-> k, stage |-> Pipeline[k],
            steps |-> ListedSettled(k, state, detail),
            sbx |-> IF k = 4 THEN v ELSE NoOutcome, exit |-> "none",
            result |-> NoResult]
<1> DEFINE w == Await(k, v)
<1>1. w \in Workflows
  BY AwaitTyped
<1>2. /\ w.at = k /\ w.stage = Pipeline[k] /\ w.steps = Listed(k)
      /\ w.sbx = (IF k = 4 THEN v ELSE NoOutcome)
      /\ w.exit = "none" /\ w.result = NoResult
  BY DEF Await
<1>3. Len(w.steps) = k
  BY <1>2, ListedTyped
<1>4. Listed(k)[k] = Settled(k, "running", "none")
  BY ListedTyped
<1>5. [Listed(k)[k] EXCEPT !.state = state, !.detail = detail]
        = Settled(k, state, detail)
  <2>1. Listed(k)[k] \in StepRecords /\ Listed(k)[k].name = Pipeline[k]
    BY <1>4, SettledTyped DEF Settled, StepStates, Details
  <2> QED BY <2>1, StepUpdate DEF Settled
<1>6. EndStep(w, state, detail)
        = [w EXCEPT !.steps = [w.steps EXCEPT ![k] = Settled(k, state, detail)]]
  BY <1>2, <1>3, <1>5 DEF EndStep
<1>7. @ = [w EXCEPT !.steps = ListedSettled(k, state, detail)]
  BY <1>2, SettleLast
<1>8. @ = [at |-> w.at, stage |-> w.stage,
           steps |-> ListedSettled(k, state, detail),
           sbx |-> w.sbx, exit |-> w.exit, result |-> w.result]
  BY <1>1, StepsUpdate
<1> QED BY <1>2, <1>6, <1>7, <1>8

(* What leaving by an exception does to a workflow object. *)
LEMMA ExitUpdate ==
  ASSUME NEW w \in Workflows, NEW x \in Exits
  PROVE  [w EXCEPT !.at = 5, !.exit = x]
           = [at |-> 5, stage |-> w.stage, steps |-> w.steps,
              sbx |-> w.sbx, exit |-> x, result |-> w.result]
<1> DEFINE new == [w EXCEPT !.at = 5, !.exit = x]
<1>0. 5 \in 0..5 /\ x \in Exits \cup {"none"}
  OBVIOUS
<1>1. new \in Workflows
  BY <1>0 DEF Workflows
<1>2. /\ new.at = 5 /\ new.stage = w.stage /\ new.steps = w.steps
      /\ new.sbx = w.sbx /\ new.exit = x /\ new.result = w.result
  BY DEF Workflows
<1> HIDE DEF new
<1>3. new = [at |-> new.at, stage |-> new.stage, steps |-> new.steps,
             sbx |-> new.sbx, exit |-> new.exit, result |-> new.result]
  BY <1>1 DEF Workflows
<1> QED BY <1>2, <1>3 DEF new

(* Leave, from a workflow object given field by field. *)
LEMMA LeaveValue ==
  ASSUME NEW w \in Workflows, NEW stage \in Stages, NEW res \in Results
  PROVE  Leave(w, stage, res)
           = [at |-> 5, stage |-> stage, steps |-> w.steps,
              sbx |-> w.sbx, exit |-> "returned", result |-> res]
<1> DEFINE new == Leave(w, stage, res)
<1>0. 5 \in 0..5 /\ "returned" \in Exits \cup {"none"}
  BY DEF Exits
<1>1. new \in Workflows
  BY <1>0 DEF Workflows, Leave
<1>2. /\ new.at = 5 /\ new.stage = stage /\ new.steps = w.steps
      /\ new.sbx = w.sbx /\ new.exit = "returned" /\ new.result = res
  BY DEF Workflows, Leave
<1> HIDE DEF new
<1>3. new = [at |-> new.at, stage |-> new.stage, steps |-> new.steps,
             sbx |-> new.sbx, exit |-> new.exit, result |-> new.result]
  BY <1>1 DEF Workflows
<1> QED BY <1>2, <1>3 DEF new

(* What keeping the verdict does to a workflow object. *)
LEMMA SbxUpdate ==
  ASSUME NEW w \in Workflows, NEW v \in Values
  PROVE  [w EXCEPT !.sbx = v]
           = [at |-> w.at, stage |-> w.stage, steps |-> w.steps,
              sbx |-> v, exit |-> w.exit, result |-> w.result]
BY DEF Workflows, Values

(* A workflow object that settles its stage is still one. *)
LEMMA EndStepTyped ==
  ASSUME NEW k \in 1..4, NEW v, k = 4 => v \in Values,
         NEW state \in StepStates, NEW detail \in Details
  PROVE  EndStep(Await(k, v), state, detail) \in Workflows
<1>1. ListedSettled(k, state, detail) \in Seq(StepRecords)
  BY ListedSettledTyped
<1>2. Pipeline[k] \in Stages /\ NoResult \in Results
  BY StageNames DEF Stages, NoResult, Results
<1> QED BY <1>1, <1>2, EndStepValue DEF Workflows, Values

-----------------------------------------------------------------------------
(* What one event does to an awaiting workflow.                               *)

(* The event takes the workflow from stage k to stage k + 1. *)
GoesOn(k, e) ==
  /\ k \in 0..3
  /\ ~e.wins
  /\ k > 0 => e.kind = "completed"
  /\ k = 3 => Ok(e.value)

(* The event is one the server can deliver while stage k is awaited. *)
Deliverable(k, e) ==
  /\ e \in Events
  /\ k = 0 <=> e.kind = "started"
  /\ e.kind = "none" => e.wins
  /\ k = 3 /\ e.kind = "completed" => e.value \in Outcomes

(* A fresh workflow object that starts awaits the first stage. *)
LEMMA FirstStep == \A v : BeginStep(Fresh, 1) = Await(1, v)
<1>1. Fresh \in Workflows
  BY AwaitTyped DEF Await
<1>2. BeginStep(Fresh, 1) = [at |-> 1, stage |-> Pipeline[1],
          steps |-> Append(Fresh.steps, Settled(1, "running", "none")),
          sbx |-> Fresh.sbx, exit |-> Fresh.exit, result |-> Fresh.result]
  BY <1>1, BeginStepValue
<1>3. /\ Fresh.steps = <<>> /\ Fresh.sbx = NoOutcome
      /\ Fresh.exit = "none" /\ Fresh.result = NoResult
  BY DEF Fresh
<1> QED BY <1>2, <1>3, ListFirst DEF Await

(* A stage that answered, the sandbox favourably, leads to the await of the next. *)
LEMMA ResumeOnward ==
  ASSUME NEW k \in 0..4, NEW v, NEW e, Deliverable(k, e), GoesOn(k, e)
  PROVE  Resume(Await(k, v), e) = Await(k + 1, e.value)
<1> DEFINE w == Await(k, v)
<1>0. w.at = k /\ ~e.wins
  BY DEF Await, Fresh, GoesOn
<1>1. CASE k = 0
  <2>1. Resume(w, e) = BeginStep(w, 1)
    BY <1>0, <1>1 DEF Resume
  <2> QED BY <1>1, <2>1, FirstStep DEF Await
<1>2. CASE k \in 1..2
  <2> DEFINE u == EndStep(w, "completed", "none")
  <2>1. Resume(w, e) = BeginStep(u, k + 1)
    BY <1>0, <1>2 DEF Resume, AfterStep, GoesOn
  <2>2. u \in Workflows
    BY <1>2, EndStepTyped DEF StepStates, Details
  <2>3. /\ u.steps = ListedSettled(k, "completed", "none")
        /\ u.sbx = NoOutcome /\ u.exit = "none" /\ u.result = NoResult
    BY <1>2, EndStepValue DEF StepStates, Details
  <2> HIDE DEF u
  <2>4. BeginStep(u, k + 1) = [at |-> k + 1, stage |-> Pipeline[k + 1],
            steps |-> Append(u.steps, Settled(k + 1, "running", "none")),
            sbx |-> u.sbx, exit |-> u.exit, result |-> u.result]
    BY <1>2, <2>2, BeginStepValue, k + 1 \in 1..4
  <2>5. Append(u.steps, Settled(k + 1, "running", "none")) = Listed(k + 1)
    BY <1>2, <2>3, ListNext
  <2> QED BY <1>2, <2>1, <2>3, <2>4, <2>5 DEF Await
<1>3. CASE k = 3
  <2> DEFINE u == EndStep(w, "completed", "none")
             t == [u EXCEPT !.sbx = e.value]
  <2>1. Ok(e.value) /\ FailureReason(e.value) = "none" /\ e.value \in Values
    BY <1>3 DEF GoesOn, Deliverable, FailureReason, Values
  <2>2. Resume(w, e) = BeginStep(t, 4)
    BY <1>0, <1>3, <2>1 DEF Resume, AfterStep, AfterSandbox, GoesOn
  <2>3. u \in Workflows
    BY <1>3, EndStepTyped DEF StepStates, Details
  <2>4. /\ u.steps = ListedSettled(3, "completed", "none")
        /\ u.exit = "none" /\ u.result = NoResult
    BY <1>3, EndStepValue DEF StepStates, Details
  <2> HIDE DEF u
  <2>5. t \in Workflows /\ t.steps = u.steps /\ t.sbx = e.value
        /\ t.exit = u.exit /\ t.result = u.result
    BY <2>1, <2>3 DEF Workflows, Values
  <2> HIDE DEF t
  <2>6. BeginStep(t, 4) = [at |-> 4, stage |-> Pipeline[4],
            steps |-> Append(t.steps, Settled(4, "running", "none")),
            sbx |-> t.sbx, exit |-> t.exit, result |-> t.result]
    BY <2>5, BeginStepValue
  <2>7. Append(t.steps, Settled(4, "running", "none")) = Listed(4)
    BY <2>4, <2>5, ListNext
  <2> QED BY <1>3, <2>2, <2>4, <2>5, <2>6, <2>7 DEF Await
<1> QED BY <1>1, <1>2, <1>3 DEF GoesOn

(* The object of a workflow that has left, by the stage it left from. *)
Broken(k, v, exit) ==
  [at |-> 5, stage |-> Pipeline[k], steps |-> ListedSettled(k, "failed", "none"),
   sbx |-> IF k = 4 THEN v ELSE NoOutcome, exit |-> exit, result |-> NoResult]

Rejected(v) ==
  [at |-> 5, stage |-> "failed", steps |-> ListedSettled(3, "failed", FailureReason(v)),
   sbx |-> v, exit |-> "returned",
   result |-> [status |-> "failed", sandbox |-> v, reason |-> FailureReason(v)]]

Accepted(v) ==
  [at |-> 5, stage |-> "completed", steps |-> ListedSettled(4, "completed", "none"),
   sbx |-> v, exit |-> "returned",
   result |-> [status |-> "completed", sandbox |-> v, reason |-> "none"]]

Leaves(w, k, v, e) ==
  \/ k = 0 /\ w = Broken(1, v, "cancelled")
  \/ k \in 1..4 /\ w = Broken(k, v, "cancelled")
  \/ k \in 1..4 /\ w = Broken(k, v, "raised")
  \/ k = 3 /\ e.value \in Outcomes /\ ~Ok(e.value) /\ w = Rejected(e.value)
  \/ k = 4 /\ w = Accepted(v)

(* What an exception at stage k makes of the workflow object. *)
LEMMA UnwindValue ==
  ASSUME NEW k \in 1..4, NEW v, k = 4 => v \in Values, NEW x \in Exits
  PROVE  Unwind(Await(k, v), x) = Broken(k, v, x)
<1> DEFINE u == EndStep(Await(k, v), "failed", "none")
<1>1. "failed" \in StepStates /\ "none" \in Details
  BY DEF StepStates, Details
<1>2. u \in Workflows
  BY <1>1, EndStepTyped
<1>3. /\ u.stage = Pipeline[k] /\ u.steps = ListedSettled(k, "failed", "none")
      /\ u.sbx = (IF k = 4 THEN v ELSE NoOutcome) /\ u.result = NoResult
  BY <1>1, EndStepValue
<1> HIDE DEF u
<1>4. [u EXCEPT !.at = 5, !.exit = x]
        = [at |-> 5, stage |-> u.stage, steps |-> u.steps,
           sbx |-> u.sbx, exit |-> x, result |-> u.result]
  BY <1>2, ExitUpdate
<1> QED BY <1>3, <1>4 DEF Unwind, Broken, u

(* Every other event makes the workflow leave. *)
LEMMA ResumeOut ==
  ASSUME NEW k \in 0..4, NEW v, k = 4 => v \in Values,
         NEW e, Deliverable(k, e), ~GoesOn(k, e)
  PROVE  Leaves(Resume(Await(k, v), e), k, v, e)
<1> DEFINE w == Await(k, v)
<1>0. w.at = k /\ "cancelled" \in Exits /\ "raised" \in Exits
  BY DEF Await, Fresh, Exits
<1>1. CASE e.wins /\ k = 0
  <2>1. Resume(w, e) = Unwind(Await(1, v), "cancelled")
    BY <1>0, <1>1, FirstStep DEF Resume, Await
  <2> QED BY <1>0, <1>1, <2>1, UnwindValue DEF Leaves
<1>2. CASE e.wins /\ k \in 1..4
  <2>1. Resume(w, e) = Unwind(w, "cancelled")
    BY <1>0, <1>2 DEF Resume
  <2> QED BY <1>0, <1>2, <2>1, UnwindValue DEF Leaves
<1>3. CASE ~e.wins /\ e.kind = "failed"
  <2>1. k \in 1..4
    BY <1>3 DEF Deliverable
  <2>2. Resume(w, e) = Unwind(w, "raised")
    BY <1>0, <1>3, <2>1 DEF Resume
  <2> QED BY <1>0, <2>1, <2>2, UnwindValue DEF Leaves
<1>4. CASE ~e.wins /\ e.kind = "completed" /\ k = 3
  <2> DEFINE v3 == e.value
             u == EndStep(w, "failed", FailureReason(v3))
             t == [u EXCEPT !.sbx = v3]
             res == [status |-> "failed", sandbox |-> v3, reason |-> FailureReason(v3)]
  <2>1. v3 \in Outcomes /\ v3 \in Values /\ ~Ok(v3)
    BY <1>4 DEF Deliverable, GoesOn, Values
  <2>2. Resume(w, e) = Leave(t, "failed", res)
    BY <1>0, <1>4, <2>1 DEF Resume, AfterStep, AfterSandbox
  <2>3. "failed" \in StepStates /\ FailureReason(v3) \in Details
    BY ReasonTyped DEF StepStates
  <2>4. u \in Workflows
    BY <1>4, <2>3, EndStepTyped
  <2>5. u.steps = ListedSettled(3, "failed", FailureReason(v3))
    BY <1>4, <2>3, EndStepValue
  <2>6. "failed" \in Stages /\ res \in Results
    BY <2>1, <2>3 DEF Stages, Results, Values, Details
  <2> HIDE DEF u, res, v3
  <2>7. t \in Workflows /\ t.steps = u.steps /\ t.sbx = v3
    BY <2>1, <2>4 DEF Workflows, Values
  <2> HIDE DEF t
  <2>8. Leave(t, "failed", res)
          = [at |-> 5, stage |-> "failed", steps |-> t.steps,
             sbx |-> t.sbx, exit |-> "returned", result |-> res]
    BY <2>6, <2>7, LeaveValue
  <2>9. Resume(w, e) = Rejected(v3)
    BY <2>2, <2>5, <2>7, <2>8 DEF Rejected, res
  <2> QED BY <1>4, <2>1, <2>9 DEF Leaves, v3
<1>5. CASE ~e.wins /\ e.kind = "completed" /\ k = 4
  <2> DEFINE u == EndStep(w, "completed", "none")
             res == [status |-> "completed", sandbox |-> v, reason |-> "none"]
  <2>1. w.sbx = v /\ v \in Values
    BY <1>5 DEF Await
  <2>2. Resume(w, e) = Leave(u, "completed", res)
    BY <1>0, <1>5, <2>1 DEF Resume, AfterStep
  <2>3. "completed" \in StepStates /\ "none" \in Details
    BY DEF StepStates, Details
  <2>4. u \in Workflows
    BY <1>5, <2>1, <2>3, EndStepTyped
  <2>5. u.steps = ListedSettled(4, "completed", "none") /\ u.sbx = v
    BY <1>5, <2>1, <2>3, EndStepValue
  <2>6. "completed" \in Stages /\ res \in Results
    BY <2>1 DEF Stages, Results, Values
  <2> HIDE DEF u, res
  <2>7. Leave(u, "completed", res)
          = [at |-> 5, stage |-> "completed", steps |-> u.steps,
             sbx |-> u.sbx, exit |-> "returned", result |-> res]
    BY <2>4, <2>6, LeaveValue
  <2>8. Resume(w, e) = Accepted(v)
    BY <2>2, <2>5, <2>7 DEF Accepted, res
  <2> QED BY <1>5, <2>8 DEF Leaves
<1>6. \/ e.wins /\ k = 0
      \/ e.wins /\ k \in 1..4
      \/ ~e.wins /\ e.kind = "failed"
      \/ ~e.wins /\ e.kind = "completed" /\ k = 3
      \/ ~e.wins /\ e.kind = "completed" /\ k = 4
  BY DEF Deliverable, GoesOn, Events
<1> QED BY <1>1, <1>2, <1>3, <1>4, <1>5, <1>6

(* A workflow that awaits a stage tells a coherent story. *)
LEMMA AwaitCoherent ==
  ASSUME NEW k \in 0..4, NEW v
  PROVE  Coherent(Await(k, v))
<1>1. CASE k = 0
  <2>1. /\ Await(k, v).steps = <<>> /\ Len(<<>>) = 0
        /\ Await(k, v).exit = "none" /\ Await(k, v).stage = "queued"
    BY <1>1 DEF Await, Fresh
  <2> QED BY <2>1 DEF Coherent
<1>2. CASE k \in 1..4
  <2> DEFINE s == Listed(k)
  <2>1. /\ Await(k, v).steps = s /\ Await(k, v).exit = "none"
        /\ Await(k, v).stage = Pipeline[k]
    BY <1>2 DEF Await
  <2>2. /\ Len(s) = k /\ s[k] = Settled(k, "running", "none")
        /\ Pipeline[k] \notin {"completed", "failed"}
    BY <1>2, ListedTyped, StageNames
  <2>3. /\ \A i \in 1..k : s[i].name = Pipeline[i]
        /\ \A i \in 1..k - 1 : s[i].state = "completed"
    BY <1>2 DEF Listed, Settled
  <2> HIDE DEF s
  <2>4. s[k].state = "running"
    BY <2>2 DEF Settled
  <2> QED BY <1>2, <2>1, <2>2, <2>3, <2>4 DEF Coherent
<1> QED BY <1>1, <1>2

(* The records of a list of k stages are the pipeline's, in order. *)
LEMMA ListedSettledCoherent ==
  ASSUME NEW k \in 1..4, NEW state \in StepStates, NEW detail \in Details
  PROVE  /\ Len(ListedSettled(k, state, detail)) = k
         /\ \A i \in 1..k : ListedSettled(k, state, detail)[i].name = Pipeline[i]
         /\ \A i \in 1..k - 1 :
              ListedSettled(k, state, detail)[i] = Settled(i, "completed", "none")
         /\ \A i \in 1..k - 1 : ListedSettled(k, state, detail)[i].state = "completed"
         /\ ListedSettled(k, state, detail)[k].state = state
         /\ ListedSettled(k, state, detail)[k].detail = detail
BY ListedSettledTyped DEF ListedSettled, Settled

(* What a workflow that has left shows, whichever way it left. *)
LEMMA LeftCoherent ==
  ASSUME NEW k \in 0..4, NEW v, k = 4 => v \in Values, NEW e, NEW w,
         Leaves(w, k, v, e)
  PROVE  /\ w \in Workflows
         /\ w.exit \in Exits /\ Issues(w) = w.exit
         /\ Coherent(w)
         /\ w.exit # "returned" => w.result = NoResult
         /\ Len(w.steps) >= k
         /\ \A i \in 1..k - 1 : w.steps[i] = Settled(i, "completed", "none")
<1>0. /\ "failed" \in StepStates /\ "completed" \in StepStates /\ "none" \in Details
      /\ {"cancelled", "raised", "returned"} = Exits /\ "none" \notin Exits
      /\ NoResult \in Results
  BY DEF StepStates, Details, Exits, NoResult, Results
<1>1. ASSUME NEW m \in 1..4, m = k \/ (k = 0 /\ m = 1), NEW x \in {"cancelled", "raised"},
             w = Broken(m, v, x)
      PROVE  /\ w \in Workflows
             /\ w.exit = x /\ w.result = NoResult
             /\ Coherent(w)
             /\ Len(w.steps) >= k
             /\ \A i \in 1..k - 1 : w.steps[i] = Settled(i, "completed", "none")
  <2> DEFINE s == ListedSettled(m, "failed", "none")
  <2>1. w.steps = s /\ w.stage = Pipeline[m] /\ w.exit = x /\ w.result = NoResult
    BY <1>1 DEF Broken
  <2>2. /\ Len(s) = m /\ s \in Seq(StepRecords)
        /\ \A i \in 1..m : s[i].name = Pipeline[i]
        /\ \A i \in 1..m - 1 : s[i] = Settled(i, "completed", "none")
        /\ \A i \in 1..m - 1 : s[i].state = "completed"
        /\ s[m].state = "failed"
    <3>1. Len(s) = m /\ s \in Seq(StepRecords)
      BY <1>0, ListedSettledTyped
    <3>2. /\ \A i \in 1..m : s[i].name = Pipeline[i]
          /\ \A i \in 1..m - 1 : s[i] = Settled(i, "completed", "none")
          /\ \A i \in 1..m - 1 : s[i].state = "completed"
          /\ s[m].state = "failed"
      BY <1>0, m \in 1..4, ListedSettledCoherent
    <3> QED BY <3>1, <3>2, Zenon
  <2> HIDE DEF s
  <2>3. Pipeline[m] \in Stages /\ Pipeline[m] \notin {"completed", "failed"}
    BY <1>1, StageNames DEF Stages
  <2>4. Coherent(w)
    BY <1>0, <1>1, <2>1, <2>2, <2>3 DEF Coherent
  <2>5. x \in Exits \cup {"none"} /\ (IF m = 4 THEN v ELSE NoOutcome) \in Values
    BY <1>0, <1>1 DEF Values
  <2>6. w \in Workflows
    BY <1>0, <1>1, <2>1, <2>2, <2>3, <2>5 DEF Broken, Workflows, Values
  <2> QED BY <1>1, <2>1, <2>2, <2>4, <2>6
<1>2. CASE k = 0 /\ w = Broken(1, v, "cancelled")
  BY <1>0, <1>1, <1>2 DEF Issues
<1>3. CASE k \in 1..4 /\ w = Broken(k, v, "cancelled")
  BY <1>0, <1>1, <1>3 DEF Issues
<1>4. CASE k \in 1..4 /\ w = Broken(k, v, "raised")
  BY <1>0, <1>1, <1>4 DEF Issues
<1>5. CASE k = 3 /\ e.value \in Outcomes /\ ~Ok(e.value) /\ w = Rejected(e.value)
  <2> DEFINE d == FailureReason(e.value)
             s == ListedSettled(3, "failed", d)
  <2>1. d \in Details /\ d # "none"
    BY <1>5, ReasonTyped DEF FailureReason
  <2>2. /\ w.steps = s /\ w.stage = "failed" /\ w.exit = "returned" /\ w.sbx = e.value
        /\ w.result = [status |-> "failed", sandbox |-> e.value, reason |-> d]
        /\ w.at = 5
    BY <1>5 DEF Rejected
  <2>3. /\ Len(s) = 3 /\ s \in Seq(StepRecords)
        /\ \A i \in 1..3 : s[i].name = Pipeline[i]
        /\ \A i \in 1..2 : s[i] = Settled(i, "completed", "none")
        /\ \A i \in 1..2 : s[i].state = "completed"
        /\ s[3].state = "failed" /\ s[3].detail = d
    BY <1>0, <2>1, ListedSettledTyped, ListedSettledCoherent
  <2> HIDE DEF d, s
  <2>4. Coherent(w)
    BY <1>0, <2>1, <2>2, <2>3 DEF Coherent
  <2>5. w.result \in Results /\ e.value \in Values
    BY <1>5, <2>1, <2>2 DEF Results, Values, Details
  <2>6. w = [at |-> 5, stage |-> "failed", steps |-> s, sbx |-> e.value,
             exit |-> "returned", result |-> w.result]
    BY <1>5 DEF Rejected, s, d
  <2>7. w \in Workflows
    BY <1>0, <2>3, <2>5, <2>6, "failed" \in Stages DEF Workflows, Values, Stages
  <2> QED BY <1>0, <1>5, <2>2, <2>3, <2>4, <2>7 DEF Issues
<1>6. CASE k = 4 /\ w = Accepted(v)
  <2> DEFINE s == ListedSettled(4, "completed", "none")
  <2>1. /\ w.steps = s /\ w.stage = "completed" /\ w.exit = "returned"
        /\ w.result = [status |-> "completed", sandbox |-> v, reason |-> "none"]
    BY <1>6 DEF Accepted
  <2>2. /\ Len(s) = 4 /\ s \in Seq(StepRecords)
        /\ \A i \in 1..4 : s[i].name = Pipeline[i]
        /\ \A i \in 1..3 : s[i] = Settled(i, "completed", "none")
        /\ \A i \in 1..3 : s[i].state = "completed"
        /\ s[4].state = "completed"
    BY <1>0, ListedSettledTyped, ListedSettledCoherent
  <2>3. w = [at |-> 5, stage |-> "completed", steps |-> s, sbx |-> v,
             exit |-> "returned", result |-> w.result]
    BY <1>6 DEF Accepted
  <2> HIDE DEF s
  <2>4. Coherent(w)
    BY <1>0, <2>1, <2>2 DEF Coherent
  <2>5. w.result \in Results /\ v \in Values
    BY <1>6, <2>1 DEF Results, Values
  <2>6. w \in Workflows
    BY <1>0, <2>2, <2>3, <2>5, "completed" \in Stages DEF Workflows, Values, Stages
  <2> QED BY <1>0, <1>6, <2>1, <2>2, <2>4, <2>6 DEF Issues
<1> QED BY <1>2, <1>3, <1>4, <1>5, <1>6 DEF Leaves

-----------------------------------------------------------------------------
(* The workflow as a function of its history.                                 *)

(* Every event but the last took the pipeline one stage further. *)
WellOrdered(h) ==
  /\ h \in Seq(Events)
  /\ Len(h) <= 5
  /\ \A i \in 1..Len(h) : Deliverable(i - 1, h[i])
  /\ \A i \in 1..Len(h) : i < Len(h) => GoesOn(i - 1, h[i])

Waits(h, n) == n = 0 \/ GoesOn(n - 1, h[n])

(* The object once it has consumed n events of h. *)
At(h, n) == IF n = 0 THEN Fresh ELSE Resume(Await(n - 1, h[4].value), h[n])

(* A history holds five events at most. *)
LEMMA HistoryLength ==
  ASSUME NEW h, WellOrdered(h)
  PROVE  h \in Seq(Events) /\ Len(h) \in 0..5
<1>1. h \in Seq(Events) /\ Len(h) <= 5
  BY DEF WellOrdered
<1>2. Len(h) \in Nat
  BY <1>1, LenProperties
<1>3. \A m \in Nat : m <= 5 => m \in 0..5
  OBVIOUS
<1> QED BY <1>1, <1>2, <1>3

(* The workflow after n events none of which ended it awaits stage n. *)
LEMMA AtWaiting ==
  ASSUME NEW h, WellOrdered(h), NEW n \in 0..Len(h), Waits(h, n)
  PROVE  /\ n \in 0..4
         /\ n = 4 => h[4].value \in Values
         /\ At(h, n) = Await(n, h[4].value)
<1>0. Len(h) \in 0..5
  BY HistoryLength
<1>1. CASE n = 0
  BY <1>1 DEF At, Await
<1>2. CASE n # 0
  <2>1. n - 1 \in 0..3 /\ GoesOn(n - 1, h[n]) /\ n \in 1..4 /\ n \in 1..Len(h)
    BY <1>0, <1>2 DEF Waits, GoesOn
  <2>2. Deliverable(n - 1, h[n])
    BY <2>1 DEF WellOrdered
  <2>3. At(h, n) = Await((n - 1) + 1, h[n].value)
    BY <1>2, <2>1, <2>2, ResumeOnward, n - 1 \in 0..4 DEF At
  <2>4. At(h, n) = Await(n, h[4].value)
    BY <2>1, <2>3 DEF Await
  <2>5. h[n].value \in Values
    BY <2>2 DEF Deliverable, Events, Values
  <2> QED BY <2>1, <2>4, <2>5
<1> QED BY <1>1, <1>2

(* The workflow after the event that ended it has left. *)
LEMMA AtLeft ==
  ASSUME NEW h, WellOrdered(h), NEW n \in 0..Len(h), ~Waits(h, n)
  PROVE  /\ n = Len(h)
         /\ n \in 1..5
         /\ n = 5 => h[4].value \in Values /\ Ok(h[4].value)
         /\ Leaves(At(h, n), n - 1, h[4].value, h[n])
<1>1. Len(h) \in 0..5 /\ n # 0 /\ n \in 1..Len(h) /\ n \in 1..5 /\ n - 1 \in 0..4
  <2>1. Len(h) \in 0..5 /\ n # 0
    BY HistoryLength DEF Waits
  <2>2. \A m \in 0..5 : \A j \in 0..m :
          j # 0 => j \in 1..m /\ j \in 1..5 /\ j - 1 \in 0..4
    OBVIOUS
  <2> QED BY <2>1, <2>2
<1>2. n = Len(h)
  BY <1>1 DEF WellOrdered, Waits
<1>3. Deliverable(n - 1, h[n]) /\ ~GoesOn(n - 1, h[n])
  BY <1>1 DEF WellOrdered, Waits
<1>4. n = 5 => h[4].value \in Values /\ Ok(h[4].value)
  <2> SUFFICES ASSUME n = 5 PROVE h[4].value \in Values /\ Ok(h[4].value)
    OBVIOUS
  <2>1. 4 \in 1..Len(h) /\ 4 < Len(h)
    BY <1>2
  <2>2. GoesOn(4 - 1, h[4]) /\ h[4] \in Events
    BY <2>1 DEF WellOrdered
  <2>3. 4 - 1 = 3
    OBVIOUS
  <2> QED BY <2>2, <2>3 DEF GoesOn, Events, Values
<1>5. n - 1 = 4 => n = 5
  BY <1>1
<1>6. Leaves(Resume(Await(n - 1, h[4].value), h[n]), n - 1, h[4].value, h[n])
  BY <1>1, <1>3, <1>4, <1>5, ResumeOut
<1>7. At(h, n) = Resume(Await(n - 1, h[4].value), h[n])
  BY <1>1 DEF At
<1> QED BY <1>1, <1>2, <1>4, <1>6, <1>7

(* The workflow rebuilt from any part of a history is typed and coherent. *)
LEMMA AtGood ==
  ASSUME NEW h, WellOrdered(h), NEW n \in 0..Len(h)
  PROVE  At(h, n) \in Workflows /\ Coherent(At(h, n))
<1>1. CASE Waits(h, n)
  BY <1>1, AtWaiting, AwaitTyped, AwaitCoherent
<1>2. CASE ~Waits(h, n)
  <2>1. n - 1 \in 0..4 /\ (n - 1 = 4 => h[4].value \in Values)
        /\ Leaves(At(h, n), n - 1, h[4].value, h[n])
    BY <1>2, AtLeft
  <2> QED BY <2>1, LeftCoherent
<1> QED BY <1>1, <1>2

(* One more event. *)
LEMMA AtAppended ==
  ASSUME NEW h, WellOrdered(h), Waits(h, Len(h)), NEW e, Deliverable(Len(h), e)
  PROVE  /\ WellOrdered(Append(h, e))
         /\ Len(Append(h, e)) = Len(h) + 1
         /\ Append(h, e)[Len(h) + 1] = e
         /\ \A i \in 1..Len(h) : Append(h, e)[i] = h[i]
         /\ \A n \in 0..Len(h) : At(Append(h, e), n) = At(h, n)
         /\ At(Append(h, e), Len(h) + 1) = Resume(At(h, Len(h)), e)
         /\ Waits(Append(h, e), Len(h) + 1) <=> GoesOn(Len(h), e)
<1> DEFINE g == Append(h, e)
<1>1. Len(h) \in 0..4 /\ h \in Seq(Events) /\ e \in Events
  <2>1. Len(h) \in 0..Len(h)
    BY DEF WellOrdered
  <2> QED BY <2>1, AtWaiting DEF WellOrdered, Deliverable
<1>2. /\ g \in Seq(Events) /\ Len(g) = Len(h) + 1
      /\ \A i \in 1..Len(h) : g[i] = h[i]
      /\ g[Len(h) + 1] = e
  BY <1>1, AppendProperties
<1> HIDE DEF g
<1>3. WellOrdered(g)
  <2>1. ASSUME NEW i \in 1..Len(g)
        PROVE  Deliverable(i - 1, g[i]) /\ (i < Len(g) => GoesOn(i - 1, g[i]))
    <3>1. CASE i = Len(h) + 1
      <4>1. i - 1 = Len(h) /\ ~(i < Len(g))
        BY <1>1, <1>2, <3>1
      <4> QED BY <1>2, <3>1, <4>1
    <3>2. CASE i \in 1..Len(h) /\ i < Len(h)
      BY <1>2, <3>2 DEF WellOrdered
    <3>3. CASE i \in 1..Len(h) /\ i = Len(h)
      BY <1>1, <1>2, <3>3 DEF WellOrdered, Waits
    <3> QED BY <1>1, <1>2, <2>1, <3>1, <3>2, <3>3
  <2> QED BY <1>1, <1>2, <2>1 DEF WellOrdered
<1>4. ASSUME NEW n \in 0..Len(h)
      PROVE  At(g, n) = At(h, n)
  <2>1. Waits(h, n) /\ n \in 0..Len(g) /\ n \in 0..4
    BY <1>1, <1>2, <1>4 DEF WellOrdered, Waits
  <2>2. n # 0 => g[n] = h[n]
    BY <1>1, <1>2, <1>4
  <2>3. Waits(g, n)
    BY <2>1, <2>2 DEF Waits
  <2>4. At(g, n) = Await(n, g[4].value) /\ At(h, n) = Await(n, h[4].value)
    BY <1>3, <2>1, <2>3, AtWaiting
  <2>5. n = 4 => g[4] = h[4]
    BY <2>2
  <2> QED BY <2>4, <2>5 DEF Await
<1>5. At(g, Len(h) + 1) = Resume(At(h, Len(h)), e)
  <2>1. (Len(h) + 1) - 1 = Len(h) /\ Len(h) + 1 # 0
    BY <1>1
  <2>2. At(g, Len(h) + 1) = Resume(Await(Len(h), g[4].value), e)
    BY <1>2, <2>1 DEF At
  <2>3. Len(h) \in 0..Len(h)
    BY <1>1
  <2>4. At(h, Len(h)) = Await(Len(h), h[4].value)
    BY <2>3, AtWaiting
  <2>5. Len(h) = 4 => g[4] = h[4]
    BY <1>2
  <2>6. Await(Len(h), g[4].value) = Await(Len(h), h[4].value)
    BY <2>5 DEF Await
  <2> QED BY <2>2, <2>4, <2>6
<1>6. Waits(g, Len(h) + 1) <=> GoesOn(Len(h), e)
  <2>1. (Len(h) + 1) - 1 = Len(h) /\ Len(h) + 1 # 0
    BY <1>1
  <2> QED BY <1>2, <2>1 DEF Waits
<1> QED BY <1>2, <1>3, <1>4, <1>5, <1>6 DEF g

-----------------------------------------------------------------------------
(* The inductive invariant: everything volatile is a function of the history, *)
(* and the history is a walk along the pipeline.                              *)

Log ==
  /\ WellOrdered(history)
  /\ commands \in Seq(Steps \cup Exits)
  /\ Len(commands) = Len(history)
  /\ \A i \in 1..Len(history) : commands[i] = Issues(At(history, i))

Standing ==
  LET n == Len(history)
  IN /\ status \in {"RUNNING"} \cup Closed
     /\ status = "RUNNING" => Waits(history, n)
     /\ status = "COMPLETED" => /\ ~Waits(history, n)
                                /\ At(history, n).exit = "returned"
                                /\ result = At(history, n).result
     /\ status # "COMPLETED" => result = NoResult
     /\ status \in {"FAILED", "CANCELED"} => ~Waits(history, n)
     /\ status = "FAILED" => n # 1

Cached ==
  /\ cursor \in 0..Len(history)
  /\ wf = At(history, cursor)

Answered ==
  \/ answer = NoAnswer
  \/ \E n \in 1..Len(history) :
       answer = [stage |-> At(history, n).stage, steps |-> At(history, n).steps]

Delivery ==
  LET n == Len(history)
  IN /\ inbox \in Events
     /\ inbox.wins = FALSE
     /\ cancel \in {"none", "pending", "delivered"}
     /\ status = "RUNNING" /\ (n = 0 \/ inbox.kind # "none") => Deliverable(n, inbox)
     /\ task \in [state : {"none", "scheduled", "started", "backoff"},
                  attempt : 0..MaxAttempts]
     /\ task.state # "none" => /\ status = "RUNNING"
                               /\ n \in 1..4
                               /\ inbox = NoEvent
                               /\ task.attempt >= 1
     /\ task.state = "backoff" => task.attempt < MaxAttempts

Numbers ==
  /\ running \subseteq Attempts
  /\ \A r \in running :
       /\ r.order <= Len(history) /\ r.step = Pipeline[r.order]
       /\ r.order = Len(history) /\ task.state # "none" => r.attempt <= task.attempt
       /\ r.order = Len(history) /\ task.state = "scheduled" => r.attempt < task.attempt

IInv ==
  /\ Log
  /\ Standing
  /\ Cached
  /\ Answered
  /\ Delivery
  /\ Numbers
  /\ crashes \in 0..MaxCrashes

(* The inductive invariant holds initially. *)
LEMMA Initially == Init => IInv
<1> SUFFICES ASSUME Init PROVE IInv
  OBVIOUS
<1>1. history = <<>> /\ Len(history) = 0 /\ history \in Seq(Events)
  BY DEF Init
<1>2. Log
  <2>1. commands \in Seq(Steps \cup Exits) /\ Len(commands) = 0
    BY DEF Init
  <2> QED BY <1>1, <2>1 DEF Log, WellOrdered
<1>3. Standing
  BY <1>1 DEF Init, Standing, Waits
<1>4. Cached
  BY <1>1 DEF Init, Cached, At
<1>5. Answered
  BY DEF Init, Answered
<1>6. Delivery
  <2>1. inbox = [kind |-> "started", value |-> NoOutcome, wins |-> FALSE]
    BY DEF Init, NoEvent
  <2>2. inbox \in Events /\ Deliverable(0, inbox)
    BY <2>1 DEF Events, Deliverable
  <2>3. task \in [state : {"none", "scheduled", "started", "backoff"},
                  attempt : 0..MaxAttempts] /\ task.state = "none"
    BY MaxAttemptsAssumption DEF Init, NoTask
  <2> QED BY <1>1, <2>1, <2>2, <2>3 DEF Init, Delivery
<1>7. Numbers /\ crashes \in 0..MaxCrashes
  BY MaxCrashesAssumption DEF Init, Numbers
<1> QED BY <1>2, <1>3, <1>4, <1>5, <1>6, <1>7 DEF IInv

(* The part of the invariant that speaks of what is recorded and what is      *)
(* shown survives every step that leaves both alone.                          *)
LEMMA RecordFrame ==
  ASSUME Log, Standing, Cached, Answered,
         UNCHANGED <<status, result, history, commands, wf, cursor, answer>>
  PROVE  Log' /\ Standing' /\ Cached' /\ Answered'
BY DEF Log, Standing, Cached, Answered

(* The pending stage is the last event consumed, while there is a task. *)
LEMMA PendingIsLast == Log => Pending = Len(history)
BY DEF Log, Pending

(* While there is a task, what ordered it is the stage of its number. *)
LEMMA PendingIsStage ==
  ASSUME IInv, task.state # "none"
  PROVE  Len(history) \in 1..4 /\ Pending = Len(history)
         /\ commands[Pending] = Pipeline[Len(history)]
<1>1. /\ Len(history) \in 1..4 /\ Waits(history, Len(history)) /\ WellOrdered(history)
      /\ Pending = Len(history)
  BY PendingIsLast DEF IInv, Delivery, Standing, Log
<1>2. PICK n \in 1..4 : n = Len(history)
  BY <1>1
<1>3. n \in 0..Len(history) /\ n \in 1..Len(history) /\ n # 0
  BY <1>2
<1>4. commands[n] = Issues(At(history, n))
  BY <1>3 DEF IInv, Log
<1>5. At(history, n) = Await(n, history[4].value)
  BY <1>1, <1>2, <1>3, AtWaiting
<1>6. Issues(At(history, n)) = Pipeline[n]
  BY <1>3, <1>5 DEF Issues, Await
<1> QED BY <1>1, <1>2, <1>4, <1>6

(* A workflow task keeps the inductive invariant: the log grows by one event. *)
LEMMA WorkflowTaskKeeps == IInv /\ WorkflowTask => IInv'
<1> SUFFICES ASSUME IInv, WorkflowTask PROVE IInv'
  OBVIOUS
<1> USE DEF IInv
<1>0. /\ WellOrdered(history) /\ Waits(history, Len(history))
      /\ history \in Seq(Events) /\ Len(history) \in 0..5
      /\ Len(history) \in 0..Len(history)
  <2>1. Len(history) \in 0..5
    BY HistoryLength DEF Log
  <2>2. \A i \in 0..5 : i \in 0..i
    OBVIOUS
  <2> QED BY <2>1, <2>2, HistoryLength DEF WorkflowTask, Log, Standing
<1>1. PICK n \in 0..4 : n = Len(history)
  BY <1>0, AtWaiting
<1>2. n \in 0..n /\ WellOrdered(history) /\ Waits(history, n) /\ Len(history) = n
  BY <1>0, <1>1
<1>3. wf = At(history, n) /\ wf = Await(n, history[4].value)
  BY <1>2, AtWaiting DEF WorkflowTask, Cached, CaughtUp
<1>4. PICK wins \in BOOLEAN :
        /\ wins => cancel = "pending"
        /\ inbox.kind = "none" => wins
        /\ LET e == [inbox EXCEPT !.wins = wins]
               w == Resume(wf, e)
           IN /\ wf' = w
              /\ history' = Append(history, e)
              /\ commands' = Append(commands, Issues(w))
              /\ status' = StatusAfter(w.exit)
              /\ result' = w.result
              /\ task' = IF w.exit = "none"
                         THEN [state |-> "scheduled", attempt |-> 1]
                         ELSE NoTask
  BY DEF WorkflowTask
<1> DEFINE e == [inbox EXCEPT !.wins = wins]
           w == Resume(wf, e)
<1>5. Deliverable(n, e)
  <2>1. inbox \in Events /\ status = "RUNNING"
    BY DEF Delivery, WorkflowTask
  <2>2. e \in Events /\ e.kind = inbox.kind /\ e.value = inbox.value /\ e.wins = wins
    BY <2>1 DEF Events
  <2>3. CASE n = 0 \/ inbox.kind # "none"
    <3>1. Deliverable(n, inbox) /\ (inbox.kind = "none" => inbox.wins) /\ ~inbox.wins
      BY <1>2, <2>1, <2>3 DEF Delivery, Deliverable
    <3> QED BY <2>2, <3>1 DEF Deliverable
  <2>4. CASE n # 0 /\ inbox.kind = "none"
    BY <1>4, <2>2, <2>4 DEF Deliverable
  <2> QED BY <2>3, <2>4
<1> HIDE DEF e
<1>6. /\ wf' = w /\ history' = Append(history, e)
      /\ commands' = Append(commands, Issues(w))
      /\ status' = StatusAfter(w.exit) /\ result' = w.result
      /\ task' = IF w.exit = "none" THEN [state |-> "scheduled", attempt |-> 1] ELSE NoTask
      /\ cursor' = cursor + 1 /\ inbox' = NoEvent
      /\ cancel' = (IF cancel = "pending" THEN "delivered" ELSE cancel)
      /\ UNCHANGED <<running, answer, crashes>>
  BY <1>4 DEF WorkflowTask, e
<1>7. /\ WellOrdered(history')
      /\ Len(history') = n + 1
      /\ history'[n + 1] = e
      /\ \A i \in 0..n : At(history', i) = At(history, i)
      /\ At(history', n + 1) = w
      /\ Waits(history', n + 1) <=> GoesOn(n, e)
  BY <1>2, <1>3, <1>5, <1>6, AtAppended
<1>8. /\ n + 1 \in 0..n + 1 /\ n + 1 \in 1..5
      /\ \A i \in 1..n + 1 : i # n + 1 => i \in 1..n /\ i \in 0..n
  <2>1. \A m \in 0..4 : /\ m + 1 \in 0..m + 1 /\ m + 1 \in 1..5
                        /\ \A i \in 1..m + 1 : i # m + 1 => i \in 1..m /\ i \in 0..m
    OBVIOUS
  <2> QED BY <1>1, <2>1
<1>9. w \in Workflows /\ Coherent(w)
  BY <1>7, <1>8, AtGood
<1>10. Issues(w) \in Steps \cup Exits
  <2>1. CASE w.exit = "none"
    <3>1. GoesOn(n, e)
      <4>1. SUFFICES ASSUME ~GoesOn(n, e) PROVE FALSE
        OBVIOUS
      <4>2. ~Waits(history', n + 1) /\ n + 1 \in 0..Len(history') /\ (n + 1) - 1 = n
        BY <1>1, <1>7, <1>8, <4>1
      <4>3. Leaves(w, n, history'[4].value, e) /\ (n = 4 => history'[4].value \in Values)
        BY <1>1, <1>7, <4>2, AtLeft
      <4>4. w.exit \in Exits
        BY <1>1, <4>3, LeftCoherent
      <4> QED BY <2>1, <4>4 DEF Exits
    <3>2. Waits(history', n + 1) /\ n + 1 \in 0..Len(history')
      BY <1>7, <1>8, <3>1
    <3>3. w = Await(n + 1, history'[4].value) /\ n + 1 \in 1..4
      BY <1>7, <1>8, <3>2, AtWaiting
    <3>4. Issues(w) = Pipeline[n + 1]
      BY <2>1, <3>3 DEF Issues, Await
    <3> QED BY <3>3, <3>4, StageNames
  <2>2. CASE w.exit # "none"
    BY <1>9, <2>2 DEF Issues, Workflows
  <2> QED BY <2>1, <2>2
<1> HIDE DEF w
<1>11. Log'
  <2>1. /\ commands' \in Seq(Steps \cup Exits) /\ Len(commands') = n + 1
        /\ \A i \in 1..n : commands'[i] = commands[i]
        /\ commands'[n + 1] = Issues(w)
    <3>1. commands \in Seq(Steps \cup Exits) /\ Len(commands) = n
      BY <1>2 DEF Log
    <3> QED BY <1>6, <1>10, <3>1, AppendProperties
  <2>2. ASSUME NEW i \in 1..n + 1
        PROVE  commands'[i] = Issues(At(history', i))
    <3>1. CASE i = n + 1
      BY <1>7, <2>1, <3>1
    <3>2. CASE i # n + 1
      BY <1>2, <1>7, <1>8, <2>1, <2>2, <3>2 DEF Log
    <3> QED BY <3>1, <3>2
  <2> QED BY <1>7, <2>1, <2>2 DEF Log
<1>12. Cached'
  BY <1>2, <1>6, <1>7, <1>8 DEF Cached, WorkflowTask, CaughtUp
<1>13. Answered'
  <2>1. \A i \in 1..n : i \in 1..n + 1 /\ i \in 0..n
    BY <1>1
  <2> QED BY <1>2, <1>6, <1>7, <2>1 DEF Answered
<1>14. Numbers' /\ crashes' \in 0..MaxCrashes
  <2>1. ASSUME NEW r \in running
        PROVE  r.order \in 1..4 /\ r.order <= n
    BY <1>2 DEF Numbers, Attempts
  <2>2. \A i \in 1..4 : i <= n => i <= n + 1 /\ i # n + 1
    BY <1>1
  <2> QED BY <1>6, <1>7, <2>1, <2>2 DEF Numbers
<1>15. /\ inbox' = NoEvent /\ inbox' \in Events /\ ~inbox'.wins
       /\ inbox'.kind = "none"
       /\ cancel' \in {"none", "pending", "delivered"}
       /\ Len(history') # 0
  <2>1. n + 1 # 0
    BY <1>1
  <2> QED BY <1>6, <1>7, <2>1 DEF NoEvent, Events, Delivery
(* Either the next stage is awaited, or the workflow has left. *)
<1>16. CASE GoesOn(n, e)
  <2>1. Waits(history', n + 1) /\ n + 1 \in 0..Len(history')
    BY <1>7, <1>8, <1>16
  <2>2. w = Await(n + 1, history'[4].value) /\ n + 1 \in 1..4
    BY <1>7, <1>8, <2>1, AtWaiting
  <2>3. w.exit = "none" /\ w.result = NoResult
    BY <2>2 DEF Await
  <2>4. Standing'
    BY <1>6, <1>7, <2>1, <2>3 DEF Standing, StatusAfter
  <2>5. Delivery'
    <3>1. task' = [state |-> "scheduled", attempt |-> 1] /\ status' = "RUNNING"
      BY <1>6, <2>3 DEF StatusAfter
    <3>2. /\ task' \in [state : {"none", "scheduled", "started", "backoff"},
                        attempt : 0..MaxAttempts]
          /\ task'.state = "scheduled" /\ task'.attempt = 1
      BY <3>1, MaxAttemptsAssumption
    <3> QED BY <1>7, <1>15, <2>2, <3>1, <3>2 DEF Delivery
  <2> QED BY <1>11, <1>12, <1>13, <1>14, <2>4, <2>5
<1>17. CASE ~GoesOn(n, e)
  <2>1. ~Waits(history', n + 1) /\ n + 1 \in 0..Len(history') /\ (n + 1) - 1 = n
    BY <1>1, <1>7, <1>8, <1>17
  <2>2. Leaves(w, n, history'[4].value, e) /\ (n = 4 => history'[4].value \in Values)
    BY <1>1, <1>7, <2>1, AtLeft
  <2>3. w.exit \in Exits /\ (w.exit # "returned" => w.result = NoResult)
    BY <1>1, <2>2, LeftCoherent
  <2>4. status' # "RUNNING" /\ (status' = "COMPLETED" <=> w.exit = "returned")
        /\ status' \in Closed /\ task' = NoTask
    BY <1>6, <2>3 DEF StatusAfter, Exits, Closed
  <2>5. Standing'
    <3>1. status' = "FAILED" => n + 1 # 1
      <4>1. n = 0 => w.exit = "cancelled"
        BY <2>2 DEF Leaves, Broken
      <4>2. n # 0 => n + 1 # 1
        BY <1>1
      <4> QED BY <1>6, <4>1, <4>2 DEF StatusAfter
    <3> QED BY <1>6, <1>7, <2>1, <2>3, <2>4, <3>1 DEF Standing
  <2>6. Delivery'
    <3>1. task' \in [state : {"none", "scheduled", "started", "backoff"},
                     attempt : 0..MaxAttempts] /\ task'.state = "none"
      BY <2>4, MaxAttemptsAssumption DEF NoTask
    <3> QED BY <1>15, <2>4, <3>1 DEF Delivery
  <2> QED BY <1>11, <1>12, <1>13, <1>14, <2>5, <2>6
<1> QED BY <1>16, <1>17

(* A replayed event keeps it: the cached object stays the one of its cursor. *)
LEMMA ReplayKeeps == IInv /\ Replay => IInv'
<1> SUFFICES ASSUME IInv, Replay PROVE IInv'
  OBVIOUS
<1> USE DEF IInv
<1>1. /\ cursor \in 0..Len(history) /\ cursor # Len(history)
      /\ cursor' = cursor + 1 /\ wf' = Resume(wf, history[cursor + 1])
      /\ UNCHANGED <<record, server, running, answer, crashes>>
  BY DEF Replay, CaughtUp, Cached
<1>2. Len(history) \in 0..5 /\ WellOrdered(history)
  BY HistoryLength DEF Log
<1>3. cursor + 1 \in 1..Len(history) /\ cursor + 1 \in 0..Len(history)
      /\ (cursor + 1) - 1 = cursor /\ cursor + 1 # 0
      /\ (cursor # 0 => cursor \in 1..Len(history) /\ cursor < Len(history))
  <2>1. \A m \in 0..5 : \A i \in 0..m :
          i # m => /\ i + 1 \in 1..m /\ i + 1 \in 0..m
                   /\ (i + 1) - 1 = i /\ i + 1 # 0
                   /\ (i # 0 => i \in 1..m /\ i < m)
    OBVIOUS
  <2> QED BY <1>1, <1>2, <2>1
<1>4. Waits(history, cursor)
  BY <1>2, <1>3 DEF Waits, WellOrdered
<1>5. wf = Await(cursor, history[4].value)
  BY <1>1, <1>2, <1>4, AtWaiting DEF Cached
<1>6. wf' = At(history, cursor + 1)
  BY <1>1, <1>3, <1>5 DEF At
<1>7. UNCHANGED <<status, result, history, commands, answer, inbox, cancel, task>>
  BY <1>1 DEF record, server
<1>8. Log' /\ Standing' /\ Answered'
  BY <1>7 DEF Log, Standing, Answered
<1>9. Cached'
  BY <1>1, <1>3, <1>6, <1>7 DEF Cached
<1>10. Delivery' /\ Numbers' /\ crashes' \in 0..MaxCrashes
  BY <1>1, <1>7 DEF Delivery, Numbers
<1> QED BY <1>8, <1>9, <1>10

(* The number of the attempt under way is one of MaxAttempts. *)
LEMMA TaskTyped ==
  ASSUME Delivery
  PROVE  /\ task.state \in {"none", "scheduled", "started", "backoff"}
         /\ task.attempt \in 0..MaxAttempts
         /\ task = [state |-> task.state, attempt |-> task.attempt]
BY DEF Delivery

(* An attempt that starts keeps it: its number is the highest in flight. *)
LEMMA PickUpKeeps == IInv /\ PickUp => IInv'
<1> SUFFICES ASSUME IInv, PickUp PROVE IInv'
  OBVIOUS
<1> USE DEF IInv
<1>1. UNCHANGED <<status, result, history, commands, inbox, cancel, wf, cursor, answer, crashes>>
  BY DEF PickUp, record, cache
<1>2. Log' /\ Standing' /\ Cached' /\ Answered'
  BY <1>1, RecordFrame
<1>3. Len(history) \in 1..4 /\ task.attempt \in 1..MaxAttempts /\ task.state = "scheduled"
  BY MaxAttemptsAssumption, TaskTyped DEF PickUp, Delivery
<1>4. task' = [state |-> "started", attempt |-> task.attempt]
  BY TaskTyped DEF PickUp
<1>5. task'.state = "started" /\ task'.attempt = task.attempt
  BY <1>4
<1>6. Delivery'
  <2>1. task' \in [state : {"none", "scheduled", "started", "backoff"},
                   attempt : 0..MaxAttempts]
    BY <1>4, TaskTyped
  <2> QED BY <1>1, <1>3, <1>5, <2>1 DEF Delivery
<1>7. Numbers'
  <2> DEFINE new == [order |-> Len(history), step |-> Pipeline[Len(history)],
                     attempt |-> task.attempt]
  <2>1. running' = running \cup {new}
    BY <1>3, PendingIsStage DEF PickUp
  <2>2. /\ new \in Attempts /\ new.order = Len(history) /\ new.attempt = task.attempt
        /\ new.step = Pipeline[new.order]
    BY <1>3, StageNames DEF Attempts
  <2> HIDE DEF new
  <2>3. \A r \in running :
          /\ r.order <= Len(history) /\ r.step = Pipeline[r.order]
          /\ r.order = Len(history) => r.attempt <= task.attempt
    BY <1>3 DEF Numbers
  <2>4. new.order <= Len(history) /\ new.attempt <= task.attempt
    BY <1>3, <2>2
  <2>5. running' \subseteq Attempts
    BY <2>1, <2>2 DEF Numbers
  <2> QED BY <1>1, <1>5, <2>1, <2>2, <2>3, <2>4, <2>5 DEF Numbers
<1> QED BY <1>1, <1>2, <1>6, <1>7

(* What becomes of the task and the inbox when an attempt fails. *)
LEMMA FailsKeeps ==
  ASSUME IInv, task.state # "none", NEW retryable \in BOOLEAN, Fails(retryable),
         task.state = "scheduled" => ~retryable,
         UNCHANGED <<status, history, cancel>>,
         running' \subseteq running
  PROVE  Delivery' /\ Numbers'
<1>1. /\ Len(history) \in 1..4 /\ task.attempt \in 1..MaxAttempts /\ status = "RUNNING"
      /\ inbox = NoEvent
  BY MaxAttemptsAssumption, TaskTyped DEF IInv, Delivery
<1>2. CASE retryable /\ task.attempt < MaxAttempts
  <2>1. inbox' = inbox /\ task' = [state |-> "backoff", attempt |-> task.attempt]
    BY <1>2, TaskTyped DEF Fails, IInv
  <2>2. task'.state = "backoff" /\ task'.attempt = task.attempt
        /\ task' \in [state : {"none", "scheduled", "started", "backoff"},
                      attempt : 0..MaxAttempts]
    BY <2>1, TaskTyped DEF IInv
  <2>3. Delivery'
    BY <1>1, <1>2, <2>1, <2>2 DEF IInv, Delivery
  <2>4. Numbers'
    BY <1>1, <2>2 DEF IInv, Numbers
  <2> QED BY <2>3, <2>4
<1>3. CASE ~(retryable /\ task.attempt < MaxAttempts)
  <2>1. inbox' = [kind |-> "failed", value |-> NoOutcome, wins |-> FALSE]
        /\ task' = [state |-> "none", attempt |-> 0]
    BY <1>3 DEF Fails, NoEvent, NoTask
  <2>2. task'.state = "none"
        /\ task' \in [state : {"none", "scheduled", "started", "backoff"},
                      attempt : 0..MaxAttempts]
    BY <2>1, MaxAttemptsAssumption
  <2>3. inbox' \in Events /\ Deliverable(Len(history), inbox') /\ inbox'.wins = FALSE
    <3>1. inbox' \in Events /\ inbox'.kind = "failed" /\ inbox'.wins = FALSE
      BY <2>1 DEF Events
    <3>2. Len(history) # 0
      BY <1>1
    <3> QED BY <3>1, <3>2 DEF Deliverable
  <2>4. Delivery'
    BY <1>1, <2>2, <2>3 DEF IInv, Delivery
  <2>5. Numbers'
    BY <2>2 DEF IInv, Numbers
  <2> QED BY <2>4, <2>5
<1> QED BY <1>2, <1>3

(* An answer, of the current attempt or a stale one, keeps it. *)
LEMMA AnswerKeeps ==
  IInv /\ (\E r \in running : Returns(r) \/ Raises(r)) => IInv'
<1> SUFFICES ASSUME IInv, NEW r \in running, Returns(r) \/ Raises(r)
             PROVE  IInv'
  OBVIOUS
<1>1. UNCHANGED <<status, result, history, commands, cancel, wf, cursor, answer, crashes>>
  BY DEF Returns, Raises, record, cache
<1>2. Log' /\ Standing' /\ Cached' /\ Answered'
  BY <1>1, RecordFrame DEF IInv
<1>3. running' \subseteq running
  BY DEF Returns, Raises
(* An answer nobody waits for is dropped. *)
<1>4. ASSUME UNCHANGED <<task, inbox>>
      PROVE  Delivery' /\ Numbers'
  BY <1>1, <1>3, <1>4 DEF IInv, Delivery, Numbers
<1>5. CASE Returns(r)
  <2>1. CASE ~IsCurrent(r)
    <3>1. UNCHANGED <<task, inbox>>
      BY <1>5, <2>1 DEF Returns
    <3> QED BY <1>1, <1>2, <1>4, <3>1 DEF IInv
  <2>2. CASE IsCurrent(r)
    <3>1. task.state = "started" /\ r.order = Len(history) /\ task.state # "none"
          /\ r.step = Pipeline[Len(history)]
      BY <2>2, PendingIsLast DEF IsCurrent, IInv, Numbers
    <3>2. Len(history) \in 1..4 /\ Len(history) # 0 /\ status = "RUNNING"
      <4>1. Len(history) \in 1..4 /\ status = "RUNNING"
        BY <3>1 DEF IInv, Delivery
      <4> QED BY <4>1
    <3>3. PICK v \in IF r.step = "run_sandbox" THEN Outcomes ELSE {NoOutcome} :
            task' = NoTask /\ inbox' = [NoEvent EXCEPT !.kind = "completed", !.value = v]
      BY <1>5, <2>2 DEF Returns
    <3>4. inbox' = [kind |-> "completed", value |-> v, wins |-> FALSE]
      BY <3>3 DEF NoEvent
    <3>5. /\ inbox' \in Events /\ inbox'.kind = "completed" /\ inbox'.wins = FALSE
          /\ (r.step = "run_sandbox" => inbox'.value \in Outcomes)
      <4>1. v \in Outcomes \cup {NoOutcome} /\ (r.step = "run_sandbox" => v \in Outcomes)
        BY <3>3
      <4> QED BY <3>4, <4>1 DEF Events
    <3>6. Deliverable(Len(history), inbox')
      <4>1. Pipeline[3] = "run_sandbox"
        BY DEF Pipeline
      <4>2. Len(history) = 3 => inbox'.value \in Outcomes
        BY <3>1, <3>5, <4>1
      <4>3. /\ inbox' \in Events /\ inbox'.kind # "started" /\ inbox'.kind # "none"
            /\ Len(history) # 0
        BY <3>2, <3>5
      <4> QED BY <4>2, <4>3 DEF Deliverable
    <3>7. task'.state = "none"
          /\ task' \in [state : {"none", "scheduled", "started", "backoff"},
                        attempt : 0..MaxAttempts]
      BY <3>3, MaxAttemptsAssumption DEF NoTask
    <3>8. Delivery'
      BY <1>1, <3>2, <3>5, <3>6, <3>7 DEF IInv, Delivery
    <3>9. Numbers'
      BY <1>1, <1>3, <3>7 DEF IInv, Numbers
    <3> QED BY <1>1, <1>2, <3>8, <3>9 DEF IInv
  <2> QED BY <2>1, <2>2
<1>6. CASE Raises(r)
  <2>1. PICK retryable \in BOOLEAN :
          IF IsCurrent(r) THEN Fails(retryable) ELSE UNCHANGED <<task, inbox>>
    BY <1>6 DEF Raises
  <2>2. CASE ~IsCurrent(r)
    <3>1. UNCHANGED <<task, inbox>>
      BY <2>1, <2>2
    <3> QED BY <1>1, <1>2, <1>4, <3>1 DEF IInv
  <2>3. CASE IsCurrent(r)
    <3>1. Fails(retryable) /\ task.state = "started"
      BY <2>1, <2>3 DEF IsCurrent
    <3>2. Delivery' /\ Numbers'
      BY <1>1, <1>3, <3>1, FailsKeeps
    <3> QED BY <1>1, <1>2, <3>2 DEF IInv
  <2> QED BY <2>2, <2>3
<1> QED BY <1>5, <1>6

(* The server's timers on an activity task keep it. *)
LEMMA TimerKeeps ==
  IInv /\ (AttemptTimesOut \/ NobodyCame \/ BackoffEnds) => IInv'
<1> SUFFICES ASSUME IInv, AttemptTimesOut \/ NobodyCame \/ BackoffEnds PROVE IInv'
  OBVIOUS
<1>1. UNCHANGED <<status, result, history, commands, cancel, running,
                  wf, cursor, answer, crashes>>
  BY DEF AttemptTimesOut, NobodyCame, BackoffEnds, record, cache
<1>2. Log' /\ Standing' /\ Cached' /\ Answered'
  BY <1>1, RecordFrame DEF IInv
<1>3. CASE AttemptTimesOut
  <2>1. Delivery' /\ Numbers'
    BY <1>1, <1>3, FailsKeeps DEF AttemptTimesOut
  <2> QED BY <1>1, <1>2, <2>1 DEF IInv
<1>4. CASE NobodyCame
  <2>1. Delivery' /\ Numbers'
    BY <1>1, <1>4, FailsKeeps DEF NobodyCame
  <2> QED BY <1>1, <1>2, <2>1 DEF IInv
<1>5. CASE BackoffEnds
  <2>1. /\ task.state = "backoff" /\ task.attempt < MaxAttempts
        /\ task.attempt \in 1..MaxAttempts /\ status = "RUNNING"
        /\ Len(history) \in 1..4 /\ inbox' = inbox
    BY <1>5, MaxAttemptsAssumption, TaskTyped DEF BackoffEnds, IInv, Delivery
  <2>2. task' = [state |-> "scheduled", attempt |-> task.attempt + 1]
    BY <1>5 DEF BackoffEnds
  <2>3. /\ task'.state = "scheduled" /\ task'.attempt = task.attempt + 1
        /\ task' \in [state : {"none", "scheduled", "started", "backoff"},
                      attempt : 0..MaxAttempts]
    BY <2>1, <2>2, MaxAttemptsAssumption
  <2>4. Delivery'
    BY <1>1, <2>1, <2>3 DEF IInv, Delivery
  <2>5. Numbers'
    <3>1. \A r \in running : r.order = Len(history) => r.attempt <= task.attempt
      BY <2>1 DEF IInv, Numbers
    <3>2. \A r \in running : r.attempt \in 1..MaxAttempts
      BY DEF IInv, Numbers, Attempts
    <3> QED BY <1>1, <2>1, <2>3, <3>1, <3>2, MaxAttemptsAssumption DEF IInv, Numbers
  <2> QED BY <1>1, <1>2, <2>4, <2>5 DEF IInv
<1> QED BY <1>3, <1>4, <1>5

(* A cancellation request and a status query keep it. *)
LEMMA ClientKeeps == IInv /\ (RequestCancel \/ Query) => IInv'
<1> SUFFICES ASSUME IInv, RequestCancel \/ Query PROVE IInv'
  OBVIOUS
<1> USE DEF IInv
<1>1. CASE RequestCancel
  <2>1. UNCHANGED <<status, result, history, commands, inbox, task, running,
                    wf, cursor, answer, crashes>> /\ cancel' = "pending"
    BY <1>1 DEF RequestCancel, record, cache
  <2>2. Log' /\ Standing' /\ Cached' /\ Answered'
    BY <2>1, RecordFrame
  <2> QED BY <2>1, <2>2 DEF Delivery, Numbers
<1>2. CASE Query
  <2>1. UNCHANGED <<status, result, history, commands, inbox, cancel, task, running,
                    wf, cursor, crashes>>
    BY <1>2 DEF Query, record, server, cache
  <2>2. Log' /\ Standing' /\ Cached' /\ Delivery' /\ Numbers'
    BY <2>1 DEF Log, Standing, Cached, Delivery, Numbers
  <2>3. Answered'
    <3>1. /\ cursor = Len(history) /\ cursor > 0 /\ cursor \in 0..Len(history)
          /\ answer' = [stage |-> wf.stage, steps |-> wf.steps]
          /\ wf = At(history, cursor)
      BY <1>2 DEF Query, CaughtUp, Cached
    <3>2. Len(history) \in 0..5
      BY HistoryLength DEF Log
    <3>3. \A m \in 0..5 : m > 0 => m \in 1..m
      OBVIOUS
    <3>4. cursor \in 1..Len(history)
      BY <3>1, <3>2, <3>3
    <3>5. \E n \in 1..Len(history) :
            answer' = [stage |-> At(history, n).stage, steps |-> At(history, n).steps]
      BY <3>1, <3>4
    <3> QED BY <2>1, <3>5 DEF Answered
  <2> QED BY <2>1, <2>2, <2>3
<1> QED BY <1>1, <1>2

(* A run closed by the server keeps it. *)
LEMMA ServerClosesKeeps == IInv /\ ServerCloses => IInv'
<1> SUFFICES ASSUME IInv, ServerCloses PROVE IInv'
  OBVIOUS
<1> USE DEF IInv
<1>1. /\ status = "RUNNING" /\ status' \in {"TIMED_OUT", "TERMINATED"}
      /\ task' = NoTask /\ inbox' = NoEvent
      /\ UNCHANGED <<result, history, commands, cancel, running, wf, cursor, answer, crashes>>
  BY DEF ServerCloses, record, cache
<1>2. Log' /\ Cached' /\ Answered'
  BY <1>1 DEF Log, Cached, Answered
<1>3. Standing'
  BY <1>1 DEF Standing, Closed
<1>4. task'.state = "none" /\ task' \in [state : {"none", "scheduled", "started", "backoff"},
                                          attempt : 0..MaxAttempts]
  BY <1>1, MaxAttemptsAssumption DEF NoTask
<1>5. inbox' \in Events /\ inbox'.wins = FALSE
  BY <1>1 DEF NoEvent, Events
<1>6. Delivery'
  BY <1>1, <1>4, <1>5 DEF Delivery
<1>7. Numbers'
  BY <1>1, <1>4 DEF Numbers
<1> QED BY <1>1, <1>2, <1>3, <1>6, <1>7

(* A crash keeps it: the object is fresh again, and the log is not touched. *)
LEMMA WorkerCrashKeeps == IInv /\ WorkerCrash => IInv'
<1> SUFFICES ASSUME IInv, WorkerCrash PROVE IInv'
  OBVIOUS
<1> USE DEF IInv
<1>1. /\ UNCHANGED <<status, result, history, commands, inbox, cancel, task, answer>>
      /\ crashes < MaxCrashes /\ crashes' = crashes + 1
      /\ running' \subseteq running
      /\ (wf' = Fresh /\ cursor' = 0) \/ UNCHANGED <<wf, cursor>>
  BY DEF WorkerCrash, Evicted, record, server, cache
<1>2. Log' /\ Standing' /\ Answered' /\ Delivery'
  BY <1>1 DEF Log, Standing, Answered, Delivery
<1>3. Cached'
  <2>1. CASE wf' = Fresh /\ cursor' = 0
    <3>1. Len(history) \in 0..5
      BY HistoryLength DEF Log
    <3>2. \A m \in 0..5 : 0 \in 0..m
      OBVIOUS
    <3> QED BY <1>1, <2>1, <3>1, <3>2 DEF Cached, At
  <2>2. CASE UNCHANGED <<wf, cursor>>
    BY <1>1, <2>2 DEF Cached
  <2> QED BY <1>1, <2>1, <2>2
<1>4. Numbers'
  BY <1>1 DEF Numbers
<1>5. crashes' \in 0..MaxCrashes
  BY <1>1, MaxCrashesAssumption
<1> QED BY <1>2, <1>3, <1>4, <1>5

(* The invariant is inductive. *)
LEMMA StepKeeps == IInv /\ [Next]_vars => IInv'
<1> SUFFICES ASSUME IInv, [Next]_vars PROVE IInv'
  OBVIOUS
<1>1. CASE WorkflowTask
  BY <1>1, WorkflowTaskKeeps
<1>2. CASE Replay
  BY <1>2, ReplayKeeps
<1>3. CASE PickUp
  BY <1>3, PickUpKeeps
<1>4. CASE \E r \in running : Returns(r) \/ Raises(r)
  BY <1>4, AnswerKeeps
<1>5. CASE AttemptTimesOut \/ NobodyCame \/ BackoffEnds
  BY <1>5, TimerKeeps
<1>6. CASE RequestCancel \/ Query
  BY <1>6, ClientKeeps
<1>7. CASE ServerCloses
  BY <1>7, ServerClosesKeeps
<1>8. CASE WorkerCrash
  BY <1>8, WorkerCrashKeeps
<1>9. CASE UNCHANGED vars
  <2>1. UNCHANGED <<status, result, history, commands, inbox, cancel, task, running,
                    wf, cursor, answer, crashes>>
    BY <1>9 DEF vars
  <2> QED BY <2>1 DEF IInv, Log, Standing, Cached, Answered, Delivery, Numbers
<1> QED BY <1>1, <1>2, <1>3, <1>4, <1>5, <1>6, <1>7, <1>8, <1>9 DEF Next

(* The inductive invariant is an invariant. *)
LEMMA Invariance == Spec => []IInv
BY Initially, StepKeeps, PTL DEF Spec

-----------------------------------------------------------------------------
(* The theorems about the specification.                                      *)

(* It implies the type invariant. *)
LEMMA Typed == IInv => TypeOK
<1> SUFFICES ASSUME IInv PROVE TypeOK
  OBVIOUS
<1> USE DEF IInv
<1>1. WellOrdered(history) /\ history \in Seq(Events)
  BY HistoryLength DEF Log
<1>2. wf \in Workflows /\ cursor \in 0..Len(history)
  BY <1>1, AtGood DEF Cached
<1>3. answer \in Answers
  <2>1. CASE answer = NoAnswer
    <3>1. <<>> \in Seq(StepRecords)
      OBVIOUS
    <3> QED BY <2>1, <3>1 DEF NoAnswer, Answers
  <2>2. CASE \E n \in 1..Len(history) :
               answer = [stage |-> At(history, n).stage, steps |-> At(history, n).steps]
    <3>1. PICK n \in 1..Len(history) :
            answer = [stage |-> At(history, n).stage, steps |-> At(history, n).steps]
      BY <2>2
    <3>2. n \in 0..Len(history)
      BY <3>1
    <3>3. At(history, n) \in Workflows
      BY <1>1, <3>2, AtGood
    <3> QED BY <3>1, <3>3 DEF Workflows, Answers
  <2> QED BY <2>1, <2>2 DEF Answered
<1>4. result \in Results
  <2>1. CASE status = "COMPLETED"
    <3>1. Len(history) \in 0..Len(history)
      <4>1. \A m \in 0..5 : m \in 0..m
        OBVIOUS
      <4> QED BY <1>1, <4>1, HistoryLength
    <3>2. At(history, Len(history)) \in Workflows
      BY <1>1, <3>1, AtGood
    <3> QED BY <2>1, <3>2 DEF Standing, Workflows
  <2>2. CASE status # "COMPLETED"
    BY <2>2 DEF Standing, NoResult, Results
  <2> QED BY <2>1, <2>2
<1>5. status \in {"RUNNING"} \cup Closed /\ commands \in Seq(Steps \cup Exits)
  BY DEF Standing, Log
<1>6. /\ inbox \in Events /\ cancel \in {"none", "pending", "delivered"}
      /\ task \in [state : {"none", "scheduled", "started", "backoff"},
                   attempt : 0..MaxAttempts]
      /\ running \subseteq Attempts
  BY DEF Delivery, Numbers
<1> QED BY <1>1, <1>2, <1>3, <1>4, <1>5, <1>6 DEF TypeOK

(* Every variable keeps the type the code gives it. *)
THEOREM TypeCorrect == Spec => []TypeOK
BY Invariance, Typed, PTL

(* However often the workflow is evicted and rebuilt, what the status query   *)
(* shows is one coherent walk along the pipeline.                             *)
THEOREM ViewsAreCoherent == Spec => []ViewCoherent
<1>1. IInv => ViewCoherent
  BY AtGood DEF IInv, Log, Cached, ViewCoherent
<1> QED BY <1>1, Invariance, PTL

(* The three ways the last event can have ended the workflow, and the result  *)
(* each of them leaves.                                                       *)
LEMMA ReturnedMeans ==
  ASSUME NEW k \in 0..4, NEW v, NEW e, NEW w, Leaves(w, k, v, e), w.exit = "returned"
  PROVE  \/ /\ k = 3 /\ e.value \in Outcomes /\ ~Ok(e.value)
            /\ w.result = [status |-> "failed", sandbox |-> e.value,
                           reason |-> FailureReason(e.value)]
         \/ /\ k = 4
            /\ w.result = [status |-> "completed", sandbox |-> v, reason |-> "none"]
BY DEF Leaves, Broken, Rejected, Accepted

(* What a completed run's result is, and how many events it took.             *)
LEMMA CompletedMeans ==
  ASSUME IInv, status = "COMPLETED"
  PROVE  \/ /\ Len(history) = 4 /\ history[4].value \in Outcomes /\ ~Ok(history[4].value)
            /\ result = [status |-> "failed", sandbox |-> history[4].value,
                         reason |-> FailureReason(history[4].value)]
         \/ /\ Len(history) = 5 /\ Ok(history[4].value)
            /\ result = [status |-> "completed", sandbox |-> history[4].value,
                         reason |-> "none"]
<1> USE DEF IInv
<1>1. WellOrdered(history) /\ Len(history) \in 0..5
  BY HistoryLength DEF Log
<1>2. PICK n \in 0..5 : n = Len(history)
  BY <1>1
<1>3. n \in 0..Len(history) /\ Len(history) = n
  BY <1>2
<1>4. ~Waits(history, n) /\ At(history, n).exit = "returned"
      /\ result = At(history, n).result
  BY <1>3 DEF Standing
<1>5. /\ Leaves(At(history, n), n - 1, history[4].value, history[n])
      /\ n \in 1..5 /\ n - 1 \in 0..4
      /\ (n = 5 => Ok(history[4].value))
  BY <1>1, <1>3, <1>4, AtLeft
<1>6. \/ /\ n - 1 = 3 /\ history[n].value \in Outcomes /\ ~Ok(history[n].value)
         /\ result = [status |-> "failed", sandbox |-> history[n].value,
                      reason |-> FailureReason(history[n].value)]
      \/ /\ n - 1 = 4
         /\ result = [status |-> "completed", sandbox |-> history[4].value,
                      reason |-> "none"]
  BY <1>4, <1>5, ReturnedMeans
<1>7. (n - 1 = 3 => n = 4) /\ (n - 1 = 4 => n = 5)
  BY <1>2
<1> QED BY <1>3, <1>5, <1>6, <1>7

(* A run is judged by the sandbox's recorded answer and by nothing else.      *)
THEOREM VerdictsMatchRecord == Spec => []VerdictMatchesRecord
<1>1. IInv => VerdictMatchesRecord
  <2> SUFFICES ASSUME IInv PROVE VerdictMatchesRecord
    OBVIOUS
  <2> USE DEF IInv
  <2>1. WellOrdered(history) /\ Len(history) \in 0..5
    BY HistoryLength DEF Log
  <2>2. PICK n \in 0..5 : n = Len(history)
    BY <2>1
  <2>3. n \in 0..Len(history) /\ Len(history) = n
    BY <2>2
  <2>4. status = "COMPLETED" =>
          \/ /\ n = 4 /\ history[4].value \in Outcomes /\ ~Ok(history[4].value)
             /\ result = [status |-> "failed", sandbox |-> history[4].value,
                          reason |-> FailureReason(history[4].value)]
          \/ /\ n = 5 /\ Ok(history[4].value)
             /\ result = [status |-> "completed", sandbox |-> history[4].value,
                          reason |-> "none"]
    BY <2>3, CompletedMeans
  <2>5. status = "COMPLETED" <=> result # NoResult
    <3>1. CASE status = "COMPLETED"
      BY <2>4, <3>1 DEF NoResult
    <3>2. CASE status # "COMPLETED"
      BY <3>2 DEF Standing
    <3> QED BY <3>1, <3>2
  <2>6. status # "COMPLETED" => result.status = "none"
    BY DEF Standing, NoResult
  <2>7. result.status = "completed" =>
          Len(history) = 5 /\ result.sandbox = history[4].value /\ Ok(result.sandbox)
    BY <2>3, <2>4, <2>6
  <2>8. result.status = "failed" =>
          /\ Len(history) = 4 /\ result.sandbox = history[4].value
          /\ ~Ok(result.sandbox) /\ result.reason = FailureReason(result.sandbox)
    BY <2>3, <2>4, <2>6
  <2>9. Len(commands) >= 4 /\ commands[4] = "summarize" => Ok(history[4].value)
    <3> SUFFICES ASSUME Len(commands) >= 4, commands[4] = "summarize"
                 PROVE  Ok(history[4].value)
      OBVIOUS
    <3>1. Len(commands) = n /\ n >= 4 /\ 4 \in 1..n /\ 4 \in 0..n
          /\ commands[4] = Issues(At(history, 4))
      <4>1. Len(commands) = n
        BY <2>3 DEF Log
      <4>2. n >= 4 /\ 4 \in 1..n /\ 4 \in 0..n
        BY <2>2, <4>1
      <4> QED BY <2>3, <4>1, <4>2 DEF Log
    <3>2. CASE Waits(history, 4)
      <4>1. 4 - 1 = 3
        OBVIOUS
      <4> QED BY <3>2, <4>1 DEF Waits, GoesOn
    <3>3. CASE ~Waits(history, 4)
      <4>1. Leaves(At(history, 4), 3, history[4].value, history[4])
        <5>1. 4 - 1 = 3
          OBVIOUS
        <5> QED BY <2>1, <2>3, <3>1, <3>3, <5>1, AtLeft
      <4>2. Issues(At(history, 4)) \in Exits
        BY <4>1, LeftCoherent
      <4> QED BY <3>1, <4>2 DEF Exits
    <3> QED BY <3>2, <3>3
  <2> QED BY <2>5, <2>7, <2>8, <2>9 DEF VerdictMatchesRecord
<1> QED BY <1>1, Invariance, PTL

(* The workflow orders its sandbox once: so the attempt about to start shares *)
(* the name of its container with none that is still executing.               *)
THEOREM ContainerNamesAreUnused == Spec => []ContainerNameUnused
<1>1. IInv => ContainerNameUnused
  <2> SUFFICES ASSUME IInv, task.state = "scheduled", commands[Pending] = "run_sandbox",
                      NEW r \in running, r.step = "run_sandbox"
               PROVE  r.attempt # task.attempt
    BY DEF ContainerNameUnused
  <2>1. Len(history) \in 1..4 /\ Pipeline[Len(history)] = "run_sandbox"
    BY PendingIsStage
  <2>2. r.order \in 1..4 /\ Pipeline[r.order] = "run_sandbox"
    BY DEF IInv, Numbers, Attempts
  <2>3. \A k \in 1..4 : Pipeline[k] = "run_sandbox" => k = 3
    BY DEF Pipeline
  <2>4. r.order = Len(history)
    BY <2>1, <2>2, <2>3
  <2>5. r.attempt < task.attempt /\ r.attempt \in Nat /\ task.attempt \in Nat
    BY <2>4, TaskTyped, MaxAttemptsAssumption DEF IInv, Numbers, Attempts
  <2> QED BY <2>5
<1> QED BY <1>1, Invariance, PTL

(* What a query shows n events into the history. *)
View(n) == [stage |-> At(history, n).stage, steps |-> At(history, n).steps]

(* A view shows at least what an earlier one showed. *)
LEMMA ViewsGrow ==
  ASSUME WellOrdered(history), NEW m \in 1..5, NEW n \in 1..5,
         m < n, n = Len(history)
  PROVE  /\ Len(View(m).steps) <= Len(View(n).steps)
         /\ \A i \in 1..Len(View(m).steps) :
              /\ View(n).steps[i].name = View(m).steps[i].name
              /\ View(m).steps[i].state # "running" => View(n).steps[i] = View(m).steps[i]
         /\ View(m).stage \notin {"completed", "failed"}
<1>1. m \in 0..Len(history) /\ n \in 0..Len(history) /\ m \in 1..Len(history)
      /\ m < Len(history) /\ m - 1 \in 0..4 /\ n - 1 \in 0..4 /\ m <= n - 1 /\ n # 0 /\ m # 0
  <2>1. \A a, b \in 1..5 : a < b => /\ a \in 0..b /\ b \in 0..b /\ a \in 1..b
                                    /\ a - 1 \in 0..4 /\ b - 1 \in 0..4 /\ a <= b - 1
                                    /\ a # 0 /\ b # 0
    OBVIOUS
  <2> QED BY <2>1
<1>2. Waits(history, m)
  BY <1>1 DEF Waits, WellOrdered
<1>3. At(history, m) = Await(m, history[4].value) /\ m \in 0..4
  BY <1>1, <1>2, AtWaiting
<1>4. View(m).steps = Listed(m) /\ View(m).stage = Pipeline[m] /\ m \in 1..4
  BY <1>1, <1>3 DEF View, Await
<1>5. /\ Len(Listed(m)) = m
      /\ \A i \in 1..m : Listed(m)[i].state # "running" =>
            i < m /\ Listed(m)[i] = Settled(i, "completed", "none")
  <2>1. Len(Listed(m)) = m
    BY <1>4, ListedTyped
  <2>2. \A i \in 1..m : ~(i < m) => Listed(m)[i].state = "running"
    BY <1>4 DEF Listed, Settled
  <2>3. \A i \in 1..m : i < m => Listed(m)[i] = Settled(i, "completed", "none")
    BY <1>4 DEF Listed
  <2> QED BY <2>1, <2>2, <2>3
<1>6. /\ Len(View(n).steps) >= m
      /\ \A i \in 1..m : i < m => View(n).steps[i] = Settled(i, "completed", "none")
  <2>1. CASE Waits(history, n)
    <3>1. At(history, n) = Await(n, history[4].value) /\ n \in 0..4
      BY <1>1, <2>1, AtWaiting
    <3>2. View(n).steps = Listed(n) /\ n \in 1..4
      BY <1>1, <3>1 DEF View, Await
    <3>3. Len(Listed(n)) = n
      BY <3>2, ListedTyped
    <3>4. \A i \in 1..m : i < m => Listed(n)[i] = Settled(i, "completed", "none")
      BY <1>4, <3>2 DEF Listed
    <3> QED BY <3>2, <3>3, <3>4
  <2>2. CASE ~Waits(history, n)
    <3>1. Leaves(At(history, n), n - 1, history[4].value, history[n])
          /\ (n - 1 = 4 => history[4].value \in Values)
      BY <1>1, <2>2, AtLeft
    <3>2. /\ At(history, n) \in Workflows
          /\ Len(At(history, n).steps) >= n - 1
          /\ \A i \in 1..(n - 1) - 1 :
               At(history, n).steps[i] = Settled(i, "completed", "none")
      <4>1. n - 1 \in 0..4
        BY <1>1
      <4> QED BY <4>1, <3>1, LeftCoherent
    <3>3. View(n).steps = At(history, n).steps
      BY DEF View
    <3>4. Len(View(n).steps) \in Nat
      BY <3>2, <3>3, LenProperties DEF Workflows
    <3>5. \A i \in 1..m : i < m => i \in 1..(n - 1) - 1
      BY <1>1
    <3>6. \A x \in Nat : x >= n - 1 => x >= m
      BY <1>1
    <3> QED BY <3>2, <3>3, <3>4, <3>5, <3>6
  <2> QED BY <2>1, <2>2
<1>7. \A x : x >= m => m <= x
  OBVIOUS
<1>8. View(m).stage \notin {"completed", "failed"}
  BY <1>4, StageNames
<1>9. \A i \in 1..m : View(n).steps[i].name = View(m).steps[i].name
  <2>1. /\ At(history, m) \in Workflows /\ Coherent(At(history, m))
        /\ At(history, n) \in Workflows /\ Coherent(At(history, n))
    BY <1>1, AtGood
  <2>2. Len(View(m).steps) = m
    BY <1>4, <1>5
  <2>3. \A i \in 1..m : View(m).steps[i].name = Pipeline[i]
    BY <2>1, <2>2 DEF Coherent, View
  <2>4. Len(View(n).steps) \in Nat
    BY <2>1, LenProperties DEF View, Workflows
  <2>5. \A i \in 1..m : i \in 1..Len(View(n).steps)
    BY <1>4, <1>6, <2>4
  <2>6. \A i \in 1..m : View(n).steps[i].name = Pipeline[i]
    BY <2>1, <2>5 DEF Coherent, View
  <2> QED BY <2>3, <2>6
<1> QED BY <1>4, <1>5, <1>6, <1>7, <1>8, <1>9

(* A client that polls the status never sees it go back. *)
THEOREM PollingNeverGoesBack == Spec => AnswersNeverRegress
<1> DEFINE A == /\ Len(answer.steps) <= Len(answer'.steps)
                /\ \A i \in 1..Len(answer.steps) :
                     /\ answer'.steps[i].name = answer.steps[i].name
                     /\ answer.steps[i].state # "running" => answer'.steps[i] = answer.steps[i]
                /\ answer.stage \in {"completed", "failed"} => answer' = answer
<1>1. IInv /\ [Next]_vars => [A]_answer
  <2> SUFFICES ASSUME IInv, [Next]_vars, answer' # answer PROVE A
    OBVIOUS
  <2> USE DEF IInv
  <2>1. Query
    <3>1. ~ UNCHANGED vars /\ ~WorkflowTask /\ ~Replay /\ ~PickUp
          /\ ~AttemptTimesOut /\ ~NobodyCame /\ ~BackoffEnds
          /\ ~RequestCancel /\ ~ServerCloses /\ ~WorkerCrash
      BY DEF vars, WorkflowTask, Replay, PickUp, AttemptTimesOut, NobodyCame, BackoffEnds,
             RequestCancel, ServerCloses, WorkerCrash
    <3>2. ~(\E r \in running : Returns(r) \/ Raises(r))
      BY DEF Returns, Raises
    <3> QED BY <3>1, <3>2 DEF Next
  <2>2. WellOrdered(history) /\ Len(history) \in 0..5 /\ cursor = Len(history)
        /\ cursor > 0 /\ wf = At(history, cursor)
        /\ answer' = [stage |-> wf.stage, steps |-> wf.steps]
    BY <2>1, HistoryLength DEF Query, CaughtUp, Log, Cached
  <2>3. PICK n \in 1..5 : n = Len(history)
    BY <2>2
  <2>4. answer' = View(n)
    BY <2>2, <2>3 DEF View
  <2>5. CASE answer = NoAnswer
    <3>1. answer.steps = <<>> /\ Len(<<>>) = 0 /\ answer.stage = "none"
      BY <2>5 DEF NoAnswer
    <3>2. At(history, n) \in Workflows
      <4>1. n \in 0..Len(history)
        BY <2>3
      <4> QED BY <2>2, <4>1, AtGood
    <3>3. Len(answer'.steps) \in Nat
      BY <2>4, <3>2, LenProperties DEF View, Workflows
    <3> QED BY <3>1, <3>3
  <2>6. CASE answer # NoAnswer
    <3>1. PICK m \in 1..Len(history) : answer = View(m)
      BY <2>6 DEF Answered, View
    <3>2. m \in 1..5 /\ m <= n
      BY <2>3, <3>1
    <3>3. m # n
      BY <2>4, <3>1
    <3>4. m < n
      BY <3>2, <3>3
    <3>5. m \in 1..5 /\ n \in 1..5 /\ n = Len(history) /\ WellOrdered(history)
      BY <2>2, <2>3, <3>2
    <3>6. /\ Len(View(m).steps) <= Len(View(n).steps)
          /\ \A i \in 1..Len(View(m).steps) :
               /\ View(n).steps[i].name = View(m).steps[i].name
               /\ View(m).steps[i].state # "running" => View(n).steps[i] = View(m).steps[i]
          /\ View(m).stage \notin {"completed", "failed"}
      BY <3>4, <3>5, ViewsGrow
    <3> QED BY <2>4, <3>1, <3>6
  <2> QED BY <2>5, <2>6
<1> QED BY <1>1, Invariance, PTL DEF Spec, AnswersNeverRegress

-----------------------------------------------------------------------------
(* The run, as its client sees it, is the lifecycle.                          *)

(* How many stages the commands have ordered. *)
ProgressIs ==
  LET n == Len(history)
  IN /\ n \in 0..5
     /\ Waits(history, n) => n \in 0..4 /\ Progress = n
     /\ ~Waits(history, n) => n \in 1..5 /\ Progress = n - 1

(* The progress of the abstract run is the length of the log, unless it left. *)
LEMMA ProgressLemma == IInv => ProgressIs
<1> SUFFICES ASSUME IInv PROVE ProgressIs
  OBVIOUS
<1> USE DEF IInv
<1>1. WellOrdered(history) /\ Len(history) \in 0..5
  BY HistoryLength DEF Log
<1>2. PICK n \in 0..5 : n = Len(history)
  BY <1>1
<1>3. /\ Len(history) = n /\ Len(commands) = n /\ n \in 0..n
      /\ (n # 0 => n \in 1..n /\ commands[n] = Issues(At(history, n)))
  BY <1>2 DEF Log
<1>4. commands = <<>> <=> n = 0
  BY <1>3, EmptySeq DEF Log
<1>5. CASE Waits(history, n)
  <2>1. n \in 0..4 /\ At(history, n) = Await(n, history[4].value)
    BY <1>1, <1>3, <1>5, AtWaiting
  <2>2. CASE n = 0
    BY <1>3, <1>4, <1>5, <2>1, <2>2 DEF ProgressIs, Progress
  <2>3. CASE n # 0
    <3>1. commands[n] = Pipeline[n] /\ n \in 1..4
      BY <1>3, <2>1, <2>3 DEF Issues, Await
    <3>2. commands[n] \notin Exits
      BY <3>1, StageNames
    <3> QED BY <1>3, <1>5, <2>1, <3>2 DEF ProgressIs, Progress
  <2> QED BY <2>2, <2>3
<1>6. CASE ~Waits(history, n)
  <2>1. n \in 1..5 /\ n - 1 \in 0..4 /\ (n - 1 = 4 => history[4].value \in Values)
        /\ Leaves(At(history, n), n - 1, history[4].value, history[n])
    BY <1>1, <1>3, <1>6, AtLeft
  <2>2. commands[n] \in Exits /\ n # 0
    BY <1>3, <2>1, LeftCoherent
  <2> QED BY <1>3, <1>4, <1>6, <2>1, <2>2 DEF ProgressIs, Progress
<1> QED BY <1>5, <1>6

(* Being judged, in terms a step's post-state can be compared with.           *)
Judged ==
  status = "COMPLETED" =>
    \/ Len(history) = 4 /\ result.status = "failed"
    \/ Len(history) = 5 /\ result.status = "completed"

(* A completed run left the pipeline where its verdict says: after the sandbox   *)
(* when it failed, after the summary when it succeeded.                         *)
LEMMA JudgedLemma == IInv => Judged
BY CompletedMeans DEF Judged

(* One step of the pipeline is one step of the lifecycle, or none.            *)
LEMMA StepRefines ==
  ASSUME IInv, IInv', [Next]_vars
  PROVE  [Lifecycle!Next]_<<status, Progress, result.status>>
<1> USE DEF IInv
<1>1. ProgressIs /\ ProgressIs' /\ Judged'
  <2>1. ProgressIs
    BY ProgressLemma
  <2>2. ProgressIs'
    BY ProgressLemma, PTL
  <2>3. Judged'
    BY JudgedLemma, PTL
  <2> QED BY <2>1, <2>2, <2>3
<1>2. CASE WorkflowTask
  <2>1. status = "RUNNING" /\ Waits(history, Len(history)) /\ result = NoResult
    BY <1>2 DEF WorkflowTask, Standing
  <2>2. Progress = Len(history) /\ Len(history) \in 0..4
    BY <1>1, <2>1 DEF ProgressIs
  <2>3. PICK n \in 0..4 : n = Len(history)
    BY <2>2
  <2>4. Len(history') = n + 1
    <3>1. /\ history \in Seq(Events) /\ history' \in Seq(Events)
      BY HistoryLength DEF Log, WellOrdered
    <3>2. \E e : history' = Append(history, e) /\ e \in Events
      <4>1. PICK wins \in BOOLEAN : history' = Append(history, [inbox EXCEPT !.wins = wins])
        BY <1>2 DEF WorkflowTask
      <4>2. [inbox EXCEPT !.wins = wins] \in Events
        BY DEF Delivery, Events
      <4> QED BY <4>1, <4>2
    <3> QED BY <2>3, <3>1, <3>2, AppendProperties
  <2>5. status' \in {"RUNNING", "COMPLETED", "FAILED", "CANCELED"}
    <3>1. status' = StatusAfter(wf'.exit)
      BY <1>2 DEF WorkflowTask
    <3>2. wf'.exit \in Exits \cup {"none"}
      <4>1. (IInv => TypeOK)'
        BY Typed, PTL
      <4> QED BY <4>1 DEF TypeOK, Workflows
    <3> QED BY <3>1, <3>2 DEF StatusAfter, Exits
  <2>6. CASE status' = "RUNNING"
    <3>1. Progress' = n + 1 /\ n + 1 \in 0..4 /\ result' = NoResult
      BY <1>1, <2>4, <2>6 DEF ProgressIs, Standing
    <3> QED BY <2>1, <2>2, <2>3, <2>6, <3>1 DEF Lifecycle!Next, Lifecycle!Advance
  <2>7. CASE status' # "RUNNING"
    <3>1. ~Waits(history', n + 1)
      BY <2>4, <2>5, <2>7 DEF Standing
    <3>2. Progress' = (n + 1) - 1 /\ (n + 1) - 1 = n /\ Progress' = Progress
      BY <1>1, <2>2, <2>3, <2>4, <3>1 DEF ProgressIs
    <3>3. CASE status' = "COMPLETED"
      <4>1. \/ n + 1 = 4 /\ result'.status = "failed"
            \/ n + 1 = 5 /\ result'.status = "completed"
        BY <1>1, <2>4, <3>3 DEF Judged
      <4>2. \/ n = 3 /\ result'.status = "failed"
            \/ n = 4 /\ result'.status = "completed"
        BY <2>3, <4>1
      <4> QED BY <2>1, <2>2, <2>3, <3>2, <3>3, <4>2
              DEF Lifecycle!Next, Lifecycle!Succeed, Lifecycle!Reject
    <3>4. CASE status' = "FAILED"
      <4>1. n + 1 # 1 /\ result' = NoResult
        BY <2>4, <3>4 DEF Standing
      <4>2. n > 0
        BY <2>3, <4>1
      <4> QED BY <2>1, <2>2, <2>3, <3>2, <3>4, <4>1, <4>2
              DEF Lifecycle!Next, Lifecycle!Break
    <3>5. CASE status' = "CANCELED"
      <4>1. result' = NoResult
        BY <3>5 DEF Standing
      <4> QED BY <2>1, <3>2, <3>5, <4>1 DEF Lifecycle!Next, Lifecycle!Stop
    <3> QED BY <2>5, <2>7, <3>3, <3>4, <3>5
  <2> QED BY <2>6, <2>7
<1>3. CASE ServerCloses
  <2>1. UNCHANGED <<result, commands>> /\ status = "RUNNING"
        /\ status' \in {"TIMED_OUT", "TERMINATED"}
    BY <1>3 DEF ServerCloses, record
  <2>2. Progress' = Progress
    BY <2>1 DEF Progress
  <2> QED BY <2>1, <2>2 DEF Lifecycle!Next, Lifecycle!Stop
<1>4. CASE ~WorkflowTask /\ ~ServerCloses
  <2>1. UNCHANGED <<status, result, commands>>
    BY <1>4 DEF Next, vars, Replay, PickUp, Returns, Raises, AttemptTimesOut, NobodyCame,
                BackoffEnds, RequestCancel, WorkerCrash, Query, record, server
  <2>2. Progress' = Progress
    BY <2>1 DEF Progress
  <2> QED BY <2>1, <2>2
<1> QED BY <1>2, <1>3, <1>4

(* AgentPipeline implements RunLifecycle: whatever workers, attempts, replays *)
(* and cancellations do, a client sees the stages ordered one by one, at most *)
(* one verdict, a favourable one after all four stages only, and no change    *)
(* once the run has ended.                                                    *)
THEOREM PipelineImplementsLifecycle == Spec => ImplementsLifecycle
<1>1. Init => Lifecycle!Init
  BY DEF Init, Lifecycle!Init, Progress, NoResult
<1>2. IInv /\ IInv' /\ [Next]_vars => [Lifecycle!Next]_<<status, Progress, result.status>>
  BY StepRefines
<1> QED BY <1>1, <1>2, Invariance, PTL
        DEF Spec, ImplementsLifecycle, Lifecycle!Spec, Lifecycle!lifecycle

=============================================================================
