--------------------------- MODULE SubmissionProofs ---------------------------
(* Theorems about Submission, for any number of calls, tenants, keys and      *)
(* payloads: a submission runs once, and calls are told of their own run      *)
(* unless a key is reused.                                                    *)
EXTENDS Submission, FiniteSetTheorems, TLAPS

-----------------------------------------------------------------------------
(* The inductive invariant. *)

Runs == [known : BOOLEAN, open : BOOLEAN, payload : Payloads \cup {None}]

Typed ==
  /\ at \in [Calls -> {"idle", "starting", "describing", "replied"}]
  /\ request \in [Calls -> Requests \cup {NoRequest}]
  /\ reply \in [Calls -> {0, 200, 201, 401, 413, 422, 500, 503}]
  /\ run \in [Calls -> [id : WorkflowIds \cup {None}, nth : Nat,
                        payload : Payloads \cup {None}]]
  /\ runs \in [WorkflowIds -> Runs]
  /\ started \in [WorkflowIds -> Nat]
  /\ dropped \in [WorkflowIds -> Nat]

(* How far a call is, of what it holds: a call under way has a request and no *)
(* answer, and only one that was given or refused a start is about a run.     *)
Progress ==
  \A c \in Calls :
    /\ at[c] \in {"starting", "describing"} => request[c] \in Requests
    /\ reply[c] # 0 <=> at[c] = "replied"
    /\ run[c] # Nothing =>
         /\ at[c] \in {"describing", "replied"} /\ request[c] \in Requests
         /\ run[c].id = Id(c) /\ run[c].nth \in 1..started[Id(c)]

OpenIsKnown == \A w \in WorkflowIds : runs[w].open => runs[w].known

(* A run was started by a call that derived its id from what it was asked,    *)
(* and a call told "created" is that call.                                    *)
Asked(c, w, p) ==
  at[c] # "idle" /\ request[c] \in Requests /\ Id(c) = w /\ request[c].payload = p
Origins ==
  /\ \A w \in WorkflowIds :
       runs[w].known => \E d \in Calls : Asked(d, w, runs[w].payload)
  /\ \A c \in Calls : run[c] # Nothing =>
       /\ \E d \in Calls : Asked(d, run[c].id, run[c].payload)
       /\ reply[c] \in {0, 200, 201}
       /\ reply[c] = 201 => run[c].payload = request[c].payload

(* Each start of an id has ended a call of its own. *)
Starters(w) == {c \in Calls : at[c] = "replied" /\ Id(c) = w}
Counted == \A w \in WorkflowIds : started[w] <= Cardinality(Starters(w))

IInv == Typed /\ Progress /\ OpenIsKnown /\ Origins /\ RunsOnce /\ Counted

-----------------------------------------------------------------------------
(* What a request is called. *)
LEMMA IdOfRequest ==
  ASSUME NEW c \in Calls, request[c] \in Requests
  PROVE  Id(c) \in WorkflowIds
BY DEF Id, WorkflowIds

(* What a refusal answers. *)
LEMMA RefusalCodes ==
  ASSUME NEW flaws PROVE Refusal(flaws) \in {401, 413, 422}
BY DEF Refusal

(* There are no more of them than calls. *)
LEMMA StartersFinite ==
  ASSUME NEW w PROVE IsFiniteSet(Starters(w)) /\ Cardinality(Starters(w)) \in Nat
                     /\ Cardinality(Starters(w)) <= Cardinality(Calls)
                     /\ Cardinality(Calls) \in Nat
<1>1. Starters(w) \in SUBSET Calls
  BY DEF Starters
<1>. QED
  BY <1>1, CallsAssumption, FS_Subset, FS_CardinalityType

(* Calls that have answered stay answered, and a set of them does not shrink. *)
LEMMA StartersGrow ==
  ASSUME IInv, UNCHANGED started,
         \A c \in Calls : at[c] = "replied" => at'[c] = "replied" /\ request'[c] = request[c]
  PROVE  Counted'
<1>. SUFFICES ASSUME NEW w \in WorkflowIds
              PROVE  started'[w] <= Cardinality(Starters(w)')
  BY DEF Counted
<1>1. Starters(w) \in SUBSET Starters(w)'
  BY DEF Starters, Id
<1>2. IsFiniteSet(Starters(w)') /\ Cardinality(Starters(w)') \in Nat
  <2>1. Starters(w)' \in SUBSET Calls
    BY DEF Starters
  <2>. QED
    BY <2>1, CallsAssumption, FS_Subset, FS_CardinalityType
<1>3. Cardinality(Starters(w)) <= Cardinality(Starters(w)')
  BY <1>1, <1>2, FS_Subset
<1>4. Cardinality(Starters(w)) \in Nat
  BY StartersFinite
<1>5. started[w] \in Nat /\ started[w] <= Cardinality(Starters(w))
  BY DEF IInv, Typed, Counted
<1>. QED
  BY <1>2, <1>3, <1>4, <1>5

(* Who has asked has asked for good. *)
LEMMA AskedStays ==
  ASSUME NEW d \in Calls, NEW w, NEW p, Asked(d, w, p),
         at[d] # "idle" => at'[d] # "idle" /\ request'[d] = request[d]
  PROVE  Asked(d, w, p)'
BY DEF Asked, Id

(* No call has come in. *)
LEMMA InitInv == Init => IInv
<1>. SUFFICES ASSUME Init PROVE IInv
  OBVIOUS
<1>1. Typed
  BY DEF Init, Typed, Runs, NoRun, Nothing
<1>2. Progress
  BY DEF Init, Progress
<1>3. OpenIsKnown /\ Origins /\ RunsOnce
  BY DEF Init, OpenIsKnown, Origins, RunsOnce, NoRun
<1>4. Counted
  <2>. SUFFICES ASSUME NEW w \in WorkflowIds PROVE started[w] <= Cardinality(Starters(w))
    BY DEF Counted
  <2>1. started[w] = 0
    BY DEF Init
  <2>. QED
    BY <2>1, StartersFinite
<1>. QED
  BY <1>1, <1>2, <1>3, <1>4 DEF IInv

(* A step that starts nothing and takes back no request keeps where the runs  *)
(* come from, if the calls it answers are answered rightly.                   *)
LEMMA OriginsKept ==
  ASSUME IInv, UNCHANGED runs,
         \A d \in Calls : at[d] # "idle" => at'[d] # "idle" /\ request'[d] = request[d],
         \A c \in Calls : \/ run'[c] = run[c] /\ reply'[c] = reply[c]
                          \/ run'[c] = Nothing
                          \/ run'[c] = run[c] /\ reply'[c] = 200
  PROVE  Origins'
<1>1. ASSUME NEW w \in WorkflowIds, runs[w].known
      PROVE  \E d \in Calls : Asked(d, w, runs[w].payload)'
  <2>1. PICK d \in Calls : Asked(d, w, runs[w].payload)
    BY <1>1 DEF IInv, Origins
  <2>. QED
    BY <2>1, AskedStays
<1>2. ASSUME NEW c \in Calls, run'[c] # Nothing
      PROVE  /\ \E d \in Calls : Asked(d, run[c].id, run[c].payload)'
             /\ run'[c] = run[c] /\ reply'[c] \in {0, 200, 201}
             /\ reply'[c] = 201 => run[c].payload = request'[c].payload
  <2>1. run'[c] = run[c] /\ run[c] # Nothing /\ reply'[c] \in {reply[c], 200}
    BY <1>2
  <2>2. PICK d \in Calls : Asked(d, run[c].id, run[c].payload)
    BY <2>1 DEF IInv, Origins
  <2>3. Asked(d, run[c].id, run[c].payload)'
    BY <2>2, AskedStays, <2>1 DEF Asked, Id
  <2>4. at[c] # "idle" /\ request'[c] = request[c]
    BY <2>1 DEF IInv, Progress
  <2>. QED
    BY <2>1, <2>3, <2>4 DEF IInv, Origins
<1>. QED
  BY <1>1, <1>2 DEF Origins, Asked, Id

-----------------------------------------------------------------------------
(* The steps. *)

(* A call comes in. *)
LEMMA ArrivesKeepsInv ==
  ASSUME IInv, NEW c \in Calls, Arrives(c) PROVE IInv'
<1>1. /\ at[c] = "idle"
      /\ \/ /\ \E r \in Requests : request' = [request EXCEPT ![c] = r]
            /\ at' = [at EXCEPT ![c] = "starting"] /\ reply' = reply
         \/ /\ at' = [at EXCEPT ![c] = "replied"] /\ request' = request
            /\ \E code \in {401, 413, 422} : reply' = [reply EXCEPT ![c] = code]
      /\ run' = run /\ runs' = runs /\ started' = started /\ dropped' = dropped
  BY RefusalCodes DEF Arrives, Replies, server
<1>2. Typed'
  <2>1. at' \in [Calls -> {"idle", "starting", "describing", "replied"}]
    BY <1>1 DEF IInv, Typed
  <2>2. request' \in [Calls -> Requests \cup {NoRequest}]
    BY <1>1 DEF IInv, Typed
  <2>3. reply' \in [Calls -> {0, 200, 201, 401, 413, 422, 500, 503}]
    <3>1. \/ reply' = reply
          \/ \E code \in {401, 413, 422} : reply' = [reply EXCEPT ![c] = code]
      BY <1>1
    <3>2. reply \in [Calls -> {0, 200, 201, 401, 413, 422, 500, 503}]
      BY DEF IInv, Typed
    <3>. QED
      BY ONLY <3>1, <3>2
  <2>. QED
    BY <1>1, <2>1, <2>2, <2>3 DEF IInv, Typed
<1>3. run[c] = Nothing
  BY <1>1 DEF IInv, Progress
<1>4. Progress'
  BY <1>1, <1>3 DEF IInv, Typed, Progress, Id
<1>5. OpenIsKnown' /\ RunsOnce'
  BY <1>1 DEF IInv, OpenIsKnown, RunsOnce
<1>6. \A d \in Calls : at[d] # "idle" => at'[d] = at[d] /\ request'[d] = request[d]
  BY <1>1 DEF IInv, Typed
<1>7. Counted'
  BY <1>1, <1>6, StartersGrow
<1>8. Origins'
  <2>1. \A d \in Calls : \/ run'[d] = run[d] /\ reply'[d] = reply[d]
                         \/ run'[d] = Nothing
    BY <1>1, <1>3 DEF IInv, Typed
  <2>. QED
    BY <1>1, <1>6, <2>1, OriginsKept
<1>. QED
  BY <1>2, <1>4, <1>5, <1>7, <1>8 DEF IInv

(* A call gets an answer that is not "created". *)
LEMMA AnswerKeepsInv ==
  ASSUME IInv, NEW c \in Calls, NEW code \in {200, 500, 503},
         at[c] = "starting" \/ (at[c] = "describing" /\ code = 200),
         Replies(c, code), UNCHANGED <<request, run, server>>
  PROVE  IInv'
<1>1. /\ at' = [at EXCEPT ![c] = "replied"] /\ reply' = [reply EXCEPT ![c] = code]
      /\ request' = request /\ run' = run /\ runs' = runs
      /\ started' = started /\ dropped' = dropped
  BY DEF Replies, server
<1>2. Typed'
  BY <1>1 DEF IInv, Typed
<1>3. run[c] = Nothing \/ code = 200
  BY DEF IInv, Progress
<1>4. Progress'
  BY <1>1 DEF IInv, Typed, Progress, Id
<1>5. OpenIsKnown' /\ RunsOnce'
  BY <1>1 DEF IInv, OpenIsKnown, RunsOnce
<1>6. \A d \in Calls : /\ at[d] # "idle" => at'[d] # "idle" /\ request'[d] = request[d]
                       /\ at[d] = "replied" => at'[d] = "replied"
  BY <1>1 DEF IInv, Typed
<1>7. Counted'
  BY <1>1, <1>6, StartersGrow
<1>8. Origins'
  <2>1. \A d \in Calls : \/ run'[d] = run[d] /\ reply'[d] = reply[d]
                         \/ run'[d] = Nothing
                         \/ run'[d] = run[d] /\ reply'[d] = 200
    BY <1>1, <1>3 DEF IInv, Typed
  <2>. QED
    BY <1>1, <1>6, <2>1, OriginsKept
<1>. QED
  BY <1>2, <1>4, <1>5, <1>7, <1>8 DEF IInv

(* The run of the id is started. *)
LEMMA StartsKeepsInv ==
  ASSUME IInv, NEW c \in Calls, Starts(c) PROVE IInv'
<1>1. request[c] \in Requests /\ Id(c) \in WorkflowIds /\ at[c] = "starting"
  BY IdOfRequest DEF Starts, IInv, Progress
<1>2. PICK w \in WorkflowIds : w = Id(c)
  BY <1>1
<1>3. PICK p \in Payloads : p = request[c].payload
  BY <1>1 DEF Requests
<1>4. /\ ~runs[w].known
      /\ runs' = [runs EXCEPT ![w] = [known |-> TRUE, open |-> TRUE, payload |-> p]]
      /\ started' = [started EXCEPT ![w] = @ + 1]
      /\ at' = [at EXCEPT ![c] = "replied"]
      /\ request' = request /\ dropped' = dropped
  BY <1>2, <1>3 DEF Starts, Free, Replies
<1>5. started'[w] = started[w] + 1 /\ started[w] \in Nat /\ started'[w] \in Nat
  BY <1>4 DEF IInv, Typed
<1>6. \/ /\ reply' = [reply EXCEPT ![c] = 201]
         /\ run' = [run EXCEPT ![c] = [id |-> w, nth |-> started'[w], payload |-> p]]
      \/ /\ \E code \in {500, 503} : reply' = [reply EXCEPT ![c] = code]
         /\ run' = run
  BY <1>2, <1>3 DEF Starts, Replies
<1>7. Typed'
  <2>1. [known |-> TRUE, open |-> TRUE, payload |-> p] \in Runs
    BY DEF Runs
  <2>2. runs' \in [WorkflowIds -> Runs]
    BY <1>4, <2>1 DEF IInv, Typed
  <2>3. run' \in [Calls -> [id : WorkflowIds \cup {None}, nth : Nat,
                           payload : Payloads \cup {None}]]
    <3>1. [id |-> w, nth |-> started'[w], payload |-> p]
            \in [id : WorkflowIds \cup {None}, nth : Nat, payload : Payloads \cup {None}]
      BY <1>5
    <3>. QED
      BY <1>6, <3>1 DEF IInv, Typed
  <2>4. reply' \in [Calls -> {0, 200, 201, 401, 413, 422, 500, 503}]
    BY <1>6 DEF IInv, Typed
  <2>5. /\ at' \in [Calls -> {"idle", "starting", "describing", "replied"}]
        /\ started' \in [WorkflowIds -> Nat]
    BY <1>4 DEF IInv, Typed
  <2>. QED
    BY <1>4, <2>2, <2>3, <2>4, <2>5 DEF IInv, Typed
<1>8. run[c] = Nothing
  BY <1>1 DEF IInv, Progress
<1>9. Progress'
  <2>. SUFFICES ASSUME NEW d \in Calls
                PROVE  /\ at'[d] \in {"starting", "describing"} => request'[d] \in Requests
                       /\ reply'[d] # 0 <=> at'[d] = "replied"
                       /\ run'[d] # Nothing =>
                            /\ at'[d] \in {"describing", "replied"} /\ request'[d] \in Requests
                            /\ run'[d].id = Id(d)' /\ run'[d].nth \in 1..started'[Id(d)']
    BY DEF Progress
  <2>1. Id(d)' = Id(d)
    BY <1>4 DEF Id
  <2>2. CASE d = c
    BY <1>1, <1>2, <1>4, <1>5, <1>6, <1>8, <2>1, <2>2 DEF IInv, Typed
  <2>3. CASE d # c
    <3>1. at'[d] = at[d] /\ request'[d] = request[d] /\ reply'[d] = reply[d] /\ run'[d] = run[d]
      BY <1>4, <1>6, <2>3 DEF IInv, Typed
    <3>2. /\ at[d] \in {"starting", "describing"} => request[d] \in Requests
          /\ reply[d] # 0 <=> at[d] = "replied"
          /\ run[d] # Nothing =>
               /\ at[d] \in {"describing", "replied"} /\ request[d] \in Requests
               /\ run[d].id = Id(d) /\ run[d].nth \in 1..started[Id(d)]
      BY DEF IInv, Progress
    <3>3. ASSUME request[d] \in Requests
          PROVE  started'[Id(d)] \in Nat /\ started[Id(d)] \in Nat
                 /\ started[Id(d)] <= started'[Id(d)]
      <4>1. Id(d) \in WorkflowIds
        BY <3>3, IdOfRequest
      <4>. QED
        BY <1>4, <4>1 DEF IInv, Typed
    <3>. QED
      BY <2>1, <3>1, <3>2, <3>3
  <2>. QED
    BY <2>2, <2>3
<1>10. OpenIsKnown'
  BY <1>4 DEF IInv, Typed, OpenIsKnown, Runs
<1>11. RunsOnce'
  BY <1>4, <1>5 DEF IInv, Typed, RunsOnce, Runs
<1>12. Counted'
  <2>. SUFFICES ASSUME NEW v \in WorkflowIds
                PROVE  started'[v] <= Cardinality(Starters(v)')
    BY DEF Counted
  <2>1. /\ Starters(w)' = Starters(w) \cup {c} /\ c \notin Starters(w)
        /\ v # w => Starters(v)' = Starters(v)
    BY <1>1, <1>2, <1>4 DEF Starters, Id, IInv, Typed
  <2>2. Cardinality(Starters(w) \cup {c}) = Cardinality(Starters(w)) + 1
    BY <2>1, StartersFinite, FS_AddElement
  <2>3. /\ started[v] \in Nat /\ started[v] <= Cardinality(Starters(v))
        /\ Cardinality(Starters(v)) \in Nat
        /\ v # w => started'[v] = started[v]
    BY <1>4, StartersFinite DEF IInv, Typed, Counted
  <2>4. CASE v = w
    <3>1. Cardinality(Starters(v)') = Cardinality(Starters(v)) + 1
      BY <2>1, <2>2, <2>4
    <3>2. started'[v] = started[v] + 1
      BY <1>5, <2>4
    <3>. QED
      BY <2>3, <3>1, <3>2
  <2>5. CASE v # w
    BY <2>1, <2>3, <2>5
  <2>. QED
    BY <2>4, <2>5
<1>13. Origins'
  <2>1. Asked(c, w, p)'
    BY <1>1, <1>2, <1>3, <1>4 DEF Asked, Id, IInv, Typed
  <2>2. \A d \in Calls : at[d] # "idle" => at'[d] # "idle" /\ request'[d] = request[d]
    BY <1>4 DEF IInv, Typed
  <2>3. ASSUME NEW v \in WorkflowIds, runs'[v].known
        PROVE  \E d \in Calls : Asked(d, v, runs[v].payload)'
    <3>1. CASE v = w
      BY <1>4, <2>1, <3>1 DEF IInv, Typed, Asked, Id
    <3>2. CASE v # w
      <4>1. runs'[v] = runs[v]
        BY <1>4, <3>2 DEF IInv, Typed
      <4>2. PICK d \in Calls : Asked(d, v, runs[v].payload)
        BY <2>3, <4>1 DEF IInv, Origins
      <4>. QED
        BY <2>2, <4>1, <4>2, AskedStays DEF Asked, Id
    <3>. QED
      BY <3>1, <3>2
  <2>4. ASSUME NEW d \in Calls, run'[d] # Nothing
        PROVE  /\ \E e \in Calls : Asked(e, run[d].id, run[d].payload)'
               /\ reply'[d] \in {0, 200, 201}
               /\ reply'[d] = 201 => run'[d].payload = request'[d].payload
    <3>1. CASE d = c
      <4>1. run'[c] = [id |-> w, nth |-> started'[w], payload |-> p] /\ reply'[c] = 201
        BY <1>6, <1>8, <2>4, <3>1 DEF IInv, Typed
      <4>. QED
        BY <1>3, <1>4, <2>1, <3>1, <4>1 DEF Asked, Id
    <3>2. CASE d # c
      <4>1. run'[d] = run[d] /\ reply'[d] = reply[d] /\ request'[d] = request[d]
        BY <1>4, <1>6, <3>2 DEF IInv, Typed
      <4>2. PICK e \in Calls : Asked(e, run[d].id, run[d].payload)
        BY <2>4, <4>1 DEF IInv, Origins
      <4>3. Asked(e, run[d].id, run[d].payload)'
        BY <2>2, <4>1, <4>2 DEF Asked, Id
      <4>. QED
        BY <2>4, <4>1, <4>3 DEF IInv, Origins
    <3>. QED
      BY <3>1, <3>2
  <2>. QED
    BY <2>3, <2>4 DEF Origins
<1>. QED
  BY <1>7, <1>9, <1>10, <1>11, <1>12, <1>13 DEF IInv

(* The id is taken, by a run of the same payload or of another. *)
LEMMA RejectedKeepsInv ==
  ASSUME IInv, NEW c \in Calls, Rejected(c) PROVE IInv'
<1>1. request[c] \in Requests /\ Id(c) \in WorkflowIds /\ at[c] = "starting"
  BY IdOfRequest DEF Rejected, IInv, Progress
<1>2. PICK w \in WorkflowIds : w = Id(c)
  BY <1>1
<1>3. runs[w].known /\ started[w] \in Nat /\ started[w] >= 1
  BY <1>2 DEF Rejected, Free, IInv, Typed, RunsOnce
<1>4. /\ at' = [at EXCEPT ![c] = "describing"]
      /\ run' = [run EXCEPT ![c] = [id |-> w, nth |-> started[w], payload |-> runs[w].payload]]
      /\ request' = request /\ reply' = reply
      /\ runs' = runs /\ started' = started /\ dropped' = dropped
  BY <1>2 DEF Rejected, server
<1>5. Typed'
  <2>1. [id |-> w, nth |-> started[w], payload |-> runs[w].payload]
          \in [id : WorkflowIds \cup {None}, nth : Nat, payload : Payloads \cup {None}]
    BY <1>3 DEF IInv, Typed, Runs
  <2>. QED
    BY <1>4, <2>1 DEF IInv, Typed
<1>6. Progress'
  <2>. SUFFICES ASSUME NEW d \in Calls
                PROVE  /\ at'[d] \in {"starting", "describing"} => request[d] \in Requests
                       /\ reply[d] # 0 <=> at'[d] = "replied"
                       /\ run'[d] # Nothing =>
                            /\ at'[d] \in {"describing", "replied"} /\ request[d] \in Requests
                            /\ run'[d].id = Id(d) /\ run'[d].nth \in 1..started[Id(d)]
    BY <1>4 DEF Progress, Id
  <2>1. CASE d = c
    BY <1>1, <1>2, <1>3, <1>4, <2>1 DEF IInv, Typed, Progress
  <2>2. CASE d # c
    BY <1>4, <2>2 DEF IInv, Typed, Progress
  <2>. QED
    BY <2>1, <2>2
<1>7. OpenIsKnown' /\ RunsOnce'
  BY <1>4 DEF IInv, OpenIsKnown, RunsOnce
<1>8. \A d \in Calls : /\ at[d] # "idle" => at'[d] # "idle" /\ request'[d] = request[d]
                       /\ at[d] = "replied" => at'[d] = "replied"
  BY <1>1, <1>4 DEF IInv, Typed
<1>9. Counted'
  BY <1>4, <1>8, StartersGrow
<1>10. Origins'
  <2>1. ASSUME NEW v \in WorkflowIds, runs[v].known
        PROVE  \E d \in Calls : Asked(d, v, runs[v].payload)'
    <3>1. PICK d \in Calls : Asked(d, v, runs[v].payload)
      BY <2>1 DEF IInv, Origins
    <3>. QED
      BY <1>4, <1>8, <3>1 DEF Asked, Id
  <2>2. ASSUME NEW d \in Calls, run'[d] # Nothing
        PROVE  /\ \E e \in Calls : Asked(e, run[d].id, run[d].payload)'
               /\ reply'[d] \in {0, 200, 201}
               /\ reply'[d] = 201 => run'[d].payload = request'[d].payload
    <3>1. CASE d = c
      <4>1. reply'[c] = 0 /\ run'[c].id = w /\ run'[c].payload = runs[w].payload
        BY <1>1, <1>4 DEF IInv, Typed, Progress
      <4>. QED
        BY <1>3, <2>1, <3>1, <4>1, <1>4 DEF Asked, Id
    <3>2. CASE d # c
      <4>1. run'[d] = run[d] /\ reply'[d] = reply[d] /\ request'[d] = request[d]
        BY <1>4, <3>2 DEF IInv, Typed
      <4>2. PICK e \in Calls : Asked(e, run[d].id, run[d].payload)
        BY <2>2, <4>1 DEF IInv, Origins
      <4>3. Asked(e, run[d].id, run[d].payload)'
        BY <1>8, <4>1, <4>2 DEF Asked, Id
      <4>. QED
        BY <2>2, <4>1, <4>3 DEF IInv, Origins
    <3>. QED
      BY <3>1, <3>2
  <2>. QED
    BY <1>4, <2>1, <2>2 DEF Origins, Asked, Id
<1>. QED
  BY <1>5, <1>6, <1>7, <1>9, <1>10 DEF IInv

(* A run ends, or the server drops it. *)
LEMMA ServerKeepsInv ==
  ASSUME IInv, NEW w \in WorkflowIds, Ends(w) \/ Drops(w) PROVE IInv'
<1>1. /\ at' = at /\ request' = request /\ reply' = reply /\ run' = run /\ started' = started
  BY DEF Ends, Drops
<1>2. Progress' /\ Counted'
  BY <1>1 DEF IInv, Progress, Counted, Starters, Id
<1>3. CASE Ends(w)
  <2>1. /\ runs[w].open /\ runs[w].known /\ dropped' = dropped
        /\ runs' = [runs EXCEPT ![w].open = FALSE]
    BY <1>3 DEF Ends, IInv, OpenIsKnown
  <2>2. Typed'
    <3>1. [runs[w] EXCEPT !.open = FALSE] \in Runs
      <4>1. \A r \in Runs : [r EXCEPT !.open = FALSE] \in Runs
        BY DEF Runs
      <4>. QED
        BY <4>1 DEF IInv, Typed
    <3>2. runs' \in [WorkflowIds -> Runs]
      BY <2>1, <3>1 DEF IInv, Typed
    <3>. QED
      BY <1>1, <2>1, <3>2 DEF IInv, Typed
  <2>3. OpenIsKnown' /\ RunsOnce'
    BY <1>1, <2>1 DEF IInv, Typed, Runs, OpenIsKnown, RunsOnce
  <2>4. \A v \in WorkflowIds : runs'[v].known = runs[v].known /\ runs'[v].payload = runs[v].payload
    BY <2>1 DEF IInv, Typed, Runs
  <2>5. Origins'
    BY <1>1, <2>4 DEF IInv, Origins, Asked, Id
  <2>. QED
    BY <1>2, <2>2, <2>3, <2>5 DEF IInv
<1>4. CASE Drops(w)
  <2>1. /\ runs[w].known /\ dropped' = [dropped EXCEPT ![w] = @ + 1]
        /\ runs' = [runs EXCEPT ![w] = NoRun]
    BY <1>4 DEF Drops
  <2>2. Typed'
    BY <1>1, <2>1 DEF IInv, Typed, Runs, NoRun
  <2>3. OpenIsKnown'
    BY <2>1 DEF IInv, Typed, OpenIsKnown, NoRun
  <2>4. RunsOnce'
    BY <1>1, <2>1 DEF IInv, Typed, RunsOnce, NoRun
  <2>5. \A v \in WorkflowIds : runs'[v].known => runs'[v] = runs[v]
    BY <2>1 DEF IInv, Typed, NoRun
  <2>6. Origins'
    BY <1>1, <2>5 DEF IInv, Origins, Asked, Id
  <2>. QED
    BY <1>2, <2>2, <2>3, <2>4, <2>6 DEF IInv
<1>. QED
  BY <1>3, <1>4

(* No step of a call or of the server breaks the invariant. *)
LEMMA NextKeepsInv == IInv /\ [Next]_vars => IInv'
<1>. SUFFICES ASSUME IInv, [Next]_vars PROVE IInv'
  OBVIOUS
<1>1. CASE UNCHANGED vars
  BY <1>1 DEF vars, IInv, Typed, Progress, OpenIsKnown, Origins, Asked, RunsOnce, Counted,
              Starters, Id
<1>2. ASSUME NEW c \in Calls, StartFails(c) PROVE IInv'
  BY <1>2, AnswerKeepsInv DEF StartFails
<1>3. ASSUME NEW c \in Calls, Replays(c) PROVE IInv'
  BY <1>3, AnswerKeepsInv DEF Replays
<1>. QED
  BY <1>1, <1>2, <1>3, ArrivesKeepsInv, StartsKeepsInv, RejectedKeepsInv, ServerKeepsInv DEF Next

(* So it always holds. *)
LEMMA Inductive == Spec => []IInv
  BY InitInv, NextKeepsInv, PTL DEF Spec

-----------------------------------------------------------------------------
(* Every variable of the submissions has its type, and no id is started more  *)
(* often than it was called for.                                              *)
THEOREM TypeCorrect == Spec => []TypeOK
<1>1. IInv => TypeOK
  <2>. SUFFICES ASSUME IInv PROVE TypeOK
    OBVIOUS
  <2>1. \A w \in WorkflowIds : started[w] \in 0..Cardinality(Calls)
    <3>. SUFFICES ASSUME NEW w \in WorkflowIds PROVE started[w] \in 0..Cardinality(Calls)
      OBVIOUS
    <3>1. started[w] \in Nat /\ started[w] <= Cardinality(Starters(w))
      BY DEF IInv, Typed, Counted
    <3>. QED
      BY <3>1, StartersFinite
  <2>2. \A w \in WorkflowIds : dropped[w] \in 0..Cardinality(Calls)
    <3>. SUFFICES ASSUME NEW w \in WorkflowIds PROVE dropped[w] \in 0..Cardinality(Calls)
      OBVIOUS
    <3>1. dropped[w] \in Nat /\ dropped[w] <= started[w]
      BY DEF IInv, Typed, RunsOnce
    <3>. QED
      BY <2>1, <3>1, StartersFinite
  <2>3. /\ started \in [WorkflowIds -> 0..Cardinality(Calls)]
        /\ dropped \in [WorkflowIds -> 0..Cardinality(Calls)]
    BY <2>1, <2>2 DEF IInv, Typed
  <2>. QED
    BY <2>3 DEF TypeOK, IInv, Typed, Progress, OpenIsKnown
<1>. QED
  BY <1>1, Inductive, PTL

(* However often a submission is sent, and whichever answers are lost, the    *)
(* server starts it once for as long as it knows of the run.                  *)
THEOREM SubmissionsRunOnce == Spec => []RunsOnce
  BY Inductive, PTL DEF IInv

(* A client is told of a run of another payload only when it reused the key   *)
(* that run was started under.                                                *)
THEOREM OnlyReusedKeysMislead == Spec => []OthersRunsOnlyByKey
<1>1. IInv => OthersRunsOnlyByKey
  <2>. SUFFICES ASSUME IInv, NEW c \in Calls, run[c] # Nothing,
                       run[c].payload # request[c].payload
                PROVE  /\ reply[c] \in {0, 200} /\ request[c].key # None
                       /\ \E d \in Calls : /\ request[d].tenant = request[c].tenant
                                           /\ request[d].key = request[c].key
                                           /\ request[d].payload = run[c].payload
    BY DEF OthersRunsOnlyByKey
  <2>1. reply[c] \in {0, 200}
    BY DEF IInv, Origins
  <2>2. PICK d \in Calls : Asked(d, run[c].id, run[c].payload)
    BY DEF IInv, Origins
  <2>3. /\ request[c] \in Requests /\ request[d] \in Requests
        /\ Id(c) = Id(d) /\ request[d].payload = run[c].payload
    BY <2>2 DEF IInv, Progress, Asked
  <2>4. /\ request[c].payload \in Payloads /\ request[d].payload \in Payloads
        /\ request[c].key \in Keys \cup {None} /\ request[d].key \in Keys \cup {None}
    BY <2>3 DEF Requests
  <2>5. /\ Id(c).tenant = request[c].tenant /\ Id(d).tenant = request[d].tenant
        /\ Id(c).name = IF request[c].key = None THEN request[c].payload ELSE request[c].key
        /\ Id(d).name = IF request[d].key = None THEN request[d].payload ELSE request[d].key
    BY DEF Id, WorkflowId, Digest
  <2>6. request[c].tenant = request[d].tenant
    BY <2>3, <2>5
  <2>7. request[c].key # None /\ request[d].key = request[c].key
    BY <2>3, <2>4, <2>5, KeysAssumption, DigestsAssumption
  <2>. QED
    BY <2>1, <2>3, <2>6, <2>7
<1>. QED
  BY <1>1, Inductive, PTL

(* Two calls told of one run made one submission. *)
THEOREM NoRunIsShared == Spec => []RunsAreNotShared
<1>1. IInv => RunsAreNotShared
  <2>. SUFFICES ASSUME IInv, NEW c \in Calls, NEW d \in Calls,
                       run[c] # Nothing, run[c] = run[d]
                PROVE  /\ request[c].tenant = request[d].tenant
                       /\ request[c].key = request[d].key
                       /\ request[c].key = None => request[c].payload = request[d].payload
    BY DEF RunsAreNotShared
  <2>1. request[c] \in Requests /\ request[d] \in Requests /\ Id(c) = Id(d)
    BY DEF IInv, Progress
  <2>2. /\ request[c].payload \in Payloads /\ request[d].payload \in Payloads
        /\ request[c].key \in Keys \cup {None} /\ request[d].key \in Keys \cup {None}
    BY <2>1 DEF Requests
  <2>3. /\ Id(c).tenant = request[c].tenant /\ Id(d).tenant = request[d].tenant
        /\ Id(c).name = IF request[c].key = None THEN request[c].payload ELSE request[c].key
        /\ Id(d).name = IF request[d].key = None THEN request[d].payload ELSE request[d].key
    BY DEF Id, WorkflowId, Digest
  <2>. QED
    BY <2>1, <2>2, <2>3, KeysAssumption, DigestsAssumption
<1>. QED
  BY <1>1, Inductive, PTL

=============================================================================
