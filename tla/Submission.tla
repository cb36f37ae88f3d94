------------------------------ MODULE Submission ------------------------------
(* POST /runs (app/api/routes_runs.py): calls that derive a workflow id, ask  *)
(* the server to start that workflow, and make of "already started" a replay. *)
(* Calls overlap, a client that got no answer calls again, and answers of the *)
(* server get lost.  The server is external.                                  *)
EXTENDS Naturals, FiniteSets

CONSTANTS
  Calls,    \* the calls of a behaviour
  Tenants,
  Keys,     \* idempotency keys
  None,     \* no key, no run, no request
  Tasks,
  Params    \* what `params` may ask for

ASSUME CallsAssumption == IsFiniteSet(Calls)
ASSUME KeysAssumption == None \notin Keys

VARIABLES
  at,       \* where each call is
  request,  \* what it was asked
  reply,    \* the status code it answered, or 0
  run,      \* the run it was given, or refused for: its id, which run of that
            \* id it was, and what that run was started with
  runs,     \* the runs the server knows, by workflow id
  started,  \* how many runs of an id the server has started
  dropped   \* how many of them it has since dropped

vars == <<at, request, reply, run, runs, started, dropped>>
server == <<runs, started, dropped>>

-----------------------------------------------------------------------------
Payloads == [task : Tasks, params : Params]
Requests == [tenant : Tenants, key : Keys \cup {None}, payload : Payloads]

(* A key is no digest: a client that chose one would name another's run. *)
ASSUME DigestsAssumption == Keys \cap Payloads = {}

(* What may be wrong with a call, and how it is refused then: a body that is  *)
(* no JSON comes first, the token next, the schema of the body after it, and  *)
(* the handler's own size limit last.                                         *)
Flaws == {"json", "token", "schema", "size"}
Refusal(flaws) ==
  IF "json" \in flaws THEN 422
  ELSE IF "token" \in flaws THEN 401
  ELSE IF "schema" \in flaws THEN 422
  ELSE 413

(* A digest that forgets the parameters. *)
DigestOfTask(payload) == payload.task

(* sha256 of _payload_bytes. *)
Digest(payload) == payload

(* Ids that forget the tenant. *)
WorkflowIdOfAnyTenant(r) ==
  [tenant |-> None, name |-> IF r.key = None THEN Digest(r.payload) ELSE r.key]

(* _workflow_id *)
WorkflowId(r) ==
  [tenant |-> r.tenant, name |-> IF r.key = None THEN Digest(r.payload) ELSE r.key]

WorkflowIds == {WorkflowId(r) : r \in Requests}

NoRun == [known |-> FALSE, open |-> FALSE, payload |-> None]
NoRequest == [tenant |-> None, key |-> None, payload |-> None]
Nothing == [id |-> None, nth |-> 0, payload |-> None]

Init ==
  /\ at = [c \in Calls |-> "idle"]
  /\ request = [c \in Calls |-> NoRequest]
  /\ reply = [c \in Calls |-> 0]
  /\ run = [c \in Calls |-> Nothing]
  /\ runs = [w \in WorkflowIds |-> NoRun]
  /\ started = [w \in WorkflowIds |-> 0]
  /\ dropped = [w \in WorkflowIds |-> 0]

Id(c) == WorkflowId(request[c])

Replies(c, code) ==
  /\ at' = [at EXCEPT ![c] = "replied"]
  /\ reply' = [reply EXCEPT ![c] = code]

(* A refusal that does not end the call. *)
ArrivesAnyway(c) ==
  /\ at[c] = "idle"
  /\ \E r \in Requests, flaws \in SUBSET Flaws :
       /\ request' = [request EXCEPT ![c] = r]
       /\ at' = [at EXCEPT ![c] = "starting"]
       /\ reply' = [reply EXCEPT ![c] = IF flaws = {} THEN 0 ELSE Refusal(flaws)]
  /\ UNCHANGED <<run, server>>

(* A call comes in, and is refused at once or taken as a request.             *)
Arrives(c) ==
  /\ at[c] = "idle"
  /\ \/ /\ \E r \in Requests : request' = [request EXCEPT ![c] = r]
        /\ at' = [at EXCEPT ![c] = "starting"]
        /\ UNCHANGED reply
     \/ /\ \E flaws \in SUBSET Flaws \ {{}} : Replies(c, Refusal(flaws))
        /\ UNCHANGED request
  /\ UNCHANGED <<run, server>>

(* A server told to reuse the id of a run that has ended. *)
FreeUnlessOpen(w) == ~runs[w].open

(* WorkflowIDReusePolicy.REJECT_DUPLICATE: no run of that id is known. *)
Free(w) == ~runs[w].known

(* The server starts the workflow; its answer may not come back, which the    *)
(* client library reports as unavailable or as another error.                 *)
Starts(c) ==
  /\ at[c] = "starting"
  /\ Free(Id(c))
  /\ runs' = [runs EXCEPT ![Id(c)] =
                [known |-> TRUE, open |-> TRUE, payload |-> request[c].payload]]
  /\ started' = [started EXCEPT ![Id(c)] = @ + 1]
  /\ \/ /\ Replies(c, 201)
        /\ run' = [run EXCEPT ![c] = [id |-> Id(c), nth |-> started'[Id(c)],
                                      payload |-> request[c].payload]]
     \/ \E code \in {500, 503} : Replies(c, code) /\ UNCHANGED run
  /\ UNCHANGED <<request, dropped>>

(* WorkflowAlreadyStartedError. *)
Rejected(c) ==
  /\ at[c] = "starting"
  /\ ~Free(Id(c))
  /\ at' = [at EXCEPT ![c] = "describing"]
  /\ run' = [run EXCEPT ![c] = [id |-> Id(c), nth |-> started[Id(c)],
                                payload |-> runs[Id(c)].payload]]
  /\ UNCHANGED <<request, reply, server>>

(* The server is not reached. *)
StartFails(c) ==
  /\ at[c] = "starting"
  /\ \E code \in {500, 503} : Replies(c, code)
  /\ UNCHANGED <<request, run, server>>

(* _handle_already_started.  The memo it means to compare is never read: in   *)
(* the client library the repository pins, `memo` of a description is a       *)
(* coroutine method and `.get` of it raises, which the handler takes, as any  *)
(* error of describe, for "no memo"; so whatever run is there, or is no       *)
(* longer, every such call is a replay.                                       *)
Replays(c) ==
  /\ at[c] = "describing"
  /\ Replies(c, 200)
  /\ UNCHANGED <<request, run, server>>

Ends(w) ==
  /\ runs[w].open
  /\ runs' = [runs EXCEPT ![w].open = FALSE]
  /\ UNCHANGED <<at, request, reply, run, started, dropped>>

(* Its retention is over. *)
Drops(w) ==
  /\ runs[w].known /\ ~runs[w].open
  /\ runs' = [runs EXCEPT ![w] = NoRun]
  /\ dropped' = [dropped EXCEPT ![w] = @ + 1]
  /\ UNCHANGED <<at, request, reply, run, started>>

Next ==
  \/ \E c \in Calls : \/ Arrives(c) \/ Starts(c) \/ Rejected(c) \/ StartFails(c)
                      \/ Replays(c)
  \/ \E w \in WorkflowIds : Ends(w) \/ Drops(w)

Spec == Init /\ [][Next]_vars

-----------------------------------------------------------------------------
(* Calls answer once, and are given or refused for runs of their own id. *)
TypeOK ==
  /\ at \in [Calls -> {"idle", "starting", "describing", "replied"}]
  /\ request \in [Calls -> Requests \cup {NoRequest}]
  /\ reply \in [Calls -> {0, 200, 201, 401, 413, 422, 500, 503}]
  /\ \A c \in Calls : reply[c] # 0 <=> at[c] = "replied"
  /\ \A c \in Calls : run[c] # Nothing => run[c].id = Id(c) /\ run[c].nth \in 1..started[Id(c)]
  /\ \A w \in WorkflowIds : runs[w].open => runs[w].known
  /\ started \in [WorkflowIds -> 0..Cardinality(Calls)]
  /\ dropped \in [WorkflowIds -> 0..Cardinality(Calls)]

(* However often a request is sent again, after an answer or for the want of  *)
(* one, during its run or after, it is not run again while the server still   *)
(* knows of the run.                                                          *)
RunsOnce ==
  \A w \in WorkflowIds :
    started[w] = dropped[w] + (IF runs[w].known THEN 1 ELSE 0)

(* A call is told of a run of another payload only if its client reused the   *)
(* key of that run's own call: never through an id derived from the payload   *)
(* or through another tenant's key, and never when the call created the run.  *)
OthersRunsOnlyByKey ==
  \A c \in Calls :
    run[c] # Nothing /\ run[c].payload # request[c].payload =>
      /\ reply[c] \in {0, 200} /\ request[c].key # None
      /\ \E d \in Calls : /\ request[d].tenant = request[c].tenant
                          /\ request[d].key = request[c].key
                          /\ request[d].payload = run[c].payload

(* Two calls are answered about the same run only if they are the same        *)
(* submission: of one tenant, and under one key or, without keys, of one      *)
(* payload.                                                                   *)
RunsAreNotShared ==
  \A c, d \in Calls :
    run[c] # Nothing /\ run[c] = run[d] =>
      /\ request[c].tenant = request[d].tenant
      /\ request[c].key = request[d].key
      /\ request[c].key = None => request[c].payload = request[d].payload

(* What the docstring of _handle_already_started says: a reused key is an     *)
(* idempotent replay (200) or an idempotency conflict (409), so 200 is only   *)
(* said of a run of the call's own payload.                                   *)
ReusedKeysConflict ==
  \A c \in Calls : reply[c] = 200 => run[c].payload = request[c].payload

=============================================================================
