----------------------------- MODULE TaskProgram -----------------------------
(* From the words of a task to the verdict on its program: the directive the  *)
(* plan takes from the task, the program generated for it                     *)
(* (app/agents/pipeline.py, app/agents/codegen.py, by way of                  *)
(* app/activities/agents.py), what the image's entrypoint makes of it, and    *)
(* the result and the summary that come out of SandboxOutput.                 *)
EXTENDS SandboxOutput, Contracts, FiniteSetsExt

CONSTANTS
  Tasks,   \* tasks a client may submit: a subset of AllTasks
  Others,  \* programs beyond the templates, as another generator may return
  Usual,   \* the numbers of bytes a program or its traceback prints, of which
           \* those of the templates lie between some 10 and some 1000
  Flood    \* the number that bigout prints: 5,120,001

VARIABLE task  \* the task of the run, or NoTask when the program is another's

taskVars == <<vars, task>>

-----------------------------------------------------------------------------
(* DIRECTIVES *)
Directives == <<"normal", "fail", "hang", "oom", "net", "fork", "bigout">>
Marks == {Directives[i] : i \in 1..Len(Directives)}

(* A task: the directives it names as `[d]` or `directive:d`, in any case and *)
(* order, and whether a character of it lies beyond the BMP.                  *)
AllTasks == [marks : SUBSET Marks, astral : BOOLEAN]
NoTask == [marks |-> {}, astral |-> FALSE, none |-> TRUE]

ASSUME TasksAssumption == Tasks \subseteq AllTasks
ASSUME OthersAssumption == Others \subseteq Programs
ASSUME UsualAssumption == Usual \subseteq Nat \ {0}
ASSUME FloodAssumption == Flood \in Nat

(* A parser for which "normal" is a directive like the others. *)
ParseDirectiveNormalToo(t) ==
  LET found == {i \in 1..Len(Directives) : Directives[i] \in t.marks}
  IN IF found = {} THEN "normal" ELSE Directives[Min(found)]

(* parse_directive: the first of the tuple, not of the task. *)
ParseDirective(t) ==
  LET found == {i \in 1..Len(Directives) :
                  Directives[i] # "normal" /\ Directives[i] \in t.marks}
  IN IF found = {} THEN "normal" ELSE Directives[Min(found)]

Plan(t) == [task |-> t, directive |-> ParseDirective(t)]

(* json.dumps, read back as a Python literal: a character beyond the BMP is   *)
(* escaped as two surrogates, which Python takes for two characters.          *)
Literal(t) == [surrogates |-> t.astral]

(* generate_program: a template and, in _NORMAL alone, the task.              *)
GenerateProgram(p) ==
  [template |-> p.directive,
   literal |-> IF p.directive = "normal" THEN Literal(p.task) ELSE [surrogates |-> FALSE]]

-----------------------------------------------------------------------------
(* How a program's run may go: its output and its exit.                       *)
Bytes(s, n) == [i \in 1..n |-> s]
Runs(s, amounts, exits) ==
  {[writes |-> Bytes(s, n), exit |-> e] : n \in amounts, e \in exits}

(* An exception the program does not catch: a traceback, and exit code 1.     *)
Traceback == Runs("err", Usual, {1})

(* The entrypoint and the program.  TASK.encode() refuses surrogates; memory  *)
(* runs out as a SIGKILL or as a MemoryError; the network is there if the     *)
(* isolation is broken, and the PID limit is not met if it is too high.       *)
Entrypoint(code) ==
  CASE code.template = "normal" -> IF code.literal.surrogates THEN Traceback
                                   ELSE Runs("out", Usual, {0})
    [] code.template = "fail"   -> Runs("out", Usual, {3})
    [] code.template = "hang"   -> Runs("out", {0}, {Never})
    [] code.template = "oom"    -> (Runs("out", {0}, {137}) \cup Traceback)
    [] code.template = "net"    -> Runs("out", Usual, {42, 99})
    [] code.template = "fork"   -> Runs("out", Usual, {0, 7})
    [] code.template = "bigout" -> Runs("out", {Flood}, {0})

(* summarize: the head it prints is taken from one tail or the other.         *)
Summarize(p, r) ==
  [completed |-> Ok(r), directive |-> p.directive,
   head |-> IF Ok(r) THEN r.stdout ELSE r.stderr]

Begin ==
  /\ \/ /\ task \in Tasks
        /\ program \in Entrypoint(GenerateProgram(Plan(task)))
     \/ /\ task = NoTask
        /\ program \in Others
  /\ Init

Step == Next /\ UNCHANGED task

TaskSpec == Begin /\ [][Step]_taskVars /\ Fairness

-----------------------------------------------------------------------------
(* What a client who names a directive may expect of a run that was not cut   *)
(* off by its deadline, with output collected or `lost`.                      *)
Fits(d, r, lost) ==
  CASE d = "normal" -> Ok(r) /\ ~r.truncated /\ (r.stdout # <<>> \/ lost)
    [] d = "fail"   -> r.exit_code = 3
    [] d = "hang"   -> FALSE
    [] d = "oom"    -> r.oom_killed \/ r.exit_code = 1
    [] d = "net"    -> ~Ok(r)
    [] d = "fork"   -> r.exit_code \in {0, 7}
    [] d = "bigout" -> Ok(r) /\ (lost \/ (r.truncated /\ Len(r.stdout) = Limit))

Expected == IF task.marks \subseteq {"normal"} THEN {"normal"} ELSE task.marks \ {"normal"}

(* The verdict on a run, and what its summary says, are those of one of the   *)
(* directives its task names, or of a normal run if it names none: a hang     *)
(* ends by its deadline only, reached networks and exhausted memory are never *)
(* reported as success, a flood is cut and said to be cut.  Of a normal task  *)
(* with a character beyond the BMP see NormalTasksSucceed.  This is of limits *)
(* that a usual program's output fits and a flood exceeds, as 1 MiB is.       *)
VerdictFitsDirective ==
  pc = "done" /\ task # NoTask =>
    LET report == Summarize(Plan(task), Result)
        lost == \E s \in Streams : reader[s] = "cancelled"
    IN /\ report.directive \in Expected
       /\ report.completed => report.head = Result.stdout
       /\ \/ Result.wall_clock_exceeded
          \/ Fits(report.directive, Result, lost)
          \/ report.directive = "normal" /\ task.astral

(* tests/test_activities.py: the "Task is embedded via json.dumps", and a     *)
(* normal task runs to a successful end, whatever its text.                   *)
NormalTasksSucceed ==
  pc = "done" /\ task # NoTask /\ Plan(task).directive = "normal" =>
    Ok(Result) \/ Result.wall_clock_exceeded

=============================================================================
