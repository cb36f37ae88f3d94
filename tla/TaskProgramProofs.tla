-------------------------- MODULE TaskProgramProofs --------------------------
(* Theorems about TaskProgram, for every limit, chunk and pipe size: a task's *)
(* run collects output as SandboxOutput says, and its verdict and summary are *)
(* those of a directive the task names.                                       *)
EXTENDS TaskProgram, SandboxOutputProofs

-----------------------------------------------------------------------------
(* The directive a plan takes is one the task names. *)

LEMMA DirectivesAre ==
  /\ Len(Directives) = 7
  /\ Directives[1] = "normal" /\ Directives[2] = "fail" /\ Directives[3] = "hang"
  /\ Directives[4] = "oom" /\ Directives[5] = "net" /\ Directives[6] = "fork"
  /\ Directives[7] = "bigout"
BY DEF Directives

LEMMA MarksAre == Marks = {"normal", "fail", "hang", "oom", "net", "fork", "bigout"}
<1>1. 1..7 = {1, 2, 3, 4, 5, 6, 7}
  OBVIOUS
<1>. QED
  BY <1>1, DirectivesAre DEF Marks

(* A set of positions has a first. *)
LEMMA FirstPosition ==
  ASSUME NEW found \in SUBSET (1..7), found # {}
  PROVE  Min(found) \in found
<1>1. \E x \in found : \A y \in found : x <= y
  <2>1. \A y \in found : y \in Int /\ y >= 1 /\ y <= 7
    OBVIOUS
  <2>2. CASE \E x \in found : x <= 3
    <3>1. CASE 1 \in found
      BY <2>1, <3>1
    <3>2. CASE 1 \notin found /\ 2 \in found
      BY <2>1, <3>2
    <3>3. CASE 1 \notin found /\ 2 \notin found
      BY <2>1, <2>2, <3>3
    <3>. QED
      BY <3>1, <3>2, <3>3
  <2>3. CASE \A x \in found : x > 3
    <3>1. CASE 4 \in found
      BY <2>1, <2>3, <3>1
    <3>2. CASE 4 \notin found /\ 5 \in found
      BY <2>1, <2>3, <3>2
    <3>3. CASE 4 \notin found /\ 5 \notin found /\ 6 \in found
      BY <2>1, <2>3, <3>3
    <3>4. CASE 4 \notin found /\ 5 \notin found /\ 6 \notin found
      <4>1. PICK last \in found : TRUE
        OBVIOUS
      <4>2. last = 7 /\ \A y \in found : y = 7
        BY <2>1, <2>3, <3>4
      <4>. QED
        BY <4>1, <4>2
    <3>. QED
      BY <3>1, <3>2, <3>3, <3>4
  <2>. QED
    BY <2>1, <2>2, <2>3
<1>. QED
  BY Zenon, <1>1 DEF Min

(* parse_directive: a directive of the task, or "normal" if it has no other.  *)
LEMMA DirectiveIsNamed ==
  ASSUME NEW t \in AllTasks
  PROVE  /\ ParseDirective(t) \in Marks
         /\ IF t.marks \subseteq {"normal"} THEN ParseDirective(t) = "normal"
            ELSE ParseDirective(t) \in t.marks \ {"normal"}
<1>. DEFINE found == {i \in 1..Len(Directives) :
                        Directives[i] # "normal" /\ Directives[i] \in t.marks}
<1>1. found \subseteq 1..7
  BY DirectivesAre
<1>2. ParseDirective(t) = IF found = {} THEN "normal" ELSE Directives[Min(found)]
  BY DEF ParseDirective
<1>3. CASE t.marks \subseteq {"normal"}
  <2>1. found = {}
    BY <1>3
  <2>. QED
    BY <1>2, <1>3, <2>1, MarksAre
<1>4. CASE ~(t.marks \subseteq {"normal"})
  <2>1. t.marks \subseteq Marks
    BY DEF AllTasks
  <2>2. PICK d \in Marks : d \in t.marks /\ d # "normal"
    BY <1>4, <2>1
  <2>3. PICK i \in 1..Len(Directives) : Directives[i] = d
    BY DEF Marks
  <2>4. found # {}
    BY <2>2, <2>3
  <2>5. Min(found) \in found
    BY <1>1, <2>4, FirstPosition
  <2>6. Directives[Min(found)] \in t.marks \ {"normal"}
    BY <2>5
  <2>. QED
    BY <1>2, <1>4, <2>1, <2>4, <2>6
<1>. QED
  BY <1>3, <1>4

-----------------------------------------------------------------------------
(* The programs of the templates. *)

LEMMA BytesShape ==
  ASSUME NEW s \in Streams, NEW n \in Nat
  PROVE  /\ Bytes(s, n) \in Seq(Streams)
         /\ Len(Bytes(s, n)) = n
         /\ \A i \in 1..n : Bytes(s, n)[i] = s
<1>. DEFINE b == [i \in 1..n |-> s]
<1>1. b \in [1..n -> Streams] /\ \A i \in 1..n : b[i] = s
  OBVIOUS
<1>2. b \in Seq(Streams) /\ Len(b) = n
  BY <1>1, IsASeq, LenProperties
<1>. QED
  BY <1>1, <1>2 DEF Bytes

(* It writes n bytes to stream s alone, and ends with `exit`. *)
Prints(p, s, n, exit) == p.writes = Bytes(s, n) /\ p.exit = exit

(* It writes one of the usual numbers of bytes to stream s alone. *)
PrintsUsual(p, s, exit) == \E n \in Usual : Prints(p, s, n, exit)

(* What each template's program does when the program is p. *)
Template(code, p) ==
  CASE code.template = "normal" ->
         IF code.literal.surrogates THEN PrintsUsual(p, "err", 1) ELSE PrintsUsual(p, "out", 0)
    [] code.template = "fail"   -> PrintsUsual(p, "out", 3)
    [] code.template = "hang"   -> Prints(p, "out", 0, Never)
    [] code.template = "oom"    -> Prints(p, "out", 0, 137) \/ PrintsUsual(p, "err", 1)
    [] code.template = "net"    -> PrintsUsual(p, "out", 42) \/ PrintsUsual(p, "out", 99)
    [] code.template = "fork"   -> PrintsUsual(p, "out", 0) \/ PrintsUsual(p, "out", 7)
    [] code.template = "bigout" -> Prints(p, "out", Flood, 0)

LEMMA RunsPrint ==
  ASSUME NEW s, NEW amounts, NEW exits, NEW p \in Runs(s, amounts, exits)
  PROVE  \E n \in amounts, e \in exits :
           p = [writes |-> Bytes(s, n), exit |-> e] /\ Prints(p, s, n, e)
BY DEF Runs, Prints

LEMMA RunsPrintUsual ==
  ASSUME NEW s, NEW exits, NEW p \in Runs(s, Usual, exits)
  PROVE  \E e \in exits : PrintsUsual(p, s, e)
BY Zenon, RunsPrint DEF PrintsUsual

(* A program that writes to one stream, as all of the templates do. *)
OneStream(p) ==
  \E s \in Streams, n \in Nat, exit \in Int :
    p = [writes |-> Bytes(s, n), exit |-> exit]

LEMMA RunsAreOneStream ==
  ASSUME NEW s \in Streams, NEW amounts \in SUBSET Nat, NEW exits \in SUBSET Int,
         NEW p \in Runs(s, amounts, exits)
  PROVE  OneStream(p)
<1>1. PICK n \in amounts, e \in exits : p = [writes |-> Bytes(s, n), exit |-> e]
  BY DEF Runs
<1>2. n \in Nat /\ e \in Int
  OBVIOUS
<1>. QED
  BY Zenon, <1>1, <1>2 DEF OneStream

LEMMA EntrypointRuns ==
  ASSUME NEW code, code.template \in Marks, NEW p \in Entrypoint(code)
  PROVE  Template(code, p) /\ OneStream(p)
<1>. DEFINE runs == Entrypoint(code)
            tpl == code.template
<1>1. \E s \in Streams, amounts \in SUBSET Nat, exits \in SUBSET Int : p \in Runs(s, amounts, exits)
  <2>1. /\ runs = CASE tpl = "normal" -> IF code.literal.surrogates THEN Runs("err", Usual, {1})
                                         ELSE Runs("out", Usual, {0})
                    [] tpl = "fail"   -> Runs("out", Usual, {3})
                    [] tpl = "hang"   -> Runs("out", {0}, {Never})
                    [] tpl = "oom"    -> Runs("out", {0}, {137}) \cup Runs("err", Usual, {1})
                    [] tpl = "net"    -> Runs("out", Usual, {42, 99})
                    [] tpl = "fork"   -> Runs("out", Usual, {0, 7})
                    [] tpl = "bigout" -> Runs("out", {Flood}, {0})
    BY DEF Entrypoint, Traceback
  <2>2. /\ "out" \in Streams /\ "err" \in Streams
        /\ {0} \in SUBSET Nat /\ Usual \in SUBSET Nat /\ {Flood} \in SUBSET Nat
        /\ \A x \in {0, 1, 3, 7, 42, 99, 137, Never} : {x} \in SUBSET Int
        /\ {42, 99} \in SUBSET Int /\ {0, 7} \in SUBSET Int
    BY UsualAssumption, FloodAssumption DEF Streams, Never
  <2>3. CASE tpl = "normal"
    BY <2>1, <2>2, <2>3
  <2>4. CASE tpl = "fail"
    BY <2>1, <2>2, <2>4
  <2>5. CASE tpl = "hang"
    BY <2>1, <2>2, <2>5
  <2>6. CASE tpl = "oom"
    BY <2>1, <2>2, <2>6
  <2>7. CASE tpl = "net"
    BY <2>1, <2>2, <2>7
  <2>8. CASE tpl = "fork"
    BY <2>1, <2>2, <2>8
  <2>9. CASE tpl = "bigout"
    BY <2>1, <2>2, <2>9
  <2>. QED
    BY <2>3, <2>4, <2>5, <2>6, <2>7, <2>8, <2>9, MarksAre
<1>2. Template(code, p)
  <2>. USE DEF Entrypoint, Template, Traceback
  <2>1. CASE tpl = "normal"
    BY <2>1, RunsPrintUsual
  <2>2. CASE tpl = "fail"
    BY <2>2, RunsPrintUsual
  <2>7. CASE tpl = "hang"
    BY <2>7, RunsPrint
  <2>3. CASE tpl = "oom"
    BY <2>3, RunsPrint, RunsPrintUsual
  <2>4. CASE tpl = "net"
    BY <2>4, RunsPrintUsual
  <2>5. CASE tpl = "fork"
    BY <2>5, RunsPrintUsual
  <2>6. CASE tpl = "bigout"
    BY <2>6, RunsPrint
  <2>. QED
    BY <2>1, <2>2, <2>3, <2>4, <2>5, <2>6, <2>7, MarksAre
<1>3. OneStream(p)
  <2>1. PICK s \in Streams, amounts \in SUBSET Nat, exits \in SUBSET Int : p \in Runs(s, amounts, exits)
    BY Zenon, <1>1
  <2>. HIDE DEF runs, tpl
  <2>. QED
    BY Zenon, <2>1, RunsAreOneStream
<1>. QED
  BY <1>2, <1>3

LEMMA OneStreamIsProgram ==
  ASSUME NEW p, OneStream(p)
  PROVE  p \in Programs
BY BytesShape DEF OneStream, Programs

-----------------------------------------------------------------------------
(* The composition is SandboxOutput, with a program of its own choosing. *)

LEMMA TasksProgramRuns ==
  ASSUME NEW t \in AllTasks, NEW p \in Entrypoint(GenerateProgram(Plan(t)))
  PROVE  Template(GenerateProgram(Plan(t)), p) /\ OneStream(p)
<1>1. GenerateProgram(Plan(t)).template = ParseDirective(t)
  BY DEF GenerateProgram, Plan
<1>. QED
  BY <1>1, DirectiveIsNamed, EntrypointRuns

LEMMA BeginsAProgram == Begin => program \in Programs /\ Init
  BY TasksProgramRuns, OneStreamIsProgram, TasksAssumption, OthersAssumption DEF Begin

(* The programs the templates make, and any another generator may return, are *)
(* run by SandboxOutput: what is true of every program is true of these.      *)
THEOREM TasksAreOutput == TaskSpec => Spec
<1>1. [Step]_taskVars => [Next]_vars
  BY DEF Step, taskVars
<1>. QED
  BY BeginsAProgram, <1>1, PTL DEF TaskSpec, Spec

(* So no buffer outgrows its limit in the run of a task, *)
THEOREM TasksOutputIsBounded == TaskSpec => []TypeOK
  BY TasksAreOutput, OutputIsBounded, PTL

(* and what is collected of its program is the tail. *)
THEOREM TasksOutputIsTheTail == TaskSpec => []ResultIsTheTail
  BY TasksAreOutput, CollectedIsTheTail, PTL

-----------------------------------------------------------------------------
(* How a task's program ended. *)

(* The program of a run is the one its task's plan made. *)
PlannedInv ==
  task # NoTask =>
    /\ task \in AllTasks
    /\ program \in Entrypoint(GenerateProgram(Plan(task)))

(* A program of one stream has written nothing to the other. *)
StreamInv ==
  \A s \in Streams, n \in Nat :
    program.writes = Bytes(s, n) => \A r \in Streams : r # s => wrote[r] = 0

(* A client that nobody killed has ended with its program, all of it written. *)
EndInv ==
  /\ pc = "kill" => expired
  /\ client.state = "ended" /\ ~expired =>
       Finished /\ program.exit # Never /\ client.rc = program.exit
  /\ pc \in {"out", "err", "done"} /\ ~expired => client.state = "ended"

TaskInv == IInv /\ PlannedInv /\ StreamInv /\ EndInv

LEMMA InitTaskInv == Begin => TaskInv
<1>. SUFFICES ASSUME Begin PROVE TaskInv
  OBVIOUS
<1>1. Init /\ IInv
  BY BeginsAProgram, InitInv
<1>2. PlannedInv
  BY TasksAssumption DEF Begin, PlannedInv
<1>3. StreamInv /\ EndInv
  BY <1>1 DEF Init, StreamInv, EndInv
<1>. QED
  BY <1>1, <1>2, <1>3 DEF TaskInv

(* The next byte goes to the program's stream. *)
LEMMA WriteKeepsTaskInv == ASSUME TaskInv, Write PROVE StreamInv' /\ EndInv'
<1>. DEFINE next == program.writes[Position + 1]
<1>1. /\ client.state = "live" /\ ~Finished /\ wrote' = [wrote EXCEPT ![next] = @ + 1]
      /\ UNCHANGED <<program, client, pc, expired>>
  BY DEF Write
<1>2. Position \in Nat /\ Position <= Len(program.writes) /\ wrote \in [Streams -> Nat]
  BY DEF TaskInv, IInv, PositionInv, Position, TypeInv, Streams
<1>3. EndInv'
  BY <1>1 DEF TaskInv, EndInv
<1>4. ASSUME NEW s \in Streams, NEW n \in Nat, program.writes = Bytes(s, n)
      PROVE  next = s
  <2>1. Len(program.writes) = n /\ \A i \in 1..n : program.writes[i] = s
    BY <1>4, BytesShape
  <2>2. Position + 1 \in 1..n
    BY <1>1, <1>2, <2>1 DEF Finished
  <2>. QED
    BY <2>1, <2>2
<1>5. StreamInv'
  BY <1>1, <1>2, <1>4 DEF TaskInv, StreamInv
<1>. QED
  BY <1>3, <1>5

LEMMA StepKeepsTaskInv == TaskInv /\ [Step]_taskVars => TaskInv'
<1>. SUFFICES ASSUME TaskInv, [Step]_taskVars PROVE TaskInv'
  OBVIOUS
<1>1. [Next]_vars /\ task' = task
  BY DEF Step, taskVars
<1>2. IInv'
  BY <1>1, StepKeepsInv DEF TaskInv
<1>3. PlannedInv'
  <2>1. program' = program
    BY <1>1 DEF Next, Write, ProgramEnds, Collect, Deadline, Kill, Read, Takes, EndOfFile, Safe, vars
  <2>. QED
    BY <1>1, <2>1 DEF TaskInv, PlannedInv
<1>4. StreamInv' /\ EndInv'
  <2>. USE DEF TaskInv, StreamInv, EndInv, Finished, Position
  <2>1. CASE Write
    BY <2>1, WriteKeepsTaskInv
  <2>2. CASE ProgramEnds
    BY <2>2 DEF ProgramEnds, readers
  <2>3. CASE Kill
    BY <2>3 DEF Kill, readers
  <2>4. CASE Collect \/ Deadline
    BY <2>4 DEF Collect, Deadline, pipes
  <2>5. ASSUME NEW s \in Streams, Read(s) \/ EndOfFile(s) PROVE StreamInv' /\ EndInv'
    BY <2>5 DEF Read, Takes, EndOfFile, pipes
  <2>6. ASSUME NEW s \in Streams, Safe(s) PROVE StreamInv' /\ EndInv'
    BY <2>6 DEF Safe, After, Streams, pipes
  <2>7. CASE UNCHANGED vars
    BY <2>7 DEF vars
  <2>. QED
    BY <1>1, <2>1, <2>2, <2>3, <2>4, <2>5, <2>6, <2>7 DEF Next
<1>. QED
  BY <1>2, <1>3, <1>4 DEF TaskInv

LEMMA TaskInductive == TaskSpec => []TaskInv
  BY InitTaskInv, StepKeepsTaskInv, PTL DEF TaskSpec

-----------------------------------------------------------------------------
(* What is collected of a run that was not cut off. *)

(* The exit code is the program's, and all of its bytes were passed on. *)
LEMMA WroteAll ==
  ASSUME TaskInv, pc = "done", ~expired,
         NEW s \in Streams, NEW n \in Nat, NEW e \in Int, Prints(program, s, n, e)
  PROVE  /\ Result.exit_code = e /\ e # Never
         /\ Result.oom_killed <=> e = 137
         /\ ~Result.wall_clock_exceeded
         /\ wrote[s] = n /\ \A r \in Streams : r # s => wrote[r] = 0
<1>1. Finished /\ program.exit # Never /\ client.rc = program.exit
  BY DEF TaskInv, EndInv
<1>2. \A r \in Streams : r # s => wrote[r] = 0
  BY DEF TaskInv, StreamInv, Prints
<1>3. wrote["out"] + wrote["err"] = n
  BY <1>1, BytesShape DEF Finished, Position, Prints
<1>4. wrote[s] = n
  BY <1>2, <1>3 DEF Streams, TaskInv, IInv, TypeInv
<1>. QED
  BY <1>1, <1>2, <1>4 DEF Result, Prints

(* A stream's tail, unless it was given up. *)
LEMMA Gathered ==
  ASSUME TaskInv, pc = "done", NEW s \in Streams
  PROVE  /\ reader[s] = "ended" =>
              /\ got[s].truncated <=> wrote[s] > Limit
              /\ got[s].bytes \in Seq(Nat) /\ Len(got[s].bytes) = AtMost(wrote[s], Limit)
         /\ reader[s] # "ended" =>
              /\ reader[s] = "cancelled" /\ ~got[s].truncated
<1>1. reader[s] \in {"ended", "cancelled"}
  BY DEF TaskInv, IInv, TypeInv, ReaderInv, Collected
<1>2. got[s] = IF reader[s] = "ended"
               THEN [bytes |-> LastBytes(wrote[s]), truncated |-> wrote[s] > Limit]
               ELSE Nothing
  BY DEF TaskInv, IInv, GotInv, Collected
<1>3. wrote[s] \in Nat
  BY DEF TaskInv, IInv, TypeInv
<1>4. LastBytes(wrote[s]) \in Seq(Nat) /\ Len(LastBytes(wrote[s])) = AtMost(wrote[s], Limit)
  BY Zenon, <1>3, LastBytesShape
<1>5. CASE reader[s] = "ended"
  <2>. DEFINE more == wrote[s] > Limit
  <2>1. got[s] = [bytes |-> LastBytes(wrote[s]), truncated |-> more]
    BY <1>2, <1>5
  <2>2. more \in BOOLEAN
    BY <1>3, LimitAssumption
  <2>. HIDE DEF more
  <2>3. got[s].bytes = LastBytes(wrote[s]) /\ got[s].truncated = more
    BY <2>1, <2>2
  <2>. QED
    BY Zenon, <1>4, <1>5, <2>3 DEF more
<1>6. CASE reader[s] # "ended"
  <2>1. got[s] = [bytes |-> <<>>, truncated |-> FALSE]
    BY <1>2, <1>6 DEF Nothing
  <2>. QED
    BY <1>1, <1>6, <2>1
<1>. QED
  BY <1>5, <1>6

(* Only a stream of more than the limit is called truncated. *)
LEMMA ShortIsWhole ==
  ASSUME TaskInv, pc = "done", \A r \in Streams : wrote[r] <= Limit
  PROVE  ~Result.truncated
<1>1. ASSUME NEW r \in Streams PROVE ~got[r].truncated
  <2>1. wrote[r] \in Nat /\ ~(wrote[r] > Limit)
    BY LimitAssumption DEF TaskInv, IInv, TypeInv
  <2>. QED
    BY Zenon, <2>1, Gathered
<1>. QED
  BY <1>1 DEF Result, Streams

(* The output of a normal program, which ends well and fits in the limit. *)
LEMMA NormalFits ==
  ASSUME TaskInv, pc = "done", ~expired, \A n \in Usual : n <= Limit,
         PrintsUsual(program, "out", 0)
  PROVE  Ok(Result) /\ ~Result.truncated /\ (Result.stdout # <<>> \/ reader["out"] = "cancelled")
<1>0. PICK n \in Usual : Prints(program, "out", n, 0)
  BY DEF PrintsUsual
<1>1. /\ Result.exit_code = 0 /\ ~Result.oom_killed /\ ~Result.wall_clock_exceeded
      /\ wrote["out"] = n /\ wrote["err"] = 0
  <2>1. /\ "out" \in Streams /\ "err" \in Streams /\ "err" # "out"
        /\ n \in Nat /\ 0 \in Int /\ 0 # 137
    BY UsualAssumption DEF Streams
  <2>. QED
    BY Zenon, <1>0, <2>1, WroteAll
<1>2. n \in Nat /\ n # 0 /\ n <= Limit
  BY UsualAssumption
<1>3. ~Result.truncated
  BY <1>1, <1>2, ShortIsWhole, LimitAssumption DEF Streams
<1>4. ASSUME reader["out"] # "cancelled" PROVE Result.stdout # <<>>
  <2>1. AtMost(n, Limit) = n
    BY <1>2, LimitAssumption DEF AtMost
  <2>2. Len(got["out"].bytes) = n
    BY <1>1, <1>4, <2>1, Gathered DEF Streams
  <2>. QED
    BY <1>2, <2>2 DEF Result
<1>. QED
  BY <1>1, <1>3, <1>4 DEF Ok

(* A flood of more than the limit is cut and said to be cut. *)
LEMMA FloodFits ==
  ASSUME TaskInv, pc = "done", ~expired, Limit < Flood, Prints(program, "out", Flood, 0)
  PROVE  /\ Ok(Result)
         /\ reader["out"] = "cancelled" \/ (Result.truncated /\ Len(Result.stdout) = Limit)
<1>1. /\ Result.exit_code = 0 /\ ~Result.oom_killed /\ ~Result.wall_clock_exceeded
      /\ wrote["out"] = Flood
  <2>1. "out" \in Streams /\ 0 \in Int /\ ~(0 = 137) /\ Flood \in Nat
    BY FloodAssumption DEF Streams
  <2>2. /\ Result.exit_code = 0 /\ (Result.oom_killed <=> 0 = 137)
        /\ ~Result.wall_clock_exceeded /\ wrote["out"] = Flood
    BY Zenon, <2>1, WroteAll
  <2>. QED
    BY <2>1, <2>2
<1>2. ASSUME reader["out"] # "cancelled"
      PROVE  Result.truncated /\ Len(Result.stdout) = Limit
  <2>1. wrote["out"] > Limit /\ AtMost(wrote["out"], Limit) = Limit
    BY <1>1, LimitAssumption, FloodAssumption DEF AtMost
  <2>2. got["out"].truncated /\ Len(got["out"].bytes) = Limit
    BY Zenon, <1>2, <2>1, Gathered DEF Streams
  <2>. QED
    BY <2>2 DEF Result
<1>. QED
  BY <1>1, <1>2 DEF Ok

(* What a run that was not cut off makes of its directive. *)
LEMMA RunFits ==
  ASSUME TaskInv, pc = "done", ~expired, task # NoTask,
         \A n \in Usual : n <= Limit, Limit < Flood
  PROVE  LET d == ParseDirective(task)
             lost == \E s \in Streams : reader[s] = "cancelled"
         IN Fits(d, Result, lost) \/ (d = "normal" /\ task.astral)
<1>. DEFINE d == ParseDirective(task)
            lost == \E s \in Streams : reader[s] = "cancelled"
            code == GenerateProgram(Plan(task))
<1>1. /\ task \in AllTasks
      /\ Template(code, program)
  BY TasksProgramRuns DEF TaskInv, PlannedInv
<1>2. /\ code.template = d
      /\ d = "normal" => code.literal.surrogates = task.astral
  BY DEF GenerateProgram, Plan, Literal
<1>3. d \in Marks
  BY <1>1, DirectiveIsNamed
<1>4. \A n \in Nat, e \in Int, s \in Streams : Prints(program, s, n, e) =>
        /\ Result.exit_code = e /\ e # Never
        /\ Result.oom_killed <=> e = 137
  BY WroteAll
<1>4a. \A e \in Int, s \in Streams : PrintsUsual(program, s, e) =>
        /\ Result.exit_code = e /\ e # Never
        /\ Result.oom_killed <=> e = 137
  BY <1>4, UsualAssumption DEF PrintsUsual
<1>5. /\ "out" \in Streams /\ "err" \in Streams
      /\ 0 \in Nat /\ 1 \in Nat
      /\ \A e \in {0, 1, 3, 7, 42, 99, 137, Never} : e \in Int
  BY DEF Streams, Never
<1>6. CASE d = "normal"
  <2>1. CASE task.astral
    BY <1>6, <2>1
  <2>2. CASE ~task.astral
    <3>1. PrintsUsual(program, "out", 0)
      BY <1>1, <1>2, <1>6, <2>2 DEF Template
    <3>. QED
      BY <1>5, <1>6, <3>1, NormalFits DEF Fits
  <2>. QED
    BY <2>1, <2>2
<1>7. CASE d = "fail"
  <2>1. PrintsUsual(program, "out", 3)
    BY <1>1, <1>2, <1>7 DEF Template
  <2>2. 3 \in Int /\ Result.exit_code = 3
    BY <1>4a, <1>5, <2>1
  <2>. QED
    BY <1>7, <2>2 DEF Fits
<1>8. CASE d = "hang"
  <2>1. Prints(program, "out", 0, Never)
    BY <1>1, <1>2, <1>8 DEF Template
  <2>2. FALSE
    BY <1>4, <1>5, <2>1 DEF Never
  <2>. QED
    BY <2>2
<1>9. CASE d = "oom"
  <2>1. Prints(program, "out", 0, 137) \/ PrintsUsual(program, "err", 1)
    BY <1>1, <1>2, <1>9 DEF Template
  <2>2. Result.oom_killed \/ Result.exit_code = 1
    BY Zenon, <1>4, <1>4a, <1>5, <2>1
  <2>. QED
    BY <1>9, <2>2 DEF Fits
<1>10. CASE d = "net"
  <2>1. PrintsUsual(program, "out", 42) \/ PrintsUsual(program, "out", 99)
    BY <1>1, <1>2, <1>10 DEF Template
  <2>2. Result.exit_code \in {42, 99}
    BY <1>4a, <1>5, <2>1
  <2>. QED
    BY <1>10, <2>2 DEF Fits, Ok
<1>11. CASE d = "fork"
  <2>1. PrintsUsual(program, "out", 0) \/ PrintsUsual(program, "out", 7)
    BY <1>1, <1>2, <1>11 DEF Template
  <2>2. Result.exit_code \in {0, 7}
    BY <1>4a, <1>5, <2>1
  <2>. QED
    BY <1>11, <2>2 DEF Fits
<1>12. CASE d = "bigout"
  <2>1. Prints(program, "out", Flood, 0)
    BY <1>1, <1>2, <1>12 DEF Template
  <2>. QED
    BY <1>5, <1>12, <2>1, FloodFits DEF Fits
<1>. QED
  BY <1>3, <1>6, <1>7, <1>8, <1>9, <1>10, <1>11, <1>12, MarksAre

(* Between what the programs usually print and what bigout does: 1 MiB is.    *)
LimitFits == Limit < Flood /\ \A n \in Usual : n <= Limit

(* Verdict and summary of a run are those of a directive its task names,      *)
(* whatever directives it names and however the program, the pipes and the    *)
(* deadline interleave, for every limit that tells the usual output and a     *)
(* flood apart.                                                               *)
THEOREM VerdictsFit == LimitFits => (TaskSpec => []VerdictFitsDirective)
<1>1. LimitFits /\ TaskInv => VerdictFitsDirective
  <2>. SUFFICES ASSUME LimitFits, TaskInv, pc = "done", task # NoTask
                PROVE  LET report == Summarize(Plan(task), Result)
                           lost == \E s \in Streams : reader[s] = "cancelled"
                       IN /\ report.directive \in Expected
                          /\ report.completed => report.head = Result.stdout
                          /\ \/ Result.wall_clock_exceeded
                             \/ Fits(report.directive, Result, lost)
                             \/ report.directive = "normal" /\ task.astral
    BY DEF VerdictFitsDirective
  <2>. DEFINE report == Summarize(Plan(task), Result)
              lost == \E s \in Streams : reader[s] = "cancelled"
  <2>1. report.directive = ParseDirective(task)
    BY DEF Summarize, Plan
  <2>2. report.directive \in Expected
    BY <2>1, DirectiveIsNamed DEF TaskInv, PlannedInv, Expected
  <2>3. report.completed => report.head = Result.stdout
    BY DEF Summarize
  <2>4. CASE expired
    <3>1. Result.wall_clock_exceeded
      BY <2>4 DEF Result
    <3>. QED
      BY <2>2, <2>3, <3>1
  <2>5. CASE ~expired
    <3>1. Fits(ParseDirective(task), Result, lost) \/ (ParseDirective(task) = "normal" /\ task.astral)
      BY Zenon, <2>5, RunFits DEF LimitFits
    <3>. QED
      BY <2>1, <2>2, <2>3, <3>1
  <2>. QED
    BY <2>4, <2>5
<1>. SUFFICES ASSUME LimitFits PROVE TaskSpec => []VerdictFitsDirective
  OBVIOUS
<1>2. TaskInv => VerdictFitsDirective
  BY <1>1
<1>. QED
  BY <1>2, TaskInductive, PTL

=============================================================================
