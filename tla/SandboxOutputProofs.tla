------------------------- MODULE SandboxOutputProofs -------------------------
(* Theorems about SandboxOutput, for every limit, chunk and pipe size: what   *)
(* the runner collects of a stream is its tail, and no buffer outgrows the    *)
(* limit.                                                                     *)
EXTENDS SandboxOutput, SequenceTheorems, TLAPS

-----------------------------------------------------------------------------
(* The loop of _read_capped keeps its invariant: the tail of what was read,   *)
(* with a chunk appended and cut again, is the tail of what has been read.    *)

LEMMA LastBytesShape ==
  ASSUME NEW n \in Nat
  PROVE  /\ LastBytes(n) \in Seq(Nat)
         /\ Len(LastBytes(n)) = AtMost(n, Limit)
         /\ \A i \in 1..AtMost(n, Limit) : LastBytes(n)[i] = n - AtMost(n, Limit) + i
         /\ AtMost(n, Limit) \in Nat
         /\ AtMost(n, Limit) <= Limit
<1>. DEFINE m == AtMost(n, Limit)
<1>1. m \in Nat /\ m <= Limit /\ m <= n
  BY LimitAssumption DEF AtMost
<1>2. \A i \in 1..m : n - m + i \in Nat
  BY <1>1
<1>3. LastBytes(n) = [i \in 1..m |-> n - m + i]
  BY DEF LastBytes
<1>. HIDE DEF m
<1>4. LastBytes(n) \in [1..m -> Nat]
  BY <1>2, <1>3
<1>5. LastBytes(n) \in Seq(Nat) /\ Len(LastBytes(n)) = m
  BY <1>1, <1>3, <1>4, IsASeq, LenProperties
<1>6. \A i \in 1..m : LastBytes(n)[i] = n - m + i
  BY <1>3
<1>. QED
  BY <1>1, <1>5, <1>6 DEF m

(* Keep returns the last of a sequence of consecutive numbers. *)
LEMMA KeepShape ==
  ASSUME NEW q \in Seq(Nat), NEW d \in Int,
         \A i \in 1..Len(q) : q[i] = d + i
  PROVE  /\ Keep(q) \in Seq(Nat)
         /\ Len(Keep(q)) = AtMost(Len(q), Limit)
         /\ \A i \in 1..AtMost(Len(q), Limit) :
              Keep(q)[i] = d + Len(q) - AtMost(Len(q), Limit) + i
<1>1. PICK l \in Nat : l = Len(q)
  BY LenProperties
<1>2. PICK k \in Nat : k = AtMost(Len(q), Limit) /\ k <= l
  BY <1>1, LimitAssumption DEF AtMost
<1>3. Keep(q) = SubSeq(q, l - k + 1, l)
  BY <1>1, <1>2 DEF Keep
<1>4. \A i \in l - k + 1 .. l : q[i] \in Nat
  BY <1>1, <1>2, ElementOfSeq
<1>5. /\ SubSeq(q, l - k + 1, l) \in Seq(Nat)
      /\ Len(SubSeq(q, l - k + 1, l)) = IF l - k + 1 <= l THEN l - (l - k + 1) + 1 ELSE 0
      /\ \A i \in 1..l - (l - k + 1) + 1 :
           SubSeq(q, l - k + 1, l)[i] = q[l - k + 1 + i - 1]
  <2>1. l - k + 1 \in Int /\ l \in Int
    BY <1>1, <1>2
  <2>. QED
    BY <1>4, <2>1, SubSeqProperties
<1>6. Len(Keep(q)) = k
  BY <1>2, <1>3, <1>5
<1>7. ASSUME NEW i \in 1..k
      PROVE  Keep(q)[i] = d + l - k + i
  <2>1. Keep(q)[i] = q[l - k + i]
    BY <1>2, <1>3, <1>5
  <2>2. l - k + i \in 1..Len(q)
    BY <1>1, <1>2
  <2>. QED
    BY <1>2, <2>1, <2>2
<1>. QED
  BY <1>1, <1>2, <1>3, <1>5, <1>6, <1>7

LEMMA KeepIsLastBytes ==
  ASSUME NEW t \in Nat, NEW n \in Nat
  PROVE  Keep(LastBytes(t) \o [i \in 1..n |-> t + i]) = LastBytes(t + n)
<1>1. PICK m \in Nat : m = AtMost(t, Limit) /\ m <= t
  BY LimitAssumption DEF AtMost
<1>2. PICK a \in Seq(Nat) : a = LastBytes(t) /\ Len(a) = m /\ \A i \in 1..m : a[i] = t - m + i
  BY <1>1, LastBytesShape
<1>3. PICK b \in Seq(Nat) : /\ b = [i \in 1..n |-> t + i] /\ Len(b) = n
                           /\ \A i \in 1..n : b[i] = t + i
  <2>. DEFINE c == [i \in 1..n |-> t + i]
  <2>1. c \in [1..n -> Nat] /\ \A i \in 1..n : c[i] = t + i
    OBVIOUS
  <2>2. c \in Seq(Nat) /\ Len(c) = n
    BY <2>1
  <2>. QED
    BY <2>1, <2>2
<1>4. PICK q \in Seq(Nat) : /\ q = a \o b /\ Len(q) = m + n
                           /\ \A i \in 1..m + n : q[i] = IF i <= m THEN a[i] ELSE b[i - m]
  <2>1. /\ a \o b \in Seq(Nat) /\ Len(a \o b) = Len(a) + Len(b)
        /\ \A i \in 1..Len(a) + Len(b) :
             (a \o b)[i] = IF i <= Len(a) THEN a[i] ELSE b[i - Len(a)]
    BY ConcatProperties, Zenon
  <2>2. Len(a) = m /\ Len(b) = n
    BY <1>2, <1>3
  <2>. QED
    BY <2>1, <2>2
<1>5. ASSUME NEW i \in 1..Len(q)
      PROVE  q[i] = (t - m) + i
  <2>1. CASE i <= m
    BY <1>2, <1>4, <1>5, <2>1
  <2>2. CASE i > m
    <3>1. i - m \in 1..n
      BY <1>1, <1>4, <1>5, <2>2
    <3>2. q[i] = b[i - m]
      <4>1. ~(i <= m) /\ i \in 1..m + n
        BY <1>1, <1>4, <1>5, <2>2
      <4>. QED
        BY <1>4, <4>1
    <3>3. b[i - m] = t + (i - m)
      BY <1>3, <3>1
    <3>. QED
      BY <1>1, <1>4, <1>5, <3>2, <3>3
  <2>. QED
    BY <1>1, <1>4, <1>5, <2>1, <2>2
<1>6. PICK k \in Nat : /\ k = AtMost(m + n, Limit)
                      /\ k = AtMost(t + n, Limit)
  BY <1>1, LimitAssumption DEF AtMost
<1>7. /\ Keep(q) \in Seq(Nat) /\ Len(Keep(q)) = k
      /\ \A i \in 1..k : Keep(q)[i] = (t - m) + (m + n) - k + i
  <2>1. Len(q) = m + n /\ t - m \in Int
    BY <1>1, <1>4
  <2>2. /\ Keep(q) \in Seq(Nat)
        /\ Len(Keep(q)) = AtMost(Len(q), Limit)
        /\ \A i \in 1..AtMost(Len(q), Limit) :
             Keep(q)[i] = (t - m) + Len(q) - AtMost(Len(q), Limit) + i
    BY <1>5, <2>1, KeepShape
  <2>. QED
    BY <1>6, <2>1, <2>2
<1>8. /\ LastBytes(t + n) \in Seq(Nat) /\ Len(LastBytes(t + n)) = k
      /\ \A i \in 1..k : LastBytes(t + n)[i] = t + n - k + i
  <2>1. PICK u \in Nat : u = t + n
    OBVIOUS
  <2>2. /\ LastBytes(u) \in Seq(Nat)
        /\ Len(LastBytes(u)) = AtMost(u, Limit)
        /\ \A i \in 1..AtMost(u, Limit) : LastBytes(u)[i] = u - AtMost(u, Limit) + i
    BY LastBytesShape
  <2>3. AtMost(u, Limit) = k
    BY <1>6, <2>1
  <2>4. /\ LastBytes(u) \in Seq(Nat) /\ Len(LastBytes(u)) = k
        /\ \A i \in 1..k : LastBytes(u)[i] = u - k + i
    BY <2>2, <2>3
  <2>. QED
    BY <2>1, <2>4
<1>9. \A i \in 1..k : (t - m) + (m + n) - k + i = t + n - k + i
  BY <1>1, <1>6
<1>10. Keep(q) = LastBytes(t + n)
  BY <1>7, <1>8, <1>9, SeqEqual
<1>. QED
  BY <1>2, <1>3, <1>4, <1>10

-----------------------------------------------------------------------------
(* The inductive invariant: at every moment a buffer is the tail of what its  *)
(* reader has read; a reader that has ended has read all there will be; a     *)
(* reader is cancelled, and a result taken, only when it is the stream's turn.*)

Collected(s) == pc = "done" \/ (pc = "err" /\ s = "out")

TypeInv ==
  /\ program \in Programs
  /\ client \in [state : {"live", "ended"}, rc : {0, 137, program.exit}]
  /\ wrote \in [Streams -> Nat]
  /\ total \in [Streams -> Nat]
  /\ reader \in [Streams -> {"reading", "ended", "cancelled"}]
  /\ pc \in {"watch", "kill", "out", "err", "done"}
  /\ expired \in BOOLEAN
  /\ DOMAIN buf = Streams /\ DOMAIN got = Streams

BufferInv == buf = [s \in Streams |-> LastBytes(total[s])]

PipeInv == \A s \in Streams : InPipe(s) \in 0..Capacity

PositionInv == Position <= Len(program.writes)

ReaderInv ==
  \A s \in Streams :
    /\ reader[s] = "ended" => client.state = "ended" /\ total[s] = wrote[s]
    /\ reader[s] = "cancelled" => Collected(s)
    /\ Collected(s) => reader[s] # "reading"

GotInv ==
  got = [s \in Streams |->
           IF Collected(s) /\ reader[s] = "ended"
           THEN [bytes |-> LastBytes(wrote[s]), truncated |-> wrote[s] > Limit]
           ELSE Nothing]

IInv == TypeInv /\ BufferInv /\ PipeInv /\ PositionInv /\ ReaderInv /\ GotInv

LEMMA InitInv == program \in Programs /\ Init => IInv
<1>. SUFFICES ASSUME program \in Programs, Init PROVE IInv
  OBVIOUS
<1>1. TypeInv
  BY DEF Init, TypeInv
<1>2. LastBytes(0) = <<>>
  <2>1. LastBytes(0) \in Seq(Nat) /\ Len(LastBytes(0)) = 0
    BY LastBytesShape, LimitAssumption DEF AtMost
  <2>. QED
    BY <2>1, EmptySeq
<1>3. BufferInv
  BY <1>2 DEF Init, BufferInv
<1>4. PipeInv
  BY CapacityAssumption DEF Init, PipeInv, InPipe
<1>5. PositionInv
  <2>1. Len(program.writes) \in Nat
    BY LenProperties DEF Programs
  <2>. QED
    BY <2>1 DEF Init, PositionInv, Position, Streams
<1>6. ReaderInv /\ GotInv
  BY DEF Init, ReaderInv, GotInv, Collected
<1>. QED
  BY <1>1, <1>3, <1>4, <1>5, <1>6 DEF IInv

(* One turn of a reader. *)
LEMMA ReadKeepsInv ==
  ASSUME IInv, NEW s \in Streams, Read(s)
  PROVE  IInv'
<1>. USE DEF IInv, Read, Takes, pipes
<1>1. PICK n \in 1..AtMost(InPipe(s), Chunk) :
        /\ total' = [total EXCEPT ![s] = @ + n]
        /\ buf' = [buf EXCEPT ![s] = Keep(@ \o [i \in 1..n |-> total[s] + i])]
  OBVIOUS
<1>2. n \in Nat /\ n <= InPipe(s) /\ total[s] \in Nat
  BY <1>1, ChunkAssumption DEF AtMost, PipeInv, TypeInv
<1>3. TypeInv'
  BY <1>1, <1>2 DEF TypeInv
<1>4. BufferInv'
  <2>1. buf'[s] = LastBytes(total[s] + n)
    BY <1>1, <1>2, KeepIsLastBytes DEF BufferInv
  <2>2. buf' = [buf EXCEPT ![s] = LastBytes(total[s] + n)]
    BY <1>1, <2>1 DEF BufferInv
  <2>. QED
    BY <1>1, <2>2 DEF BufferInv, TypeInv
<1>5. PipeInv'
  <2>1. total'[s] = total[s] + n /\ \A r \in Streams \ {s} : total'[r] = total[r]
    BY <1>1 DEF TypeInv
  <2>2. \A r \in Streams : wrote[r] \in Nat /\ total[r] \in Nat
    BY DEF TypeInv
  <2>3. wrote' = wrote
    OBVIOUS
  <2>4. InPipe(s)' \in 0..Capacity
    <3>1. InPipe(s) \in 0..Capacity
      BY DEF PipeInv
    <3>. QED
      BY <1>2, <2>1, <2>2, <2>3, <3>1, CapacityAssumption DEF InPipe
  <2>5. \A r \in Streams \ {s} : InPipe(r)' = InPipe(r)
    BY <2>1, <2>3 DEF InPipe
  <2>. QED
    BY <2>4, <2>5 DEF PipeInv
<1>6. PositionInv' /\ ReaderInv' /\ GotInv'
  BY <1>1 DEF PositionInv, Position, ReaderInv, GotInv, Collected, TypeInv
<1>. QED
  BY <1>3, <1>4, <1>5, <1>6

(* A byte passed on by the client, which is live: nothing has ended yet.      *)
LEMMA WriteKeepsInv ==
  ASSUME IInv, Write
  PROVE  IInv'
<1>. USE DEF IInv, Write, readers
<1>1. PICK s \in Streams : InPipe(s) < Capacity /\ wrote' = [wrote EXCEPT ![s] = @ + 1]
  <2>1. Position \in Nat
    BY DEF TypeInv, Streams, Position
  <2>2. Len(program.writes) \in Nat /\ program.writes \in Seq(Streams)
    BY LenProperties DEF TypeInv, Programs
  <2>3. Position <= Len(program.writes)
    BY DEF PositionInv
  <2>4. Position + 1 \in 1..Len(program.writes)
    BY <2>1, <2>2, <2>3 DEF Finished
  <2>5. program.writes[Position + 1] \in Streams
    BY <2>2, <2>4, ElementOfSeq
  <2>. QED
    BY <2>5
<1>2. \A r \in Streams : /\ wrote[r] \in Nat /\ total[r] \in Nat
                         /\ wrote'[r] = IF r = s THEN wrote[r] + 1 ELSE wrote[r]
  BY <1>1 DEF TypeInv
<1>3. TypeInv'
  BY <1>1, <1>2 DEF TypeInv
<1>4. BufferInv' /\ ReaderInv'
  BY DEF BufferInv, ReaderInv, Collected
<1>5. PipeInv'
  BY <1>1, <1>2, CapacityAssumption DEF PipeInv, InPipe
<1>6. PositionInv'
  <2>1. Position \in Nat /\ Position' = Position + 1
    BY <1>2 DEF Position, Streams
  <2>2. Len(program.writes) \in Nat
    BY LenProperties DEF TypeInv, Programs
  <2>. QED
    BY <2>1, <2>2 DEF PositionInv, Finished
<1>7. GotInv'
  BY <1>2 DEF GotInv, ReaderInv, Collected
<1>. QED
  BY <1>3, <1>4, <1>5, <1>6, <1>7

(* Nothing but the client's state changes at its end, by itself or by a       *)
(* removal, and once it is "ended" it stays as it is.                         *)
LEMMA ClientKeepsInv ==
  ASSUME IInv, ProgramEnds \/ Kill
  PROVE  IInv'
<1>. USE DEF IInv, readers
<1>1. CASE ProgramEnds
  <2>. USE <1>1 DEF ProgramEnds
  <2>1. TypeInv' /\ BufferInv'
    BY DEF TypeInv, BufferInv
  <2>2. PipeInv' /\ PositionInv'
    BY DEF PipeInv, InPipe, PositionInv, Position
  <2>3. ReaderInv' /\ GotInv'
    BY DEF ReaderInv, GotInv, Collected
  <2>. QED
    BY <2>1, <2>2, <2>3
<1>2. CASE Kill
  <2>. USE <1>2 DEF Kill
  <2>1. TypeInv' /\ BufferInv'
    BY DEF TypeInv, BufferInv
  <2>2. PipeInv' /\ PositionInv'
    BY DEF PipeInv, InPipe, PositionInv, Position
  <2>3. ReaderInv' /\ GotInv'
    BY DEF ReaderInv, GotInv, Collected
  <2>. QED
    BY <2>1, <2>2, <2>3
<1>. QED
  BY <1>1, <1>2

(* The runner leaves its loop: nothing is collected yet.                      *)
LEMMA WatchKeepsInv ==
  ASSUME IInv, Collect \/ Deadline
  PROVE  IInv'
<1>. USE DEF IInv, readers, pipes, Collect, Deadline
<1>1. TypeInv' /\ BufferInv'
  BY DEF TypeInv, BufferInv
<1>2. PipeInv' /\ PositionInv'
  BY DEF PipeInv, InPipe, PositionInv, Position
<1>3. ReaderInv' /\ GotInv'
  BY DEF ReaderInv, GotInv, Collected
<1>. QED
  BY <1>1, <1>2, <1>3

(* A reader's end: it has read whatever was written. *)
LEMMA EndOfFileKeepsInv ==
  ASSUME IInv, NEW s \in Streams, EndOfFile(s)
  PROVE  IInv'
<1>. USE DEF IInv, pipes, EndOfFile
<1>1. TypeInv' /\ BufferInv'
  BY DEF TypeInv, BufferInv
<1>2. PipeInv' /\ PositionInv'
  BY DEF PipeInv, InPipe, PositionInv, Position
<1>3. total[s] = wrote[s]
  BY DEF InPipe, TypeInv
<1>4. ReaderInv'
  BY <1>3 DEF ReaderInv, Collected, TypeInv
<1>5. ~Collected(s)
  BY DEF ReaderInv
<1>6. GotInv'
  BY <1>5 DEF GotInv, Collected, TypeInv
<1>. QED
  BY <1>1, <1>2, <1>4, <1>6

(* A stream is collected in its turn, or given up. *)
LEMMA SafeKeepsInv ==
  ASSUME IInv, NEW s \in Streams, Safe(s)
  PROVE  IInv'
<1>. USE DEF IInv, pipes, Safe
<1>1. TypeInv' /\ BufferInv'
  BY DEF TypeInv, BufferInv, After
<1>2. PipeInv' /\ PositionInv'
  BY DEF PipeInv, InPipe, PositionInv, Position
<1>3. /\ ~Collected(s) /\ Collected(s)'
      /\ \A r \in Streams \ {s} : Collected(r)' = Collected(r)
  BY DEF Collected, After, Streams
<1>4. reader[s] # "reading" => reader' = reader
  OBVIOUS
<1>5. CASE reader[s] = "ended" /\ got' = [got EXCEPT ![s] = [bytes |-> buf[s], truncated |-> Cut(s)]]
           /\ reader' = reader
  <2>1. ReaderInv'
    BY <1>3, <1>5 DEF ReaderInv
  <2>2. buf[s] = LastBytes(wrote[s]) /\ Cut(s) = (wrote[s] > Limit)
    BY <1>5 DEF BufferInv, ReaderInv, Cut
  <2>3. GotInv'
    BY <1>3, <1>5, <2>2 DEF GotInv
  <2>. QED
    BY <1>1, <1>2, <2>1, <2>3
<1>6. CASE reader[s] = "reading" /\ reader' = [reader EXCEPT ![s] = "cancelled"] /\ got' = got
  <2>1. ReaderInv'
    BY <1>3, <1>6 DEF ReaderInv, TypeInv
  <2>2. GotInv'
    BY <1>3, <1>6 DEF GotInv, TypeInv
  <2>. QED
    BY <1>1, <1>2, <2>1, <2>2
<1>. QED
  BY <1>5, <1>6

LEMMA StepKeepsInv == IInv /\ [Next]_vars => IInv'
<1>. SUFFICES ASSUME IInv, [Next]_vars PROVE IInv'
  OBVIOUS
<1>1. CASE Write
  BY <1>1, WriteKeepsInv
<1>2. CASE ProgramEnds \/ Kill
  BY <1>2, ClientKeepsInv
<1>3. CASE Collect \/ Deadline
  BY <1>3, WatchKeepsInv
<1>4. ASSUME NEW s \in Streams, Read(s) \/ EndOfFile(s) \/ Safe(s) PROVE IInv'
  BY <1>4, ReadKeepsInv, EndOfFileKeepsInv, SafeKeepsInv
<1>5. CASE UNCHANGED vars
  BY <1>5 DEF vars, IInv, TypeInv, BufferInv, PipeInv, InPipe, PositionInv, Position,
              ReaderInv, GotInv, Collected
<1>. QED
  BY <1>1, <1>2, <1>3, <1>4, <1>5 DEF Next

LEMMA Inductive == Spec => []IInv
  BY InitInv, StepKeepsInv, PTL DEF Spec

-----------------------------------------------------------------------------
(* No buffer ever holds more than the limit, no reader is ahead of the client *)
(* and no pipe overfull, whatever a program writes.                           *)
THEOREM OutputIsBounded == Spec => []TypeOK
<1>1. IInv => TypeOK
  <2>. SUFFICES ASSUME IInv PROVE TypeOK
    OBVIOUS
  <2>1. \A s \in Streams : total[s] \in Nat /\ buf[s] = LastBytes(total[s])
    BY DEF IInv, TypeInv, BufferInv
  <2>2. \A s \in Streams : Len(buf[s]) <= Limit
    BY <2>1, LastBytesShape
  <2>. QED
    BY <2>2 DEF IInv, TypeInv, PipeInv, TypeOK
<1>. QED
  BY <1>1, Inductive, PTL

(* What _safe collects of a stream is exactly the last `limit` bytes the      *)
(* client passed on, and "truncated" says exactly whether there were more.    *)
THEOREM CollectedIsTheTail == Spec => []ResultIsTheTail
<1>1. IInv => ResultIsTheTail
  BY DEF IInv, GotInv, Collected, ResultIsTheTail
<1>. QED
  BY <1>1, Inductive, PTL

=============================================================================
