---------------------------- MODULE SandboxOutput ----------------------------
(* What becomes of a program's output (app/sandbox/gvisor.py): the docker     *)
(* client copies it into two pipes, two readers drain them into buffers of a  *)
(* bounded size, and the runner collects what they hold once the client has   *)
(* ended, or its container was removed at the deadline.                       *)
(*                                                                            *)
(* The bytes of a stream are the numbers 1, 2, ... in the order they are      *)
(* written.  The client copies one connection with both streams, so that a    *)
(* full pipe holds up the other stream and the program too.  A cancellation   *)
(* throws the output away, and is SandboxActivity's.                          *)
EXTENDS Integers, Sequences

CONSTANTS
  Limit,     \* output_max_bytes
  Chunk,     \* _READ_CHUNK
  Capacity   \* what a pipe holds

ASSUME LimitAssumption == Limit \in Nat
ASSUME ChunkAssumption == Chunk \in Nat \ {0}
ASSUME CapacityAssumption == Capacity \in Nat \ {0}

VARIABLES
  program,  \* what it writes, byte by byte, and how it ends
  client,   \* the `docker run` process: its state, and its code once it ended
  wrote,    \* bytes written to each stream's pipe
  total,    \* _read_capped: bytes read from it
  buf,      \* _read_capped: the bytes kept
  reader,   \* how each stream's reader task stands
  pc,       \* where the runner awaits
  expired,  \* it came there from the deadline
  got       \* what it collected of each stream

vars == <<program, client, wrote, total, buf, reader, pc, expired, got>>
pipes == <<client, wrote>>
readers == <<total, buf, reader>>

-----------------------------------------------------------------------------
Streams == {"out", "err"}

Never == -1

(* A program: the streams of its bytes in order, and its exit code or Never.  *)
Programs == [writes : Seq(Streams), exit : Int]

AtMost(n, m) == IF n <= m THEN n ELSE m

(* The last Limit of the first n bytes of a stream. *)
LastBytes(n) == [i \in 1..AtMost(n, Limit) |-> n - AtMost(n, Limit) + i]

Nothing == [bytes |-> <<>>, truncated |-> FALSE]

Init ==
  /\ client = [state |-> "live", rc |-> 0]
  /\ wrote = [s \in Streams |-> 0]
  /\ total = [s \in Streams |-> 0]
  /\ buf = [s \in Streams |-> <<>>]
  /\ reader = [s \in Streams |-> "reading"]
  /\ pc = "watch"
  /\ expired = FALSE
  /\ got = [s \in Streams |-> Nothing]

InPipe(s) == wrote[s] - total[s]
Position == wrote["out"] + wrote["err"]
Finished == Position = Len(program.writes)

-----------------------------------------------------------------------------
(* The program, through the docker client.                                    *)

(* The next byte, once there is room for it. *)
Write ==
  /\ client.state = "live"
  /\ ~Finished
  /\ LET s == program.writes[Position + 1]
     IN InPipe(s) < Capacity /\ wrote' = [wrote EXCEPT ![s] = @ + 1]
  /\ UNCHANGED <<program, client, readers, pc, expired, got>>

ProgramEnds ==
  /\ client.state = "live"
  /\ Finished /\ program.exit # Never
  /\ client' = [state |-> "ended", rc |-> program.exit]
  /\ UNCHANGED <<program, wrote, readers, pc, expired, got>>

-----------------------------------------------------------------------------
(* The readers, each a task of its own from the launch on.                    *)

(* A buffer without a bound. *)
KeepAll(s) == s

(* del buf[: len(buf) - limit] *)
Keep(s) == SubSeq(s, Len(s) - AtMost(Len(s), Limit) + 1, Len(s))

(* One turn of _read_capped's loop: what has come, up to a chunk.             *)
Takes(s) ==
  /\ \E n \in 1..AtMost(InPipe(s), Chunk) :
       /\ total' = [total EXCEPT ![s] = @ + n]
       /\ buf' = [buf EXCEPT ![s] = Keep(@ \o [i \in 1..n |-> total[s] + i])]
  /\ UNCHANGED <<program, pipes, reader, pc, expired, got>>

(* Readers that take turns: stderr is read when stdout has come to its end.   *)
ReadInTurn(s) ==
  reader[s] = "reading" /\ (s = "out" \/ reader["out"] # "reading") /\ Takes(s)

Read(s) == reader[s] = "reading" /\ Takes(s)

(* The pipe is empty and has no writer any more. *)
EndOfFile(s) ==
  /\ reader[s] = "reading"
  /\ InPipe(s) = 0 /\ client.state = "ended"
  /\ reader' = [reader EXCEPT ![s] = "ended"]
  /\ UNCHANGED <<program, pipes, total, buf, pc, expired, got>>

-----------------------------------------------------------------------------
(* The runner.                                                                *)

(* The loop sees that the client has ended. *)
Collect ==
  /\ pc = "watch"
  /\ client.state = "ended"
  /\ pc' = "out"
  /\ UNCHANGED <<program, pipes, readers, expired, got>>

(* The loop sees that the time is up, before it looks at the client again. *)
Deadline ==
  /\ pc = "watch"
  /\ pc' = "kill"
  /\ expired' = TRUE
  /\ UNCHANGED <<program, pipes, readers, got>>

(* The container is removed, unless docker fails to; kill returns all the same.*)
Kill ==
  /\ pc = "kill"
  /\ pc' = "out"
  /\ client' \in {client, IF client.state = "live"
                          THEN [state |-> "ended", rc |-> 137] ELSE client}
  /\ UNCHANGED <<program, wrote, readers, expired, got>>

After(s) == IF s = "out" THEN "err" ELSE "done"

(* A stream of just the limit taken for a longer one. *)
CutOffByOne(s) == total[s] >= Limit

(* total > limit *)
Cut(s) == total[s] > Limit

(* _safe: the reader's result once it has one, or nothing after five seconds, *)
(* and then the reader is cancelled.                                          *)
Safe(s) ==
  /\ pc = s
  /\ pc' = After(s)
  /\ \/ /\ reader[s] = "ended"
        /\ got' = [got EXCEPT ![s] = [bytes |-> buf[s], truncated |-> Cut(s)]]
        /\ UNCHANGED reader
     \/ /\ reader[s] = "reading"
        /\ reader' = [reader EXCEPT ![s] = "cancelled"]
        /\ UNCHANGED got
  /\ UNCHANGED <<program, pipes, total, buf, expired>>

Next ==
  \/ Write \/ ProgramEnds
  \/ Collect \/ Deadline \/ Kill
  \/ \E s \in Streams : Read(s) \/ EndOfFile(s) \/ Safe(s)

Spec == program \in Programs /\ Init /\ [][Next]_vars

(* The readers read, for the event loop runs; and the program and the docker  *)
(* client go on when they can, or there would be nothing to say of them.      *)
Fairness ==
  /\ \A s \in Streams : WF_vars(Read(s))
  /\ WF_vars(Write)
  /\ WF_vars(ProgramEnds)

(* The SandboxResult, once pc = "done": its code, its tails and its flags.    *)
Result ==
  [exit_code |-> IF expired THEN 124 ELSE client.rc,
   oom_killed |-> ~expired /\ client.rc = 137,
   wall_clock_exceeded |-> expired,
   truncated |-> got["out"].truncated \/ got["err"].truncated,
   stdout |-> got["out"].bytes, stderr |-> got["err"].bytes]

-----------------------------------------------------------------------------
(* A reader holds no more than it may, and has read no more than was written. *)
TypeOK ==
  /\ client \in [state : {"live", "ended"}, rc : {0, 137, program.exit}]
  /\ wrote \in [Streams -> Nat] /\ total \in [Streams -> Nat]
  /\ \A s \in Streams : Len(buf[s]) <= Limit /\ InPipe(s) \in 0..Capacity
  /\ reader \in [Streams -> {"reading", "ended", "cancelled"}]
  /\ pc \in {"watch", "kill", "out", "err", "done"}
  /\ expired \in BOOLEAN

(* Whatever the order of writes, partial reads and the end, a stream that was *)
(* collected is the last Limit bytes the client passed on, all of them and    *)
(* nothing else, and it is called truncated exactly when there were more; one *)
(* that was given up is empty.                                                *)
ResultIsTheTail ==
  \A s \in Streams :
    (pc = "done" \/ (pc = "err" /\ s = "out")) =>
      got[s] = IF reader[s] = "ended"
               THEN [bytes |-> LastBytes(wrote[s]), truncated |-> wrote[s] > Limit]
               ELSE Nothing

(* A program that ends by itself gets to its end, however much it writes and *)
(* to whichever stream first: no full pipe holds it up for good, unless that  *)
(* stream's output was given up.                                              *)
FloodsAreDrained ==
  program.exit # Never
    ~> client.state = "ended" \/ \E s \in Streams : reader[s] = "cancelled"

=============================================================================
