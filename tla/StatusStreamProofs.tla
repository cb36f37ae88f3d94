-------------------------- MODULE StatusStreamProofs --------------------------
(* Theorems about StatusStream, for every duration and keepalive period: what *)
(* a client is sent is well formed, true of the run, and never goes back.     *)
EXTENDS StatusStream, SequenceTheorems, TLAPS

-----------------------------------------------------------------------------
(* The inductive invariant. *)

EventRecords == [kind : Kinds, answer : Answers]
Flow == {"snapshot", "step", "keepalive"}

(* A stream that has not ended: a snapshot, then steps and keepalives. *)
Flowing(s, n) ==
  \A i \in 1..n : s[i].kind \in Flow /\ (s[i].kind = "snapshot" <=> i = 1)

(* An older view of the run and a newer one. *)
Below(old, new) ==
  /\ old.listed <= new.listed
  /\ old.settled => new.settled
  /\ old.verdict # "none" => new.verdict = old.verdict

(* The event for the end the run came to. *)
EndOf ==
  IF status = "COMPLETED" /\ verdict = "completed" THEN "completed"
  ELSE IF status = "TIMED_OUT" THEN "timed_out" ELSE "failed"

Ended == seen = status /\ status \in Run!Closed

(* What the generator knows of the run at each of its awaits. *)
Knows ==
  /\ status = "RUNNING" => verdict = "none"
  /\ at = "query" => seen = "RUNNING"
  /\ at = "result" => Ended
  /\ at = "send" =>
       IF seen = "RUNNING"
       THEN /\ answer.status = "RUNNING" /\ Below(answer.view, View)
            /\ last # NoAnswer => Below(last.view, answer.view)
       ELSE Ended /\ answer.status \in Terminal /\ SseEvent[answer.status] = EndOf
  /\ at = "sleep" => seen = "RUNNING" /\ last # NoAnswer
  /\ last # NoAnswer => last.status = "RUNNING" /\ Below(last.view, View)
  /\ at # "over" => ticks <= MaxTicks

(* Before the end: what was sent is no newer than the last answer. *)
Open ==
  /\ Flowing(sent, Len(sent))
  /\ last = NoAnswer <=> Len(sent) = 0
  /\ \A i \in 1..Len(sent) : sent[i].kind \in {"snapshot", "step"} =>
       Below(sent[i].answer.view, last.view)

(* After it: "done", and before it the run's end if that was read. *)
Told ==
  LET n == Len(sent)
  IN /\ n >= 2 /\ sent[n].kind = "done"
     /\ IF seen = "RUNNING" THEN Flowing(sent, n - 1)
        ELSE n >= 3 /\ Flowing(sent, n - 2) /\ sent[n-1].kind = EndOf /\ Ended

IInv ==
  /\ TypeOK
  /\ Knows
  /\ at # "over" => Open
  /\ at = "over" => Told
  /\ StepsAreNews

-----------------------------------------------------------------------------
(* Views. *)

(* A newer view of a newer one is a newer one. *)
LEMMA BelowTransitive ==
  ASSUME NEW u \in Views, NEW v \in Views, NEW w \in Views, Below(u, v), Below(v, w)
  PROVE  Below(u, w)
BY DEF Below, Views

(* Two views of which each is the newer are one. *)
LEMMA BelowAntisymmetric ==
  ASSUME NEW u \in Views, NEW v \in Views, Below(u, v), Below(v, u)
  PROVE  u = v
<1>1. u.listed = v.listed
  BY DEF Below, Views
<1>2. u.settled = v.settled
  BY Zenon DEF Below, Views
<1>3. u.verdict = v.verdict
  BY DEF Below, Views
<1>. QED
  BY <1>1, <1>2, <1>3 DEF Views

(* The view of a run. *)
LEMMA ViewType == Run!TypeOK => View \in Views
BY DEF Run!TypeOK, View, Views

(* It grows with the run, and a run that has closed moves no more. *)
LEMMA RunMovesOn ==
  ASSUME IInv, Run!Next
  PROVE  /\ status = "RUNNING" /\ Run!TypeOK' /\ Below(View, View')
         /\ status' = "RUNNING" => verdict' = "none"
<1>1. Run!TypeOK /\ (status = "RUNNING" => verdict = "none")
  BY DEF IInv, TypeOK, Knows
<1>2. /\ status = "RUNNING"
      /\ status' \in {"RUNNING", "COMPLETED", "FAILED", "CANCELED", "TIMED_OUT", "TERMINATED"}
      /\ status' = "RUNNING" => verdict' = verdict
      /\ verdict' \in {"none", "completed", "failed"}
      /\ progress' \in progress..4
  BY <1>1 DEF Run!Next, Run!Advance, Run!Succeed, Run!Reject, Run!Break, Run!Stop, Run!TypeOK
<1>3. progress \in 0..4
  BY <1>1 DEF Run!TypeOK
<1>4. Run!TypeOK'
  BY <1>2, <1>3 DEF Run!TypeOK, Run!Closed
<1>5. View.listed = progress /\ View.verdict = "none"
  BY <1>1, <1>2 DEF View
<1>6. ~ View.settled
  BY Zenon, <1>2 DEF View
<1>7. View.listed <= View'.listed
  BY <1>2, <1>3, <1>5 DEF View
<1>8. Below(View, View')
  BY Zenon, <1>5, <1>6, <1>7 DEF Below
<1>. QED
  BY <1>1, <1>2, <1>4, <1>8

-----------------------------------------------------------------------------
(* Events. *)

(* Two events more. *)
LEMMA TwoMore ==
  ASSUME NEW S, NEW s \in Seq(S), NEW a \in S, NEW b \in S
  PROVE  /\ s \o <<a, b>> \in Seq(S)
         /\ Len(s \o <<a, b>>) = Len(s) + 2
         /\ \A i \in 1..Len(s) : (s \o <<a, b>>)[i] = s[i]
         /\ (s \o <<a, b>>)[Len(s) + 1] = a
         /\ (s \o <<a, b>>)[Len(s) + 2] = b
<1>1. <<a, b>> \in Seq(S) /\ Len(<<a, b>>) = 2
  OBVIOUS
<1>2. Len(s) \in Nat
  BY LenProperties
<1>. QED
  BY <1>1, <1>2, ConcatProperties

(* One event more that is no step keeps steps news. *)
LEMMA NotAStep ==
  ASSUME TypeOK, StepsAreNews, NEW e \in EventRecords, e.kind # "step",
         sent' = Append(sent, e)
  PROVE  StepsAreNews'
<1>1. /\ Len(sent) \in Nat /\ Len(sent') = Len(sent) + 1
      /\ \A i \in 1..Len(sent) : sent'[i] = sent[i]
      /\ sent'[Len(sent) + 1] = e
  BY AppendProperties, LenProperties DEF TypeOK
<1>2. ASSUME NEW i \in 1..Len(sent'), NEW j \in 1..Len(sent'), i < j, sent'[j].kind = "step"
      PROVE  i \in 1..Len(sent) /\ j \in 1..Len(sent)
  BY <1>1, <1>2
<1>. QED
  BY <1>1, <1>2 DEF StepsAreNews

(* What the generator sends is an event. *)
LEMMA EventType ==
  ASSUME NEW k \in Kinds, NEW a \in Answers
  PROVE  Event(k, a) \in EventRecords /\ Event(k, a).kind = k /\ Event(k, a).answer = a
BY DEF Event, EventRecords

LEMMA NoAnswerType == NoAnswer \in Answers /\ NoAnswer.status = "none"
BY DEF NoAnswer, Answers, NoView, Views

LEMMA InitInv == Init => IInv
<1>. SUFFICES ASSUME Init PROVE IInv
  OBVIOUS
<1>1. NoAnswer \in Answers
  BY NoAnswerType
<1>2. sent = <<>> /\ Len(sent) = 0 /\ sent \in Seq(EventRecords)
  BY EmptySeq DEF Init
<1>3. TypeOK
  BY <1>1, <1>2, TicksAssumption
     DEF Init, TypeOK, Run!Init, Run!TypeOK, Run!Closed, Over, EventRecords
<1>4. Knows
  BY TicksAssumption DEF Init, Knows, Run!Init
<1>5. Open /\ StepsAreNews
  BY <1>2 DEF Init, Open, Flowing, StepsAreNews
<1>. QED
  BY <1>3, <1>4, <1>5 DEF IInv, Init

-----------------------------------------------------------------------------
(* The steps. *)

(* A step that sends nothing leaves what was sent as it was. *)
LEMMA NothingSent ==
  ASSUME IInv, sent' = sent, last' = last, at # "over"
  PROVE  Open' /\ StepsAreNews'
BY DEF IInv, Open, Flowing, StepsAreNews

(* The awaits of a poll: the run is as it was. *)
LEMMA ConnectKeepsInv == IInv /\ Connect => IInv'
<1>. SUFFICES ASSUME IInv, Connect PROVE IInv'
  OBVIOUS
<1>1. at = "connect" /\ at' \in {"poll", "refused"}
  BY DEF Connect
<1>2. UNCHANGED <<run, known, seen, answer, last, ticks, sent>>
  BY DEF Connect
<1>3. TypeOK'
  BY <1>1, <1>2 DEF IInv, TypeOK, run, Run!TypeOK, Over
<1>4. Knows'
  BY <1>1, <1>2 DEF IInv, Knows, run, View, EndOf, Ended
<1>. QED
  BY <1>1, <1>2, <1>3, <1>4, NothingSent DEF IInv

LEMMA DescribeKeepsInv == IInv /\ Describe => IInv'
<1>. SUFFICES ASSUME IInv, Describe PROVE IInv'
  OBVIOUS
<1>1. /\ at = "poll"
      /\ \/ known /\ seen' = status /\ at' = IF status = "RUNNING" THEN "query" ELSE "result"
         \/ at' = "lost" /\ seen' = seen
      /\ UNCHANGED <<run, known, answer, last, ticks, sent>>
  BY DEF Describe
<1>2. TypeOK'
  BY <1>1 DEF IInv, TypeOK, run, Run!TypeOK, Over
<1>3. Knows'
  BY <1>1 DEF IInv, TypeOK, Knows, run, View, Ended, Run!TypeOK
<1>. QED
  BY <1>1, <1>2, <1>3, NothingSent DEF IInv

LEMMA QueryKeepsInv == IInv /\ Query => IInv'
<1>. SUFFICES ASSUME IInv, Query PROVE IInv'
  OBVIOUS
<1>1. /\ at = "query" /\ at' = "send" /\ answer' = Running(View)
      /\ UNCHANGED <<run, known, seen, last, ticks, sent>>
  BY DEF Query
<1>2. View \in Views
  BY ViewType DEF IInv, TypeOK
<1>3. answer' \in Answers /\ answer'.status = "RUNNING" /\ answer'.view = View
  BY <1>1, <1>2 DEF Running, Answers
<1>4. TypeOK'
  BY <1>1, <1>3 DEF IInv, TypeOK, run, Run!TypeOK
<1>5. View' = View /\ Below(View, View)
  BY <1>1, <1>2 DEF run, View, Below, Views
<1>6. seen' = "RUNNING"
  BY <1>1 DEF IInv, Knows
<1>7. Knows'
  BY <1>1, <1>3, <1>5, <1>6 DEF IInv, Knows, run
<1>. QED
  BY <1>1, <1>4, <1>7, NothingSent DEF IInv

(* What is read of a closed run is the end it came to. *)
LEMMA ResultKeepsInv == IInv /\ Result => IInv'
<1>. SUFFICES ASSUME IInv, Result PROVE IInv'
  OBVIOUS
<1>1. /\ at = "result" /\ at' = "send"
      /\ answer' = IF seen = "COMPLETED" THEN Completed ELSE TerminalFailure(seen)
      /\ UNCHANGED <<run, known, seen, last, ticks, sent>>
  BY DEF Result
<1>2. Ended
  BY <1>1 DEF IInv, Knows
<1>3. NoView \in Views
  BY DEF NoView, Views
<1>4. /\ answer' \in Answers /\ answer'.status \in Terminal
      /\ SseEvent[answer'.status] = EndOf
  <2>1. CASE seen = "COMPLETED"
    BY <1>1, <1>2, <1>3, <2>1 DEF Completed, Answers, Terminal, SseEvent, EndOf, Ended
  <2>2. CASE seen # "COMPLETED"
    BY <1>1, <1>2, <1>3, <2>2
       DEF TerminalFailure, Answers, Terminal, SseEvent, EndOf, Ended, Run!Closed
  <2>. QED
    BY <2>1, <2>2
<1>5. TypeOK'
  BY <1>1, <1>4 DEF IInv, TypeOK, run, Run!TypeOK
<1>6. EndOf' = EndOf /\ Ended' /\ seen # "RUNNING"
  BY <1>1, <1>2 DEF EndOf, Ended, run, Run!Closed
<1>7. Knows'
  <2>1. View' = View
    BY <1>1 DEF run, View
  <2>. QED
    BY <1>1, <1>4, <1>6, <2>1 DEF IInv, Knows, run
<1>. QED
  BY <1>1, <1>5, <1>7, NothingSent DEF IInv

LEMMA CallFailsKeepsInv == IInv /\ CallFails => IInv'
<1>. SUFFICES ASSUME IInv, CallFails PROVE IInv'
  OBVIOUS
<1>1. at \in {"connect", "poll", "query", "result"} /\ at' \in {"refused", "broken"}
  BY DEF CallFails
<1>2. UNCHANGED <<run, known, seen, answer, last, ticks, sent>>
  BY DEF CallFails
<1>3. TypeOK'
  BY <1>1, <1>2 DEF IInv, TypeOK, run, Run!TypeOK, Over
<1>4. Knows'
  BY <1>1, <1>2 DEF IInv, Knows, run, View
<1>. QED
  BY <1>1, <1>2, <1>3, <1>4, NothingSent DEF IInv

LEMMA HangUpKeepsInv == IInv /\ HangUp => IInv'
<1>. SUFFICES ASSUME IInv, HangUp PROVE IInv'
  OBVIOUS
<1>1. at \in {"poll", "send"} /\ at' = "gone"
  BY DEF HangUp
<1>2. UNCHANGED <<run, known, seen, answer, last, ticks, sent>>
  BY DEF HangUp
<1>3. TypeOK'
  BY <1>1, <1>2 DEF IInv, TypeOK, run, Run!TypeOK, Over
<1>4. Knows'
  BY <1>1, <1>2 DEF IInv, Knows, run, View
<1>. QED
  BY <1>1, <1>2, <1>3, <1>4, NothingSent DEF IInv

(* One event more. *)
LEMMA OneMore ==
  ASSUME TypeOK, NEW e \in EventRecords, sent' = Append(sent, e)
  PROVE  /\ sent' \in Seq(EventRecords)
         /\ Len(sent) \in Nat /\ Len(sent') = Len(sent) + 1
         /\ \A i \in 1..Len(sent) : sent'[i] = sent[i]
         /\ sent'[Len(sent) + 1] = e
BY AppendProperties, LenProperties DEF TypeOK, EventRecords

(* The stream flows on. *)
LEMMA FlowsOn ==
  ASSUME TypeOK, NEW e \in EventRecords, sent' = Append(sent, e),
         Flowing(sent, Len(sent)), e.kind \in Flow, e.kind = "snapshot" <=> Len(sent) = 0
  PROVE  Flowing(sent', Len(sent'))
BY OneMore DEF Flowing

(* "done" at the bound of the stream's own time. *)
LEMMA WakeKeepsInv == IInv /\ Wake => IInv'
<1>. SUFFICES ASSUME IInv, Wake PROVE IInv'
  OBVIOUS
<1>1. /\ at = "sleep" /\ ticks' = ticks + 1
      /\ UNCHANGED <<run, known, seen, answer, last>>
      /\ \/ ticks' > MaxTicks /\ sent' = Append(sent, Done) /\ at' = "over"
         \/ ticks' <= MaxTicks /\ at' = "poll" /\ sent' = sent
  <2>1. ticks \in Nat /\ MaxTicks \in Nat
    BY TicksAssumption DEF IInv, TypeOK
  <2>. QED
    BY <2>1 DEF Wake
<1>2. TypeOK /\ Open /\ seen = "RUNNING" /\ last # NoAnswer /\ ticks <= MaxTicks
  BY <1>1 DEF IInv, Knows
<1>3. Knows'
  BY <1>1 DEF IInv, Knows, run, View
<1>4. ticks' \in 0..MaxTicks + 1 /\ MaxTicks \in Nat
  BY <1>1, <1>2, TicksAssumption DEF TypeOK
<1>5. CASE sent' = sent /\ at' = "poll"
  <2>1. TypeOK'
    BY <1>1, <1>2, <1>4, <1>5 DEF TypeOK, run, Run!TypeOK
  <2>. QED
    BY <1>1, <1>3, <1>5, <2>1, NothingSent DEF IInv
<1>6. CASE sent' = Append(sent, Done) /\ at' = "over"
  <2>1. Done \in EventRecords /\ Done.kind = "done"
    BY EventType, NoAnswerType DEF Done, Kinds
  <2>2. /\ sent' \in Seq(EventRecords)
        /\ Len(sent) \in Nat /\ Len(sent') = Len(sent) + 1
        /\ \A i \in 1..Len(sent) : sent'[i] = sent[i]
        /\ sent'[Len(sent) + 1] = Done
    BY <1>2, <1>6, <2>1, OneMore
  <2>3. TypeOK'
    BY <1>1, <1>2, <1>4, <1>6, <2>2 DEF TypeOK, run, Run!TypeOK, EventRecords, Over
  <2>4. Told'
    BY <1>1, <1>2, <2>1, <2>2 DEF Told, Open, Flowing
  <2>5. StepsAreNews'
    BY <1>2, <1>6, <2>1, NotAStep DEF IInv
  <2>. QED
    BY <1>3, <1>6, <2>3, <2>4, <2>5 DEF IInv
<1>. QED
  BY <1>1, <1>5, <1>6

(* The run goes its way: what the stream holds of it stays true, for only a   *)
(* run that is open moves, and it only grows.                                 *)
LEMMA RunMovesKeepsInv == IInv /\ RunMoves => IInv'
<1>. SUFFICES ASSUME IInv, RunMoves PROVE IInv'
  OBVIOUS
<1>1. UNCHANGED <<known, at, seen, answer, last, ticks, sent>>
  BY DEF RunMoves
<1>2. /\ status = "RUNNING" /\ Run!TypeOK' /\ Below(View, View')
      /\ status' = "RUNNING" => verdict' = "none"
  BY RunMovesOn DEF RunMoves
<1>3. ~ Ended
  BY <1>2 DEF Ended, Run!Closed
<1>4. TypeOK'
  BY <1>1, <1>2 DEF IInv, TypeOK
<1>5. ASSUME NEW v \in Views, Below(v, View) PROVE Below(v, View')
  <2>1. View \in Views
    BY ViewType DEF IInv, TypeOK
  <2>2. View' \in Views
    BY <1>2 DEF View, Views, Run!TypeOK
  <2>. QED
    BY <1>2, <1>5, <2>1, <2>2, BelowTransitive
<1>6. answer.view \in Views /\ last.view \in Views
  BY DEF IInv, TypeOK, Answers
<1>7. Knows'
  <2>1. at = "send" => /\ seen = "RUNNING" /\ answer.status = "RUNNING"
                       /\ Below(answer.view, View)
                       /\ last # NoAnswer => Below(last.view, answer.view)
    BY <1>3 DEF IInv, Knows
  <2>2. at # "result"
    BY <1>3 DEF IInv, Knows
  <2>3. last # NoAnswer => Below(last.view, View')
    BY <1>5, <1>6 DEF IInv, Knows
  <2>4. at = "send" => Below(answer.view, View')
    BY <1>5, <1>6, <2>1
  <2>. QED
    BY <1>1, <1>2, <2>1, <2>2, <2>3, <2>4 DEF IInv, Knows
<1>8. at # "over" => Open' /\ StepsAreNews'
  BY <1>1, NothingSent
<1>9. at = "over" => Told' /\ StepsAreNews'
  BY <1>1, <1>3 DEF IInv, Told, Flowing, StepsAreNews
<1>. QED
  BY <1>1, <1>4, <1>7, <1>8, <1>9 DEF IInv

(* A run that is dropped, or nothing at all. *)
LEMMA RestKeepsInv == IInv /\ (Forgotten \/ UNCHANGED vars) => IInv'
<1>. SUFFICES ASSUME IInv, Forgotten \/ UNCHANGED vars PROVE IInv'
  OBVIOUS
<1>1. /\ UNCHANGED <<status, progress, verdict, at, seen, answer, last, ticks, sent>>
      /\ known' = known \/ known' = FALSE
  BY DEF Forgotten, vars, run
<1>2. TypeOK'
  BY <1>1 DEF IInv, TypeOK, Run!TypeOK
<1>3. Knows'
  BY <1>1 DEF IInv, Knows, View, EndOf, Ended
<1>4. at # "over" => Open' /\ StepsAreNews'
  BY <1>1, NothingSent
<1>5. at = "over" => Told' /\ StepsAreNews'
  BY <1>1 DEF IInv, Told, Flowing, StepsAreNews, EndOf, Ended
<1>. QED
  BY <1>1, <1>2, <1>3, <1>4, <1>5 DEF IInv

(* The end of the run: what goes before it flows, be it the snapshot only. *)
LEMMA SendEndKeepsInv == IInv /\ SendEnd => IInv'
<1>. SUFFICES ASSUME IInv, SendEnd PROVE IInv'
  OBVIOUS
<1>. DEFINE first == Event("snapshot", answer)
            end   == Event(SseEvent[answer.status], answer)
            pre   == IF last = NoAnswer THEN <<first>> ELSE sent
<1>1. /\ at = "send" /\ at' = "over" /\ answer.status \in Terminal
      /\ sent' = sent \o (IF last = NoAnswer THEN <<first>> ELSE <<>>) \o <<end, Done>>
      /\ UNCHANGED <<run, known, seen, answer, last, ticks>>
  BY DEF SendEnd
<1>2. TypeOK /\ Open /\ answer \in Answers /\ sent \in Seq(EventRecords)
  BY <1>1 DEF IInv, TypeOK, EventRecords
<1>3. Ended /\ SseEvent[answer.status] = EndOf /\ seen # "RUNNING"
  BY <1>1 DEF IInv, Knows, Terminal, Ended, Run!Closed
<1>4. /\ first \in EventRecords /\ first.kind = "snapshot"
      /\ end \in EventRecords /\ end.kind = EndOf
      /\ Done \in EventRecords /\ Done.kind = "done"
  BY <1>2, <1>3, EventType, NoAnswerType DEF EndOf, Kinds, Done
<1>5. /\ pre \in Seq(EventRecords) /\ Len(pre) \in Nat /\ Len(pre) >= 1
      /\ Flowing(pre, Len(pre))
      /\ sent' = pre \o <<end, Done>>
  <2>1. CASE last = NoAnswer
    <3>1. sent = <<>>
      BY <1>2, <2>1, EmptySeq DEF Open
    <3>2. pre = <<first>> /\ <<first>> \in Seq(EventRecords) /\ Len(<<first>>) = 1
      BY <1>4, <2>1
    <3>3. sent \o <<first>> = <<first>>
      BY <3>1, <3>2, ConcatEmptySeq
    <3>4. Flowing(<<first>>, 1)
      BY <1>4 DEF Flowing, Flow
    <3>. QED
      BY <1>1, <2>1, <3>2, <3>3, <3>4
  <2>2. CASE last # NoAnswer
    <3>1. pre = sent /\ sent \o <<>> = sent
      BY <1>2, <2>2, ConcatEmptySeq
    <3>2. Len(sent) \in Nat /\ Len(sent) # 0
      BY <1>2, <2>2, LenProperties DEF Open
    <3>. QED
      BY <1>1, <1>2, <2>2, <3>1, <3>2 DEF Open
  <2>. QED
    BY <2>1, <2>2
<1>. HIDE DEF first, end, pre
<1>6. /\ sent' \in Seq(EventRecords) /\ Len(sent') = Len(pre) + 2
      /\ \A i \in 1..Len(pre) : sent'[i] = pre[i]
      /\ sent'[Len(pre) + 1] = end /\ sent'[Len(pre) + 2] = Done
  BY <1>4, <1>5, TwoMore
<1>7. TypeOK'
  BY <1>1, <1>2, <1>6 DEF TypeOK, run, Run!TypeOK, EventRecords, Over
<1>8. Knows'
  BY <1>1 DEF IInv, Knows, run, View
<1>9. Told'
  <2>1. EndOf' = EndOf /\ Ended' /\ seen' # "RUNNING"
    BY <1>1, <1>3 DEF run, EndOf, Ended, Run!Closed
  <2>2. Flowing(sent', Len(pre))
    BY <1>5, <1>6 DEF Flowing
  <2>. QED
    BY <1>4, <1>5, <1>6, <2>1, <2>2 DEF Told
<1>10. StepsAreNews'
  <2>1. ASSUME NEW i \in 1..Len(sent'), NEW j \in 1..Len(sent'), i < j,
               sent'[j].kind = "step"
        PROVE  pre = sent /\ i \in 1..Len(sent) /\ j \in 1..Len(sent)
    <3>1. end.kind # "step" /\ Done.kind # "step"
      BY <1>4 DEF EndOf
    <3>2. j \in 1..Len(pre) /\ i \in 1..Len(pre)
      BY <1>5, <1>6, <2>1, <3>1
    <3>3. pre[j].kind = "step"
      BY <1>6, <2>1, <3>2
    <3>4. last # NoAnswer
      BY <1>4, <3>2, <3>3, <2>1 DEF pre
    <3>. QED
      BY <3>2, <3>4 DEF pre
  <2>. QED
    BY <1>6, <2>1 DEF IInv, StepsAreNews
<1>. QED
  BY <1>1, <1>7, <1>8, <1>9, <1>10 DEF IInv

(* The snapshot, a step or a keepalive: an answer that differs from the last  *)
(* one is newer than all that was sent, for views only grow.                  *)
LEMMA SendProgressKeepsInv == IInv /\ SendProgress => IInv'
<1>. SUFFICES ASSUME IInv, SendProgress PROVE IInv'
  OBVIOUS
<1>1. /\ at = "send" /\ at' = "sleep" /\ answer.status \notin Terminal /\ last' = answer
      /\ UNCHANGED <<run, known, seen, answer, ticks>>
      /\ \/ last = NoAnswer /\ sent' = Append(sent, Event("snapshot", answer))
         \/ /\ last # NoAnswer /\ answer # last
            /\ sent' = Append(sent, Event("step", answer))
         \/ /\ answer = last
            /\ sent' = Append(sent, Event("keepalive", NoAnswer)) \/ sent' = sent
  BY DEF SendProgress, Remember
<1>2. /\ TypeOK /\ Open /\ answer \in Answers /\ last \in Answers
      /\ sent \in Seq(EventRecords) /\ Len(sent) \in Nat
  BY <1>1, LenProperties DEF IInv, TypeOK, EventRecords
<1>3. /\ seen = "RUNNING" /\ answer.status = "RUNNING" /\ Below(answer.view, View)
      /\ last # NoAnswer => last.status = "RUNNING" /\ Below(last.view, answer.view)
  BY <1>1 DEF IInv, Knows
<1>4. answer # NoAnswer
  BY <1>3, NoAnswerType
<1>5. Knows'
  <2>1. View' = View
    BY <1>1 DEF run, View
  <2>. QED
    BY <1>1, <1>3, <1>4, <2>1 DEF IInv, Knows, run
<1>6. TypeOK' /\ sent' \in Seq(EventRecords)
  <2>1. sent' \in Seq(EventRecords)
    BY <1>1, <1>2, EventType, NoAnswerType, OneMore DEF Kinds
  <2>. QED
    BY <1>1, <1>2, <2>1 DEF TypeOK, run, Run!TypeOK, EventRecords
<1>7. answer.view \in Views /\ last.view \in Views
  BY <1>2 DEF Answers
<1>8. \A i \in 1..Len(sent) : sent[i].kind \in {"snapshot", "step"} =>
        /\ last # NoAnswer
        /\ sent[i].answer.view \in Views
        /\ Below(sent[i].answer.view, last.view) /\ Below(sent[i].answer.view, answer.view)
  <2>. SUFFICES ASSUME NEW i \in 1..Len(sent), sent[i].kind \in {"snapshot", "step"}
                PROVE  /\ last # NoAnswer /\ sent[i].answer.view \in Views
                       /\ Below(sent[i].answer.view, last.view)
                       /\ Below(sent[i].answer.view, answer.view)
    OBVIOUS
  <2>1. last # NoAnswer /\ Below(sent[i].answer.view, last.view)
    BY <1>2 DEF Open
  <2>2. sent[i].answer.view \in Views
    <3>1. sent[i] \in EventRecords
      BY <1>2, ElementOfSeq
    <3>. QED
      BY <3>1 DEF EventRecords, Answers
  <2>. QED
    BY <1>3, <1>7, <2>1, <2>2, BelowTransitive
<1>9. CASE last = NoAnswer
  <2>. DEFINE e == Event("snapshot", answer)
  <2>1. sent' = Append(sent, e) /\ Len(sent) = 0
    BY <1>1, <1>2, <1>4, <1>9 DEF Open
  <2>2. e \in EventRecords /\ e.kind = "snapshot" /\ e.answer = answer
    BY <1>2, EventType DEF Kinds
  <2>. HIDE DEF e
  <2>3. Len(sent') = 1 /\ sent'[1] = e /\ Flowing(sent', Len(sent'))
    BY <1>2, <2>1, <2>2, OneMore, FlowsOn DEF Open, Flow
  <2>4. Below(answer.view, answer.view)
    BY <1>7 DEF Below, Views
  <2>5. Open'
    BY <1>1, <1>4, <2>2, <2>3, <2>4, NoAnswerType DEF Open, NoAnswer
  <2>6. StepsAreNews'
    BY <1>2, <2>1, <2>2, NotAStep DEF IInv
  <2>. QED
    BY <1>1, <1>5, <1>6, <2>5, <2>6 DEF IInv
<1>10. CASE last # NoAnswer /\ answer # last
  <2>. DEFINE e == Event("step", answer)
  <2>1. sent' = Append(sent, e) /\ Len(sent) # 0
    BY <1>1, <1>2, <1>10 DEF Open
  <2>2. e \in EventRecords /\ e.kind = "step" /\ e.answer = answer
    BY <1>2, EventType DEF Kinds
  <2>. HIDE DEF e
  <2>3. /\ Len(sent') = Len(sent) + 1 /\ \A i \in 1..Len(sent) : sent'[i] = sent[i]
        /\ sent'[Len(sent) + 1] = e /\ Flowing(sent', Len(sent'))
    BY <1>2, <2>1, <2>2, OneMore, FlowsOn DEF Open, Flow
  <2>4. Below(answer.view, answer.view)
    BY <1>7 DEF Below, Views
  <2>5. Open'
    BY <1>1, <1>2, <1>4, <1>8, <2>2, <2>3, <2>4, NoAnswerType DEF Open, NoAnswer
  <2>6. answer.view # last.view
    BY <1>2, <1>3, <1>10 DEF Answers
  <2>7. \A i \in 1..Len(sent) : sent[i].kind \in {"snapshot", "step"} =>
          Below(sent[i].answer.view, answer.view) /\ answer.view # sent[i].answer.view
    BY <1>3, <1>7, <1>8, <2>6, BelowAntisymmetric
  <2>8. StepsAreNews'
    <3>. SUFFICES ASSUME NEW i \in 1..Len(sent'), NEW j \in 1..Len(sent'), i < j,
                         sent'[j].kind = "step", sent'[i].kind \in {"snapshot", "step"}
                  PROVE  /\ sent'[j].answer.view # sent'[i].answer.view
                         /\ Below(sent'[i].answer.view, sent'[j].answer.view)
      BY DEF StepsAreNews, Below
    <3>1. i \in 1..Len(sent) /\ sent'[i] = sent[i]
      BY <1>2, <2>3
    <3>2. CASE j = Len(sent) + 1
      BY <2>2, <2>3, <2>7, <3>1, <3>2
    <3>3. CASE j \in 1..Len(sent)
      BY <2>3, <3>1, <3>3 DEF IInv, StepsAreNews, Below
    <3>. QED
      BY <1>2, <2>3, <3>2, <3>3
  <2>. QED
    BY <1>1, <1>5, <1>6, <2>5, <2>8 DEF IInv
<1>11. CASE last # NoAnswer /\ answer = last
  <2>1. CASE sent' = sent
    BY <1>1, <1>5, <1>6, <1>11, <2>1, NothingSent DEF IInv
  <2>2. CASE sent' = Append(sent, Event("keepalive", NoAnswer))
    <3>. DEFINE e == Event("keepalive", NoAnswer)
    <3>1. e \in EventRecords /\ e.kind = "keepalive"
      BY EventType, NoAnswerType DEF Kinds
    <3>2. sent' = Append(sent, e) /\ Len(sent) # 0
      BY <1>2, <1>11, <2>2 DEF Open
    <3>. HIDE DEF e
    <3>3. /\ Len(sent') = Len(sent) + 1 /\ \A i \in 1..Len(sent) : sent'[i] = sent[i]
          /\ sent'[Len(sent) + 1] = e /\ Flowing(sent', Len(sent'))
      BY <1>2, <3>1, <3>2, OneMore, FlowsOn DEF Open, Flow
    <3>4. Open'
      BY <1>1, <1>2, <1>11, <3>1, <3>3 DEF Open, NoAnswer
    <3>5. StepsAreNews'
      BY <1>2, <3>1, <3>2, NotAStep DEF IInv
    <3>. QED
      BY <1>1, <1>5, <1>6, <3>4, <3>5 DEF IInv
  <2>. QED
    BY <1>1, <1>11, <2>1, <2>2
<1>. QED
  BY <1>4, <1>9, <1>10, <1>11

-----------------------------------------------------------------------------
(* The theorems. *)

LEMMA NextKeepsInv == IInv /\ [Next]_vars => IInv'
BY ConnectKeepsInv, DescribeKeepsInv, QueryKeepsInv, ResultKeepsInv, CallFailsKeepsInv,
   SendEndKeepsInv, SendProgressKeepsInv, WakeKeepsInv, HangUpKeepsInv, RunMovesKeepsInv,
   RestKeepsInv
   DEF Next, Generator

(* What the generator knows at each await holds whatever the run does there.  *)
THEOREM Inductive == Spec => []IInv
BY InitInv, NextKeepsInv, PTL DEF Spec

(* The generator is at one of its awaits, and its clock within its bound.     *)
THEOREM TypeCorrect == Spec => []TypeOK
<1>1. IInv => TypeOK
  BY DEF IInv
<1>. QED
  BY <1>1, Inductive, PTL

(* stream_run and _resolve_status: the end a client is told is the one the    *)
(* run came to, though describe and result are two calls and the run moves    *)
(* between them.                                                              *)
THEOREM ClientsAreToldTheEnd == Spec => []EndsAreTrue
<1>1. IInv => EndsAreTrue
  <2>. SUFFICES ASSUME IInv, NEW i \in 1..Len(sent), sent[i].kind \in Ends
                PROVE  sent[i].kind =
                         CASE status = "COMPLETED" /\ verdict = "completed" -> "completed"
                           [] status = "TIMED_OUT" -> "timed_out"
                           [] status = "RUNNING" -> "none"
                           [] OTHER -> "failed"
    BY DEF EndsAreTrue
  <2>1. Len(sent) \in Nat /\ status \in {"RUNNING"} \cup Run!Closed
    BY LenProperties DEF IInv, TypeOK, Run!TypeOK
  <2>2. at = "over" /\ Told
    BY DEF IInv, Open, Flowing, Ends, Flow
  <2>3. seen # "RUNNING" /\ i = Len(sent) - 1
    BY <2>1, <2>2 DEF Told, Flowing, Flow, Ends
  <2>4. Ended /\ sent[i].kind = EndOf
    BY <2>2, <2>3 DEF Told
  <2>. QED
    BY <2>1, <2>4 DEF Ended, EndOf, Run!Closed
<1>. QED
  BY <1>1, Inductive, PTL

(* stream_run's events: a snapshot opens the stream, "done" closes it, right  *)
(* after the run's end if there was one to tell.                              *)
THEOREM StreamsAreWellFormed == Spec => []WellFormed
<1>1. IInv => WellFormed
  <2>. SUFFICES ASSUME IInv PROVE WellFormed
    OBVIOUS
  <2>1. Len(sent) \in Nat
    BY LenProperties DEF IInv, TypeOK
  <2>2. CASE at # "over"
    <3>1. \A i \in 1..Len(sent) : sent[i].kind \in Flow /\ (sent[i].kind = "snapshot" <=> i = 1)
      BY <2>2 DEF IInv, Open, Flowing
    <3>. QED
      BY <2>1, <2>2, <3>1 DEF WellFormed, Ends, Flow
  <2>3. CASE at = "over" /\ seen = "RUNNING"
    <3>1. /\ Len(sent) >= 2 /\ sent[Len(sent)].kind = "done"
          /\ \A i \in 1..Len(sent) - 1 :
               sent[i].kind \in Flow /\ (sent[i].kind = "snapshot" <=> i = 1)
      BY <2>3 DEF IInv, Told, Flowing
    <3>. QED
      BY <2>1, <2>3, <3>1 DEF WellFormed, Ends, Flow
  <2>4. CASE at = "over" /\ seen # "RUNNING"
    <3>1. /\ Len(sent) >= 3 /\ sent[Len(sent)].kind = "done"
          /\ sent[Len(sent) - 1].kind \in Ends
          /\ \A i \in 1..Len(sent) - 2 :
               sent[i].kind \in Flow /\ (sent[i].kind = "snapshot" <=> i = 1)
      BY <2>4 DEF IInv, Told, Flowing, EndOf, Ends
    <3>. QED
      BY <2>1, <2>4, <3>1 DEF WellFormed, Ends, Flow
  <2>. QED
    BY <2>2, <2>3, <2>4
<1>. QED
  BY <1>1, Inductive, PTL

(* The comparison with the last answer: a step differs from all that was sent *)
(* before it and takes nothing back, because views of a run only grow.        *)
THEOREM StepsOnlyGoOn == Spec => []StepsAreNews
<1>1. IInv => StepsAreNews
  BY DEF IInv
<1>. QED
  BY <1>1, Inductive, PTL

=============================================================================
