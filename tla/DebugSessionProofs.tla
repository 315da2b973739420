-------------------------- MODULE DebugSessionProofs ---------------------------
(* What a summary of Debug Mode counts can be read, for any number of      *)
(* callers and sessions, and however often writes fail, the process is     *)
(* killed or the machine loses power.                                      *)
EXTENDS DebugSession, SequenceTheorems, FiniteSetTheorems, WellFoundedInduction, TLAPS

StepName == {"open", "append", "sync", "truncate", "write", "flush", "panic", "finish", "close"}

Step == [do : StepName, arg : Event \cup {"none"}]

(* What an operation may have left to do: Start opens a session and does   *)
(* nothing else before; a log is synced where a line has just been         *)
(* appended; a session is closed last, when its summary has been written   *)
(* with its last status.                                                   *)
Closing(steps) == steps # <<>> /\ steps[Len(steps)].do = "close"

Orderly(steps) ==
    /\ steps \in Seq(Step)
    /\ \A i \in 1..Len(steps) :
         /\ steps[i].do = "append" => steps[i].arg \in Event
         /\ steps[i].do = "finish" => steps[i].arg \in Ending
         /\ steps[i].do = "open" => Len(steps) = 1
         /\ steps[i].do = "close" => i = Len(steps)
    /\ \A i \in 2..Len(steps) : steps[i].do = "sync" => steps[i - 1].do = "append"
    /\ Closing(steps) =>
         LET n == Len(steps)
         IN  /\ n >= 2 => steps[n - 1].do = "flush"
             /\ n >= 3 => steps[n - 2].do = "write"
             /\ n >= 4 => steps[n - 3].do = "truncate"
             /\ n >= 5 => steps[n - 4].do = "finish"

(* The start of the session is still to be told. *)
Fresh(steps) == \E i \in 1..Len(steps) : steps[i].do = "append" /\ steps[i].arg = "started"

(* What an operation has left to tell: the start, as the first line; an    *)
(* event; or the end, and then the status it finishes with is what it told.*)
Telling(steps) ==
    LET n == Len(steps) IN
    /\ \A i \in 1..n :
         /\ steps[i].do = "append" =>
              \/ steps[i].arg = "started" /\ ~ Closing(steps) /\ n = i + 4
              \/ steps[i].arg \in {"event", "panic"} /\ ~ Closing(steps) /\ ~ Fresh(steps)
              \/ /\ steps[i].arg \in Ending /\ Closing(steps) /\ n = i + 9
                 /\ steps[i + 5].arg = steps[i].arg
         /\ steps[i].do = "append" => i + 1 \in 1..n /\ steps[i + 1].do = "sync"
         /\ steps[i].do = "finish" => Closing(steps) /\ n = i + 4
    /\ Closing(steps) =>
         /\ n <= 10
         /\ n >= 9 => steps[n - 8].do = "sync"
         /\ n >= 10 => steps[n - 9].do = "append"

(* Only a new session is opened; everything else is done to the active one. *)
TodoInv ==
    /\ Orderly(todo)
    /\ todo # <<>> => IF At("open") THEN active = 0 /\ started < MaxSessions ELSE active # 0

-----------------------------------------------------------------------------
(* Where the steps of two sequences are in the one they make together. *)
LEMMA Joined ==
    ASSUME NEW s \in Seq(Step), NEW t \in Seq(Step)
    PROVE  /\ s \o t \in Seq(Step) /\ Len(s \o t) = Len(s) + Len(t)
           /\ \A i \in 1..Len(s) : (s \o t)[i] = s[i]
           /\ \A i \in 1..Len(t) : (s \o t)[Len(s) + i] = t[i]
<1>1. /\ s \o t \in Seq(Step) /\ Len(s \o t) = Len(s) + Len(t)
      /\ \A i \in 1..Len(s) + Len(t) :
           (s \o t)[i] = IF i <= Len(s) THEN s[i] ELSE t[i - Len(s)]
  BY ConcatProperties
<1>2. Len(s) \in Nat /\ Len(t) \in Nat
  OBVIOUS
<1>3. ASSUME NEW i \in 1..Len(t) PROVE (s \o t)[Len(s) + i] = t[i]
  <2>1. Len(s) + i \in 1..Len(s) + Len(t) /\ ~ (Len(s) + i <= Len(s)) /\ Len(s) + i - Len(s) = i
    BY <1>2
  <2> QED
    BY <1>1, <2>1
<1> QED
  BY <1>1, <1>2, <1>3

(* The summary is written in three steps. *)
LEMMA WriteSummaryIs ==
    /\ WriteSummary \in Seq(Step) /\ Len(WriteSummary) = 3
    /\ WriteSummary[1] = Do("truncate") /\ WriteSummary[2] = Do("write")
    /\ WriteSummary[3] = Do("flush")
BY DEF WriteSummary, Do, Step, StepName

(* An event is recorded in five. *)
LEMMA RecordIs ==
    ASSUME NEW e \in Event
    PROVE  /\ Record(e) \in Seq(Step) /\ Len(Record(e)) = 5
           /\ Record(e)[1] = [do |-> "append", arg |-> e] /\ Record(e)[2] = Do("sync")
           /\ Record(e)[3] = Do("truncate") /\ Record(e)[4] = Do("write")
           /\ Record(e)[5] = Do("flush")
<1> DEFINE head == <<[do |-> "append", arg |-> e], Do("sync")>>
<1>1. head \in Seq(Step) /\ Len(head) = 2
  BY DEF Do, Step, StepName
<1>2. Record(e) = head \o WriteSummary
  BY DEF Record
<1>3. head[1] = [do |-> "append", arg |-> e] /\ head[2] = Do("sync")
  OBVIOUS
<1> HIDE DEF head
<1>4. WriteSummary \in Seq(Step)
  BY WriteSummaryIs
<1>5. /\ head \o WriteSummary \in Seq(Step)
      /\ Len(head \o WriteSummary) = Len(head) + Len(WriteSummary)
      /\ \A i \in 1..Len(head) : (head \o WriteSummary)[i] = head[i]
      /\ \A i \in 1..Len(WriteSummary) :
           (head \o WriteSummary)[Len(head) + i] = WriteSummary[i]
  BY <1>1, <1>4, Joined
<1> DEFINE r == head \o WriteSummary
<1> HIDE DEF r
<1>6. /\ r \in Seq(Step) /\ Len(r) = 5
      /\ \A i \in 1..2 : r[i] = head[i]
      /\ \A i \in 1..3 : r[2 + i] = WriteSummary[i]
  BY <1>1, <1>5, WriteSummaryIs DEF r
<1>7. r[1] = head[1] /\ r[2] = head[2] /\ r[3] = WriteSummary[1] /\ r[4] = WriteSummary[2]
      /\ r[5] = WriteSummary[3]
  BY <1>6
<1> QED
  BY <1>2, <1>3, <1>6, <1>7, WriteSummaryIs DEF r

(* The first steps of a session. *)
LEMMA OpeningIs ==
    LET steps == WriteSummary \o Record("started")
    IN  /\ steps \in Seq(Step) /\ Len(steps) = 8
        /\ \A i \in 1..3 : steps[i] = WriteSummary[i]
        /\ \A i \in 1..5 : steps[3 + i] = Record("started")[i]
<1>1. "started" \in Event
  BY DEF Event
<1> DEFINE w == WriteSummary
           r == Record("started")
<1>2. w \in Seq(Step) /\ Len(w) = 3 /\ r \in Seq(Step) /\ Len(r) = 5
  BY <1>1, RecordIs, WriteSummaryIs
<1> HIDE DEF w, r
<1>3. /\ w \o r \in Seq(Step) /\ Len(w \o r) = Len(w) + Len(r)
      /\ \A i \in 1..Len(w) : (w \o r)[i] = w[i]
      /\ \A i \in 1..Len(r) : (w \o r)[Len(w) + i] = r[i]
  BY <1>2, Joined
<1> DEFINE wr == w \o r
<1> HIDE DEF wr
<1>4. wr \in Seq(Step) /\ Len(wr) = 8
  BY <1>2, <1>3 DEF wr
<1>5. \A i \in 1..3 : wr[i] = w[i]
  BY <1>2, <1>3 DEF wr
<1>6. \A i \in 1..5 : wr[3 + i] = r[i]
  BY <1>2, <1>3 DEF wr
<1> QED
  BY <1>4, <1>5, <1>6 DEF wr, w, r

(* The last steps of a session. *)
LEMMA FinishIs ==
    ASSUME NEW status \in Ending
    PROVE  LET steps == Finish(status)
           IN  /\ steps \in Seq(Step) /\ Len(steps) = 10
               /\ \A i \in 1..5 : steps[i] = Record(status)[i]
               /\ steps[6] = [do |-> "finish", arg |-> status]
               /\ \A i \in 1..3 : steps[6 + i] = WriteSummary[i]
               /\ steps[10] = Do("close")
<1> DEFINE a == Record(status)
           b == <<[do |-> "finish", arg |-> status]>>
           c == WriteSummary
           d == <<Do("close")>>
<1>1. status \in Event
  BY DEF Event, Ending
<1>2. a \in Seq(Step) /\ Len(a) = 5
  BY <1>1, RecordIs
<1>3. b \in Seq(Step) /\ Len(b) = 1 /\ b[1] = [do |-> "finish", arg |-> status]
  BY <1>1 DEF Step, StepName
<1>4. c \in Seq(Step) /\ Len(c) = 3
  BY WriteSummaryIs
<1>5. d \in Seq(Step) /\ Len(d) = 1 /\ d[1] = Do("close")
  BY DEF Step, StepName, Do
<1>6. Finish(status) = ((a \o b) \o c) \o d
  BY DEF Finish
<1> HIDE DEF a, b, c, d
<1>7. /\ a \o b \in Seq(Step) /\ Len(a \o b) = Len(a) + Len(b)
      /\ \A i \in 1..Len(a) : (a \o b)[i] = a[i]
      /\ \A i \in 1..Len(b) : (a \o b)[Len(a) + i] = b[i]
  BY <1>2, <1>3, Joined
<1> DEFINE ab == a \o b
<1> HIDE DEF ab
<1>8. /\ ab \in Seq(Step) /\ Len(ab) = 6
      /\ \A i \in 1..5 : ab[i] = a[i]
      /\ ab[6] = b[1]
  BY <1>2, <1>3, <1>7 DEF ab
<1>9. /\ ab \o c \in Seq(Step) /\ Len(ab \o c) = Len(ab) + Len(c)
      /\ \A i \in 1..Len(ab) : (ab \o c)[i] = ab[i]
      /\ \A i \in 1..Len(c) : (ab \o c)[Len(ab) + i] = c[i]
  BY <1>4, <1>8, Joined
<1> DEFINE abc == ab \o c
<1> HIDE DEF abc
<1>10. /\ abc \in Seq(Step) /\ Len(abc) = 9
       /\ \A i \in 1..6 : abc[i] = ab[i]
       /\ \A i \in 1..3 : abc[6 + i] = c[i]
  BY <1>4, <1>8, <1>9 DEF abc
<1>11. /\ abc \o d \in Seq(Step) /\ Len(abc \o d) = Len(abc) + Len(d)
       /\ \A i \in 1..Len(abc) : (abc \o d)[i] = abc[i]
       /\ \A i \in 1..Len(d) : (abc \o d)[Len(abc) + i] = d[i]
  BY <1>5, <1>10, Joined
<1> DEFINE f == abc \o d
<1> HIDE DEF f
<1>12. /\ f \in Seq(Step) /\ Len(f) = 10
       /\ \A i \in 1..9 : f[i] = abc[i]
       /\ f[10] = d[1]
  BY <1>5, <1>10, <1>11 DEF f
<1>13. /\ \A i \in 1..5 : f[i] = a[i]
       /\ f[6] = b[1]
       /\ \A i \in 1..3 : f[6 + i] = c[i]
  BY <1>8, <1>10, <1>12
<1>14. Finish(status) = f
  BY <1>6 DEF f, abc, ab
<1> QED
  BY <1>3, <1>5, <1>12, <1>13, <1>14 DEF a, c

(* The steps of every operation are orderly, and begin with a line or with *)
(* the opening of a session.                                               *)
LEMMA StepsOrderly ==
    ASSUME NEW op \in {"start", "stop", "interrupt", "record", "panic"}
    PROVE  /\ Orderly(Steps(op)) /\ Telling(Steps(op)) /\ ~ Fresh(Steps(op))
           /\ Closing(Steps(op)) => Len(Steps(op)) = 10
           /\ Steps(op) # <<>> =>
                \/ Head(Steps(op)).do = "open" /\ active = 0 /\ started < MaxSessions
                \/ Head(Steps(op)).do = "append" /\ active # 0
<1>1. Orderly(<<>>) /\ Telling(<<>>) /\ ~ Fresh(<<>>)
  BY DEF Orderly, Telling, Fresh, Closing
<1>2. ASSUME op = "start" /\ active = 0 /\ started < MaxSessions
      PROVE  /\ Orderly(Steps(op)) /\ ~ Closing(Steps(op))
             /\ Telling(Steps(op)) /\ ~ Fresh(Steps(op))
             /\ Head(Steps(op)).do = "open"
  <2> DEFINE t == <<Do("open")>>
  <2>1. t \in Seq(Step) /\ Len(t) = 1 /\ t[1].do = "open" /\ Head(t) = t[1]
    BY DEF Do, Step, StepName
  <2>2. Steps(op) = t
    BY <1>2 DEF Steps
  <2> HIDE DEF t
  <2>3. \A i \in 1..Len(t) : i = 1
    BY <2>1
  <2>4. Orderly(t) /\ ~ Closing(t)
    BY <2>1, <2>3 DEF Orderly, Closing
  <2>5. Telling(t) /\ ~ Fresh(t)
    BY <2>1, <2>3, <2>4 DEF Telling, Fresh
  <2> QED
    BY <2>1, <2>2, <2>4, <2>5
<1>3. ASSUME NEW e \in Event, e \in {"event", "panic"}
      PROVE  /\ Orderly(Record(e)) /\ ~ Closing(Record(e))
             /\ Telling(Record(e)) /\ ~ Fresh(Record(e))
             /\ Head(Record(e)).do = "append"
  <2> DEFINE t == Record(e)
  <2>1. /\ t \in Seq(Step) /\ Len(t) = 5
        /\ t[1].do = "append" /\ t[1].arg = e /\ t[2].do = "sync" /\ t[3].do = "truncate"
        /\ t[4].do = "write" /\ t[5].do = "flush"
    <3>1. /\ t \in Seq(Step) /\ Len(t) = 5
          /\ t[1] = [do |-> "append", arg |-> e] /\ t[2] = Do("sync") /\ t[3] = Do("truncate")
          /\ t[4] = Do("write") /\ t[5] = Do("flush")
      BY RecordIs
    <3> HIDE DEF t
    <3> QED
      BY <3>1 DEF Do
  <2> HIDE DEF t
  <2>2. Head(t) = t[1]
    BY <2>1
  <2>3. \A i \in 1..Len(t) : i = 1 \/ i = 2 \/ i = 3 \/ i = 4 \/ i = 5
    BY <2>1
  <2>4. t # <<>>
    BY <2>1
  <2>5. Orderly(t) /\ ~ Closing(t)
    BY <2>1, <2>3, <2>4 DEF Orderly, Closing
  <2>6. ~ Fresh(t)
    BY <1>3, <2>1, <2>3 DEF Fresh
  <2>7. Telling(t)
    BY <1>3, <2>1, <2>3, <2>5, <2>6 DEF Telling
  <2> QED
    BY <2>1, <2>2, <2>5, <2>6, <2>7 DEF t
<1>4. ASSUME NEW status \in Ending
      PROVE  /\ Orderly(Finish(status)) /\ Len(Finish(status)) = 10
             /\ Telling(Finish(status)) /\ ~ Fresh(Finish(status))
             /\ Head(Finish(status)).do = "append"
  <2> DEFINE t == Finish(status)
  <2>1. status \in Event
    BY DEF Event, Ending
  <2>2. /\ t \in Seq(Step) /\ Len(t) = 10
        /\ t[1] = Record(status)[1] /\ t[2] = Record(status)[2] /\ t[3] = Record(status)[3]
        /\ t[4] = Record(status)[4] /\ t[5] = Record(status)[5]
        /\ t[6].do = "finish" /\ t[6].arg = status
        /\ t[7] = WriteSummary[1] /\ t[8] = WriteSummary[2] /\ t[9] = WriteSummary[3]
        /\ t[10].do = "close"
    <3>1. \A i \in 1..5 : t[i] = Record(status)[i]
      BY FinishIs
    <3>2. \A i \in 1..3 : t[6 + i] = WriteSummary[i]
      BY FinishIs
    <3>3. t \in Seq(Step) /\ Len(t) = 10 /\ t[6] = [do |-> "finish", arg |-> status]
          /\ t[10] = Do("close")
      BY FinishIs
    <3> HIDE DEF t
    <3>4. 6 + 1 = 7 /\ 6 + 2 = 8 /\ 6 + 3 = 9
      OBVIOUS
    <3>5. t[6 + 1] = WriteSummary[1] /\ t[6 + 2] = WriteSummary[2] /\ t[6 + 3] = WriteSummary[3]
      BY <3>2
    <3> QED
      BY <3>1, <3>3, <3>4, <3>5 DEF Do
  <2>3. /\ t[1].do = "append" /\ t[1].arg = status /\ t[2].do = "sync" /\ t[3].do = "truncate"
        /\ t[4].do = "write" /\ t[5].do = "flush"
        /\ t[7].do = "truncate" /\ t[8].do = "write" /\ t[9].do = "flush"
    <3>1. /\ Record(status)[1] = [do |-> "append", arg |-> status]
          /\ Record(status)[2] = Do("sync") /\ Record(status)[3] = Do("truncate")
          /\ Record(status)[4] = Do("write") /\ Record(status)[5] = Do("flush")
      BY <2>1, RecordIs
    <3> HIDE DEF t
    <3> QED
      BY <2>2, <3>1, WriteSummaryIs DEF Do
  <2> HIDE DEF t
  <2>4. t # <<>>
    <3>1. Len(t) # 0 /\ Len(<<>>) = 0
      BY <2>2
    <3> QED
      BY <3>1, Zenon
  <2>9. Head(t) = t[1]
    BY <2>2, <2>4
  <2>5. \A i \in 1..Len(t) : \/ i = 1 \/ i = 2 \/ i = 3 \/ i = 4 \/ i = 5
                              \/ i = 6 \/ i = 7 \/ i = 8 \/ i = 9 \/ i = 10
    BY <2>2
  <2>6. \A i \in 1..Len(t) :
          /\ t[i].do = "append" => t[i].arg \in Event
          /\ t[i].do = "finish" => t[i].arg \in Ending
          /\ t[i].do = "open" => Len(t) = 1
          /\ t[i].do = "close" => i = Len(t)
    BY <2>1, <2>2, <2>3, <2>5
  <2>7. \A i \in 2..Len(t) : t[i].do = "sync" => t[i - 1].do = "append"
    BY <2>2, <2>3, <2>5
  <2>8. Orderly(t)
    BY <2>2, <2>3, <2>6, <2>7 DEF Orderly, Closing
  <2>10. Closing(t)
    BY <2>2, <2>4 DEF Closing
  <2>11. status # "started"
    BY DEF Ending
  <2>12. \A i \in 1..10 : t[i].do = "append" => i = 1
    BY <2>2, <2>3, <2>5
  <2>13. \A i \in 1..10 : t[i].do = "finish" => i = 6
    BY <2>2, <2>3, <2>5
  <2>14. Telling(t)
    <3>1. 1 + 5 = 6 /\ 1 + 9 = 10 /\ 6 + 4 = 10 /\ 1 + 1 = 2 /\ 10 - 8 = 2 /\ 10 - 9 = 1
      OBVIOUS
    <3>2. Len(t) = 10 /\ t[1].arg = status /\ t[6].arg = status /\ t[2].do = "sync"
          /\ t[1].do = "append" /\ 2 \in 1..10
      BY <2>2, <2>3
    <3> QED
      BY <2>10, <2>12, <2>13, <3>1, <3>2 DEF Telling
  <2>15. ~ Fresh(t)
    BY <2>2, <2>3, <2>11, <2>12 DEF Fresh
  <2> QED
    BY <2>2, <2>3, <2>8, <2>9, <2>14, <2>15 DEF t
<1>5. /\ Orderly(Append(Record("panic"), Do("panic")))
      /\ ~ Closing(Append(Record("panic"), Do("panic")))
      /\ Telling(Append(Record("panic"), Do("panic")))
      /\ ~ Fresh(Append(Record("panic"), Do("panic")))
      /\ Head(Append(Record("panic"), Do("panic"))).do = "append"
  <2> DEFINE t == Append(Record("panic"), Do("panic"))
             r == Record("panic")
  <2>1. /\ r \in Seq(Step) /\ Len(r) = 5
        /\ r[1].do = "append" /\ r[1].arg = "panic" /\ r[1].arg \in Event /\ r[2].do = "sync" /\ r[3].do = "truncate"
        /\ r[4].do = "write" /\ r[5].do = "flush"
    BY RecordIs DEF Do, Event
  <2>2. Do("panic") \in Step /\ Do("panic").do = "panic"
    BY DEF Do, Step, StepName
  <2> HIDE DEF r
  <2>3. /\ t \in Seq(Step) /\ Len(t) = Len(r) + 1
        /\ \A i \in 1..Len(r) : t[i] = r[i]
        /\ t[Len(r) + 1] = Do("panic")
    BY <2>1, <2>2, AppendProperties DEF r
  <2> HIDE DEF t
  <2>4. /\ t \in Seq(Step) /\ Len(t) = 6
        /\ t[1].do = "append" /\ t[1].arg = "panic" /\ t[1].arg \in Event /\ t[2].do = "sync" /\ t[3].do = "truncate"
        /\ t[4].do = "write" /\ t[5].do = "flush" /\ t[6].do = "panic"
    BY <2>1, <2>2, <2>3
  <2>8. t # <<>>
    <3>1. Len(t) # 0 /\ Len(<<>>) = 0
      BY <2>4
    <3> QED
      BY <3>1, Zenon
  <2>5. Head(t) = t[1]
    BY <2>4, <2>8
  <2>6. \A i \in 1..Len(t) : i = 1 \/ i = 2 \/ i = 3 \/ i = 4 \/ i = 5 \/ i = 6
    BY <2>4
  <2>7. Orderly(t) /\ ~ Closing(t)
    BY <2>4, <2>6, <2>8 DEF Orderly, Closing
  <2>9. ~ Fresh(t)
    BY <2>4, <2>6 DEF Fresh
  <2>10. Telling(t)
    BY <2>4, <2>6, <2>7, <2>9 DEF Telling
  <2> QED
    BY <2>4, <2>5, <2>7, <2>9, <2>10 DEF t
<1>6. \/ Steps(op) = <<>>
      \/ op = "start" /\ active = 0 /\ started < MaxSessions
      \/ active # 0 /\ Steps(op) = Finish("completed")
      \/ active # 0 /\ Steps(op) = Finish("interrupted")
      \/ active # 0 /\ Steps(op) = Record("event")
      \/ active # 0 /\ Steps(op) = Append(Record("panic"), Do("panic"))
  BY DEF Steps
<1>7. "completed" \in Ending /\ "interrupted" \in Ending /\ "event" \in Event
  BY DEF Ending, Event
<1>8. ~ Closing(<<>>) /\ "event" \in {"event", "panic"}
  BY DEF Closing
<1> QED
  BY <1>1, <1>2, <1>3, <1>4, <1>5, <1>6, <1>7, <1>8

(* What is left of orderly steps is orderly. *)
LEMMA RestOrderly ==
    ASSUME NEW steps, Orderly(steps), NEW k \in Nat, k >= 1
    PROVE  LET rest == SubSeq(steps, k + 1, Len(steps))
           IN  /\ Orderly(rest)
               /\ Closing(rest) => Closing(steps)
               /\ Len(rest) = IF k < Len(steps) THEN Len(steps) - k ELSE 0
               /\ \A i \in 1..Len(rest) : rest[i] = steps[i + k] /\ rest[i].do # "open"
<1> DEFINE n == Len(steps)
           rest == SubSeq(steps, k + 1, n)
           m == Len(rest)
<1>1. steps \in Seq(Step) /\ n \in Nat
  BY DEF Orderly
<1>2. \A i \in (k + 1)..n : steps[i] \in Step
  BY <1>1, ElementOfSeq
<1>3. /\ rest \in Seq(Step)
      /\ Len(rest) = IF k + 1 <= n THEN n - (k + 1) + 1 ELSE 0
      /\ \A i \in 1..n - (k + 1) + 1 : rest[i] = steps[(k + 1) + i - 1]
  <2>1. k + 1 \in Int /\ n \in Int
    BY <1>1
  <2> QED
    BY <1>2, <2>1, SubSeqProperties
<1> HIDE DEF rest
<1>4. m \in Nat /\ m = IF k < n THEN n - k ELSE 0
  BY <1>1, <1>3
<1>5. \A i \in 1..m : i + k \in 1..n /\ rest[i] = steps[i + k]
  BY <1>1, <1>3, <1>4
<1>6. m >= 1 => m + k = n /\ n >= 2
  BY <1>1, <1>4
<1>7. \A i \in 1..m : /\ rest[i].do = "append" => rest[i].arg \in Event
                      /\ rest[i].do = "finish" => rest[i].arg \in Ending
                      /\ rest[i].do # "open"
                      /\ rest[i].do = "close" => i = m
  BY <1>1, <1>4, <1>5, <1>6 DEF Orderly
<1>8. \A i \in 2..m : rest[i].do = "sync" => rest[i - 1].do = "append"
  <2> SUFFICES ASSUME NEW i \in 2..m, rest[i].do = "sync" PROVE rest[i - 1].do = "append"
    OBVIOUS
  <2>1. i \in 1..m /\ i - 1 \in 1..m /\ i + k \in 2..n /\ (i - 1) + k = (i + k) - 1
    BY <1>4, <1>5
  <2>2. rest[i] = steps[i + k] /\ rest[i - 1] = steps[(i + k) - 1]
    BY <1>5, <2>1
  <2> QED
    BY <2>1, <2>2 DEF Orderly
<1>9. Closing(rest) => Closing(steps) /\ m >= 1
  <2> SUFFICES ASSUME Closing(rest) PROVE Closing(steps) /\ m >= 1
    OBVIOUS
  <2>1. m >= 1
    BY <1>3, <1>4 DEF Closing
  <2>2. rest[m] = steps[n] /\ steps # <<>>
    BY <1>1, <1>4, <1>5, <1>6, <2>1
  <2> QED
    BY <2>1, <2>2 DEF Closing
<1>10. Closing(rest) =>
         /\ m >= 2 => rest[m - 1].do = "flush"
         /\ m >= 3 => rest[m - 2].do = "write"
         /\ m >= 4 => rest[m - 3].do = "truncate"
         /\ m >= 5 => rest[m - 4].do = "finish"
  <2> SUFFICES ASSUME Closing(rest), NEW j \in 1..4, m >= j + 1
               PROVE  rest[m - j] = steps[n - j] /\ n >= j + 1
    BY <1>9 DEF Orderly
  <2>1. m - j \in 1..m /\ (m - j) + k = n - j
    BY <1>4, <1>6, <1>9
  <2>2. rest[m - j] = steps[(m - j) + k]
    BY <1>5, <2>1
  <2>3. n >= j + 1
    BY <1>4, <1>6, <1>9
  <2> QED
    BY <2>1, <2>2, <2>3
<1>11. Orderly(rest)
  BY <1>3, <1>7, <1>8, <1>10 DEF Orderly
<1> QED
  BY <1>4, <1>5, <1>7, <1>9, <1>11 DEF rest

(* What is left of a telling tells the rest. *)
LEMMA RestTelling ==
    ASSUME NEW steps, Orderly(steps), Telling(steps), NEW k \in Nat, k >= 1
    PROVE  LET rest == SubSeq(steps, k + 1, Len(steps))
           IN  /\ Telling(rest)
               /\ Closing(rest) <=> Closing(steps) /\ k < Len(steps)
<1> DEFINE n == Len(steps)
           rest == SubSeq(steps, k + 1, n)
           m == Len(rest)
<1>1. /\ Orderly(rest)
      /\ Closing(rest) => Closing(steps)
      /\ m = IF k < n THEN n - k ELSE 0
      /\ \A i \in 1..m : rest[i] = steps[i + k]
  BY RestOrderly
<1>2. n \in Nat
  BY DEF Orderly
<1> HIDE DEF rest
<1>3. m \in Nat /\ (m >= 1 => m + k = n /\ k < n) /\ (k < n => m >= 1)
  BY <1>1, <1>2
<1>4. rest # <<>> <=> m >= 1
  BY <1>1, <1>3 DEF Orderly
<1>5. steps # <<>> <=> n >= 1
  BY <1>2 DEF Orderly
<1>6. Closing(rest) <=> Closing(steps) /\ k < n
  <2>1. m >= 1 => rest[m] = steps[n]
    BY <1>1, <1>3
  <2> QED
    BY <1>1, <1>3, <1>4, <2>1 DEF Closing
<1>7. ASSUME NEW i \in 1..m
      PROVE  /\ i + k \in 1..n /\ rest[i] = steps[i + k] /\ (Closing(rest) <=> Closing(steps))
             /\ (n = (i + k) + 4 <=> m = i + 4) /\ (n = (i + k) + 9 <=> m = i + 9)
             /\ m = i + 9 => rest[i + 5] = steps[(i + k) + 5]
             /\ (i + k) + 1 \in 1..n => i + 1 \in 1..m /\ rest[i + 1] = steps[(i + k) + 1]
  <2> HIDE DEF m, n
  <2>1. m >= 1 /\ m + k = n
    BY <1>3
  <2>2. m = i + 9 => i + 5 \in 1..m /\ (i + 5) + k = (i + k) + 5
    <3>1. i \in Nat /\ i >= 1 /\ m \in Nat
      BY <1>3
    <3>2. ASSUME m = i + 9 PROVE i + 5 \in 1..m /\ (i + 5) + k = (i + k) + 5
      BY <3>1, <3>2
    <3> QED
      BY <3>2
  <2>3. (Closing(rest) <=> Closing(steps))
    BY <1>3, <1>6, <2>1
  <2>4. /\ i + k \in 1..n
        /\ (n = (i + k) + 4 <=> m = i + 4) /\ (n = (i + k) + 9 <=> m = i + 9)
    <3>1. i \in 1..m /\ m \in Nat /\ n \in Nat
      BY <1>2, <1>3
    <3> QED
      BY <2>1, <3>1
  <2>5. rest[i] = steps[i + k]
    BY <1>1
  <2>6. m = i + 9 => rest[i + 5] = steps[(i + k) + 5]
    BY <1>1, <2>2
  <2>7. (i + k) + 1 \in 1..n => i + 1 \in 1..m /\ (i + 1) + k = (i + k) + 1
    BY <1>2, <1>3, <2>1
  <2>8. (i + k) + 1 \in 1..n => i + 1 \in 1..m /\ rest[i + 1] = steps[(i + k) + 1]
    BY <1>1, <2>7
  <2> QED
    BY <2>3, <2>4, <2>5, <2>6, <2>8
<1>7a. Fresh(rest) => Fresh(steps)
  BY <1>7 DEF Fresh
<1>8. ASSUME NEW i \in 1..m
      PROVE  /\ rest[i].do = "append" =>
                   \/ rest[i].arg = "started" /\ ~ Closing(rest) /\ m = i + 4
                   \/ rest[i].arg \in {"event", "panic"} /\ ~ Closing(rest) /\ ~ Fresh(rest)
                   \/ /\ rest[i].arg \in Ending /\ Closing(rest) /\ m = i + 9
                      /\ rest[i + 5].arg = rest[i].arg
             /\ rest[i].do = "append" => i + 1 \in 1..m /\ rest[i + 1].do = "sync"
             /\ rest[i].do = "finish" => Closing(rest) /\ m = i + 4
  <2> DEFINE j == i + k
  <2>1. j \in 1..n /\ rest[i] = steps[j] /\ (Closing(rest) <=> Closing(steps))
        /\ (n = j + 4 <=> m = i + 4) /\ (n = j + 9 <=> m = i + 9)
        /\ (m = i + 9 => rest[i + 5] = steps[j + 5])
        /\ (j + 1 \in 1..n => i + 1 \in 1..m /\ rest[i + 1] = steps[j + 1])
    BY <1>7
  <2> HIDE DEF j
  <2>2. /\ steps[j].do = "append" =>
             \/ steps[j].arg = "started" /\ ~ Closing(steps) /\ n = j + 4
             \/ steps[j].arg \in {"event", "panic"} /\ ~ Closing(steps) /\ ~ Fresh(steps)
             \/ /\ steps[j].arg \in Ending /\ Closing(steps) /\ n = j + 9
                /\ steps[j + 5].arg = steps[j].arg
        /\ steps[j].do = "append" => j + 1 \in 1..n /\ steps[j + 1].do = "sync"
        /\ steps[j].do = "finish" => Closing(steps) /\ n = j + 4
    BY <2>1 DEF Telling
  <2> QED
    BY <1>7a, <2>1, <2>2
<1>9. Closing(rest) =>
        /\ m <= 10
        /\ m >= 9 => rest[m - 8].do = "sync"
        /\ m >= 10 => rest[m - 9].do = "append"
  <2> SUFFICES ASSUME Closing(rest)
               PROVE  /\ m <= 10
                      /\ m >= 9 => rest[m - 8].do = "sync"
                      /\ m >= 10 => rest[m - 9].do = "append"
    OBVIOUS
  <2>1. Closing(steps) /\ m + k = n /\ n <= 10 /\ (n >= 9 => steps[n - 8].do = "sync")
    BY <1>3, <1>6 DEF Telling
  <2>2. m <= 9
    BY <1>2, <1>3, <2>1
  <2>3. m >= 9 => m - 8 \in 1..m /\ (m - 8) + k = n - 8 /\ n >= 9
    BY <1>2, <1>3, <2>1
  <2>4. m >= 9 => rest[m - 8] = steps[n - 8]
    BY <1>1, <2>3
  <2> QED
    BY <1>3, <2>1, <2>2, <2>3, <2>4
<1>10. Telling(rest)
  BY <1>8, <1>9 DEF Telling
<1> QED
  BY <1>6, <1>10 DEF rest

-----------------------------------------------------------------------------
(* Type correctness.                                                       *)

TextType ==
    {Absent, Partial} \cup
    [kind : {"written"}, status : {"active"} \cup Ending, events : Nat, warned : BOOLEAN]

DiskType ==
    /\ log \in [Sessions -> Seq(Line)] /\ synced \in [Sessions -> Nat]
    /\ summary \in [Sessions -> TextType] /\ surviving \in [Sessions -> SUBSET TextType]

TypeInv == TypeOK /\ DiskType /\ TodoInv

(* The holder of the mutex takes its next step. *)
LEMMA NextStep ==
    ASSUME TodoInv, todo # <<>>
    PROVE  /\ Orderly(Tail(todo))
           /\ Closing(Tail(todo)) => Closing(todo)
           /\ Len(todo) \in Nat /\ Len(todo) >= 1 /\ Len(Tail(todo)) = Len(todo) - 1
           /\ \A i \in 1..Len(Tail(todo)) : Tail(todo)[i] = todo[i + 1] /\ Tail(todo)[i].do # "open"
           /\ Tail(todo) # <<>> =>
                /\ Head(Tail(todo)).do # "open"
                /\ Head(Tail(todo)).do = "sync" => At("append")
                /\ ~ At("open") /\ ~ At("close")
<1> DEFINE n == Len(todo)
           t == Tail(todo)
<1>1. Orderly(todo) /\ todo \in Seq(Step) /\ n \in Nat /\ n >= 1
  <2>1. Orderly(todo) /\ todo \in Seq(Step)
    BY DEF TodoInv, Orderly
  <2> QED
    BY <2>1
<1>2. t = SubSeq(todo, 2, n)
  BY <1>1, TailIsSubSeq
<1>3. /\ Orderly(SubSeq(todo, 1 + 1, n))
      /\ Closing(SubSeq(todo, 1 + 1, n)) => Closing(todo)
      /\ Len(SubSeq(todo, 1 + 1, n)) = IF 1 < n THEN n - 1 ELSE 0
      /\ \A i \in 1..Len(SubSeq(todo, 1 + 1, n)) :
           /\ SubSeq(todo, 1 + 1, n)[i] = todo[i + 1]
           /\ SubSeq(todo, 1 + 1, n)[i].do # "open"
  BY <1>1, RestOrderly
<1>4. 1 + 1 = 2
  OBVIOUS
<1> HIDE DEF t
<1>5. /\ Orderly(t) /\ (Closing(t) => Closing(todo))
      /\ Len(t) = IF 1 < n THEN n - 1 ELSE 0
      /\ \A i \in 1..Len(t) : t[i] = todo[i + 1] /\ t[i].do # "open"
  BY <1>2, <1>3, <1>4
<1>6. Len(t) = n - 1
  BY <1>1, <1>5
<1>7. ASSUME t # <<>>
      PROVE  /\ Head(t).do # "open"
             /\ Head(t).do = "sync" => At("append")
             /\ ~ At("open") /\ ~ At("close")
  <2>1. t \in Seq(Step)
    BY <1>5 DEF Orderly
  <2>2. Len(t) >= 1 /\ Head(t) = t[1]
    BY <1>7, <2>1
  <2>3. 1 \in 1..Len(t) /\ n >= 2 /\ 2 \in 2..n /\ 1 \in 1..n /\ 1 + 1 = 2 /\ 2 - 1 = 1 /\ n # 1
    BY <1>1, <1>6, <2>2
  <2>4. Head(t) = todo[2] /\ Head(t).do # "open"
    BY <1>5, <2>2, <2>3
  <2>5. todo[2].do = "sync" => todo[1].do = "append"
    BY <1>1, <2>3 DEF Orderly
  <2>6. todo[1].do # "open" /\ todo[1].do # "close"
    BY <1>1, <2>3 DEF Orderly
  <2>7. Head(todo) = todo[1]
    BY <1>1
  <2> QED
    BY <2>4, <2>5, <2>6, <2>7 DEF At
<1> QED
  BY <1>1, <1>5, <1>6, <1>7 DEF t

(* A step fails: so do some of those after it. *)
LEMMA GivingUp ==
    ASSUME TodoInv, todo # <<>>, NEW step, step = Head(todo).do
    PROVE  LET rest == SubSeq(todo, GivenUp(step) + 1, Len(todo))
           IN  /\ Orderly(rest)
               /\ Closing(rest) => Closing(todo)
               /\ rest # <<>> => Head(rest).do # "open" /\ ~ At("open")
<1> DEFINE k == GivenUp(step)
           n == Len(todo)
           rest == SubSeq(todo, k + 1, n)
<1>1. k \in Nat /\ k >= 1
  BY DEF GivenUp
<1>2. Orderly(todo) /\ todo \in Seq(Step)
  BY DEF TodoInv, Orderly
<1>3. n \in Nat /\ n >= 1 /\ Head(todo) = todo[1]
  BY <1>2
<1> HIDE DEF k
<1>4. /\ Orderly(rest)
      /\ Closing(rest) => Closing(todo)
      /\ Len(rest) = IF k < n THEN n - k ELSE 0
      /\ \A i \in 1..Len(rest) : rest[i] = todo[i + k] /\ rest[i].do # "open"
  BY <1>1, <1>2, RestOrderly
<1> HIDE DEF rest
<1>5. ASSUME rest # <<>> PROVE Head(rest).do # "open" /\ ~ At("open")
  <2>1. rest \in Seq(Step)
    BY <1>4 DEF Orderly
  <2>2. Len(rest) >= 1 /\ Head(rest) = rest[1]
    BY <1>5, <2>1
  <2>3. n # 1 /\ 1 \in 1..Len(rest) /\ 1 \in 1..n
    <3>1. Len(rest) = IF k < n THEN n - k ELSE 0
      BY <1>4
    <3> HIDE DEF n
    <3> QED
      BY <1>1, <1>3, <2>2, <3>1
  <2>4. todo[1].do # "open"
    BY <1>2, <2>3 DEF Orderly
  <2> QED
    BY <1>3, <1>4, <2>2, <2>3, <2>4 DEF At
<1> QED
  BY <1>4, <1>5 DEF rest, k

(* The opening steps are orderly. *)
LEMMA OpeningOrderly ==
    LET steps == WriteSummary \o Record("started")
    IN  /\ Orderly(steps) /\ ~ Closing(steps) /\ steps # <<>> /\ Head(steps).do = "truncate"
        /\ Telling(steps) /\ Fresh(steps)
<1> DEFINE t == WriteSummary \o Record("started")
<1>1. "started" \in Event
  BY DEF Event
<1>2. /\ t \in Seq(Step) /\ Len(t) = 8
      /\ \A i \in 1..3 : t[i] = WriteSummary[i]
      /\ \A i \in 1..5 : t[3 + i] = Record("started")[i]
  BY OpeningIs
<1> HIDE DEF t
<1>3. /\ t[1] = WriteSummary[1] /\ t[2] = WriteSummary[2] /\ t[3] = WriteSummary[3]
      /\ t[4] = Record("started")[1] /\ t[5] = Record("started")[2]
      /\ t[6] = Record("started")[3] /\ t[7] = Record("started")[4]
      /\ t[8] = Record("started")[5]
  <2>1. /\ t[3 + 1] = Record("started")[1] /\ t[3 + 2] = Record("started")[2]
        /\ t[3 + 3] = Record("started")[3] /\ t[3 + 4] = Record("started")[4]
        /\ t[3 + 5] = Record("started")[5]
    BY <1>2
  <2>2. 3 + 1 = 4 /\ 3 + 2 = 5 /\ 3 + 3 = 6 /\ 3 + 4 = 7 /\ 3 + 5 = 8
    OBVIOUS
  <2>3. t[1] = WriteSummary[1] /\ t[2] = WriteSummary[2] /\ t[3] = WriteSummary[3]
    BY <1>2
  <2> QED
    BY <2>1, <2>2, <2>3
<1>4. /\ Record("started")[1] = [do |-> "append", arg |-> "started"]
      /\ Record("started")[2] = Do("sync") /\ Record("started")[3] = Do("truncate")
      /\ Record("started")[4] = Do("write") /\ Record("started")[5] = Do("flush")
  BY <1>1, RecordIs
<1>5. /\ t[1].do = "truncate" /\ t[2].do = "write" /\ t[3].do = "flush"
      /\ t[4].do = "append" /\ t[4].arg = "started" /\ t[5].do = "sync"
      /\ t[6].do = "truncate" /\ t[7].do = "write" /\ t[8].do = "flush"
  BY <1>3, <1>4, WriteSummaryIs DEF Do
<1>6. t # <<>>
  <2>1. Len(t) # 0 /\ Len(<<>>) = 0
    BY <1>2
  <2> QED
    BY <2>1, Zenon
<1>7. Head(t) = t[1]
  BY <1>2, <1>6
<1>8. \A i \in 1..Len(t) : \/ i = 1 \/ i = 2 \/ i = 3 \/ i = 4 \/ i = 5
                            \/ i = 6 \/ i = 7 \/ i = 8
  BY <1>2
<1>9. Orderly(t) /\ ~ Closing(t)
  BY <1>1, <1>2, <1>5, <1>6, <1>8 DEF Orderly, Closing
<1>10. Telling(t)
  BY <1>2, <1>5, <1>8, <1>9 DEF Telling
<1>11. Fresh(t)
  BY <1>2, <1>5 DEF Fresh
<1> QED
  BY <1>5, <1>6, <1>7, <1>9, <1>10, <1>11 DEF t

(* A line that is written stands after those before it, or spoils one that *)
(* had been cut short. *)
LEMMA LineWritten ==
    ASSUME NEW lines \in Seq(Line), NEW e \in Event
    PROVE  LET w == WithLine(lines, e)
           IN  /\ w \in Seq(Line) /\ Len(w) >= Len(lines)
               /\ \A i \in 1..Len(lines) : lines[i] \in Event => w[i] = lines[i]
               /\ lines \in Seq(Event) =>
                    w \in Seq(Event) /\ Len(w) = Len(lines) + 1 /\ w[Len(lines) + 1] = e
<1> DEFINE w == WithLine(lines, e)
           n == Len(lines)
<1>1. n \in Nat /\ e \in Line /\ "garbled" \in Line /\ "cut" \notin Event
  BY DEF Line, Event
<1>2. CASE IsCut(lines)
  <2>1. lines # <<>> /\ lines[n] = "cut" /\ n >= 1
    BY <1>2 DEF IsCut, Last
  <2> DEFINE f == SubSeq(lines, 1, n - 1)
  <2>2. \A i \in 1..(n - 1) : lines[i] \in Line
    BY <1>1, ElementOfSeq
  <2>3. /\ f \in Seq(Line) /\ Len(f) = (IF 1 <= n - 1 THEN n - 1 - 1 + 1 ELSE 0)
        /\ \A i \in 1..(n - 1) - 1 + 1 : f[i] = lines[1 + i - 1]
    <3>1. 1 \in Int /\ n - 1 \in Int
      BY <1>1
    <3> QED
      BY <2>2, <3>1, SubSeqProperties
  <2> HIDE DEF f
  <2>4. f \in Seq(Line) /\ Len(f) = n - 1 /\ \A i \in 1..n - 1 : f[i] = lines[i]
    <3>1. Len(f) = n - 1
      <4>1. n \in Nat /\ n >= 1
        BY <1>1, <2>1
      <4> HIDE DEF n
      <4>2. (IF 1 <= n - 1 THEN n - 1 - 1 + 1 ELSE 0) = n - 1
        BY <4>1
      <4> QED
        BY <2>3, <4>2
    <3>2. \A i \in 1..n - 1 : i \in 1..(n - 1) - 1 + 1 /\ 1 + i - 1 = i
      BY <1>1
    <3>3. \A i \in 1..n - 1 : f[i] = lines[i]
      BY <2>3, <3>2
    <3> QED
      BY <2>3, <3>1, <3>3
  <2>5. w = Append(f, "garbled")
    BY <1>2 DEF WithLine, Front, f
  <2>6. /\ Append(f, "garbled") \in Seq(Line) /\ Len(Append(f, "garbled")) = Len(f) + 1
        /\ \A i \in 1..Len(f) : Append(f, "garbled")[i] = f[i]
    BY <1>1, <2>4, AppendProperties
  <2> HIDE DEF w
  <2>7. w \in Seq(Line) /\ Len(w) = n /\ \A i \in 1..n - 1 : w[i] = lines[i]
    BY <1>1, <2>4, <2>5, <2>6
  <2>8. \A i \in 1..n : lines[i] \in Event => i \in 1..n - 1
    BY <1>1, <2>1
  <2>9. lines \notin Seq(Event)
    <3>1. n \in 1..n
      BY <1>1, <2>1
    <3> QED
      BY <1>1, <2>1, <3>1, ElementOfSeq
  <2>10. /\ w \in Seq(Line) /\ Len(w) >= n
         /\ \A i \in 1..n : lines[i] \in Event => w[i] = lines[i]
    BY <1>1, <2>7, <2>8
  <2> QED
    BY <2>9, <2>10 DEF w
<1>3. CASE ~ IsCut(lines)
  <2>1. w = Append(lines, e)
    BY <1>3 DEF WithLine
  <2>2. /\ Append(lines, e) \in Seq(Line) /\ Len(Append(lines, e)) = n + 1
        /\ \A i \in 1..n : Append(lines, e)[i] = lines[i]
        /\ Append(lines, e)[n + 1] = e
    BY <1>1, AppendProperties
  <2>3. lines \in Seq(Event) => Append(lines, e) \in Seq(Event)
    BY AppendProperties
  <2> HIDE DEF w
  <2>4. /\ w \in Seq(Line) /\ Len(w) = n + 1
        /\ \A i \in 1..n : w[i] = lines[i]
        /\ w[n + 1] = e
        /\ lines \in Seq(Event) => w \in Seq(Event)
    BY <2>1, <2>2, <2>3
  <2>5. Len(w) >= n
    BY <1>1, <2>4
  <2> QED
    BY <2>4, <2>5 DEF w
<1> QED
  BY <1>2, <1>3

(* A line that is cut short leaves those before it as they were. *)
LEMMA LineCut ==
    ASSUME NEW lines \in Seq(Line)
    PROVE  LET w == WithCut(lines)
           IN  /\ w \in Seq(Line) /\ Len(w) >= Len(lines)
               /\ \A i \in 1..Len(lines) : w[i] = lines[i]
<1>1. "cut" \in Line /\ Len(lines) \in Nat
  BY DEF Line
<1>2. CASE IsCut(lines)
  BY <1>1, <1>2 DEF WithCut
<1>3. CASE ~ IsCut(lines)
  <2> DEFINE w == Append(lines, "cut")
  <2>1. /\ w \in Seq(Line) /\ Len(w) = Len(lines) + 1
        /\ \A i \in 1..Len(lines) : w[i] = lines[i]
    BY <1>1, AppendProperties
  <2> HIDE DEF w
  <2>2. Len(w) >= Len(lines)
    BY <1>1, <2>1
  <2> QED
    BY <1>3, <2>1, <2>2 DEF WithCut, w
<1> QED
  BY <1>2, <1>3

(* The active session is one of those that were started. *)
LEMMA ActiveIsStarted ==
    ASSUME TypeOK
    PROVE  /\ active # 0 => active \in 1..started /\ active \in Sessions
           /\ 1..started \subseteq Sessions
           /\ started \in Nat /\ MaxSessions \in Nat
BY RecorderAssumption DEF TypeOK, Sessions

(* The step of the holder leaves only what is orderly, and keeps its       *)
(* session active unless it closes it.                                     *)
LEMMA GoOnKeepsTodo ==
    ASSUME TypeInv, todo # <<>>, todo' = Tail(todo), started' = started,
           At("close") \/ active' = active
    PROVE  TodoInv'
<1>1. TodoInv
  BY DEF TypeInv
<1>2. /\ Orderly(Tail(todo))
      /\ Tail(todo) # <<>> => Head(Tail(todo)).do # "open" /\ ~ At("open") /\ ~ At("close")
  BY <1>1, NextStep
<1>3. todo' # <<>> => ~ At("open")' /\ active' # 0
  <2> SUFFICES ASSUME todo' # <<>> PROVE ~ At("open")' /\ active' # 0
    OBVIOUS
  <2>1. ~ At("open") /\ ~ At("close") /\ Head(todo').do # "open"
    BY <1>2
  <2>2. active # 0
    BY <1>1, <2>1 DEF TodoInv
  <2> QED
    BY <2>1, <2>2 DEF At
<1> QED
  BY <1>2, <1>3 DEF TodoInv

(* Every step keeps the types. *)
LEMMA TypeInductive == TypeInv /\ [Next]_vars => TypeInv'
<1> SUFFICES ASSUME TypeInv, [Next]_vars PROVE TypeInv'
  OBVIOUS
<1> USE DEF memoryVars, diskVars, boundVars
<1>1. TypeOK /\ DiskType /\ TodoInv
  BY DEF TypeInv
<1>2. todo # <<>> => lock # NoCaller
  BY <1>1 DEF TypeOK
<1>3. ASSUME NEW c \in Caller, NEW op \in {"start", "stop", "interrupt", "record", "panic"}, Call(c, op)
      PROVE  TypeInv'
  <2>1. TypeOK'
    BY <1>1, <1>3 DEF Call, TypeOK
  <2>2. DiskType' /\ TodoInv'
    BY <1>1, <1>3 DEF Call, DiskType, TodoInv, At
  <2> QED
    BY <2>1, <2>2 DEF TypeInv
<1>4. ASSUME NEW c \in Caller, Acquire(c) PROVE TypeInv'
  <2>1. call[c] \in {"start", "stop", "interrupt", "record", "panic"}
    BY <1>1, <1>4 DEF Acquire, TypeOK
  <2>2. TypeOK'
    BY <1>1, <1>4, RecorderAssumption DEF Acquire, TypeOK
  <2>3. DiskType'
    BY <1>1, <1>4 DEF Acquire, DiskType
  <2>4. TodoInv'
    <3>1. /\ Orderly(Steps(call[c]))
          /\ Steps(call[c]) # <<>> =>
               \/ Head(Steps(call[c])).do = "open" /\ active = 0 /\ started < MaxSessions
               \/ Head(Steps(call[c])).do = "append" /\ active # 0
      BY <2>1, StepsOrderly
    <3>2. todo' = Steps(call[c]) /\ active' = active /\ started' = started
      BY <1>4 DEF Acquire
    <3> QED
      BY <3>1, <3>2 DEF TodoInv, At
  <2> QED
    BY <2>2, <2>3, <2>4 DEF TypeInv
<1>5. ASSUME Release PROVE TypeInv'
  <2>1. TypeOK'
    BY <1>1, <1>5 DEF Release, TypeOK
  <2>2. DiskType' /\ TodoInv'
    BY <1>1, <1>5 DEF Release, DiskType, TodoInv, At
  <2> QED
    BY <2>1, <2>2 DEF TypeInv
<1>6. ASSUME Open PROVE TypeInv'
  <2>1. todo # <<>> /\ active = 0 /\ started < MaxSessions
    BY <1>1, <1>6 DEF Open, TodoInv, At
  <2>2. started + 1 \in 0..MaxSessions /\ started + 1 # 0
    BY <1>1, <2>1, RecorderAssumption DEF TypeOK
  <2>3. 1..started \subseteq 1..(started + 1)
    BY <1>1 DEF TypeOK
  <2>4. TypeOK'
    <3>1. /\ enabled' = (active' # 0)
          /\ active' \in 0..started' /\ started' \in 0..MaxSessions
      <4>1. enabled' = TRUE /\ active' = started + 1 /\ started' = started + 1
        BY <1>6 DEF Open
      <4>2. started \in Nat
        BY <1>1, ActiveIsStarted
      <4>3. started + 1 \in 0..(started + 1)
        BY <4>2
      <4> QED
        BY <2>2, <4>1, <4>3
    <3>2. lock' = lock /\ lock # NoCaller /\ call' = call /\ session' = session /\ killed' = killed
      BY <1>2, <1>6, <2>1 DEF Open
    <3>3. killed' \subseteq 1..started'
      BY <1>1, <1>6, <2>3, <3>2 DEF Open, TypeOK
    <3>4. log' = log /\ synced' = synced /\ summary' = summary /\ surviving' = surviving
      BY <1>6 DEF Open
    <3> QED
      BY <1>1, <3>1, <3>2, <3>3, <3>4 DEF TypeOK
  <2>5. DiskType'
    BY <1>1, <1>6 DEF Open, DiskType
  <2>6. TodoInv'
    BY <1>6, <2>2, OpeningOrderly DEF Open, TodoInv, At
  <2> QED
    BY <2>4, <2>5, <2>6 DEF TypeInv
<1>7. ASSUME todo # <<>>, GoOn, ~ At("open"), ~ At("close"), UNCHANGED <<enabled, active, started>>
      PROVE  TodoInv' /\ active \in Sessions /\ lock' = lock /\ lock # NoCaller /\ call' = call
             /\ killed' = killed
  <2>1. TodoInv'
    BY <1>7, GoOnKeepsTodo DEF GoOn, TypeInv
  <2>2. active # 0
    BY <1>1, <1>7 DEF TodoInv
  <2> QED
    BY <1>1, <1>2, <1>7, <2>1, <2>2, ActiveIsStarted DEF GoOn
<1>8. ASSUME AppendLine PROVE TypeInv'
  <2>1. /\ TodoInv' /\ active \in Sessions /\ lock' = lock /\ lock # NoCaller /\ call' = call
        /\ killed' = killed
    BY <1>7, <1>8 DEF AppendLine, At
  <2>2. Head(todo).arg \in Event
    <3>1. todo \in Seq(Step) /\ todo # <<>>
      BY <1>1, <1>8 DEF TodoInv, Orderly, AppendLine, At
    <3>2. 1 \in 1..Len(todo) /\ Head(todo) = todo[1]
      BY <3>1
    <3> QED
      BY <1>1, <1>8, <3>2 DEF TodoInv, Orderly, AppendLine, At
  <2> DEFINE w == WithLine(log[active], Head(todo).arg)
  <2>3. log[active] \in Seq(Line)
    BY <1>1, <2>1 DEF DiskType
  <2>4. w \in Seq(Line) /\ Len(w) >= Len(log[active])
    BY <2>2, <2>3, LineWritten
  <2>5. log' = [log EXCEPT ![active] = w]
    BY <1>8 DEF AppendLine
  <2> HIDE DEF w
  <2>6. log' \in [Sessions -> Seq(Line)]
    BY <1>1, <2>4, <2>5 DEF DiskType
  <2>7. \A s \in Sessions : synced[s] \in 0..Len(log'[s])
    <3> SUFFICES ASSUME NEW s \in Sessions PROVE synced[s] \in 0..Len(log'[s])
      OBVIOUS
    <3>1. synced[s] \in 0..Len(log[s]) /\ log[s] \in Seq(Line) /\ log'[s] \in Seq(Line)
      BY <1>1, <2>6 DEF TypeOK
    <3>2. log'[s] = IF s = active THEN w ELSE log[s]
      BY <1>1, <2>5 DEF DiskType
    <3>3. Len(log[s]) \in Nat /\ Len(log'[s]) \in Nat /\ Len(log'[s]) >= Len(log[s])
      BY <2>4, <3>1, <3>2
    <3> QED
      BY <3>1, <3>3
  <2>8. TypeOK'
    BY <1>1, <1>8, <2>1, <2>6, <2>7 DEF AppendLine, TypeOK
  <2>9. DiskType'
    BY <1>1, <1>8, <2>6 DEF AppendLine, DiskType
  <2> QED
    BY <2>1, <2>8, <2>9 DEF TypeInv
<1>9. ASSUME Sync PROVE TypeInv'
  <2>1. /\ TodoInv' /\ active \in Sessions /\ lock' = lock /\ lock # NoCaller /\ call' = call
        /\ killed' = killed
    BY <1>7, <1>9 DEF Sync, At
  <2>2. Len(log[active]) \in Nat
    BY <1>1, <2>1 DEF DiskType
  <2>3. synced' \in [Sessions -> Nat] /\ \A s \in Sessions : synced'[s] \in 0..Len(log[s])
    BY <1>1, <1>9, <2>1, <2>2 DEF Sync, DiskType, TypeOK
  <2>4. session' \in [Sessions -> [status : {"active"} \cup Ending, events : Nat,
                                   writeFailure : BOOLEAN]]
    <3>1. session[active] \in [status : {"active"} \cup Ending, events : Nat, writeFailure : BOOLEAN]
      BY <1>1, <2>1 DEF TypeOK
    <3>2. [session[active] EXCEPT !.events = @ + 1]
            \in [status : {"active"} \cup Ending, events : Nat, writeFailure : BOOLEAN]
      BY <3>1
    <3>3. session' = [session EXCEPT ![active] = [session[active] EXCEPT !.events = @ + 1]]
      BY <1>9 DEF Sync
    <3> QED
      BY <1>1, <2>1, <3>2, <3>3 DEF TypeOK
  <2>5. TypeOK'
    BY <1>1, <1>9, <2>1, <2>3, <2>4 DEF Sync, TypeOK
  <2>6. DiskType'
    BY <1>1, <1>9, <2>3 DEF Sync, DiskType
  <2> QED
    BY <2>1, <2>5, <2>6 DEF TypeInv
<1>10. ASSUME Truncate PROVE TypeInv'
  <2>1. /\ TodoInv' /\ active \in Sessions /\ lock' = lock /\ lock # NoCaller /\ call' = call
        /\ killed' = killed
    BY <1>7, <1>10 DEF Truncate, At
  <2>2. Partial \in TextType
    BY DEF TextType
  <2>3. DiskType'
    BY <1>1, <1>10, <2>1, <2>2 DEF Truncate, DiskType
  <2>4. \A s \in Sessions : summary'[s] \in surviving'[s]
    BY <1>1, <1>10 DEF Truncate, DiskType, TypeOK
  <2>5. TypeOK'
    BY <1>1, <1>10, <2>1, <2>4 DEF Truncate, TypeOK
  <2> QED
    BY <2>1, <2>3, <2>5 DEF TypeInv
<1>11. ASSUME Write PROVE TypeInv'
  <2>1. /\ TodoInv' /\ active \in Sessions /\ lock' = lock /\ lock # NoCaller /\ call' = call
        /\ killed' = killed
    BY <1>7, <1>11 DEF Write, At
  <2>2. Text(active) \in TextType
    <3>1. session[active] \in [status : {"active"} \cup Ending, events : Nat, writeFailure : BOOLEAN]
      BY <1>1, <2>1 DEF TypeOK
    <3> QED
      BY <3>1 DEF TextType, Text
  <2>3. DiskType'
    BY <1>1, <1>11, <2>1, <2>2 DEF Write, DiskType
  <2>4. \A s \in Sessions : summary'[s] \in surviving'[s]
    BY <1>1, <1>11 DEF Write, DiskType, TypeOK
  <2>5. TypeOK'
    BY <1>1, <1>11, <2>1, <2>4 DEF Write, TypeOK
  <2> QED
    BY <2>1, <2>3, <2>5 DEF TypeInv
<1>12. ASSUME Flush PROVE TypeInv'
  <2>1. /\ TodoInv' /\ active \in Sessions /\ lock' = lock /\ lock # NoCaller /\ call' = call
        /\ killed' = killed
    BY <1>7, <1>12 DEF Flush, At
  <2>2. summary[active] \in TextType
    BY <1>1, <2>1 DEF DiskType
  <2>3. DiskType'
    BY <1>1, <1>12, <2>1, <2>2 DEF Flush, DiskType
  <2>4. \A s \in Sessions : summary'[s] \in surviving'[s]
    BY <1>1, <1>12 DEF Flush, DiskType, TypeOK
  <2>5. TypeOK'
    BY <1>1, <1>12, <2>1, <2>4 DEF Flush, TypeOK
  <2> QED
    BY <2>1, <2>3, <2>5 DEF TypeInv
<1>13. ASSUME PanicFile PROVE TypeInv'
  <2>1. /\ TodoInv' /\ active \in Sessions /\ lock' = lock /\ lock # NoCaller /\ call' = call
        /\ killed' = killed
    BY <1>7, <1>13 DEF PanicFile, At
  <2>2. TypeOK' /\ DiskType'
    BY <1>1, <1>13, <2>1 DEF PanicFile, TypeOK, DiskType
  <2> QED
    BY <2>1, <2>2 DEF TypeInv
<1>14. ASSUME SetStatus PROVE TypeInv'
  <2>1. /\ TodoInv' /\ active \in Sessions /\ lock' = lock /\ lock # NoCaller /\ call' = call
        /\ killed' = killed
    BY <1>7, <1>14 DEF SetStatus, At
  <2>2. Head(todo).arg \in Ending
    <3>1. todo \in Seq(Step) /\ todo # <<>>
      BY <1>1, <1>14 DEF TodoInv, Orderly, SetStatus, At
    <3>2. 1 \in 1..Len(todo) /\ Head(todo) = todo[1]
      BY <3>1
    <3> QED
      BY <1>1, <1>14, <3>2 DEF TodoInv, Orderly, SetStatus, At
  <2>3. session' \in [Sessions -> [status : {"active"} \cup Ending, events : Nat,
                                   writeFailure : BOOLEAN]]
    BY <1>1, <1>14, <2>1, <2>2 DEF SetStatus, TypeOK
  <2>4. TypeOK'
    BY <1>1, <1>14, <2>1, <2>3 DEF SetStatus, TypeOK
  <2>5. DiskType'
    BY <1>1, <1>14 DEF SetStatus, DiskType
  <2> QED
    BY <2>1, <2>4, <2>5 DEF TypeInv
<1>15. ASSUME Close PROVE TypeInv'
  <2>1. todo # <<>> /\ At("close") /\ ~ At("open") /\ todo' = Tail(todo) /\ started' = started
    BY <1>15 DEF Close, GoOn, At
  <2>2. TodoInv'
    BY <2>1, GoOnKeepsTodo
  <2>3. active \in Sessions
    BY <1>1, <2>1, ActiveIsStarted DEF TodoInv
  <2>4. synced' \in [Sessions -> Nat] /\ \A s \in Sessions : synced'[s] \in 0..Len(log[s])
    <3>1. Len(log[active]) \in Nat
      BY <1>1, <2>3 DEF DiskType
    <3>2. CASE synced' = synced
      BY <1>1, <3>2 DEF DiskType, TypeOK
    <3>3. CASE synced' = [synced EXCEPT ![active] = Len(log[active])]
      BY <1>1, <2>3, <3>1, <3>3 DEF DiskType, TypeOK
    <3> QED
      BY <1>15, <3>2, <3>3 DEF Close
  <2>5. TypeOK'
    <3>1. active' = 0 /\ enabled' = FALSE /\ active' \in 0..started
      BY <1>1, <1>15, ActiveIsStarted DEF Close
    <3> QED
      BY <1>1, <1>2, <1>15, <2>1, <2>4, <3>1 DEF Close, GoOn, TypeOK
  <2>6. DiskType'
    BY <1>1, <1>15, <2>4 DEF Close, DiskType
  <2> QED
    BY <2>2, <2>5, <2>6 DEF TypeInv
<1>16. ASSUME Fail PROVE TypeInv'
  <2> DEFINE step == Head(todo).do
             rest == SubSeq(todo, GivenUp(step) + 1, Len(todo))
  <2>1. /\ todo # <<>> /\ todo' = rest
        /\ UNCHANGED <<enabled, active, lock, call, started, synced, summary, surviving, killed>>
    BY <1>16 DEF Fail
  <2>2. Orderly(rest) /\ (rest # <<>> => Head(rest).do # "open" /\ ~ At("open"))
    BY <1>1, <2>1, GivingUp
  <2> HIDE DEF rest
  <2>3. TodoInv'
    BY <1>1, <2>1, <2>2 DEF TodoInv, At
  <2>4. step # "open" => active \in Sessions
    BY <1>1, <2>1, ActiveIsStarted DEF TodoInv, At
  <2>5. session' \in [Sessions -> [status : {"active"} \cup Ending, events : Nat,
                                   writeFailure : BOOLEAN]]
    <3>1. CASE step = "open"
      BY <1>1, <1>16, <3>1 DEF Fail, TypeOK
    <3>2. CASE step # "open"
      <4>1. session' = [session EXCEPT ![active].writeFailure = TRUE]
        BY <1>16, <3>2 DEF Fail
      <4> QED
        BY <1>1, <2>4, <3>2, <4>1 DEF TypeOK
    <3> QED
      BY <3>1, <3>2
  <2>6. /\ log' \in [Sessions -> Seq(Line)]
        /\ \A s \in Sessions : synced[s] \in 0..Len(log'[s])
    <3>1. CASE log' = log
      BY <1>1, <3>1 DEF DiskType, TypeOK
    <3>2. CASE step = "append" /\ log' = [log EXCEPT ![active] = WithCut(@)]
      <4> DEFINE w == WithCut(log[active])
      <4>1. w \in Seq(Line) /\ Len(w) >= Len(log[active])
        BY <1>1, <2>4, <3>2, LineCut DEF DiskType
      <4>2. log' = [log EXCEPT ![active] = w]
        BY <3>2
      <4> HIDE DEF w
      <4>3. log' \in [Sessions -> Seq(Line)]
        BY <1>1, <4>1, <4>2 DEF DiskType
      <4>4. ASSUME NEW s \in Sessions PROVE synced[s] \in 0..Len(log'[s])
        <5>1. synced[s] \in 0..Len(log[s]) /\ log[s] \in Seq(Line) /\ log'[s] \in Seq(Line)
          BY <1>1, <4>3 DEF TypeOK
        <5>2. log'[s] = IF s = active THEN w ELSE log[s]
          BY <1>1, <4>2 DEF DiskType
        <5>3. Len(log[s]) \in Nat /\ Len(log'[s]) \in Nat /\ Len(log'[s]) >= Len(log[s])
          BY <4>1, <5>1, <5>2
        <5> QED
          BY <5>1, <5>3
      <4> QED
        BY <4>3, <4>4
    <3> QED
      BY <1>16, <3>1, <3>2 DEF Fail
  <2>7. TypeOK'
    BY <1>1, <1>2, <2>1, <2>5, <2>6 DEF TypeOK
  <2>8. DiskType'
    BY <1>1, <2>1, <2>6 DEF DiskType
  <2> QED
    BY <2>3, <2>7, <2>8 DEF TypeInv
<1>17. ASSUME Gone PROVE /\ TodoInv' /\ enabled' = FALSE /\ active' = 0 /\ lock' = NoCaller
                         /\ todo' = <<>> /\ call' = [c \in Caller |-> "none"]
                         /\ killed' \subseteq 1..started /\ session' = session /\ started' = started
  <2>1. Orderly(<<>>)
    BY DEF Orderly, Closing
  <2>2. killed' \subseteq 1..started
    BY <1>1, <1>17, ActiveIsStarted DEF Gone, TypeOK
  <2> QED
    BY <1>17, <2>1, <2>2 DEF Gone, TodoInv
<1>18. ASSUME Kill PROVE TypeInv'
  <2>1. Gone /\ UNCHANGED diskVars
    BY <1>18 DEF Kill
  <2>2. active' \in 0..started
    BY <1>1, <1>17, <2>1, ActiveIsStarted
  <2>3. TypeOK'
    BY <1>1, <1>17, <2>1, <2>2 DEF TypeOK
  <2>4. DiskType'
    BY <1>1, <2>1 DEF DiskType
  <2> QED
    BY <1>17, <2>1, <2>3, <2>4 DEF TypeInv
<1>19. ASSUME Outage PROVE TypeInv'
  <2>1. Gone /\ surviving' = [s \in Sessions |-> {summary'[s]}]
        /\ summary' \in [Sessions -> UNION {surviving[s] : s \in Sessions}]
        /\ \A s \in Sessions : summary'[s] \in surviving[s]
    BY <1>19 DEF Outage
  <2>2. PICK kept \in [Sessions -> 0..MaxCalls + MaxSessions] :
          /\ \A s \in Sessions : kept[s] \in synced[s]..Len(log[s])
          /\ log' = [s \in Sessions |-> SubSeq(log[s], 1, kept[s])]
          /\ synced' = kept
    BY <1>19 DEF Outage
  <2>3. ASSUME NEW s \in Sessions
        PROVE  log'[s] \in Seq(Line) /\ synced'[s] \in 0..Len(log'[s]) /\ synced'[s] \in Nat
    <3> DEFINE k == kept[s]
               l == log[s]
    <3>1. l \in Seq(Line) /\ Len(l) \in Nat /\ synced[s] \in Nat
      BY <1>1 DEF DiskType
    <3>2. k \in Nat /\ k <= Len(l)
      BY <2>2, <3>1
    <3> HIDE DEF k, l
    <3>3. \A i \in 1..k : l[i] \in Line
      BY <3>1, <3>2, ElementOfSeq
    <3>4. 1 \in Int /\ k \in Int
      BY <3>2
    <3>5. SubSeq(l, 1, k) \in Seq(Line) /\ Len(SubSeq(l, 1, k)) = IF 1 <= k THEN k - 1 + 1 ELSE 0
      BY <3>3, <3>4, SubSeqProperties
    <3>6. Len(SubSeq(l, 1, k)) = k
      BY <3>2, <3>5
    <3>7. log'[s] = SubSeq(l, 1, k) /\ synced'[s] = k
      BY <2>2 DEF k, l
    <3> QED
      BY <3>2, <3>5, <3>6, <3>7
  <2>4. log' \in [Sessions -> Seq(Line)] /\ synced' \in [Sessions -> Nat]
    BY <2>2, <2>3
  <2>5. \A s \in Sessions : summary'[s] \in TextType
    BY <1>1, <2>1 DEF DiskType
  <2>6. summary' \in [Sessions -> TextType] /\ surviving' \in [Sessions -> SUBSET TextType]
    BY <2>1, <2>5
  <2>7. \A s \in Sessions : summary'[s] \in surviving'[s]
    BY <2>1
  <2>8. active' \in 0..started
    BY <1>1, <1>17, <2>1, ActiveIsStarted
  <2>9. TypeOK'
    BY <1>1, <1>17, <2>1, <2>3, <2>7, <2>8 DEF TypeOK
  <2>10. DiskType'
    BY <2>4, <2>6 DEF DiskType
  <2> QED
    BY <1>17, <2>1, <2>9, <2>10 DEF TypeInv
<1>20. ASSUME UNCHANGED vars PROVE TypeInv'
  BY <1>20 DEF vars, TypeInv, TypeOK, DiskType, TodoInv, At
<1> QED
  BY <1>3, <1>4, <1>5, <1>6, <1>8, <1>9, <1>10, <1>11, <1>12, <1>13, <1>14, <1>15, <1>16, <1>18,
     <1>19, <1>20
  DEF Next, Work

(* The initial state has its type, and nothing to do. *)
LEMMA TypeInit == Init => TypeInv
<1> SUFFICES ASSUME Init PROVE TypeInv
  OBVIOUS
<1>1. Orderly(<<>>)
  BY DEF Orderly, Closing
<1>2. TodoInv
  BY <1>1 DEF Init, TodoInv
<1>3. <<>> \in Seq(Line) /\ Len(<<>>) = 0
  OBVIOUS
<1>4. DiskType
  BY <1>3 DEF Init, DiskType, TextType
<1>5. MaxSessions \in Nat
  BY RecorderAssumption
<1>6. active \in 0..started /\ started \in 0..MaxSessions /\ killed \subseteq 1..started
  BY <1>5 DEF Init
<1>7. session \in [Sessions -> [status : {"active"} \cup Ending, events : Nat,
                               writeFailure : BOOLEAN]]
  BY DEF Init, NewSession
<1>8. call \in [Caller -> {"none", "start", "stop", "interrupt", "record", "panic"}]
  BY DEF Init
<1>9. enabled = (active # 0)
  <2>1. active = 0 /\ enabled = FALSE
    BY DEF Init
  <2> QED
    BY <2>1, Zenon
<1>10. ASSUME NEW s \in Sessions
       PROVE  /\ log[s] \in Seq(Line) /\ synced[s] \in 0..Len(log[s])
              /\ summary[s] \in surviving[s]
  <2>1. log[s] = <<>> /\ synced[s] = 0 /\ summary[s] = Absent /\ surviving[s] = {Absent}
    BY DEF Init
  <2> QED
    BY <2>1, <1>3
<1>11. lock \in Caller \cup {NoCaller} /\ todo = <<>>
  BY DEF Init
<1>12. TypeOK
  BY <1>6, <1>7, <1>8, <1>9, <1>10, <1>11, Zenon DEF TypeOK
<1> QED
  BY <1>2, <1>4, <1>12 DEF TypeInv

(* The recorder keeps its type, for any number of callers and sessions.    *)
THEOREM RecorderTypeCorrect == Spec => []TypeOK
<1>1. Init => TypeInv
  BY TypeInit
<1>2. TypeInv /\ [Next]_vars => TypeInv'
  BY TypeInductive
<1>3. TypeInv => TypeOK
  BY DEF TypeInv
<1> QED
  BY <1>1, <1>2, <1>3, PTL DEF Spec

-----------------------------------------------------------------------------
(* Summaries and logs.                                                     *)

(* Unless a write has failed, the log has only whole events, and those     *)
(* counted are on the disk; one more has been written where it is synced.  *)
Counted(s) ==
    ~ session[s].writeFailure =>
        /\ log[s] \in Seq(Event)
        /\ session[s].events <= synced[s]
        /\ s = active /\ At("sync") => session[s].events < Len(log[s])

(* What text t of session s counts is on the disk. *)
Backed(s, t) ==
    t.kind = "written" /\ ~ t.warned =>
        /\ t.events <= synced[s]
        /\ \A i \in 1..t.events : log[s][i] \in Event

SummaryInv ==
    \A s \in Sessions : Counted(s) /\ \A t \in surviving[s] : Backed(s, t)

(* A session whose log loses nothing that is on the disk. *)
LEMMA KeepsBacked ==
    ASSUME TypeInv, NEW s \in Sessions, NEW t \in TextType, Backed(s, t),
           synced'[s] \in Nat, synced'[s] >= synced[s],
           \A i \in 1..synced[s] : log[s][i] \in Event => log'[s][i] = log[s][i]
    PROVE  Backed(s, t)'
<1> SUFFICES ASSUME t.kind = "written", ~ t.warned
             PROVE  t.events <= synced'[s] /\ \A i \in 1..t.events : log'[s][i] \in Event
  BY DEF Backed
<1>1. t.events <= synced[s] /\ \A i \in 1..t.events : log[s][i] \in Event
  BY DEF Backed
<1>2. t.events \in Nat
  BY DEF TextType, Absent, Partial
<1>3. synced[s] \in Nat
  BY DEF TypeInv, DiskType
<1>4. t.events <= synced'[s]
  BY <1>1, <1>2, <1>3
<1>5. \A i \in 1..t.events : i \in 1..synced[s]
  BY <1>1, <1>2, <1>3
<1> QED
  BY <1>1, <1>4, <1>5

(* A session that is left alone keeps both. *)
LEMMA LeftAlone ==
    ASSUME TypeInv, NEW s \in Sessions, Counted(s), \A t \in surviving[s] : Backed(s, t),
           session'[s].events = session[s].events,
           session'[s].writeFailure = session[s].writeFailure,
           log'[s] = log[s], surviving'[s] \subseteq surviving[s] \cup {Absent, Partial},
           synced'[s] \in Nat, synced'[s] >= synced[s],
           ~ (s = active' /\ At("sync")')
    PROVE  Counted(s)' /\ \A t \in surviving'[s] : Backed(s, t)'
<1>1. Counted(s)'
  <2>1. session[s].events \in Nat /\ synced[s] \in Nat
    BY DEF TypeInv, TypeOK, DiskType
  <2>2. session[s].events <= synced[s] => session[s].events <= synced'[s]
    BY <2>1
  <2> QED
    BY <2>2 DEF Counted
<1>2. ASSUME NEW t \in surviving'[s] PROVE Backed(s, t)'
  <2>1. CASE t \in {Absent, Partial}
    BY <2>1 DEF Backed, Absent, Partial
  <2>2. CASE t \in surviving[s]
    <3>1. t \in TextType /\ Backed(s, t)
      BY <2>2 DEF TypeInv, DiskType
    <3> QED
      BY <3>1, KeepsBacked
  <2> QED
    BY <2>1, <2>2
<1> QED
  BY <1>1, <1>2

(* Every step keeps what is counted on the disk. *)
LEMMA SummaryInductive == TypeInv /\ SummaryInv /\ [Next]_vars => SummaryInv'
<1> SUFFICES ASSUME TypeInv, SummaryInv, [Next]_vars, NEW s \in Sessions
             PROVE  Counted(s)' /\ \A t \in surviving'[s] : Backed(s, t)'
  BY DEF SummaryInv
<1> USE DEF memoryVars, diskVars, boundVars
<1>1. TypeOK /\ DiskType /\ TodoInv /\ Counted(s) /\ \A t \in surviving[s] : Backed(s, t)
  BY DEF TypeInv, SummaryInv
<1>2. /\ s # 0 /\ synced[s] \in Nat /\ synced[s] >= synced[s] /\ Len(log[s]) \in Nat
      /\ synced[s] <= Len(log[s])
      /\ session[s] \in [status : {"active"} \cup Ending, events : Nat, writeFailure : BOOLEAN]
      /\ log[s] \in Seq(Line)
  BY <1>1 DEF TypeOK, DiskType, Sessions
<1>3. ASSUME NEW c \in Caller, NEW op \in {"start", "stop", "interrupt", "record", "panic"}, Call(c, op)
      PROVE  Counted(s)' /\ \A t \in surviving'[s] : Backed(s, t)'
  BY <1>1, <1>3 DEF Call, Counted, Backed, At
<1>4. ASSUME NEW c \in Caller, Acquire(c)
      PROVE  Counted(s)' /\ \A t \in surviving'[s] : Backed(s, t)'
  <2>1. call[c] \in {"start", "stop", "interrupt", "record", "panic"}
    BY <1>1, <1>4 DEF Acquire, TypeOK
  <2>2. ~ At("sync")'
    BY <1>4, <2>1, StepsOrderly DEF Acquire, At
  <2> QED
    BY <1>1, <1>2, <1>4, <2>2, LeftAlone DEF Acquire
<1>5. ASSUME Release PROVE Counted(s)' /\ \A t \in surviving'[s] : Backed(s, t)'
  BY <1>1, <1>5 DEF Release, Counted, Backed, At
<1>6. ASSUME Open PROVE Counted(s)' /\ \A t \in surviving'[s] : Backed(s, t)'
  <2>1. ~ At("sync")'
    BY <1>6, OpeningOrderly DEF Open, At
  <2> QED
    BY <1>1, <1>2, <1>6, <2>1, LeftAlone DEF Open
<1>7. ASSUME todo # <<>>, GoOn, ~ At("append") PROVE ~ At("sync")'
  BY <1>1, <1>7, NextStep DEF GoOn, At
<1>8. ASSUME AppendLine PROVE Counted(s)' /\ \A t \in surviving'[s] : Backed(s, t)'
  <2>1. /\ UNCHANGED <<active, session, synced, surviving>>
        /\ log' = [log EXCEPT ![active] = WithLine(log[active], Head(todo).arg)]
    BY <1>8 DEF AppendLine
  <2>2. CASE s # active
    BY <1>1, <1>2, <2>1, <2>2, LeftAlone DEF DiskType
  <2>3. CASE s = active
    <3>1. Head(todo).arg \in Event
      <4>1. todo \in Seq(Step) /\ todo # <<>>
        BY <1>1, <1>8 DEF TodoInv, Orderly, AppendLine, At
      <4>2. 1 \in 1..Len(todo) /\ Head(todo) = todo[1]
        BY <4>1
      <4> QED
        BY <1>1, <1>8, <4>2 DEF TodoInv, Orderly, AppendLine, At
    <3> DEFINE w == WithLine(log[s], Head(todo).arg)
    <3>2. /\ Len(w) >= Len(log[s])
          /\ \A i \in 1..Len(log[s]) : log[s][i] \in Event => w[i] = log[s][i]
          /\ log[s] \in Seq(Event) => w \in Seq(Event) /\ Len(w) = Len(log[s]) + 1
      BY <1>2, <3>1, LineWritten
    <3>3. log'[s] = w
      BY <1>1, <2>1, <2>3 DEF DiskType
    <3> HIDE DEF w
    <3>4. Counted(s)'
      <4>1. session[s].events <= synced[s] => session[s].events < Len(log[s]) + 1
        BY <1>2
      <4> QED
        BY <1>1, <2>1, <3>2, <3>3, <4>1 DEF Counted
    <3>5. \A i \in 1..synced[s] : log[s][i] \in Event => log'[s][i] = log[s][i]
      BY <1>2, <3>2, <3>3
    <3>6. \A t \in surviving[s] : t \in TextType
      BY <1>1 DEF DiskType
    <3> QED
      BY <1>1, <1>2, <2>1, <3>4, <3>5, <3>6, KeepsBacked
  <2> QED
    BY <2>2, <2>3
<1>9. ASSUME Sync PROVE Counted(s)' /\ \A t \in surviving'[s] : Backed(s, t)'
  <2>1. ~ At("sync")' /\ At("sync")
    BY <1>7, <1>9 DEF Sync, At
  <2>2. /\ synced' = [synced EXCEPT ![active] = Len(log[active])]
        /\ session' = [session EXCEPT ![active].events = @ + 1]
        /\ UNCHANGED <<active, log, surviving>>
    BY <1>9 DEF Sync
  <2>3. CASE s # active
    <3>1. synced'[s] = synced[s] /\ session'[s] = session[s]
      BY <1>1, <2>2, <2>3 DEF DiskType, TypeOK
    <3> QED
      BY <1>1, <1>2, <2>1, <2>2, <3>1, LeftAlone
  <2>4. CASE s = active
    <3>1. /\ synced'[s] = Len(log[s])
          /\ session'[s].events = session[s].events + 1
          /\ session'[s].writeFailure = session[s].writeFailure
      BY <1>1, <1>2, <2>2, <2>4 DEF DiskType, TypeOK
    <3>2. Counted(s)'
      <4>1. session[s].events < Len(log[s]) => session[s].events + 1 <= Len(log[s])
        BY <1>2
      <4> QED
        BY <1>1, <2>1, <2>2, <2>4, <3>1, <4>1 DEF Counted
    <3>3. \A t \in surviving[s] : t \in TextType
      BY <1>1 DEF DiskType
    <3> QED
      BY <1>1, <1>2, <2>2, <3>1, <3>2, <3>3, KeepsBacked
  <2> QED
    BY <2>3, <2>4
<1>10. ASSUME Truncate PROVE Counted(s)' /\ \A t \in surviving'[s] : Backed(s, t)'
  <2>1. ~ At("sync")'
    BY <1>7, <1>10 DEF Truncate, At
  <2>2. surviving'[s] \subseteq surviving[s] \cup {Absent, Partial}
    BY <1>1, <1>10 DEF Truncate, DiskType
  <2> QED
    BY <1>1, <1>2, <1>10, <2>1, <2>2, LeftAlone DEF Truncate
<1>11. ASSUME Write PROVE Counted(s)' /\ \A t \in surviving'[s] : Backed(s, t)'
  <2>1. ~ At("sync")'
    BY <1>7, <1>11 DEF Write, At
  <2>2. UNCHANGED <<active, session, log, synced>>
    BY <1>11 DEF Write
  <2>3. Counted(s)'
    BY <1>1, <2>1, <2>2 DEF Counted
  <2>4. ASSUME NEW t \in surviving'[s] PROVE Backed(s, t)'
    <3>1. t \in surviving[s] \/ (s = active /\ t = Text(s))
      BY <1>1, <1>11 DEF Write, DiskType
    <3>2. CASE t \in surviving[s]
      BY <1>1, <2>2, <3>2 DEF Backed
    <3>3. CASE t = Text(s)
      <4>1. t.events = session[s].events /\ t.warned = session[s].writeFailure
        BY <3>3 DEF Text
      <4>2. CASE session[s].writeFailure
        BY <4>1, <4>2 DEF Backed
      <4>3. CASE ~ session[s].writeFailure
        <5>1. t.events <= synced[s] /\ log[s] \in Seq(Event)
          BY <1>1, <4>1, <4>3 DEF Counted
        <5>2. \A i \in 1..t.events : i \in 1..Len(log[s])
          BY <1>2, <4>1, <5>1
        <5>3. \A i \in 1..t.events : log[s][i] \in Event
          BY <5>1, <5>2, ElementOfSeq
        <5> QED
          BY <2>2, <5>1, <5>3 DEF Backed
      <4> QED
        BY <1>2, <4>2, <4>3
    <3> QED
      BY <3>1, <3>2, <3>3
  <2> QED
    BY <2>3, <2>4
<1>12. ASSUME Flush PROVE Counted(s)' /\ \A t \in surviving'[s] : Backed(s, t)'
  <2>1. ~ At("sync")'
    BY <1>7, <1>12 DEF Flush, At
  <2>2. surviving'[s] \subseteq surviving[s]
    BY <1>1, <1>12 DEF Flush, DiskType, TypeOK
  <2> QED
    BY <1>1, <1>2, <1>12, <2>1, <2>2, LeftAlone DEF Flush
<1>13. ASSUME PanicFile PROVE Counted(s)' /\ \A t \in surviving'[s] : Backed(s, t)'
  <2>1. ~ At("sync")'
    BY <1>7, <1>13 DEF PanicFile, At
  <2> QED
    BY <1>1, <1>2, <1>13, <2>1, LeftAlone DEF PanicFile
<1>14. ASSUME SetStatus PROVE Counted(s)' /\ \A t \in surviving'[s] : Backed(s, t)'
  <2>1. ~ At("sync")'
    BY <1>7, <1>14 DEF SetStatus, At
  <2>2. /\ session'[s].events = session[s].events
        /\ session'[s].writeFailure = session[s].writeFailure
    BY <1>1, <1>2, <1>14 DEF SetStatus, TypeOK
  <2> QED
    BY <1>1, <1>2, <1>14, <2>1, <2>2, LeftAlone DEF SetStatus
<1>15. ASSUME Close PROVE Counted(s)' /\ \A t \in surviving'[s] : Backed(s, t)'
  <2>1. synced'[s] \in Nat /\ synced'[s] >= synced[s]
    <3>1. synced'[s] \in {synced[s], Len(log[s])}
      BY <1>1, <1>15 DEF Close, DiskType
    <3> QED
      BY <1>2, <3>1
  <2>2. s # active'
    BY <1>2, <1>15 DEF Close
  <2> QED
    BY <1>1, <1>2, <1>15, <2>1, <2>2, LeftAlone DEF Close
<1>16. ASSUME Fail PROVE Counted(s)' /\ \A t \in surviving'[s] : Backed(s, t)'
  <2> DEFINE step == Head(todo).do
  <2>1. UNCHANGED <<active, synced, surviving>>
    BY <1>16 DEF Fail
  <2>2. s = active => step # "open"
    BY <1>1, <1>2, <1>16 DEF Fail, TodoInv, At
  <2>3. CASE s # active
    <3>1. session'[s] = session[s] /\ log'[s] = log[s]
      BY <1>1, <1>16, <2>3 DEF Fail, DiskType, TypeOK
    <3> QED
      BY <1>1, <1>2, <2>1, <2>3, <3>1, LeftAlone
  <2>4. CASE s = active
    <3>1. session'[s].writeFailure = TRUE
      BY <1>1, <1>16, <2>2, <2>4 DEF Fail, TypeOK
    <3>2. Counted(s)'
      BY <3>1 DEF Counted
    <3>3. log' = log \/ log' = [log EXCEPT ![active] = WithCut(log[active])]
      BY <1>16 DEF Fail
    <3>4. log'[s] = log[s] \/ log'[s] = WithCut(log[s])
      BY <1>1, <2>4, <3>3 DEF DiskType
    <3>5. \A i \in 1..Len(log[s]) : log'[s][i] = log[s][i]
      BY <1>2, <3>4, LineCut
    <3>6. \A i \in 1..synced[s] : log'[s][i] = log[s][i]
      BY <1>2, <3>5
    <3>7. \A t \in surviving[s] : t \in TextType
      BY <1>1 DEF DiskType
    <3> QED
      BY <1>1, <1>2, <2>1, <3>2, <3>6, <3>7, KeepsBacked
  <2> QED
    BY <2>3, <2>4
<1>17. ASSUME Kill PROVE Counted(s)' /\ \A t \in surviving'[s] : Backed(s, t)'
  <2>1. ~ At("sync")' /\ session' = session /\ UNCHANGED <<log, synced, surviving>>
    BY <1>17 DEF Kill, Gone, At
  <2> QED
    BY <1>1, <1>2, <2>1, LeftAlone
<1>18. ASSUME Outage PROVE Counted(s)' /\ \A t \in surviving'[s] : Backed(s, t)'
  <2>1. PICK kept \in [Sessions -> 0..MaxCalls + MaxSessions] :
          /\ \A r \in Sessions : kept[r] \in synced[r]..Len(log[r])
          /\ log' = [r \in Sessions |-> SubSeq(log[r], 1, kept[r])]
          /\ synced' = kept
    BY <1>18 DEF Outage
  <2> DEFINE k == kept[s]
             l == log[s]
  <2>2. k \in Nat /\ k >= synced[s] /\ k <= Len(l)
    BY <1>2, <2>1
  <2>3. synced'[s] = k /\ log'[s] = SubSeq(l, 1, k)
    BY <2>1
  <2>4. \A i \in 1..k : i \in 1..Len(l)
    BY <1>2, <2>2
  <2> HIDE DEF k
  <2>5. k \in Int /\ 1 \in Int
    BY <2>2
  <2>6. \A i \in 1..k : l[i] \in Line
    BY <1>2, <2>4, ElementOfSeq
  <2>7. \A i \in 1..k - 1 + 1 : SubSeq(l, 1, k)[i] = l[1 + i - 1]
    BY <2>5, <2>6, SubSeqProperties
  <2>8. \A i \in 1..k : log'[s][i] = l[i]
    <3>1. \A i \in 1..k : i \in 1..k - 1 + 1 /\ 1 + i - 1 = i
      BY <2>2
    <3> QED
      BY <2>3, <2>7, <3>1
  <2>9. ~ At("sync")' /\ session' = session /\ surviving'[s] \subseteq surviving[s]
    BY <1>18 DEF Outage, Gone, At
  <2>10. l \in Seq(Event) => log'[s] \in Seq(Event)
    <3> SUFFICES ASSUME l \in Seq(Event) PROVE SubSeq(l, 1, k) \in Seq(Event)
      BY <2>3
    <3>1. \A i \in 1..k : l[i] \in Event
      BY <2>4, ElementOfSeq
    <3> QED
      BY <2>5, <3>1, SubSeqProperties
  <2>11. session[s].events <= synced[s] => session[s].events <= k
    BY <1>2, <2>2
  <2>12. Counted(s)'
    BY <1>1, <2>3, <2>9, <2>10, <2>11 DEF Counted
  <2>13. \A i \in 1..synced[s] : log'[s][i] = log[s][i]
    BY <1>2, <2>2, <2>8
  <2>14. \A t \in surviving[s] : t \in TextType
    BY <1>1 DEF DiskType
  <2> QED
    BY <1>1, <2>2, <2>3, <2>9, <2>12, <2>13, <2>14, KeepsBacked
<1>19. ASSUME UNCHANGED vars PROVE Counted(s)' /\ \A t \in surviving'[s] : Backed(s, t)'
  BY <1>1, <1>19 DEF vars, Counted, Backed, At
<1> QED
  BY <1>3, <1>4, <1>5, <1>6, <1>8, <1>9, <1>10, <1>11, <1>12, <1>13, <1>14, <1>15, <1>16, <1>17,
     <1>18, <1>19
  DEF Next, Work

(* What a summary counts can be read, whatever fails: the events are on    *)
(* the disk before they are counted, and nothing before them is lost.      *)
THEOREM SummaryCorrect == Spec => []SummaryBackedByLog
<1>1. Init => TypeInv /\ SummaryInv
  <2> SUFFICES ASSUME Init PROVE SummaryInv
    BY TypeInit
  <2>1. ASSUME NEW s \in Sessions PROVE Counted(s) /\ \A t \in surviving[s] : Backed(s, t)
    <3>1. /\ session[s].events = 0 /\ synced[s] = 0 /\ log[s] = <<>> /\ surviving[s] = {Absent}
          /\ ~ At("sync")
      BY DEF Init, NewSession, At
    <3> QED
      BY <3>1 DEF Counted, Backed, Absent
  <2> QED
    BY <2>1 DEF SummaryInv
<1>2. TypeInv /\ SummaryInv /\ [Next]_vars => TypeInv' /\ SummaryInv'
  BY TypeInductive, SummaryInductive
<1>3. TypeInv /\ SummaryInv => SummaryBackedByLog
  <2> SUFFICES ASSUME TypeInv, SummaryInv, NEW s \in Sessions,
                      summary[s].kind = "written", ~ summary[s].warned
               PROVE  /\ summary[s].events <= Len(log[s])
                      /\ \A i \in 1..summary[s].events : log[s][i] \in Event
    BY DEF SummaryBackedByLog
  <2>1. summary[s] \in surviving[s] /\ summary[s] \in TextType /\ log[s] \in Seq(Line)
        /\ synced[s] \in 0..Len(log[s])
    BY DEF TypeInv, TypeOK, DiskType
  <2>2. /\ summary[s].events <= synced[s]
        /\ \A i \in 1..summary[s].events : log[s][i] \in Event
    BY <2>1 DEF SummaryInv, Backed
  <2>3. summary[s].events \in Nat
    BY <2>1 DEF TextType, Absent, Partial
  <2> QED
    BY <2>1, <2>2, <2>3
<1> QED
  BY <1>1, <1>2, <1>3, PTL DEF Spec

-----------------------------------------------------------------------------
(* What a finished session tells.                                          *)

(* Where the holder of the mutex is in the ending of a session. *)
LEMMA Ahead ==
    ASSUME TodoInv, Telling(todo), todo # <<>>
    PROVE  /\ Len(todo) \in Nat /\ Len(todo) >= 1 /\ Head(todo) = todo[1]
           /\ Closing(todo) =>
                /\ Len(todo) <= 10 /\ ~ Fresh(todo)
                /\ Len(todo) = 1 => At("close")
                /\ Len(todo) = 2 => At("flush")
                /\ Len(todo) = 3 => At("write")
                /\ Len(todo) = 4 => At("truncate")
                /\ Len(todo) = 5 => At("finish")
                /\ Len(todo) = 9 => At("sync")
                /\ Len(todo) = 10 => At("append")
           /\ At("append") => Len(todo) >= 2 /\ todo[2].do = "sync"
           /\ At("append") =>
                \/ Head(todo).arg = "started" /\ ~ Closing(todo) /\ Len(todo) = 5 /\ Fresh(todo)
                \/ Head(todo).arg \in {"event", "panic"} /\ ~ Closing(todo) /\ ~ Fresh(todo)
                \/ /\ Head(todo).arg \in Ending /\ Closing(todo) /\ Len(todo) = 10
                   /\ todo[6].arg = Head(todo).arg
           /\ At("finish") => Closing(todo) /\ Len(todo) = 5 /\ Head(todo).arg \in Ending
           /\ At("close") => Closing(todo) /\ Len(todo) = 1
<1> DEFINE n == Len(todo)
<1>1. Orderly(todo) /\ todo \in Seq(Step) /\ n \in Nat /\ n >= 1 /\ Head(todo) = todo[1]
  <2>1. Orderly(todo) /\ todo \in Seq(Step)
    BY DEF TodoInv, Orderly
  <2> QED
    BY <2>1
<1>2. 1 \in 1..n
  BY <1>1
<1>3. /\ todo[1].do = "append" => 1 + 1 \in 1..n /\ todo[1 + 1].do = "sync"
      /\ todo[1].do = "append" =>
           \/ todo[1].arg = "started" /\ ~ Closing(todo) /\ n = 1 + 4
           \/ todo[1].arg \in {"event", "panic"} /\ ~ Closing(todo) /\ ~ Fresh(todo)
           \/ /\ todo[1].arg \in Ending /\ Closing(todo) /\ n = 1 + 9
              /\ todo[1 + 5].arg = todo[1].arg
      /\ todo[1].do = "finish" => Closing(todo) /\ n = 1 + 4
  BY <1>2 DEF Telling
<1>4. 1 + 4 = 5 /\ 1 + 9 = 10 /\ 1 + 5 = 6 /\ 1 + 1 = 2 /\ (2 \in 1..n => n >= 2)
  BY <1>1
<1>5. /\ todo[1].do = "finish" => todo[1].arg \in Ending
      /\ todo[1].do = "close" => 1 = n
  BY <1>1, <1>2 DEF Orderly
<1>6. ASSUME Closing(todo)
      PROVE  /\ n <= 10 /\ ~ Fresh(todo)
             /\ n = 1 => todo[1].do = "close"
             /\ n = 2 => todo[1].do = "flush"
             /\ n = 3 => todo[1].do = "write"
             /\ n = 4 => todo[1].do = "truncate"
             /\ n = 5 => todo[1].do = "finish"
             /\ n = 9 => todo[1].do = "sync"
             /\ n = 10 => todo[1].do = "append"
  <2>1. n <= 10 /\ (n >= 9 => todo[n - 8].do = "sync") /\ (n >= 10 => todo[n - 9].do = "append")
    BY <1>6 DEF Telling
  <2>2. ~ Fresh(todo)
    <3> SUFFICES ASSUME NEW i \in 1..n, todo[i].do = "append", todo[i].arg = "started" PROVE FALSE
      BY DEF Fresh
    <3> QED
      BY <1>6 DEF Telling, Ending
  <2>3. /\ n >= 2 => todo[n - 1].do = "flush"
        /\ n >= 3 => todo[n - 2].do = "write"
        /\ n >= 4 => todo[n - 3].do = "truncate"
        /\ n >= 5 => todo[n - 4].do = "finish"
    BY <1>1, <1>6 DEF Orderly
  <2>4. todo[n].do = "close"
    BY <1>6 DEF Closing
  <2> HIDE DEF n
  <2> QED
    BY <2>1, <2>2, <2>3, <2>4
<1>7. todo[1].do = "close" => Closing(todo)
  BY <1>1, <1>5 DEF Closing
<1>8. todo[1].do = "append" /\ todo[1].arg = "started" => Fresh(todo)
  BY <1>2 DEF Fresh
<1>9. \A step : At(step) <=> todo[1].do = step
  BY <1>1 DEF At
<1> HIDE DEF n
<1>10. /\ todo[1].do = "append" => n >= 2 /\ todo[2].do = "sync"
       /\ todo[1].do = "append" =>
            \/ todo[1].arg = "started" /\ ~ Closing(todo) /\ n = 5 /\ Fresh(todo)
            \/ todo[1].arg \in {"event", "panic"} /\ ~ Closing(todo) /\ ~ Fresh(todo)
            \/ todo[1].arg \in Ending /\ Closing(todo) /\ n = 10 /\ todo[6].arg = todo[1].arg
       /\ todo[1].do = "finish" => Closing(todo) /\ n = 5 /\ todo[1].arg \in Ending
       /\ todo[1].do = "close" => Closing(todo) /\ n = 1
  BY <1>3, <1>4, <1>5, <1>7, <1>8
<1> QED
  BY <1>1, <1>6, <1>9, <1>10, Zenon DEF n

(* After its next step. *)
LEMMA AheadAfter ==
    ASSUME TodoInv, Telling(todo), todo # <<>>
    PROVE  /\ Telling(Tail(todo))
           /\ Len(Tail(todo)) = Len(todo) - 1
           /\ Closing(Tail(todo)) <=> Closing(todo) /\ Len(todo) >= 2
           /\ \A i \in 1..Len(Tail(todo)) : Tail(todo)[i] = todo[i + 1]
           /\ Fresh(Tail(todo)) <=> Fresh(todo) /\ ~ (At("append") /\ Head(todo).arg = "started")
<1> DEFINE n == Len(todo)
           t == Tail(todo)
<1>1. Orderly(todo) /\ todo \in Seq(Step) /\ n \in Nat /\ n >= 1 /\ Head(todo) = todo[1]
  <2>1. Orderly(todo) /\ todo \in Seq(Step)
    BY DEF TodoInv, Orderly
  <2> QED
    BY <2>1
<1>2. t = SubSeq(todo, 2, n)
  BY <1>1, TailIsSubSeq
<1>3. /\ Telling(SubSeq(todo, 1 + 1, n))
      /\ Closing(SubSeq(todo, 1 + 1, n)) <=> Closing(todo) /\ 1 < n
  BY <1>1, RestTelling
<1>4. 1 + 1 = 2 /\ (1 < n <=> n >= 2)
  BY <1>1
<1>5. Len(t) = n - 1 /\ \A i \in 1..Len(t) : t[i] = todo[i + 1]
  BY NextStep
<1> HIDE DEF t
<1>6. Telling(t) /\ (Closing(t) <=> Closing(todo) /\ n >= 2)
  BY <1>2, <1>3, <1>4
<1>7. ASSUME Fresh(t) PROVE Fresh(todo) /\ ~ (At("append") /\ Head(todo).arg = "started")
  <2>1. PICK i \in 1..Len(t) : t[i].do = "append" /\ t[i].arg = "started"
    BY <1>7 DEF Fresh
  <2>2. i + 1 \in 1..n /\ todo[i + 1].do = "append" /\ todo[i + 1].arg = "started"
    BY <1>1, <1>5, <2>1
  <2>3. n = (i + 1) + 4
    BY <2>2 DEF Telling, Ending
  <2>4. n # 5
    BY <2>1, <2>3, <1>1, <1>5
  <2>5. ~ (At("append") /\ Head(todo).arg = "started")
    BY <2>4, Ahead DEF Ending
  <2> QED
    BY <2>2, <2>5 DEF Fresh
<1>8. ASSUME Fresh(todo), ~ (At("append") /\ Head(todo).arg = "started") PROVE Fresh(t)
  <2>1. PICK i \in 1..n : todo[i].do = "append" /\ todo[i].arg = "started"
    BY <1>8 DEF Fresh
  <2>2. i # 1
    BY <1>1, <1>8, <2>1 DEF At
  <2>3. i - 1 \in 1..Len(t) /\ (i - 1) + 1 = i
    BY <1>1, <1>5, <2>1, <2>2
  <2>4. t[i - 1] = todo[i]
    BY <1>5, <2>3
  <2> QED
    BY <2>1, <2>3, <2>4 DEF Fresh
<1> QED
  BY <1>5, <1>6, <1>7, <1>8 DEF t

(* The active session, while it is told: the status changes last; and      *)
(* unless a write has failed, the log is what has been told so far.        *)
StatusLate == session[active].status = "active" \/ (Closing(todo) /\ Len(todo) <= 4)

LogSoFar ==
    LET l == log[active] IN
    /\ Len(l) = session[active].events + (IF At("sync") THEN 1 ELSE 0)
    /\ IF Fresh(todo) THEN l = <<>> ELSE Len(l) >= 1 /\ l[1] = "started"
    /\ \A i \in 2..Len(l) :
         l[i] \in {"event", "panic"} \/ (i = Len(l) /\ Closing(todo) /\ Len(todo) <= 9)

EndSoFar ==
    LET l == log[active]
        n == Len(todo)
    IN
    Closing(todo) =>
        /\ n <= 9 => Len(l) >= 2
        /\ n <= 9 /\ n >= 5 => l[Len(l)] = todo[n - 4].arg
        /\ n <= 4 => l[Len(l)] = session[active].status /\ session[active].status \in Ending
        /\ n <= 8 => synced[active] = Len(l)
        /\ n <= 2 => summary[active] = Text(active)
        /\ n <= 1 => surviving[active] = {summary[active]}

ActiveStory ==
    active # 0 => StatusLate /\ (~ session[active].writeFailure => LogSoFar /\ EndSoFar)

(* A text that calls its session completed or interrupted. *)
TellsEnd(t) == t.kind = "written" /\ t.status \in Ending

(* The session that text t calls finished is told whole. *)
Whole(s, t) ==
    LET l == log[s] IN
    /\ Len(l) = t.events /\ synced[s] = Len(l)
    /\ Len(l) >= 2 /\ l[1] = "started" /\ l[Len(l)] = t.status
    /\ \A i \in 2..Len(l) - 1 : l[i] \in {"event", "panic"}

(* The sessions that are not active. *)
Settled(s) ==
    /\ s > started =>
         session[s] = NewSession /\ log[s] = <<>> /\ synced[s] = 0 /\ surviving[s] = {Absent}
    /\ \A t \in surviving[s] : TellsEnd(t) =>
         /\ s = active => Closing(todo) /\ Len(todo) <= 2
         /\ ~ t.warned => Whole(s, t)
    /\ s \in 1..started /\ s # active /\ s \notin killed /\ ~ session[s].writeFailure =>
         \A t \in surviving[s] : t.kind = "written" => t.status \in Ending

StoryInv == Telling(todo) /\ ActiveStory /\ \A s \in Sessions : Settled(s)

-----------------------------------------------------------------------------
(* A session that is not active is left as it is. *)
LEMMA IdleSettled ==
    ASSUME TypeInv, NEW s \in Sessions, Settled(s), s # active, s # active',
           session'[s] = session[s], log'[s] = log[s], synced'[s] = synced[s],
           surviving'[s] = surviving[s], killed \subseteq killed',
           started' \in Nat, started' >= started, s \in 1..started' => s \in 1..started
    PROVE  Settled(s)'
<1>1. s \in Nat /\ s >= 1 /\ started \in Nat
  BY DEF Sessions, TypeInv, TypeOK
<1>2. s > started' => s > started
  BY <1>1
<1>3. \A t : Whole(s, t) => Whole(s, t)'
  BY DEF Whole
<1> QED
  BY <1>2, <1>3 DEF Settled, TellsEnd

(* The active session before the last two steps of its ending. *)
LEMMA EarlySettled ==
    ASSUME TypeInv, active # 0, Settled(active), active' = active, started' = started,
           ~ (Closing(todo) /\ Len(todo) <= 2),
           surviving'[active] \subseteq surviving[active] \cup {Absent, Partial}
    PROVE  Settled(active)'
<1>1. active \in 1..started /\ active \in Sessions
  BY ActiveIsStarted DEF TypeInv
<1>2. ~ (active' > started') /\ active' = active
  BY <1>1 DEF TypeInv, TypeOK
<1>3. ~ TellsEnd(Absent) /\ ~ TellsEnd(Partial)
  BY DEF TellsEnd, Absent, Partial
<1>4. \A t \in surviving'[active] : ~ TellsEnd(t)
  BY <1>3 DEF Settled
<1> QED
  BY <1>2, <1>4 DEF Settled, TellsEnd

(* A step on the summary, or on a file of its own. *)
LEMMA QuietStep ==
    ASSUME TypeInv, Telling(todo), ActiveStory, todo # <<>>, todo' = Tail(todo),
           active # 0, active' = active, session' = session, log' = log, synced' = synced,
           ~ At("append"), ~ At("sync"), ~ At("finish"), ~ At("close"),
           Closing(todo) /\ Len(todo) = 3 => summary'[active] = Text(active),
           Closing(todo) /\ Len(todo) = 2 =>
               summary' = summary /\ surviving'[active] = {summary[active]}
    PROVE  Telling(todo)' /\ ActiveStory'
<1> DEFINE n == Len(todo)
           l == log[active]
<1>1. TodoInv
  BY DEF TypeInv
<1>2. /\ Telling(todo') /\ Len(todo') = n - 1
      /\ Closing(todo') <=> Closing(todo) /\ n >= 2
      /\ \A i \in 1..Len(todo') : todo'[i] = todo[i + 1]
      /\ Fresh(todo') <=> Fresh(todo)
  BY <1>1, AheadAfter
<1>3. n \in Nat /\ n >= 1 /\ (Closing(todo) => n # 5 /\ n # 9 /\ n # 10 /\ n <= 10)
  BY <1>1, Ahead DEF At
<1>4. ~ At("sync")'
  <2>1. todo' # <<>> => ~ (Head(todo').do = "sync")
    BY <1>1, NextStep
  <2> QED
    BY <2>1 DEF At
<1> HIDE DEF n
<1>5. StatusLate'
  <2>1. session[active].status = "active" \/ (Closing(todo) /\ n <= 4)
    BY DEF ActiveStory, StatusLate, n
  <2>2. Closing(todo) /\ n # 1
    => (n <= 4 => Closing(todo') /\ Len(todo') <= 4)
    BY <1>2, <1>3
  <2>3. Closing(todo) => n # 1
    BY <1>1, Ahead DEF n
  <2> QED
    BY <2>1, <2>2, <2>3 DEF StatusLate
<1>6. ASSUME ~ session[active].writeFailure PROVE LogSoFar' /\ EndSoFar'
  <2>1. /\ Len(l) = session[active].events + (IF At("sync") THEN 1 ELSE 0)
        /\ IF Fresh(todo) THEN l = <<>> ELSE Len(l) >= 1 /\ l[1] = "started"
        /\ \A i \in 2..Len(l) :
             l[i] \in {"event", "panic"} \/ (i = Len(l) /\ Closing(todo) /\ n <= 9)
    BY <1>6 DEF ActiveStory, LogSoFar, n
  <2>2. Closing(todo) =>
          /\ n <= 9 => Len(l) >= 2
          /\ n <= 9 /\ n >= 5 => l[Len(l)] = todo[n - 4].arg
          /\ n <= 4 => l[Len(l)] = session[active].status /\ session[active].status \in Ending
          /\ n <= 8 => synced[active] = Len(l)
          /\ n <= 2 => summary[active] = Text(active)
          /\ n <= 1 => surviving[active] = {summary[active]}
    BY <1>6 DEF ActiveStory, EndSoFar, n
  <2>3. Closing(todo) => n # 1
    BY <1>1, Ahead DEF n
  <2>4. log'[active'] = l /\ session'[active'] = session[active] /\ synced'[active'] = synced[active]
    OBVIOUS
  <2>5. LogSoFar'
    <3>1. Closing(todo) /\ n <= 9 => Closing(todo') /\ Len(todo') <= 9
      BY <1>2, <1>3, <2>3
    <3> HIDE DEF l
    <3> QED
      BY <1>2, <1>4, <2>1, <2>4, <3>1 DEF LogSoFar
  <2>6. ASSUME Closing(todo')
        PROVE  /\ Len(l) >= 2
               /\ Len(todo') >= 5 => l[Len(l)] = todo'[Len(todo') - 4].arg
               /\ Len(todo') <= 4 =>
                    l[Len(l)] = session[active].status /\ session[active].status \in Ending
               /\ synced[active] = Len(l)
               /\ Len(todo') <= 2 => summary'[active] = Text(active)
               /\ Len(todo') <= 1 => surviving'[active] = {summary'[active]}
    <3>1. Closing(todo) /\ n >= 2 /\ n <= 8
      BY <1>2, <1>3, <2>6
    <3>2. Len(todo') >= 5 => n >= 5 /\ n - 4 >= 2 /\ Len(todo') - 4 \in 1..Len(todo')
                              /\ (Len(todo') - 4) + 1 = n - 4
      BY <1>2, <1>3
    <3>3. Len(todo') >= 5 => todo'[Len(todo') - 4] = todo[n - 4]
      BY <1>2, <3>2
    <3>4. Len(todo') <= 4 => n <= 4
      BY <1>2, <1>3, <3>1
    <3>5. Len(todo') <= 2 => n <= 3 /\ (n # 3 => n <= 2 /\ n = 2)
      BY <1>2, <1>3, <3>1
    <3>6. Len(todo') <= 2 => summary'[active] = Text(active)
      <4>1. n = 3 => summary'[active] = Text(active)
        BY <3>1 DEF n
      <4>2. n = 2 => summary' = summary
        BY <3>1 DEF n
      <4> QED
        BY <2>2, <3>1, <3>5, <4>1, <4>2
    <3>7. Len(todo') <= 1 => surviving'[active] = {summary'[active]}
      <4>1. Len(todo') <= 1 => n = 2
        BY <1>2, <1>3, <3>1
      <4>2. n = 2 => summary' = summary /\ surviving'[active] = {summary[active]}
        BY <3>1 DEF n
      <4> QED
        BY <4>1, <4>2
    <3>8. Len(l) >= 2 /\ synced[active] = Len(l)
      <4>1. n <= 9
        BY <1>3, <3>1
      <4> QED
        BY <2>2, <3>1, <4>1
    <3>9. Len(todo') >= 5 => l[Len(l)] = todo'[Len(todo') - 4].arg
      <4>1. Len(todo') >= 5 => n >= 5 /\ n <= 9
        BY <1>3, <3>1, <3>2
      <4> QED
        BY <2>2, <3>1, <3>3, <4>1
    <3>10. Len(todo') <= 4 =>
             l[Len(l)] = session[active].status /\ session[active].status \in Ending
      BY <2>2, <3>1, <3>4
    <3> QED
      BY <3>6, <3>7, <3>8, <3>9, <3>10
  <2>7. Text(active)' = Text(active)
    BY DEF Text
  <2>8. EndSoFar'
    <3> HIDE DEF l
    <3> QED
      BY <2>4, <2>6, <2>7 DEF EndSoFar
  <2> QED
    BY <2>5, <2>8
<1> QED
  BY <1>2, <1>5, <1>6 DEF ActiveStory

(* The log grows. *)
LEMMA AppendStory ==
    ASSUME TypeInv, SummaryInv, Telling(todo), ActiveStory, AppendLine
    PROVE  Telling(todo)' /\ ActiveStory'
<1> USE DEF memoryVars, diskVars, boundVars
<1> DEFINE n == Len(todo)
           l == log[active]
           e == Head(todo).arg
           w == WithLine(l, e)
<1>1. /\ TodoInv /\ todo # <<>> /\ todo' = Tail(todo) /\ At("append")
      /\ UNCHANGED <<active, session, synced>>
      /\ log' = [log EXCEPT ![active] = w]
  BY DEF TypeInv, AppendLine, GoOn, At
<1>2. /\ Telling(todo') /\ Len(todo') = n - 1
      /\ Closing(todo') <=> Closing(todo) /\ n >= 2
      /\ \A i \in 1..Len(todo') : todo'[i] = todo[i + 1]
      /\ Fresh(todo') <=> Fresh(todo) /\ ~ (At("append") /\ e = "started")
  BY <1>1, AheadAfter
<1>3. /\ n \in Nat /\ n >= 1
      /\ \/ e = "started" /\ ~ Closing(todo) /\ n = 5 /\ Fresh(todo)
         \/ e \in {"event", "panic"} /\ ~ Closing(todo) /\ ~ Fresh(todo)
         \/ e \in Ending /\ Closing(todo) /\ n = 10 /\ todo[6].arg = e /\ ~ Fresh(todo)
  BY <1>1, Ahead
<1>4. active \in Sessions /\ active # 0
  BY <1>1, ActiveIsStarted DEF TypeInv, TodoInv, At
<1>5. l \in Seq(Line) /\ Len(l) \in Nat /\ log'[active] = w
  BY <1>1, <1>4 DEF TypeInv, DiskType
<1>6. e \in Event
  BY <1>3 DEF Event, Ending
<1>7. l \in Seq(Event) => w \in Seq(Event) /\ Len(w) = Len(l) + 1 /\ w[Len(l) + 1] = e
                          /\ \A i \in 1..Len(l) : w[i] = l[i]
  <2>1. /\ \A i \in 1..Len(l) : l[i] \in Event => w[i] = l[i]
        /\ l \in Seq(Event) => w \in Seq(Event) /\ Len(w) = Len(l) + 1 /\ w[Len(l) + 1] = e
    BY <1>5, <1>6, LineWritten
  <2>2. l \in Seq(Event) => \A i \in 1..Len(l) : l[i] \in Event
    BY ElementOfSeq
  <2> QED
    BY <2>1, <2>2
<1> HIDE DEF n, l, e, w
<1>8. StatusLate'
  <2>1. session[active].status = "active"
    BY <1>3, <1>4 DEF ActiveStory, StatusLate, n
  <2> QED
    BY <1>1, <2>1 DEF StatusLate
<1>9. ASSUME ~ session[active].writeFailure PROVE LogSoFar' /\ EndSoFar'
  <2>1. /\ Len(l) = session[active].events
        /\ IF Fresh(todo) THEN l = <<>> ELSE Len(l) >= 1 /\ l[1] = "started"
        /\ \A i \in 2..Len(l) :
             l[i] \in {"event", "panic"} \/ (i = Len(l) /\ Closing(todo) /\ n <= 9)
    <3>1. session[active].events \in Nat /\ ~ At("sync")
      BY <1>1, <1>4 DEF TypeInv, TypeOK, At
    <3>2. LogSoFar
      BY <1>4, <1>9 DEF ActiveStory
    <3> QED
      BY <3>1, <3>2 DEF LogSoFar, n, l
  <2>2. l \in Seq(Event)
    BY <1>4, <1>9 DEF SummaryInv, Counted, l
  <2>3. /\ w \in Seq(Event) /\ Len(w) = Len(l) + 1 /\ w[Len(l) + 1] = e
        /\ \A i \in 1..Len(l) : w[i] = l[i]
    BY <1>7, <2>2
  <2>4. \A i \in 2..Len(l) : l[i] \in {"event", "panic"}
    BY <1>3, <2>1
  <2>5. Len(w) >= 1 /\ w[1] = "started" /\ ~ Fresh(todo')
    <3>1. CASE Fresh(todo)
      <4>1. l = <<>> /\ e = "started"
        BY <1>3, <2>1, <3>1, <1>6
      <4>2. Len(l) = 0
        BY <4>1
      <4>3. Len(w) = 1 /\ w[1] = e
        BY <2>3, <4>2
      <4> QED
        BY <1>1, <1>2, <4>1, <4>3
    <3>2. CASE ~ Fresh(todo)
      <4>1. 1 \in 1..Len(l) /\ l[1] = "started"
        BY <1>5, <2>1, <3>2
      <4> QED
        BY <1>2, <1>5, <2>3, <3>2, <4>1
    <3> QED
      BY <3>1, <3>2
  <2>6. Len(w) = session'[active'].events + (IF At("sync")' THEN 1 ELSE 0)
    <3>1. n >= 2 /\ todo[2].do = "sync"
      BY <1>1, Ahead DEF n
    <3>2. Len(todo') >= 1 /\ 1 \in 1..Len(todo') /\ todo'[1] = todo[1 + 1] /\ 1 + 1 = 2
      BY <1>2, <1>3, <3>1
    <3>3. todo' # <<>> /\ Head(todo') = todo'[1]
      <4>1. Orderly(todo')
        BY <1>1, NextStep
      <4> QED
        BY <3>2, <4>1 DEF Orderly
    <3>4. At("sync")'
      BY <3>1, <3>2, <3>3 DEF At
    <3> QED
      BY <1>1, <2>1, <2>3, <3>4
  <2>7. \A i \in 2..Len(w) :
          w[i] \in {"event", "panic"} \/ (i = Len(w) /\ Closing(todo') /\ Len(todo') <= 9)
    <3> SUFFICES ASSUME NEW i \in 2..Len(w)
                 PROVE  w[i] \in {"event", "panic"}
                          \/ (i = Len(w) /\ Closing(todo') /\ Len(todo') <= 9)
      OBVIOUS
    <3>1. CASE i <= Len(l)
      <4>1. i \in 1..Len(l) /\ i \in 2..Len(l)
        BY <1>5, <2>3, <3>1
      <4> QED
        BY <2>3, <2>4, <4>1
    <3>2. CASE ~ (i <= Len(l))
      <4>1. i = Len(l) + 1
        BY <1>5, <2>3, <3>2
      <4>2. w[i] = e /\ i = Len(w)
        BY <2>3, <4>1
      <4>3. e # "started"
        <5>1. Len(l) # 0
          BY <1>5, <2>3, <4>1
        <5>2. l # <<>>
          BY <5>1
        <5> QED
          BY <1>3, <2>1, <5>2 DEF Ending
      <4>4. Closing(todo) => Closing(todo') /\ Len(todo') <= 9
        BY <1>2, <1>3
      <4> QED
        BY <1>3, <4>2, <4>3, <4>4
    <3> QED
      BY <3>1, <3>2
  <2>8. ASSUME Closing(todo')
        PROVE  Len(todo') = 9 /\ Len(w) >= 2 /\ w[Len(w)] = todo'[5].arg
    <3>1. Closing(todo) /\ n = 10 /\ todo[6].arg = e /\ ~ Fresh(todo)
      BY <1>2, <1>3, <2>8
    <3>2. Len(todo') = 9 /\ 5 \in 1..Len(todo') /\ 5 + 1 = 6
      BY <1>2, <3>1
    <3>3. todo'[5] = todo[6]
      BY <1>2, <3>2
    <3>4. Len(l) >= 1
      BY <2>1, <3>1
    <3> QED
      BY <1>5, <2>3, <3>1, <3>2, <3>3, <3>4
  <2>9. log'[active'] = w
    BY <1>1, <1>5
  <2>10. LogSoFar'
    BY <2>5, <2>6, <2>7, <2>9 DEF LogSoFar
  <2>11. EndSoFar'
    <3>1. /\ 9 - 4 = 5 /\ 9 <= 9 /\ 9 >= 5 /\ ~ (9 <= 4) /\ ~ (9 <= 8) /\ ~ (9 <= 2)
          /\ ~ (9 <= 1)
      OBVIOUS
    <3> QED
      BY <2>8, <2>9, <3>1, Zenon DEF EndSoFar
  <2> QED
    BY <2>10, <2>11
<1> QED
  BY <1>1, <1>2, <1>8, <1>9 DEF ActiveStory

(* The line is on the disk, and counts. *)
LEMMA SyncStory ==
    ASSUME TypeInv, Telling(todo), ActiveStory, Sync
    PROVE  Telling(todo)' /\ ActiveStory'
<1> USE DEF memoryVars, diskVars, boundVars
<1> DEFINE n == Len(todo)
           l == log[active]
<1>1. /\ TodoInv /\ todo # <<>> /\ todo' = Tail(todo) /\ At("sync")
      /\ UNCHANGED <<active, log>>
      /\ synced' = [synced EXCEPT ![active] = Len(log[active])]
      /\ session' = [session EXCEPT ![active].events = @ + 1]
  BY DEF TypeInv, Sync, GoOn, At
<1>2. /\ Telling(todo') /\ Len(todo') = n - 1
      /\ Closing(todo') <=> Closing(todo) /\ n >= 2
      /\ \A i \in 1..Len(todo') : todo'[i] = todo[i + 1]
      /\ Fresh(todo') <=> Fresh(todo)
  <2>1. ~ At("append")
    BY <1>1 DEF At
  <2> QED
    BY <1>1, <2>1, AheadAfter
<1>3. n \in Nat /\ n >= 1 /\ (Closing(todo) => n >= 6 /\ n <= 9)
  <2>1. /\ n \in Nat /\ n >= 1
        /\ Closing(todo) => /\ n <= 10 /\ n # 1 /\ n # 2 /\ n # 3 /\ n # 4 /\ n # 5 /\ n # 10
    BY <1>1, Ahead DEF At
  <2> HIDE DEF n
  <2> QED
    BY <2>1
<1>4. active \in Sessions /\ active # 0
  BY <1>1, ActiveIsStarted DEF TypeInv, TodoInv, At
<1>5. /\ synced'[active] = Len(l)
      /\ session'[active].events = session[active].events + 1
      /\ session'[active].status = session[active].status
      /\ session'[active].writeFailure = session[active].writeFailure
  BY <1>1, <1>4 DEF TypeInv, DiskType, TypeOK
<1>6. ~ At("sync")'
  <2>1. todo' # <<>> => ~ (Head(todo').do = "sync")
    BY <1>1, NextStep DEF At
  <2> QED
    BY <2>1 DEF At
<1> HIDE DEF n, l
<1>7. StatusLate'
  <2>1. session[active].status = "active"
    BY <1>3, <1>4 DEF ActiveStory, StatusLate, n
  <2> QED
    BY <1>1, <1>5, <2>1 DEF StatusLate
<1>8. ASSUME ~ session[active].writeFailure PROVE LogSoFar' /\ EndSoFar'
  <2>1. /\ Len(l) = session[active].events + 1
        /\ IF Fresh(todo) THEN l = <<>> ELSE Len(l) >= 1 /\ l[1] = "started"
        /\ \A i \in 2..Len(l) :
             l[i] \in {"event", "panic"} \/ (i = Len(l) /\ Closing(todo) /\ n <= 9)
    BY <1>1, <1>4, <1>8 DEF ActiveStory, LogSoFar, n, l
  <2>2. Closing(todo) => /\ Len(l) >= 2
                         /\ l[Len(l)] = todo[n - 4].arg
    <3>1. Closing(todo) => n <= 9 /\ n >= 5
      BY <1>3
    <3> QED
      BY <1>4, <1>8, <3>1 DEF ActiveStory, EndSoFar, n, l
  <2>3. log'[active'] = l
    BY <1>1 DEF l
  <2>4. LogSoFar'
    <3>1. Closing(todo) /\ n <= 9 => Closing(todo') /\ Len(todo') <= 9
      BY <1>2, <1>3
    <3> QED
      BY <1>1, <1>2, <1>5, <1>6, <2>1, <2>3, <3>1 DEF LogSoFar
  <2>5. ASSUME Closing(todo')
        PROVE  /\ Len(l) >= 2 /\ Len(todo') >= 5
               /\ l[Len(l)] = todo'[Len(todo') - 4].arg
               /\ synced'[active] = Len(l)
    <3>1. Closing(todo) /\ n >= 6
      BY <1>2, <1>3, <2>5
    <3>2. /\ Len(todo') >= 5 /\ Len(todo') - 4 \in 1..Len(todo')
          /\ (Len(todo') - 4) + 1 = n - 4
      BY <1>2, <1>3, <3>1
    <3>3. todo'[Len(todo') - 4] = todo[n - 4]
      BY <1>2, <3>2
    <3> QED
      BY <1>5, <2>2, <3>1, <3>2, <3>3
  <2>6. EndSoFar'
    <3>1. Len(todo') >= 5 => ~ (Len(todo') <= 4) /\ ~ (Len(todo') <= 2) /\ ~ (Len(todo') <= 1)
      BY <1>2, <1>3
    <3> QED
      BY <1>1, <2>3, <2>5, <3>1 DEF EndSoFar
  <2> QED
    BY <2>4, <2>6
<1> QED
  BY <1>1, <1>2, <1>5, <1>7, <1>8 DEF ActiveStory

(* The session gets its last status. *)
LEMMA StatusStory ==
    ASSUME TypeInv, Telling(todo), ActiveStory, SetStatus
    PROVE  Telling(todo)' /\ ActiveStory'
<1> USE DEF memoryVars, diskVars, boundVars
<1> DEFINE l == log[active]
<1>1. /\ TodoInv /\ todo # <<>> /\ todo' = Tail(todo) /\ At("finish")
      /\ UNCHANGED <<active, log, synced>>
      /\ session' = [session EXCEPT ![active].status = Head(todo).arg]
  BY DEF TypeInv, SetStatus, GoOn, At
<1>2. ~ At("append") /\ ~ At("sync")
  BY <1>1 DEF At
<1>3. /\ Closing(todo) /\ Len(todo) = 5 /\ Head(todo).arg \in Ending /\ Head(todo) = todo[1]
      /\ ~ Fresh(todo)
  BY <1>1, Ahead
<1>4. Telling(todo') /\ Len(todo') = 4 /\ Closing(todo') /\ ~ Fresh(todo')
  BY <1>1, <1>3, AheadAfter
<1>5. active \in Sessions /\ active # 0
  BY <1>1, ActiveIsStarted DEF TypeInv, TodoInv, At
<1>6. /\ session'[active].events = session[active].events
      /\ session'[active].status = Head(todo).arg
      /\ session'[active].writeFailure = session[active].writeFailure
  BY <1>1, <1>5 DEF TypeInv, TypeOK
<1>7. ~ At("sync")'
  <2>1. todo' # <<>> => ~ (Head(todo').do = "sync")
    BY <1>1, <1>2, NextStep
  <2> QED
    BY <2>1 DEF At
<1> HIDE DEF l
<1>8. StatusLate'
  BY <1>4 DEF StatusLate
<1>9. ASSUME ~ session[active].writeFailure PROVE LogSoFar' /\ EndSoFar'
  <2>1. /\ Len(l) = session[active].events
        /\ Len(l) >= 1 /\ l[1] = "started"
        /\ \A i \in 2..Len(l) : l[i] \in {"event", "panic"} \/ i = Len(l)
    <3>1. session[active].events \in Nat
      BY <1>5 DEF TypeInv, TypeOK
    <3>2. LogSoFar
      BY <1>5, <1>9 DEF ActiveStory
    <3> QED
      BY <1>2, <1>3, <3>1, <3>2 DEF LogSoFar, l
  <2>2. Len(l) >= 2 /\ l[Len(l)] = todo[5 - 4].arg /\ synced[active] = Len(l)
    BY <1>3, <1>5, <1>9 DEF ActiveStory, EndSoFar, l
  <2>3. log'[active'] = l /\ 5 - 4 = 1 /\ 4 <= 9 /\ 4 <= 4 /\ ~ (4 >= 5) /\ 4 <= 8
        /\ ~ (4 <= 2) /\ ~ (4 <= 1)
    BY <1>1 DEF l
  <2>4. LogSoFar'
    <3>1. session[active].events \in Nat
      BY <1>5 DEF TypeInv, TypeOK
    <3>2. Len(l) = session'[active'].events + (IF At("sync")' THEN 1 ELSE 0)
      BY <1>1, <1>6, <1>7, <2>1, <3>1
    <3>3. \A i \in 2..Len(l) :
            l[i] \in {"event", "panic"} \/ (i = Len(l) /\ Closing(todo') /\ Len(todo') <= 9)
      BY <1>4, <2>1, <2>3
    <3> QED
      BY <1>4, <2>1, <2>3, <3>2, <3>3, Zenon DEF LogSoFar
  <2>5. EndSoFar'
    BY <1>1, <1>3, <1>4, <1>6, <2>2, <2>3 DEF EndSoFar
  <2> QED
    BY <2>4, <2>5
<1> QED
  BY <1>1, <1>4, <1>6, <1>8, <1>9 DEF ActiveStory

(* A summary that calls the session finished tells the truth. *)
LEMMA EndIsWhole ==
    ASSUME TypeInv, ActiveStory, active # 0, At("write"), Telling(todo),
           ~ session[active].writeFailure, TellsEnd(Text(active))
    PROVE  Closing(todo) /\ Len(todo) = 3 /\ Whole(active, Text(active))
<1> DEFINE l == log[active]
           n == Len(todo)
<1>1. TodoInv /\ todo # <<>>
  BY DEF TypeInv, At
<1>2. session[active].status \in Ending /\ session[active].status # "active"
  BY DEF TellsEnd, Text, Ending
<1>3. Closing(todo) /\ n <= 4
  BY <1>2 DEF ActiveStory, StatusLate
<1>4. n = 3
  <2>1. n \in Nat /\ n >= 1 /\ n # 1 /\ n # 2 /\ n # 4
    BY <1>1, <1>3, Ahead DEF At
  <2> HIDE DEF n
  <2> QED
    BY <1>3, <2>1
<1>5. ~ Fresh(todo) /\ ~ At("sync")
  BY <1>1, <1>3, Ahead DEF At
<1>6. LogSoFar /\ EndSoFar
  BY DEF ActiveStory
<1>7. active \in Sessions /\ session[active].events \in Nat /\ l \in Seq(Line)
  BY ActiveIsStarted DEF TypeInv, TypeOK, DiskType
<1>8. /\ Len(l) = session[active].events
      /\ l[1] = "started"
      /\ \A i \in 2..Len(l) : l[i] \in {"event", "panic"} \/ i = Len(l)
  BY <1>5, <1>6, <1>7 DEF LogSoFar
<1>9. Len(l) >= 2 /\ l[Len(l)] = session[active].status /\ synced[active] = Len(l)
  BY <1>3, <1>4, <1>6 DEF EndSoFar
<1>10. Text(active).events = session[active].events /\ Text(active).status = session[active].status
  BY DEF Text
<1>11. \A i \in 2..Len(l) - 1 : i \in 2..Len(l) /\ i # Len(l)
  BY <1>7
<1> HIDE DEF l
<1>12. \A i \in 2..Len(l) - 1 : l[i] \in {"event", "panic"}
  BY <1>8, <1>11
<1> QED
  BY <1>3, <1>4, <1>8, <1>9, <1>10, <1>12 DEF Whole, l

(* The steps of the active session, as far as what survives is concerned. *)
LEMMA ActiveSettled ==
    ASSUME TypeInv, ActiveStory, Telling(todo), Settled(active), active # 0,
           AppendLine \/ Sync \/ Truncate \/ Write \/ Flush \/ PanicFile \/ SetStatus \/ Fail
    PROVE  Settled(active)'
<1> USE DEF memoryVars, diskVars, boundVars
<1>1. TodoInv /\ todo # <<>> /\ active \in Sessions /\ active' = active /\ started' = started
      /\ active \in 1..started /\ started \in Nat
  <2>1. TodoInv /\ todo # <<>> /\ active' = active /\ started' = started
    BY DEF TypeInv, AppendLine, Sync, Truncate, Write, Flush, PanicFile, SetStatus, Fail, At
  <2> QED
    BY <2>1, ActiveIsStarted DEF TypeInv
<1>2. surviving[active] \subseteq TextType /\ summary[active] \in surviving[active]
  BY <1>1 DEF TypeInv, TypeOK, DiskType
<1>3. CASE ~ (Closing(todo) /\ Len(todo) <= 2) /\ ~ Write
  <2>1. surviving'[active] \subseteq surviving[active] \cup {Absent, Partial}
    BY <1>1, <1>2, <1>3
    DEF AppendLine, Sync, Truncate, Flush, PanicFile, SetStatus, Fail, TypeInv, DiskType
  <2> QED
    BY <1>1, <1>3, <2>1, EarlySettled
<1>4. CASE Write
  <2>1. ~ (Closing(todo) /\ Len(todo) <= 2)
    <3>1. At("write")
      BY <1>4 DEF Write
    <3>2. Len(todo) \in Nat /\ Len(todo) >= 1
          /\ (Closing(todo) => Len(todo) # 1 /\ Len(todo) # 2)
      BY <1>1, <3>1, Ahead DEF At
    <3> DEFINE n == Len(todo)
    <3> HIDE DEF n
    <3>3. n \in Nat /\ n >= 1 /\ n # 1 /\ n # 2 => ~ (n <= 2)
      OBVIOUS
    <3> QED
      BY <3>2, <3>3 DEF n
  <2>2. /\ surviving'[active] = surviving[active] \cup {Text(active)}
        /\ log' = log /\ synced' = synced /\ todo' = Tail(todo) /\ At("write")
    BY <1>1, <1>4 DEF Write, GoOn, TypeInv, DiskType
  <2>3. ASSUME NEW t \in surviving'[active], TellsEnd(t)
        PROVE  /\ Closing(todo') /\ Len(todo') <= 2
               /\ ~ t.warned => Whole(active, t)'
    <3>1. t = Text(active)
      BY <2>1, <2>2, <2>3 DEF Settled
    <3>2. session[active].status \in Ending /\ session[active].status # "active"
      BY <2>3, <3>1 DEF TellsEnd, Text, Ending
    <3>3. Closing(todo) /\ Len(todo) <= 4
      BY <1>1, <3>2 DEF ActiveStory, StatusLate
    <3>4. Len(todo) = 3
      <4> DEFINE n == Len(todo)
      <4>1. n \in Nat /\ n >= 1 /\ n # 1 /\ n # 2 /\ n # 4 /\ n <= 4
        BY <1>1, <2>2, <3>3, Ahead DEF At
      <4> HIDE DEF n
      <4>2. n = 3
        BY <4>1
      <4> QED
        BY <4>2 DEF n
    <3>5. Closing(todo') /\ Len(todo') = 2
      BY <1>1, <2>2, <3>3, <3>4, AheadAfter
    <3>6. ~ t.warned => Whole(active, t)
      <4>1. ~ t.warned => ~ session[active].writeFailure
        BY <3>1 DEF Text
      <4> QED
        BY <2>2, <2>3, <3>1, <4>1, EndIsWhole
    <3>7. Whole(active, t) => Whole(active, t)'
      BY <1>1, <2>2 DEF Whole
    <3> QED
      BY <3>5, <3>6, <3>7
  <2> QED
    BY <1>1, <2>3 DEF Settled, TellsEnd
<1>5. CASE Closing(todo) /\ Len(todo) <= 2
  <2>1. Len(todo) \in Nat /\ Len(todo) >= 1 /\ (Len(todo) = 1 => At("close"))
        /\ (Len(todo) = 2 => At("flush"))
    BY <1>1, <1>5, Ahead
  <2>2. ~ At("close")
    BY DEF AppendLine, Sync, Truncate, Write, Flush, PanicFile, SetStatus, Fail, At
  <2>3. Len(todo) = 2 /\ At("flush")
    <3> DEFINE n == Len(todo)
    <3>1. n \in Nat /\ n >= 1 /\ n <= 2 /\ n # 1
      BY <1>5, <2>1, <2>2
    <3> HIDE DEF n
    <3>2. n = 2
      BY <3>1
    <3> QED
      BY <2>1, <3>2 DEF n
  <2>4. Flush \/ Fail
    BY <2>3 DEF AppendLine, Sync, Truncate, Write, PanicFile, SetStatus, At
  <2>5. /\ log' = log /\ synced' = synced
        /\ surviving'[active] \subseteq surviving[active]
    <3>1. CASE Flush
      BY <1>1, <1>2, <3>1 DEF Flush, TypeInv, DiskType
    <3>2. CASE Fail
      BY <2>3, <3>2 DEF Fail, At
    <3> QED
      BY <2>4, <3>1, <3>2
  <2>6. Closing(todo') /\ Len(todo') <= 2
    <3>1. todo' = Tail(todo) \/ todo' = SubSeq(todo, 1 + 1, Len(todo))
      <4>1. CASE Flush
        BY <4>1 DEF Flush, GoOn
      <4>2. CASE Fail
        BY <2>3, <4>2 DEF Fail, At, GivenUp
      <4> QED
        BY <2>4, <4>1, <4>2
    <3>2. Closing(Tail(todo)) /\ Len(Tail(todo)) = 1
      BY <1>1, <1>5, <2>3, AheadAfter
    <3>3. SubSeq(todo, 1 + 1, Len(todo)) = Tail(todo)
      <4>1. todo \in Seq(Step)
        BY <1>1 DEF TodoInv, Orderly
      <4>2. Tail(todo) = SubSeq(todo, 2, Len(todo)) /\ 1 + 1 = 2
        BY <1>1, <4>1, TailIsSubSeq
      <4> QED
        BY <4>2
    <3>4. todo' = Tail(todo) /\ 1 <= 2
      BY <3>1, <3>3
    <3> QED
      BY <3>2, <3>4
  <2>7. \A t : Whole(active, t) => Whole(active, t)'
    BY <1>1, <2>5 DEF Whole
  <2> QED
    BY <1>1, <2>5, <2>6, <2>7 DEF Settled, TellsEnd
<1> QED
  BY <1>3, <1>4, <1>5

(* They leave the other sessions as they were. *)
LEMMA OtherSettled ==
    ASSUME TypeInv, NEW s \in Sessions, s # active, Settled(s), todo # <<>>,
           AppendLine \/ Sync \/ Truncate \/ Write \/ Flush \/ PanicFile \/ SetStatus \/ Fail
    PROVE  Settled(s)'
<1> USE DEF memoryVars, diskVars, boundVars
<1>1. active' = active /\ started' = started /\ killed' = killed /\ started \in Nat
  BY DEF AppendLine, Sync, Truncate, Write, Flush, PanicFile, SetStatus, Fail, GoOn, TypeInv, TypeOK
<1>2. session'[s] = session[s]
  BY DEF AppendLine, Sync, Truncate, Write, Flush, PanicFile, SetStatus, Fail, TypeInv, TypeOK
<1>3. log'[s] = log[s] /\ synced'[s] = synced[s]
  BY DEF AppendLine, Sync, Truncate, Write, Flush, PanicFile, SetStatus, Fail, TypeInv, DiskType
<1>4. surviving'[s] = surviving[s]
  BY DEF AppendLine, Sync, Truncate, Write, Flush, PanicFile, SetStatus, Fail, TypeInv, DiskType
<1> QED
  BY <1>1, <1>2, <1>3, <1>4, IdleSettled

(* A failure is remembered; the ending goes on where it can. *)
LEMMA FailStory ==
    ASSUME TypeInv, Telling(todo), ActiveStory, Fail
    PROVE  Telling(todo)' /\ ActiveStory'
<1> DEFINE step == Head(todo).do
           k == GivenUp(step)
           n == Len(todo)
<1>1. /\ TodoInv /\ todo # <<>> /\ todo' = SubSeq(todo, k + 1, n) /\ active' = active
      /\ step \in {"open", "append", "sync", "truncate", "write", "flush", "panic"}
  BY DEF TypeInv, Fail
<1>2. k \in Nat /\ k >= 1
  BY DEF GivenUp
<1>3. Orderly(todo)
  BY <1>1 DEF TodoInv
<1>4. n \in Nat /\ n >= 1
  BY <1>1, Ahead
<1> HIDE DEF k
<1>5. /\ Telling(todo')
      /\ Closing(todo') <=> Closing(todo) /\ k < n
      /\ Len(todo') = IF k < n THEN n - k ELSE 0
  BY <1>1, <1>2, <1>3, RestTelling, RestOrderly
<1>6. ASSUME active # 0 PROVE StatusLate' /\ session'[active'].writeFailure
  <2>1. step # "open"
    BY <1>1, <1>6 DEF TodoInv, At
  <2>2. session' = [session EXCEPT ![active].writeFailure = TRUE] /\ active \in Sessions
    BY <1>6, <2>1, ActiveIsStarted DEF Fail, TypeInv
  <2>3. /\ session'[active'].writeFailure
        /\ session'[active'].status = session[active].status
    BY <1>1, <2>2 DEF TypeInv, TypeOK
  <2>4. ASSUME Closing(todo), n <= 4 PROVE Closing(todo') /\ Len(todo') <= 4
    <3>1. /\ n = 1 => At("close")
          /\ n = 2 => At("flush")
          /\ n = 3 => At("write")
          /\ n = 4 => At("truncate")
      BY <1>1, <2>4, Ahead
    <3>2. /\ n # 1
          /\ n = 2 => k = 1
          /\ n = 3 => k = 2
          /\ n = 4 => k = 3
      BY <1>1, <3>1 DEF At, GivenUp, k
    <3> HIDE DEF n
    <3>3. n = 2 \/ n = 3 \/ n = 4
      BY <1>4, <2>4, <3>2
    <3>4. k < n /\ n - k = 1
      BY <3>2, <3>3
    <3> QED
      BY <1>5, <2>4, <3>4
  <2>5. StatusLate'
    BY <1>6, <2>3, <2>4 DEF ActiveStory, StatusLate
  <2> QED
    BY <2>3, <2>5
<1> QED
  BY <1>1, <1>5, <1>6 DEF ActiveStory

(* Every step goes on with the story. *)
LEMMA StoryInductive == TypeInv /\ SummaryInv /\ StoryInv /\ [Next]_vars => StoryInv'
<1> SUFFICES ASSUME TypeInv, SummaryInv, StoryInv, [Next]_vars
             PROVE  Telling(todo)' /\ ActiveStory' /\ \A s \in Sessions : Settled(s)'
  BY DEF StoryInv, Sessions
<1> USE DEF memoryVars, diskVars, boundVars
<1>1. /\ TypeOK /\ DiskType /\ TodoInv
      /\ Telling(todo) /\ ActiveStory /\ \A s \in Sessions : Settled(s)
  BY DEF TypeInv, StoryInv
<1>2. /\ active # 0 => active \in Sessions
      /\ started \in Nat /\ 0 \notin Sessions /\ \A s \in Sessions : s \in Nat
  BY <1>1, ActiveIsStarted DEF Sessions
<1>3. Telling(<<>>) /\ ~ Fresh(<<>>) /\ ~ Closing(<<>>)
  BY DEF Telling, Fresh, Closing
<1>4. ASSUME NEW c \in Caller, NEW op \in {"start", "stop", "interrupt", "record", "panic"}, Call(c, op)
      PROVE  Telling(todo)' /\ ActiveStory' /\ \A s \in Sessions : Settled(s)'
  <2>1. UNCHANGED <<active, todo, started, session, log, synced, summary, surviving, killed>>
    BY <1>4 DEF Call
  <2> QED
    BY <1>1, <2>1 DEF ActiveStory, StatusLate, LogSoFar, EndSoFar, At, Text, Settled, Whole
<1>5. ASSUME NEW c \in Caller, Acquire(c)
      PROVE  Telling(todo)' /\ ActiveStory' /\ \A s \in Sessions : Settled(s)'
  <2> DEFINE t == Steps(call[c])
             l == log[active]
  <2>1. /\ todo = <<>> /\ todo' = t
        /\ UNCHANGED <<active, started, session, log, synced, summary, surviving, killed>>
    BY <1>1, <1>5 DEF Acquire, TypeOK
  <2>2. call[c] \in {"start", "stop", "interrupt", "record", "panic"}
    BY <1>1, <1>5 DEF Acquire, TypeOK
  <2>3. /\ Telling(t) /\ ~ Fresh(t)
        /\ Closing(t) => Len(t) = 10
        /\ t # <<>> => Head(t).do \in {"open", "append"}
    BY <2>2, StepsOrderly
  <2> HIDE DEF t
  <2>4. ~ At("sync") /\ ~ At("sync")'
    BY <2>1, <2>3 DEF At
  <2>5. ActiveStory'
    <3> SUFFICES ASSUME active # 0
                 PROVE  StatusLate' /\ (~ session[active].writeFailure => LogSoFar' /\ EndSoFar')
      BY <2>1 DEF ActiveStory
    <3>1. StatusLate'
      BY <1>1, <1>3, <2>1 DEF ActiveStory, StatusLate
    <3>2. ASSUME ~ session[active].writeFailure PROVE LogSoFar'
      <4>1. LogSoFar
        BY <1>1, <3>2 DEF ActiveStory
      <4>2. /\ Len(l) = session[active].events + (IF At("sync") THEN 1 ELSE 0)
            /\ Len(l) >= 1 /\ l[1] = "started"
            /\ \A i \in 2..Len(l) : l[i] \in {"event", "panic"}
        BY <1>3, <2>1, <4>1 DEF LogSoFar
      <4> QED
        BY <2>1, <2>3, <2>4, <4>2 DEF LogSoFar
    <3>3. EndSoFar'
      <4>1. ~ (10 <= 9) /\ ~ (10 <= 4) /\ ~ (10 <= 8) /\ ~ (10 <= 2) /\ ~ (10 <= 1)
        OBVIOUS
      <4> QED
        BY <2>1, <2>3, <4>1, Zenon DEF EndSoFar
    <3> QED
      BY <3>1, <3>2, <3>3
  <2>6. ASSUME NEW s \in Sessions PROVE Settled(s)'
    <3>1. CASE s = active
      <4>1. active # 0 /\ ~ (Closing(todo) /\ Len(todo) <= 2) /\ surviving'[active] = surviving[active]
        BY <1>2, <1>3, <2>1, <3>1
      <4> QED
        BY <1>1, <2>1, <3>1, <4>1, EarlySettled
    <3>2. CASE s # active
      BY <1>1, <1>2, <2>1, <3>2, IdleSettled
    <3> QED
      BY <3>1, <3>2
  <2> QED
    BY <2>1, <2>3, <2>5, <2>6
<1>6. ASSUME Release PROVE Telling(todo)' /\ ActiveStory' /\ \A s \in Sessions : Settled(s)'
  <2>1. UNCHANGED <<active, todo, started, session, log, synced, summary, surviving, killed>>
    BY <1>6 DEF Release
  <2> QED
    BY <1>1, <2>1 DEF ActiveStory, StatusLate, LogSoFar, EndSoFar, At, Text, Settled, Whole
<1>7. ASSUME Open PROVE Telling(todo)' /\ ActiveStory' /\ \A s \in Sessions : Settled(s)'
  <2> DEFINE t == WriteSummary \o Record("started")
             new == started + 1
  <2>1. /\ active = 0 /\ started < MaxSessions
        /\ todo' = t /\ active' = new /\ started' = new
        /\ UNCHANGED <<session, log, synced, summary, surviving, killed>>
    BY <1>1, <1>7 DEF Open, TodoInv, At
  <2>2. Telling(t) /\ Fresh(t) /\ ~ Closing(t) /\ t # <<>> /\ Head(t).do = "truncate"
    BY OpeningOrderly
  <2> HIDE DEF t, new
  <2>3. new \in Sessions /\ new > started /\ new \in Nat /\ new >= started
    BY <1>2, <2>1, RecorderAssumption DEF Sessions, new
  <2>4. session[new] = NewSession /\ log[new] = <<>> /\ synced[new] = 0 /\ surviving[new] = {Absent}
    BY <1>1, <2>3 DEF Settled
  <2>5. ~ At("sync")'
    BY <2>1, <2>2 DEF At
  <2>6. ActiveStory'
    <3>1. StatusLate'
      BY <2>1, <2>4 DEF StatusLate, NewSession
    <3>2. LogSoFar'
      <4>1. Len(<<>>) = 0 /\ 2..0 = {}
        OBVIOUS
      <4> QED
        BY <2>1, <2>2, <2>4, <2>5, <4>1 DEF LogSoFar, NewSession
    <3>3. EndSoFar'
      BY <2>1, <2>2 DEF EndSoFar
    <3> QED
      BY <3>1, <3>2, <3>3 DEF ActiveStory
  <2>7. ASSUME NEW s \in Sessions PROVE Settled(s)'
    <3>1. CASE s = new
      <4>1. surviving'[s] = {Absent} /\ ~ (s > started') /\ s = active'
        BY <2>1, <2>3, <2>4, <3>1
      <4>2. \A u \in surviving'[s] : ~ TellsEnd(u)
        BY <4>1 DEF TellsEnd, Absent
      <4> QED
        BY <4>1, <4>2 DEF Settled, TellsEnd
    <3>2. CASE s # new
      <4>1. s # active /\ s # active' /\ (s \in 1..started' => s \in 1..started)
        BY <1>2, <2>1, <3>2 DEF new
      <4> QED
        BY <1>1, <2>1, <2>3, <4>1, IdleSettled
    <3> QED
      BY <3>1, <3>2
  <2> QED
    BY <2>1, <2>2, <2>6, <2>7
<1>8. ASSUME todo # <<>>, active # 0,
             AppendLine \/ Sync \/ Truncate \/ Write \/ Flush \/ PanicFile \/ SetStatus \/ Fail
      PROVE  \A s \in Sessions : Settled(s)'
  <2>1. ASSUME NEW s \in Sessions, s # active PROVE Settled(s)'
    BY <1>1, <1>2, <1>8, <2>1, OtherSettled
  <2>2. ASSUME NEW s \in Sessions, s = active PROVE Settled(s)'
    <3>1. active' = active
      BY <1>8 DEF AppendLine, Sync, Truncate, Write, Flush, PanicFile, SetStatus, Fail
    <3>2. Settled(active) /\ Settled(active)'
      BY <1>1, <1>2, <1>8, ActiveSettled
    <3> QED
      BY <2>2, <3>1, <3>2
  <2> QED
    BY <2>1, <2>2
<1>9. ASSUME AppendLine \/ Sync \/ Truncate \/ Write \/ Flush \/ PanicFile \/ SetStatus
      PROVE  todo # <<>> /\ active # 0 /\ ~ At("open") /\ active' = active /\ todo' = Tail(todo)
  BY <1>1, <1>9
  DEF AppendLine, Sync, Truncate, Write, Flush, PanicFile, SetStatus, GoOn, At, TodoInv
<1>10. ASSUME AppendLine PROVE Telling(todo)' /\ ActiveStory' /\ \A s \in Sessions : Settled(s)'
  BY <1>1, <1>8, <1>9, <1>10, AppendStory
<1>11. ASSUME Sync PROVE Telling(todo)' /\ ActiveStory' /\ \A s \in Sessions : Settled(s)'
  BY <1>1, <1>8, <1>9, <1>11, SyncStory
<1>12. ASSUME SetStatus PROVE Telling(todo)' /\ ActiveStory' /\ \A s \in Sessions : Settled(s)'
  BY <1>1, <1>8, <1>9, <1>12, StatusStory
<1>13. ASSUME Truncate \/ Write \/ Flush \/ PanicFile
       PROVE  Telling(todo)' /\ ActiveStory' /\ \A s \in Sessions : Settled(s)'
  <2>1. /\ todo # <<>> /\ active # 0 /\ active' = active /\ todo' = Tail(todo)
        /\ session' = session /\ log' = log /\ synced' = synced
        /\ ~ At("append") /\ ~ At("sync") /\ ~ At("finish") /\ ~ At("close")
    BY <1>9, <1>13 DEF Truncate, Write, Flush, PanicFile, At
  <2>2. Closing(todo) /\ Len(todo) = 3 => summary'[active] = Text(active)
    <3>1. Closing(todo) /\ Len(todo) = 3 => Write
      BY <1>1, <1>13, <2>1, Ahead DEF Truncate, Flush, PanicFile, At
    <3> QED
      BY <1>1, <1>2, <2>1, <3>1 DEF Write, DiskType
  <2>3. Closing(todo) /\ Len(todo) = 2 =>
          summary' = summary /\ surviving'[active] = {summary[active]}
    <3>1. Closing(todo) /\ Len(todo) = 2 => Flush
      BY <1>1, <1>13, <2>1, Ahead DEF Truncate, Write, PanicFile, At
    <3> QED
      BY <1>1, <1>2, <2>1, <3>1 DEF Flush, DiskType
  <2> QED
    BY <1>1, <1>8, <1>13, <2>1, <2>2, <2>3, QuietStep
<1>14. ASSUME Fail PROVE Telling(todo)' /\ ActiveStory' /\ \A s \in Sessions : Settled(s)'
  <2>1. todo # <<>>
    BY <1>14 DEF Fail
  <2>2. \A s \in Sessions : Settled(s)'
    <3>1. CASE active # 0
      BY <1>8, <1>14, <2>1, <3>1
    <3>2. CASE active = 0
      BY <1>1, <1>2, <1>14, <2>1, <3>2, OtherSettled
    <3> QED
      BY <3>1, <3>2
  <2> QED
    BY <1>1, <1>14, <2>2, FailStory
<1>15. ASSUME Close PROVE Telling(todo)' /\ ActiveStory' /\ \A s \in Sessions : Settled(s)'
  <2>1. /\ todo # <<>> /\ At("close") /\ active # 0 /\ active' = 0 /\ todo' = Tail(todo)
        /\ UNCHANGED <<session, started, log, summary, surviving, killed>>
        /\ synced' = synced \/ synced' = [synced EXCEPT ![active] = Len(log[active])]
    BY <1>1, <1>15 DEF Close, GoOn, At, TodoInv
  <2>2. Closing(todo) /\ Len(todo) = 1
    BY <1>1, <2>1, Ahead
  <2>3. Telling(todo') /\ ActiveStory'
    BY <1>1, <2>1, AheadAfter DEF ActiveStory
  <2>4. ASSUME NEW s \in Sessions PROVE Settled(s)'
    <3>1. CASE s # active
      <4>1. synced'[s] = synced[s] /\ s # active' /\ started' >= started
        BY <1>1, <1>2, <2>1, <3>1 DEF DiskType
      <4> QED
        BY <1>1, <1>2, <2>1, <3>1, <4>1, IdleSettled
    <3>2. CASE s = active
      <4>1. s \in 1..started /\ ~ (s > started') /\ s # active'
        <5>1. active \in 1..started
          BY <1>1, <2>1, ActiveIsStarted
        <5> QED
          BY <1>2, <2>1, <3>2, <5>1
      <4>2. synced'[s] = synced[s] \/ synced'[s] = Len(log[s])
        BY <1>1, <2>1, <3>2 DEF DiskType
      <4>3. \A t \in surviving[s] : TellsEnd(t) /\ ~ t.warned => Whole(s, t)'
        BY <1>1, <2>1, <4>2 DEF Settled, Whole
      <4>4. ~ session[s].writeFailure =>
              \A t \in surviving[s] : t.kind = "written" => t.status \in Ending
        <5>1. ~ session[s].writeFailure =>
                surviving[s] = {Text(s)} /\ session[s].status \in Ending
          <6>1. 1 <= 4 /\ 1 <= 2 /\ 1 <= 1
            OBVIOUS
          <6> QED
            BY <1>1, <2>1, <2>2, <3>2, <6>1 DEF ActiveStory, EndSoFar
        <5> QED
          BY <5>1 DEF Text
      <4> QED
        BY <2>1, <4>1, <4>3, <4>4 DEF Settled, TellsEnd
    <3> QED
      BY <3>1, <3>2
  <2> QED
    BY <2>3, <2>4
<1>16. ASSUME Gone
       PROVE  /\ Telling(todo)' /\ ActiveStory' /\ active' = 0
              /\ active # 0 => active \in killed'
              /\ killed \subseteq killed' /\ session' = session /\ started' = started
  BY <1>3, <1>16 DEF Gone, ActiveStory
<1>17. ASSUME Kill PROVE Telling(todo)' /\ ActiveStory' /\ \A s \in Sessions : Settled(s)'
  <2>1. Gone /\ UNCHANGED diskVars
    BY <1>17 DEF Kill
  <2>2. ASSUME NEW s \in Sessions PROVE Settled(s)'
    <3>1. Settled(s) /\ s # 0
      BY <1>1, <1>2
    <3>2. \A t : Whole(s, t) => Whole(s, t)'
      BY <2>1 DEF Whole
    <3>3. s = active => s \in killed'
      BY <1>16, <2>1, <3>1
    <3> QED
      BY <1>16, <2>1, <3>1, <3>2, <3>3 DEF Settled, TellsEnd
  <2> QED
    BY <1>16, <2>1, <2>2
<1>18. ASSUME Outage PROVE Telling(todo)' /\ ActiveStory' /\ \A s \in Sessions : Settled(s)'
  <2>1. PICK kept \in [Sessions -> 0..MaxCalls + MaxSessions] :
          /\ \A s \in Sessions : kept[s] \in synced[s]..Len(log[s])
          /\ log' = [s \in Sessions |-> SubSeq(log[s], 1, kept[s])]
          /\ synced' = kept
    BY <1>18 DEF Outage
  <2>2. /\ Gone /\ \A s \in Sessions : summary'[s] \in surviving[s]
        /\ surviving' = [s \in Sessions |-> {summary'[s]}]
    BY <1>18 DEF Outage
  <2>3. ASSUME NEW s \in Sessions PROVE Settled(s)'
    <3> DEFINE l == log[s]
               k == kept[s]
    <3>1. Settled(s) /\ s # 0 /\ l \in Seq(Line) /\ Len(l) \in Nat /\ synced[s] \in Nat
      BY <1>1, <1>2 DEF DiskType
    <3>2. synced[s] = Len(l) => log'[s] = l /\ synced'[s] = synced[s]
      <4> SUFFICES ASSUME synced[s] = Len(l) PROVE SubSeq(l, 1, k) = l /\ k = synced[s]
        BY <2>1
      <4>1. k = Len(l)
        <5>1. k \in synced[s]..Len(l)
          BY <2>1
        <5> QED
          BY <3>1, <5>1
      <4>2. SubSeq(l, 1, Len(l)) = l
        BY <3>1
      <4> QED
        BY <4>1, <4>2
    <3> HIDE DEF l, k
    <3>3. \A t : Whole(s, t) => Whole(s, t)'
      BY <3>2 DEF Whole, l
    <3>4. s = active => s \in killed'
      BY <1>16, <2>2, <3>1
    <3>5. surviving'[s] \subseteq surviving[s]
      BY <2>2
    <3>6. log[s] = <<>> /\ synced[s] = 0 => log'[s] = <<>> /\ synced'[s] = 0
      <4>1. Len(<<>>) = 0
        OBVIOUS
      <4> QED
        BY <3>2, <4>1 DEF l
    <3>7. surviving[s] = {Absent} => surviving'[s] = {Absent}
      BY <2>2
    <3> QED
      BY <1>16, <2>2, <3>1, <3>3, <3>4, <3>5, <3>6, <3>7 DEF Settled, TellsEnd
  <2> QED
    BY <1>16, <2>2, <2>3
<1>19. ASSUME UNCHANGED vars PROVE Telling(todo)' /\ ActiveStory' /\ \A s \in Sessions : Settled(s)'
  <2>1. UNCHANGED <<active, todo, started, session, log, synced, summary, surviving, killed>>
    BY <1>19 DEF vars
  <2> QED
    BY <1>1, <2>1 DEF ActiveStory, StatusLate, LogSoFar, EndSoFar, At, Text, Settled, Whole
<1> QED
  BY <1>4, <1>5, <1>6, <1>7, <1>10, <1>11, <1>12, <1>13, <1>14, <1>15, <1>17, <1>18, <1>19
  DEF Next, Work

(* All three invariants hold throughout. *)
LEMMA StoryAlways == Spec => [](TypeInv /\ SummaryInv /\ StoryInv)
<1>1. Init => TypeInv /\ SummaryInv /\ StoryInv
  <2> SUFFICES ASSUME Init PROVE SummaryInv /\ StoryInv
    BY TypeInit
  <2>1. /\ todo = <<>> /\ active = 0 /\ started = 0 /\ ~ At("sync")
        /\ \A s \in Sessions : session[s] = NewSession /\ log[s] = <<>> /\ synced[s] = 0
                                 /\ surviving[s] = {Absent}
    BY DEF Init, At
  <2>2. ASSUME NEW s \in Sessions PROVE Counted(s) /\ \A t \in surviving[s] : Backed(s, t)
    <3>1. /\ session[s].events = 0 /\ synced[s] = 0 /\ log[s] = <<>> /\ surviving[s] = {Absent}
          /\ ~ At("sync")
      BY <2>1 DEF NewSession
    <3> QED
      BY <3>1 DEF Counted, Backed, Absent
  <2>3. Telling(<<>>)
    BY DEF Telling, Closing
  <2>4. ASSUME NEW s \in Sessions PROVE Settled(s)
    <3>1. \A t \in surviving[s] : ~ TellsEnd(t)
      BY <2>1 DEF TellsEnd, Absent
    <3>2. s \notin 1..started
      BY <2>1
    <3> QED
      BY <2>1, <3>1, <3>2 DEF Settled
  <2> QED
    BY <2>1, <2>2, <2>3, <2>4 DEF SummaryInv, StoryInv, ActiveStory
<1>2. TypeInv /\ SummaryInv /\ StoryInv /\ [Next]_vars => TypeInv' /\ SummaryInv' /\ StoryInv'
  BY TypeInductive, SummaryInductive, StoryInductive
<1> QED
  BY <1>1, <1>2, PTL DEF Spec

(* A session that its summary calls finished, without a warning, is told   *)
(* from its start to that end, and of nothing else.                        *)
THEOREM StoryCorrect == Spec => []FinishedStoryIsWhole
<1>1. TypeInv /\ StoryInv => FinishedStoryIsWhole
  <2> SUFFICES ASSUME TypeInv, StoryInv, NEW s \in Sessions,
                      summary[s].kind = "written", summary[s].status \in Ending,
                      ~ summary[s].warned
               PROVE  /\ Len(log[s]) = summary[s].events
                      /\ log[s][1] = "started" /\ log[s][Len(log[s])] = summary[s].status
                      /\ \A i \in 2..Len(log[s]) - 1 : log[s][i] \in {"event", "panic"}
    BY DEF FinishedStoryIsWhole
  <2>1. summary[s] \in surviving[s]
    BY DEF TypeInv, TypeOK
  <2>2. Whole(s, summary[s])
    BY <2>1 DEF StoryInv, Settled, TellsEnd
  <2> QED
    BY <2>2 DEF Whole
<1> QED
  BY <1>1, StoryAlways, PTL

(* The last line of a summary that is not finished means a kill or a       *)
(* failed write.                                                           *)
THEOREM UnfinishedCorrect == Spec => []UnfinishedMeansKilled
<1>1. TypeInv /\ StoryInv => UnfinishedMeansKilled
  <2> SUFFICES ASSUME TypeInv, StoryInv, NEW s \in 1..started, s # active,
                      summary[s].kind = "written", summary[s].status = "active"
               PROVE  s \in killed \/ session[s].writeFailure
    BY DEF UnfinishedMeansKilled
  <2>1. s \in Sessions
    BY ActiveIsStarted DEF TypeInv
  <2>2. summary[s] \in surviving[s] /\ Settled(s) /\ summary[s].status \notin Ending
    BY <2>1 DEF TypeInv, TypeOK, StoryInv, Ending
  <2> QED
    BY <2>2 DEF Settled
<1> QED
  BY <1>1, StoryAlways, PTL

-----------------------------------------------------------------------------
(* What can be read of a log.                                              *)

(* A non-empty set of natural numbers has a least element. *)
LEMMA Least ==
    ASSUME NEW S \in SUBSET Nat, S # {}
    PROVE  \E n \in S : \A m \in S : n <= m
<1> DEFINE R == OpToRel(<, Nat)
<1>1. IsWellFoundedOn(R, Nat)
  BY NatLessThanWellFounded
<1>2. \A x, y \in Nat : <<x, y>> \in R <=> x < y
  BY DEF OpToRel
<1> HIDE DEF R
<1>3. PICK n \in S : \A m \in S : ~ (<<m, n>> \in R)
  BY <1>1, WFMin, Zenon
<1>4. ASSUME NEW m \in S PROVE n <= m
  <2>1. ~ (m < n)
    BY <1>2, <1>3
  <2> QED
    BY <2>1
<1> QED
  BY <1>4

(* No two numbers of a set have the same place. *)
LEMMA PlacesDiffer ==
    ASSUME NEW n \in Nat, NEW S \in SUBSET (1..n), NEW i \in S, NEW j \in S,
           Place(S, i) = Place(S, j)
    PROVE  i = j
<1>1. IsFiniteSet(S)
  <2>1. IsFiniteSet(1..n)
    BY FS_Interval
  <2> QED
    BY <2>1, FS_Subset
<1>2. ASSUME NEW x \in S, NEW y \in S, x < y, Place(S, x) = Place(S, y) PROVE FALSE
  <2> DEFINE X == {m \in S : m <= x}
             Y == {m \in S : m <= y}
  <2>0. \A m \in S : m \in Nat
    OBVIOUS
  <2>a. Y \subseteq S
    OBVIOUS
  <2>b. \A m \in S : m <= x => m <= y
    BY <1>2, <2>0
  <2>c. X \subseteq Y
    BY <2>b
  <2>d. y <= y /\ ~ (y <= x)
    BY <1>2, <2>0
  <2>1. X \subseteq Y /\ Y \subseteq S /\ y \in Y /\ y \notin X
    BY <2>a, <2>c, <2>d
  <2>2. Cardinality(X) = Cardinality(Y)
    BY <1>2 DEF Place
  <2> HIDE DEF X, Y
  <2>3. IsFiniteSet(Y)
    BY <1>1, <2>1, FS_Subset
  <2>4. X = Y
    BY <2>1, <2>2, <2>3, FS_Subset
  <2> QED
    BY <2>1, <2>4
<1>3. i \in Nat /\ j \in Nat
  OBVIOUS
<1>4. ~ (i < j) /\ ~ (j < i)
  BY <1>2
<1> QED
  BY <1>3, <1>4

(* As many numbers as a set has, so many places are taken. *)
LEMMA PlacesTaken ==
    ASSUME NEW n \in Nat, NEW S \in SUBSET (1..n), NEW k \in 1..Cardinality(S)
    PROVE  \E i \in S : Place(S, i) = k
<1> DEFINE P(m) == \A T \in SUBSET (1..m) : \A c \in 1..Cardinality(T) :
                     \E i \in T : Place(T, i) = c
           Bad == {m \in Nat : ~ P(m)}
<1>1. P(0)
  <2> SUFFICES ASSUME NEW T \in SUBSET (1..0), NEW c \in 1..Cardinality(T) PROVE FALSE
    OBVIOUS
  <2>1. T = {}
    OBVIOUS
  <2>2. Cardinality(T) = 0
    BY <2>1, FS_EmptySet
  <2> QED
    BY <2>2
<1>2. ASSUME NEW m \in Nat, P(m) PROVE P(m + 1)
  <2> SUFFICES ASSUME NEW T \in SUBSET (1..(m + 1)), NEW c \in 1..Cardinality(T)
               PROVE  \E i \in T : Place(T, i) = c
    OBVIOUS
  <2> DEFINE R == T \ {m + 1}
  <2>1. R \in SUBSET (1..m) /\ m + 1 \notin R
    OBVIOUS
  <2>2. \A d \in 1..Cardinality(R) : \E i \in R : Place(R, i) = d
    BY <1>2, <2>1
  <2>3. T = R \/ T = R \cup {m + 1}
    OBVIOUS
  <2> HIDE DEF R, P, Bad
  <2>4. IsFiniteSet(R)
    <3>1. IsFiniteSet(1..m)
      BY FS_Interval
    <3> QED
      BY <2>1, <3>1, FS_Subset
  <2>5. CASE T = R
    BY <2>2, <2>5
  <2>6. CASE T = R \cup {m + 1}
    <3>1. Cardinality(R) \in Nat /\ Cardinality(T) = Cardinality(R) + 1
      BY <2>1, <2>4, <2>6, FS_AddElement, FS_CardinalityType
    <3>2. CASE c = Cardinality(R) + 1
      <4>0. \A j \in T : j <= m + 1
        OBVIOUS
      <4>1. {j \in T : j <= m + 1} = T
        BY <4>0
      <4> QED
        BY <2>6, <3>1, <3>2, <4>1 DEF Place
    <3>3. CASE c # Cardinality(R) + 1
      <4>1. c \in 1..Cardinality(R)
        BY <3>1, <3>3
      <4>2. PICK i \in R : Place(R, i) = c
        BY <2>2, <4>1
      <4>3. {j \in T : j <= i} = {j \in R : j <= i}
        BY <2>1, <2>6
      <4> QED
        BY <2>6, <4>2, <4>3 DEF Place
    <3> QED
      BY <3>2, <3>3
  <2> QED
    BY <2>3, <2>5, <2>6
<1>3. Bad = {}
  <2> SUFFICES ASSUME Bad # {} PROVE FALSE
    OBVIOUS
  <2>1. PICK b \in Bad : \A m \in Bad : b <= m
    BY Least
  <2>2. b \in Nat /\ ~ P(b)
    OBVIOUS
  <2>3. b # 0
    BY <1>1, <2>2
  <2>4. b - 1 \in Nat /\ (b - 1) + 1 = b /\ b - 1 \notin Bad
    BY <2>1, <2>2, <2>3
  <2>5. P(b - 1)
    BY <2>4
  <2> HIDE DEF P, Bad
  <2>6. P((b - 1) + 1)
    BY <1>2, <2>4, <2>5
  <2> QED
    BY <2>2, <2>4, <2>6
<1>4. P(n)
  BY <1>3
<1> QED
  BY <1>4

(* Exactly one number has place k. *)
LEMMA AtPlaceIs ==
    ASSUME NEW n \in Nat, NEW S \in SUBSET (1..n), NEW k \in 1..Cardinality(S)
    PROVE  /\ AtPlace(S, k) \in S /\ Place(S, AtPlace(S, k)) = k
           /\ \A i \in S : Place(S, i) = k => i = AtPlace(S, k)
<1>1. \E i \in S : Place(S, i) = k
  BY PlacesTaken
<1>2. AtPlace(S, k) \in S /\ Place(S, AtPlace(S, k)) = k
  BY <1>1, Zenon DEF AtPlace
<1> HIDE DEF Place
<1>3. \A i \in S : Place(S, i) = k => i = AtPlace(S, k)
  BY <1>2, PlacesDiffer
<1> QED
  BY <1>2, <1>3

(* When one sequence has all the events of another, and may have more     *)
(* later, what can be read of it goes on where the other ends.             *)
LEMMA PrefixMeans ==
    ASSUME NEW S, NEW s \in Seq(S), NEW t \in Seq(S)
    PROVE  IsPrefix(s, t) <=> Len(s) <= Len(t) /\ \A j \in 1..Len(s) : s[j] = t[j]
<1>1. Len(s) \in Nat /\ Len(t) \in Nat
  BY LenProperties
<1>2. ASSUME NEW u \in Seq(S), Len(s) <= Len(u)
      PROVE  /\ SubSeq(u, 1, Len(s)) \in Seq(S) /\ Len(SubSeq(u, 1, Len(s))) = Len(s)
             /\ \A j \in 1..Len(s) : SubSeq(u, 1, Len(s))[j] = u[j]
  <2>1. \A j \in 1..Len(s) : u[j] \in S
    BY <1>1, <1>2, LenProperties, ElementOfSeq
  <2>2. 1 \in Int /\ Len(s) \in Int /\ Len(s) - 1 + 1 = Len(s)
        /\ \A j \in 1..Len(s) : 1 + j - 1 = j
    BY <1>1
  <2>3. CASE 1 <= Len(s)
    BY <2>1, <2>2, <2>3, SubSeqProperties
  <2>4. CASE Len(s) = 0
    BY <2>1, <2>2, <2>4, SubSeqProperties
  <2> QED
    BY <1>1, <2>3, <2>4
<1>3. ASSUME Len(s) <= Len(t)
      PROVE  SubSeq(s, 1, Len(s)) = SubSeq(t, 1, Len(s)) <=> \A j \in 1..Len(s) : s[j] = t[j]
  <2>1. \A j \in 1..Len(s) : SubSeq(s, 1, Len(s))[j] = s[j] /\ SubSeq(t, 1, Len(s))[j] = t[j]
    BY <1>1, <1>2, <1>3
  <2>2. /\ SubSeq(s, 1, Len(s)) \in Seq(S) /\ SubSeq(t, 1, Len(s)) \in Seq(S)
        /\ Len(SubSeq(s, 1, Len(s))) = Len(s) /\ Len(SubSeq(t, 1, Len(s))) = Len(s)
    BY <1>1, <1>2, <1>3
  <2>3. ASSUME \A j \in 1..Len(s) : s[j] = t[j]
        PROVE  SubSeq(s, 1, Len(s)) = SubSeq(t, 1, Len(s))
    BY <2>1, <2>2, <2>3, SeqEqual
  <2>4. ASSUME SubSeq(s, 1, Len(s)) = SubSeq(t, 1, Len(s)), NEW j \in 1..Len(s)
        PROVE  s[j] = t[j]
    BY <2>1, <2>4
  <2> QED
    BY <2>3, <2>4
<1> QED
  BY <1>3 DEF IsPrefix


LEMMA ReadIs ==
    ASSUME NEW lines \in Seq(Line)
    PROVE  /\ Readable(lines) \in Seq(Event)
           /\ Len(Readable(lines)) = Cardinality(Events(lines))
           /\ Cardinality(Events(lines)) \in Nat
           /\ \A k \in 1..Cardinality(Events(lines)) :
                Readable(lines)[k] = lines[AtPlace(Events(lines), k)]
<1> DEFINE S == Events(lines)
           n == Len(lines)
           r == Readable(lines)
<1>1. n \in Nat /\ S \in SUBSET (1..n) /\ \A i \in S : lines[i] \in Event
  BY DEF Events
<1>2. r = [k \in 1..Cardinality(S) |-> lines[AtPlace(S, k)]]
  BY DEF Readable
<1> HIDE DEF S, n, r
<1>3. Cardinality(S) \in Nat
  <2>1. IsFiniteSet(1..n)
    BY <1>1, FS_Interval
  <2> QED
    BY <1>1, <2>1, FS_Subset, FS_CardinalityType
<1>4. \A k \in 1..Cardinality(S) : lines[AtPlace(S, k)] \in Event
  BY <1>1, AtPlaceIs
<1>5. r \in [1..Cardinality(S) -> Event]
  BY <1>2, <1>4
<1>6. r \in Seq(Event) /\ Len(r) = Cardinality(S)
  BY <1>3, <1>5
<1> QED
  BY <1>2, <1>3, <1>6 DEF S, r

LEMMA ReadOn ==
    ASSUME NEW s \in Seq(Line), NEW t \in Seq(Line), NEW n \in Nat,
           n <= Len(s), n <= Len(t),
           \A i \in 1..n : s[i] = t[i],
           \A i \in Events(s) : i <= n
    PROVE  /\ IsPrefix(Readable(s), Readable(t))
           /\ (\A i \in Events(t) : i <= n) => Readable(s) = Readable(t)
           /\ Len(t) = n + 1 /\ t[n + 1] \in Event =>
                Readable(t) = Append(Readable(s), t[n + 1])
<1> DEFINE S == Events(s)
           T == Events(t)
           a == Readable(s)
           b == Readable(t)
           c == Cardinality(S)
           d == Cardinality(T)
<1>1. /\ Len(s) \in Nat /\ Len(t) \in Nat
      /\ S \in SUBSET (1..n) /\ T \in SUBSET (1..Len(t))
      /\ \A i \in 1..n : i \in S <=> i \in T
  BY DEF Events
<1>2. /\ a \in Seq(Event) /\ Len(a) = c /\ c \in Nat
      /\ \A k \in 1..c : a[k] = s[AtPlace(S, k)]
  BY ReadIs
<1>3. /\ b \in Seq(Event) /\ Len(b) = d /\ d \in Nat
      /\ \A k \in 1..d : b[k] = t[AtPlace(T, k)]
  BY ReadIs
<1>4. Len(t) = n + 1 /\ t[n + 1] \in Event => T = S \cup {n + 1}
  <2> SUFFICES ASSUME Len(t) = n + 1, t[n + 1] \in Event PROVE T = S \cup {n + 1}
    OBVIOUS
  <2>1. n + 1 \in T
    BY <1>1 DEF Events
  <2> HIDE DEF S, T
  <2>2. \A i \in 1..Len(t) : i \in 1..n \/ i = n + 1
    BY <1>1
  <2>3. \A i \in T : i \in S \cup {n + 1}
    BY <1>1, <2>2
  <2>4. \A i \in S : i \in T
    BY <1>1
  <2> QED
    BY <2>1, <2>3, <2>4
<1> HIDE DEF S, T, a, b
<1>5. IsFiniteSet(S) /\ IsFiniteSet(T)
  <2>1. IsFiniteSet(1..n) /\ IsFiniteSet(1..Len(t))
    BY <1>1, FS_Interval
  <2> QED
    BY <1>1, <2>1, FS_Subset
<1>6. S \subseteq T /\ c <= d
  <2>1. S \subseteq T
    BY <1>1
  <2> QED
    BY <1>5, <2>1, FS_Subset
<1> HIDE DEF c, d
<1>7. ASSUME NEW k \in 1..c PROVE AtPlace(S, k) = AtPlace(T, k) /\ AtPlace(S, k) \in S
  <2> DEFINE i == AtPlace(S, k)
  <2>1. i \in S /\ Place(S, i) = k
    BY <1>1, AtPlaceIs DEF c
  <2> HIDE DEF i
  <2>2. {j \in S : j <= i} = {j \in T : j <= i}
    <3>1. i \in Nat /\ i <= n
      BY <1>1, <2>1
    <3>2. \A j \in T : j <= i => j \in 1..n
      BY <1>1, <3>1
    <3>3. \A j \in T : j <= i => j \in S
      BY <1>1, <3>2
    <3> QED
      BY <1>6, <3>3
  <2>3. Place(T, i) = k /\ i \in T
    BY <1>6, <2>1, <2>2 DEF Place
  <2>4. k \in 1..d
    BY <1>2, <1>3, <1>6
  <2>5. i = AtPlace(T, k)
    BY <1>1, <2>3, <2>4, AtPlaceIs DEF d
  <2> QED
    BY <2>1, <2>5 DEF i
<1>8. ASSUME NEW k \in 1..c PROVE k \in 1..d /\ a[k] = b[k]
  <2>1. k \in 1..d
    BY <1>2, <1>3, <1>6
  <2>2. AtPlace(S, k) \in 1..n
    BY <1>1, <1>7
  <2> QED
    BY <1>2, <1>3, <1>7, <2>1, <2>2
<1>9. IsPrefix(a, b)
  BY <1>2, <1>3, <1>6, <1>8, PrefixMeans
<1>10. ASSUME \A i \in T : i <= n PROVE a = b
  <2>0. \A i \in T : i \in 1..n
    BY <1>1, <1>10
  <2>1. S = T
    BY <1>1, <1>6, <2>0
  <2>2. c = d
    BY <2>1 DEF c, d
  <2> QED
    BY <1>2, <1>3, <1>8, <2>2, SeqEqual
<1>11. ASSUME Len(t) = n + 1, t[n + 1] \in Event PROVE b = Append(a, t[n + 1])
  <2> DEFINE e == t[n + 1]
  <2>1. T = S \cup {n + 1} /\ n + 1 \notin S /\ e \in Event
    BY <1>1, <1>4, <1>11
  <2> HIDE DEF e
  <2>2. d = c + 1
    BY <1>5, <2>1, FS_AddElement DEF c, d
  <2>3. Place(T, n + 1) = d
    <3>0. \A j \in T : j <= n + 1
      BY <1>1, <2>1
    <3>1. {j \in T : j <= n + 1} = T
      BY <3>0
    <3> QED
      BY <3>1 DEF Place, d
  <2>4. AtPlace(T, d) = n + 1
    <3>1. d \in 1..d /\ n + 1 \in T
      BY <1>2, <2>1, <2>2
    <3> QED
      BY <1>1, <2>3, <3>1, AtPlaceIs DEF d
  <2>5. b[c + 1] = e
    BY <1>2, <1>3, <2>2, <2>4 DEF e
  <2>6. /\ Append(a, e) \in Seq(Event) /\ Len(Append(a, e)) = Len(a) + 1
        /\ \A i \in 1..Len(a) : Append(a, e)[i] = a[i]
        /\ Append(a, e)[Len(a) + 1] = e
    BY <1>2, <2>1, AppendProperties
  <2> DEFINE f == Append(a, e)
  <2> HIDE DEF f
  <2>7. /\ f \in Seq(Event) /\ Len(f) = d /\ f[c + 1] = e
        /\ \A i \in 1..c : f[i] = b[i]
    BY <1>2, <1>8, <2>2, <2>6 DEF f
  <2>8. \A i \in 1..Len(b) : b[i] = f[i]
    BY <1>2, <1>3, <2>2, <2>5, <2>7
  <2>9. b = f
    BY <1>3, <2>7, <2>8, SeqEqual
  <2> QED
    BY <2>9 DEF f, e
<1> QED
  BY <1>9, <1>10, <1>11 DEF a, b, T

-----------------------------------------------------------------------------
(* The recorder implements the abstract one.                               *)

Read == [s \in Sessions |-> Readable(log[s])]

(* Nothing can be read of an empty log. *)
LEMMA ReadNothing == Readable(<<>>) = <<>>
<1>1. <<>> \in Seq(Line) /\ Len(<<>>) = 0
  OBVIOUS
<1>2. Events(<<>>) = {}
  BY <1>1 DEF Events
<1>3. Readable(<<>>) \in Seq(Event) /\ Len(Readable(<<>>)) = 0
  BY <1>1, <1>2, ReadIs, FS_EmptySet
<1> QED
  BY <1>3

(* Of a line that is written, one event more can be read, or none where it *)
(* spoils one that had been cut short.                                     *)
LEMMA WrittenRead ==
    ASSUME NEW lines \in Seq(Line), NEW e \in Event
    PROVE  Readable(WithLine(lines, e)) \in {Readable(lines), Append(Readable(lines), e)}
<1> DEFINE n == Len(lines)
<1>1. n \in Nat /\ e \in Line /\ "garbled" \in Line /\ "cut" \notin Event /\ "garbled" \notin Event
  BY DEF Line, Event
<1>2. CASE IsCut(lines)
  <2>1. lines # <<>> /\ lines[n] = "cut" /\ n >= 1
    BY <1>2 DEF IsCut, Last
  <2> DEFINE f == SubSeq(lines, 1, n - 1)
             w == Append(f, "garbled")
  <2>2. \A i \in 1..(n - 1) : lines[i] \in Line
    BY <1>1, ElementOfSeq
  <2>3. /\ f \in Seq(Line) /\ Len(f) = (IF 1 <= n - 1 THEN n - 1 - 1 + 1 ELSE 0)
        /\ \A i \in 1..(n - 1) - 1 + 1 : f[i] = lines[1 + i - 1]
    <3>1. 1 \in Int /\ n - 1 \in Int
      BY <1>1
    <3> QED
      BY <2>2, <3>1, SubSeqProperties
  <2> HIDE DEF f
  <2>4. f \in Seq(Line) /\ Len(f) = n - 1 /\ \A i \in 1..n - 1 : f[i] = lines[i]
    <3>1. n \in Nat /\ n >= 1
      BY <1>1, <2>1
    <3> HIDE DEF n
    <3>2. (IF 1 <= n - 1 THEN n - 1 - 1 + 1 ELSE 0) = n - 1
      BY <3>1
    <3>3. \A i \in 1..n - 1 : i \in 1..(n - 1) - 1 + 1 /\ 1 + i - 1 = i
      BY <3>1
    <3>4. \A i \in 1..n - 1 : f[i] = lines[i]
      BY <2>3, <3>3
    <3> QED
      BY <2>3, <3>2, <3>4
  <2>5. /\ w \in Seq(Line) /\ Len(w) = Len(f) + 1
        /\ \A i \in 1..Len(f) : w[i] = f[i]
        /\ w[Len(f) + 1] = "garbled"
    BY <1>1, <2>4, AppendProperties
  <2> HIDE DEF w
  <2> DEFINE m == n - 1
  <2>6. m \in Nat /\ n = m + 1
    BY <1>1, <2>1
  <2>7. w \in Seq(Line) /\ Len(w) = m + 1 /\ w[m + 1] = "garbled" /\ \A i \in 1..m : w[i] = lines[i]
    BY <2>4, <2>5
  <2> HIDE DEF n, m
  <2>8. lines[m + 1] = "cut" /\ Len(lines) = m + 1
    BY <2>1, <2>6 DEF n
  <2>9. m <= m + 1 /\ \A i \in 1..(m + 1) : i = m + 1 \/ i <= m
    BY <2>6
  <2>10. \A i \in Events(lines) : i <= m
    BY <1>1, <2>8, <2>9 DEF Events
  <2>11. \A i \in Events(w) : i <= m
    BY <1>1, <2>7, <2>9 DEF Events
  <2>12. \A i \in 1..m : lines[i] = w[i]
    BY <2>7
  <2>13. m <= Len(lines) /\ m <= Len(w)
    BY <2>7, <2>8, <2>9
  <2>14. Readable(lines) = Readable(w)
    BY <2>6, <2>7, <2>10, <2>11, <2>12, <2>13, ReadOn
  <2>15. WithLine(lines, e) = w
    BY <1>2 DEF WithLine, Front, f, w, n
  <2> QED
    BY <2>14, <2>15
<1>3. CASE ~ IsCut(lines)
  <2> DEFINE w == Append(lines, e)
  <2>1. /\ w \in Seq(Line) /\ Len(w) = n + 1
        /\ \A i \in 1..n : w[i] = lines[i]
        /\ w[n + 1] = e
    BY <1>1, AppendProperties
  <2> HIDE DEF w
  <2>2. n <= Len(lines) /\ n <= Len(w)
    BY <1>1, <2>1
  <2>3. \A i \in Events(lines) : i <= n
    BY <1>1 DEF Events
  <2>4. \A i \in 1..n : lines[i] = w[i]
    BY <2>1
  <2> HIDE DEF n
  <2>5. Readable(w) = Append(Readable(lines), w[n + 1])
    BY <1>1, <2>1, <2>2, <2>3, <2>4, ReadOn
  <2>6. WithLine(lines, e) = w
    BY <1>3 DEF WithLine, w
  <2> QED
    BY <2>1, <2>5, <2>6
<1> QED
  BY <1>2, <1>3

(* Of a line that is cut short nothing can be read. *)
LEMMA CutRead ==
    ASSUME NEW lines \in Seq(Line)
    PROVE  Readable(WithCut(lines)) = Readable(lines)
<1>1. CASE IsCut(lines)
  BY <1>1 DEF WithCut
<1>2. CASE ~ IsCut(lines)
  <2> DEFINE w == Append(lines, "cut")
             n == Len(lines)
  <2>1. "cut" \in Line /\ "cut" \notin Event /\ n \in Nat
    BY DEF Line, Event
  <2>2. /\ w \in Seq(Line) /\ Len(w) = n + 1
        /\ \A i \in 1..n : w[i] = lines[i]
        /\ w[n + 1] = "cut"
    BY <2>1, AppendProperties
  <2> HIDE DEF w
  <2>3. n <= Len(lines) /\ n <= Len(w)
    BY <2>1, <2>2
  <2>4. \A i \in Events(lines) : i <= n
    BY <2>1 DEF Events
  <2>5. \A i \in 1..n : lines[i] = w[i]
    BY <2>2
  <2> HIDE DEF n
  <2>6. \A i \in 1..(n + 1) : i = n + 1 \/ i <= n
    BY <2>1
  <2>7. \A i \in Events(w) : i <= n
    BY <2>1, <2>2, <2>6 DEF Events
  <2>8. Readable(lines) = Readable(w)
    BY <2>1, <2>2, <2>3, <2>4, <2>5, <2>7, ReadOn
  <2> QED
    BY <1>2, <2>8 DEF WithCut, w
<1> QED
  BY <1>1, <1>2

(* What can be read of the start of a log is the start of what can be read *)
(* of it.                                                                  *)
LEMMA StartRead ==
    ASSUME NEW lines \in Seq(Line), NEW k \in 0..Len(lines)
    PROVE  IsPrefix(Readable(SubSeq(lines, 1, k)), Readable(lines))
<1> DEFINE f == SubSeq(lines, 1, k)
<1>1. k \in Nat /\ k \in Int /\ 1 \in Int /\ Len(lines) \in Nat /\ k <= Len(lines)
  OBVIOUS
<1>2. \A i \in 1..k : lines[i] \in Line
  BY <1>1, ElementOfSeq
<1>3. /\ f \in Seq(Line) /\ Len(f) = (IF 1 <= k THEN k - 1 + 1 ELSE 0)
      /\ \A i \in 1..k - 1 + 1 : f[i] = lines[1 + i - 1]
  BY <1>1, <1>2, SubSeqProperties
<1> HIDE DEF f
<1>4. Len(f) = k
  BY <1>1, <1>3
<1>5. \A i \in 1..k : i \in 1..k - 1 + 1 /\ 1 + i - 1 = i
  BY <1>1
<1>6. \A i \in 1..k : f[i] = lines[i]
  BY <1>3, <1>5
<1>7. \A i \in Events(f) : i <= k
  BY <1>1, <1>4 DEF Events
<1>8. k <= Len(f)
  BY <1>1, <1>4
<1>9. IsPrefix(Readable(f), Readable(lines))
  BY <1>1, <1>3, <1>6, <1>7, <1>8, ReadOn
<1> QED
  BY <1>9 DEF f

(* The initial state is an initial state of the abstract recorder. *)
LEMMA InitRefined == Init => Abstract!RecorderInit
<1> SUFFICES ASSUME Init PROVE Abstract!RecorderInit
  OBVIOUS
<1>1. \A s \in Sessions : log[s] = <<>>
  BY DEF Init
<1>2. \A s \in Sessions : Readable(log[s]) = <<>>
  BY <1>1, ReadNothing
<1>3. [s \in Sessions |-> Readable(log[s])] = [s \in 1..MaxSessions |-> <<>>]
  BY <1>2 DEF Sessions
<1>4. started = 0 /\ active = 0
  BY DEF Init
<1> QED
  BY <1>3, <1>4 DEF Abstract!RecorderInit

(* Every step is one of the abstract recorder, or changes nothing of it:   *)
(* a session begins where Start has made its directory, an event is added  *)
(* where its line is whole, and a session ends where it is closed.         *)
LEMMA StepRefined ==
    TypeInv /\ [Next]_vars => [Abstract!RecorderNext]_<<started, active, Read>>
<1> SUFFICES ASSUME TypeInv, [Next]_vars
             PROVE  [Abstract!RecorderNext]_<<started, active, Read>>
  OBVIOUS
<1>1. TypeOK /\ DiskType /\ TodoInv
  BY DEF TypeInv
<1>2. ASSUME UNCHANGED <<started, active, log>> PROVE UNCHANGED <<started, active, Read>>
  BY <1>2 DEF Read
<1>3. ASSUME \/ \E c \in Caller, op \in {"start", "stop", "interrupt", "record", "panic"} : Call(c, op)
             \/ \E c \in Caller : Acquire(c)
             \/ Release \/ Sync \/ Truncate \/ Write \/ Flush \/ PanicFile \/ SetStatus
             \/ UNCHANGED vars
      PROVE  UNCHANGED <<started, active, Read>>
  <2>1. UNCHANGED <<started, active, log>>
    BY <1>3 DEF Call, Acquire, Release, Sync, Truncate, Write, Flush, PanicFile, SetStatus,
                memoryVars, diskVars, vars
  <2> QED
    BY <1>2, <2>1
<1>4. ASSUME Open PROVE Abstract!Begin
  <2>1. active = 0 /\ started < MaxSessions
    BY <1>1, <1>4 DEF Open, TodoInv, At
  <2>2. started' = started + 1 /\ active' = started + 1 /\ log' = log
    BY <1>4 DEF Open, diskVars
  <2>3. [s \in Sessions |-> Readable(log[s])]' = [s \in Sessions |-> Readable(log[s])]
    BY <2>2
  <2> QED
    BY <2>1, <2>2, <2>3 DEF Abstract!Begin
<1>5. ASSUME AppendLine
      PROVE  \/ UNCHANGED <<started, active, Read>>
             \/ \E e \in Event : Abstract!Add(e)
  <2> DEFINE e == Head(todo).arg
             w == WithLine(log[active], e)
  <2>1. e \in Event
    <3>1. todo \in Seq(Step) /\ todo # <<>>
      BY <1>1, <1>5 DEF TodoInv, Orderly, AppendLine, At
    <3>2. 1 \in 1..Len(todo) /\ Head(todo) = todo[1]
      BY <3>1
    <3> QED
      BY <1>1, <1>5, <3>2 DEF TodoInv, Orderly, AppendLine, At
  <2>2. active # 0 /\ active \in Sessions
    BY <1>1, <1>5, ActiveIsStarted DEF TodoInv, AppendLine, At
  <2>3. log' = [log EXCEPT ![active] = w] /\ started' = started /\ active' = active
    BY <1>5 DEF AppendLine, memoryVars
  <2>4. log[active] \in Seq(Line)
    BY <1>1, <2>2 DEF DiskType
  <2> HIDE DEF e
  <2>5. Readable(w) = Readable(log[active]) \/ Readable(w) = Append(Readable(log[active]), e)
    BY <2>1, <2>4, WrittenRead
  <2> HIDE DEF w
  <2>6. \A s \in Sessions : log'[s] = IF s = active THEN w ELSE log[s]
    BY <1>1, <2>3 DEF DiskType
  <2>7. CASE Readable(w) = Readable(log[active])
    <3>1. \A s \in Sessions : Readable(log'[s]) = Readable(log[s])
      BY <2>6, <2>7
    <3>2. Read' = Read
      BY <3>1 DEF Read
    <3> QED
      BY <2>3, <3>2
  <2>8. CASE Readable(w) = Append(Readable(log[active]), e)
    <3>1. \A s \in Sessions : Readable(log'[s]) = IF s = active THEN Append(Readable(log[s]), e)
                                                                ELSE Readable(log[s])
      BY <2>6, <2>8
    <3>2. Read' = [Read EXCEPT ![active] = Append(@, e)]
      BY <2>2, <3>1 DEF Read
    <3>3. Abstract!Add(e)
      BY <2>2, <2>3, <3>2 DEF Abstract!Add, Read
    <3> QED
      BY <2>1, <3>3
  <2> QED
    BY <2>5, <2>7, <2>8
<1>6. ASSUME Fail PROVE UNCHANGED <<started, active, Read>>
  <2>1. todo # <<>> /\ started' = started /\ active' = active
    BY <1>6 DEF Fail
  <2>2. CASE log' = log
    BY <1>2, <2>1, <2>2
  <2>3. CASE Head(todo).do = "append" /\ log' = [log EXCEPT ![active] = WithCut(@)]
    <3>1. active \in Sessions
      BY <1>1, <2>1, <2>3, ActiveIsStarted DEF TodoInv, At
    <3>2. log[active] \in Seq(Line)
      BY <1>1, <3>1 DEF DiskType
    <3>3. Readable(WithCut(log[active])) = Readable(log[active])
      BY <3>2, CutRead
    <3>4. \A s \in Sessions : log'[s] = IF s = active THEN WithCut(log[active]) ELSE log[s]
      BY <1>1, <2>3 DEF DiskType
    <3>5. \A s \in Sessions : Readable(log'[s]) = Readable(log[s])
      BY <3>3, <3>4
    <3>6. Read' = Read
      BY <3>5 DEF Read
    <3> QED
      BY <2>1, <3>6
  <2> QED
    BY <1>6, <2>2, <2>3 DEF Fail
<1>7. ASSUME Close PROVE Abstract!End
  <2>1. active # 0 /\ active' = 0 /\ started' = started /\ log' = log
    BY <1>1, <1>7 DEF Close, TodoInv, At
  <2>2. [s \in Sessions |-> Readable(log[s])]' = [s \in Sessions |-> Readable(log[s])]
    BY <2>1
  <2> QED
    BY <2>1, <2>2 DEF Abstract!End
<1>8. ASSUME active' = 0, started' = started,
             \A s \in Sessions : IsPrefix(Readable(log'[s]), Readable(log[s]))
      PROVE  Abstract!Stopped
  <2>1. \A s \in 1..MaxSessions : IsPrefix(Read'[s], Read[s])
    BY <1>8 DEF Read, Sessions
  <2>2. DOMAIN Read' = 1..MaxSessions
    BY DEF Read, Sessions
  <2> DEFINE L == [s \in Sessions |-> Readable(log[s])]
  <2>3. Read = L /\ Read' = L'
    BY DEF Read
  <2>4. (\A s \in 1..MaxSessions : IsPrefix(L'[s], L[s])) /\ DOMAIN L' = 1..MaxSessions
    BY <2>1, <2>2, <2>3
  <2>5. active' = 0 /\ started' = started
    BY <1>8
  <2> QED
    BY <2>4, <2>5 DEF Abstract!Stopped, Abstract!IsPrefix, IsPrefix
<1>9. ASSUME Kill PROVE Abstract!Stopped
  <2>1. active' = 0 /\ started' = started /\ log' = log
    BY <1>9 DEF Kill, Gone, diskVars
  <2>2. ASSUME NEW s \in Sessions PROVE IsPrefix(Readable(log'[s]), Readable(log[s]))
    <3>1. log[s] \in Seq(Line) /\ log'[s] = log[s]
      BY <1>1, <2>1 DEF DiskType
    <3>2. Readable(log[s]) \in Seq(Event)
      BY <3>1, ReadIs
    <3>3. Len(Readable(log[s])) \in Nat
      BY <3>2
    <3> QED
      BY <3>1, <3>3 DEF IsPrefix
  <2> QED
    BY <1>8, <2>1, <2>2
<1>10. ASSUME Outage PROVE Abstract!Stopped
  <2>1. PICK kept \in [Sessions -> 0..MaxCalls + MaxSessions] :
          /\ \A s \in Sessions : kept[s] \in synced[s]..Len(log[s])
          /\ log' = [s \in Sessions |-> SubSeq(log[s], 1, kept[s])]
          /\ synced' = kept
    BY <1>10 DEF Outage
  <2>2. active' = 0 /\ started' = started
    BY <1>10 DEF Outage, Gone
  <2>3. ASSUME NEW s \in Sessions PROVE IsPrefix(Readable(log'[s]), Readable(log[s]))
    <3>1. log[s] \in Seq(Line) /\ synced[s] \in Nat
      BY <1>1 DEF DiskType
    <3>2. kept[s] \in 0..Len(log[s])
      BY <2>1, <3>1
    <3>3. log'[s] = SubSeq(log[s], 1, kept[s])
      BY <2>1
    <3> QED
      BY <3>1, <3>2, <3>3, StartRead
  <2> QED
    BY <1>8, <2>2, <2>3
<1> QED
  BY <1>3, <1>4, <1>5, <1>6, <1>7, <1>9, <1>10
  DEF Next, Work, Abstract!RecorderNext

(* The recorder, with its steps, its failures and its deaths, is one whose *)
(* operations on the log are single steps.                                 *)
THEOREM RecorderRefined == Spec => ImplementsRecorder
<1>1. Init => Abstract!RecorderInit
  BY InitRefined
<1>2. TypeInv /\ [Next]_vars =>
        [Abstract!RecorderNext]_<<started, active, [s \in Sessions |-> Readable(log[s])]>>
  BY StepRefined DEF Read
<1>3. Init => TypeInv
  BY TypeInit
<1>4. TypeInv /\ [Next]_vars => TypeInv'
  BY TypeInductive
<1> QED
  BY <1>1, <1>2, <1>3, <1>4, PTL DEF Spec, ImplementsRecorder, Abstract!RecorderSpec
=============================================================================
