---------------------------- MODULE RunLogProofs -----------------------------
(***************************************************************************)
(* For any number of readers and any sizes of the log and of the queues:   *)
(* the log of a run and its readers implement EventStream, a question      *)
(* reaches who follows, no stream ends without a word, and no snapshot     *)
(* costs a reader its stream.                                              *)
(***************************************************************************)
EXTENDS RunLog, FiniteSetTheorems, SequenceTheorems, TLAPS

\* The log is the newest events in order, and evicts only when it is full.
LogInOrder ==
    /\ dropped + Len(log) = seq
    /\ \A i \in 1..Len(log) : log[i].seq = dropped + i
    /\ dropped > 0 => Len(log) = LogSize

\* Where the run is says which question is open, where it was asked, and whether it is over.
RunFacts ==
    /\ done <=> phase = "over"
    /\ phase \in {"finish", "over"} => verdict = seq /\ seq > 0
    /\ phase \notin {"finish", "over"} => verdict = 0
    /\ question = (IF phase \in {"asking", "waiting", "answered"} THEN asks ELSE 0)
    /\ phase \in {"asking", "waiting", "answered"} => asks > 0
    /\ phase \in {"waiting", "answered"} => askedAt \in 1..seq
    /\ phase \notin {"waiting", "answered"} => askedAt = 0
    /\ answered \subseteq 1..seq /\ verdict \notin answered

\* An event that is a question is the open one or has its answer.
Settled(e) == e.ask > 0 => e.seq \in answered \/ (e.seq = askedAt /\ e.ask = question)
LogSettled == \A i \in 1..Len(log) : Settled(log[i])

\* Who is away has nothing of the run, and who is cut off stays so.
Attached(c) ==
    /\ place[c] = "away" <=> c \notin subs
    /\ c \notin subs => ch[c] = <<>>
    /\ place[c] = "drain" => done
    /\ from[c] <= seq /\ last[c] <= seq
    /\ excused[c] \subseteq 1..seq /\ verdict \notin excused[c]
    /\ verdict > 0 /\ from[c] = verdict => heard[c] # "none"
CutOffs == lost \subseteq cut /\ silent \subseteq cut

\* What the reader has still to replay ends at the last event it knows of, follows what its
\* client has or was excused, and holds no question it would wrongly skip.
Before(c) == last[c] - Len(replay[c])
Replaying(c) ==
    place[c] \in {"pending", "replay"} =>
        /\ from[c] <= Before(c) /\ (from[c] + 1)..Before(c) \subseteq excused[c]
        /\ \A i \in 1..Len(replay[c]) :
              /\ replay[c][i].seq = Before(c) + i
              /\ Settled(replay[c][i])
              /\ place[c] = "replay" /\ replay[c][i].ask > 0 /\ replay[c][i].ask # pend[c] =>
                    replay[c][i].seq \in answered

\* The queue is in order, its snapshots are in its first half, and with what was replayed
\* nothing is missing from it unless the reader was cut off.
Queued(c) ==
    /\ Len(ch[c]) <= Buffer
    /\ \A i \in 1..Len(ch[c]) : ch[c][i].seq <= seq /\ (ch[c][i].seq = 0 => i <= Buffer \div 2)
    /\ \A i, j \in 1..Len(ch[c]) : i < j /\ ch[c][i].seq > 0 /\ ch[c][j].seq > 0 => ch[c][i].seq < ch[c][j].seq
Whole(c) ==
    place[c] \in {"pending", "replay", "live", "drain"} =>
        /\ \A i \in 1..Len(ch[c]) : ch[c][i].seq > last[c] => ch[c][i].seq > from[c]
        /\ c \notin cut => \A n \in (last[c] + 1)..seq :
                              n > from[c] => \E i \in 1..Len(ch[c]) : ch[c][i].seq = n
        /\ place[c] \in {"live", "drain"} => (from[c] + 1)..last[c] \subseteq excused[c]

\* The open question was shown, is not announced yet, or is in the queue.
OnItsWay(c) ==
    phase \in {"asking", "waiting"} /\ place[c] \in {"replay", "live"} /\ c \notin lost =>
        \/ phase = "asking" \/ question \in shown[c]
        \/ \E i \in 1..Len(ch[c]) : ch[c][i].ask = question /\ ch[c][i].seq > last[c]

ReaderInv(c) == Attached(c) /\ Replaying(c) /\ Queued(c) /\ Whole(c) /\ OnItsWay(c)
LInv ==
    /\ TypeOK /\ LogInOrder /\ RunFacts /\ LogSettled /\ CutOffs
    /\ \A c \in Readers : ReaderInv(c)

-----------------------------------------------------------------------------
(* The operators the actions share.                                         *)

\* What has a number beyond n is the end of the log, in its order.
LEMMA SinceType == ASSUME TypeOK, NEW n \in Nat PROVE Since(n) \in Seq(Events)
<1>1. IsFiniteSet(1..Len(log)) /\ UpTo(n) \subseteq 1..Len(log)
  <2>1. 1 \in Int /\ Len(log) \in Int BY DEF TypeOK
  <2> QED BY <2>1, FS_Interval DEF UpTo
<1>2. Cardinality(UpTo(n)) \in Nat
  BY <1>1, FS_Subset, FS_CardinalityType
<1> QED BY <1>2, SubSeqProperties DEF TypeOK, Since

\* What one event does to a client, and leaving to a reader.
LEMMA WriteTypes ==
    ASSUME TypeOK, NEW c \in Readers, NEW e \in Events, Write(c, e)
    PROVE  /\ from' \in [Readers -> Nat] /\ shown' \in [Readers -> SUBSET Nat]
           /\ heard' \in [Readers -> Verdicts] /\ tries' \in [Readers -> Nat]
BY DEF TypeOK, Write, Events, Verdicts

\* A reader that leaves keeps the types of the queues.
LEMMA LeaveTypes ==
    ASSUME TypeOK, NEW c \in Readers, Leave(c)
    PROVE  /\ place' \in [Readers -> ReaderSteps] /\ subs' \subseteq Readers /\ lost' \subseteq subs'
           /\ ch' \in [Readers -> Seq(Events)] /\ replay' \in [Readers -> Seq(Events)]
BY DEF TypeOK, Leave, ReaderSteps

\* An attempt spent keeps the types of the client.
LEMMA RetryTypes ==
    ASSUME TypeOK, NEW c \in Readers, Retry(c)
    PROVE  tries' \in [Readers -> Nat] /\ heard' \in [Readers -> Verdicts]
BY DEF TypeOK, Retry, Verdicts

\* The first event of a sequence, and what is left without it.
LEMMA HeadTail ==
    ASSUME NEW s \in Seq(Events), s # <<>>
    PROVE  /\ Head(s) \in Events /\ Head(s) = s[1] /\ Tail(s) \in Seq(Events)
           /\ Len(s) \in Nat \ {0} /\ Len(Tail(s)) = Len(s) - 1
           /\ \A i \in 1..Len(Tail(s)) : Tail(s)[i] = s[i + 1] /\ i + 1 \in 1..Len(s)
OBVIOUS

-----------------------------------------------------------------------------
(* Types.                                                                   *)

\* What one locked append does to the types of the log and of the queues.
LEMMA AppendTypes ==
    ASSUME TypeOK, NEW ask \in Nat, AppendEvent(ask)
    PROVE  /\ seq' \in Nat /\ dropped' \in Nat /\ log' \in Seq(Events) /\ Len(log') <= LogSize
           /\ ch' \in [Readers -> Seq(Events)] /\ lost' \subseteq subs /\ cut' \subseteq Readers
<1> DEFINE e == [seq |-> seq + 1, ask |-> ask]
<1>1. e \in Events BY DEF TypeOK, Events
<1>2. seq' \in Nat /\ dropped' \in Nat BY DEF TypeOK, AppendEvent
<1>3. log' \in Seq(Events) /\ Len(log') <= LogSize
  <2>1. CASE Len(log) >= LogSize
    <3>1. log # <<>> /\ Len(log) = LogSize BY <2>1, SizesAssumption DEF TypeOK
    <3>2. Tail(log) \in Seq(Events) /\ Len(Tail(log)) = Len(log) - 1 BY <3>1 DEF TypeOK
    <3>3. log' = Append(Tail(log), e) BY <2>1 DEF AppendEvent
    <3> HIDE DEF e
    <3> QED BY <1>1, <3>1, <3>2, <3>3 DEF TypeOK
  <2>2. CASE ~(Len(log) >= LogSize)
    <3>1. log' = Append(log, e) BY <2>2 DEF AppendEvent
    <3> HIDE DEF e
    <3> QED BY <1>1, <2>2, <3>1, SizesAssumption DEF TypeOK
  <2> QED BY <2>1, <2>2
<1>4. ch' \in [Readers -> Seq(Events)]
  <2> DEFINE taken == subs \ {c \in subs : Len(ch[c]) >= Buffer}
  <2>1. ch' = [c \in Readers |-> IF c \in taken THEN Append(ch[c], e) ELSE ch[c]] BY DEF AppendEvent
  <2> HIDE DEF taken, e
  <2> QED BY <1>1, <2>1 DEF TypeOK
<1>5. lost' \subseteq subs /\ cut' \subseteq Readers BY DEF TypeOK, AppendEvent
<1> QED BY <1>2, <1>3, <1>4, <1>5

\* Every step keeps every variable in its type.
LEMMA TypeStep == TypeOK /\ [Next]_vars => TypeOK'
<1> SUFFICES ASSUME TypeOK, [Next]_vars PROVE TypeOK'
  OBVIOUS
<1> USE DEF TypeOK

<1>1. ASSUME Progress PROVE TypeOK'
  <2>1. AppendEvent(0) BY <1>1 DEF Progress
  <2>2. /\ seq' \in Nat /\ dropped' \in Nat /\ log' \in Seq(Events) /\ Len(log') <= LogSize
        /\ ch' \in [Readers -> Seq(Events)] /\ lost' \subseteq subs /\ cut' \subseteq Readers
    BY <2>1, AppendTypes
  <2> QED BY <1>1, <2>2 DEF Progress, Phases, asking, handler, client
<1>2. ASSUME Flash PROVE TypeOK'
  <2>1. Line(0) \in Events BY DEF Line, Events
  <2> DEFINE room(c) == c \in subs /\ Len(ch[c]) < Buffer \div 2
  <2>2. ch' = [c \in Readers |-> IF room(c) THEN Append(ch[c], Line(0)) ELSE ch[c]] BY <1>2 DEF Flash
  <2> HIDE DEF room
  <2>3. ch' \in [Readers -> Seq(Events)] BY <2>1, <2>2
  <2> QED BY <1>2, <2>3 DEF Flash, run, asking, handler, client, history
<1>3. ASSUME Ask PROVE TypeOK'
  BY <1>3 DEF Ask, Phases, run, asking, queues, handler, client, history
<1>4. ASSUME AnnounceQuestion PROVE TypeOK'
  <2>1. AppendEvent(question) BY <1>4 DEF AnnounceQuestion
  <2>2. /\ seq' \in Nat /\ dropped' \in Nat /\ log' \in Seq(Events) /\ Len(log') <= LogSize
        /\ ch' \in [Readers -> Seq(Events)] /\ lost' \subseteq subs /\ cut' \subseteq Readers
    BY <2>1, AppendTypes
  <2> QED BY <1>4, <2>2 DEF AnnounceQuestion, Phases, asking, handler, client
<1>5. ASSUME Answered PROVE TypeOK'
  BY <1>5 DEF Answered, Phases, run, asking, queues, handler, client, history
<1>6. ASSUME Denied PROVE TypeOK'
  <2>1. AppendEvent(0) BY <1>6 DEF Denied
  <2>2. /\ seq' \in Nat /\ dropped' \in Nat /\ log' \in Seq(Events) /\ Len(log') <= LogSize
        /\ ch' \in [Readers -> Seq(Events)] /\ lost' \subseteq subs /\ cut' \subseteq Readers
    BY <2>1, AppendTypes
  <2> QED BY <1>6, <2>2 DEF Denied, Phases, asking, handler, client
<1>7. ASSUME ClearQuestion PROVE TypeOK'
  BY <1>7 DEF ClearQuestion, Phases, run, asking, queues, handler, client, history
<1>8. ASSUME AppendVerdict PROVE TypeOK'
  <2>1. AppendEvent(0) BY <1>8 DEF AppendVerdict
  <2>2. /\ seq' \in Nat /\ dropped' \in Nat /\ log' \in Seq(Events) /\ Len(log') <= LogSize
        /\ ch' \in [Readers -> Seq(Events)] /\ lost' \subseteq subs /\ cut' \subseteq Readers
    BY <2>1, AppendTypes
  <2> QED BY <1>8, <2>2 DEF AppendVerdict, Phases, asking, handler, client
<1>9. ASSUME Finish PROVE TypeOK'
  BY <1>9 DEF Finish, Phases, run, asking, queues, handler, client, history
<1>10. ASSUME NEW c \in Readers, Attach(c) PROVE TypeOK'
  BY <1>10 DEF Attach, ReaderSteps, Verdicts, run, asking, queues, handler, client, history
<1>11. ASSUME NEW c \in Readers, ReadLog(c) PROVE TypeOK'
  <2>1. Since(from[c]) \in Seq(Events) /\ FirstSeq \in Nat
    BY SinceType, HeadTail DEF Events, FirstSeq
  <2> DEFINE told == (from[c] + 1)..(FirstSeq - 1)
  <2>2. told \subseteq Nat BY <2>1
  <2>3. excused' = [excused EXCEPT ![c] = @ \union told] BY <1>11 DEF ReadLog
  <2> HIDE DEF told
  <2>4. excused' \in [Readers -> SUBSET Nat] BY <2>2, <2>3
  <2>5. /\ replay' \in [Readers -> Seq(Events)] /\ last' \in [Readers -> Nat]
        /\ place' \in [Readers -> ReaderSteps]
    BY <1>11, <2>1 DEF ReadLog, ReaderSteps
  <2> QED BY <1>11, <2>4, <2>5 DEF ReadLog, run, asking, queues, client
<1>12. ASSUME NEW c \in Readers, Preamble(c) PROVE TypeOK'
  BY <1>12 DEF Preamble, ReaderSteps, Verdicts, run, asking, queues, handler, client, history
<1>13. ASSUME NEW c \in Readers, WriteReplay(c) PROVE TypeOK'
  <2>1. Head(replay[c]) \in Events /\ Tail(replay[c]) \in Seq(Events)
    BY <1>13, HeadTail DEF WriteReplay
  <2>2. replay' \in [Readers -> Seq(Events)] BY <1>13, <2>1 DEF WriteReplay
  <2>3. CASE UNCHANGED client
    <3> DEFINE told == {Head(replay[c]).seq}
    <3>1. excused' = excused \/ excused' = [excused EXCEPT ![c] = @ \union told]
      BY <1>13 DEF WriteReplay
    <3>2. told \subseteq Nat BY <2>1 DEF Events
    <3> HIDE DEF told
    <3>3. excused' \in [Readers -> SUBSET Nat] BY <3>1, <3>2
    <3> QED BY <1>13, <2>2, <2>3, <3>3 DEF WriteReplay, run, asking, queues, client
  <2>4. CASE Write(c, Head(replay[c])) /\ UNCHANGED excused
    BY <1>13, <2>1, <2>2, <2>4, WriteTypes DEF WriteReplay, run, asking, queues
  <2> QED BY <1>13, <2>3, <2>4 DEF WriteReplay
<1>14. ASSUME NEW c \in Readers, ReplayWritten(c) PROVE TypeOK'
  BY <1>14 DEF ReplayWritten, ReaderSteps, Verdicts, run, asking, queues, handler, client, history
<1>15. ASSUME NEW c \in Readers, Follow(c) PROVE TypeOK'
  <2>1. Head(ch[c]) \in Events /\ Tail(ch[c]) \in Seq(Events)
    BY <1>15, HeadTail DEF Follow
  <2>2. ch' \in [Readers -> Seq(Events)] BY <1>15, <2>1 DEF Follow
  <2>3. CASE UNCHANGED client
    BY <1>15, <2>2, <2>3 DEF Follow, run, asking, handler, client, history
  <2>4. CASE Write(c, Head(ch[c]))
    BY <1>15, <2>1, <2>2, <2>4, WriteTypes DEF Follow, run, asking, handler, history
  <2> QED BY <1>15, <2>3, <2>4 DEF Follow, WriteIfNew
<1>16. ASSUME NEW c \in Readers, ToldLost(c) PROVE TypeOK'
  <2>1. heard' \in [Readers -> Verdicts] BY <1>16 DEF ToldLost, Verdicts
  <2> QED BY <1>16, <2>1, LeaveTypes DEF ToldLost, run, asking, history
<1>17. ASSUME NEW c \in Readers, SeeDone(c) PROVE TypeOK'
  BY <1>17 DEF SeeDone, ReaderSteps, Verdicts, run, asking, queues, handler, client, history
<1>18. ASSUME NEW c \in Readers, Drain(c) PROVE TypeOK'
  <2>1. Head(ch[c]) \in Events /\ Tail(ch[c]) \in Seq(Events)
    BY <1>18, HeadTail DEF Drain
  <2>2. ch' \in [Readers -> Seq(Events)] BY <1>18, <2>1 DEF Drain
  <2>3. CASE UNCHANGED client
    BY <1>18, <2>2, <2>3 DEF Drain, run, asking, handler, client, history
  <2>4. CASE Write(c, Head(ch[c]))
    BY <1>18, <2>1, <2>2, <2>4, WriteTypes DEF Drain, run, asking, handler, history
  <2> QED BY <1>18, <2>3, <2>4 DEF Drain
<1>19. ASSUME NEW c \in Readers, StreamEnds(c) PROVE TypeOK'
  <2>1. tries' \in [Readers -> Nat] /\ heard' \in [Readers -> Verdicts]
    BY <1>19, RetryTypes DEF StreamEnds
  <2>2. silent' \subseteq Readers BY <1>19 DEF StreamEnds
  <2> QED BY <1>19, <2>1, <2>2, LeaveTypes DEF StreamEnds, run, asking
<1>20. ASSUME NEW c \in Readers, Drop(c) PROVE TypeOK'
  <2> QED BY <1>20, LeaveTypes, RetryTypes DEF Drop, run, asking, history
<1>21. ASSUME UNCHANGED vars PROVE TypeOK'
  BY <1>21 DEF vars, run, asking, queues, handler, client, history
<1> QED
    BY <1>1, <1>2, <1>3, <1>4, <1>5, <1>6, <1>7, <1>8, <1>9, <1>10, <1>11, <1>12, <1>13, <1>14, <1>15, <1>16, <1>17,
       <1>18, <1>19, <1>20, <1>21 DEF Next, RunStep, ReaderStep

-----------------------------------------------------------------------------
(* The log and its readers.                                                 *)

First(n) == IF n >= dropped THEN n ELSE dropped
\* What a client that knows of n events is replayed: the log from there on, or all of it (run.since).
LEMMA SinceFacts ==
    ASSUME TypeOK, LogInOrder, NEW n \in Nat, n <= seq
    PROVE  /\ First(n) \in n..seq /\ First(n) \in Nat /\ Len(Since(n)) = seq - First(n)
           /\ \A i \in 1..Len(Since(n)) : /\ First(n) - dropped + i \in 1..Len(log)
                                          /\ Since(n)[i] = log[First(n) - dropped + i]
<1> DEFINE k == First(n) - dropped
<1>0. dropped \in Nat /\ seq \in Nat /\ Len(log) \in Nat /\ dropped + Len(log) = seq
  BY DEF TypeOK, LogInOrder
<1>1. First(n) \in n..seq /\ First(n) \in Nat /\ k \in 0..Len(log) BY <1>0 DEF First
<1>2. UpTo(n) = 1..k
  <2>1. \A i \in 1..Len(log) : log[i].seq = dropped + i BY DEF LogInOrder
  <2>2. \A i \in 1..Len(log) : dropped + i <= n <=> i <= k BY <1>0 DEF First
  <2> HIDE DEF k
  <2> QED BY <1>1, <2>1, <2>2, <1>0 DEF UpTo
<1>3. Cardinality(UpTo(n)) = k
  <2> HIDE DEF k
  <2>1. k \in Int /\ 1 \in Int BY <1>0, <1>1
  <2>2. Cardinality(1..k) = IF 1 > k THEN 0 ELSE k - 1 + 1 BY <2>1, FS_Interval
  <2> QED BY <1>0, <1>1, <1>2, <2>2
<1> HIDE DEF k
<1>4. Since(n) = SubSeq(log, k + 1, Len(log)) BY <1>3 DEF Since
<1>5. Len(Since(n)) = Len(log) - k /\ \A i \in 1..(Len(log) - k) : Since(n)[i] = log[k + i]
  BY <1>0, <1>1, <1>4 DEF TypeOK
<1>6. seq - First(n) = Len(log) - k BY <1>0, <1>1 DEF k
<1> QED BY <1>0, <1>1, <1>5, <1>6 DEF k

\* What one locked append does to the log ...
LEMMA AppendLog ==
    ASSUME TypeOK, LogInOrder, NEW ask \in Nat, AppendEvent(ask)
    PROVE  /\ LogInOrder' /\ seq' = seq + 1 /\ Len(log') \in 1..(Len(log) + 1)
           /\ log'[Len(log')] = [seq |-> seq + 1, ask |-> ask]
           /\ \A i \in 1..(Len(log') - 1) : \E j \in 1..Len(log) : log'[i] = log[j]
<1> DEFINE e == [seq |-> seq + 1, ask |-> ask]
<1>0. dropped \in Nat /\ seq \in Nat /\ Len(log) \in Nat /\ dropped + Len(log) = seq /\ e.seq = seq + 1 /\ e \in Events
  BY DEF TypeOK, LogInOrder, Events
<1>n. dropped \in Nat /\ seq \in Nat /\ Len(log) \in Nat /\ dropped + Len(log) = seq
  BY <1>0
<1>1. seq' = seq + 1 BY DEF AppendEvent
<1>2. \A i \in 1..Len(log) : log[i].seq = dropped + i BY DEF LogInOrder
<1>3. CASE Len(log) >= LogSize
  <2>1. log' = Append(Tail(log), e) /\ dropped' = dropped + 1 BY <1>3 DEF AppendEvent
  <2>d. dropped' = dropped + 1 BY <2>1
  <2>2. Len(log) = LogSize /\ log # <<>> BY <1>3, SizesAssumption DEF TypeOK
  <2>3. Tail(log) \in Seq(Events) /\ Len(Tail(log)) = Len(log) - 1
        /\ \A i \in 1..(Len(log) - 1) : Tail(log)[i] = log[i + 1] /\ i + 1 \in 1..Len(log)
    BY <2>2, HeadTail DEF TypeOK
  <2> HIDE DEF e
  <2>4. Len(log') = Len(log) /\ log'[Len(log)] = e /\ \A i \in 1..(Len(log) - 1) : log'[i] = log[i + 1] /\ i + 1 \in 1..Len(log)
    BY <1>0, <2>1, <2>2, <2>3, SizesAssumption
  <2>5. ASSUME NEW i \in 1..Len(log') PROVE log'[i].seq = dropped' + i
    <3>1. CASE i = Len(log)
      <4>1. log'[i].seq = seq + 1 BY <1>0, <2>4, <3>1
      <4> QED BY <1>n, <2>d, <3>1, <4>1
    <3>2. CASE i # Len(log)
      <4>1. i \in 1..(Len(log) - 1) BY <1>0, <2>4, <3>2
      <4>2. log'[i].seq = dropped + (i + 1) BY <1>2, <2>4, <4>1
      <4> QED BY <1>0, <2>1, <4>1, <4>2
    <3> QED BY <3>1, <3>2
  <2>6. LogInOrder'
    <3>1. Len(log') = Len(log) BY <2>4
    <3>2. dropped' + Len(log') = seq' BY <1>n, <1>1, <2>d, <3>1
    <3> QED BY <2>2, <2>5, <3>1, <3>2 DEF LogInOrder
  <2>7. Len(log') \in 1..(Len(log) + 1) BY <1>0, <2>2, <2>4, SizesAssumption
  <2> QED BY <1>1, <2>4, <2>6, <2>7 DEF e
<1>4. CASE ~(Len(log) >= LogSize)
  <2>1. log' = Append(log, e) /\ dropped' = dropped BY <1>4 DEF AppendEvent
  <2> HIDE DEF e
  <2>2. Len(log') = Len(log) + 1 /\ log'[Len(log) + 1] = e /\ \A i \in 1..Len(log) : log'[i] = log[i]
    BY <1>0, <2>1 DEF TypeOK
  <2>3. ASSUME NEW i \in 1..Len(log') PROVE log'[i].seq = dropped' + i
    <3>1. CASE i = Len(log) + 1
      <4>1. log'[i].seq = seq + 1 BY <1>0, <2>2, <3>1
      <4> QED BY <1>0, <2>1, <3>1, <4>1
    <3>2. CASE i # Len(log) + 1
      <4>1. i \in 1..Len(log) BY <1>0, <2>2, <3>2
      <4> QED BY <1>2, <2>1, <2>2, <4>1
    <3> QED BY <3>1, <3>2
  <2>4. dropped = 0 BY <1>0, <1>4, SizesAssumption DEF LogInOrder
  <2>5. LogInOrder' BY <1>0, <1>1, <2>1, <2>2, <2>3, <2>4 DEF LogInOrder
  <2>6. Len(log') \in 1..(Len(log) + 1) BY <1>0, <2>2
  <2>7. \A i \in 1..(Len(log') - 1) : i \in 1..Len(log) /\ log'[i] = log[i] BY <1>0, <2>2
  <2> QED BY <1>1, <2>2, <2>5, <2>6, <2>7 DEF e
<1> QED BY <1>3, <1>4

\* ... to a queue: the event is at its end, or its reader is cut off ...
LEMMA AppendQueue ==
    ASSUME TypeOK, CutOffs, NEW ask \in Nat, AppendEvent(ask), NEW x \in Readers
    PROVE  /\ x \in subs =>
                \/ /\ Len(ch[x]) < Buffer /\ Len(ch'[x]) = Len(ch[x]) + 1
                   /\ ch'[x][Len(ch[x]) + 1] = [seq |-> seq + 1, ask |-> ask]
                   /\ \A i \in 1..Len(ch[x]) : ch'[x][i] = ch[x][i]
                \/ ch'[x] = ch[x] /\ x \in lost' /\ x \in cut'
           /\ x \notin subs => ch'[x] = ch[x]
           /\ cut \subseteq cut' /\ lost \subseteq lost' /\ (lost' \subseteq cut') /\ seq' = seq + 1
<1> DEFINE e == [seq |-> seq + 1, ask |-> ask]
           full == {c \in subs : Len(ch[c]) >= Buffer}
<1>1. /\ ch' = [c \in Readers |-> IF c \in subs \ full THEN Append(ch[c], e) ELSE ch[c]]
      /\ lost' = lost \union full /\ cut' = cut \union full /\ seq' = seq + 1
  BY DEF AppendEvent
<1>2. ch[x] \in Seq(Events) /\ e \in Events BY DEF TypeOK, Events
<1>3. Len(ch[x]) \in Nat /\ Buffer \in Nat BY <1>2, SizesAssumption
<1>4. cut \subseteq cut' /\ lost \subseteq lost' /\ (lost' \subseteq cut') BY <1>1 DEF CutOffs
<1>5. CASE x \in subs \ full
  <2>1. Len(ch[x]) < Buffer BY <1>3, <1>5
  <2>2. ch'[x] = Append(ch[x], e) BY <1>1, <1>5
  <2> HIDE DEF e
  <2>3. Len(ch'[x]) = Len(ch[x]) + 1 /\ ch'[x][Len(ch[x]) + 1] = e /\ \A i \in 1..Len(ch[x]) : ch'[x][i] = ch[x][i]
    BY <1>2, <2>2
  <2> QED BY <1>1, <1>4, <1>5, <2>1, <2>3 DEF e
<1>6. CASE x \notin subs \ full
  <2>1. ch'[x] = ch[x] BY <1>1, <1>6
  <2>2. x \in subs => x \in lost' /\ x \in cut' BY <1>1, <1>6
  <2> QED BY <1>1, <1>4, <2>1, <2>2
<1> QED BY <1>5, <1>6

\* ... and to a reader.
LEMMA AppendReader ==
    ASSUME TypeOK, CutOffs, RunFacts, NEW ask \in Nat, AppendEvent(ask), NEW x \in Readers, ReaderInv(x),
           UNCHANGED <<subs, handler, client, excused, done>>, ~done, verdict = 0, verdict' \in {0, seq + 1}
    PROVE  Attached(x)' /\ Queued(x)' /\ Whole(x)'
<1>1. /\ x \in subs =>
           \/ /\ Len(ch[x]) < Buffer /\ Len(ch'[x]) = Len(ch[x]) + 1
              /\ ch'[x][Len(ch[x]) + 1].seq = seq + 1
              /\ \A i \in 1..Len(ch[x]) : ch'[x][i] = ch[x][i]
           \/ ch'[x] = ch[x] /\ x \in cut'
      /\ x \notin subs => ch'[x] = ch[x]
      /\ cut \subseteq cut' /\ seq' = seq + 1
  <2>1. [seq |-> seq + 1, ask |-> ask].seq = seq + 1 OBVIOUS
  <2> QED BY <2>1, AppendQueue
<1>2. /\ seq \in Nat /\ Buffer \in Nat /\ ch[x] \in Seq(Events) /\ Len(ch[x]) \in Nat
      /\ last[x] \in Nat /\ from[x] \in Nat /\ excused[x] \subseteq Nat
      /\ \A i \in 1..Len(ch[x]) : ch[x][i].seq \in Nat
  <2>1. /\ seq \in Nat /\ Buffer \in Nat /\ ch[x] \in Seq(Events) /\ Len(ch[x]) \in Nat
        /\ last[x] \in Nat /\ from[x] \in Nat /\ excused[x] \subseteq Nat
    BY SizesAssumption DEF TypeOK
  <2>2. \A i \in 1..Len(ch[x]) : ch[x][i] \in Events BY <2>1
  <2> QED BY <2>1, <2>2 DEF Events
<1>3. /\ subs' = subs /\ place' = place /\ last' = last /\ from' = from /\ heard' = heard
      /\ excused' = excused /\ done' = done
  BY DEF handler, client
<1>4. Attached(x)'
  <2>1. from[x] <= seq /\ last[x] <= seq /\ excused[x] \subseteq 1..seq BY DEF ReaderInv, Attached
  <2>2. excused[x] \subseteq 1..(seq + 1) /\ seq + 1 \notin excused[x] /\ from[x] # seq + 1 BY <1>2, <2>1
  <2>3. 0 \notin excused[x] BY <2>1
  <2> QED BY <1>1, <1>2, <1>3, <2>1, <2>2, <2>3 DEF ReaderInv, Attached
<1>5. Queued(x)'
  <2>0. /\ Len(ch[x]) <= Buffer
        /\ \A i \in 1..Len(ch[x]) : ch[x][i].seq <= seq /\ (ch[x][i].seq = 0 => i <= Buffer \div 2)
        /\ \A i, j \in 1..Len(ch[x]) : i < j /\ ch[x][i].seq > 0 /\ ch[x][j].seq > 0 => ch[x][i].seq < ch[x][j].seq
    BY DEF ReaderInv, Queued
  <2>1. CASE ch'[x] = ch[x]
    <3>1. \A i \in 1..Len(ch[x]) : ch[x][i].seq <= seq + 1 BY <1>2, <2>0
    <3> QED BY <1>1, <2>0, <2>1, <3>1 DEF Queued
  <2>2. CASE /\ Len(ch[x]) < Buffer /\ Len(ch'[x]) = Len(ch[x]) + 1
             /\ ch'[x][Len(ch[x]) + 1].seq = seq + 1
             /\ \A i \in 1..Len(ch[x]) : ch'[x][i] = ch[x][i]
    <3>1. Len(ch'[x]) <= Buffer BY <1>2, <2>2
    <3>2. ASSUME NEW i \in 1..Len(ch'[x]) PROVE ch'[x][i].seq <= seq' /\ (ch'[x][i].seq = 0 => i <= Buffer \div 2)
      <4>1. CASE i = Len(ch[x]) + 1 BY <1>1, <1>2, <2>2, <4>1
      <4>2. CASE i # Len(ch[x]) + 1
        <5>1. i \in 1..Len(ch[x]) /\ ch'[x][i] = ch[x][i] BY <1>2, <2>2, <4>2
        <5> QED BY <1>1, <1>2, <2>0, <5>1
      <4> QED BY <4>1, <4>2
    <3>3. ASSUME NEW i \in 1..Len(ch'[x]), NEW j \in 1..Len(ch'[x]), i < j, ch'[x][i].seq > 0, ch'[x][j].seq > 0
          PROVE  ch'[x][i].seq < ch'[x][j].seq
      <4>1. i \in 1..Len(ch[x]) /\ ch'[x][i] = ch[x][i] /\ ch[x][i].seq <= seq
        BY <1>2, <2>0, <2>2, <3>3
      <4>2. CASE j = Len(ch[x]) + 1 BY <1>2, <2>2, <4>1, <4>2
      <4>3. CASE j # Len(ch[x]) + 1
        <5>1. Len(ch[x]) \in Nat /\ Len(ch'[x]) = Len(ch[x]) + 1 BY <1>2, <2>2
        <5>2. j \in 1..Len(ch[x]) BY <4>3, <5>1
        <5>3. ch'[x][j] = ch[x][j] BY <2>2, <5>2
        <5> QED BY <2>0, <3>3, <4>1, <5>2, <5>3
      <4> QED BY <4>2, <4>3
    <3> QED BY <3>1, <3>2, <3>3 DEF Queued
  <2> QED BY <1>1, <2>1, <2>2
<1>6. Whole(x)'
  <2> SUFFICES ASSUME place[x] \in {"pending", "replay", "live", "drain"} PROVE Whole(x)'
    BY <1>3 DEF Whole
  <2>1. x \in subs BY DEF ReaderInv, Attached
  <2>2. /\ \A i \in 1..Len(ch[x]) : ch[x][i].seq > last[x] => ch[x][i].seq > from[x]
        /\ x \notin cut => \A n \in (last[x] + 1)..seq :
                              n > from[x] => \E i \in 1..Len(ch[x]) : ch[x][i].seq = n
        /\ place[x] \in {"live", "drain"} => (from[x] + 1)..last[x] \subseteq excused[x]
    BY DEF ReaderInv, Whole
  <2>3. from[x] <= seq /\ last[x] <= seq BY DEF ReaderInv, Attached
  <2>4. CASE ch'[x] = ch[x] /\ x \in cut' BY <1>2, <1>3, <2>2, <2>4 DEF Whole
  <2>5. CASE /\ Len(ch'[x]) = Len(ch[x]) + 1
             /\ ch'[x][Len(ch[x]) + 1].seq = seq + 1
             /\ \A i \in 1..Len(ch[x]) : ch'[x][i] = ch[x][i]
    <3>1. ASSUME NEW i \in 1..Len(ch'[x]), ch'[x][i].seq > last[x] PROVE ch'[x][i].seq > from[x]
      <4>1. CASE i = Len(ch[x]) + 1 BY <1>2, <2>3, <2>5, <4>1
      <4>2. CASE i # Len(ch[x]) + 1
        <5>1. i \in 1..Len(ch[x]) /\ ch'[x][i] = ch[x][i] BY <1>2, <2>5, <4>2
        <5> QED BY <2>2, <3>1, <5>1
      <4> QED BY <4>1, <4>2
    <3>2. ASSUME x \notin cut', NEW n \in (last[x] + 1)..(seq + 1), n > from[x]
          PROVE  \E i \in 1..Len(ch'[x]) : ch'[x][i].seq = n
      <4>1. CASE n = seq + 1
        <5>1. Len(ch[x]) + 1 \in 1..Len(ch'[x]) BY <1>2, <2>5
        <5> QED BY <2>5, <4>1, <5>1
      <4>2. CASE n # seq + 1
        <5>1. n \in (last[x] + 1)..seq BY <1>2, <4>2
        <5>2. PICK i \in 1..Len(ch[x]) : ch[x][i].seq = n BY <1>1, <2>2, <3>2, <5>1
        <5>3. i \in 1..Len(ch'[x]) /\ ch'[x][i].seq = n BY <1>2, <2>5, <5>2
        <5> QED BY <5>3
      <4> QED BY <4>1, <4>2
    <3> QED BY <1>1, <1>3, <2>2, <3>1, <3>2 DEF Whole
  <2> QED BY <1>1, <2>1, <2>4, <2>5
<1> QED BY <1>4, <1>5, <1>6

\* A step that leaves the run and a reader alone keeps what is said of it.
LEMMA Untouched ==
    ASSUME NEW x \in Readers, ReaderInv(x), UNCHANGED <<run, asking>>,
           ch'[x] = ch[x], place'[x] = place[x], replay'[x] = replay[x], last'[x] = last[x], pend'[x] = pend[x],
           from'[x] = from[x], shown'[x] = shown[x], heard'[x] = heard[x], excused'[x] = excused[x],
           x \in subs' <=> x \in subs, x \in lost' <=> x \in lost, x \in cut' <=> x \in cut
    PROVE  ReaderInv(x)'
<1> USE DEF run, asking
<1>1. Attached(x)' BY DEF ReaderInv, Attached
<1>2. Replaying(x)' BY DEF ReaderInv, Replaying, Before, Settled
<1>3. Queued(x)' BY DEF ReaderInv, Queued
<1>4. Whole(x)' BY DEF ReaderInv, Whole
<1>5. OnItsWay(x)' BY DEF ReaderInv, OnItsWay
<1> QED BY <1>1, <1>2, <1>3, <1>4, <1>5 DEF ReaderInv

\* A reader that left has nothing of the run.
LEMMA Left ==
    ASSUME TypeOK, NEW c \in Readers, ReaderInv(c), Leave(c), UNCHANGED <<run, asking, last, from, shown, pend, excused>>,
           heard'[c] # "none" \/ heard'[c] = heard[c]
    PROVE  ReaderInv(c)'
<1> USE DEF run, asking, TypeOK
<1>1. place'[c] = "away" /\ c \notin subs' /\ ch'[c] = <<>> BY DEF Leave
<1>2. Attached(c)' BY <1>1 DEF ReaderInv, Attached
<1>3. Queued(c)' BY <1>1, SizesAssumption DEF Queued
<1>4. Replaying(c)' /\ Whole(c)' /\ OnItsWay(c)' BY <1>1 DEF Replaying, Whole, OnItsWay
<1> QED BY <1>2, <1>3, <1>4 DEF ReaderInv


\* An append leaves the log, the queues and the readers as they should be, if the event it adds
\* is no question or the one that is open, and is not followed once it is the last.
LEMMA AppendStep ==
    ASSUME LInv, NEW ask \in Nat, AppendEvent(ask),
           UNCHANGED <<question, answered, subs, handler, client, excused, silent, done>>, ~done,
           verdict = 0, verdict' \in {0, seq + 1}, askedAt' = askedAt \/ askedAt = 0,
           ask > 0 => ask = question /\ askedAt' = seq + 1,
           phase' = "waiting" => ask = question \/ phase = "waiting", phase' # "asking"
    PROVE  LogInOrder' /\ LogSettled' /\ CutOffs' /\ \A x \in Readers : ReaderInv(x)'
<1>1. TypeOK /\ LogInOrder /\ RunFacts /\ LogSettled /\ CutOffs /\ \A x \in Readers : ReaderInv(x) BY DEF LInv
<1>2. /\ LogInOrder' /\ seq' = seq + 1 /\ Len(log') \in 1..(Len(log) + 1)
      /\ log'[Len(log')] = [seq |-> seq + 1, ask |-> ask]
      /\ \A i \in 1..(Len(log') - 1) : \E j \in 1..Len(log) : log'[i] = log[j]
  BY <1>1, AppendLog
<1>3. seq \in Nat /\ Len(log) \in Nat /\ log \in Seq(Events) /\ askedAt \in Nat /\ question \in Nat /\ dropped \in Nat
  BY <1>1 DEF TypeOK
<1> DEFINE S(e) == e.ask > 0 => e.seq \in answered' \/ (e.seq = askedAt' /\ e.ask = question')
<1>4. ASSUME NEW e \in Events, e.seq > 0, Settled(e) PROVE S(e)
  <2>1. e.seq \in Nat /\ e.ask \in Nat BY DEF Events
  <2> QED BY <1>3, <1>4, <2>1 DEF Settled
<1>5. LogSettled'
  <2> SUFFICES ASSUME NEW i \in 1..Len(log') PROVE S(log'[i])
    BY DEF LogSettled, Settled
  <2>1. CASE i = Len(log')
    <3>1. log'[i].seq = seq + 1 /\ log'[i].ask = ask BY <1>2, <2>1
    <3> QED BY <3>1
  <2>2. CASE i # Len(log')
    <3>1. i \in 1..(Len(log') - 1) BY <1>2, <1>3, <2>2
    <3>2. PICK j \in 1..Len(log) : log'[i] = log[j] BY <1>2, <3>1
    <3>3. log[j] \in Events /\ log[j].seq = dropped + j /\ Settled(log[j]) BY <1>1, <1>3 DEF LogInOrder, LogSettled
    <3>4. log[j].seq > 0 BY <1>3, <3>3
    <3> HIDE DEF S
    <3>5. S(log[j]) BY <1>4, <3>3, <3>4
    <3> QED BY <3>2, <3>5
  <2> QED BY <2>1, <2>2
<1>6. CutOffs'
  <2>1. silent' = silent /\ \A x \in Readers : cut \subseteq cut' /\ lost' \subseteq cut' BY <1>1, AppendQueue
  <2>2. CASE Readers = {} BY <1>1, <1>2, <2>1, <2>2 DEF CutOffs, TypeOK, AppendEvent
  <2>3. CASE Readers # {} BY <1>1, <2>1, <2>3 DEF CutOffs
  <2> QED BY <2>2, <2>3
<1>7. ASSUME NEW x \in Readers PROVE ReaderInv(x)'
  <2>1. ReaderInv(x) BY <1>1
  <2>2. Attached(x)' /\ Queued(x)' /\ Whole(x)' BY <1>1, <2>1, AppendReader
  <2>3. /\ place' = place /\ replay' = replay /\ last' = last /\ pend' = pend /\ from' = from /\ shown' = shown
        /\ excused' = excused /\ answered' = answered /\ question' = question /\ subs' = subs
    BY DEF handler, client
  <2>4. Replaying(x)'
    <3> SUFFICES ASSUME place[x] \in {"pending", "replay"} PROVE Replaying(x)' BY <2>3 DEF Replaying
    <3>1. replay[x] \in Seq(Events) /\ last[x] \in Nat /\ from[x] \in Nat /\ Before(x) \in Int
      BY <1>1 DEF TypeOK, Before
    <3>2. Before(x)' = Before(x) BY <2>3 DEF Before
    <3>3. ASSUME NEW i \in 1..Len(replay[x]) PROVE S(replay[x][i])
      <4>1. replay[x][i].seq = Before(x) + i /\ Settled(replay[x][i]) /\ from[x] <= Before(x)
        BY <2>1 DEF ReaderInv, Replaying
      <4>2. replay[x][i] \in Events BY <3>1
      <4>3. replay[x][i].seq > 0 BY <3>1, <4>1
      <4> HIDE DEF S
      <4> QED BY <1>4, <4>1, <4>2, <4>3
    <3> QED BY <2>1, <2>3, <3>2, <3>3 DEF ReaderInv, Replaying, Settled
  <2>5. OnItsWay(x)'
    <3> SUFFICES ASSUME phase' = "waiting", place[x] \in {"replay", "live"}, x \notin lost', question \notin shown[x]
                 PROVE  \E i \in 1..Len(ch'[x]) : ch'[x][i].ask = question /\ ch'[x][i].seq > last[x]
      BY <2>3 DEF OnItsWay
    <3>1. x \in subs /\ last[x] <= seq /\ last[x] \in Nat /\ Len(ch[x]) \in Nat
        BY <1>1, <2>1 DEF ReaderInv, Attached, TypeOK
    <3>2. /\ Len(ch'[x]) = Len(ch[x]) + 1 /\ x \notin lost
          /\ ch'[x][Len(ch[x]) + 1] = [seq |-> seq + 1, ask |-> ask]
          /\ \A i \in 1..Len(ch[x]) : ch'[x][i] = ch[x][i]
      BY <1>1, <3>1, AppendQueue
    <3>3. CASE ask = question
      <4>1. ch'[x][Len(ch[x]) + 1].seq = seq + 1 /\ ch'[x][Len(ch[x]) + 1].ask = question BY <3>2, <3>3
      <4>2. Len(ch[x]) + 1 \in 1..Len(ch'[x]) /\ seq + 1 > last[x] BY <1>3, <3>1, <3>2
      <4> QED BY <4>1, <4>2
    <3>4. CASE phase = "waiting"
      <4>1. PICK i \in 1..Len(ch[x]) : ch[x][i].ask = question /\ ch[x][i].seq > last[x]
        BY <2>1, <3>2, <3>4 DEF ReaderInv, OnItsWay
      <4>2. i \in 1..Len(ch'[x]) /\ ch'[x][i] = ch[x][i] BY <3>1, <3>2
      <4> QED BY <4>1, <4>2
    <3> QED BY <3>3, <3>4
  <2> QED BY <2>2, <2>4, <2>5 DEF ReaderInv
<1> QED BY <1>2, <1>5, <1>6, <1>7


-----------------------------------------------------------------------------
(* What each step does to what is said of the readers.                      *)

\* A step of one reader leaves the run and the other readers as they are.
Alone(c) ==
    /\ UNCHANGED <<run, asking>>
    /\ \A x \in Readers \ {c} :
          /\ ch'[x] = ch[x] /\ place'[x] = place[x] /\ replay'[x] = replay[x]
          /\ last'[x] = last[x] /\ pend'[x] = pend[x] /\ from'[x] = from[x] /\ shown'[x] = shown[x]
          /\ heard'[x] = heard[x] /\ excused'[x] = excused[x]
          /\ (x \in subs' <=> x \in subs) /\ (x \in lost' <=> x \in lost) /\ (x \in cut' <=> x \in cut)

\* A step of one reader keeps the invariant when it keeps what is said of that reader.
LEMMA OneReader ==
    ASSUME LInv, TypeOK', NEW c \in Readers, Alone(c), CutOffs', ReaderInv(c)'
    PROVE  LInv'
<1>1. LogInOrder' /\ RunFacts' /\ LogSettled'
  BY DEF LInv, Alone, run, asking, LogInOrder, RunFacts, LogSettled, Settled
<1>2. ASSUME NEW x \in Readers, x # c PROVE ReaderInv(x)'
  <2>1. ReaderInv(x) BY DEF LInv
  <2> QED BY <1>2, <2>1, Untouched DEF Alone
<1> QED BY <1>1, <1>2 DEF LInv

\* A snapshot goes into the first half of a queue and says nothing of the run.
LEMMA FlashStep ==
    ASSUME TypeOK, Flash, NEW x \in Readers, ReaderInv(x)
    PROVE  ReaderInv(x)'
<1> DEFINE n == Line(0)
<1>0. n.seq = 0 /\ n \in Events BY DEF Line, Events
<1>1. /\ UNCHANGED <<run, asking, subs, lost, handler, client, history>>
      /\ ch'[x] = ch[x] \/ (ch'[x] = Append(ch[x], n) /\ x \in subs /\ Len(ch[x]) < Buffer \div 2)
  BY DEF Flash
<1>2. CASE ch'[x] = ch[x] BY <1>1, <1>2, Untouched DEF handler, client, history
<1>3. CASE ch'[x] = Append(ch[x], n) /\ x \in subs /\ Len(ch[x]) < Buffer \div 2
  <2> HIDE DEF n
  <2>0. /\ ch[x] \in Seq(Events) /\ Len(ch[x]) \in Nat /\ Buffer \in Nat \ {0} /\ last[x] \in Nat
        /\ seq \in Nat /\ Buffer \div 2 \in Nat /\ Buffer \div 2 <= Buffer
    BY SizesAssumption DEF TypeOK
  <2>1. /\ Len(ch'[x]) = Len(ch[x]) + 1 /\ ch'[x][Len(ch[x]) + 1].seq = 0
        /\ \A i \in 1..Len(ch[x]) : ch'[x][i] = ch[x][i]
    BY <1>0, <1>3, <2>0
  <2>2. \A i \in 1..Len(ch'[x]) : i = Len(ch[x]) + 1 \/ i \in 1..Len(ch[x]) BY <2>0, <2>1
  <2>3. /\ seq' = seq /\ place' = place /\ last' = last /\ from' = from /\ heard' = heard /\ subs' = subs
        /\ done' = done /\ verdict' = verdict /\ excused' = excused /\ cut' = cut /\ lost' = lost
        /\ question' = question /\ phase' = phase /\ shown' = shown
    BY <1>1 DEF handler, client, history, run, asking
  <2>4. Attached(x)' BY <1>3, <2>3 DEF ReaderInv, Attached
  <2>5. Replaying(x)' BY <1>1 DEF ReaderInv, Replaying, Before, Settled, run, asking, handler, client, history
  <2>6. Queued(x)'
    <3>1. /\ \A i \in 1..Len(ch[x]) : ch[x][i].seq <= seq /\ (ch[x][i].seq = 0 => i <= Buffer \div 2)
          /\ \A i, j \in 1..Len(ch[x]) : i < j /\ ch[x][i].seq > 0 /\ ch[x][j].seq > 0 => ch[x][i].seq < ch[x][j].seq
      BY DEF ReaderInv, Queued
    <3>2. Len(ch'[x]) <= Buffer BY <1>3, <2>0, <2>1
    <3>3. Len(ch[x]) + 1 <= Buffer \div 2 BY <1>3, <2>0
    <3>4. ASSUME NEW i \in 1..Len(ch'[x]) PROVE ch'[x][i].seq <= seq /\ (ch'[x][i].seq = 0 => i <= Buffer \div 2)
      <4>1. CASE i = Len(ch[x]) + 1
        <5>1. ch'[x][i].seq = 0 BY <2>1, <4>1
        <5> QED BY <2>0, <3>3, <4>1, <5>1
      <4>2. CASE i \in 1..Len(ch[x]) BY <2>1, <3>1, <4>2
      <4> QED BY <2>2, <4>1, <4>2
    <3>5. \A i, j \in 1..Len(ch'[x]) : i < j /\ ch'[x][i].seq > 0 /\ ch'[x][j].seq > 0 => ch'[x][i].seq < ch'[x][j].seq
      <4>1. \A i \in 1..Len(ch'[x]) : ch'[x][i].seq > 0 => i \in 1..Len(ch[x]) /\ ch'[x][i] = ch[x][i] BY <2>1, <2>2
      <4> QED BY <3>1, <4>1
    <3> QED BY <2>3, <3>2, <3>4, <3>5 DEF Queued
  <2>7. Whole(x)'
    <3>1. \A i \in 1..Len(ch'[x]) : ch'[x][i].seq > last[x] => i \in 1..Len(ch[x]) /\ ch'[x][i] = ch[x][i]
      BY <2>0, <2>1, <2>2
    <3>2. \A i \in 1..Len(ch[x]) : i \in 1..Len(ch'[x]) /\ ch'[x][i] = ch[x][i] BY <2>0, <2>1
    <3> QED BY <2>3, <3>1, <3>2 DEF ReaderInv, Whole
  <2>8. OnItsWay(x)'
    <3>1. \A i \in 1..Len(ch[x]) : i \in 1..Len(ch'[x]) /\ ch'[x][i] = ch[x][i] BY <2>0, <2>1
    <3> QED BY <2>3, <3>1 DEF ReaderInv, OnItsWay
  <2> QED BY <2>4, <2>5, <2>6, <2>7, <2>8 DEF ReaderInv
<1> QED BY <1>1, <1>2, <1>3

\* What a reader reads of the log is all its client does not have, or the preamble says it is gone.
LEMMA ReadLogStep ==
    ASSUME TypeOK, LogInOrder, RunFacts, LogSettled, NEW c \in Readers, ReadLog(c), ReaderInv(c)
    PROVE  ReaderInv(c)'
<1> DEFINE f == First(from[c])
           told == (from[c] + 1)..(FirstSeq - 1)
<1>1. /\ seq \in Nat /\ dropped \in Nat /\ Len(log) \in Nat /\ dropped + Len(log) = seq /\ log \in Seq(Events)
      /\ from[c] \in Nat /\ from[c] <= seq /\ verdict \in Nat /\ excused[c] \subseteq 1..seq /\ verdict \notin excused[c]
  BY DEF TypeOK, LogInOrder, ReaderInv, Attached
<1>2. /\ place[c] = "since" /\ place'[c] = "pending" /\ last'[c] = seq /\ replay'[c] = Since(from[c])
      /\ excused'[c] = excused[c] \union told
      /\ UNCHANGED <<run, asking, queues, pend, client, cut, silent>>
  BY DEF ReadLog, TypeOK
<1>3. /\ f \in from[c]..seq /\ f \in Nat /\ Len(Since(from[c])) = seq - f
      /\ \A i \in 1..Len(Since(from[c])) : /\ f - dropped + i \in 1..Len(log)
                                           /\ Since(from[c])[i] = log[f - dropped + i]
  BY <1>1, SinceFacts
<1>4. (seq = 0 /\ FirstSeq = 0) \/ (FirstSeq = dropped + 1 /\ dropped < seq)
  <2>1. CASE log = <<>> BY <1>1, <2>1, SizesAssumption DEF LogInOrder, FirstSeq
  <2>2. CASE log # <<>>
    <3>1. Len(log) > 0 /\ Head(log) = log[1] BY <1>1, <2>2, HeadTail
    <3>2. log[1].seq = dropped + 1 BY <1>1, <3>1 DEF LogInOrder
    <3> QED BY <1>1, <2>2, <3>1, <3>2 DEF FirstSeq
  <2> QED BY <2>1, <2>2
<1>5. f = from[c] \/ f = dropped BY DEF First
<1> HIDE DEF f
<1>6. told \subseteq 1..seq /\ verdict \notin told
  <2>1. verdict = 0 \/ verdict = seq BY DEF RunFacts
  <2> QED BY <1>1, <1>4, <2>1
<1>7. (from[c] + 1)..f \subseteq told BY <1>1, <1>3, <1>4, <1>5
<1> HIDE DEF told
<1>8. Attached(c)'
  <2>1. excused'[c] \subseteq 1..seq /\ verdict \notin excused'[c] BY <1>1, <1>2, <1>6
  <2> QED BY <1>1, <1>2, <2>1 DEF ReaderInv, Attached, run, queues, client
<1>9. Replaying(c)'
  <2>1. Before(c)' = f BY <1>1, <1>2, <1>3 DEF Before
  <2>2. from[c] <= f /\ (from[c] + 1)..f \subseteq excused'[c] BY <1>1, <1>2, <1>3, <1>7
  <2>3. ASSUME NEW i \in 1..Len(replay'[c]) PROVE replay'[c][i].seq = f + i /\ Settled(replay'[c][i])
    <3>1. f - dropped + i \in 1..Len(log) /\ replay'[c][i] = log[f - dropped + i] BY <1>2, <1>3, <2>3
    <3>2. log[f - dropped + i].seq = dropped + (f - dropped + i) /\ Settled(log[f - dropped + i])
      BY <3>1 DEF LogInOrder, LogSettled
    <3>3. dropped + (f - dropped + i) = f + i BY <1>1, <1>3
    <3> QED BY <3>1, <3>2, <3>3
  <2> QED BY <1>2, <2>1, <2>2, <2>3 DEF Replaying, Settled, asking, client
<1>10. Queued(c)' BY <1>2 DEF ReaderInv, Queued, run, queues
<1>11. Whole(c)'
  <2>1. \A i \in 1..Len(ch[c]) : ch[c][i].seq <= seq BY DEF ReaderInv, Queued
  <2>2. \A i \in 1..Len(ch[c]) : ch[c][i].seq \in Nat
    <3>1. \A i \in 1..Len(ch[c]) : ch[c][i] \in Events BY DEF TypeOK
    <3> QED BY <3>1 DEF Events
  <2>3. \A i \in 1..Len(ch[c]) : ~(ch[c][i].seq > seq) BY <1>1, <2>1, <2>2
  <2> QED BY <1>1, <1>2, <2>3 DEF Whole, run, queues
<1>12. OnItsWay(c)' BY <1>2 DEF OnItsWay
<1> QED BY <1>8, <1>9, <1>10, <1>11, <1>12 DEF ReaderInv

\* Of the questions it reads, those that are not the open one are settled; the open one is shown.
LEMMA PreambleStep ==
    ASSUME TypeOK, RunFacts, NEW c \in Readers, Preamble(c), ReaderInv(c)
    PROVE  ReaderInv(c)'
<1>1. /\ place[c] = "pending" /\ place'[c] = "replay" /\ pend'[c] = question
      /\ shown'[c] = shown[c] \union ({question} \ {0})
      /\ UNCHANGED <<run, asking, queues, replay, last, from, tries, heard, history>>
  BY DEF Preamble, TypeOK
<1>2. Attached(c)' BY <1>1 DEF ReaderInv, Attached, run, queues, history
<1>3. Replaying(c)' BY <1>1 DEF ReaderInv, Replaying, Before, Settled, asking, history
<1>4. Queued(c)' BY <1>1 DEF ReaderInv, Queued, run, queues
<1>5. Whole(c)' BY <1>1 DEF ReaderInv, Whole, run, queues, history
<1>6. question # 0 => question \in shown'[c] BY <1>1
<1>7. OnItsWay(c)' BY <1>1, <1>6 DEF RunFacts, OnItsWay, run, asking, TypeOK
<1> QED BY <1>2, <1>3, <1>4, <1>5, <1>7 DEF ReaderInv


\* A replayed event reaches the client, or is a question that has its answer.
LEMMA ReplayStep ==
    ASSUME TypeOK, RunFacts, NEW c \in Readers, WriteReplay(c), ReaderInv(c)
    PROVE  ReaderInv(c)'
<1> DEFINE r == replay[c]
           h == Head(r)
           b == Before(c)
<1>1. r \in Seq(Events) /\ r # <<>> BY DEF WriteReplay, TypeOK
<1>2. /\ h = r[1] /\ h \in Events /\ Len(r) \in Nat \ {0} /\ Len(Tail(r)) = Len(r) - 1
      /\ \A i \in 1..Len(Tail(r)) : Tail(r)[i] = r[i + 1] /\ i + 1 \in 1..Len(r)
  BY <1>1, HeadTail
<1>3. /\ place[c] = "replay" /\ replay'[c] = Tail(r)
      /\ UNCHANGED <<run, asking, queues, place, last, pend, cut, silent>>
      /\ \/ h.ask > 0 /\ h.ask # pend[c] /\ excused'[c] = excused[c] \union {h.seq} /\ UNCHANGED client
         \/ Write(c, h) /\ UNCHANGED excused
  BY DEF WriteReplay, AnsweredApproval, TypeOK
<1>4. /\ from[c] <= b /\ (from[c] + 1)..b \subseteq excused[c]
      /\ \A i \in 1..Len(r) : /\ r[i].seq = b + i /\ Settled(r[i])
                              /\ r[i].ask > 0 /\ r[i].ask # pend[c] => r[i].seq \in answered
  BY <1>3 DEF ReaderInv, Replaying
<1>5. /\ from[c] \in Nat /\ last[c] \in Nat /\ seq \in Nat /\ last[c] <= seq /\ b = last[c] - Len(r) /\ verdict \in Nat
      /\ excused[c] \subseteq 1..seq /\ verdict \notin excused[c]
  BY DEF TypeOK, ReaderInv, Attached, Before
<1>6. h.seq = b + 1 /\ h.seq \in 1..last[c]
  <2>1. 1 \in 1..Len(r) BY <1>2
  <2>2. r[1].seq = b + 1 BY <1>4, <2>1
  <2> QED BY <1>2, <1>4, <1>5, <2>2
<1>7. \A i \in 1..Len(Tail(r)) : /\ Tail(r)[i].seq = b + 1 + i /\ Settled(Tail(r)[i])
                                 /\ Tail(r)[i].ask > 0 /\ Tail(r)[i].ask # pend[c] => Tail(r)[i].seq \in answered
  <2> SUFFICES ASSUME NEW i \in 1..Len(Tail(r))
               PROVE  /\ Tail(r)[i].seq = b + 1 + i /\ Settled(Tail(r)[i])
                      /\ Tail(r)[i].ask > 0 /\ Tail(r)[i].ask # pend[c] => Tail(r)[i].seq \in answered
    OBVIOUS
  <2>1. Tail(r)[i] = r[i + 1] /\ i + 1 \in 1..Len(r) /\ i \in Nat /\ b \in Int BY <1>2, <1>5
  <2>2. r[i + 1].seq = b + (i + 1) BY <1>4, <2>1
  <2>3. b + (i + 1) = b + 1 + i BY <2>1
  <2> HIDE DEF r, b
  <2> QED BY <1>4, <2>1, <2>2, <2>3
<1>8. Before(c)' = b + 1 BY <1>2, <1>3, <1>5 DEF Before
<1>9. /\ from'[c] \in Nat /\ from'[c] <= b + 1 /\ (from'[c] + 1)..(b + 1) \subseteq excused'[c]
      /\ from[c] <= from'[c] /\ excused'[c] \subseteq 1..seq /\ verdict \notin excused'[c]
      /\ shown[c] \subseteq shown'[c] /\ (verdict > 0 /\ from'[c] = verdict => heard'[c] # "none")
  <2>1. CASE h.ask > 0 /\ h.ask # pend[c] /\ excused'[c] = excused[c] \union {h.seq} /\ UNCHANGED client
    <3>1. h.seq \in answered
      <4>1. 1 \in 1..Len(r) BY <1>2
      <4> QED BY <1>2, <1>4, <2>1, <4>1
    <3>2. verdict # h.seq BY <3>1 DEF RunFacts
    <3>3. from' = from /\ shown' = shown /\ heard' = heard BY <2>1 DEF client
    <3>4. (from[c] + 1)..(b + 1) \subseteq ((from[c] + 1)..b) \union {h.seq} BY <1>4, <1>5, <1>6
    <3> HIDE DEF h, b, r
    <3>5. verdict > 0 /\ from[c] = verdict => heard[c] # "none" BY DEF ReaderInv, Attached
    <3>6. {h.seq} \subseteq 1..seq BY <1>5, <1>6
    <3>7. b + 1 \in Int /\ from[c] <= b + 1 BY <1>2, <1>4, <1>5
    <3> QED BY <1>4, <1>5, <2>1, <3>2, <3>3, <3>4, <3>5, <3>6, <3>7
  <2>2. CASE Write(c, h) /\ UNCHANGED excused
    <3> HIDE DEF h, b, r
    <3>1. h.seq > 0 BY <1>5, <1>6
    <3>2. from'[c] = h.seq BY <2>2, <3>1 DEF Write, TypeOK
    <3>3. shown[c] \subseteq shown'[c] BY <2>2 DEF Write, TypeOK
    <3>4. h.seq = verdict => heard'[c] # "none" BY <2>2, <3>1 DEF Write, TypeOK
    <3> QED BY <1>2, <1>4, <1>5, <1>6, <2>2, <3>2, <3>3, <3>4
  <2> QED BY <1>3, <2>1, <2>2
<1> HIDE DEF r, h, b
<1>10. /\ seq' = seq /\ verdict' = verdict /\ place' = place /\ subs' = subs /\ ch' = ch /\ done' = done /\ last' = last
       /\ pend' = pend /\ answered' = answered /\ question' = question /\ askedAt' = askedAt /\ phase' = phase
       /\ lost' = lost /\ cut' = cut
  BY <1>3 DEF run, asking, queues
<1>11. Attached(c)'
  <2>1. from'[c] <= seq BY <1>2, <1>5, <1>6, <1>9
  <2> QED BY <1>9, <1>10, <2>1 DEF ReaderInv, Attached
<1>12. Replaying(c)'
  <2>1. replay'[c] = Tail(r) BY <1>3
  <2> QED BY <1>7, <1>8, <1>9, <1>10, <2>1 DEF Replaying, Settled
<1>13. Queued(c)' BY <1>10 DEF ReaderInv, Queued
<1>14. Whole(c)'
  <2>1. from'[c] <= last[c] BY <1>2, <1>5, <1>6, <1>9
  <2>2. \A i \in 1..Len(ch[c]) : ch[c][i].seq > last[c] => ch[c][i].seq > from'[c]
    <3>1. \A i \in 1..Len(ch[c]) : ch[c][i] \in Events BY DEF TypeOK
    <3>2. \A i \in 1..Len(ch[c]) : ch[c][i].seq \in Nat BY <3>1 DEF Events
    <3> QED BY <1>5, <1>9, <2>1, <3>2
  <2>3. c \notin cut => \A n \in (last[c] + 1)..seq : n > from[c] => \E i \in 1..Len(ch[c]) : ch[c][i].seq = n
    BY <1>3 DEF ReaderInv, Whole
  <2>4. \A n \in (last[c] + 1)..seq : n > from'[c] => n > from[c] BY <1>5, <1>9
  <2>5. place'[c] = "replay" BY <1>3, <1>10
  <2> QED BY <1>10, <2>2, <2>3, <2>4, <2>5 DEF Whole
<1>15. OnItsWay(c)' BY <1>9, <1>10 DEF ReaderInv, OnItsWay
<1> QED BY <1>11, <1>12, <1>13, <1>14, <1>15 DEF ReaderInv

\* The replay is over when the client has it all, or knows what of it is settled or gone.
LEMMA ReplayedStep ==
    ASSUME TypeOK, NEW c \in Readers, ReplayWritten(c), ReaderInv(c)
    PROVE  ReaderInv(c)'
<1>1. /\ place[c] = "replay" /\ place'[c] = "live" /\ replay[c] = <<>>
      /\ UNCHANGED <<run, asking, queues, replay, last, pend, client, history>>
  BY DEF ReplayWritten, TypeOK
<1>2. Attached(c)' BY <1>1 DEF ReaderInv, Attached, run, queues, client, history
<1>3. Replaying(c)' BY <1>1 DEF Replaying
<1>4. Queued(c)' BY <1>1 DEF ReaderInv, Queued, run, queues
<1>5. Whole(c)'
  <2>1. Before(c) = last[c] BY <1>1 DEF Before, TypeOK
  <2>2. (from[c] + 1)..last[c] \subseteq excused[c] BY <1>1, <2>1 DEF ReaderInv, Replaying
  <2> QED BY <1>1, <2>2 DEF ReaderInv, Whole, run, queues, client, history
<1>6. OnItsWay(c)' BY <1>1 DEF ReaderInv, OnItsWay, run, asking, queues, client
<1> QED BY <1>2, <1>3, <1>4, <1>5, <1>6 DEF ReaderInv

\* An event taken from the queue is next for the client, or one it has.
LEMMA TakeStep ==
    ASSUME TypeOK, RunFacts, NEW c \in Readers, ReaderInv(c), place[c] \in {"live", "drain"}, ch[c] # <<>>,
           ch'[c] = Tail(ch[c]), UNCHANGED <<run, asking, subs, lost, handler, history>>,
           \/ UNCHANGED client /\ Head(ch[c]).seq <= last[c]
           \/ Write(c, Head(ch[c])) /\ (Head(ch[c]).seq = 0 \/ Head(ch[c]).seq > last[c])
    PROVE  ReaderInv(c)'
<1> DEFINE s == ch[c]
           t == Tail(s)
           h == Head(s)
<1>1. /\ h \in Events /\ h = s[1] /\ t \in Seq(Events) /\ Len(s) \in Nat \ {0} /\ Len(t) = Len(s) - 1
      /\ \A i \in 1..Len(t) : t[i] = s[i + 1] /\ i + 1 \in 1..Len(s)
  BY HeadTail DEF TypeOK
<1>2. /\ from[c] \in Nat /\ last[c] \in Nat /\ seq \in Nat /\ verdict \in Nat /\ h.seq \in Nat
      /\ \A i \in 1..Len(s) : s[i].seq \in Nat
  <2>1. \A i \in 1..Len(s) : s[i] \in Events BY DEF TypeOK
  <2> QED BY <1>1, <2>1 DEF TypeOK, Events
<1>3. /\ Len(s) <= Buffer /\ Buffer \in Nat
      /\ \A i \in 1..Len(s) : s[i].seq <= seq /\ (s[i].seq = 0 => i <= Buffer \div 2)
      /\ \A i, j \in 1..Len(s) : i < j /\ s[i].seq > 0 /\ s[j].seq > 0 => s[i].seq < s[j].seq
  BY SizesAssumption DEF ReaderInv, Queued
<1>4. /\ \A i \in 1..Len(s) : s[i].seq > last[c] => s[i].seq > from[c]
      /\ c \notin cut => \A n \in (last[c] + 1)..seq : n > from[c] => \E i \in 1..Len(s) : s[i].seq = n
      /\ (from[c] + 1)..last[c] \subseteq excused[c]
  BY DEF ReaderInv, Whole
<1>5. /\ seq' = seq /\ verdict' = verdict /\ place' = place /\ subs' = subs /\ done' = done /\ last' = last
      /\ question' = question /\ phase' = phase /\ lost' = lost /\ cut' = cut /\ excused' = excused
  BY DEF run, asking, handler, history
<1>6. c \in subs BY DEF ReaderInv, Attached
<1> HIDE DEF s, t, h
<1>7. ch'[c] = t BY DEF t, s
<1>8. \A i \in 1..Len(s) : i = 1 \/ (i - 1 \in 1..Len(t) /\ t[i - 1] = s[i])
  <2> SUFFICES ASSUME NEW i \in 1..Len(s), i # 1 PROVE i - 1 \in 1..Len(t) /\ t[i - 1] = s[i] OBVIOUS
  <2>1. i - 1 \in 1..Len(t) /\ (i - 1) + 1 = i BY <1>1
  <2> QED BY <1>1, <2>1
<1>9. Queued(c)'
  <2>1. Len(t) <= Buffer BY <1>1, <1>3
  <2>2. ASSUME NEW i \in 1..Len(t) PROVE t[i].seq <= seq /\ (t[i].seq = 0 => i <= Buffer \div 2)
    <3>1. t[i] = s[i + 1] /\ i + 1 \in 1..Len(s) /\ Buffer \div 2 \in Nat BY <1>1, <1>3
    <3>2. s[i + 1].seq <= seq /\ (s[i + 1].seq = 0 => i + 1 <= Buffer \div 2) BY <1>3, <3>1
    <3> QED BY <3>1, <3>2
  <2>3. ASSUME NEW i \in 1..Len(t), NEW j \in 1..Len(t), i < j, t[i].seq > 0, t[j].seq > 0
        PROVE  t[i].seq < t[j].seq
    <3>1. /\ t[i] = s[i + 1] /\ i + 1 \in 1..Len(s) /\ t[j] = s[j + 1] /\ j + 1 \in 1..Len(s) /\ i + 1 < j + 1
      BY <1>1, <2>3
    <3> QED BY <1>3, <2>3, <3>1
  <2> QED BY <1>5, <1>7, <2>1, <2>2, <2>3 DEF Queued
<1>10. Replaying(c)' BY <1>5 DEF Replaying
<1>11. /\ from'[c] \in Nat /\ from'[c] <= seq /\ shown[c] \subseteq shown'[c] /\ from'[c] >= from[c]
       /\ (verdict > 0 /\ from'[c] = verdict => heard'[c] # "none")
       /\ (from'[c] = from[c] /\ h.seq <= last[c]) \/ (from'[c] = h.seq /\ h.seq > last[c])
       /\ h.seq > last[c] => shown'[c] = shown[c] \union ({h.ask} \ {0})
  <2>0. /\ from[c] <= seq /\ (verdict > 0 /\ from[c] = verdict => heard[c] # "none") /\ 1 \in 1..Len(s)
    BY <1>1 DEF ReaderInv, Attached
  <2>1. CASE UNCHANGED client /\ h.seq <= last[c]
    <3>1. from' = from /\ shown' = shown /\ heard' = heard BY <2>1 DEF client
    <3> QED BY <1>2, <2>0, <2>1, <3>1
  <2>2. CASE Write(c, h) /\ h.seq = 0
    <3>1. from'[c] = from[c] /\ heard'[c] = heard[c] /\ shown[c] \subseteq shown'[c] BY <2>2 DEF Write, TypeOK
    <3> QED BY <1>2, <2>0, <2>2, <3>1
  <2>3. CASE Write(c, h) /\ h.seq > last[c]
    <3>1. h.seq > 0 BY <1>2, <2>3
    <3>2. from'[c] = h.seq /\ shown'[c] = shown[c] \union ({h.ask} \ {0}) BY <2>3, <3>1 DEF Write, TypeOK
    <3>3. h.seq = verdict => heard'[c] # "none" BY <2>3, <3>1 DEF Write, TypeOK
    <3>4. h.seq <= seq /\ h.seq > from[c] BY <1>1, <1>3, <1>4, <2>0, <2>3
    <3> QED BY <1>2, <2>3, <3>2, <3>3, <3>4
  <2> QED BY <2>1, <2>2, <2>3 DEF h, s
<1>12. Attached(c)' BY <1>5, <1>6, <1>11 DEF ReaderInv, Attached
<1>13. Whole(c)'
  <2>1. ASSUME NEW i \in 1..Len(t), t[i].seq > last[c] PROVE t[i].seq > from'[c]
    <3>1. t[i] = s[i + 1] /\ i + 1 \in 1..Len(s) /\ 1 \in 1..Len(s) /\ 1 < i + 1 BY <1>1
    <3>2. CASE from'[c] = from[c] BY <1>4, <2>1, <3>1, <3>2
    <3>3. CASE from'[c] = h.seq /\ h.seq > last[c]
      <4>1. s[1].seq > 0 /\ s[i + 1].seq > 0 BY <1>1, <1>2, <2>1, <3>1, <3>3
      <4> QED BY <1>1, <1>3, <3>1, <3>3, <4>1
    <3> QED BY <1>11, <3>2, <3>3
  <2>2. ASSUME c \notin cut, NEW n \in (last[c] + 1)..seq, n > from'[c] PROVE \E i \in 1..Len(t) : t[i].seq = n
    <3>1. n > from[c] BY <1>2, <1>11, <2>2
    <3>2. PICK i \in 1..Len(s) : s[i].seq = n BY <1>4, <2>2, <3>1
    <3>3. h.seq # n BY <1>2, <1>11, <2>2
    <3>4. i # 1 BY <1>1, <3>2, <3>3
    <3> QED BY <1>8, <3>2, <3>4
  <2>3. (from'[c] + 1)..last[c] \subseteq excused[c] BY <1>2, <1>4, <1>11
  <2> QED BY <1>5, <1>7, <2>1, <2>2, <2>3 DEF Whole
<1>14. OnItsWay(c)'
  <2> SUFFICES ASSUME phase \in {"waiting"}, place[c] = "live", c \notin lost, question \notin shown'[c]
               PROVE  \E i \in 1..Len(t) : t[i].ask = question /\ t[i].seq > last[c]
    BY <1>5, <1>7 DEF OnItsWay
  <2>1. question # 0 BY DEF RunFacts, TypeOK
  <2>2. PICK i \in 1..Len(s) : s[i].ask = question /\ s[i].seq > last[c]
    BY <1>11 DEF ReaderInv, OnItsWay, s
  <2>3. i # 1
    <3> SUFFICES ASSUME i = 1 PROVE FALSE OBVIOUS
    <3>1. h.seq > last[c] /\ h.ask = question BY <1>1, <2>2
    <3> QED BY <1>11, <2>1, <3>1
  <2> QED BY <1>8, <2>2, <2>3
<1> QED BY <1>9, <1>10, <1>12, <1>13, <1>14 DEF ReaderInv

\* A stream that ends with no word is one that was cut off: what ends the turn was in the log its
\* reader read, or in its queue.
LEMMA SilentOnlyIfCut ==
    ASSUME TypeOK, RunFacts, NEW c \in Readers, ReaderInv(c), place[c] = "drain", ch[c] = <<>>, heard[c] = "none"
    PROVE  c \in cut
<1>1. /\ verdict = seq /\ seq > 0 /\ seq \in Nat /\ from[c] \in Nat /\ last[c] \in Nat /\ from[c] # seq
      /\ from[c] <= seq /\ last[c] <= seq /\ seq \notin excused[c]
  BY DEF TypeOK, RunFacts, ReaderInv, Attached
<1>2. c \notin cut => \A n \in (last[c] + 1)..seq : n > from[c] => \E i \in 1..Len(ch[c]) : ch[c][i].seq = n
  BY DEF ReaderInv, Whole
<1>3. (from[c] + 1)..last[c] \subseteq excused[c] BY DEF ReaderInv, Whole
<1>4. last[c] # seq BY <1>1, <1>3
<1>5. seq \in (last[c] + 1)..seq /\ seq > from[c] BY <1>1, <1>4
<1>6. Len(ch[c]) = 0 /\ 1..0 = {} OBVIOUS
<1> QED BY <1>2, <1>5, <1>6


-----------------------------------------------------------------------------
(* The invariant.                                                           *)

\* Every step of the run and of its readers keeps the invariant.
LEMMA LInvStep == LInv /\ [Next]_vars => LInv'
<1> SUFFICES ASSUME LInv, [Next]_vars PROVE LInv'
  OBVIOUS
<1>t. TypeOK /\ TypeOK' BY TypeStep DEF LInv
<1>l. LogInOrder /\ RunFacts /\ LogSettled /\ CutOffs BY DEF LInv
<1>r. \A c \in Readers : ReaderInv(c) BY DEF LInv
<1>1. ASSUME Progress PROVE LInv'
  <2>1. AppendEvent(0) /\ 0 \in Nat BY <1>t, <1>1 DEF Progress, TypeOK
  <2>2. RunFacts' BY <1>t, <1>l, <1>1 DEF Progress, RunFacts, AppendEvent, asking, TypeOK
  <2>3. /\ UNCHANGED <<question, answered, subs, handler, client, excused, silent, done>>
        /\ ~done /\ verdict = 0 /\ verdict' \in {0, seq + 1} /\ (askedAt' = askedAt \/ askedAt = 0)
        /\ (0 > 0 => 0 = question /\ askedAt' = seq + 1)
        /\ (phase' = "waiting" => 0 = question \/ phase = "waiting") /\ phase' # "asking"
    BY <1>t, <1>l, <1>1 DEF Progress, RunFacts, asking, TypeOK
  <2>4. LogInOrder' /\ LogSettled' /\ CutOffs' /\ \A x \in Readers : ReaderInv(x)'
    BY <2>1, <2>3, AppendStep
  <2> QED BY <1>t, <2>2, <2>4 DEF LInv
<1>2. ASSUME AnnounceQuestion PROVE LInv'
  <2>1. AppendEvent(question) /\ question \in Nat BY <1>t, <1>2 DEF AnnounceQuestion, TypeOK
  <2>2. RunFacts' BY <1>t, <1>l, <1>2 DEF AnnounceQuestion, RunFacts, AppendEvent, asking, TypeOK
  <2>3. /\ UNCHANGED <<question, answered, subs, handler, client, excused, silent, done>>
        /\ ~done /\ verdict = 0 /\ verdict' \in {0, seq + 1} /\ (askedAt' = askedAt \/ askedAt = 0)
        /\ (question > 0 => question = question /\ askedAt' = seq + 1)
        /\ (phase' = "waiting" => question = question \/ phase = "waiting") /\ phase' # "asking"
    BY <1>t, <1>l, <1>2 DEF AnnounceQuestion, RunFacts, asking, TypeOK
  <2>4. LogInOrder' /\ LogSettled' /\ CutOffs' /\ \A x \in Readers : ReaderInv(x)'
    BY <2>1, <2>3, AppendStep
  <2> QED BY <1>t, <2>2, <2>4 DEF LInv
<1>3. ASSUME Denied PROVE LInv'
  <2>1. AppendEvent(0) /\ 0 \in Nat BY <1>t, <1>3 DEF Denied, TypeOK
  <2>2. RunFacts' BY <1>t, <1>l, <1>3 DEF Denied, RunFacts, AppendEvent, asking, TypeOK
  <2>3. /\ UNCHANGED <<question, answered, subs, handler, client, excused, silent, done>>
        /\ ~done /\ verdict = 0 /\ verdict' \in {0, seq + 1} /\ (askedAt' = askedAt \/ askedAt = 0)
        /\ (0 > 0 => 0 = question /\ askedAt' = seq + 1)
        /\ (phase' = "waiting" => 0 = question \/ phase = "waiting") /\ phase' # "asking"
    BY <1>t, <1>l, <1>3 DEF Denied, RunFacts, asking, TypeOK
  <2>4. LogInOrder' /\ LogSettled' /\ CutOffs' /\ \A x \in Readers : ReaderInv(x)'
    BY <2>1, <2>3, AppendStep
  <2> QED BY <1>t, <2>2, <2>4 DEF LInv
<1>4. ASSUME AppendVerdict PROVE LInv'
  <2>1. AppendEvent(0) /\ 0 \in Nat BY <1>t, <1>4 DEF AppendVerdict, TypeOK
  <2>2. RunFacts' BY <1>t, <1>l, <1>4 DEF AppendVerdict, RunFacts, AppendEvent, asking, TypeOK
  <2>3. /\ UNCHANGED <<question, answered, subs, handler, client, excused, silent, done>>
        /\ ~done /\ verdict = 0 /\ verdict' \in {0, seq + 1} /\ (askedAt' = askedAt \/ askedAt = 0)
        /\ (0 > 0 => 0 = question /\ askedAt' = seq + 1)
        /\ (phase' = "waiting" => 0 = question \/ phase = "waiting") /\ phase' # "asking"
    BY <1>t, <1>l, <1>4 DEF AppendVerdict, RunFacts, asking, TypeOK
  <2>4. LogInOrder' /\ LogSettled' /\ CutOffs' /\ \A x \in Readers : ReaderInv(x)'
    BY <2>1, <2>3, AppendStep
  <2> QED BY <1>t, <2>2, <2>4 DEF LInv
<1>5. ASSUME Flash PROVE LInv'
  <2>1. LogInOrder' /\ RunFacts' /\ LogSettled' /\ CutOffs'
    BY <1>l, <1>5 DEF Flash, run, asking, history, LogInOrder, RunFacts, LogSettled, Settled, CutOffs
  <2>2. \A x \in Readers : ReaderInv(x)' BY <1>t, <1>r, <1>5, FlashStep
  <2> QED BY <1>t, <2>1, <2>2 DEF LInv
<1>6. ASSUME Ask PROVE LInv'
  <2>1. LogInOrder' /\ CutOffs' BY <1>l, <1>6 DEF Ask, LogInOrder, CutOffs, run, queues, history
  <2>2. RunFacts' BY <1>t, <1>l, <1>6 DEF Ask, RunFacts, run, asking, TypeOK
  <2>3. LogSettled' BY <1>t, <1>l, <1>6 DEF Ask, LogSettled, Settled, LogInOrder, RunFacts, run, asking, TypeOK
  <2>4. ASSUME NEW x \in Readers PROVE Attached(x)'
    BY <1>t, <1>r, <1>6 DEF Ask, ReaderInv, Attached, run, asking, queues, handler, client, history
  <2>5. ASSUME NEW x \in Readers PROVE Replaying(x)'
    BY <1>t, <1>l, <1>r, <1>6 DEF Ask, ReaderInv, Replaying, Before, Settled, RunFacts, Attached, TypeOK, run, asking,
       queues, handler, client, history
  <2>6. ASSUME NEW x \in Readers PROVE Queued(x)' /\ Whole(x)'
    BY <1>r, <1>6 DEF Ask, ReaderInv, Queued, Whole, run, asking, queues, handler, client, history
  <2>7. ASSUME NEW x \in Readers PROVE OnItsWay(x)'
    BY <1>r, <1>6 DEF Ask, ReaderInv, OnItsWay, run, asking, queues, handler, client, history
  <2> QED BY <1>t, <2>1, <2>2, <2>3, <2>4, <2>5, <2>6, <2>7 DEF LInv, ReaderInv
<1>7. ASSUME Answered PROVE LInv'
  <2>1. LogInOrder' /\ CutOffs' BY <1>l, <1>7 DEF Answered, LogInOrder, CutOffs, run, queues, history
  <2>2. RunFacts' BY <1>t, <1>l, <1>7 DEF Answered, RunFacts, run, asking, TypeOK
  <2>3. LogSettled' BY <1>t, <1>l, <1>7 DEF Answered, LogSettled, Settled, LogInOrder, RunFacts, run, asking, TypeOK
  <2>4. ASSUME NEW x \in Readers PROVE Attached(x)'
    BY <1>t, <1>r, <1>7 DEF Answered, ReaderInv, Attached, run, asking, queues, handler, client, history
  <2>5. ASSUME NEW x \in Readers PROVE Replaying(x)'
    BY <1>t, <1>l, <1>r, <1>7 DEF Answered, ReaderInv, Replaying, Before, Settled, RunFacts, Attached, TypeOK, run,
       asking, queues, handler, client, history
  <2>6. ASSUME NEW x \in Readers PROVE Queued(x)' /\ Whole(x)'
    BY <1>r, <1>7 DEF Answered, ReaderInv, Queued, Whole, run, asking, queues, handler, client, history
  <2>7. ASSUME NEW x \in Readers PROVE OnItsWay(x)'
    BY <1>r, <1>7 DEF Answered, ReaderInv, OnItsWay, run, asking, queues, handler, client, history
  <2> QED BY <1>t, <2>1, <2>2, <2>3, <2>4, <2>5, <2>6, <2>7 DEF LInv, ReaderInv
<1>8. ASSUME ClearQuestion PROVE LInv'
  <2>1. LogInOrder' /\ CutOffs' BY <1>l, <1>8 DEF ClearQuestion, LogInOrder, CutOffs, run, queues, history
  <2>2. RunFacts' BY <1>t, <1>l, <1>8 DEF ClearQuestion, RunFacts, run, asking, TypeOK
  <2>3. LogSettled'
      BY <1>t, <1>l, <1>8 DEF ClearQuestion, LogSettled, Settled, LogInOrder, RunFacts, run, asking, TypeOK
  <2>4. ASSUME NEW x \in Readers PROVE Attached(x)'
    BY <1>t, <1>r, <1>8 DEF ClearQuestion, ReaderInv, Attached, run, asking, queues, handler, client, history
  <2>5. ASSUME NEW x \in Readers PROVE Replaying(x)'
    BY <1>t, <1>l, <1>r, <1>8 DEF ClearQuestion, ReaderInv, Replaying, Before, Settled, RunFacts, Attached, TypeOK, run,
       asking, queues, handler, client, history
  <2>6. ASSUME NEW x \in Readers PROVE Queued(x)' /\ Whole(x)'
    BY <1>r, <1>8 DEF ClearQuestion, ReaderInv, Queued, Whole, run, asking, queues, handler, client, history
  <2>7. ASSUME NEW x \in Readers PROVE OnItsWay(x)'
    BY <1>r, <1>8 DEF ClearQuestion, ReaderInv, OnItsWay, run, asking, queues, handler, client, history
  <2> QED BY <1>t, <2>1, <2>2, <2>3, <2>4, <2>5, <2>6, <2>7 DEF LInv, ReaderInv
<1>9. ASSUME Finish PROVE LInv'
  <2>1. LogInOrder' /\ CutOffs' BY <1>l, <1>9 DEF Finish, LogInOrder, CutOffs, run, queues, history
  <2>2. RunFacts' BY <1>t, <1>l, <1>9 DEF Finish, RunFacts, run, asking, TypeOK
  <2>3. LogSettled' BY <1>t, <1>l, <1>9 DEF Finish, LogSettled, Settled, LogInOrder, RunFacts, run, asking, TypeOK
  <2>4. ASSUME NEW x \in Readers PROVE Attached(x)'
    BY <1>t, <1>r, <1>9 DEF Finish, ReaderInv, Attached, run, asking, queues, handler, client, history
  <2>5. ASSUME NEW x \in Readers PROVE Replaying(x)'
    BY <1>t, <1>l, <1>r, <1>9 DEF Finish, ReaderInv, Replaying, Before, Settled, RunFacts, Attached, TypeOK, run,
       asking, queues, handler, client, history
  <2>6. ASSUME NEW x \in Readers PROVE Queued(x)' /\ Whole(x)'
    BY <1>r, <1>9 DEF Finish, ReaderInv, Queued, Whole, run, asking, queues, handler, client, history
  <2>7. ASSUME NEW x \in Readers PROVE OnItsWay(x)'
    BY <1>r, <1>9 DEF Finish, ReaderInv, OnItsWay, run, asking, queues, handler, client, history
  <2> QED BY <1>t, <2>1, <2>2, <2>3, <2>4, <2>5, <2>6, <2>7 DEF LInv, ReaderInv
<1>10. ASSUME NEW c \in Readers, Attach(c) PROVE LInv'
  <2>1. Alone(c) BY <1>t, <1>10 DEF Attach, Alone, TypeOK, run, asking, queues, handler, client, history
  <2>2. CutOffs' BY <1>t, <1>l, <1>10 DEF Attach, CutOffs, TypeOK, run, asking, queues, handler, client, history
  <2>3. ReaderInv(c)'
    <3>1. Attached(c)' BY <1>t, <1>r, <1>10 DEF Attach, ReaderInv, Attached, run, client, history, TypeOK
    <3>2. Replaying(c)' /\ Whole(c)' /\ OnItsWay(c)' BY <1>t, <1>10 DEF Attach, Replaying, Whole, OnItsWay, TypeOK
    <3>3. Queued(c)' BY <1>r, <1>10 DEF Attach, ReaderInv, Queued, run
    <3> QED BY <3>1, <3>2, <3>3 DEF ReaderInv
  <2> QED BY <1>t, <2>1, <2>2, <2>3, OneReader
<1>11. ASSUME NEW c \in Readers, ReadLog(c) PROVE LInv'
  <2>1. Alone(c) BY <1>t, <1>11 DEF ReadLog, Alone, TypeOK, run, asking, queues, handler, client, history
  <2>2. CutOffs' BY <1>t, <1>l, <1>11 DEF ReadLog, CutOffs, TypeOK, run, asking, queues, handler, client, history
  <2>3. ReaderInv(c)' BY <1>t, <1>l, <1>r, <1>11, ReadLogStep
  <2> QED BY <1>t, <2>1, <2>2, <2>3, OneReader
<1>12. ASSUME NEW c \in Readers, Preamble(c) PROVE LInv'
  <2>1. Alone(c) BY <1>t, <1>12 DEF Preamble, Alone, TypeOK, run, asking, queues, handler, client, history
  <2>2. CutOffs' BY <1>t, <1>l, <1>12 DEF Preamble, CutOffs, TypeOK, run, asking, queues, handler, client, history
  <2>3. ReaderInv(c)' BY <1>t, <1>l, <1>r, <1>12, PreambleStep
  <2> QED BY <1>t, <2>1, <2>2, <2>3, OneReader
<1>13. ASSUME NEW c \in Readers, WriteReplay(c) PROVE LInv'
  <2>1. Alone(c) BY <1>t, <1>13 DEF WriteReplay, Alone, TypeOK, Write, run, asking, queues, handler, client, history
  <2>2. CutOffs'
      BY <1>t, <1>l, <1>13 DEF WriteReplay, CutOffs, TypeOK, Write, run, asking, queues, handler, client, history
  <2>3. ReaderInv(c)' BY <1>t, <1>l, <1>r, <1>13, ReplayStep
  <2> QED BY <1>t, <2>1, <2>2, <2>3, OneReader
<1>14. ASSUME NEW c \in Readers, ReplayWritten(c) PROVE LInv'
  <2>1. Alone(c) BY <1>t, <1>14 DEF ReplayWritten, Alone, TypeOK, run, asking, queues, handler, client, history
  <2>2. CutOffs' BY <1>t, <1>l, <1>14 DEF ReplayWritten, CutOffs, TypeOK, run, asking, queues, handler, client, history
  <2>3. ReaderInv(c)' BY <1>t, <1>r, <1>14, ReplayedStep
  <2> QED BY <1>t, <2>1, <2>2, <2>3, OneReader
<1>15. ASSUME NEW c \in Readers, Follow(c) PROVE LInv'
  <2>1. Alone(c)
      BY <1>t, <1>15 DEF Follow, Alone, TypeOK, WriteIfNew, Write, run, asking, queues, handler, client, history
  <2>2. CutOffs'
      BY <1>t, <1>l, <1>15 DEF Follow, CutOffs, TypeOK, WriteIfNew, Write, run, asking, queues, handler, client, history
  <2>3. ReaderInv(c)'
    <3>1. /\ place[c] \in {"live", "drain"} /\ ch[c] # <<>> /\ ch'[c] = Tail(ch[c])
          /\ UNCHANGED <<run, asking, subs, lost, handler, history>>
      BY <1>t, <1>15 DEF Follow, TypeOK
    <3>2. Head(ch[c]).seq \in Nat /\ last[c] \in Nat BY <1>t, <3>1, HeadTail DEF TypeOK, Events
    <3>3. \/ UNCHANGED client /\ Head(ch[c]).seq <= last[c]
          \/ Write(c, Head(ch[c])) /\ (Head(ch[c]).seq = 0 \/ Head(ch[c]).seq > last[c])
      BY <1>15, <3>2 DEF Follow, WriteIfNew
    <3> QED BY <1>t, <1>l, <1>r, <3>1, <3>3, TakeStep
  <2> QED BY <1>t, <2>1, <2>2, <2>3, OneReader
<1>16. ASSUME NEW c \in Readers, Drain(c) PROVE LInv'
  <2>1. Alone(c) BY <1>t, <1>16 DEF Drain, Alone, TypeOK, Write, run, asking, queues, handler, client, history
  <2>2. CutOffs' BY <1>t, <1>l, <1>16 DEF Drain, CutOffs, TypeOK, Write, run, asking, queues, handler, client, history
  <2>3. ReaderInv(c)'
    <3>1. /\ place[c] \in {"live", "drain"} /\ ch[c] # <<>> /\ ch'[c] = Tail(ch[c])
          /\ UNCHANGED <<run, asking, subs, lost, handler, history>>
      BY <1>t, <1>16 DEF Drain, TypeOK
    <3>2. Head(ch[c]).seq \in Nat /\ last[c] \in Nat BY <1>t, <3>1, HeadTail DEF TypeOK, Events
    <3>3. \/ UNCHANGED client /\ Head(ch[c]).seq <= last[c]
          \/ Write(c, Head(ch[c])) /\ (Head(ch[c]).seq = 0 \/ Head(ch[c]).seq > last[c])
      BY <1>16, <3>2 DEF Drain
    <3> QED BY <1>t, <1>l, <1>r, <3>1, <3>3, TakeStep
  <2> QED BY <1>t, <2>1, <2>2, <2>3, OneReader
<1>17. ASSUME NEW c \in Readers, ToldLost(c) PROVE LInv'
  <2>1. Alone(c) BY <1>t, <1>17 DEF ToldLost, Alone, TypeOK, Leave, run, asking, queues, handler, client, history
  <2>2. CutOffs'
      BY <1>t, <1>l, <1>17 DEF ToldLost, CutOffs, TypeOK, Leave, run, asking, queues, handler, client, history
  <2>3. ReaderInv(c)'
    <3>1. Leave(c) /\ UNCHANGED <<run, asking, last, from, shown, pend, excused>>
      BY <1>17 DEF ToldLost, history
    <3>2. heard'[c] # "none" \/ heard'[c] = heard[c] BY <1>t, <1>17 DEF ToldLost, TypeOK
    <3> QED BY <1>t, <1>r, <3>1, <3>2, Left
  <2> QED BY <1>t, <2>1, <2>2, <2>3, OneReader
<1>18. ASSUME NEW c \in Readers, SeeDone(c) PROVE LInv'
  <2>1. Alone(c) BY <1>t, <1>18 DEF SeeDone, Alone, TypeOK, run, asking, queues, handler, client, history
  <2>2. CutOffs' BY <1>t, <1>l, <1>18 DEF SeeDone, CutOffs, TypeOK, run, asking, queues, handler, client, history
  <2>3. ReaderInv(c)'
    <3>1. /\ place[c] = "live" /\ place'[c] = "drain" /\ done
          /\ UNCHANGED <<run, asking, queues, replay, last, pend, client, history>>
      BY <1>t, <1>18 DEF SeeDone, TypeOK
    <3>2. Attached(c)' BY <1>r, <3>1 DEF ReaderInv, Attached, run, queues, client, history
    <3>3. Replaying(c)' /\ OnItsWay(c)' BY <3>1 DEF Replaying, OnItsWay
    <3>4. Queued(c)' /\ Whole(c)' BY <1>r, <3>1 DEF ReaderInv, Queued, Whole, run, queues, client, history
    <3> QED BY <3>2, <3>3, <3>4 DEF ReaderInv
  <2> QED BY <1>t, <2>1, <2>2, <2>3, OneReader
<1>19. ASSUME NEW c \in Readers, StreamEnds(c) PROVE LInv'
  <2>1. Alone(c)
      BY <1>t, <1>19 DEF StreamEnds, Alone, TypeOK, Leave, Retry, run, asking, queues, handler, client, history
  <2>2. CutOffs'
    <3>1. cut' = cut /\ lost' \subseteq lost /\ place[c] = "drain" /\ ch[c] = <<>> BY <1>19 DEF StreamEnds, Leave
    <3>2. heard[c] = "none" => c \in cut BY <1>t, <1>l, <1>r, <3>1, SilentOnlyIfCut
    <3>3. silent' \subseteq silent \/ (heard[c] = "none" /\ silent' = silent \union {c}) BY <1>19 DEF StreamEnds
    <3> QED BY <1>l, <3>1, <3>2, <3>3 DEF CutOffs
  <2>3. ReaderInv(c)'
    <3>1. Leave(c) /\ UNCHANGED <<run, asking, last, from, shown, pend, excused>>
      BY <1>19 DEF StreamEnds
    <3>2. heard'[c] # "none" \/ heard'[c] = heard[c] BY <1>t, <1>19 DEF StreamEnds, Retry, TypeOK
    <3> QED BY <1>t, <1>r, <3>1, <3>2, Left
  <2> QED BY <1>t, <2>1, <2>2, <2>3, OneReader
<1>20. ASSUME NEW c \in Readers, Drop(c) PROVE LInv'
  <2>1. Alone(c) BY <1>t, <1>20 DEF Drop, Alone, TypeOK, Leave, Retry, run, asking, queues, handler, client, history
  <2>2. CutOffs'
      BY <1>t, <1>l, <1>20 DEF Drop, CutOffs, TypeOK, Leave, Retry, run, asking, queues, handler, client, history
  <2>3. ReaderInv(c)'
    <3>1. Leave(c) /\ UNCHANGED <<run, asking, last, from, shown, pend, excused>>
      BY <1>20 DEF Drop, history
    <3>2. heard'[c] # "none" \/ heard'[c] = heard[c] BY <1>t, <1>20 DEF Drop, Retry, TypeOK
    <3> QED BY <1>t, <1>r, <3>1, <3>2, Left
  <2> QED BY <1>t, <2>1, <2>2, <2>3, OneReader
<1>21. ASSUME UNCHANGED vars PROVE LInv'
  <2>1. LogInOrder' /\ RunFacts' /\ LogSettled' /\ CutOffs'
    BY <1>l, <1>21 DEF vars, run, asking, queues, handler, client, history, LogInOrder, RunFacts, LogSettled, Settled,
       CutOffs
  <2>2. ASSUME NEW x \in Readers PROVE ReaderInv(x)'
    BY <1>r, <1>21, Untouched DEF vars, queues, handler, client, history
  <2> QED BY <1>t, <2>1, <2>2 DEF LInv
<1> QED
    BY <1>1, <1>2, <1>3, <1>4, <1>5, <1>6, <1>7, <1>8, <1>9, <1>10, <1>11, <1>12, <1>13, <1>14, <1>15, <1>16, <1>17,
       <1>18, <1>19, <1>20, <1>21 DEF Next, RunStep, ReaderStep

\* The invariant holds of a run nobody follows yet.
LEMMA LInvInit == Init => LInv
<1> SUFFICES ASSUME Init PROVE LInv
  OBVIOUS
<1>1. TypeOK
  <2>1. <<>> \in Seq(Events) /\ Len(<<>>) = 0 OBVIOUS
  <2>2. ch \in [Readers -> Seq(Events)] /\ replay \in [Readers -> Seq(Events)] BY <2>1 DEF Init
  <2>3. log \in Seq(Events) /\ Len(log) <= LogSize BY <2>1, SizesAssumption DEF Init
  <2>4. /\ place \in [Readers -> ReaderSteps] /\ heard \in [Readers -> Verdicts] /\ phase \in Phases
        /\ shown \in [Readers -> SUBSET Nat] /\ excused \in [Readers -> SUBSET Nat]
    BY DEF Init, Phases, ReaderSteps, Verdicts
  <2> QED BY <2>2, <2>3, <2>4 DEF Init, TypeOK
<1>2. LogInOrder /\ RunFacts /\ LogSettled /\ CutOffs
  BY DEF Init, LogInOrder, RunFacts, LogSettled, CutOffs
<1>3. ASSUME NEW c \in Readers PROVE ReaderInv(c)
  BY SizesAssumption DEF Init, ReaderInv, Attached, Replaying, Queued, Whole, OnItsWay
<1> QED BY <1>1, <1>2, <1>3 DEF LInv

\* The log, the queues and the replays fit together in every state of a run (run.append, run.since, attach).
THEOREM Inductive == Spec => []LInv
<1> QED BY LInvInit, LInvStep, PTL DEF Spec

-----------------------------------------------------------------------------
(* What follows from it.                                                    *)

\* attach: whoever reads the log, asks for the open question and follows its queue, in that order,
\* is shown the question the run waits on, and is told how the turn ended unless it was cut off,
\* however the run's steps fall between the reader's.
THEOREM Sound == Spec => []StreamIsSound
<1>1. LInv => StreamIsSound
  <2> SUFFICES ASSUME LInv PROVE StreamIsSound
    OBVIOUS
  <2>1. QuestionReachesWhoFollows
    <3> SUFFICES ASSUME phase = "waiting", NEW c \in Readers \ lost, place[c] = "live", ch[c] = <<>>
                 PROVE  question \in shown[c]
      BY DEF QuestionReachesWhoFollows
    <3>1. OnItsWay(c) BY DEF LInv, ReaderInv
    <3>2. Len(ch[c]) = 0 /\ 1..0 = {} OBVIOUS
    <3> QED BY <3>1, <3>2 DEF OnItsWay
  <2>2. TypeOK /\ NoSilentEnd BY DEF LInv, CutOffs, NoSilentEnd
  <2> QED BY <2>1, <2>2 DEF StreamIsSound
<1> QED BY <1>1, Inductive, PTL

\* run.append and run.flash: a reader is cut off for the events that count.  Snapshots are only in
\* the first half of a queue, so the second half of a full one is numbered events.
LEMMA FullOfEvents ==
    ASSUME LInv, NEW c \in Readers, Len(ch[c]) >= Buffer
    PROVE  Cardinality({i \in 1..Len(ch[c]) : ch[c][i].seq > 0}) >= Buffer - Buffer \div 2
<1> DEFINE half == Buffer \div 2
           counting == {i \in 1..Len(ch[c]) : ch[c][i].seq > 0}
<1>1. /\ Buffer \in Nat /\ half \in Nat /\ half + 1 \in Int /\ Buffer \in Int /\ half <= Buffer
      /\ ch[c] \in Seq(Events) /\ Len(ch[c]) \in Nat
  BY SizesAssumption DEF LInv, TypeOK
<1>2. \A i \in 1..Len(ch[c]) : ch[c][i].seq \in Nat /\ (ch[c][i].seq = 0 => i <= half)
  <2>1. \A i \in 1..Len(ch[c]) : ch[c][i] \in Events BY <1>1
  <2> QED BY <2>1 DEF LInv, ReaderInv, Queued, Events
<1> HIDE DEF half
<1>3. (half + 1)..Buffer \subseteq counting BY <1>1, <1>2
<1>4. IsFiniteSet(counting)
  <2>1. 1 \in Int /\ Len(ch[c]) \in Int BY <1>1
  <2>2. IsFiniteSet(1..Len(ch[c])) /\ counting \subseteq 1..Len(ch[c]) BY <2>1, FS_Interval
  <2> QED BY <2>2, FS_Subset
<1> HIDE DEF counting
<1>5. Cardinality((half + 1)..Buffer) = IF half + 1 > Buffer THEN 0 ELSE Buffer - (half + 1) + 1
  BY <1>1, FS_Interval
<1>6. Cardinality((half + 1)..Buffer) <= Cardinality(counting) BY <1>3, <1>4, FS_Subset
<1>7. Cardinality(counting) \in Nat BY <1>4, FS_CardinalityType
<1>8. Cardinality(counting) >= Buffer - half
  <2> DEFINE k == Cardinality(counting)
             l == Cardinality((half + 1)..Buffer)
  <2>1. l <= k /\ k \in Nat /\ l = IF half + 1 > Buffer THEN 0 ELSE Buffer - (half + 1) + 1 BY <1>5, <1>6, <1>7
  <2> HIDE DEF k, l
  <2>2. k >= Buffer - half BY <1>1, <2>1
  <2> QED BY <2>2 DEF k
<1> QED BY <1>8 DEF half, counting

\* subscriberBuffer, maxLoggedEvents: a subscriber is cut off when its queue is full, and half of what is in it has a number.
THEOREM OnlyIfBehind == Spec => CutOffOnlyIfBehind
<1>1. ASSUME LInv, [Next]_vars, NEW c \in lost' \ lost
      PROVE  Cardinality({i \in 1..Len(ch[c]) : ch[c][i].seq > 0}) >= Buffer - Buffer \div 2
  <2>1. ASSUME NEW ask, AppendEvent(ask) PROVE c \in Readers /\ Len(ch[c]) >= Buffer
    BY <1>1, <2>1 DEF AppendEvent, LInv, TypeOK
  <2>2. Progress \/ AnnounceQuestion \/ Denied \/ AppendVerdict
    BY <1>1 DEF Next, RunStep, ReaderStep, Flash, Ask, Answered, ClearQuestion, Finish, Attach, ReadLog, Preamble,
                WriteReplay, ReplayWritten, Follow, ToldLost, SeeDone, Drain, StreamEnds, Drop, Leave, vars, queues
  <2>3. c \in Readers /\ Len(ch[c]) >= Buffer
    BY <2>1, <2>2 DEF Progress, AnnounceQuestion, Denied, AppendVerdict
  <2> QED BY <1>1, <2>3, FullOfEvents
<1>2. LInv /\ [Next]_vars =>
        [\A c \in lost' \ lost :
            Cardinality({i \in 1..Len(ch[c]) : ch[c][i].seq > 0}) >= Buffer - Buffer \div 2]_vars
  BY <1>1
<1> QED BY <1>2, Inductive, PTL DEF Spec, CutOffOnlyIfBehind

-----------------------------------------------------------------------------
(* The readers of a run implement EventStream.                              *)

\* A locked append is one event emitted, whoever it cuts off.
LEMMA EmitStep == ASSUME LInv, NEW ask, AppendEvent(ask), UNCHANGED <<answered, from, excused>> PROVE Stream!Emit
<1> DEFINE full == {c \in subs : Len(ch[c]) >= Buffer}
<1>1. seq' = seq + 1 /\ cut' = cut \union full BY DEF AppendEvent
<1>2. full \in SUBSET Readers BY DEF LInv, TypeOK
<1> QED BY <1>1, <1>2 DEF Stream!Emit

\* What the log lost is older than the events it keeps.
LEMMA ExcuseStep == ASSUME LInv, NEW c \in Readers, ReadLog(c) PROVE Stream!Excuse(c)
<1> DEFINE told == (from[c] + 1)..(FirstSeq - 1)
<1>1. /\ seq \in Nat /\ dropped \in Nat /\ Len(log) \in Nat /\ dropped + Len(log) = seq /\ log \in Seq(Events)
      /\ from[c] \in Nat /\ (dropped > 0 => Len(log) = LogSize) /\ LogSize \in Nat
  BY SizesAssumption DEF LInv, TypeOK, LogInOrder
<1>2. told \subseteq {n \in 1..seq : n + LogSize <= seq \/ n \in answered}
  <2>1. CASE log = <<>> BY <1>1, <2>1 DEF FirstSeq
  <2>2. CASE log # <<>>
    <3>1. Len(log) > 0 /\ Head(log) = log[1] BY <1>1, <2>2, HeadTail
    <3>2. FirstSeq = dropped + 1 BY <1>1, <2>2, <3>1 DEF LInv, LogInOrder, FirstSeq
    <3>3. \A n \in told : n \in 1..seq /\ n + LogSize <= seq BY <1>1, <3>2
    <3> QED BY <3>3
  <2> QED BY <2>1, <2>2
<1>3. excused' = [excused EXCEPT ![c] = @ \union told] /\ UNCHANGED <<seq, answered, from, cut>>
  BY DEF ReadLog, run, asking, client
<1> HIDE DEF told
<1> QED BY <1>2, <1>3 DEF Stream!Excuse

\* A replayed event follows what the client has or was told of; one skipped has its answer.
LEMMA ReplayGives == ASSUME LInv, NEW c \in Readers, WriteReplay(c) PROVE Stream!Excuse(c) \/ Stream!Deliver(c)
<1> DEFINE h == Head(replay[c])
           b == Before(c)
<1>1. replay[c] \in Seq(Events) /\ replay[c] # <<>> /\ place[c] = "replay" BY DEF WriteReplay, LInv, TypeOK
<1>2. h = replay[c][1] /\ Len(replay[c]) \in Nat \ {0} BY <1>1, HeadTail
<1>3. 1 \in 1..Len(replay[c]) BY <1>2
<1>4. /\ from[c] <= b /\ (from[c] + 1)..b \subseteq excused[c] /\ h.seq = b + 1
      /\ (h.ask > 0 /\ h.ask # pend[c] => h.seq \in answered)
  BY <1>1, <1>2, <1>3 DEF LInv, ReaderInv, Replaying
<1>5. /\ from[c] \in Nat /\ last[c] \in Nat /\ seq \in Nat /\ last[c] <= seq /\ b = last[c] - Len(replay[c])
      /\ answered \subseteq 1..seq
  BY DEF LInv, TypeOK, RunFacts, ReaderInv, Attached, Before
<1>6. /\ UNCHANGED <<seq, answered, cut>>
      /\ \/ h.ask > 0 /\ h.ask # pend[c] /\ excused' = [excused EXCEPT ![c] = @ \union {h.seq}] /\ from' = from
         \/ from' = [from EXCEPT ![c] = IF h.seq > 0 THEN h.seq ELSE @] /\ excused' = excused
  BY DEF WriteReplay, AnsweredApproval, Write, run, asking, client
<1> HIDE DEF h, b
<1>7. CASE h.ask > 0 /\ h.ask # pend[c] /\ excused' = [excused EXCEPT ![c] = @ \union {h.seq}] /\ from' = from
  <2>1. {h.seq} \in SUBSET {n \in 1..seq : n + LogSize <= seq \/ n \in answered} BY <1>4, <1>5, <1>7
  <2> QED BY <1>6, <1>7, <2>1 DEF Stream!Excuse
<1>8. CASE from' = [from EXCEPT ![c] = IF h.seq > 0 THEN h.seq ELSE @] /\ excused' = excused
  <2>1. h.seq \in (from[c] + 1)..seq /\ h.seq > 0 /\ h.seq - 1 = b BY <1>2, <1>4, <1>5
  <2>2. from' = [from EXCEPT ![c] = h.seq] BY <1>8, <2>1
  <2> QED BY <1>4, <1>6, <1>8, <2>1, <2>2 DEF Stream!Deliver
<1> QED BY <1>6, <1>7, <1>8

\* The next of the queue follows what the client has, if it was not cut off.
LEMMA TakeGives ==
    ASSUME LInv, NEW c \in Readers, place[c] \in {"live", "drain"}, ch[c] # <<>>,
           UNCHANGED <<run, asking, history>>,
           \/ UNCHANGED client
           \/ Write(c, Head(ch[c])) /\ (Head(ch[c]).seq = 0 \/ Head(ch[c]).seq > last[c])
    PROVE  Stream!Deliver(c) \/ UNCHANGED Stream!vars
<1> DEFINE s == ch[c]
           n == Head(s).seq
<1>1. s \in Seq(Events) /\ Head(s) = s[1] /\ Head(s) \in Events /\ Len(s) \in Nat \ {0} BY HeadTail DEF LInv, TypeOK
<1>2. /\ from[c] \in Nat /\ last[c] \in Nat /\ seq \in Nat /\ n \in Nat /\ 1 \in 1..Len(s) /\ n = s[1].seq
      /\ from \in [Readers -> Nat]
  BY <1>1 DEF LInv, TypeOK, Events
<1>3. UNCHANGED <<seq, answered, excused, cut>> BY DEF run, asking, history
<1>4. CASE UNCHANGED client BY <1>3, <1>4 DEF client, Stream!vars
<1>5. CASE Write(c, Head(s)) /\ n = 0
  <2>1. from' = from BY <1>2, <1>5 DEF Write
  <2> QED BY <1>3, <2>1 DEF Stream!vars
<1>6. CASE Write(c, Head(s)) /\ n > last[c]
  <2>1. n > 0 BY <1>2, <1>6
  <2>2. from' = [from EXCEPT ![c] = n] BY <1>6, <2>1 DEF Write
  <2>3. /\ s[1].seq <= seq /\ (s[1].seq > last[c] => s[1].seq > from[c])
        /\ c \notin cut => \A m \in (last[c] + 1)..seq : m > from[c] => \E i \in 1..Len(s) : s[i].seq = m
        /\ (from[c] + 1)..last[c] \subseteq excused[c]
        /\ \A i, j \in 1..Len(s) : i < j /\ s[i].seq > 0 /\ s[j].seq > 0 => s[i].seq < s[j].seq
    BY <1>2 DEF LInv, ReaderInv, Queued, Whole
  <2> HIDE DEF s, n
  <2>4. n \in (from[c] + 1)..seq BY <1>2, <1>6, <2>3
  <2>5. ASSUME c \notin cut, NEW m \in (from[c] + 1)..(n - 1) PROVE m \in excused[c]
    <3>1. CASE m <= last[c]
      <4>1. m \in (from[c] + 1)..last[c] BY <1>2, <3>1
      <4> QED BY <2>3, <4>1
    <3>2. CASE m > last[c]
      <4>1. m \in (last[c] + 1)..seq /\ m > from[c] /\ m > 0 /\ m < n BY <1>2, <2>4, <3>2
      <4>2. PICK i \in 1..Len(s) : s[i].seq = m BY <2>3, <2>5, <4>1
      <4>3. i # 1 BY <1>2, <4>1, <4>2
      <4>4. 1 < i BY <1>1, <4>3
      <4>5. s[1].seq < s[i].seq BY <1>2, <2>1, <2>3, <4>1, <4>2, <4>4
      <4> QED BY <1>2, <4>1, <4>2, <4>5
    <3> QED BY <1>2, <3>1, <3>2
  <2> QED BY <1>3, <2>2, <2>4, <2>5 DEF Stream!Deliver
<1> QED BY <1>4, <1>5, <1>6

\* Every step of the code is a step of EventStream or leaves what it speaks of alone.
LEMMA StreamStep == LInv /\ [Next]_vars => [Stream!Next]_Stream!vars
<1> SUFFICES ASSUME LInv, [Next]_vars PROVE [Stream!Next]_Stream!vars
  OBVIOUS
<1> USE DEF Stream!Next
<1>1. ASSUME Progress PROVE Stream!Emit
  BY <1>1, EmitStep DEF Progress, asking, client
<1>2. ASSUME AnnounceQuestion PROVE Stream!Emit
  BY <1>2, EmitStep DEF AnnounceQuestion, client
<1>3. ASSUME Denied PROVE Stream!Emit
  BY <1>3, EmitStep DEF Denied, asking, client
<1>4. ASSUME AppendVerdict PROVE Stream!Emit
  BY <1>4, EmitStep DEF AppendVerdict, asking, client
<1>5. ASSUME ClearQuestion PROVE Stream!Answer
  <2>1. askedAt \in 1..seq BY <1>5 DEF ClearQuestion, LInv, RunFacts
  <2> QED BY <1>5, <2>1 DEF ClearQuestion, Stream!Answer, client, history
<1>6. ASSUME NEW c \in Readers, ReadLog(c) PROVE Stream!Excuse(c)
  BY <1>6, ExcuseStep
<1>7. ASSUME NEW c \in Readers, WriteReplay(c) PROVE Stream!Excuse(c) \/ Stream!Deliver(c)
  BY <1>7, ReplayGives
<1>8. ASSUME NEW c \in Readers, Follow(c) PROVE Stream!Deliver(c) \/ UNCHANGED Stream!vars
  <2>1. Head(ch[c]).seq \in Nat /\ last[c] \in Nat BY <1>8, HeadTail DEF Follow, LInv, TypeOK, Events
  <2>2. \/ UNCHANGED client
        \/ Write(c, Head(ch[c])) /\ (Head(ch[c]).seq = 0 \/ Head(ch[c]).seq > last[c])
    BY <1>8, <2>1 DEF Follow, WriteIfNew
  <2> QED BY <1>8, <2>2, TakeGives DEF Follow
<1>9. ASSUME NEW c \in Readers, Drain(c) PROVE Stream!Deliver(c) \/ UNCHANGED Stream!vars
  <2>1. Head(ch[c]).seq \in Nat /\ last[c] \in Nat BY <1>9, HeadTail DEF Drain, LInv, TypeOK, Events
  <2>2. \/ UNCHANGED client
        \/ Write(c, Head(ch[c])) /\ (Head(ch[c]).seq = 0 \/ Head(ch[c]).seq > last[c])
    BY <1>9, <2>1 DEF Drain
  <2> QED BY <1>9, <2>2, TakeGives DEF Drain
<1>10. ASSUME Flash \/ Ask \/ Answered \/ Finish \/ UNCHANGED vars PROVE UNCHANGED Stream!vars
  BY <1>10 DEF Flash, Ask, Answered, Finish, Stream!vars, vars, run, asking, client, history
<1>11. ASSUME NEW c \in Readers,
              Attach(c) \/ Preamble(c) \/ ReplayWritten(c) \/ ToldLost(c) \/ SeeDone(c) \/ StreamEnds(c) \/ Drop(c)
       PROVE  UNCHANGED Stream!vars
  BY <1>11 DEF Attach, Preamble, ReplayWritten, ToldLost, SeeDone, StreamEnds, Drop, Stream!vars, run, asking, client,
     history
<1> QED BY <1>1, <1>2, <1>3, <1>4, <1>5, <1>6, <1>7, <1>8, <1>9, <1>10, <1>11 DEF Next, RunStep, ReaderStep

\* However it drops, reattaches, falls behind the log or reads a run that is over, a client is given
\* the events of a run in order and each once, and what it misses it was told of, or is a question
\* with its answer - unless it was cut off.
THEOREM Implements == Spec => StreamKept
<1>1. Init => Stream!Init
  BY DEF Init, Stream!Init
<1> QED BY <1>1, Inductive, StreamStep, PTL DEF Spec, StreamKept, Stream!Spec

=============================================================================
