------------------------------- MODULE RunLog --------------------------------
(***************************************************************************)
(* The events of ONE run of the gateway (internal/gateway/run.go and       *)
(* attach in runs.go), and the clients that follow it (Client.run in       *)
(* client.go), which reattach when their connection drops.                 *)
(*                                                                         *)
(* The run's goroutine appends to a bounded log and hands each event to    *)
(* the subscribers without blocking.  A reader subscribes, reads the log,  *)
(* asks which question is open, writes all that to its client, and then    *)
(* follows its queue: every one of those takes the run's lock, or the      *)
(* conversation's, on its own, so each is an action.                       *)
(*                                                                         *)
(* An event written to a connection that drops before the client reads it  *)
(* is one this model never wrote: the gateway keeps nothing of a reader    *)
(* that left, so the two are the same to the next attachment.              *)
(***************************************************************************)
EXTENDS Naturals, Sequences, FiniteSets

CONSTANTS
    Readers,        \* clients that follow the run
    LogSize,        \* maxLoggedEvents
    Buffer,         \* subscriberBuffer
    RunAttempts,    \* runAttempts: how often a client follows a dropped stream
    MaxEvents,      \* bound: events a run emits before its last one
    MaxQuestions    \* bound: questions a run asks

ASSUME SizesAssumption ==
    /\ LogSize \in Nat \ {0} /\ Buffer \in Nat \ {0} /\ RunAttempts \in Nat \ {0}
    /\ MaxEvents \in Nat /\ MaxQuestions \in Nat

VARIABLES
    seq,        \* run.seq: how many events were appended
    log,        \* run.log: the newest of them
    dropped,    \* run.dropped: how many were evicted
    phase,      \* where the run's goroutine is
    done,       \* run.done is closed
    verdict,    \* the number of the event that ends the turn, 0 before it
    question,   \* conversation.pending: the open question, 0 for none
    asks,       \* how many questions were asked; each is named by its number
    askedAt,    \* the event that asks the open question, 0 before it is appended
    subs,       \* run.subs
    ch,         \* subscriber.ch of each reader
    lost,       \* readers whose subscriber.lost is closed
    place,      \* where each reader's handler is
    replay,     \* the replayed events it has not written yet
    last,       \* logInfo.LastSeq it read
    pend,       \* the open question it read
    from,       \* the last event its client saw
    shown,      \* the questions its client was shown
    tries,      \* the attempts its client has spent
    heard,      \* how the client was told the turn ended
    answered,   \* history: events that are questions and have their answer
    excused,    \* history: events a client was told it will not get
    cut,        \* history: readers that were ever cut off
    silent      \* history: readers whose stream ended with no verdict

run     == <<seq, log, dropped, phase, done, verdict>>
asking  == <<question, asks, askedAt, answered>>
queues  == <<subs, ch, lost>>
handler == <<place, replay, last, pend>>
client  == <<from, shown, tries, heard>>
history == <<excused, cut, silent>>
vars    == <<run, asking, queues, handler, client, history>>

Phases == {"working", "asking", "waiting", "answered", "finish", "over"}
ReaderSteps == {"away", "since", "pending", "replay", "live", "drain"}
Verdicts == {"none", "end", "detached", "gave_up"}

\* An event: its number (0 for one that is not kept) and the question it asks (or 0).
Events == [seq : Nat, ask : Nat]
Line(n) == [seq |-> n, ask |-> 0]

\* run.since, and logInfo.FirstSeq.  The log is in the order of its numbers (LogInOrder of
\* RunLogProofs): what it has after n is what follows the events up to n.
UpTo(n)  == {i \in 1..Len(log) : log[i].seq <= n}
Since(n) == SubSeq(log, Cardinality(UpTo(n)) + 1, Len(log))
FirstSeq == IF log = <<>> THEN 0 ELSE Head(log).seq

Init ==
    /\ seq = 0 /\ log = <<>> /\ dropped = 0
    /\ phase = "working" /\ done = FALSE /\ verdict = 0
    /\ question = 0 /\ asks = 0 /\ askedAt = 0
    /\ subs = {} /\ ch = [c \in Readers |-> <<>>] /\ lost = {}
    /\ place = [c \in Readers |-> "away"] /\ replay = [c \in Readers |-> <<>>]
    /\ last = [c \in Readers |-> 0] /\ pend = [c \in Readers |-> 0]
    /\ from = [c \in Readers |-> 0] /\ shown = [c \in Readers |-> {}]
    /\ tries = [c \in Readers |-> 0] /\ heard = [c \in Readers |-> "none"]
    /\ answered = {} /\ excused = [c \in Readers |-> {}] /\ cut = {} /\ silent = {}

-----------------------------------------------------------------------------
(* The run.                                                                 *)

\* run.append: the number, the log and the delivery are one locked section.  A
\* subscriber with no room is cut off; it stays subscribed until its reader leaves.
AppendEvent(ask) ==
    LET e == [seq |-> seq + 1, ask |-> ask]
        full == {c \in subs : Len(ch[c]) >= Buffer}
    IN /\ seq' = seq + 1
       /\ log' = IF Len(log) >= LogSize THEN Append(Tail(log), e) ELSE Append(log, e)
       /\ dropped' = IF Len(log) >= LogSize THEN dropped + 1 ELSE dropped
       /\ ch' = [c \in Readers |-> IF c \in subs \ full THEN Append(ch[c], e) ELSE ch[c]]
       /\ lost' = lost \union full
       /\ cut' = cut \union full

\* A step of the agent, or of one of its background agents while a question is open.
Progress ==
    /\ phase \in {"working", "waiting"} /\ seq < MaxEvents
    /\ AppendEvent(0)
    /\ UNCHANGED <<phase, done, verdict, asking, subs, handler, client, excused, silent>>

\* Mutant: a snapshot takes any room that is left.
FlashFillsBuffer ==
    /\ phase \in {"working", "waiting"}
    /\ \E c \in subs : Len(ch[c]) < Buffer
    /\ ch' = [c \in Readers |->
                IF c \in subs /\ Len(ch[c]) < Buffer THEN Append(ch[c], Line(0)) ELSE ch[c]]
    /\ UNCHANGED <<run, asking, subs, lost, handler, client, history>>

\* run.flash: an event with no number, for the readers with half their queue free.
Flash ==
    /\ phase \in {"working", "waiting"}
    /\ \E c \in subs : Len(ch[c]) < Buffer \div 2
    /\ ch' = [c \in Readers |->
                IF c \in subs /\ Len(ch[c]) < Buffer \div 2 THEN Append(ch[c], Line(0)) ELSE ch[c]]
    /\ UNCHANGED <<run, asking, subs, lost, handler, client, history>>

\* approverFor: the question is set as the open one ...
Ask ==
    /\ phase = "working" /\ asks < MaxQuestions
    /\ asks' = asks + 1 /\ question' = asks + 1
    /\ phase' = "asking"
    /\ UNCHANGED <<seq, log, dropped, done, verdict, askedAt, answered, queues, handler, client, history>>

\* ... and then announced; awaitAnswer blocks on it.
AnnounceQuestion ==
    /\ phase = "asking"
    /\ AppendEvent(question)
    /\ askedAt' = seq + 1
    /\ phase' = "waiting"
    /\ UNCHANGED <<done, verdict, question, asks, answered, subs, handler, client, excused, silent>>

\* awaitAnswer returns: somebody answered or the run was cancelled, or nobody did
\* in time, which is denied with an event of its own.
Answered ==
    /\ phase = "waiting"
    /\ phase' = "answered"
    /\ UNCHANGED <<seq, log, dropped, done, verdict, asking, queues, handler, client, history>>

Denied ==
    /\ phase = "waiting"
    /\ AppendEvent(0)
    /\ phase' = "answered"
    /\ UNCHANGED <<done, verdict, asking, subs, handler, client, excused, silent>>

\* The deferred clearPendingApproval.
ClearQuestion ==
    /\ phase = "answered"
    /\ question' = 0 /\ askedAt' = 0
    /\ answered' = answered \union {askedAt}
    /\ phase' = "working"
    /\ UNCHANGED <<seq, log, dropped, done, verdict, asks, queues, handler, client, history>>

\* closeRun appends the event that ends the turn ...
AppendVerdict ==
    /\ phase = "working"
    /\ AppendEvent(0)
    /\ verdict' = seq + 1
    /\ phase' = "finish"
    /\ UNCHANGED <<done, asking, subs, handler, client, excused, silent>>

\* ... and run.finish closes done, with whatever is still in the queues.
Finish ==
    /\ phase = "finish"
    /\ done' = TRUE
    /\ phase' = "over"
    /\ UNCHANGED <<seq, log, dropped, verdict, asking, queues, handler, client, history>>

-----------------------------------------------------------------------------
(* A reader.                                                                *)

\* The client (again) asks for what follows the last event it saw; attach
\* subscribes before it reads the log.
Attach(c) ==
    /\ place[c] = "away" /\ heard[c] = "none"
    /\ place' = [place EXCEPT ![c] = "since"]
    /\ subs' = subs \union {c}
    /\ UNCHANGED <<run, asking, ch, lost, replay, last, pend, client, history>>

\* The handler returns: unsubscribe, and its queue goes with it.
Leave(c) ==
    /\ place' = [place EXCEPT ![c] = "away"]
    /\ subs' = subs \ {c} /\ lost' = lost \ {c}
    /\ ch' = [ch EXCEPT ![c] = <<>>] /\ replay' = [replay EXCEPT ![c] = <<>>]

\* Mutant: attempts are not counted.
RetryForEver(c) == UNCHANGED <<tries, heard>>

\* Client.run: a stream that ended with no verdict is followed again, so many times.
Retry(c) ==
    /\ tries' = [tries EXCEPT ![c] = @ + 1]
    /\ heard' = [heard EXCEPT ![c] = IF tries[c] + 1 = RunAttempts THEN "gave_up" ELSE @]

\* Mutant: a run that is over needs no queue.
ReadLogOfFinished(c) ==
    /\ place[c] = "since"
    /\ replay' = [replay EXCEPT ![c] = Since(from[c])]
    /\ last' = [last EXCEPT ![c] = seq]
    /\ place' = [place EXCEPT ![c] = IF verdict > 0 THEN "drain" ELSE "pending"]
    /\ UNCHANGED <<run, asking, queues, pend, client, history>>

\* run.since, after the subscription.
ReadLog(c) ==
    /\ place[c] = "since"
    /\ replay' = [replay EXCEPT ![c] = Since(from[c])]
    /\ last' = [last EXCEPT ![c] = seq]
    \* What was evicted is in the preamble this reading makes (FirstSeq, Dropped).
    /\ excused' = [excused EXCEPT ![c] = @ \union (from[c] + 1)..(FirstSeq - 1)]
    /\ place' = [place EXCEPT ![c] = "pending"]
    /\ UNCHANGED <<run, asking, queues, pend, client, cut, silent>>

\* pendingFor, and the preamble that carries the open question.
Preamble(c) ==
    /\ place[c] = "pending"
    /\ pend' = [pend EXCEPT ![c] = question]
    /\ shown' = [shown EXCEPT ![c] = @ \union ({question} \ {0})]
    /\ place' = [place EXCEPT ![c] = "replay"]
    /\ UNCHANGED <<run, asking, queues, replay, last, from, tries, heard, history>>

\* One event reaches the client: runStreamReader.event.
Write(c, e) ==
    /\ from' = [from EXCEPT ![c] = IF e.seq > 0 THEN e.seq ELSE @]
    /\ shown' = [shown EXCEPT ![c] = @ \union ({e.ask} \ {0})]
    /\ heard' = [heard EXCEPT ![c] = IF e.seq > 0 /\ e.seq = verdict THEN "end" ELSE @]
    /\ UNCHANGED tries

\* A replayed event: a question that is not the open one is skipped.
AnsweredApproval(e, open) == e.ask > 0 /\ e.ask # open

WriteReplay(c) ==
    /\ place[c] = "replay" /\ replay[c] # <<>>
    /\ LET e == Head(replay[c]) IN
         \/ /\ AnsweredApproval(e, pend[c])
            /\ excused' = [excused EXCEPT ![c] = @ \union {e.seq}]
            /\ UNCHANGED client
         \/ /\ ~AnsweredApproval(e, pend[c])
            /\ Write(c, e)
            /\ UNCHANGED excused
    /\ replay' = [replay EXCEPT ![c] = Tail(@)]
    /\ UNCHANGED <<run, asking, queues, place, last, pend, cut, silent>>

ReplayWritten(c) ==
    /\ place[c] = "replay" /\ replay[c] = <<>>
    /\ place' = [place EXCEPT ![c] = "live"]
    /\ UNCHANGED <<run, asking, queues, replay, last, pend, client, history>>

\* Mutant: what the replay already carried is written again.
WriteAnyway(c, e) == Write(c, e)

\* writeIfNew: a queued event the replay already carried is not written again.
WriteIfNew(c, e) ==
    IF e.seq # 0 /\ e.seq <= last[c] THEN UNCHANGED client ELSE Write(c, e)

\* The select of attach, when the queue has an event ...
Follow(c) ==
    /\ place[c] = "live" /\ ch[c] # <<>>
    /\ WriteIfNew(c, Head(ch[c]))
    /\ ch' = [ch EXCEPT ![c] = Tail(@)]
    /\ UNCHANGED <<run, asking, subs, lost, handler, history>>

\* ... when the reader was cut off: it is told with an error event, which a
\* client takes for the end of the turn (runStreamReader.failed, onError) ...
ToldLost(c) ==
    /\ place[c] = "live" /\ c \in lost
    /\ Leave(c)
    /\ heard' = [heard EXCEPT ![c] = IF @ = "none" THEN "detached" ELSE @]
    /\ UNCHANGED <<run, asking, last, pend, from, shown, tries, history>>

\* ... and when the run is over: drainFrom empties the queue.
SeeDone(c) ==
    /\ place[c] = "live" /\ done
    /\ place' = [place EXCEPT ![c] = "drain"]
    /\ UNCHANGED <<run, asking, queues, replay, last, pend, client, history>>

Drain(c) ==
    /\ place[c] = "drain" /\ ch[c] # <<>>
    /\ LET e == Head(ch[c]) IN
         IF e.seq = 0 \/ e.seq <= last[c] THEN UNCHANGED client ELSE Write(c, e)
    /\ ch' = [ch EXCEPT ![c] = Tail(@)]
    /\ UNCHANGED <<run, asking, subs, lost, handler, history>>

\* attach returns; a client with no verdict takes it for a dropped connection.
StreamEnds(c) ==
    /\ place[c] = "drain" /\ ch[c] = <<>>
    /\ Leave(c)
    /\ IF heard[c] = "none"
         THEN Retry(c) /\ silent' = silent \union {c}
         ELSE UNCHANGED <<tries, heard, silent>>
    /\ UNCHANGED <<run, asking, last, pend, from, shown, excused, cut>>

\* The connection drops, wherever the handler is.
Drop(c) ==
    /\ place[c] # "away" /\ heard[c] = "none"
    /\ Leave(c) /\ Retry(c)
    /\ UNCHANGED <<run, asking, last, pend, from, shown, history>>

-----------------------------------------------------------------------------
RunStep ==
    \/ AnnounceQuestion \/ Answered \/ Denied \/ ClearQuestion \/ AppendVerdict \/ Finish
ReaderStep(c) ==
    \/ Attach(c) \/ ReadLog(c) \/ Preamble(c) \/ WriteReplay(c) \/ ReplayWritten(c)
    \/ Follow(c) \/ ToldLost(c) \/ SeeDone(c) \/ Drain(c) \/ StreamEnds(c)

Next ==
    \/ Progress \/ Flash \/ Ask \/ RunStep
    \/ \E c \in Readers : ReaderStep(c) \/ Drop(c)

Spec == Init /\ [][Next]_vars

\* The run's goroutine works until its turn is over (AppendVerdict may always be
\* its next step when it works: a turn has a budget), a question is answered or
\* expires, and the goroutine of a handler is scheduled; connections drop when
\* they like.
FairSpec ==
    /\ Spec /\ WF_vars(RunStep) /\ SF_vars(AppendVerdict)
    /\ \A c \in Readers : WF_vars(ReaderStep(c))

-----------------------------------------------------------------------------
(* Properties.                                                              *)

TypeOK ==
    /\ seq \in Nat /\ dropped \in Nat /\ verdict \in Nat
    /\ log \in Seq(Events) /\ Len(log) <= LogSize
    /\ phase \in Phases /\ done \in BOOLEAN
    /\ question \in Nat /\ asks \in Nat /\ askedAt \in Nat
    /\ subs \subseteq Readers /\ lost \subseteq subs
    /\ ch \in [Readers -> Seq(Events)]
    /\ place \in [Readers -> ReaderSteps]
    /\ replay \in [Readers -> Seq(Events)]
    /\ last \in [Readers -> Nat] /\ pend \in [Readers -> Nat] /\ from \in [Readers -> Nat]
    /\ shown \in [Readers -> SUBSET Nat] /\ tries \in [Readers -> Nat]
    /\ heard \in [Readers -> Verdicts]
    /\ answered \subseteq Nat /\ excused \in [Readers -> SUBSET Nat]
    /\ cut \subseteq Readers /\ silent \subseteq Readers

\* A client that follows a run through drops, evictions and its own slowness is
\* given its events in order and each once, and misses only what the preamble
\* told it is gone and the questions that are settled - unless it was cut off.
Stream == INSTANCE EventStream WITH Keep <- LogSize, emitted <- seq
StreamKept == Stream!Spec

\* A run blocked on a question is waiting for somebody who was asked: a client
\* that is up to date, whenever and from wherever it attached, was shown it.
QuestionReachesWhoFollows ==
    phase = "waiting" =>
      \A c \in Readers \ lost :
          place[c] = "live" /\ ch[c] = <<>> => question \in shown[c]

\* Snapshots never cost a reader its stream: one that is cut off had at least
\* half a queue of events that count.
CutOffOnlyIfBehind ==
    [][\A c \in lost' \ lost :
          Cardinality({i \in 1..Len(ch[c]) : ch[c][i].seq > 0}) >= Buffer - Buffer \div 2]_vars

\* A stream the gateway ends itself has told its client how the turn ended,
\* however the end of the run and the joining of the reader interleave.
NoSilentEnd == silent \subseteq cut

\* What a client can count on at any moment of attach: the question that is open reaches it and
\* the gateway does not end its stream without a word, of a log that stays within its size.
StreamIsSound == TypeOK /\ QuestionReachesWhoFollows /\ NoSilentEnd

\* Whoever attaches is eventually told how the turn ended, or has dropped so
\* often that its client gives up.
FollowedToTheEnd == \A c \in Readers : place[c] = "since" ~> heard[c] # "none"

-----------------------------------------------------------------------------
(* Promises of comments that a client slower than the run sees broken.      *)

\* "It is cut off rather than skipped: dropping the event would leave it
\* rendering a stream with an invisible hole in it" (run.append).
NoHoleAfterCutOff ==
    [][\A c \in Readers :
          from'[c] > from[c] => (from[c] + 1)..(from'[c] - 1) \subseteq excused[c]]_vars

\* "Cutting it off is self-healing: the client reconnects and replays"
\* (subscriberBuffer): no client takes it for the end of the turn.
CutOffHeals == \A c \in Readers : heard[c] = "detached" => verdict > 0
=============================================================================
