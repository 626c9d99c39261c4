---------------------------- MODULE SuppliesProofs ----------------------------
(***************************************************************************)
(* What an agent is supplied with: the calls of its model, the files its   *)
(* tasks come in, the model on the machine itself.  For any budgets,       *)
(* backoffs and Retry-After, a call of ModelCalls is over after a bounded  *)
(* number of requests and a bounded wait, and what it streamed is from one *)
(* attempt, the answer.  For any names and agents, a task file of          *)
(* TaskQueue is given once.  For any number of requests, one server of     *)
(* LocalModel runs at a time, and runs what was downloaded whole.          *)
(***************************************************************************)
EXTENDS ModelCalls, TaskQueue, LocalModel, FiniteSetTheorems, SequenceTheorems, WellFoundedInduction, TLAPS

-----------------------------------------------------------------------------
(* The calls of a model.                                                    *)

Calls   == [kind : Kinds, at : {"ask", "asked", "stream", "wait", "over"}, streams : BOOLEAN]
Retries == [attempts : 0..(MaxAttempts - 1), wait : BackoffInitial..BackoffMax, spent : 0..TransientBudget]
Ways    == {"none", "answer", "fatal", "exhausted", "broken", "cancelled"}

Types ==
    /\ call \in Calls /\ retry \in Retries /\ outcome \in Ways
    /\ forwarded \in Nat /\ requests \in Nat /\ paused \in Nat /\ answeredBy \in Nat
    /\ shownFrom \subseteq 1..requests

CallPhases ==
    /\ call.streams => Streams(call.kind)
    /\ call.at = "over" <=> outcome # "none"
    /\ call.at = "stream" => call.streams
    /\ call.at \in {"asked", "stream"} => requests >= 1

\* The plain call a streamed completion falls back to.
Second      == call.kind = "completion" /\ ~call.streams
AllRequests == MaxAttempts + TransientBudget
AllPauses   == TransientBudget + (MaxAttempts - 1) * Longest

\* Every request but the one under way was paid for: by an attempt, or by a pause of a unit.
RequestsPaidFor ==
    requests <= (IF Second THEN AllRequests ELSE 0) + retry.attempts + retry.spent
                + (IF call.at \in {"ask", "wait"} THEN 0 ELSE 1)

\* And every pause: it was counted, or it was that of a counted attempt.
PausesPaidFor ==
    paused <= (IF Second THEN AllPauses ELSE 0) + retry.spent + retry.attempts * Longest

\* Nothing is shown before a stream is open, and then only of that stream.
ShownOfOne ==
    /\ \A a \in shownFrom, b \in shownFrom : a = b
    /\ call.streams /\ call.at \in {"ask", "asked", "wait"} => shownFrom = {}
    /\ call.at = "stream" => shownFrom \subseteq {requests} /\ (forwarded = 0 => shownFrom = {})
    /\ outcome = "answer" /\ call.streams => shownFrom \subseteq {answeredBy}

CInv == Types /\ CallPhases /\ RequestsPaidFor /\ PausesPaidFor /\ ShownOfOne

-----------------------------------------------------------------------------
(* Arithmetic of the budgets.                                               *)

LEMMA LongestFacts ==
    /\ Longest \in Nat /\ BackoffMax <= Longest /\ RetryAfterMax <= Longest
    /\ \A n \in Nat : n * Longest \in Nat /\ (n + 1) * Longest = n * Longest + Longest
    /\ \A n \in 0..(MaxAttempts - 1) : n * Longest <= (MaxAttempts - 1) * Longest
    /\ AllPauses \in Nat
  <1>1. Longest \in Nat /\ BackoffMax <= Longest /\ RetryAfterMax <= Longest
    BY CallsAssumption DEF Longest
  <1> HIDE DEF Longest
  <1>2. \A n \in Nat : n * Longest \in Nat /\ (n + 1) * Longest = n * Longest + Longest
    BY <1>1
  <1>3. ASSUME NEW n \in 0..(MaxAttempts - 1) PROVE n * Longest <= (MaxAttempts - 1) * Longest
    <2>1. (MaxAttempts - 1) - n \in Nat /\ n \in Nat
      BY CallsAssumption
    <2>2. ((MaxAttempts - 1) - n) * Longest \in Nat
      BY <1>2, <2>1
    <2>3. (MaxAttempts - 1) * Longest = n * Longest + ((MaxAttempts - 1) - n) * Longest
      BY <1>1, <2>1, CallsAssumption
    <2> QED
      BY <1>2, <2>1, <2>2, <2>3
  <1>4. AllPauses \in Nat
    <2>1. MaxAttempts - 1 \in Nat
      BY CallsAssumption
    <2> QED
      BY <1>2, <2>1, CallsAssumption DEF AllPauses
  <1> QED
    BY <1>1, <1>2, <1>3, <1>4

LEMMA NewRetryFact == NewRetry \in Retries /\ NewRetry.attempts = 0 /\ NewRetry.spent = 0
BY CallsAssumption DEF NewRetry, Retries

\* A pause is at least a unit and at most the longest.
LEMMA PauseFact ==
    ASSUME Types, NEW ask \in 0..MaxRetryAfter, NEW pause \in Pauses(ask)
    PROVE  pause \in Nat /\ 1 <= pause /\ pause <= Longest
  <1> USE CallsAssumption, LongestFacts
  <1>1. retry.wait \in BackoffInitial..BackoffMax
    BY DEF Types, Retries
  <1>2. CASE RetryAfterMax > 0 /\ ask > 0
    BY <1>2 DEF Pauses, Smaller
  <1>3. CASE ~(RetryAfterMax > 0 /\ ask > 0)
    BY <1>1, <1>3 DEF Pauses
  <1> QED
    BY <1>2, <1>3

LEMMA GrownFact ==
    ASSUME Types
    PROVE  Grown \in BackoffInitial..BackoffMax
  <1>1. retry.wait \in BackoffInitial..BackoffMax
    BY DEF Types, Retries
  <1> QED
    BY <1>1, CallsAssumption DEF Grown, Smaller

-----------------------------------------------------------------------------

LEMMA CInvInit == CallsInit => CInv
  <1> SUFFICES ASSUME CallsInit PROVE CInv
    OBVIOUS
  <1> USE CallsAssumption, NewRetryFact, LongestFacts DEF CallsInit
  <1>1. PICK k \in Kinds : call = [kind |-> k, at |-> "ask", streams |-> Streams(k)]
    OBVIOUS
  <1>2. Streams(k) \in BOOLEAN /\ ~Second
    <2>1. call.kind = k /\ call.streams = Streams(k) /\ Streams(k) \in BOOLEAN
      BY <1>1 DEF Streams
    <2>2. k = "completion" => Streams(k)
      BY DEF Streams
    <2> QED
      BY <2>1, <2>2 DEF Second
  <1>3. Types
    BY <1>1, <1>2 DEF Types, Calls, Ways
  <1>4. CallPhases /\ ShownOfOne
    BY <1>1 DEF CallPhases, ShownOfOne
  <1>5. RequestsPaidFor
    BY <1>1, <1>2 DEF RequestsPaidFor
  <1>6. PausesPaidFor
    <2>1. retry.attempts * Longest = 0
      BY DEF Longest
    <2> QED
      BY <1>2, <2>1 DEF PausesPaidFor
  <1> QED
    BY <1>3, <1>4, <1>5, <1>6 DEF CInv

\* Whatever a call is given up for, and wherever it goes on, what it used stays within bounds.
LEMMA GiveUpStep ==
    ASSUME CInv, NEW with \in Ways \ {"none", "answer"}, GiveUp(with), call.at \in {"asked", "stream"},
           UNCHANGED <<requests, paused, shownFrom, answeredBy, forwarded>>
    PROVE  CInv'
  <1> USE CallsAssumption, LongestFacts DEF CInv
  <1>1. CASE call.kind = "completion" /\ call.streams
    <2>0. ~Second
      BY <1>1 DEF Second
    <2>1. call' = [call EXCEPT !.at = "ask", !.streams = FALSE] /\ retry' = NewRetry /\ outcome' = outcome
      BY <1>1 DEF GiveUp
    <2>2. call'.at = "ask" /\ ~call'.streams /\ call'.kind = "completion" /\ call' \in Calls
      BY <1>1, <2>1 DEF Types, Calls
    <2>3. Types'
      BY <2>1, <2>2, NewRetryFact DEF Types
    <2>4. CallPhases'
      BY <2>1, <2>2 DEF CallPhases
    <2>5. RequestsPaidFor'
      <3>1. requests <= retry.attempts + retry.spent + 1
        BY <2>0 DEF RequestsPaidFor, Types, Retries
      <3>2. retry.attempts \in 0..(MaxAttempts - 1) /\ retry.spent \in 0..TransientBudget /\ requests \in Nat
        BY DEF Types, Retries
      <3>3. requests' <= MaxAttempts + TransientBudget
        BY <3>1, <3>2
      <3>4. retry'.attempts = 0 /\ retry'.spent = 0 /\ Second'
        BY <2>1, <2>2, NewRetryFact DEF Second
      <3> QED
        BY <2>2, <3>2, <3>3, <3>4 DEF RequestsPaidFor, AllRequests
    <2>6. PausesPaidFor'
      <3>1. paused <= retry.spent + retry.attempts * Longest
        <4>1. retry.attempts * Longest \in Nat /\ retry.spent \in Nat
          BY DEF Types, Retries
        <4> QED
          BY <2>0, <4>1 DEF PausesPaidFor
      <3>2. retry.attempts * Longest <= (MaxAttempts - 1) * Longest /\ retry.spent <= TransientBudget
        BY DEF Types, Retries
      <3>3. retry.attempts * Longest \in Nat /\ (MaxAttempts - 1) * Longest \in Nat /\ retry.spent \in Nat /\ paused \in Nat
        BY DEF Types, Retries
      <3>4. paused <= AllPauses
        BY <3>1, <3>2, <3>3 DEF AllPauses
      <3>5. retry'.attempts * Longest = 0 /\ retry'.spent = 0
        BY <2>1, NewRetryFact
      <3> QED
        BY <2>2, <3>3, <3>4, <3>5 DEF PausesPaidFor, Second, Longest, AllPauses
    <2>7. ShownOfOne'
      BY <2>1, <2>2 DEF ShownOfOne, CallPhases
    <2> QED
      BY <2>3, <2>4, <2>5, <2>6, <2>7
  <1>2. CASE ~(call.kind = "completion" /\ call.streams)
    <2>1. call' = [call EXCEPT !.at = "over"] /\ outcome' = with /\ retry' = retry
      BY <1>2 DEF GiveUp, Ends
    <2>2. call'.at = "over" /\ call'.streams = call.streams /\ call'.kind = call.kind /\ call' \in Calls
      BY <2>1 DEF Types, Calls
    <2>3. Types' /\ CallPhases'
      BY <2>1, <2>2 DEF Types, CallPhases
    <2>4. RequestsPaidFor'
      BY <2>1, <2>2 DEF RequestsPaidFor, Second, AllRequests
    <2>5. PausesPaidFor'
      BY <2>1, <2>2 DEF PausesPaidFor, Second, Longest, AllPauses
    <2>6. ShownOfOne'
      BY <2>1, <2>2 DEF ShownOfOne
    <2> QED
      BY <2>3, <2>4, <2>5, <2>6
  <1> QED
    BY <1>1, <1>2

\* A failed attempt is given up or waited for, and a wait is paid for.
LEMMA FailsStep ==
    ASSUME CInv, Fails, call.at \in {"asked", "stream"}, call.streams => shownFrom = {},
           UNCHANGED <<requests, shownFrom, answeredBy, forwarded>>
    PROVE  CInv'
  <1> USE CallsAssumption, LongestFacts DEF CInv
  <1>0. PICK is \in {"fatal", "request", "transient"}, ask \in 0..MaxRetryAfter :
          \E pause \in Pauses(ask) : After(is, pause)
    BY DEF Fails
  <1>1. PICK pause \in Pauses(ask) : After(is, pause)
    BY <1>0
  <1>2. pause \in Nat /\ 1 <= pause /\ pause <= Longest
    BY PauseFact
  <1>3. Grown \in BackoffInitial..BackoffMax
    BY GrownFact
  <1>4. \/ GiveUp("fatal") /\ paused' = paused
        \/ GiveUp("exhausted") /\ paused' = paused
        \/ /\ Waits(pause) /\ retry.spent + pause <= TransientBudget
           /\ retry' = [retry EXCEPT !.spent = @ + pause, !.wait = Grown]
        \/ /\ Waits(pause) /\ retry.attempts + 1 < MaxAttempts
           /\ retry' = [retry EXCEPT !.attempts = @ + 1, !.wait = Grown]
    BY <1>1, <1>2 DEF After, Types, Retries
  <1>5. CASE GiveUp("fatal") /\ paused' = paused
    BY <1>5, GiveUpStep DEF Ways
  <1>6. CASE GiveUp("exhausted") /\ paused' = paused
    BY <1>6, GiveUpStep DEF Ways
  <1>7. ASSUME Waits(pause)
        PROVE  /\ call' \in Calls /\ call'.at = "wait" /\ call'.streams = call.streams /\ call'.kind = call.kind
               /\ outcome' = outcome /\ paused' = paused + pause /\ outcome = "none"
               /\ CallPhases' /\ ShownOfOne'
    <2>1. call' = [call EXCEPT !.at = "wait"] /\ outcome' = outcome /\ paused' = paused + pause
      BY <1>7 DEF Waits, CallGoes
    <2>2. call' \in Calls /\ call'.at = "wait" /\ call'.streams = call.streams /\ call'.kind = call.kind
      BY <2>1 DEF Types, Calls
    <2> QED
      BY <2>1, <2>2 DEF CallPhases, ShownOfOne
  <1>8. CASE /\ Waits(pause) /\ retry.spent + pause <= TransientBudget
             /\ retry' = [retry EXCEPT !.spent = @ + pause, !.wait = Grown]
    <2>1. /\ retry' \in Retries /\ retry'.spent = retry.spent + pause /\ retry'.attempts = retry.attempts
          /\ retry.spent \in Nat /\ retry.attempts \in Nat
      <3>1. retry.attempts \in 0..(MaxAttempts - 1) /\ retry.spent \in 0..TransientBudget /\ retry \in Retries
        BY DEF Types, Retries
      <3>2. retry.spent + pause \in 0..TransientBudget
        BY <1>2, <1>8, <3>1
      <3> DEFINE s == retry.spent + pause
      <3>3. retry' = [retry EXCEPT !.spent = s, !.wait = Grown]
        BY <1>8
      <3> HIDE DEF s
      <3>4. retry'.spent = s /\ retry'.attempts = retry.attempts
        BY <3>1, <3>3 DEF Retries
      <3>5. s \in 0..TransientBudget
        BY <3>2 DEF s
      <3>6. retry' \in Retries
        BY <1>3, <3>1, <3>3, <3>5 DEF Retries
      <3> QED
        BY <3>1, <3>4, <3>6 DEF s
    <2>2. Types'
      BY <1>2, <1>7, <1>8, <2>1 DEF Types
    <2>3. RequestsPaidFor'
      BY <1>2, <1>7, <1>8, <2>1 DEF RequestsPaidFor, Second, AllRequests, Types
    <2>4. PausesPaidFor'
      <3>1. retry.attempts * Longest \in Nat
        BY <2>1
      <3>2. paused' = paused + pause /\ Second' = Second
        BY <1>7, <1>8 DEF Second
      <3> QED
        BY <1>2, <2>1, <3>1, <3>2 DEF PausesPaidFor, Longest, AllPauses, Types
    <2> QED
      BY <1>7, <1>8, <2>2, <2>3, <2>4
  <1>9. CASE /\ Waits(pause) /\ retry.attempts + 1 < MaxAttempts
             /\ retry' = [retry EXCEPT !.attempts = @ + 1, !.wait = Grown]
    <2>1. /\ retry' \in Retries /\ retry'.spent = retry.spent /\ retry'.attempts = retry.attempts + 1
          /\ retry.spent \in Nat /\ retry.attempts \in Nat
      <3>1. retry.attempts \in 0..(MaxAttempts - 1) /\ retry.spent \in 0..TransientBudget /\ retry \in Retries
        BY DEF Types, Retries
      <3> DEFINE n == retry.attempts + 1
      <3>2. n \in 0..(MaxAttempts - 1)
        BY <1>9, <3>1
      <3>3. retry' = [retry EXCEPT !.attempts = n, !.wait = Grown]
        BY <1>9
      <3> HIDE DEF n
      <3>4. retry'.attempts = n /\ retry'.spent = retry.spent /\ retry' \in Retries
        BY <1>3, <3>1, <3>2, <3>3 DEF Retries
      <3> QED
        BY <3>1, <3>4 DEF n
    <2>2. Types'
      BY <1>2, <1>7, <1>9, <2>1 DEF Types
    <2>3. RequestsPaidFor'
      BY <1>2, <1>7, <1>9, <2>1 DEF RequestsPaidFor, Second, AllRequests, Types
    <2>4. PausesPaidFor'
      <3>1. retry.attempts * Longest \in Nat /\ (retry.attempts + 1) * Longest = retry.attempts * Longest + Longest
        BY <2>1
      <3>2. paused' = paused + pause /\ Second' = Second
        BY <1>7, <1>9 DEF Second
      <3>3. paused \in Nat /\ paused <= (IF Second THEN AllPauses ELSE 0) + retry.spent + retry.attempts * Longest
        BY DEF PausesPaidFor, Types
      <3> DEFINE before == IF Second THEN AllPauses ELSE 0
                 times  == retry.attempts * Longest
                 more   == (retry.attempts + 1) * Longest
      <3>5. before \in Nat /\ Longest \in Nat /\ pause \in Nat /\ pause <= Longest
        BY <1>2, <2>1 DEF AllPauses
      <3>6. times \in Nat /\ more = times + Longest /\ paused <= before + retry.spent + times
        BY <3>1, <3>3
      <3> HIDE DEF before, times, more
      <3>7. paused' <= before + retry.spent + more
        BY <2>1, <3>2, <3>3, <3>5, <3>6
      <3>4. paused' <= (IF Second THEN AllPauses ELSE 0) + retry.spent + (retry.attempts + 1) * Longest
        BY <3>7 DEF before, more
      <3> QED
        BY <2>1, <3>2, <3>4 DEF PausesPaidFor, Longest, AllPauses
    <2> QED
      BY <1>7, <1>9, <2>2, <2>3, <2>4
  <1> QED
    BY <1>4, <1>5, <1>6, <1>8, <1>9

LEMMA CInvStep == CInv /\ [CallsNext]_callVars => CInv'
  <1> SUFFICES ASSUME CInv, [CallsNext]_callVars PROVE CInv'
    OBVIOUS
  <1> USE CallsAssumption DEF CInv
  <1>0. /\ retry.attempts \in Nat /\ retry.spent \in Nat
        /\ \A at \in {"ask", "asked", "stream", "wait", "over"} :
             LET c == [call EXCEPT !.at = at]
             IN  c \in Calls /\ c.at = at /\ c.streams = call.streams /\ c.kind = call.kind
    BY DEF Types, Calls, Retries
  <1>1. CASE AskModel
    <2>1. /\ call.at = "ask" /\ requests' = requests + 1 /\ forwarded' = 0 /\ outcome' = outcome
          /\ UNCHANGED <<retry, paused, shownFrom, answeredBy>>
          /\ call' \in Calls /\ call'.at = "asked" /\ call'.streams = call.streams /\ call'.kind = call.kind
      BY <1>0, <1>1 DEF AskModel, CallGoes
    <2>2. Types'
      BY <2>1 DEF Types
    <2>3. CallPhases'
      <3>1. call.at # "over" /\ call'.at # "over" /\ call'.at # "stream"
        BY <2>1
      <3>2. requests' >= 1
        BY <2>1 DEF Types
      <3> QED
        BY <2>1, <3>1, <3>2 DEF CallPhases, Streams
    <2>4. RequestsPaidFor'
      BY <1>0, <2>1 DEF RequestsPaidFor, Second, AllRequests, Types
    <2>5. PausesPaidFor'
      BY <2>1 DEF PausesPaidFor, Second, Longest, AllPauses
    <2>6. ShownOfOne'
      BY <2>1 DEF ShownOfOne, CallPhases
    <2> QED
      BY <2>2, <2>3, <2>4, <2>5, <2>6
  <1>2. CASE AnswerComes
    <2>1. /\ call.at = "asked" /\ call' \in Calls /\ call'.streams = call.streams /\ call'.kind = call.kind
          /\ UNCHANGED <<retry, forwarded, requests, paused, shownFrom>>
          /\ \/ call.streams /\ call'.at = "stream" /\ outcome' = outcome /\ answeredBy' = answeredBy
             \/ ~call.streams /\ call'.at = "over" /\ outcome' = "answer" /\ answeredBy' = requests
      BY <1>0, <1>2 DEF AnswerComes, CallGoes, Ends
    <2>2. Types'
      BY <2>1 DEF Types, Ways
    <2>3. CallPhases'
      BY <2>1 DEF CallPhases
    <2>4. RequestsPaidFor'
      BY <2>1 DEF RequestsPaidFor, Second, AllRequests
    <2>5. PausesPaidFor'
      BY <2>1 DEF PausesPaidFor, Second, Longest, AllPauses
    <2>6. ShownOfOne'
      BY <2>1 DEF ShownOfOne, CallPhases
    <2> QED
      BY <2>2, <2>3, <2>4, <2>5, <2>6
  <1>3. CASE AttemptFails
    BY <1>3, FailsStep DEF AttemptFails, ShownOfOne
  <1>4. CASE WaitIsOver
    <2>1. /\ call.at = "wait" /\ call' \in Calls /\ call'.at = "ask" /\ outcome' = outcome
          /\ call'.streams = call.streams /\ call'.kind = call.kind
          /\ UNCHANGED <<retry, forwarded, requests, paused, shownFrom, answeredBy>>
      BY <1>0, <1>4 DEF WaitIsOver, CallGoes
    <2>2. Types' /\ CallPhases' /\ ShownOfOne'
      BY <2>1 DEF Types, CallPhases, ShownOfOne
    <2>3. RequestsPaidFor' /\ PausesPaidFor'
      BY <2>1 DEF RequestsPaidFor, PausesPaidFor, Second, AllRequests, Longest, AllPauses
    <2> QED
      BY <2>2, <2>3
  <1>5. CASE Fragment
    <2>1. /\ call.at = "stream" /\ forwarded' = forwarded + 1 /\ shownFrom' = shownFrom \union {requests}
          /\ UNCHANGED <<call, retry, outcome, requests, paused, answeredBy>>
      BY <1>5 DEF Fragment
    <2>2. Types'
      <3>1. requests \in 1..requests /\ forwarded' \in Nat
        BY <2>1 DEF Types, CallPhases
      <3> QED
        BY <2>1, <3>1 DEF Types
    <2>3. CallPhases'
      BY <2>1 DEF CallPhases
    <2>4. ShownOfOne'
      BY <2>1 DEF ShownOfOne, CallPhases, Types
    <2>5. RequestsPaidFor' /\ PausesPaidFor'
      BY <2>1 DEF RequestsPaidFor, PausesPaidFor, Second, AllRequests, Longest, AllPauses
    <2> QED
      BY <2>2, <2>3, <2>4, <2>5
  <1>6. CASE StreamDone
    <2>1. CASE Ends("answer") /\ answeredBy' = requests /\ UNCHANGED retry
      <3>1. /\ call.at = "stream" /\ call' \in Calls /\ call'.at = "over" /\ outcome' = "answer"
            /\ call'.streams = call.streams /\ call'.kind = call.kind /\ answeredBy' = requests
            /\ UNCHANGED <<retry, forwarded, requests, paused, shownFrom>>
        BY <1>0, <1>6, <2>1 DEF StreamDone, Ends
      <3>2. Types' /\ CallPhases' /\ ShownOfOne'
        BY <3>1 DEF Types, CallPhases, ShownOfOne, Ways
      <3>3. RequestsPaidFor' /\ PausesPaidFor'
        BY <3>1 DEF RequestsPaidFor, PausesPaidFor, Second, AllRequests, Longest, AllPauses
      <3> QED
        BY <3>2, <3>3
    <2>2. CASE call.kind = "completion" /\ GiveUp("empty") /\ UNCHANGED answeredBy
      <3>1. call.streams /\ call.at = "stream" /\ GiveUp("exhausted")
        BY <1>6, <2>2 DEF StreamDone, CallPhases, GiveUp
      <3> QED
        BY <1>6, <2>2, <3>1, GiveUpStep DEF StreamDone, Ways
    <2> QED
      BY <1>6, <2>1, <2>2 DEF StreamDone
  <1>7. CASE StreamFails
    <2>1. CASE forwarded = 0
      BY <1>7, <2>1, FailsStep DEF StreamFails, ShownOfOne
    <2>2. CASE forwarded # 0
      BY <1>7, <2>2, GiveUpStep DEF StreamFails, Ways
    <2> QED
      BY <2>1, <2>2
  <1>8. CASE CancelCall
    <2>1. /\ call' \in Calls /\ call'.at = "over" /\ outcome' = "cancelled" /\ call.at # "over"
          /\ call'.streams = call.streams /\ call'.kind = call.kind
          /\ UNCHANGED <<retry, forwarded, requests, paused, shownFrom, answeredBy>>
      BY <1>0, <1>8 DEF CancelCall, Ends
    <2>2. Types' /\ CallPhases' /\ ShownOfOne'
      BY <2>1 DEF Types, CallPhases, ShownOfOne, Ways
    <2>3. RequestsPaidFor'
      BY <1>0, <2>1 DEF RequestsPaidFor, Second, AllRequests, Types
    <2>4. PausesPaidFor'
      BY <2>1 DEF PausesPaidFor, Second, Longest, AllPauses
    <2> QED
      BY <2>2, <2>3, <2>4
  <1>9. CASE UNCHANGED callVars
    BY <1>9 DEF callVars, Types, CallPhases, ShownOfOne, RequestsPaidFor, PausesPaidFor, Second, AllRequests, Longest,
       AllPauses
  <1> QED
    BY <1>1, <1>2, <1>3, <1>4, <1>5, <1>6, <1>7, <1>8, <1>9 DEF CallsNext

-----------------------------------------------------------------------------

LEMMA CInvAlways == CallsSpec => []CInv
  BY CInvInit, CInvStep, PTL DEF CallsSpec

\* The call, its budgets and what it came to have their types.
THEOREM CallsTypeCorrect == CallsSpec => []CallsTypeOK
  <1>1. CInv => CallsTypeOK
    <2> SUFFICES ASSUME CInv PROVE CallsTypeOK
      OBVIOUS
    <2>1. call \in Calls /\ retry \in Retries
      BY DEF CInv, Types
    <2>2. retry.attempts \in 0..(MaxAttempts - 1) /\ retry.wait \in BackoffInitial..BackoffMax /\ retry.spent <= TransientBudget
      BY <2>1, CallsAssumption DEF Retries
    <2>3. call.kind \in Kinds /\ call.at \in {"ask", "asked", "stream", "wait", "over"}
      BY <2>1 DEF Calls
    <2> QED
      BY <2>2, <2>3 DEF CInv, Types, CallPhases, CallsTypeOK, Ways
  <1> QED
    BY <1>1, CInvAlways, PTL

\* Whatever mixture of failures the provider answers with, a call is over after so many
\* requests and so much waiting.
THEOREM RetriesAreBounded == CallsSpec => []CallIsBounded
  <1>1. CInv => CallIsBounded
    <2> SUFFICES ASSUME CInv PROVE CallIsBounded
      OBVIOUS
    <2> USE CallsAssumption, LongestFacts
    <2>1. retry.attempts \in 0..(MaxAttempts - 1) /\ retry.spent \in 0..TransientBudget /\ requests \in Nat /\ paused \in Nat
      BY DEF CInv, Types, Retries
    <2>2. Loops \in {1, 2} /\ (Second => Loops = 2)
      BY DEF Loops, Second
    <2>3. retry.attempts * Longest <= (MaxAttempts - 1) * Longest /\ retry.attempts * Longest \in Nat
      BY <2>1
    <2>4. requests <= (IF Second THEN AllRequests ELSE 0) + AllRequests
      BY <2>1 DEF CInv, RequestsPaidFor, AllRequests
    <2>5. paused <= (IF Second THEN AllPauses ELSE 0) + AllPauses
      <3>1. paused <= (IF Second THEN AllPauses ELSE 0) + retry.spent + retry.attempts * Longest
        BY DEF CInv, PausesPaidFor
      <3>2. AllPauses = TransientBudget + (MaxAttempts - 1) * Longest /\ (MaxAttempts - 1) * Longest \in Nat
        BY DEF AllPauses
      <3> QED
        BY <2>1, <2>3, <3>1, <3>2
    <2>6. AllRequests \in Nat /\ AllPauses \in Nat
      BY DEF AllRequests
    <2>7. requests <= Loops * AllRequests
      BY <2>1, <2>2, <2>4, <2>6
    <2>8. paused <= Loops * AllPauses
      BY <2>1, <2>2, <2>5, <2>6
    <2> QED
      BY <2>7, <2>8 DEF CallIsBounded, AllRequests, AllPauses
  <1> QED
    BY <1>1, CInvAlways, PTL

\* A caller is never shown fragments of two attempts, and what was streamed is the answer.
THEOREM StreamIsOneAttempt == CallsSpec => []ShownIsTheAnswer
  <1>1. CInv => ShownIsTheAnswer
    <2> SUFFICES ASSUME CInv PROVE ShownIsTheAnswer
      OBVIOUS
    <2>1. Cardinality(shownFrom) <= 1
      <3>1. CASE shownFrom = {}
        <4>1. Cardinality(shownFrom) = 0
          BY <3>1, FS_EmptySet
        <4> QED
          BY <4>1
      <3>2. CASE shownFrom # {}
        <4>1. PICK a \in shownFrom : TRUE
          BY <3>2
        <4>2. shownFrom = {a}
          BY <4>1 DEF CInv, ShownOfOne
        <4>3. Cardinality(shownFrom) = 1
          BY <4>2, FS_Singleton
        <4> QED
          BY <4>3
      <3> QED
        BY <3>1, <3>2
    <2> QED
      BY <2>1 DEF CInv, ShownOfOne, ShownIsTheAnswer
  <1> QED
    BY <1>1, CInvAlways, PTL

-----------------------------------------------------------------------------
(* The task files.                                                          *)

AgentStates == [at : {"list", "read"}, pending : SUBSET Names, file : Names \union {0}, unclaimable : SUBSET Names]
LastTask    == Cardinality(DOMAIN tasks)

QTypes ==
    /\ queued \in [Names -> Nat] /\ consumed \in [Names -> Nat]
    /\ agent \in [Agents -> AgentStates] /\ \A a \in Agents : agent[a].file # 0 <=> agent[a].at = "read"
    /\ LastTask \in 0..MaxTasks /\ DOMAIN tasks = 1..LastTask
    /\ \A t \in DOMAIN tasks : tasks[t] \in Names
    /\ given \subseteq [to : Agents, task : DOMAIN tasks]

\* What a file holds was put there under that name, and a task is in one file.
QFiles ==
    /\ \A n \in Names : queued[n] # 0 => queued[n] \in DOMAIN tasks /\ tasks[queued[n]] = n
    /\ \A n \in Names : consumed[n] # 0 => consumed[n] \in DOMAIN tasks /\ tasks[consumed[n]] = n
    /\ \A n \in Names : queued[n] = 0 \/ queued[n] # consumed[n]

\* While a name is used for one file at a time, one agent reads it, and what it reads is what it
\* claimed: there is no other file of the name.
OneReader ==
    \A n \in Names \ crossed : \A a \in Reading(n) :
        /\ Reading(n) = {a}
        /\ queued[n] = 0 /\ consumed[n] # 0

\* Then what was given was given to one agent, and is neither in the queue nor claimed.
GivenForGood ==
    \A g \in given : LET n == tasks[g.task] IN n \notin crossed =>
        /\ \A h \in given : h.task = g.task => h = g
        /\ queued[n] # g.task
        /\ consumed[n] = g.task => Reading(n) = {}

QInv == QTypes /\ QFiles /\ OneReader /\ GivenForGood /\ NoTaskLost

\* The first of some names is one of them (FirstOf; task files are consumed in order).
LEMMA FirstIsOne ==
    ASSUME NEW s, s \subseteq Names, s # {}
    PROVE  FirstOf(s) \in s
  <1>1. s \subseteq Nat
    BY QueueAssumption
  <1>2. PICK x \in s : \A y \in s : ~(<<y, x>> \in OpToRel(<, Nat))
    BY <1>1, NatLessThanWellFounded, WFMin
  <1>3. \A y \in s : x <= y
    <2>1. ASSUME NEW y \in s, y < x PROVE FALSE
      <3>1. <<y, x>> \in Nat \X Nat /\ <<y, x>>[1] < <<y, x>>[2]
        BY <1>1, <2>1
      <3> QED
        BY <1>2, <3>1 DEF OpToRel
    <2> QED
      BY <1>1, <2>1
  <1> QED
    BY <1>3 DEF FirstOf

\* No name is 0, the mark of no file.
LEMMA NamesFact == 0 \notin Names /\ Names \subseteq Nat
  BY QueueAssumption

\* The directory is empty when the first agent starts.
LEMMA QInit == QueueInit => QInv
  <1> SUFFICES ASSUME QueueInit PROVE QInv
    OBVIOUS
  <1> USE DEF QueueInit
  <1>1. DOMAIN tasks = {} /\ LastTask = 0 /\ 1..0 = {}
    BY FS_EmptySet DEF LastTask
  <1>2. NewAgent \in AgentStates /\ NewAgent.at = "list" /\ NewAgent.file = 0
    BY DEF NewAgent, AgentStates
  <1>3. QTypes
    <2>1. LastTask \in 0..MaxTasks
      BY <1>1, QueueAssumption
    <2> QED
      BY <1>1, <1>2, <2>1 DEF QTypes
  <1>4. QFiles
    BY DEF QFiles
  <1>5. OneReader
    BY <1>2 DEF OneReader, Reading
  <1> QED
    BY <1>1, <1>3, <1>4, <1>5 DEF QInv, GivenForGood, NoTaskLost

\* What a step of one agent does to who reads which file.
LEMMA ReadersOf ==
    ASSUME NEW a \in Agents, \A b \in Agents \ {a} : agent'[b] = agent[b]
    PROVE  \A n \in Names : Reading(n)' = (Reading(n) \ {a}) \union
              (IF agent'[a].at = "read" /\ agent'[a].file = n THEN {a} ELSE {})
  BY DEF Reading

\* A step that changes neither the files nor who reads them.
LEMMA QSame ==
    ASSUME QInv, QTypes', UNCHANGED <<queued, consumed, tasks, given, crossed>>, died \subseteq died',
           \A n \in Names \ died' : Reading(n)' = Reading(n),
           \A n \in Names : Reading(n)' \subseteq Reading(n)
    PROVE  QInv'
  <1>1. QFiles'
    BY DEF QInv, QFiles
  <1>2. OneReader'
    BY DEF QInv, OneReader
  <1>3. GivenForGood'
    <2>1. \A g \in given : tasks[g.task] \in Names
      BY DEF QInv, QTypes
    <2> QED
      BY <2>1 DEF QInv, GivenForGood
  <1>4. NoTaskLost'
    <2>1. \A t \in DOMAIN tasks : tasks[t] \in Names /\ GivenTo(t)' = GivenTo(t)
      BY DEF QInv, QTypes, GivenTo
    <2> QED
      BY <2>1 DEF QInv, NoTaskLost
  <1> QED
    BY <1>1, <1>2, <1>3, <1>4 DEF QInv

\* A task file is put in the directory.
LEMMA EnqueueKeeps == ASSUME QInv, NEW n \in Names, Enqueue(n) PROVE QInv'
  <1> DEFINE t == LastTask + 1
  <1>1. /\ queued[n] = 0 /\ t <= MaxTasks /\ queued' = [queued EXCEPT ![n] = t]
        /\ tasks' = [u \in DOMAIN tasks \union {t} |-> IF u = t THEN n ELSE tasks[u]]
        /\ crossed' = IF Reading(n) # {} THEN crossed \union {n} ELSE crossed
        /\ UNCHANGED <<consumed, agent, given, died>>
    BY DEF Enqueue, LastTask
  <1>2. LastTask \in Nat /\ t \in 1..MaxTasks /\ DOMAIN tasks = 1..LastTask /\ t \notin DOMAIN tasks
    BY <1>1, QueueAssumption DEF QInv, QTypes
  <1>3. DOMAIN tasks' = 1..t /\ LastTask' = t
    <2>1. DOMAIN tasks' = 1..t
      BY <1>1, <1>2
    <2> QED
      BY <1>2, <2>1, FS_Interval DEF LastTask
  <1>4. tasks'[t] = n /\ (\A u \in DOMAIN tasks : u # t /\ tasks'[u] = tasks[u]) /\ DOMAIN tasks' = DOMAIN tasks \union {t}
    BY <1>1, <1>2
  <1>5. \A m \in Names : Reading(m)' = Reading(m)
    BY <1>1 DEF Reading
  <1>6. queued \in [Names -> Nat] /\ consumed \in [Names -> Nat] /\ \A u \in DOMAIN tasks : tasks[u] \in Names
    BY DEF QInv, QTypes
  <1>7. /\ queued'[n] = t /\ (\A m \in Names \ {n} : queued'[m] = queued[m])
        /\ queued' \in [Names -> Nat] /\ t # 0
    BY <1>1, <1>2, <1>6
  <1>8. crossed \subseteq crossed' /\ (n \notin crossed' => Reading(n) = {})
    BY <1>1
  <1> HIDE DEF t
  <1>9. QTypes'
    <2>1. \A u \in DOMAIN tasks' : tasks'[u] \in Names
      BY <1>4, <1>6
    <2>2. given' \subseteq [to : Agents, task : DOMAIN tasks']
      BY <1>1, <1>4 DEF QInv, QTypes
    <2>3. LastTask' \in 0..MaxTasks /\ DOMAIN tasks' = 1..LastTask'
      BY <1>2, <1>3
    <2> QED
      BY <1>1, <1>6, <1>7, <2>1, <2>2, <2>3 DEF QInv, QTypes
  <1>10. QFiles'
    <2>1. consumed[n] # t
      BY <1>2, <1>7 DEF QInv, QFiles
    <2> QED
      BY <1>1, <1>4, <1>7, <2>1 DEF QInv, QFiles
  <1>11. OneReader'
    BY <1>1, <1>5, <1>7, <1>8 DEF QInv, OneReader
  <1>12. GivenForGood'
    <2>1. \A g \in given : g.task \in DOMAIN tasks /\ tasks'[g.task] = tasks[g.task] /\ tasks[g.task] \in Names /\ g.task # t
      BY <1>2, <1>4, <1>6 DEF QInv, QTypes
    <2> QED
      BY <1>1, <1>5, <1>7, <1>8, <2>1 DEF QInv, GivenForGood
  <1>13. NoTaskLost'
    <2> SUFFICES ASSUME NEW u \in DOMAIN tasks', NEW m \in Names, m = tasks'[u], GivenTo(u)' = {},
                        m \notin (crossed' \union died')
                 PROVE  queued'[m] = u \/ (consumed'[m] = u /\ Reading(m)' # {})
      BY <1>9 DEF NoTaskLost, QTypes
    <2>1. CASE u = t
      BY <1>4, <1>7, <2>1
    <2>2. CASE u \in DOMAIN tasks
      <3>1. tasks[u] = m /\ u # 0
        BY <1>2, <1>4, <2>2
      <3>2. queued[m] = u \/ (consumed[m] = u /\ Reading(m) # {})
        BY <1>1, <1>8, <2>2, <3>1 DEF QInv, NoTaskLost, GivenTo
      <3>3. m # n
        BY <1>1, <1>8, <3>1, <3>2
      <3> QED
        BY <1>1, <1>5, <1>7, <3>2, <3>3
    <2> QED
      BY <1>4, <2>1, <2>2
  <1> QED
    BY <1>9, <1>10, <1>11, <1>12, <1>13 DEF QInv

\* An agent lists, leaves a file out, or passes over one that is gone.
LEMMA ListingKeeps ==
    ASSUME QInv, NEW a \in Agents, agent[a].at = "list", agent' \in [Agents -> AgentStates],
           agent'[a].at = "list", agent'[a].file = 0, \A b \in Agents \ {a} : agent'[b] = agent[b],
           UNCHANGED <<queued, consumed, tasks, given, crossed, died>>
    PROVE  QInv'
  <1>1. QTypes'
    BY DEF QInv, QTypes, LastTask
  <1>2. \A n \in Names : a \notin Reading(n) /\ Reading(n)' = Reading(n)
    BY ReadersOf DEF Reading
  <1> QED
    BY <1>1, <1>2, QSame

\* The rename: the file is the agent's to read.
LEMMA ClaimKeeps ==
    ASSUME QInv, NEW a \in Agents, NEW n \in Names, agent[a].at = "list", queued[n] # 0,
           consumed' = [consumed EXCEPT ![n] = queued[n]], queued' = [queued EXCEPT ![n] = 0],
           agent' \in [Agents -> AgentStates], agent'[a].at = "read", agent'[a].file = n,
           \A b \in Agents \ {a} : agent'[b] = agent[b],
           UNCHANGED <<tasks, given, crossed, died>>
    PROVE  QInv'
  <1>1. queued \in [Names -> Nat] /\ consumed \in [Names -> Nat] /\ \A t \in DOMAIN tasks : tasks[t] \in Names /\ t # 0
    BY DEF QInv, QTypes
  <1>2. /\ queued'[n] = 0 /\ consumed'[n] = queued[n] /\ queued' \in [Names -> Nat] /\ consumed' \in [Names -> Nat]
        /\ \A m \in Names \ {n} : queued'[m] = queued[m] /\ consumed'[m] = consumed[m]
    BY <1>1
  <1>3. Reading(n)' = Reading(n) \union {a} /\ \A m \in Names \ {n} : Reading(m)' = Reading(m)
    BY ReadersOf DEF Reading
  <1>4. n \notin crossed => Reading(n) = {}
    BY DEF QInv, OneReader
  <1>5. QTypes'
    BY <1>2, NamesFact DEF QInv, QTypes, LastTask
  <1>6. QFiles'
    BY <1>2 DEF QInv, QFiles
  <1>7. OneReader'
    BY <1>2, <1>3, <1>4 DEF QInv, OneReader
  <1>8. GivenForGood'
    <2>1. \A g \in given : tasks[g.task] \in Names /\ g.task # 0
      BY <1>1 DEF QInv, QTypes
    <2>2. \A g \in given : tasks[g.task] = n /\ n \notin crossed => consumed'[n] # g.task /\ queued'[n] # g.task
      BY <1>2, <2>1 DEF QInv, GivenForGood
    <2> QED
      BY <1>2, <1>3, <2>1, <2>2 DEF QInv, GivenForGood
  <1>9. NoTaskLost'
    <2> SUFFICES ASSUME NEW u \in DOMAIN tasks, NEW m \in Names, m = tasks[u], GivenTo(u)' = {},
                        m \notin (crossed \union died)
                 PROVE  queued'[m] = u \/ (consumed'[m] = u /\ Reading(m)' # {})
      BY <1>1 DEF NoTaskLost
    <2>1. queued[m] = u \/ (consumed[m] = u /\ Reading(m) # {})
      BY DEF QInv, NoTaskLost, GivenTo
    <2> QED
      BY <1>2, <1>3, <1>4, <2>1
  <1> QED
    BY <1>5, <1>6, <1>7, <1>8, <1>9 DEF QInv

\* An agent is done with a file; what is in its hands is no more.
LEMMA IdleFacts ==
    ASSUME QInv, NEW a \in Agents, agent[a].at = "read", NEW out \in SUBSET Names, Idle(a, out)
    PROVE  /\ agent[a].file \in Names /\ a \in Reading(agent[a].file)
           /\ agent' \in [Agents -> AgentStates] /\ \A b \in Agents : agent'[b].file # 0 <=> agent'[b].at = "read"
           /\ \A n \in Names : Reading(n)' = Reading(n) \ {a}
  <1>1. agent[a] \in AgentStates /\ agent[a].file # 0 /\ agent[a].file \in Names
    BY DEF QInv, QTypes, AgentStates
  <1>2. agent' \in [Agents -> AgentStates] /\ agent'[a].at = "list" /\ agent'[a].file = 0
        /\ \A b \in Agents \ {a} : agent'[b] = agent[b]
    BY <1>1 DEF Idle, QInv, QTypes, AgentStates
  <1>3. \A n \in Names : Reading(n)' = Reading(n) \ {a}
    BY <1>2, ReadersOf
  <1> QED
    BY <1>1, <1>2, <1>3 DEF Reading, QInv, QTypes

\* The read fails: the file goes back, or is gone.
LEMMA ReadFailsKeeps == ASSUME QInv, NEW a \in Agents, ReadFails(a) PROVE QInv'
  <1>0. agent[a].at = "read" /\ UNCHANGED <<tasks, given, crossed, died>>
    BY DEF ReadFails
  <1>1. PICK n \in Names : n = agent[a].file
    BY <1>0 DEF QInv, QTypes, AgentStates
  <1>2. \E out \in SUBSET Names : Idle(a, out)
    BY <1>1 DEF ReadFails
  <1>3. /\ a \in Reading(n) /\ agent' \in [Agents -> AgentStates]
        /\ \A b \in Agents : agent'[b].file # 0 <=> agent'[b].at = "read"
        /\ \A m \in Names : Reading(m)' = Reading(m) \ {a}
    BY <1>0, <1>1, <1>2, IdleFacts
  <1>4. \A m \in Names \ {n} : a \notin Reading(m)
    BY <1>1 DEF Reading
  <1>5. queued \in [Names -> Nat] /\ consumed \in [Names -> Nat] /\ \A t \in DOMAIN tasks : tasks[t] \in Names /\ t # 0
    BY DEF QInv, QTypes
  <1>6. n \notin crossed => Reading(n) = {a} /\ queued[n] = 0 /\ consumed[n] # 0
    BY <1>1, <1>3 DEF QInv, OneReader
  <1>7. CASE consumed[n] = 0 /\ UNCHANGED <<queued, consumed>>
    <2>1. QTypes'
      BY <1>0, <1>3, <1>7 DEF QInv, QTypes, LastTask
    <2>2. n \in crossed
      BY <1>6, <1>7
    <2>3. QFiles'
      BY <1>0, <1>7 DEF QInv, QFiles
    <2>4. \A m \in Names \ crossed : Reading(m)' = Reading(m)
      BY <1>3, <1>4, <2>2
    <2>5. OneReader'
      BY <1>0, <1>7, <2>4 DEF QInv, OneReader
    <2>6. GivenForGood'
      <3>1. \A g \in given : tasks[g.task] \in Names
        BY <1>5 DEF QInv, QTypes
      <3> QED
        BY <1>0, <1>7, <2>4, <3>1 DEF QInv, GivenForGood
    <2>7. NoTaskLost'
      <3>1. \A t \in DOMAIN tasks : GivenTo(t)' = GivenTo(t)
        BY <1>0 DEF GivenTo
      <3> QED
        BY <1>0, <1>5, <1>7, <2>4, <3>1 DEF QInv, NoTaskLost
    <2> QED
      BY <2>1, <2>3, <2>5, <2>6, <2>7 DEF QInv
  <1>8. CASE /\ consumed[n] # 0
             /\ queued' = [queued EXCEPT ![n] = consumed[n]] /\ consumed' = [consumed EXCEPT ![n] = 0]
    <2>1. /\ queued'[n] = consumed[n] /\ consumed'[n] = 0 /\ queued' \in [Names -> Nat] /\ consumed' \in [Names -> Nat]
          /\ \A m \in Names \ {n} : queued'[m] = queued[m] /\ consumed'[m] = consumed[m]
      BY <1>1, <1>5, <1>8
    <2>2. QTypes'
      BY <1>0, <1>3, <2>1 DEF QInv, QTypes, LastTask
    <2>3. QFiles'
      BY <1>0, <1>1, <1>8, <2>1 DEF QInv, QFiles
    <2>4. (\A m \in Names \ {n} : Reading(m)' = Reading(m)) /\ (n \notin crossed => Reading(n)' = {})
      BY <1>1, <1>3, <1>4, <1>6
    <2>5. OneReader'
      BY <1>0, <2>1, <2>4 DEF QInv, OneReader
    <2>6. GivenForGood'
      <3>1. \A g \in given : tasks[g.task] \in Names /\ g.task # 0
        BY <1>5 DEF QInv, QTypes
      <3>2. \A g \in given : tasks[g.task] = n /\ n \notin crossed => consumed[n] # g.task
        BY <1>3, <1>6 DEF QInv, GivenForGood
      <3> QED
        BY <1>0, <2>1, <2>4, <3>1, <3>2 DEF QInv, GivenForGood
    <2>7. NoTaskLost'
      <3> SUFFICES ASSUME NEW u \in DOMAIN tasks, NEW m \in Names, m = tasks[u], GivenTo(u)' = {},
                          m \notin (crossed \union died)
                   PROVE  queued'[m] = u \/ (consumed'[m] = u /\ Reading(m)' # {})
        BY <1>0, <1>5 DEF NoTaskLost
      <3>1. queued[m] = u \/ (consumed[m] = u /\ Reading(m) # {})
        BY <1>0 DEF QInv, NoTaskLost, GivenTo
      <3> QED
        BY <1>5, <1>6, <2>1, <2>4, <3>1
    <2> QED
      BY <2>2, <2>3, <2>5, <2>6, <2>7 DEF QInv
  <1> QED
    BY <1>1, <1>7, <1>8 DEF ReadFails

\* The read: the task is the agent's.
LEMMA ReadTaskKeeps == ASSUME QInv, NEW a \in Agents, ReadTask(a) PROVE QInv'
  <1>1. PICK n \in Names : n = agent[a].file
    BY DEF ReadTask, QInv, QTypes, AgentStates
  <1>2. PICK now : now = [to |-> a, task |-> consumed[n]]
    OBVIOUS
  <1>0. /\ agent[a].at = "read" /\ consumed[n] # 0 /\ given' = given \union {now} /\ Idle(a, {})
        /\ UNCHANGED <<queued, consumed, tasks, crossed, died>>
    BY <1>1, <1>2 DEF ReadTask
  <1>3. /\ a \in Reading(n) /\ agent' \in [Agents -> AgentStates]
        /\ \A b \in Agents : agent'[b].file # 0 <=> agent'[b].at = "read"
        /\ \A m \in Names : Reading(m)' = Reading(m) \ {a}
    BY <1>0, <1>1, IdleFacts
  <1>4. \A m \in Names \ {n} : Reading(m)' = Reading(m)
    <2>1. \A m \in Names \ {n} : a \notin Reading(m)
      BY <1>1 DEF Reading
    <2> QED
      BY <1>3, <2>1
  <1>5. \A t \in DOMAIN tasks : tasks[t] \in Names /\ t # 0
    BY DEF QInv, QTypes
  <1>6. n \notin crossed => Reading(n) = {a} /\ Reading(n)' = {} /\ queued[n] = 0 /\ \A g \in given : g.task # consumed[n]
    <2>1. n \notin crossed => Reading(n) = {a} /\ queued[n] = 0
      BY <1>3 DEF QInv, OneReader
    <2>2. tasks[consumed[n]] = n
      BY <1>0, <1>3 DEF QInv, QFiles
    <2>3. n \notin crossed => \A g \in given : g.task # consumed[n]
      BY <1>3, <2>2 DEF QInv, GivenForGood
    <2> QED
      BY <1>3, <2>1, <2>3
  <1>7. consumed[n] \in DOMAIN tasks /\ tasks[consumed[n]] = n /\ now.task = consumed[n] /\ now.to = a
    BY <1>0, <1>2 DEF QInv, QFiles
  <1>8. now \in [to : Agents, task : DOMAIN tasks]
    BY <1>2, <1>7
  <1>9. QTypes'
    BY <1>0, <1>3, <1>8 DEF QInv, QTypes, LastTask
  <1>10. QFiles'
    BY <1>0 DEF QInv, QFiles
  <1>11. OneReader'
    BY <1>0, <1>4, <1>6 DEF QInv, OneReader
  <1>12. GivenForGood'
    <2> SUFFICES ASSUME NEW g \in given', NEW m \in Names, m = tasks[g.task], m \notin crossed
                 PROVE  /\ \A h \in given' : h.task = g.task => h = g
                        /\ queued[m] # g.task
                        /\ consumed[m] = g.task => Reading(m)' = {}
      <3>1. \A g \in given' : tasks[g.task] \in Names
        BY <1>0, <1>5, <1>8 DEF QInv, QTypes
      <3> QED
        BY <1>0, <3>1 DEF GivenForGood
    <2>1. CASE g \in given
      <3>1. g.task # now.task
        BY <1>6, <1>7, <2>1
      <3>2. \A h \in given' : h.task = g.task => h = g
        BY <1>0, <2>1, <3>1 DEF QInv, GivenForGood
      <3>3. queued[m] # g.task /\ (consumed[m] = g.task => Reading(m) = {})
        BY <2>1 DEF QInv, GivenForGood
      <3> QED
        BY <1>3, <3>2, <3>3
    <2>2. CASE g = now
      <3>1. \A h \in given : h.task # g.task
        BY <1>6, <1>7, <2>2
      <3>2. m = n /\ queued[m] = 0 /\ Reading(m)' = {} /\ g.task # 0
        BY <1>0, <1>6, <1>7, <2>2
      <3> QED
        BY <1>0, <2>2, <3>1, <3>2
    <2> QED
      BY <1>0, <2>1, <2>2
  <1>13. NoTaskLost'
    <2> SUFFICES ASSUME NEW u \in DOMAIN tasks, NEW m \in Names, m = tasks[u], GivenTo(u)' = {},
                        m \notin (crossed \union died)
                 PROVE  queued[m] = u \/ (consumed[m] = u /\ Reading(m)' # {})
      BY <1>0, <1>5 DEF NoTaskLost
    <2>1. GivenTo(u) = {} /\ [to |-> a, task |-> u] \notin given'
      BY <1>0 DEF GivenTo
    <2>2. u # consumed[n]
      BY <1>0, <1>2, <2>1
    <2>3. queued[m] = u \/ (consumed[m] = u /\ Reading(m) # {})
      BY <2>1 DEF QInv, NoTaskLost
    <2>4. consumed[m] = u => m # n
      BY <2>2
    <2> QED
      BY <1>4, <2>3, <2>4
  <1> QED
    BY <1>9, <1>10, <1>11, <1>12, <1>13 DEF QInv

\* An agent dies: what it was reading is nobody's.
LEMMA AgentDiesKeeps == ASSUME QInv, NEW a \in Agents, AgentDies(a) PROVE QInv'
  <1>1. /\ agent' = [agent EXCEPT ![a] = NewAgent] /\ UNCHANGED <<queued, consumed, tasks, given, crossed>>
        /\ died' = IF agent[a].at = "read" THEN died \union {agent[a].file} ELSE died
    BY DEF AgentDies
  <1>2. NewAgent \in AgentStates /\ NewAgent.at = "list" /\ NewAgent.file = 0
    BY DEF NewAgent, AgentStates
  <1>3. agent' \in [Agents -> AgentStates] /\ agent'[a] = NewAgent /\ \A b \in Agents \ {a} : agent'[b] = agent[b]
    BY <1>1, <1>2 DEF QInv, QTypes
  <1>4. QTypes'
    BY <1>1, <1>2, <1>3 DEF QInv, QTypes, LastTask
  <1>5. \A n \in Names : Reading(n)' = Reading(n) \ {a}
    BY <1>2, <1>3, ReadersOf
  <1>6. died \subseteq died' /\ \A n \in Names : a \in Reading(n) => n \in died'
    BY <1>1 DEF Reading
  <1> QED
    BY <1>1, <1>4, <1>5, <1>6, QSame

\* Every step keeps it.
LEMMA QStep == QInv /\ [QueueNext]_queueVars => QInv'
  <1> SUFFICES ASSUME QInv, [QueueNext]_queueVars PROVE QInv'
    OBVIOUS
  <1>1. ASSUME NEW a \in Agents, ListFiles(a) PROVE QInv'
    <2>1. agent[a] \in AgentStates /\ Listed(a) \subseteq Names /\ agent[a].at = "list" /\ agent[a].file = 0
      BY <1>1 DEF ListFiles, Listed, QInv, QTypes
    <2>2. /\ agent' \in [Agents -> AgentStates] /\ agent'[a].at = "list" /\ agent'[a].file = 0
          /\ \A b \in Agents \ {a} : agent'[b] = agent[b]
      BY <1>1, <2>1 DEF ListFiles, QInv, QTypes, AgentStates
    <2> QED
      BY <1>1, <2>1, <2>2, ListingKeeps DEF ListFiles
  <1>2. ASSUME NEW a \in Agents, Claim(a) PROVE QInv'
    <2> DEFINE n == FirstOf(agent[a].pending)
    <2>1. /\ agent[a] \in AgentStates /\ agent[a].at = "list" /\ agent[a].file = 0 /\ agent[a].pending \subseteq Names
          /\ agent[a].pending # {} /\ UNCHANGED <<tasks, given, crossed, died>>
      BY <1>2 DEF Claim, QInv, QTypes, AgentStates
    <2>2. n \in Names
      BY <2>1, FirstIsOne
    <2>3. CASE /\ queued[n] # 0
               /\ consumed' = [consumed EXCEPT ![n] = queued[n]] /\ queued' = [queued EXCEPT ![n] = 0]
               /\ agent' = [agent EXCEPT ![a].at = "read", ![a].file = n, ![a].pending = @ \ {n}]
      <3>1. /\ agent' \in [Agents -> AgentStates] /\ agent'[a].at = "read" /\ agent'[a].file = n
            /\ \A b \in Agents \ {a} : agent'[b] = agent[b]
        <4> HIDE DEF n
        <4> QED
          BY <2>1, <2>2, <2>3 DEF QInv, QTypes, AgentStates
      <3> HIDE DEF n
      <3> QED
        BY <2>1, <2>2, <2>3, <3>1, ClaimKeeps
    <2>4. CASE queued[n] # 0 /\ LeaveOut(a, n) /\ UNCHANGED <<queued, consumed>>
      <3>1. /\ agent' \in [Agents -> AgentStates] /\ agent'[a].at = "list" /\ agent'[a].file = 0
            /\ \A b \in Agents \ {a} : agent'[b] = agent[b]
        <4> HIDE DEF n
        <4> QED
          BY <2>1, <2>2, <2>4 DEF LeaveOut, QInv, QTypes, AgentStates
      <3> QED
        BY <2>1, <2>4, <3>1, ListingKeeps
    <2>5. CASE agent' = [agent EXCEPT ![a].pending = @ \ {n}] /\ UNCHANGED <<queued, consumed>>
      <3>1. /\ agent' \in [Agents -> AgentStates] /\ agent'[a].at = "list" /\ agent'[a].file = 0
            /\ \A b \in Agents \ {a} : agent'[b] = agent[b]
        <4> HIDE DEF n
        <4> QED
          BY <2>1, <2>2, <2>5 DEF QInv, QTypes, AgentStates
      <3> QED
        BY <2>1, <2>5, <3>1, ListingKeeps
    <2> QED
      BY <1>2, <2>3, <2>4, <2>5 DEF Claim
  <1>3. CASE UNCHANGED queueVars
    <2>1. QTypes' /\ QFiles'
      BY <1>3 DEF queueVars, QInv, QTypes, QFiles, LastTask
    <2> QED
      BY <1>3, <2>1, QSame DEF queueVars, Reading
  <1> QED
    BY <1>1, <1>2, <1>3, EnqueueKeeps, ReadFailsKeeps, ReadTaskKeeps, AgentDiesKeeps DEF QueueNext

\* A task file is given once: to no second agent, and to one if it is in the queue at all,
\* whoever claims at the same time, fails to read or dies (queueSource.claim).
THEOREM TasksGivenOnce == QueueSpec => []EachGivenOnce
  <1>1. QueueSpec => []QInv
    BY QInit, QStep, PTL DEF QueueSpec
  <1>2. QInv => EachGivenOnce
    <2> SUFFICES ASSUME QInv PROVE EachGivenOnce
      OBVIOUS
    <2>1. QueueTypeOK
      <3>1. DOMAIN tasks \subseteq 1..MaxTasks
        BY QueueAssumption DEF QInv, QTypes
      <3> QED
        BY <3>1 DEF QInv, QTypes, QFiles, QueueTypeOK
    <2>2. GivenOnce
      <3> SUFFICES ASSUME NEW t \in DOMAIN tasks, tasks[t] \notin crossed
                   PROVE  Cardinality(GivenTo(t)) <= 1 /\ (GivenTo(t) # {} => queued[tasks[t]] # t)
        BY DEF GivenOnce
      <3>1. \A a \in GivenTo(t), b \in GivenTo(t) : a = b
        <4> SUFFICES ASSUME NEW a \in GivenTo(t), NEW b \in GivenTo(t) PROVE a = b
          OBVIOUS
        <4>1. [to |-> a, task |-> t] \in given /\ [to |-> b, task |-> t] \in given
          BY DEF GivenTo
        <4>2. [to |-> a, task |-> t] = [to |-> b, task |-> t]
          BY <4>1 DEF QInv, GivenForGood
        <4> QED
          BY <4>2
      <3>2. GivenTo(t) # {} => queued[tasks[t]] # t
        BY DEF GivenTo, QInv, GivenForGood
      <3>3. Cardinality(GivenTo(t)) <= 1
        <4>1. CASE GivenTo(t) = {}
          BY <4>1, FS_EmptySet
        <4>2. CASE GivenTo(t) # {}
          <5>1. PICK a \in GivenTo(t) : TRUE
            BY <4>2
          <5>2. GivenTo(t) = {a}
            BY <3>1, <5>1
          <5>3. Cardinality(GivenTo(t)) = 1
            BY <5>2, FS_Singleton
          <5> QED
            BY <5>3
        <4> QED
          BY <4>1, <4>2
      <3> QED
        BY <3>2, <3>3
    <2> QED
      BY <2>1, <2>2 DEF QInv, EachGivenOnce
  <1> QED
    BY <1>1, <1>2, PTL

-----------------------------------------------------------------------------
(* The local model.                                                         *)

InstallPlaces == {"runtime", "unpack", "name", "model", "ask", "read", "check", "end", "over"}
Folders       == [part : Seq(0..Pieces), model : Seq(0..Pieces), dir : {"none", "half", "whole"}, current : BOOLEAN]
Whoever       == Callers \union Starts
Unnoted       == {g \in Starts : runs[g] # NotRun /\ g \notin reaped}

LTypes ==
    /\ folder \in Folders /\ task \in BOOLEAN
    /\ installs \in Seq(InstallPlaces) /\ installing \in 0..Len(installs) /\ cancelled \subseteq DOMAIN installs
    /\ srv \in [starting : BOOLEAN, running : BOOLEAN] /\ cmd \in {0} \union Starts
    /\ DOMAIN runs = Starts /\ servers \subseteq Unnoted /\ reaped \subseteq Launched
    /\ stage \in [Whoever -> Places] /\ does \in [Callers -> {"none", "cancel", "close", "delete"}]
    /\ DOMAIN on = Whoever

\* Only a deletion removes.
WhoRemoves == \A c \in Callers : stage[c] \in {"reset", "remove", "removing"} => does[c] = "delete"

\* A request to start that was not served has launched nothing.
NotYetRun == \A g \in Starts : stage[g] \in {"idle", "start"} => runs[g] = NotRun

\* One install is at work; a deletion that waits for an install waits for that one, and past it
\* there is none.
OneInstall ==
    \A i \in DOMAIN installs : installs[i] # "over" =>
        /\ task /\ installing = i /\ ~Deleting(PastStop \union {"stop"})
        /\ \A c \in Callers : does[c] = "delete" /\ stage[c] = "cancelling" => on[c] = i
        /\ installs[i] = "name" => folder.dir = "whole"

\* The model that is in place was hashed, and a runtime that has its name was unpacked whole; a
\* deletion takes them away in any order.
PlacedWhole ==
    /\ folder.model \in {<<>>, Whole}
    /\ folder.current => folder.dir = "whole" \/ Deleting({"removing"})

\* A server whose end was not noted is the one Stop would stop, and shown as starting or running; a
\* deletion waits for it, and past it there is none.
OneUnnoted ==
    \A g \in Unnoted :
        /\ cmd = g /\ (srv.starting \/ srv.running) /\ ~Deleting({"reset"})
        /\ \A c \in Callers : does[c] = "delete" /\ stage[c] = "stopping" => on[c] = g

RanWhole == \A g \in Unnoted : runs[g].model \in {<<>>, Whole} /\ runs[g].dir = "whole"

LocalInv == LTypes /\ WhoRemoves /\ NotYetRun /\ OneInstall /\ PlacedWhole /\ OneUnnoted /\ RanWhole

\* The file that was published is one, and requests are not servers.
LEMMA LocalFacts ==
    /\ Whole \in Seq(0..Pieces) /\ <<>> \in Seq(0..Pieces) /\ 0 \notin Starts
    /\ \A c \in Callers : c \notin Starts
    /\ PastStop \subseteq PastCancel /\ "stop" \in PastCancel /\ "cancelling" \in PastCancel
    /\ {"reset", "removing", "stopping"} \subseteq PastStop
  <1>1. Whole \in Seq(0..Pieces)
    <2>1. Whole \in [1..Pieces -> 0..Pieces] /\ Pieces \in Nat
      BY LocalAssumption DEF Whole
    <2> QED
      BY <2>1
  <1> QED
    BY <1>1, LocalAssumption DEF Starts, PastStop, PastCancel

\* Nothing is there before the first request.
LEMMA LocalInvInit == LocalInit => LocalInv
  <1> SUFFICES ASSUME LocalInit PROVE LocalInv
    OBVIOUS
  <1> USE DEF LocalInit
  <1>1. \A g \in Starts : runs[g] = NotRun
    OBVIOUS
  <1>2. Unnoted = {} /\ Launched = {}
    BY <1>1 DEF Unnoted, Launched
  <1>3. LTypes
    <2>1. folder \in Folders
      BY LocalFacts DEF EmptyFolder, Folders
    <2>2. installs \in Seq(InstallPlaces) /\ installing \in 0..Len(installs)
      OBVIOUS
    <2> QED
      BY <1>2, <2>1, <2>2 DEF LTypes, NoServer, Places, Whoever
  <1>4. WhoRemoves /\ NotYetRun /\ OneInstall /\ PlacedWhole
    BY <1>1 DEF WhoRemoves, NotYetRun, OneInstall, PlacedWhole, EmptyFolder
  <1> QED
    BY <1>2, <1>3, <1>4 DEF LocalInv, OneUnnoted, RanWhole

\* A step of the install at work that does not end it.
LEMMA InstallGoesOn ==
    ASSUME LocalInv, NEW i \in DOMAIN installs, installs[i] # "over",
           NEW to \in InstallPlaces \ {"over"}, installs' = [installs EXCEPT ![i] = to], StepOfInstall,
           folder' \in Folders, folder'.model \in {<<>>, Whole}, folder'.current => folder'.dir = "whole",
           to = "name" => folder'.dir = "whole"
    PROVE  LocalInv'
  <1> USE DEF StepOfInstall, serverVars, requestVars
  <1>1. installs \in Seq(InstallPlaces)
    BY DEF LocalInv, LTypes
  <1>2. /\ installs' \in Seq(InstallPlaces) /\ DOMAIN installs' = DOMAIN installs /\ Len(installs') = Len(installs)
        /\ installs'[i] = to /\ \A j \in DOMAIN installs \ {i} : installs'[j] = installs[j]
    BY <1>1
  <1>3. \A j \in DOMAIN installs \ {i} : installs[j] = "over"
    BY DEF LocalInv, OneInstall
  <1>4. \A places : Deleting(places)' = Deleting(places)
    BY DEF Deleting
  <1>5. LTypes'
    BY <1>2 DEF LocalInv, LTypes, Unnoted, Launched
  <1>6. WhoRemoves' /\ NotYetRun' /\ PlacedWhole'
    BY DEF LocalInv, WhoRemoves, NotYetRun, PlacedWhole
  <1>7. OneInstall'
    <2>1. /\ task /\ installing = i /\ ~Deleting(PastStop \union {"stop"})
          /\ \A c \in Callers : does[c] = "delete" /\ stage[c] = "cancelling" => on[c] = i
      BY DEF LocalInv, OneInstall
    <2>2. ~Deleting(PastStop \union {"stop"})'
      BY <1>4, <2>1
    <2>3. \A j \in DOMAIN installs' : installs'[j] # "over" => j = i
      BY <1>2, <1>3
    <2> QED
      BY <1>2, <2>1, <2>2, <2>3 DEF OneInstall
  <1>8. OneUnnoted' /\ RanWhole'
    BY <1>4 DEF LocalInv, OneUnnoted, RanWhole, Unnoted
  <1> QED
    BY <1>5, <1>6, <1>7, <1>8 DEF LocalInv

\* What is downloaded is put in place whole, and unpacked before it is named.
LEMMA InstallStepKeeps == ASSUME LocalInv, NEW i \in DOMAIN installs, InstallStep(i) PROVE LocalInv'
  <1>1. folder \in Folders /\ folder.model \in {<<>>, Whole} /\ Pieces \in Nat
    BY LocalAssumption DEF LocalInv, LTypes, PlacedWhole
  <1>2. ASSUME installs[i] # "over" PROVE folder.current => folder.dir = "whole"
    BY <1>2 DEF LocalInv, OneInstall, PlacedWhole, Deleting, PastStop
  <1>3. CASE RuntimeThere(i) \/ ModelThere(i) \/ ResumePart(i) \/ Gives(i)
    <2>1. /\ installs[i] # "over" /\ UNCHANGED folder /\ StepOfInstall
          /\ \E to \in {"model", "end", "check", "ask"} : installs' = [installs EXCEPT ![i] = to]
      BY <1>3 DEF RuntimeThere, ModelThere, ResumePart, Gives, InstallGoes
    <2> QED
      BY <1>1, <1>2, <2>1, InstallGoesOn DEF InstallPlaces
  <1>4. CASE Unpack(i)
    <2>1. /\ installs[i] = "runtime" /\ folder' = [folder EXCEPT !.dir = "half"] /\ StepOfInstall
          /\ installs' = [installs EXCEPT ![i] = "unpack"]
      BY <1>4 DEF Unpack, InstallGoes
    <2>2. ~folder.current
      BY <1>2, <1>4, <2>1 DEF Unpack, RuntimePresent
    <2>3. folder' \in Folders /\ folder'.model = folder.model /\ ~folder'.current
      BY <1>1, <2>1, <2>2 DEF Folders
    <2> QED
      BY <1>1, <2>1, <2>3, InstallGoesOn DEF InstallPlaces
  <1>5. CASE Unpacked(i)
    <2>1. /\ installs[i] = "unpack" /\ folder' = [folder EXCEPT !.dir = "whole"] /\ StepOfInstall
          /\ installs' = [installs EXCEPT ![i] = "name"]
      BY <1>5 DEF Unpacked, InstallGoes
    <2>2. folder' \in Folders /\ folder'.model = folder.model /\ folder'.dir = "whole"
      BY <1>1, <2>1 DEF Folders
    <2> QED
      BY <1>1, <2>1, <2>2, InstallGoesOn DEF InstallPlaces
  <1>6. CASE NameIt(i)
    <2>1. /\ installs[i] = "name" /\ folder' = [folder EXCEPT !.current = TRUE] /\ StepOfInstall
          /\ installs' = [installs EXCEPT ![i] = "model"]
      BY <1>6 DEF NameIt, InstallGoes
    <2>2. folder.dir = "whole"
      BY <2>1 DEF LocalInv, OneInstall
    <2>3. folder' \in Folders /\ folder'.model = folder.model /\ folder'.dir = "whole"
      BY <1>1, <2>1, <2>2 DEF Folders
    <2> QED
      BY <1>1, <2>1, <2>3, InstallGoesOn DEF InstallPlaces
  <1>7. CASE BeginFetch(i)
    <2>1. /\ installs[i] = "ask" /\ folder' \in {folder, [folder EXCEPT !.part = <<>>]} /\ StepOfInstall
          /\ installs' = [installs EXCEPT ![i] = "read"]
      BY <1>7 DEF BeginFetch, InstallGoes
    <2>2. /\ folder' \in Folders /\ folder'.model = folder.model /\ folder'.dir = folder.dir
          /\ folder'.current = folder.current
      BY <1>1, <2>1, LocalFacts DEF Folders
    <2> QED
      BY <1>1, <1>2, <2>1, <2>2, InstallGoesOn DEF InstallPlaces
  <1>8. CASE Piece(i)
    <2>1. PICK n \in 1..Pieces : n = Len(folder.part) + 1
      BY <1>1, <1>8 DEF Piece, Folders
    <2>2. PICK p \in 0..Pieces : folder' = [folder EXCEPT !.part = Append(@, p)]
      <3>1. \E p \in {n, 0} : folder' = [folder EXCEPT !.part = Append(@, p)]
        BY <1>8, <2>1 DEF Piece
      <3>2. {n, 0} \subseteq 0..Pieces
        BY <1>1, <2>1
      <3> QED
        BY <3>1, <3>2
    <2>3. Append(folder.part, p) \in Seq(0..Pieces)
      BY <1>1 DEF Folders
    <2>4. /\ folder' \in Folders /\ folder'.model = folder.model /\ folder'.dir = folder.dir
          /\ folder'.current = folder.current
      BY <1>1, <2>2, <2>3 DEF Folders
    <2>5. installs[i] = "read" /\ StepOfInstall /\ \E to \in {"check", "read"} : installs' = [installs EXCEPT ![i] = to]
      BY <1>8 DEF Piece, InstallGoes
    <2> QED
      BY <1>1, <1>2, <2>4, <2>5, InstallGoesOn DEF InstallPlaces
  <1>9. CASE CheckHash(i)
    <2>1. PICK m \in {<<>>, Whole} : folder' = [folder EXCEPT !.part = <<>>, !.model = m]
      BY <1>1, <1>9 DEF CheckHash
    <2>2. folder' \in Folders /\ folder'.model = m /\ folder'.dir = folder.dir /\ folder'.current = folder.current
      BY <1>1, <2>1, LocalFacts DEF Folders
    <2>3. installs[i] = "check" /\ StepOfInstall /\ installs' = [installs EXCEPT ![i] = "end"]
      BY <1>9 DEF CheckHash, InstallGoes
    <2> QED
      BY <1>1, <1>2, <2>2, <2>3, InstallGoesOn DEF InstallPlaces
  <1>10. CASE InstallEnds(i)
    <2> USE DEF serverVars, requestVars
    <2>1. /\ installs[i] = "end" /\ installs' = [installs EXCEPT ![i] = "over"] /\ task' = FALSE /\ installing' = 0
          /\ cancelled' = cancelled \ {i} /\ UNCHANGED <<folder, serverVars, requestVars, localDeaths>>
      BY <1>10 DEF InstallEnds, InstallGoes
    <2>2. installs \in Seq(InstallPlaces)
      BY DEF LocalInv, LTypes
    <2>3. /\ installs' \in Seq(InstallPlaces) /\ DOMAIN installs' = DOMAIN installs /\ Len(installs') = Len(installs)
          /\ installs'[i] = "over" /\ \A j \in DOMAIN installs \ {i} : installs'[j] = installs[j]
      BY <2>1, <2>2 DEF InstallPlaces
    <2>4. \A j \in DOMAIN installs' : installs'[j] = "over"
      BY <2>1, <2>3 DEF LocalInv, OneInstall
    <2>5. \A places : Deleting(places)' = Deleting(places)
      BY <2>1 DEF Deleting
    <2>6. LTypes'
      <3>1. installing' \in 0..Len(installs') /\ cancelled' \subseteq DOMAIN installs'
        BY <2>1, <2>2, <2>3 DEF LocalInv, LTypes
      <3>2. Unnoted' = Unnoted /\ Launched' = Launched
        BY <2>1 DEF Unnoted, Launched
      <3> QED
        BY <2>1, <2>3, <3>1, <3>2 DEF LocalInv, LTypes
    <2>7. WhoRemoves' /\ NotYetRun' /\ PlacedWhole' /\ OneInstall'
      BY <2>1, <2>4, <2>5 DEF LocalInv, WhoRemoves, NotYetRun, PlacedWhole, OneInstall
    <2>8. OneUnnoted' /\ RanWhole'
      BY <2>1, <2>5 DEF LocalInv, OneUnnoted, RanWhole, Unnoted
    <2> QED
      BY <2>6, <2>7, <2>8 DEF LocalInv
  <1> QED
    BY <1>3, <1>4, <1>5, <1>6, <1>7, <1>8, <1>9, <1>10 DEF InstallStep

\* An install begins where there is none, and meets no deletion.
LEMMA InstallKeeps == ASSUME LocalInv, LocalFaults = {}, Install PROVE LocalInv'
  <1> USE DEF serverVars, requestVars
  <1>1. /\ ~task /\ task' = TRUE /\ installs' = Append(installs, "runtime") /\ installing' = Len(installs) + 1
        /\ ~Deleting(PastCancel) /\ UNCHANGED <<folder, cancelled, serverVars, requestVars, localDeaths>>
    BY DEF Install
  <1>2. installs \in Seq(InstallPlaces)
    BY DEF LocalInv, LTypes
  <1>3. /\ installs' \in Seq(InstallPlaces) /\ Len(installs') = Len(installs) + 1 /\ installing' \in 0..Len(installs')
        /\ DOMAIN installs' = DOMAIN installs \union {installing'} /\ installs'[installing'] = "runtime"
        /\ \A j \in DOMAIN installs : installs'[j] = installs[j]
    BY <1>1, <1>2 DEF InstallPlaces
  <1>4. \A j \in DOMAIN installs : installs[j] = "over"
    BY <1>1 DEF LocalInv, OneInstall
  <1>5. \A places : Deleting(places)' = Deleting(places)
    BY <1>1 DEF Deleting
  <1>6. LTypes'
    BY <1>1, <1>3 DEF LocalInv, LTypes, Unnoted, Launched
  <1>7. WhoRemoves' /\ NotYetRun' /\ PlacedWhole'
    BY <1>1, <1>5 DEF LocalInv, WhoRemoves, NotYetRun, PlacedWhole
  <1>8. ~Deleting(PastStop \union {"stop"})' /\ \A c \in Callers : ~(does[c] = "delete" /\ stage[c] = "cancelling")
    <2>1. \A c \in Callers : does[c] = "delete" => stage[c] \notin PastCancel
      BY <1>1 DEF Deleting
    <2> QED
      BY <1>1, <2>1, LocalFacts DEF Deleting
  <1>9. OneInstall'
    BY <1>1, <1>3, <1>4, <1>8 DEF OneInstall
  <1>10. OneUnnoted' /\ RanWhole'
    BY <1>1, <1>5 DEF LocalInv, OneUnnoted, RanWhole, Unnoted
  <1> QED
    BY <1>6, <1>7, <1>9, <1>10 DEF LocalInv

\* A step of a start that launches nothing, or of what waits for its server.
LEMMA StartMoves ==
    ASSUME LocalInv, NEW g \in Starts, NEW p \in Places \ {"idle"}, p = "start" => runs[g] = NotRun,
           stage' = [stage EXCEPT ![g] = p], DOMAIN on' = DOMAIN on, \A c \in Callers : on'[c] = on[c],
           srv' \in [starting : BOOLEAN, running : BOOLEAN],
           srv.starting \/ srv.running => srv'.starting \/ srv'.running,
           UNCHANGED <<folder, installVars, cmd, runs, servers, reaped, does>>
    PROVE  LocalInv'
  <1> USE DEF installVars
  <1>1. /\ stage' \in [Whoever -> Places] /\ (\A c \in Callers : stage'[c] = stage[c])
        /\ stage'[g] = p /\ \A h \in Starts \ {g} : stage'[h] = stage[h]
    BY LocalFacts DEF LocalInv, LTypes, Whoever
  <1>2. \A places : Deleting(places)' = Deleting(places)
    BY <1>1 DEF Deleting
  <1>3. LTypes'
    BY <1>1 DEF LocalInv, LTypes, Unnoted, Launched
  <1>4. WhoRemoves' /\ NotYetRun' /\ PlacedWhole'
    BY <1>1, <1>2 DEF LocalInv, WhoRemoves, NotYetRun, PlacedWhole
  <1>5. OneInstall'
    BY <1>1, <1>2 DEF LocalInv, OneInstall
  <1>6. OneUnnoted' /\ RanWhole'
    BY <1>1, <1>2 DEF LocalInv, OneUnnoted, RanWhole, Unnoted
  <1> QED
    BY <1>3, <1>4, <1>5, <1>6 DEF LocalInv

\* A server is launched where there is none, from what was placed whole.
LEMMA StartKeeps == ASSUME LocalInv, LocalFaults = {}, NEW g \in Starts, Start(g) PROVE LocalInv'
  <1>1. stage[g] = "start" /\ UNCHANGED <<folder, installVars, does, on, localDeaths>>
    BY DEF Start
  <1>2. CASE Busy \/ ~RuntimePresent
    <2>1. stage' = [stage EXCEPT ![g] = "over"] /\ UNCHANGED serverVars
      BY <1>2 DEF Start
    <2>2. srv \in [starting : BOOLEAN, running : BOOLEAN]
      BY DEF LocalInv, LTypes
    <2> QED
      BY <1>1, <2>1, <2>2, StartMoves DEF Places, serverVars
  <1>3. CASE ~(Busy \/ ~RuntimePresent)
    <2>1. /\ ~task /\ ~srv.running /\ ~srv.starting /\ folder.current /\ folder.dir # "none" /\ ~Deleting(PastStop)
          /\ runs' = [runs EXCEPT ![g] = [model |-> folder.model, dir |-> folder.dir]]
          /\ servers' = servers \union {g} /\ cmd' = g /\ srv' = [NoServer EXCEPT !.starting = TRUE]
          /\ stage' = [stage EXCEPT ![g] = "poll"] /\ UNCHANGED reaped
      BY <1>3 DEF Start, Busy, RuntimePresent
    <2>2. Unnoted = {} /\ servers = {}
      BY <2>1 DEF LocalInv, OneUnnoted, LTypes
    <2>3. \A c \in Callers : does[c] = "delete" => stage[c] \notin {"stopping", "reset", "removing"}
      BY <2>1, LocalFacts DEF Deleting
    <2>4. folder.model \in {<<>>, Whole} /\ folder.dir = "whole"
      BY <2>1, <2>3 DEF LocalInv, PlacedWhole, Deleting
    <2>5. /\ DOMAIN runs' = Starts /\ runs'[g].model \in {<<>>, Whole} /\ runs'[g].dir = "whole" /\ runs'[g] # NotRun
          /\ \A h \in Starts \ {g} : runs'[h] = runs[h]
      <3>1. DOMAIN runs = Starts
        BY DEF LocalInv, LTypes
      <3>2. runs'[g] = [model |-> folder.model, dir |-> folder.dir] /\ \A h \in Starts \ {g} : runs'[h] = runs[h]
        BY <2>1, <3>1
      <3>3. NotRun.dir = "none"
        BY DEF NotRun
      <3> QED
        BY <2>1, <2>4, <3>1, <3>2, <3>3
    <2>6. g \notin reaped
      BY <1>1 DEF LocalInv, LTypes, NotYetRun, Launched
    <2>7. Unnoted' = {g} /\ Launched' = Launched \union {g}
      BY <2>1, <2>2, <2>5, <2>6 DEF Unnoted, Launched
    <2>8. /\ stage' \in [Whoever -> Places] /\ (\A c \in Callers : stage'[c] = stage[c])
          /\ stage'[g] = "poll" /\ \A h \in Starts \ {g} : stage'[h] = stage[h]
      BY <2>1, LocalFacts DEF LocalInv, LTypes, Whoever, Places
    <2>9. \A places : Deleting(places)' = Deleting(places)
      BY <1>1, <2>8 DEF Deleting
    <2>10. srv' \in [starting : BOOLEAN, running : BOOLEAN] /\ srv'.starting
      BY <2>1 DEF NoServer
    <2>11. LTypes'
      BY <1>1, <2>1, <2>2, <2>5, <2>7, <2>8, <2>10 DEF LocalInv, LTypes, installVars
    <2>12. WhoRemoves' /\ NotYetRun' /\ PlacedWhole'
      BY <1>1, <2>5, <2>8, <2>9 DEF LocalInv, WhoRemoves, NotYetRun, PlacedWhole
    <2>13. OneInstall'
      BY <1>1, <2>8, <2>9 DEF LocalInv, OneInstall, installVars
    <2>14. OneUnnoted'
      <3>1. ~Deleting({"reset"})'
        BY <1>1, <2>3, <2>8 DEF Deleting
      <3> QED
        BY <1>1, <2>1, <2>3, <2>7, <2>8, <2>10, <3>1 DEF OneUnnoted
    <2>15. RanWhole'
      BY <2>5, <2>7 DEF RanWhole
    <2> QED
      BY <2>11, <2>12, <2>13, <2>14, <2>15 DEF LocalInv
  <1> QED
    BY <1>2, <1>3

\* A server exits, and its end is noted.
LEMMA ExitKeeps == ASSUME LocalInv, NEW g \in Starts, Exit(g) \/ NoteExit(g) PROVE LocalInv'
  <1> USE DEF StepOfServer, installVars, requestVars
  <1>1. UNCHANGED <<folder, installVars, localDeaths, runs, requestVars>>
    BY DEF Exit, NoteExit
  <1>2. \A places : Deleting(places)' = Deleting(places)
    BY <1>1 DEF Deleting
  <1>3. WhoRemoves' /\ NotYetRun' /\ PlacedWhole' /\ OneInstall'
    BY <1>1, <1>2 DEF LocalInv, WhoRemoves, NotYetRun, PlacedWhole, OneInstall
  <1>4. CASE Exit(g)
    <2>1. servers' = servers \ {g} /\ UNCHANGED <<srv, cmd, reaped>>
      BY <1>4 DEF Exit
    <2>2. LTypes'
      BY <1>1, <2>1 DEF LocalInv, LTypes, Unnoted, Launched
    <2>3. OneUnnoted' /\ RanWhole'
      BY <1>1, <1>2, <2>1 DEF LocalInv, OneUnnoted, RanWhole, Unnoted
    <2> QED
      BY <1>3, <2>2, <2>3 DEF LocalInv
  <1>5. CASE NoteExit(g)
    <2>1. g \in Launched \ reaped /\ g \notin servers /\ reaped' = reaped \union {g} /\ cmd' = 0 /\ srv' = NoServer /\ UNCHANGED servers
      BY <1>5 DEF NoteExit
    <2>2. g \in Unnoted /\ \A h \in Unnoted : h = g
      BY <2>1 DEF Launched, Unnoted, LocalInv, OneUnnoted
    <2>3. Unnoted' = {} /\ servers = {}
      BY <1>1, <2>1, <2>2 DEF Unnoted, LocalInv, LTypes
    <2>4. LTypes'
      BY <1>1, <2>1, <2>3 DEF LocalInv, LTypes, Launched, NoServer
    <2>5. OneUnnoted' /\ RanWhole'
      BY <2>3 DEF OneUnnoted, RanWhole
    <2> QED
      BY <1>3, <2>4, <2>5 DEF LocalInv
  <1> QED
    BY <1>4, <1>5

\* The goroutine that asks for the health of a server.
LEMMA HealthKeeps == ASSUME LocalInv, NEW g \in Starts, HealthStep(g) PROVE LocalInv'
  <1> USE DEF StepOfServer, serverVars
  <1>1. g \notin Callers /\ srv \in [starting : BOOLEAN, running : BOOLEAN]
    BY LocalFacts DEF LocalInv, LTypes
  <1>2. /\ \E p \in {"over", "ask", "poll", "healthy", "stop"} : stage' = [stage EXCEPT ![g] = p]
        /\ UNCHANGED <<folder, installVars, cmd, runs, servers, reaped, does, on>>
        /\ srv' = srv \/ srv' = [srv EXCEPT !.starting = FALSE, !.running = TRUE]
    BY <1>1 DEF HealthStep, AskHealth, Silent, Healthy, Answers, TooLate, Moves, Reaches
  <1>3. srv' \in [starting : BOOLEAN, running : BOOLEAN] /\ (srv.starting \/ srv.running => srv'.starting \/ srv'.running)
    BY <1>1, <1>2
  <1> QED
    BY <1>2, <1>3, StartMoves DEF Places

\* A request goes on.
LEMMA CallerMoves ==
    ASSUME LocalInv, LTypes', NEW c \in Callers, NEW p \in Places, stage' = [stage EXCEPT ![c] = p],
           \A b \in Callers \ {c} : does'[b] = does[b] /\ on'[b] = on[b],
           UNCHANGED <<installs, installing, runs, reaped, cmd>>,
           p \in {"reset", "remove", "removing"} => does'[c] = "delete",
           \A i \in DOMAIN installs : installs[i] # "over" =>
              /\ task' = task /\ folder' = folder
              /\ does'[c] = "delete" => p \notin PastStop \union {"stop"} /\ (p = "cancelling" => on'[c] = i),
           \A g \in Unnoted :
              /\ srv' = srv
              /\ does'[c] = "delete" => p # "reset" /\ (p = "stopping" => on'[c] = g),
           folder'.model \in {<<>>, Whole},
           folder'.current => folder'.dir = "whole" \/ Deleting({"removing"})'
    PROVE  LocalInv'
  <1>1. /\ stage'[c] = p /\ (\A b \in Callers \ {c} : stage'[b] = stage[b])
        /\ \A g \in Starts : stage'[g] = stage[g]
    BY LocalFacts DEF LocalInv, LTypes, Whoever
  <1>2. Unnoted' = Unnoted
    BY DEF Unnoted
  <1>3. WhoRemoves' /\ NotYetRun' /\ PlacedWhole' /\ RanWhole'
    BY <1>1, <1>2 DEF LocalInv, WhoRemoves, NotYetRun, PlacedWhole, RanWhole
  <1>4. OneInstall'
    <2> SUFFICES ASSUME NEW i \in DOMAIN installs, installs[i] # "over"
                 PROVE  /\ task' /\ installing' = i /\ ~Deleting(PastStop \union {"stop"})'
                        /\ \A b \in Callers : does'[b] = "delete" /\ stage'[b] = "cancelling" => on'[b] = i
                        /\ installs[i] = "name" => folder'.dir = "whole"
      BY DEF OneInstall
    <2>1. /\ task /\ installing = i /\ (installs[i] = "name" => folder.dir = "whole")
          /\ \A b \in Callers : does[b] = "delete" => stage[b] \notin PastStop \union {"stop"} /\ (stage[b] = "cancelling" => on[b] = i)
      BY DEF LocalInv, OneInstall, Deleting
    <2>2. \A b \in Callers : does'[b] = "delete" => stage'[b] \notin PastStop \union {"stop"} /\ (stage'[b] = "cancelling" => on'[b] = i)
      BY <1>1, <2>1
    <2>3. ~Deleting(PastStop \union {"stop"})'
      BY <2>2 DEF Deleting
    <2> QED
      BY <2>1, <2>2, <2>3
  <1>5. OneUnnoted'
    <2> SUFFICES ASSUME NEW g \in Unnoted
                 PROVE  /\ cmd' = g /\ (srv'.starting \/ srv'.running) /\ ~Deleting({"reset"})'
                        /\ \A b \in Callers : does'[b] = "delete" /\ stage'[b] = "stopping" => on'[b] = g
      BY <1>2 DEF OneUnnoted
    <2>1. /\ cmd = g /\ (srv.starting \/ srv.running)
          /\ \A b \in Callers : does[b] = "delete" => stage[b] # "reset" /\ (stage[b] = "stopping" => on[b] = g)
      BY DEF LocalInv, OneUnnoted, Deleting
    <2>2. \A b \in Callers : does'[b] = "delete" => stage'[b] # "reset" /\ (stage'[b] = "stopping" => on'[b] = g)
      BY <1>1, <2>1
    <2> QED
      BY <2>1, <2>2 DEF Deleting
  <1> QED
    BY <1>3, <1>4, <1>5 DEF LocalInv

\* What a place is left for says what becomes of the request.
LEMMA ReachesFact ==
    ASSUME LocalInv, NEW c \in Callers, NEW p \in Places, Reaches(c, p)
    PROVE  /\ stage' = [stage EXCEPT ![c] = p] /\ stage' \in [Whoever -> Places] /\ stage'[c] = p
           /\ does' \in [Callers -> {"none", "cancel", "close", "delete"}]
           /\ does'[c] = IF p = "over" THEN "none" ELSE does[c]
           /\ \A b \in Callers \ {c} : does'[b] = does[b] /\ stage'[b] = stage[b]
  BY DEF Reaches, LocalInv, LTypes, Whoever

\* Somebody is told to stop: the server that runs, if there is one, and its end.
LEMMA StopKeeps == ASSUME LocalInv, NEW w \in Whoever, BeginStop(w) \/ EndStop(w) PROVE LocalInv'
  <1> USE DEF StepOfServer, serverVars, installVars
  <1>1. UNCHANGED <<folder, installVars, localDeaths, serverVars>> /\ srv \in [starting : BOOLEAN, running : BOOLEAN]
    BY DEF BeginStop, EndStop, LocalInv, LTypes
  <1>2. CASE w \in Starts
    <2>1. w \notin Callers /\ AfterStop(w) = "over"
      BY <1>2, LocalFacts DEF AfterStop
    <2>2. /\ \E p \in {"over", "stopping"} : stage' = [stage EXCEPT ![w] = p]
          /\ UNCHANGED does /\ DOMAIN on' = DOMAIN on /\ \A c \in Callers : on'[c] = on[c]
      BY <2>1, LocalFacts, <1>2 DEF BeginStop, EndStop, Moves, Reaches, LocalInv, LTypes, Whoever
    <2> QED
      BY <1>1, <1>2, <2>2, StartMoves DEF Places
  <1>3. CASE w \in Callers
    <2>1. AfterStop(w) \in {"reset", "over"} /\ (AfterStop(w) = "reset" => does[w] = "delete")
      BY <1>3 DEF AfterStop
    <2>2. PICK p \in {"reset", "over", "stopping"} : Reaches(w, p) /\ (p = "reset" => does[w] = "delete")
      BY <2>1 DEF BeginStop, EndStop, Moves
    <2>3. /\ stage' = [stage EXCEPT ![w] = p] /\ stage' \in [Whoever -> Places]
          /\ does' \in [Callers -> {"none", "cancel", "close", "delete"}]
          /\ does'[w] = (IF p = "over" THEN "none" ELSE does[w])
          /\ \A b \in Callers \ {w} : does'[b] = does[b]
      BY <1>3, <2>2, ReachesFact DEF Places
    <2>4. /\ DOMAIN on' = DOMAIN on /\ \A b \in Callers \ {w} : on'[b] = on[b]
      <3>1. on' = on \/ on' = [on EXCEPT ![w] = cmd] \/ on' = [on EXCEPT ![w] = 0]
        BY DEF BeginStop, EndStop
      <3>2. Callers \subseteq DOMAIN on
        BY DEF LocalInv, LTypes, Whoever
      <3> QED
        BY <3>1, <3>2
    <2>5. LTypes'
      BY <1>1, <2>3, <2>4 DEF LocalInv, LTypes, Unnoted, Launched
    <2>6. \A i \in DOMAIN installs : installs[i] # "over" => does'[w] # "delete"
      <3>1. stage[w] \in {"stop", "stopping"}
        BY DEF BeginStop, EndStop, Moves
      <3>2. does'[w] = "delete" => Deleting(PastStop \union {"stop"})
        BY <1>3, <2>3, <3>1, LocalFacts DEF Deleting
      <3> QED
        BY <3>2 DEF LocalInv, OneInstall
    <2>7. \A g \in Unnoted : does'[w] = "delete" => p # "reset" /\ (p = "stopping" => on'[w] = g)
      <3> SUFFICES ASSUME NEW g \in Unnoted, does'[w] = "delete" PROVE p # "reset" /\ (p = "stopping" => on'[w] = g)
        OBVIOUS
      <3>1. cmd = g /\ g # 0 /\ does[w] = "delete" /\ stage'[w] = p
        BY <1>3, <2>3, LocalFacts DEF LocalInv, OneUnnoted, Unnoted, LTypes, Whoever
      <3>2. CASE BeginStop(w)
        BY <3>1, <3>2 DEF BeginStop, Reaches, LocalInv, LTypes, Whoever
      <3>3. CASE EndStop(w)
        <4>1. stage[w] = "stopping" /\ on[w] \in reaped
          BY <3>3 DEF EndStop, Moves
        <4>2. on[w] = g
          BY <1>3, <3>1, <4>1 DEF LocalInv, OneUnnoted
        <4> QED
          BY <4>1, <4>2 DEF Unnoted
      <3> QED
        BY <3>2, <3>3
    <2>8. folder'.model \in {<<>>, Whole} /\ (folder'.current => folder'.dir = "whole" \/ Deleting({"removing"})')
      <3>1. stage[w] # "removing"
        BY DEF BeginStop, EndStop, Moves
      <3>2. Deleting({"removing"}) => Deleting({"removing"})'
        BY <1>3, <2>3, <3>1 DEF Deleting, LocalInv, LTypes, Whoever
      <3> QED
        BY <1>1, <3>2 DEF LocalInv, PlacedWhole
    <2>9. p \in {"reset", "remove", "removing"} => does'[w] = "delete"
      BY <2>2, <2>3
    <2>10. p \in Places
      BY DEF Places
    <2> QED
      BY <1>1, <1>3, <2>3, <2>4, <2>5, <2>6, <2>7, <2>8, <2>9, <2>10, CallerMoves
  <1> QED
    BY <1>2, <1>3 DEF Whoever

\* A request arrives, and cancels the install there is.
LEMMA CancelKeeps ==
    ASSUME LocalInv, NEW c \in Callers,
           BeginCancel(c) \/ EndCancel(c) \/ \E what \in {"cancel", "stop", "close", "delete"} : Requested(c, what)
    PROVE  LocalInv'
  <1> USE DEF serverVars, installVars
  <1>1. UNCHANGED <<folder, task, installs, installing, serverVars>>
    BY DEF BeginCancel, EndCancel, Requested
  <1>2. PICK p \in {"stop", "cancel", "cancelling", "over"} :
            /\ stage' = [stage EXCEPT ![c] = p] /\ stage' \in [Whoever -> Places] /\ stage'[c] = p
            /\ does' \in [Callers -> {"none", "cancel", "close", "delete"}]
            /\ \A b \in Callers \ {c} : does'[b] = does[b] /\ stage'[b] = stage[b]
    <2>1. CASE \E what \in {"cancel", "stop", "close", "delete"} : Requested(c, what)
      <3>1. PICK p \in {"stop", "cancel"} : stage' = [stage EXCEPT ![c] = p]
        BY <2>1 DEF Requested
      <3>2. PICK d \in {"cancel", "close", "delete"} : does' = [does EXCEPT ![c] = d]
        BY <2>1 DEF Requested
      <3>3. stage \in [Whoever -> Places] /\ does \in [Callers -> {"none", "cancel", "close", "delete"}] /\ c \in Whoever
        BY DEF LocalInv, LTypes, Whoever
      <3>4. stage' \in [Whoever -> Places] /\ stage'[c] = p /\ \A b \in Callers \ {c} : stage'[b] = stage[b]
        BY <3>1, <3>3 DEF Places, Whoever
      <3>5. does' \in [Callers -> {"none", "cancel", "close", "delete"}] /\ \A b \in Callers \ {c} : does'[b] = does[b]
        BY <3>2, <3>3
      <3> QED
        BY <3>1, <3>4, <3>5
    <2>2. CASE BeginCancel(c) \/ EndCancel(c)
      <3>1. PICK p \in {"stop", "cancelling", "over"} : Reaches(c, p)
        BY <2>2 DEF BeginCancel, EndCancel, Moves, AfterCancel
      <3> QED
        BY <3>1, ReachesFact DEF Places
    <2> QED
      BY <2>1, <2>2
  <1>3. /\ DOMAIN on' = DOMAIN on /\ (\A b \in Callers \ {c} : on'[b] = on[b])
        /\ cancelled' \subseteq cancelled \union ({installing} \ {0})
    <2>1. on' = on \/ on' = [on EXCEPT ![c] = installing] \/ on' = [on EXCEPT ![c] = 0]
      BY DEF BeginCancel, EndCancel, Requested
    <2>2. cancelled' \subseteq cancelled \union ({installing} \ {0})
      BY DEF BeginCancel, EndCancel, Requested
    <2>3. Callers \subseteq DOMAIN on
      BY DEF LocalInv, LTypes, Whoever
    <2> QED
      BY <2>1, <2>2, <2>3
  <1>4. LTypes'
    <2>1. cancelled' \subseteq DOMAIN installs
      BY <1>3 DEF LocalInv, LTypes
    <2> QED
      BY <1>1, <1>2, <1>3, <2>1 DEF LocalInv, LTypes, Unnoted, Launched
  <1>5. \A i \in DOMAIN installs : installs[i] # "over" =>
            (does'[c] = "delete" => p \notin PastStop \union {"stop"} /\ (p = "cancelling" => on'[c] = i))
    <2> SUFFICES ASSUME NEW i \in DOMAIN installs, installs[i] # "over", does'[c] = "delete"
                 PROVE  p # "stop" /\ (p = "cancelling" => on'[c] = i)
      BY DEF PastStop
    <2>1. installing = i /\ i # 0
      BY DEF LocalInv, OneInstall, LTypes
    <2>2. CASE \E what \in {"cancel", "stop", "close", "delete"} : Requested(c, what)
      BY <1>2, <2>2 DEF Requested, LocalInv, LTypes, Whoever
    <2>3. CASE BeginCancel(c)
      <3>1. Reaches(c, "cancelling") /\ on' = [on EXCEPT ![c] = installing]
        BY <2>1, <2>3 DEF BeginCancel, Moves
      <3>2. stage'[c] = "cancelling" /\ on'[c] = i
        BY <2>1, <3>1, ReachesFact DEF Places, LocalInv, LTypes, Whoever
      <3> QED
        BY <1>2, <3>2
    <2>4. CASE EndCancel(c)
      <3>1. stage[c] = "cancelling" /\ installs[on[c]] = "over" /\ Reaches(c, AfterCancel(c)) /\ AfterCancel(c) \in {"over", "stop"}
        BY <2>4 DEF EndCancel, Moves, AfterCancel
      <3>2. stage'[c] \in {"over", "stop"} /\ does[c] = "delete"
        BY <3>1, ReachesFact DEF Places
      <3>3. on[c] = i
        BY <3>1, <3>2 DEF LocalInv, OneInstall
      <3> QED
        BY <3>1, <3>3
    <2> QED
      BY <2>2, <2>3, <2>4
  <1>6. folder'.model \in {<<>>, Whole} /\ (folder'.current => folder'.dir = "whole" \/ Deleting({"removing"})')
    <2>1. stage[c] # "removing"
      BY DEF BeginCancel, EndCancel, Requested, Moves
    <2>2. Deleting({"removing"}) => Deleting({"removing"})'
      BY <1>2, <2>1 DEF Deleting
    <2> QED
      BY <1>1, <2>2 DEF LocalInv, PlacedWhole
  <1>7. p \in Places
    BY DEF Places
  <1> QED
    BY <1>1, <1>2, <1>3, <1>4, <1>5, <1>6, <1>7, CallerMoves

\* A deletion empties the folder, past what it stopped.
LEMMA DeleteKeeps ==
    ASSUME LocalInv, NEW c \in Callers, Reset(c) \/ RemoveSome(c) \/ RemoveRest(c)
    PROVE  LocalInv'
  <1> USE DEF serverVars, installVars
  <1>1. UNCHANGED <<installs, installing, cancelled, cmd, runs, servers, reaped, on>>
    BY DEF Reset, RemoveSome, RemoveRest
  <1>2. stage[c] \in {"reset", "remove", "removing"} /\ does[c] = "delete"
    BY DEF Reset, RemoveSome, RemoveRest, Moves, LocalInv, WhoRemoves
  <1>3. PICK p \in {"remove", "removing", "over"} : Reaches(c, p)
    BY DEF Reset, RemoveSome, RemoveRest, Moves
  <1>4. /\ stage' = [stage EXCEPT ![c] = p] /\ stage' \in [Whoever -> Places] /\ stage'[c] = p
        /\ does' \in [Callers -> {"none", "cancel", "close", "delete"}]
        /\ does'[c] = (IF p = "over" THEN "none" ELSE does[c])
        /\ \A b \in Callers \ {c} : does'[b] = does[b] /\ stage'[b] = stage[b]
    BY <1>3, ReachesFact DEF Places
  <1>5. \A i \in DOMAIN installs : installs[i] = "over"
    BY <1>2 DEF LocalInv, OneInstall, Deleting, PastStop
  <1>6. folder \in Folders /\ folder.model \in {<<>>, Whole}
    BY DEF LocalInv, LTypes, PlacedWhole
  <1>7. /\ folder' \in Folders /\ folder'.model \in {<<>>, Whole} /\ task' \in BOOLEAN
        /\ srv' \in [starting : BOOLEAN, running : BOOLEAN]
        /\ folder'.current => folder'.dir = "whole" \/ Deleting({"removing"})'
        /\ \A g \in Unnoted : srv' = srv
    <2>1. CASE Reset(c)
      <3>1. UNCHANGED folder /\ task' = FALSE /\ srv' = NoServer /\ stage[c] = "reset"
        BY <2>1 DEF Reset, Moves
      <3>2. Unnoted = {}
        BY <1>2, <3>1 DEF LocalInv, OneUnnoted, Deleting
      <3>3. Deleting({"removing"}) => Deleting({"removing"})'
        BY <1>4, <3>1 DEF Deleting
      <3> QED
        BY <1>6, <3>1, <3>2, <3>3 DEF NoServer, LocalInv, PlacedWhole
    <2>2. CASE RemoveSome(c)
      <3>1. stage' = [stage EXCEPT ![c] = "removing"] /\ stage'[c] = "removing" /\ does' = does /\ folder' \in LeftBehind
            /\ UNCHANGED <<task, srv>>
        BY <2>2, ReachesFact DEF RemoveSome, Moves, Reaches, Places
      <3>2. Deleting({"removing"})'
        BY <1>2, <3>1 DEF Deleting
      <3>3. folder' \in Folders /\ folder'.model \in {folder.model, <<>>}
        BY <1>6, <3>1, LocalFacts DEF LeftBehind, Folders
      <3> QED
        BY <1>6, <3>1, <3>2, <3>3 DEF LocalInv, LTypes
    <2>3. CASE RemoveRest(c)
      <3>1. folder' = EmptyFolder /\ UNCHANGED <<task, srv>>
        BY <2>3 DEF RemoveRest
      <3> QED
        BY <3>1, LocalFacts DEF EmptyFolder, Folders, LocalInv, LTypes
    <2> QED
      BY <2>1, <2>2, <2>3
  <1>8. LTypes'
    BY <1>1, <1>4, <1>7 DEF LocalInv, LTypes, Unnoted, Launched
  <1>9. p \in Places /\ p \notin {"reset", "stopping"} /\ (p \in {"reset", "remove", "removing"} => does'[c] = "delete")
    BY <1>2, <1>4 DEF Places
  <1> QED
    BY <1>1, <1>4, <1>5, <1>7, <1>8, <1>9, CallerMoves

\* The gateway dies, and no deletion with it.
LEMMA DiesKeeps == ASSUME LocalInv, LocalFaults = {}, LocalGatewayDies PROVE LocalInv'
  <1>1. /\ task' = FALSE /\ installs' = [i \in DOMAIN installs |-> "over"] /\ installing' = 0
        /\ cancelled' = {} /\ srv' = NoServer /\ cmd' = 0 /\ servers' = {} /\ reaped' = Launched
        /\ stage' = [w \in DOMAIN stage |-> IF stage[w] = "idle" THEN "idle" ELSE "over"]
        /\ does' = [c \in Callers |-> "none"] /\ on' = [w \in DOMAIN on |-> 0]
        /\ ~Deleting({"removing"}) /\ UNCHANGED <<folder, runs>>
    BY DEF LocalGatewayDies
  <1>2. Unnoted' = {} /\ Launched' = Launched
    BY <1>1 DEF Unnoted, Launched
  <1>3. installs' \in Seq(InstallPlaces) /\ Len(installs') = Len(installs) /\ \A i \in DOMAIN installs' : installs'[i] = "over"
    <2>1. installs \in Seq(InstallPlaces) /\ DOMAIN installs = 1..Len(installs) /\ Len(installs) \in Nat
      BY DEF LocalInv, LTypes
    <2>2. installs' \in [1..Len(installs) -> InstallPlaces]
      BY <1>1, <2>1 DEF InstallPlaces
    <2> QED
      BY <1>1, <2>1, <2>2
  <1>4. stage' \in [Whoever -> Places] /\ \A w \in Whoever : stage'[w] \in {"idle", "over"} /\ (stage'[w] = "idle" => stage[w] = "idle")
    BY <1>1 DEF LocalInv, LTypes, Places
  <1>5. LTypes'
    <2>1. does' \in [Callers -> {"none", "cancel", "close", "delete"}] /\ DOMAIN on' = Whoever
      BY <1>1 DEF LocalInv, LTypes
    <2>2. srv' \in [starting : BOOLEAN, running : BOOLEAN]
      BY <1>1 DEF NoServer
    <2>3. installing' \in 0..Len(installs') /\ cancelled' \subseteq DOMAIN installs'
      BY <1>1, <1>3
    <2> QED
      BY <1>1, <1>2, <1>3, <1>4, <2>1, <2>2, <2>3 DEF LocalInv, LTypes
  <1>6. WhoRemoves' /\ OneInstall' /\ OneUnnoted' /\ RanWhole'
    BY <1>2, <1>3, <1>4 DEF WhoRemoves, OneInstall, OneUnnoted, RanWhole, Whoever
  <1>7. NotYetRun' /\ PlacedWhole'
    BY <1>1, <1>4 DEF LocalInv, NotYetRun, PlacedWhole, Whoever
  <1> QED
    BY <1>5, <1>6, <1>7 DEF LocalInv

\* Every step keeps it.
LEMMA LocalInvStep == ASSUME LocalFaults = {}, LocalInv, [LocalNext]_localVars PROVE LocalInv'
  <1>1. ASSUME NEW g \in Starts, ReadStatus(g) PROVE LocalInv'
    <2>1. runs[g] = NotRun /\ srv \in [starting : BOOLEAN, running : BOOLEAN]
      BY <1>1 DEF ReadStatus, LocalInv, NotYetRun, LTypes
    <2> QED
      BY <1>1, <2>1, StartMoves DEF ReadStatus, serverVars, Places
  <1>2. DOMAIN stage = Whoever
    BY DEF LocalInv, LTypes
  <1>3. CASE UNCHANGED localVars
    <2>1. LTypes' /\ (\A places : Deleting(places)' = Deleting(places)) /\ Unnoted' = Unnoted
      BY <1>3 DEF localVars, installVars, serverVars, requestVars, LocalInv, LTypes, Unnoted, Launched, Deleting
    <2> QED
      BY <1>3, <2>1 DEF localVars, LocalInv, WhoRemoves, NotYetRun, OneInstall, PlacedWhole, OneUnnoted, RanWhole
  <1> QED
    BY <1>1, <1>2, <1>3, InstallKeeps, InstallStepKeeps, StartKeeps, ExitKeeps, HealthKeeps, StopKeeps, CancelKeeps,
       DeleteKeeps, DiesKeeps DEF LocalNext, RequestStep

\* Where no install and no start meets a deletion, and no death cuts one half-way: one server runs
\* at a time, and what runs was downloaded whole, verified and unpacked whole (Manager.Start).
THEOREM OneWholeServerRuns == ASSUME LocalFaults = {} PROVE LocalSpec => []OneWholeServer
  <1>1. LocalSpec => []LocalInv
    BY LocalInvInit, LocalInvStep, PTL DEF LocalSpec
  <1>2. LocalInv => OneWholeServer
    <2> SUFFICES ASSUME LocalInv PROVE OneWholeServer
      OBVIOUS
    <2>1. LocalTypeOK
      <3>1. \A i \in DOMAIN installs : installs[i] \in InstallPlaces
        BY DEF LocalInv, LTypes
      <3>2. servers \subseteq Launched
        BY DEF LocalInv, LTypes, Unnoted, Launched
      <3> QED
        BY <3>1, <3>2 DEF LocalInv, LTypes, LocalTypeOK, Folders, InstallPlaces, Whoever
    <2>2. OneServer /\ RunsOnlyTheWhole
      BY DEF LocalInv, LTypes, OneUnnoted, RanWhole, OneServer, RunsOnlyTheWhole
    <2> QED
      BY <2>1, <2>2 DEF OneWholeServer
  <1> QED
    BY <1>1, <1>2, PTL
=============================================================================
