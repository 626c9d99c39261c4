------------------------------ MODULE ModelCalls ------------------------------
(***************************************************************************)
(* One call of a model and its retries (llm/llm.go, retry.go): the plain   *)
(* call, the call with tools, the stream, and the streamed completion that *)
(* falls back to the plain call.  A provider fails in any of the ways the  *)
(* policy tells apart, a stream breaks off after any fragment, and the     *)
(* caller cancels.  Time is counted in units of the first backoff's share  *)
(* the jitter leaves; what is modelled of a fragment is which attempt it   *)
(* is from.                                                                *)
(***************************************************************************)
EXTENDS Naturals, FiniteSets

CONSTANTS
    MaxAttempts, BackoffInitial, BackoffMax, TransientBudget, RetryAfterMax,    \* config.LLM
    MaxRetryAfter,      \* bound: what a provider asks for in Retry-After
    MaxFragments        \* bound: fragments of a stream

ASSUME CallsAssumption ==
    /\ MaxAttempts \in Nat \ {0} /\ BackoffInitial \in Nat \ {0}
    /\ BackoffMax \in Nat /\ BackoffMax >= BackoffInitial
    /\ {TransientBudget, RetryAfterMax, MaxRetryAfter, MaxFragments} \subseteq Nat

VARIABLES
    call,       \* [kind, at, streams]: streams while what it asks for is one
    retry,      \* retryState: [attempts, wait, spent]
    forwarded,  \* fragments forwarded of this attempt's stream
    outcome,    \* "none", "answer", "fatal", "exhausted", "cancelled", "broken"
    requests,   \* history: attempts of this call so far
    paused,     \* history: time spent in pauses
    shownFrom,  \* history: attempts the caller was shown fragments of
    answeredBy  \* history: the attempt whose text is the answer

callVars == <<call, retry, forwarded, outcome, requests, paused, shownFrom, answeredBy>>

Smaller(a, b) == IF a <= b THEN a ELSE b
NewRetry      == [attempts |-> 0, wait |-> BackoffInitial, spent |-> 0]
Kinds         == {"complete", "tools", "stream", "completion"}
Streams(k)    == k \in {"stream", "completion"}

CallsInit ==
    /\ \E k \in Kinds : call = [kind |-> k, at |-> "ask", streams |-> Streams(k)]
    /\ retry = NewRetry /\ forwarded = 0 /\ outcome = "none"
    /\ requests = 0 /\ paused = 0 /\ shownFrom = {} /\ answeredBy = 0

CallGoes(at) == call' = [call EXCEPT !.at = at] /\ UNCHANGED outcome
Ends(with)   == call' = [call EXCEPT !.at = "over"] /\ outcome' = with

\* The request goes out.
AskModel ==
    /\ call.at = "ask"
    /\ CallGoes("asked") /\ requests' = requests + 1 /\ forwarded' = 0
    /\ UNCHANGED <<retry, paused, shownFrom, answeredBy>>

\* It is answered; the answer to a stream is a stream that opens.
AnswerComes ==
    /\ call.at = "asked"
    /\ IF call.streams THEN CallGoes("stream") /\ UNCHANGED answeredBy
       ELSE Ends("answer") /\ answeredBy' = requests
    /\ UNCHANGED <<retry, forwarded, requests, paused, shownFrom>>

\* The call is given up: to the caller, or, for what is left of CompleteStream, to the plain
\* call, which starts over with budgets of its own.
GiveUp(with) ==
    IF call.kind = "completion" /\ call.streams
      THEN call' = [call EXCEPT !.at = "ask", !.streams = FALSE] /\ retry' = NewRetry /\ UNCHANGED outcome
      ELSE Ends(with) /\ UNCHANGED retry

\* pause: what the provider asked for, when it is honoured, else the backoff less its jitter.
Pauses(ask) == IF RetryAfterMax > 0 /\ ask > 0 THEN {Smaller(ask, RetryAfterMax)} ELSE 1..retry.wait
Grown       == Smaller(2 * retry.wait, BackoffMax)
Waits(pause) == CallGoes("wait") /\ paused' = paused + pause

\* Mutant: the budget is looked at before the pause is counted.
AfterThePause(is, pause) ==
    CASE is = "fatal" -> GiveUp("fatal") /\ UNCHANGED paused
      [] is = "transient" /\ TransientBudget > 0 ->
           IF retry.spent > TransientBudget THEN GiveUp("exhausted") /\ UNCHANGED paused
           ELSE Waits(pause) /\ retry' = [retry EXCEPT !.spent = @ + pause, !.wait = Grown]
      [] OTHER ->
           IF retry.attempts + 1 >= MaxAttempts THEN GiveUp("exhausted") /\ UNCHANGED paused
           ELSE Waits(pause) /\ retry' = [retry EXCEPT !.attempts = @ + 1, !.wait = Grown]

\* retryState.after: two budgets, of the time paused for what is not the request's fault and
\* of attempts for the rest.
After(is, pause) ==
    CASE is = "fatal" -> GiveUp("fatal") /\ UNCHANGED paused
      [] is = "transient" /\ TransientBudget > 0 ->
           IF retry.spent + pause > TransientBudget THEN GiveUp("exhausted") /\ UNCHANGED paused
           ELSE Waits(pause) /\ retry' = [retry EXCEPT !.spent = @ + pause, !.wait = Grown]
      [] OTHER ->
           IF retry.attempts + 1 >= MaxAttempts THEN GiveUp("exhausted") /\ UNCHANGED paused
           ELSE Waits(pause) /\ retry' = [retry EXCEPT !.attempts = @ + 1, !.wait = Grown]

\* The attempt fails; only an answer of the provider carries a Retry-After.
Fails == \E is \in {"fatal", "request", "transient"}, ask \in 0..MaxRetryAfter :
             \E pause \in Pauses(ask) : After(is, pause)

AttemptFails ==
    /\ call.at = "asked" /\ Fails
    /\ UNCHANGED <<forwarded, requests, shownFrom, answeredBy>>

WaitIsOver ==
    /\ call.at = "wait" /\ CallGoes("ask")
    /\ UNCHANGED <<retry, forwarded, requests, paused, shownFrom, answeredBy>>

\* A fragment, text or thinking, reaches the caller.
Fragment ==
    /\ call.at = "stream" /\ forwarded < MaxFragments
    /\ forwarded' = forwarded + 1 /\ shownFrom' = shownFrom \union {requests}
    /\ UNCHANGED <<call, retry, outcome, requests, paused, answeredBy>>

\* The stream says it is done: it was the answer; a completion with no text in it is none.
StreamDone ==
    /\ call.at = "stream"
    /\ \/ Ends("answer") /\ answeredBy' = requests /\ UNCHANGED retry
       \/ call.kind = "completion" /\ GiveUp("empty") /\ UNCHANGED answeredBy
    /\ UNCHANGED <<forwarded, requests, paused, shownFrom>>

\* Mutant: a stream that broke off is asked for again.
StreamRetried ==
    /\ call.at = "stream" /\ Fails
    /\ UNCHANGED <<forwarded, requests, shownFrom, answeredBy>>

\* forwardStream: an error before anything was forwarded is a failed attempt; after that, it is
\* the caller's.
StreamFails ==
    /\ call.at = "stream"
    /\ IF forwarded = 0 THEN Fails ELSE GiveUp("broken") /\ UNCHANGED paused
    /\ UNCHANGED <<forwarded, requests, shownFrom, answeredBy>>

\* The caller cancels.
CancelCall ==
    /\ call.at # "over" /\ Ends("cancelled")
    /\ UNCHANGED <<retry, forwarded, requests, paused, shownFrom, answeredBy>>

CallsNext ==
    \/ AskModel \/ AnswerComes \/ AttemptFails \/ WaitIsOver
    \/ Fragment \/ StreamDone \/ StreamFails \/ CancelCall

CallsSpec == CallsInit /\ [][CallsNext]_callVars

-----------------------------------------------------------------------------
(* Properties.                                                              *)

\* Type invariant: the call, its budgets and what it came to.
CallsTypeOK ==
    /\ call.kind \in Kinds /\ call.at \in {"ask", "asked", "stream", "wait", "over"}
    /\ call.streams => Streams(call.kind)
    /\ outcome \in {"none", "answer", "fatal", "exhausted", "broken", "cancelled"}
    /\ call.at = "over" <=> outcome # "none"
    /\ retry.attempts \in 0..(MaxAttempts - 1) /\ retry.wait \in BackoffInitial..BackoffMax
    /\ retry.spent <= TransientBudget
    /\ shownFrom \subseteq 1..requests

Longest == IF BackoffMax >= RetryAfterMax THEN BackoffMax ELSE RetryAfterMax
Loops   == IF call.kind = "completion" THEN 2 ELSE 1

\* A call is over after so many requests and so much waiting, whatever mixture of failures the
\* provider answers with: the two budgets are apart, and a streamed completion has them twice.
CallIsBounded ==
    /\ requests <= Loops * (MaxAttempts + TransientBudget)
    /\ paused <= Loops * (TransientBudget + (MaxAttempts - 1) * Longest)

\* "Once something was forwarded, the stream is the caller's to its end" (forwardStream): a
\* caller is never shown fragments of two attempts, and what was streamed to it is the answer.
ShownIsTheAnswer ==
    /\ Cardinality(shownFrom) <= 1
    /\ outcome = "answer" /\ call.streams => shownFrom \subseteq {answeredBy}
=============================================================================
