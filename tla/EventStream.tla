----------------------------- MODULE EventStream -----------------------------
(***************************************************************************)
(* What the event stream of one run promises its readers                   *)
(* (internal/gateway): events are numbered as they are emitted, and a      *)
(* reader that is given event n was given, or was excused, every event     *)
(* before it.  It is excused an event only when the gateway could not keep *)
(* it (it is older than the Keep newest ones) or when it is a question     *)
(* that has an answer.  A reader the gateway cut off has no promise left.  *)
(***************************************************************************)
EXTENDS Naturals

CONSTANTS
    Readers,    \* whoever follows the run
    Keep        \* how many events the gateway keeps to replay, a number

VARIABLES
    emitted,    \* how many events the run emitted
    answered,   \* events that are questions and have their answer
    from,       \* the last event each reader was given
    excused,    \* events each reader was told it will not get
    cut         \* readers that were cut off

vars == <<emitted, answered, from, excused, cut>>

Init ==
    /\ emitted = 0 /\ answered = {}
    /\ from = [c \in Readers |-> 0]
    /\ excused = [c \in Readers |-> {}]
    /\ cut = {}

Emit ==
    /\ emitted' = emitted + 1
    /\ UNCHANGED <<answered, from, excused>>
    /\ \E gone \in SUBSET Readers : cut' = cut \union gone

Answer ==
    /\ \E n \in 1..emitted : answered' = answered \union {n}
    /\ UNCHANGED <<emitted, from, excused, cut>>

Excuse(c) ==
    /\ \E lost \in SUBSET {n \in 1..emitted : n + Keep <= emitted \/ n \in answered} :
          excused' = [excused EXCEPT ![c] = @ \union lost]
    /\ UNCHANGED <<emitted, answered, from, cut>>

Deliver(c) ==
    /\ \E n \in (from[c] + 1)..emitted :
          /\ c \in cut \/ (from[c] + 1)..(n - 1) \subseteq excused[c]
          /\ from' = [from EXCEPT ![c] = n]
    /\ UNCHANGED <<emitted, answered, excused, cut>>

Next == Emit \/ Answer \/ \E c \in Readers : Excuse(c) \/ Deliver(c)

Spec == Init /\ [][Next]_vars
=============================================================================
