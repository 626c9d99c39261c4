------------------------------ MODULE FleetFeed ------------------------------
(***************************************************************************)
(* What an interface is shown of the agents of a run (internal/agent/      *)
(* fleet.go).  Every agent changes its row under a mutex and publishes a   *)
(* snapshot, at most one per throttle interval: a change within it sets a  *)
(* timer instead, unless one is set.  A ticker publishes as well, and the  *)
(* end of the run publishes a last time.  A snapshot is taken under the    *)
(* mutex and sent outside it, under another one that keeps snapshots in    *)
(* order.                                                                  *)
(*                                                                         *)
(* The rows are the number of changes made to them.  The throttle interval *)
(* has passed or has not, as it may.                                       *)
(***************************************************************************)
EXTENDS Naturals

CONSTANTS
    Members,        \* the goroutines that change rows
    Timers,         \* bound: callbacks of the throttle timer at work at one time
    Ticker, Closer, \* the ticker's goroutine, and the one that ends the run
    MaxChanges      \* bound: changes

ASSUME FleetAssumption ==
    /\ MaxChanges \in Nat
    /\ Ticker \notin Members \union Timers /\ Closer \notin Members \union Timers \union {Ticker}
    /\ "nobody" \notin Members \union Timers \union {Ticker, Closer}

VARIABLES
    rows,       \* changes made
    shown,      \* the last snapshot the interface was sent
    timerSet, closed, stopped,  \* Fleet.timerSet, closed, stop
    emitter,    \* who holds emitMu
    fleetAt,    \* where each goroutine is
    snap        \* the snapshot each is about to send

Nobody     == "nobody"
Publishers == Members \union Timers \union {Ticker, Closer}
fleetVars  == <<rows, shown, timerSet, closed, stopped, emitter, fleetAt, snap>>

FleetInit ==
    /\ rows = 0 /\ shown = 0
    /\ timerSet = FALSE /\ closed = FALSE /\ stopped = FALSE
    /\ emitter = Nobody
    /\ fleetAt = [p \in Publishers |-> "idle"]
    /\ snap = [p \in Publishers |-> 0]

Goes(p, place) == fleetAt' = [fleetAt EXCEPT ![p] = place]

\* update: the row changes under the fleet's lock. Every agent has ended when the run closes.
ChangeRow(m) ==
    /\ fleetAt[m] = "idle" /\ fleetAt[Closer] = "idle" /\ rows < MaxChanges
    /\ rows' = rows + 1
    /\ Goes(m, "changed")
    /\ UNCHANGED <<shown, timerSet, closed, stopped, emitter, snap>>

\* Mutant: a change within the interval is dropped.
ChangedDropped(m) ==
    /\ fleetAt[m] = "changed"
    /\ \/ (closed \/ timerSet) /\ Goes(m, "idle")
       \/ ~closed /\ ~timerSet /\ Goes(m, "idle")
       \/ ~closed /\ ~timerSet /\ Goes(m, "publish")
    /\ UNCHANGED <<rows, shown, timerSet, closed, stopped, emitter, snap>>

\* changed: left to the timer that is set, or a timer of its own, or published now.
Changed(m) ==
    /\ fleetAt[m] = "changed"
    /\ \/ (closed \/ timerSet) /\ Goes(m, "idle") /\ UNCHANGED timerSet
       \/ /\ ~closed /\ ~timerSet /\ timerSet' = TRUE
          /\ \E t \in Timers : fleetAt[t] = "idle" /\ fleetAt' = [fleetAt EXCEPT ![m] = "idle", ![t] = "armed"]
       \/ ~closed /\ ~timerSet /\ Goes(m, "publish") /\ UNCHANGED timerSet
    /\ UNCHANGED <<rows, shown, closed, stopped, emitter, snap>>

TimerFiresNow(t) ==
    /\ fleetAt[t] = "armed"
    /\ timerSet' = FALSE
    /\ Goes(t, "publish")
    /\ UNCHANGED <<rows, shown, closed, stopped, emitter, snap>>

\* tick, until the stop channel is closed.
Tick ==
    /\ fleetAt[Ticker] = "idle"
    /\ IF stopped THEN fleetAt' = [fleetAt EXCEPT ![Ticker] = "gone"]
       ELSE Goes(Ticker, "publish")
    /\ UNCHANGED <<rows, shown, timerSet, closed, stopped, emitter, snap>>

\* publishNow: emitMu, then the snapshot under mu, then the sending, still under emitMu.
TakeEmit(p) ==
    /\ fleetAt[p] = "publish" /\ emitter = Nobody
    /\ emitter' = p
    /\ Goes(p, "snapshot")
    /\ UNCHANGED <<rows, shown, timerSet, closed, stopped, snap>>

AfterPublishing(p) == IF p = Closer THEN "closing" ELSE "idle"

\* Mutant: emitMu is given back with mu, before the snapshot is sent.
TakeSnapshotUnordered(p) ==
    /\ fleetAt[p] = "snapshot"
    /\ emitter' = Nobody
    /\ IF closed THEN Goes(p, AfterPublishing(p)) /\ UNCHANGED snap
       ELSE snap' = [snap EXCEPT ![p] = rows] /\ Goes(p, "emit")
    /\ UNCHANGED <<rows, shown, timerSet, closed, stopped>>

TakeSnapshot(p) ==
    /\ fleetAt[p] = "snapshot"
    /\ IF closed THEN emitter' = Nobody /\ Goes(p, AfterPublishing(p)) /\ UNCHANGED snap
       ELSE snap' = [snap EXCEPT ![p] = rows] /\ Goes(p, "emit") /\ UNCHANGED emitter
    /\ UNCHANGED <<rows, shown, timerSet, closed, stopped>>

Emit(p) ==
    /\ fleetAt[p] = "emit"
    /\ shown' = snap[p] /\ snap' = [snap EXCEPT ![p] = 0]
    /\ emitter' = Nobody
    /\ Goes(p, AfterPublishing(p))
    /\ UNCHANGED <<rows, timerSet, closed, stopped>>

\* close: the ticker is stopped and waited for, then the last snapshot, then the flag.
CloseFleet ==
    /\ fleetAt[Closer] = "idle" /\ \A m \in Members : fleetAt[m] = "idle"
    /\ stopped' = TRUE /\ Goes(Closer, "wait")
    /\ UNCHANGED <<rows, shown, timerSet, closed, emitter, snap>>

TickerStopped ==
    /\ fleetAt[Closer] = "wait" /\ fleetAt[Ticker] = "gone"
    /\ Goes(Closer, "publish")
    /\ UNCHANGED <<rows, shown, timerSet, closed, stopped, emitter, snap>>

SetClosed ==
    /\ fleetAt[Closer] = "closing"
    /\ closed' = TRUE
    /\ Goes(Closer, "gone")
    /\ UNCHANGED <<rows, shown, timerSet, stopped, emitter, snap>>

Publishing(p) == TakeEmit(p) \/ TakeSnapshot(p) \/ Emit(p)

FleetNext ==
    \/ \E m \in Members : ChangeRow(m) \/ Changed(m)
    \/ \E t \in Timers : TimerFiresNow(t)
    \/ Tick \/ CloseFleet \/ TickerStopped \/ SetClosed
    \/ \E p \in Publishers : Publishing(p)

FleetSpec == FleetInit /\ [][FleetNext]_fleetVars

\* What does not depend on an agent changing its row, on the run ending or on the ticker.
FleetStep ==
    \/ \E m \in Members : Changed(m)
    \/ \E t \in Timers : TimerFiresNow(t)
    \/ \E p \in Publishers : Publishing(p)
    \/ Tick /\ stopped
    \/ TickerStopped \/ SetClosed

\* As long as a goroutine can go on, one of them does: no more is needed, whoever gets
\* the mutex shows the same rows.
FairFleetSpec == FleetSpec /\ WF_fleetVars(FleetStep)

-----------------------------------------------------------------------------
(* Properties.                                                              *)

\* "A throttled one fired by a timer must not overtake a newer one, or an interface
\* would show the list going backwards" (emitMu).
NeverGoesBack == [][shown' >= shown]_fleetVars

\* However it is throttled, a change reaches the interface without another one having
\* to push it.
ChangeIsShown == (shown # rows) ~> (shown = rows)

-----------------------------------------------------------------------------
(* A promise of a comment the code does not keep.                           *)

\* "Nothing is published after it" (close): nobody is about to send when close returns.
NothingAfterClose == fleetAt[Closer] = "gone" => \A p \in Publishers : fleetAt[p] # "emit"
=============================================================================
