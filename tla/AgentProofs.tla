----------------------------- MODULE AgentProofs ------------------------------
(***************************************************************************)
(* The agent of internal/agent, for any tasks, budgets and numbers of      *)
(* agents: a PASS of a turn is earned (TaskRun), the agents a run started  *)
(* are bounded, gone when it is judged and leave their work behind them    *)
(* (BackgroundAgents), what is shown of them never goes back (FleetFeed),  *)
(* and what is recalled instead of read is true (WorkMemory).  The four    *)
(* share no variable.                                                      *)
(***************************************************************************)
EXTENDS TaskRun, BackgroundAgents, FleetFeed, WorkMemory,
        FiniteSetTheorems, SequenceTheorems, WellFoundedInduction, TLAPS

-----------------------------------------------------------------------------
(* A turn: its PASS is earned (TaskRun).                                    *)

\* Before its first run a turn has changed nothing and counted nothing.
Untouched ==
    /\ place \in {"analysis", "plan"} => pieces = 0 /\ piece = 0
    /\ place \in {"analysis", "plan", "enter"} => round = 0
    /\ place \in {"analysis", "plan", "enter"} /\ pieces = 0 => tree = task.tree
    /\ place \in {"decide", "act", "claim", "audit", "judge", "final"} => round > 0

\* The run of the whole, and the closing run of a goal, answer for the tree and the gate
\* the turn found.
AnswersForTheTurn ==
    /\ piece = 0 /\ pieces > 0 => task.goal
    /\ piece = 0 /\ place # "enter" =>
         found = task.tree /\ (gate = task.tree.gate \/ gate \in approved)

\* What is known of the baseline is what the anchor finds in it, or found for want of tools.
BaselineIsKnown == known = Unmeasured \/ known = Red(found) \/ (installed /\ known \subseteq {"tools"})

\* The PASS that was taken: of the gate the run answers to, and no failure is new.
Accepted == tree.gate = gate /\ Red(tree) \subseteq Red(found)
PassWasTaken ==
    /\ place = "final" => Accepted
    /\ place \in {"ended", "over"} /\ verdict = "pass" /\ piece = 0 => Accepted
    /\ place = "over" /\ verdict = "pass" /\ piece > 0 => ~task.goal \/ cancelled

\* Each budget has room where a claim can still be charged to it.
RoomLeft ==
    /\ place \notin {"ended", "over"} => rejected <= MaxRetries
    /\ place = "audit" => audits < AuditLimit /\ (failing => verify >= MaxVerify)

TurnInv ==
    /\ TurnTypeOK /\ ClaimsBounded /\ UnprovenIsChallenged
    /\ Untouched /\ AnswersForTheTurn /\ BaselineIsKnown /\ PassWasTaken /\ RoomLeft

-----------------------------------------------------------------------------
(* The agents of a run (BackgroundAgents).                                  *)

\* Subtasks side by side are over before anything else of the turn goes on.
AsideIsOver ==
    /\ mainAt \in {"aside", "merge"} => aside
    /\ aside /\ mainAt # "aside" => Started = Finished

\* What a worktree holds when it is removed was committed, or could not be.
CommittedFirst == \A i \in Ids : agentAt[i] = "remove" => work[i] # "dirty"

AgentsInv ==
    /\ AgentsAreKept /\ AsideIsOver /\ CommittedFirst
    /\ kind \in [Ids -> [branch : BOOLEAN, tier : {"none", "cheap", "strong"}]]

-----------------------------------------------------------------------------
(* What is shown of them (FleetFeed).                                       *)

\* Whoever took or sends a snapshot holds emitMu, and its snapshot is newer than what is shown.
FeedInv ==
    /\ rows \in Nat /\ shown \in Nat /\ shown <= rows
    /\ DOMAIN fleetAt = Publishers /\ snap \in [Publishers -> Nat]
    /\ \A p \in Publishers : fleetAt[p] \in {"snapshot", "emit"} => emitter = p
    /\ \A p \in Publishers : fleetAt[p] = "emit" => shown <= snap[p] /\ snap[p] <= rows

\* Nobody has published yet.
LEMMA FeedInit == FleetInit => FeedInv
BY FleetAssumption DEF FleetInit, FeedInv, Publishers

\* emitMu keeps snapshots in order: no step lets a second goroutine between the taking of
\* a snapshot and its sending.
LEMMA FeedStep == FeedInv /\ [FleetNext]_fleetVars => FeedInv' /\ shown' >= shown
<1> SUFFICES ASSUME FeedInv, [FleetNext]_fleetVars PROVE FeedInv' /\ shown' >= shown
  OBVIOUS
<1>0. /\ Ticker \in Publishers /\ Closer \in Publishers /\ Nobody \notin Publishers
      /\ \A m \in Members : m \in Publishers
      /\ \A t \in Timers : t \in Publishers
  BY FleetAssumption DEF Publishers, Nobody
<1> USE <1>0 DEF FeedInv, Goes, AfterPublishing
<1>1. ASSUME NEW m \in Members, ChangeRow(m) PROVE FeedInv' /\ shown' >= shown
  BY <1>1 DEF ChangeRow
<1>2. ASSUME NEW m \in Members, Changed(m) PROVE FeedInv' /\ shown' >= shown
  <2>1. /\ DOMAIN fleetAt' = Publishers /\ UNCHANGED <<rows, shown, emitter, snap>>
        /\ \A p \in Publishers : fleetAt'[p] \in {"snapshot", "emit"} => fleetAt[p] = fleetAt'[p]
    BY <1>2 DEF Changed
  <2> QED BY <2>1
<1>3. ASSUME NEW t \in Timers, TimerFiresNow(t) PROVE FeedInv' /\ shown' >= shown
  BY <1>3 DEF TimerFiresNow
<1>4. ASSUME Tick PROVE FeedInv' /\ shown' >= shown
  BY <1>4 DEF Tick
<1>5. ASSUME CloseFleet PROVE FeedInv' /\ shown' >= shown
  BY <1>5 DEF CloseFleet
<1>6. ASSUME TickerStopped PROVE FeedInv' /\ shown' >= shown
  BY <1>6 DEF TickerStopped
<1>7. ASSUME SetClosed PROVE FeedInv' /\ shown' >= shown
  BY <1>7 DEF SetClosed
<1>8. ASSUME NEW p \in Publishers, TakeEmit(p) PROVE FeedInv' /\ shown' >= shown
  BY <1>8 DEF TakeEmit
<1>9. ASSUME NEW p \in Publishers, TakeSnapshot(p) PROVE FeedInv' /\ shown' >= shown
  <2>1. CASE closed BY <1>9, <2>1 DEF TakeSnapshot
  <2>2. CASE ~closed BY <1>9, <2>2 DEF TakeSnapshot
  <2> QED BY <2>1, <2>2
<1>10. ASSUME NEW p \in Publishers, Emit(p) PROVE FeedInv' /\ shown' >= shown
  BY <1>10 DEF Emit
<1>11. CASE UNCHANGED fleetVars
  BY <1>11 DEF fleetVars
<1> QED BY <1>1, <1>2, <1>3, <1>4, <1>5, <1>6, <1>7, <1>8, <1>9, <1>10, <1>11 DEF FleetNext, Publishing

\* An interface never sees the list of agents go back to an older state, whatever the
\* throttle, its timers, the ticker and the end of the run do at the same time (publishNow).
THEOREM FeedNeverGoesBack == FleetSpec => NeverGoesBack
<1>1. FeedInv /\ [FleetNext]_fleetVars => [shown' >= shown]_fleetVars
  BY FeedStep
<1> QED BY <1>1, FeedInit, FeedStep, PTL DEF FleetSpec, NeverGoesBack

\* How many work at one time, when one more starts to or some stop.
LEMMA WorkingCount ==
    ASSUME Cardinality(Working) <= MaxParallel
    PROVE  /\ IsFiniteSet(Working)
           /\ Working' \subseteq Working => Cardinality(Working') <= MaxParallel
           /\ \A i \in Ids : Cardinality(Working) < MaxParallel /\ Working' \subseteq Working \union {i}
                                => Cardinality(Working') <= MaxParallel
<1>1. IsFiniteSet(Ids) /\ MaxParallel \in Nat
  BY AgentsAssumption, FS_Interval DEF Ids
<1>2. IsFiniteSet(Working) BY <1>1, FS_Subset DEF Working
<1>3. Cardinality(Working) \in Nat BY <1>2, FS_CardinalityType
<1>4. ASSUME NEW S, S \subseteq Working PROVE Cardinality(S) <= MaxParallel
  <2>1. IsFiniteSet(S) /\ Cardinality(S) <= Cardinality(Working) BY <1>2, <1>4, FS_Subset
  <2>2. Cardinality(S) \in Nat BY <2>1, FS_CardinalityType
  <2> QED BY <1>1, <1>3, <2>1, <2>2
<1>5. ASSUME NEW i \in Ids, NEW S, Cardinality(Working) < MaxParallel, S \subseteq Working \union {i}
      PROVE  Cardinality(S) <= MaxParallel
  <2>0. /\ IsFiniteSet(Working \union {i})
        /\ Cardinality(Working \union {i}) = IF i \in Working THEN Cardinality(Working) ELSE Cardinality(Working) + 1
    BY <1>2, FS_AddElement
  <2>1. IsFiniteSet(Working \union {i}) /\ Cardinality(Working \union {i}) <= Cardinality(Working) + 1
    BY <1>3, <2>0
  <2>2. IsFiniteSet(S) /\ Cardinality(S) <= Cardinality(Working \union {i}) BY <1>5, <2>1, FS_Subset
  <2>3. Cardinality(S) \in Nat /\ Cardinality(Working \union {i}) \in Nat BY <2>1, <2>2, FS_CardinalityType
  <2> QED BY <1>1, <1>3, <1>5, <2>1, <2>2, <2>3
<1>6. Working' \subseteq Working => Cardinality(Working') <= MaxParallel
  <2>1. PICK S : S = Working' OBVIOUS
  <2> QED BY <1>4, <2>1
<1>7. ASSUME NEW i \in Ids, Cardinality(Working) < MaxParallel, Working' \subseteq Working \union {i}
      PROVE  Cardinality(Working') <= MaxParallel
  <2>1. PICK S : S = Working' OBVIOUS
  <2> QED BY <1>5, <1>7, <2>1
<1> QED BY <1>2, <1>6, <1>7

\* A turn starts with no agent.
LEMMA AgentsStart == AgentsInit => AgentsInv
<1> SUFFICES ASSUME AgentsInit PROVE AgentsInv OBVIOUS
<1>1. Working = {} /\ Started = {} /\ Finished = {} BY DEF AgentsInit, Working, Started, Finished
<1>2. NeverMoreThanAllowed BY <1>1, FS_EmptySet, AgentsAssumption DEF NeverMoreThanAllowed
<1>3. AgentsTypeOK
  <2>1. /\ mainAt \in MainPlaces /\ asked \in BOOLEAN /\ seq \in 0..MaxAgents
        /\ merged \subseteq Ids /\ next \in 1..(MaxAgents + 1)
        /\ aside \in BOOLEAN /\ challenged \in BOOLEAN
        /\ want \subseteq Ids /\ waiting \subseteq Ids
        /\ timer \in {"off", "armed", "fired", "spent"}
    <3>1. MaxAgents \in Nat \ {0} /\ 1 \in 1..(MaxAgents + 1) /\ 0 \in 0..MaxAgents BY AgentsAssumption
    <3> QED BY <3>1 DEF AgentsInit, MainPlaces
  <2>2. /\ \A i \in Ids : kind[i] \in Kinds[i] \union {NoKind, AsideKind}
        /\ agentAt \in [Ids -> AgentPlaces]
        /\ cut \in [Ids -> BOOLEAN] /\ outcome \in [Ids -> {"none", "passed", "failed", "cancelled"}]
        /\ work \in [Ids -> {"clean", "dirty", "unkept", "lost"}]
    BY DEF AgentsInit, AgentPlaces
  <2>3. \A i \in Ids : agentAt[i] = "none" <=> i > seq BY AgentsAssumption DEF AgentsInit, Ids
  <2> QED BY <2>1, <2>2, <2>3 DEF AgentsTypeOK
<1>4. NothingRunsBehind /\ WorkSurvives BY <1>1 DEF AgentsInit, NothingRunsBehind, WorkSurvives
<1>5. AsideIsOver /\ CommittedFirst BY DEF AgentsInit, AsideIsOver, CommittedFirst
<1>6. kind \in [Ids -> [branch : BOOLEAN, tier : {"none", "cheap", "strong"}]] BY DEF AgentsInit, NoKind
<1> QED BY <1>2, <1>3, <1>4, <1>5, <1>6 DEF AgentsInv, AgentsAreKept

\* No step of the main agent or of a background one breaks what the run is promised.
LEMMA AgentsKeep == AgentsInv /\ [AgentsNext]_agentVars => AgentsInv'
<1> SUFFICES ASSUME AgentsInv, [AgentsNext]_agentVars PROVE AgentsInv'
  OBVIOUS
<1> DEFINE Kind == [branch : BOOLEAN, tier : {"none", "cheap", "strong"}]
<1>0. /\ MaxAgents \in Nat \ {0} /\ MaxParallel \in Nat \ {0} /\ Ids = 1..MaxAgents
      /\ \A i \in Ids : Kinds[i] \subseteq Kind
      /\ NoKind \in Kind /\ AsideKind \in Kind
  BY AgentsAssumption DEF Ids, NoKind, AsideKind
<1>a. AgentsTypeOK /\ kind \in [Ids -> Kind] BY DEF AgentsInv, AgentsAreKept
<1> USE DEF AgentsInv, AgentsAreKept, child, wait, side
\* What a step that moves no agent has to show.
<1>b. ASSUME UNCHANGED <<seq, kind, agentAt, outcome, work, aside, merged, next>>, AgentsTypeOK',
             mainAt' \in {"weigh", "merge", "over"} => mainAt' = mainAt \/ Started = Finished,
             mainAt' \in {"aside", "merge"} => aside,
             aside /\ mainAt' # "aside" => mainAt # "aside" \/ Started = Finished
      PROVE  AgentsInv'
  <2>1. Started' = Started /\ Finished' = Finished /\ Working' = Working
    BY <1>b DEF Started, Finished, Working
  <2>2. NothingRunsBehind' BY <1>b, <2>1 DEF NothingRunsBehind
  <2>3. NeverMoreThanAllowed' BY <2>1 DEF NeverMoreThanAllowed
  <2>4. WorkSurvives' /\ CommittedFirst' BY <1>b DEF WorkSurvives, CommittedFirst
  <2>5. AsideIsOver' BY <1>b, <2>1 DEF AsideIsOver
  <2> QED BY <1>b, <2>2, <2>3, <2>4, <2>5
\* What a step of one agent that does not start it has to show.
<1>c. ASSUME NEW i \in Ids, agentAt[i] \notin {"none", "done", "read"}, agentAt'[i] # "none",
             \A j \in Ids : j # i => agentAt'[j] = agentAt[j] /\ work'[j] = work[j],
             UNCHANGED <<mainAt, seq, aside>>, AgentsTypeOK', kind' = kind,
             Working' \subseteq Working \/ (Cardinality(Working) < MaxParallel /\ Working' \subseteq Working \union {i}),
             work'[i] # "lost", agentAt'[i] = "remove" => work'[i] # "dirty"
      PROVE  AgentsInv'
  <2>1. i \in Started \ Finished BY <1>c DEF Started, Finished
  <2>2. mainAt \notin {"weigh", "merge", "over"} /\ ~(aside /\ mainAt # "aside")
    BY <2>1 DEF NothingRunsBehind, AsideIsOver
  <2>3. NothingRunsBehind' BY <1>c, <2>2 DEF NothingRunsBehind
  <2>4. NeverMoreThanAllowed' BY <1>c, WorkingCount DEF NeverMoreThanAllowed
  <2>5. WorkSurvives' /\ CommittedFirst' BY <1>c DEF WorkSurvives, CommittedFirst
  <2>6. AsideIsOver' BY <1>c, <2>2 DEF AsideIsOver
  <2> QED BY <1>c, <2>3, <2>4, <2>5, <2>6
\* What a step has to show that only reads reports.
<1>d. ASSUME NEW of, TakeReports(of), UNCHANGED <<kind, work, seq, aside, merged, next, cut, asked,
                                                  challenged>>,
             mainAt \in {"wait", "round"}, mainAt' \in {"round", "claim", "end"},
             want' \subseteq Ids, waiting' \subseteq Ids, timer' \in {"off", "armed", "fired", "spent"}
      PROVE  AgentsInv'
  <2>1. \A i \in Ids : agentAt'[i] = agentAt[i] \/ (agentAt[i] = "done" /\ agentAt'[i] = "read")
    BY <1>d DEF TakeReports
  <2>2. Started' = Started /\ Finished' = Finished /\ Working' = Working
    BY <2>1 DEF Started, Finished, Working
  <2>3. AgentsTypeOK'
    <3>1. agentAt' \in [Ids -> AgentPlaces] BY <1>a, <1>d DEF TakeReports, AgentsTypeOK, AgentPlaces
    <3>2. outcome' \in [Ids -> {"none", "passed", "failed", "cancelled"}] BY <1>a, <1>d DEF TakeReports, AgentsTypeOK
    <3>3. \A i \in Ids : agentAt'[i] = "none" <=> i > seq' BY <1>a, <1>d, <2>1 DEF AgentsTypeOK
    <3> QED BY <1>a, <1>d, <3>1, <3>2, <3>3 DEF AgentsTypeOK, MainPlaces
  <2>4. NothingRunsBehind' BY <1>d DEF NothingRunsBehind
  <2>5. NeverMoreThanAllowed' BY <2>2 DEF NeverMoreThanAllowed
  <2>6. WorkSurvives' /\ CommittedFirst' BY <1>d, <2>1 DEF WorkSurvives, CommittedFirst
  <2>7. AsideIsOver' BY <1>d, <2>2 DEF AsideIsOver
  <2> QED BY <1>d, <2>3, <2>4, <2>5, <2>6, <2>7
<1> HIDE DEF AgentsInv
\* The steps of the main agent that move no other.
<1>1. CASE CancelAll
  <2>1. AgentsTypeOK' BY <1>1, <1>a DEF CancelAll, AgentsTypeOK
  <2>2. aside /\ mainAt # "aside" => Started = Finished BY DEF AgentsInv, AsideIsOver
  <2> QED BY <1>1, <1>b, <2>1, <2>2 DEF CancelAll, AgentsInv, AsideIsOver
<1>2. CASE Wait
  <2>1. /\ mainAt = "round" /\ mainAt' = "wait" /\ timer' = "armed"
        /\ UNCHANGED <<asked, seq, kind, agentAt, cut, outcome, work, aside, merged, next, challenged>>
    BY <1>2 DEF Wait
  <2>2. want' \subseteq Ids /\ waiting' \subseteq Ids BY <1>2 DEF Wait, Started
  <2>3. AgentsTypeOK' BY <1>a, <2>1, <2>2 DEF AgentsTypeOK, MainPlaces
  <2> QED BY <1>b, <2>1, <2>3
<1>3. CASE WaitOne
  <2>1. /\ UNCHANGED <<mainAt, asked, seq, kind, agentAt, cut, outcome, work, aside, merged, next,
                       challenged, want>>
        /\ timer' \in {timer, "spent"} /\ waiting' \subseteq waiting /\ mainAt = "wait"
    BY <1>3 DEF WaitOne
  <2>2. AgentsTypeOK' BY <1>a, <2>1 DEF AgentsTypeOK
  <2> QED BY <1>b, <2>1, <2>2
<1>4. CASE TimerFires
  <2>1. AgentsTypeOK' BY <1>a, <1>4 DEF TimerFires, AgentsTypeOK
  <2>2. aside /\ mainAt # "aside" => Started = Finished BY DEF AgentsInv, AsideIsOver
  <2> QED BY <1>4, <1>b, <2>1, <2>2 DEF TimerFires, AgentsInv, AsideIsOver
<1>5. CASE Hold
  <2>1. /\ mainAt = "claim" /\ mainAt' \in {"weigh", "round", "stop"} /\ challenged' \in BOOLEAN
        /\ UNCHANGED <<asked, seq, kind, agentAt, outcome, work, aside, merged, next, want, waiting, timer>>
    BY <1>5, <1>a DEF Hold, AgentsTypeOK
  <2>2. cut' \in [Ids -> BOOLEAN] BY <1>5, <1>a DEF Hold, AgentsTypeOK
  <2>3. AgentsTypeOK' BY <1>a, <2>1, <2>2 DEF AgentsTypeOK, MainPlaces
  <2>4. Finished \subseteq Started BY DEF Finished, Started
  <2>5. aside => Started = Finished BY <2>1 DEF AgentsInv, AsideIsOver
  <2>6. mainAt' = "weigh" => Started = Finished BY <1>5, <2>4, <2>5 DEF Hold
  <2> QED BY <1>b, <2>1, <2>3, <2>5, <2>6
<1>6. CASE Stopped
  <2>1. AgentsTypeOK' BY <1>a, <1>6 DEF Stopped, AgentsTypeOK, MainPlaces
  <2> QED BY <1>6, <1>b, <2>1 DEF Stopped
<1>7. CASE Weigh
  <2>1. AgentsTypeOK' BY <1>a, <1>7 DEF Weigh, AgentsTypeOK, MainPlaces
  <2> QED BY <1>7, <1>b, <2>1 DEF Weigh
<1>8. CASE EndFleet
  <2>1. cut' \in [Ids -> BOOLEAN] BY <1>8, <1>a DEF EndFleet, AgentsTypeOK
  <2>2. AgentsTypeOK' BY <1>a, <1>8, <2>1 DEF EndFleet, AgentsTypeOK, MainPlaces
  <2> QED BY <1>8, <1>b, <2>2 DEF EndFleet
<1>9. CASE Leave
  <2>1. AgentsTypeOK' BY <1>a, <1>9 DEF Leave, AgentsTypeOK, MainPlaces
  <2> QED BY <1>9, <1>b, <2>1 DEF Leave
<1>10. CASE AllAside
  <2>1. AgentsTypeOK' BY <1>a, <1>10 DEF AllAside, AgentsTypeOK, MainPlaces
  <2> QED BY <1>10, <1>b, <2>1 DEF AllAside, AgentsInv, AsideIsOver
\* The split into subtasks side by side, and their merges.
<1>11. CASE SplitAside
  <2>0. /\ mainAt = "round" /\ seq = 0 /\ aside' = TRUE /\ mainAt' = "aside"
        /\ UNCHANGED <<asked, seq, kind, agentAt, cut, outcome, work, merged, next, challenged, want,
                       waiting, timer>>
    BY <1>11 DEF SplitAside
  <2>1. AgentsTypeOK' BY <1>a, <2>0 DEF AgentsTypeOK, MainPlaces
  <2>2. NothingRunsBehind' /\ AsideIsOver' BY <2>0 DEF NothingRunsBehind, AsideIsOver
  <2>3. NeverMoreThanAllowed' BY <2>0 DEF AgentsInv, NeverMoreThanAllowed, Working
  <2>4. WorkSurvives' /\ CommittedFirst' BY <2>0 DEF AgentsInv, WorkSurvives, CommittedFirst
  <2> QED BY <1>a, <2>0, <2>1, <2>2, <2>3, <2>4 DEF AgentsInv
<1>12. CASE MergeNext
  <2>0. /\ mainAt = "merge" /\ mainAt' \in {"merge", "round", "end"}
        /\ UNCHANGED <<asked, seq, kind, agentAt, cut, outcome, work, aside, challenged, want, waiting, timer>>
    BY <1>12 DEF MergeNext
  <2>1. merged' \subseteq Ids /\ next' \in 1..(MaxAgents + 1)
    <3>0. merged \subseteq Ids /\ next \in 1..(MaxAgents + 1) BY <1>a DEF AgentsTypeOK
    <3>1. CASE next <= MaxAgents
      <4>1. next \in Ids /\ next + 1 \in 1..(MaxAgents + 1) BY <1>0, <3>0, <3>1
      <4>2. next' = next + 1 /\ merged' \subseteq merged \union {next} BY <1>12, <3>1 DEF MergeNext
      <4> QED BY <3>0, <4>1, <4>2
    <3>2. CASE ~(next <= MaxAgents) BY <1>12, <3>0, <3>2 DEF MergeNext
    <3> QED BY <3>1, <3>2
  <2>2. AgentsTypeOK' BY <1>a, <2>0, <2>1 DEF AgentsTypeOK, MainPlaces
  <2>3. Started' = Started /\ Finished' = Finished /\ Working' = Working BY <2>0 DEF Started, Finished, Working
  <2>4. NothingRunsBehind' /\ AsideIsOver' BY <2>0, <2>3 DEF AgentsInv, NothingRunsBehind, AsideIsOver
  <2>5. NeverMoreThanAllowed' BY <2>3 DEF AgentsInv, NeverMoreThanAllowed
  <2>6. WorkSurvives' /\ CommittedFirst' BY <2>0 DEF AgentsInv, WorkSurvives, CommittedFirst
  <2> QED BY <1>a, <2>0, <2>2, <2>4, <2>5, <2>6 DEF AgentsInv
\* The reports the main agent reads.
<1>13. CASE WaitOver
  <2>1. PICK of : of = IF want = {} THEN Ids ELSE want OBVIOUS
  <2>2. TakeReports(of) BY <1>13, <2>1 DEF WaitOver
  <2> QED BY <1>13, <1>a, <1>d, <2>2 DEF WaitOver, AgentsTypeOK
<1>14. CASE RoundOver
  <2>1. PICK of : of = IF aside THEN {} ELSE Ids OBVIOUS
  <2>2. TakeReports(of) BY <1>14, <2>1 DEF RoundOver
  <2> QED BY <1>14, <1>a, <1>d, <2>2 DEF RoundOver, AgentsTypeOK
\* An agent that starts, or is placed to start.
<1>15. CASE Spawn
  <2>0. /\ mainAt = "round" /\ ~aside /\ seq < MaxAgents /\ Cardinality(Working) < MaxParallel
        /\ seq' = seq + 1 /\ agentAt' = [agentAt EXCEPT ![seq + 1] = "run"]
        /\ UNCHANGED <<mainAt, asked, cut, outcome, work, aside, merged, next, challenged, want, waiting,
                       timer>>
    BY <1>15 DEF Spawn
  <2>1. seq + 1 \in Ids /\ seq \in Nat /\ agentAt \in [Ids -> AgentPlaces] BY <1>0, <1>a, <2>0 DEF AgentsTypeOK
  <2>2. PICK k \in Kinds[seq + 1] : kind' = [kind EXCEPT ![seq + 1] = k] BY <1>15 DEF Spawn
  <2>3. k \in Kind BY <1>0, <2>1, <2>2
  <2>4. kind' \in [Ids -> Kind] /\ \A i \in Ids : kind'[i] \in Kinds[i] \union {NoKind, AsideKind}
    BY <1>a, <2>1, <2>2, <2>3 DEF AgentsTypeOK
  <2>5. agentAt' \in [Ids -> AgentPlaces] BY <2>0, <2>1 DEF AgentPlaces
  <2>6. \A i \in Ids : agentAt'[i] = "none" <=> i > seq'
    <3>1. \A i \in Ids : i \in Nat /\ (agentAt[i] = "none" <=> i > seq) BY <1>0, <1>a DEF AgentsTypeOK
    <3>2. \A i \in Ids : i # seq + 1 => (i > seq <=> i > seq') BY <2>0, <2>1, <3>1
    <3>3. \A i \in Ids : i # seq + 1 => agentAt'[i] = agentAt[i] BY <2>0, <2>1
    <3>4. agentAt'[seq + 1] = "run" /\ ~(seq + 1 > seq') BY <2>0, <2>1
    <3> QED BY <3>1, <3>2, <3>3, <3>4
  <2>7. seq' \in 0..MaxAgents BY <1>0, <2>0, <2>1
  <2>8. AgentsTypeOK' BY <1>a, <2>0, <2>4, <2>5, <2>6, <2>7 DEF AgentsTypeOK
  <2>9. Working' \subseteq Working \union {seq + 1} BY <2>0, <2>1 DEF Working
  <2>10. NeverMoreThanAllowed' BY <2>0, <2>1, <2>9, WorkingCount DEF AgentsInv, NeverMoreThanAllowed
  <2>11. NothingRunsBehind' /\ AsideIsOver' BY <2>0 DEF NothingRunsBehind, AsideIsOver
  <2>12. WorkSurvives' /\ CommittedFirst' BY <2>0, <2>1 DEF AgentsInv, WorkSurvives, CommittedFirst
  <2> QED BY <2>4, <2>8, <2>10, <2>11, <2>12 DEF AgentsInv
<1>16. CASE PlaceAside
  <2>0. /\ mainAt = "aside" /\ aside /\ seq < MaxAgents /\ seq' = seq + 1
        /\ UNCHANGED <<mainAt, asked, cut, work, aside, merged, next, challenged, want, waiting, timer>>
    BY <1>16 DEF PlaceAside, AgentsInv, AsideIsOver
  <2>1. seq + 1 \in Ids /\ seq \in Nat /\ agentAt \in [Ids -> AgentPlaces] BY <1>0, <1>a, <2>0 DEF AgentsTypeOK
  <2>2. PICK at \in {"queued", "done"} : agentAt' = [agentAt EXCEPT ![seq + 1] = at] BY <1>16 DEF PlaceAside
  <2>3. kind' \in [Ids -> Kind] /\ \A i \in Ids : kind'[i] \in Kinds[i] \union {NoKind, AsideKind}
    <3>1. kind' = kind \/ kind' = [kind EXCEPT ![seq + 1] = AsideKind] BY <1>16 DEF PlaceAside
    <3>2. \A i \in Ids : kind[i] \in Kinds[i] \union {NoKind, AsideKind} BY <1>a DEF AgentsTypeOK
    <3>3. CASE kind' = kind BY <1>a, <3>2, <3>3
    <3>4. CASE kind' = [kind EXCEPT ![seq + 1] = AsideKind]
      <4>1. \A i \in Ids : kind'[i] = kind[i] \/ kind'[i] = AsideKind BY <1>a, <2>1, <3>4
      <4> QED BY <1>0, <1>a, <2>1, <3>2, <3>4, <4>1
    <3> QED BY <3>1, <3>3, <3>4
  <2>4. outcome' \in [Ids -> {"none", "passed", "failed", "cancelled"}]
    <3>1. outcome' = outcome \/ outcome' = [outcome EXCEPT ![seq + 1] = "failed"] BY <1>16 DEF PlaceAside
    <3> QED BY <1>a, <2>1, <3>1 DEF AgentsTypeOK
  <2>5. agentAt' \in [Ids -> AgentPlaces] BY <2>1, <2>2 DEF AgentPlaces
  <2>6. \A i \in Ids : agentAt'[i] = "none" <=> i > seq'
    <3>1. \A i \in Ids : i \in Nat /\ (agentAt[i] = "none" <=> i > seq) BY <1>0, <1>a DEF AgentsTypeOK
    <3>2. \A i \in Ids : i # seq + 1 => (i > seq <=> i > seq') BY <2>0, <2>1, <3>1
    <3>3. \A i \in Ids : i # seq + 1 => agentAt'[i] = agentAt[i] BY <2>1, <2>2
    <3>4. agentAt'[seq + 1] # "none" /\ ~(seq + 1 > seq') BY <2>0, <2>1, <2>2
    <3> QED BY <3>1, <3>2, <3>3, <3>4
  <2>7. seq' \in 0..MaxAgents BY <1>0, <2>0, <2>1
  <2>8. AgentsTypeOK' BY <1>a, <2>0, <2>3, <2>4, <2>5, <2>6, <2>7 DEF AgentsTypeOK
  <2>9. Working' \subseteq Working BY <2>1, <2>2 DEF Working
  <2>10. NeverMoreThanAllowed' BY <2>9, WorkingCount DEF AgentsInv, NeverMoreThanAllowed
  <2>11. NothingRunsBehind' /\ AsideIsOver' BY <2>0 DEF NothingRunsBehind, AsideIsOver
  <2>12. WorkSurvives' /\ CommittedFirst' BY <2>0, <2>1, <2>2 DEF AgentsInv, WorkSurvives, CommittedFirst
  <2> QED BY <2>3, <2>8, <2>10, <2>11, <2>12 DEF AgentsInv
\* The steps of a background agent.
<1>17. CASE \E i \in Ids : AgentStep(i)
  <2> SUFFICES ASSUME NEW i \in Ids, AgentStep(i) PROVE AgentsInv' BY <1>17
  <2>0. /\ agentAt \in [Ids -> AgentPlaces] /\ work \in [Ids -> {"clean", "dirty", "unkept", "lost"}]
        /\ outcome \in [Ids -> {"none", "passed", "failed", "cancelled"}] /\ cut \in [Ids -> BOOLEAN]
        /\ work[i] # "lost" /\ (agentAt[i] = "remove" => work[i] # "dirty")
    BY <1>a DEF AgentsTypeOK, AgentsInv, WorkSurvives, CommittedFirst
  <2>1. /\ agentAt[i] \notin {"none", "done", "read"}
        /\ UNCHANGED <<mainAt, asked, seq, kind, aside, merged, next, challenged, want, waiting, timer>>
    BY DEF AgentStep, TakeSlotAside, Works, AttemptEnds, KeepWork, RemovePlace, QueueReport
  \* It is enough to look at what the step leaves of this agent.
  <2>2. ASSUME NEW at \in AgentPlaces \ {"none"}, agentAt' = [agentAt EXCEPT ![i] = at],
               NEW w \in {"clean", "dirty", "unkept"}, work' = [work EXCEPT ![i] = w],
               outcome' \in [Ids -> {"none", "passed", "failed", "cancelled"}], cut' \in [Ids -> BOOLEAN],
               at = "remove" => w # "dirty",
               agentAt[i] = "queued" /\ at \notin {"queued", "done", "read"} => Cardinality(Working) < MaxParallel
        PROVE  AgentsInv'
    <3>1. agentAt' \in [Ids -> AgentPlaces] /\ agentAt'[i] = at /\ \A j \in Ids : j # i => agentAt'[j] = agentAt[j]
      BY <2>0, <2>2
    <3>2. /\ work' \in [Ids -> {"clean", "dirty", "unkept", "lost"}] /\ work'[i] = w
          /\ \A j \in Ids : j # i => work'[j] = work[j]
      BY <2>0, <2>2
    <3>3. \A j \in Ids : agentAt'[j] = "none" <=> j > seq'
      <4>1. \A j \in Ids : agentAt'[j] = "none" <=> agentAt[j] = "none" BY <2>1, <2>2, <3>1
      <4>2. \A j \in Ids : agentAt[j] = "none" <=> j > seq BY <1>a DEF AgentsTypeOK
      <4> QED BY <2>1, <4>1, <4>2
    <3>4. AgentsTypeOK' BY <1>a, <2>1, <2>2, <3>1, <3>2, <3>3 DEF AgentsTypeOK
    <3>5. Working' \subseteq Working \union {i} BY <3>1 DEF Working
    <3>6. agentAt[i] # "queued" => i \in Working BY <2>1 DEF Working
    <3>7. agentAt[i] = "queued" /\ at \in {"queued", "done", "read"} => i \notin Working' BY <3>1 DEF Working
    <3>8. Working' \subseteq Working \/ Cardinality(Working) < MaxParallel BY <2>2, <3>5, <3>6, <3>7
    <3> QED BY <1>c, <2>1, <2>2, <3>1, <3>2, <3>4, <3>5, <3>8
  <2>3. CASE TakeSlotAside(i)
    <3>1. work' = [work EXCEPT ![i] = work[i]] BY <2>0, <2>3 DEF TakeSlotAside
    <3> QED BY <2>0, <2>2, <2>3, <3>1 DEF TakeSlotAside, AgentPlaces
  <2>4. CASE Works(i)
    <3>1. agentAt' = [agentAt EXCEPT ![i] = agentAt[i]] BY <2>0, <2>4 DEF Works
    <3>2. PICK w \in {"clean", "dirty"} : work' = [work EXCEPT ![i] = w] BY <2>4 DEF Works
    <3> QED BY <2>0, <2>2, <2>4, <3>1, <3>2 DEF Works
  <2>5. CASE AttemptEnds(i)
    <3>1. work' = [work EXCEPT ![i] = work[i]] BY <2>0, <2>5 DEF AttemptEnds
    <3>2. PICK at \in {"strong", "commit"} : agentAt' = [agentAt EXCEPT ![i] = at] BY <2>5 DEF AttemptEnds
    <3>3. outcome' \in [Ids -> {"none", "passed", "failed", "cancelled"}]
      <4>1. outcome' = outcome \/ \E o \in {"passed", "failed", "cancelled"} : outcome' = [outcome EXCEPT ![i] = o]
        BY <2>5 DEF AttemptEnds
      <4> QED BY <2>0, <4>1
    <3>4. agentAt[i] # "queued" /\ cut' = cut BY <2>5 DEF AttemptEnds
    <3> QED BY <2>0, <2>2, <3>1, <3>2, <3>3, <3>4 DEF AgentPlaces
  <2>6. CASE KeepWork(i)
    <3>1. PICK w \in {"clean", "unkept"} : work' = [work EXCEPT ![i] = w] BY <2>6 DEF KeepWork
    <3> QED BY <2>0, <2>2, <2>6, <3>1 DEF KeepWork, AgentPlaces
  <2>7. CASE RemovePlace(i)
    <3>1. work' = [work EXCEPT ![i] = work[i]] /\ work[i] # "dirty" BY <2>0, <2>7 DEF RemovePlace
    <3> QED BY <2>0, <2>2, <2>7, <3>1 DEF RemovePlace, AgentPlaces
  <2>8. CASE QueueReport(i)
    <3>1. work' = [work EXCEPT ![i] = work[i]] BY <2>0, <2>8 DEF QueueReport
    <3>2. cut' \in [Ids -> BOOLEAN] BY <2>0, <2>8 DEF QueueReport
    <3> QED BY <2>0, <2>2, <2>8, <3>1, <3>2 DEF QueueReport, AgentPlaces
  <2> QED BY <2>3, <2>4, <2>5, <2>6, <2>7, <2>8 DEF AgentStep
<1>18. CASE UNCHANGED agentVars
  <2>1. UNCHANGED <<mainAt, asked, seq, kind, agentAt, cut, outcome, work, aside, merged, next, challenged,
                    want, waiting, timer>>
    BY <1>18 DEF agentVars
  <2>2. AgentsTypeOK' BY <1>a, <2>1 DEF AgentsTypeOK
  <2>3. aside /\ mainAt # "aside" => Started = Finished BY DEF AgentsInv, AsideIsOver
  <2> QED BY <1>b, <2>1, <2>2, <2>3 DEF AgentsInv, AsideIsOver
<1> QED
  BY <1>1, <1>2, <1>3, <1>4, <1>5, <1>6, <1>7, <1>8, <1>9, <1>10, <1>11, <1>12, <1>13, <1>14,
     <1>15, <1>16, <1>17, <1>18 DEF AgentsNext, MainStep

\* The agents of a run are bounded in number, none is left running while the run is judged,
\* while branches are merged or once it is over, and none loses the work it left
\* uncommitted (subagents.go, parallel.go).
THEOREM AgentsKept == AgentsSpec => []AgentsAreKept
<1>1. AgentsInv => AgentsAreKept BY DEF AgentsInv
<1> QED BY <1>1, AgentsStart, AgentsKeep, PTL DEF AgentsSpec

-----------------------------------------------------------------------------
\* A turn starts as it is handed over.
LEMMA TurnStarts == TurnInit => TurnInv
<1> SUFFICES ASSUME TurnInit PROVE TurnInv OBVIOUS
<1>1. /\ task \in [goal : BOOLEAN, criteria : BOOLEAN, tree : Trees, installed : BOOLEAN, pieces : Nat, typed : Nat]
      /\ AuditLimit \in Nat /\ MaxRetries \in Nat /\ MaxTooling \in Nat /\ MaxVerify \in Nat /\ SubtaskRetries \in Nat
      /\ tree.gate \in Gates
  BY TurnAssumption DEF TurnInit, AuditLimit
<1>2. known \in SUBSET UNION ({{"tools"}, Unmeasured} \union {t.fails : t \in Trees})
  <2>1. known = Unmeasured BY DEF TurnInit
  <2> QED BY <2>1 DEF Unmeasured
<1>3. TurnTypeOK
  <2>1. /\ task \in Tasks /\ pieces \in 0..task.pieces /\ piece \in 0..pieces /\ attempt \in 0..SubtaskRetries
        /\ place \in TurnPlaces /\ verdict \in Outcomes
    BY <1>1 DEF TurnInit, TurnPlaces, Outcomes
  <2>2. tree \in Trees /\ installed \in BOOLEAN /\ found \in Trees /\ lastTree \in Trees /\ gate \in Gates
    BY <1>1 DEF TurnInit
  <2>3. /\ round \in Nat /\ rejected \in Nat /\ unusable \in Nat /\ repeats \in Nat
        /\ readOnly \in Nat /\ unbacked \in 0..1 /\ verify \in Nat /\ audits \in Nat
        /\ audited \in BOOLEAN /\ tooling \in Nat /\ failing \in BOOLEAN /\ runErr \in BOOLEAN
        /\ typed \in Nat /\ unread \in Nat /\ cancelled \in BOOLEAN /\ claims \in Nat
    <3>1. /\ round = 0 /\ rejected = 0 /\ unusable = 0 /\ repeats = 0 /\ readOnly = 0
          /\ unbacked = 0 /\ verify = 0 /\ audits = 0 /\ tooling = 0 /\ typed = 0 /\ unread = 0 /\ claims = 0
      BY DEF TurnInit
    <3>2. audited = FALSE /\ failing = FALSE /\ runErr = FALSE /\ cancelled = FALSE BY DEF TurnInit
    <3>3. /\ round \in Nat /\ rejected \in Nat /\ unusable \in Nat /\ repeats \in Nat
          /\ readOnly \in Nat /\ unbacked \in 0..1 /\ verify \in Nat /\ audits \in Nat
          /\ tooling \in Nat /\ typed \in Nat /\ unread \in Nat /\ claims \in Nat
      BY <3>1
    <3>4. audited \in BOOLEAN /\ failing \in BOOLEAN /\ runErr \in BOOLEAN /\ cancelled \in BOOLEAN BY <3>2
    <3> QED BY <3>3, <3>4
  <2> QED BY <1>2, <2>1, <2>2, <2>3 DEF TurnTypeOK
<1>4. ClaimsBounded BY <1>1 DEF TurnInit, ClaimsBounded
<1> QED
  BY <1>1, <1>3, <1>4 DEF TurnInit, TurnInv, UnprovenIsChallenged, Untouched, AnswersForTheTurn, BaselineIsKnown,
     PassWasTaken, RoomLeft

\* What a tree shows under the gate it came with, once the tools are there.
LEMMA RedOnceInstalled ==
    ASSUME NEW t \in Trees
    PROVE  /\ Red(t) \in SUBSET UNION ({{"tools"}, Unmeasured} \union {s.fails : s \in Trees})
           /\ installed => "tools" \notin Red(t)
           /\ ~installed => Red(t) \subseteq {"tools"}
BY TurnAssumption DEF Red

\* No step of the turn takes a PASS that was not earned, or charges a claim twice.
LEMMA TurnKeeps == TurnInv /\ [TurnNext]_turnVars => TurnInv'
<1> SUFFICES ASSUME TurnInv, [TurnNext]_turnVars PROVE TurnInv' OBVIOUS
<1>0. /\ MaxRetries \in Nat /\ MaxTooling \in Nat /\ MaxVerify \in Nat /\ SubtaskRetries \in Nat
      /\ MaxAudits \in Nat /\ GoalAudits \in Nat
      /\ Tasks \subseteq [goal : BOOLEAN, criteria : BOOLEAN, tree : Trees, installed : BOOLEAN, pieces : Nat, typed : Nat]
      /\ \A t \in Trees : t.gate \in Gates
  BY TurnAssumption
<1>a. TurnTypeOK /\ ClaimsBounded /\ RoomLeft BY DEF TurnInv
<1>b. AuditLimit \in Nat /\ task.tree \in Trees /\ task.pieces \in Nat /\ task.goal \in BOOLEAN /\ pieces \in Nat /\ piece \in Nat
  BY <1>0, <1>a DEF TurnTypeOK, AuditLimit
\* What a step of a round has to show, whatever it does to the work.
<1>c. ASSUME UNCHANGED <<task, pieces, piece, found, gate, approved>>,
             place \notin {"analysis", "plan", "enter"},
             place' \in {"next", "decide", "act", "claim", "audit", "judge", "ended"},
             place' = "ended" => verdict' = "fail",
             place' \notin {"next", "ended"} => round' > 0
      PROVE  Untouched' /\ AnswersForTheTurn' /\ PassWasTaken'
  <2>1. AnswersForTheTurn BY DEF TurnInv
  <2> QED BY <1>c, <2>1 DEF Untouched, AnswersForTheTurn, PassWasTaken
\* The baseline stands while neither the tools nor what is known of it change.
<1>d. ASSUME UNCHANGED <<found, known, installed>> PROVE BaselineIsKnown'
  <2>1. BaselineIsKnown BY DEF TurnInv
  <2> QED BY <1>d, <2>1 DEF BaselineIsKnown, Red
\* It stands too when the tools were installed meanwhile.
<1>e. ASSUME UNCHANGED <<found, known>>, installed' \in {installed, TRUE} PROVE BaselineIsKnown'
  <2>1. BaselineIsKnown /\ found \in Trees /\ installed \in BOOLEAN BY <1>a DEF TurnInv, TurnTypeOK
  <2>2. CASE installed' = installed BY <1>d, <1>e, <2>2
  <2>3. CASE ~installed /\ installed' = TRUE
    <3>1. known = Unmeasured \/ known = Red(found) BY <2>1, <2>3 DEF BaselineIsKnown
    <3>2. known = Unmeasured \/ known \subseteq {"tools"} BY <2>1, <2>3, <3>1, RedOnceInstalled
    <3> QED BY <1>e, <2>3, <3>2 DEF BaselineIsKnown
  <2> QED BY <1>e, <2>1, <2>2, <2>3
<1> HIDE DEF TurnInv
\* The steps of the person, and those before the work.
<1>1. CASE Steer
  <2>0. /\ typed' = typed + 1 /\ unread' = unread + 1
        /\ UNCHANGED <<task, pieces, piece, attempt, tally, lastTree, found, gate, known, cancelled, tree,
                       installed, place, verdict, approved>>
    BY <1>1 DEF Steer, turn, counters, measure, machine
  <2>1. TurnTypeOK' BY <1>a, <2>0 DEF TurnTypeOK, tally
  <2>2. ClaimsBounded' /\ UnprovenIsChallenged' /\ RoomLeft' /\ Untouched'
    BY <2>0 DEF TurnInv, ClaimsBounded, UnprovenIsChallenged, RoomLeft, Untouched, AuditLimit, tally
  <2>3. AnswersForTheTurn' /\ BaselineIsKnown' /\ PassWasTaken'
    BY <2>0 DEF TurnInv, AnswersForTheTurn, BaselineIsKnown, PassWasTaken, Accepted, Red
  <2> QED BY <2>1, <2>2, <2>3 DEF TurnInv
<1>2. CASE CancelTurn
  <2>0. /\ cancelled' = TRUE
        /\ UNCHANGED <<task, pieces, piece, attempt, tally, lastTree, found, gate, known, typed, unread,
                       tree, installed, place, verdict, approved>>
    BY <1>2 DEF CancelTurn, turn, counters, measure, machine
  <2>1. TurnTypeOK' BY <1>a, <2>0 DEF TurnTypeOK, tally
  <2>2. ClaimsBounded' /\ UnprovenIsChallenged' /\ RoomLeft' /\ Untouched'
    BY <2>0 DEF TurnInv, ClaimsBounded, UnprovenIsChallenged, RoomLeft, Untouched, AuditLimit, tally
  <2>3. AnswersForTheTurn' /\ BaselineIsKnown' /\ PassWasTaken'
    BY <2>0 DEF TurnInv, AnswersForTheTurn, BaselineIsKnown, PassWasTaken, Accepted, Red
  <2> QED BY <2>1, <2>2, <2>3 DEF TurnInv
<1>3. CASE UNCHANGED turnVars
  <2>0. UNCHANGED <<task, pieces, piece, attempt, tally, lastTree, found, gate, known, typed, unread,
                    cancelled, tree, installed, place, verdict, approved>>
    BY <1>3 DEF turnVars, turn, counters, measure, machine, person
  <2>1. TurnTypeOK' BY <1>a, <2>0 DEF TurnTypeOK, tally
  <2>2. ClaimsBounded' /\ UnprovenIsChallenged' /\ RoomLeft' /\ Untouched'
    BY <2>0 DEF TurnInv, ClaimsBounded, UnprovenIsChallenged, RoomLeft, Untouched, AuditLimit, tally
  <2>3. AnswersForTheTurn' /\ BaselineIsKnown' /\ PassWasTaken'
    BY <2>0 DEF TurnInv, AnswersForTheTurn, BaselineIsKnown, PassWasTaken, Accepted, Red
  <2> QED BY <2>1, <2>2, <2>3 DEF TurnInv
<1>4. CASE AnswerOrAsk
  <2>0. /\ place = "analysis" /\ place' \in {"plan", "over"} /\ verdict' \in {verdict, "answered", "asked", "fail"}
        /\ place' = "over" => verdict' # "pass"
        /\ UNCHANGED <<task, pieces, piece, attempt, tally, lastTree, found, gate, known, typed, unread,
                       cancelled, tree, installed, approved>>
    BY <1>4 DEF AnswerOrAsk, turn, counters, measure, machine, person
  <2>1. TurnTypeOK' BY <1>a, <2>0 DEF TurnTypeOK, tally, TurnPlaces, Outcomes
  <2>2. ClaimsBounded' BY <1>a, <2>0 DEF ClaimsBounded, AuditLimit, tally
  <2>3. UnprovenIsChallenged' /\ RoomLeft' /\ Untouched'
    BY <2>0 DEF TurnInv, UnprovenIsChallenged, RoomLeft, Untouched, tally
  <2>4. AnswersForTheTurn' /\ PassWasTaken' BY <2>0 DEF TurnInv, AnswersForTheTurn, PassWasTaken
  <2> QED BY <1>d, <2>0, <2>1, <2>2, <2>3, <2>4 DEF TurnInv
<1>5. CASE PlanTask
  <2>0. /\ place = "plan" /\ place' = "enter"
        /\ UNCHANGED <<task, attempt, tally, lastTree, found, gate, known, typed, unread, cancelled, tree,
                       installed, verdict, approved>>
    BY <1>5 DEF PlanTask, counters, measure, machine, person
  <2>1. PICK n \in 0..task.pieces : pieces' = n /\ piece' = IF n > 0 THEN 1 ELSE 0 BY <1>5 DEF PlanTask
  <2>2. pieces' \in 0..task.pieces /\ piece' \in 0..pieces' /\ (piece' = 0 => pieces' = 0)
    BY <1>b, <2>1
  <2>3. TurnTypeOK' BY <1>a, <2>0, <2>2 DEF TurnTypeOK, tally, TurnPlaces
  <2>4. ClaimsBounded' BY <1>a, <2>0 DEF ClaimsBounded, AuditLimit, tally
  <2>5. UnprovenIsChallenged' /\ RoomLeft' /\ PassWasTaken'
    BY <2>0 DEF TurnInv, UnprovenIsChallenged, RoomLeft, PassWasTaken, tally
  <2>6. Untouched' /\ AnswersForTheTurn'
    BY <1>b, <2>0, <2>2 DEF TurnInv, Untouched, AnswersForTheTurn, tally
  <2> QED BY <1>d, <2>0, <2>3, <2>4, <2>5, <2>6 DEF TurnInv
<1>6. CASE RunAside
  <2>0. /\ place = "plan" /\ place' = "ended" /\ verdict' \in {"pass", "fail"} /\ tree' \in Trees
        /\ pieces' = task.pieces /\ piece' = task.pieces /\ task.pieces > 1 /\ attempt' = SubtaskRetries
        /\ UNCHANGED <<task, tally, lastTree, found, gate, known, typed, unread, cancelled, installed,
                       approved>>
    BY <1>6 DEF RunAside, counters, measure, person
  <2>1. pieces' \in 0..task.pieces /\ piece' \in 0..pieces' /\ piece' # 0 /\ attempt' \in 0..SubtaskRetries
    BY <1>0, <1>b, <2>0
  <2>2. TurnTypeOK' BY <1>a, <2>0, <2>1 DEF TurnTypeOK, tally, TurnPlaces, Outcomes
  <2>3. round = 0 BY <2>0 DEF TurnInv, Untouched
  <2>4. ClaimsBounded' BY <1>a, <2>0, <2>3 DEF ClaimsBounded, AuditLimit, tally
  <2>5. /\ UnprovenIsChallenged' /\ RoomLeft' /\ PassWasTaken' /\ Untouched' /\ AnswersForTheTurn'
    BY <2>0, <2>1 DEF UnprovenIsChallenged, RoomLeft, PassWasTaken, Untouched, AnswersForTheTurn
  <2> QED BY <1>d, <2>0, <2>2, <2>4, <2>5 DEF TurnInv
<1>7. CASE Enter
  <2>0. /\ place = "enter" /\ place' = "next" /\ verdict' = "none" /\ known' = Unmeasured
        /\ UNCHANGED <<task, pieces, piece, attempt, tally, typed, unread, cancelled, tree, installed,
                       approved>>
    BY <1>7 DEF Enter, turn, machine, person
  <2>1. PICK t \in {tree, task.tree} :
             /\ found' = t /\ gate' = t.gate /\ lastTree' = t
             /\ task.goal /\ pieces > 0 /\ piece = 0 => t = task.tree
    BY <1>7 DEF Enter
  <2>2. t \in Trees /\ tree \in Trees BY <1>a, <1>b, <2>1 DEF TurnTypeOK
  <2>3. known' \in SUBSET UNION ({{"tools"}, Unmeasured} \union {s.fails : s \in Trees}) BY <2>0 DEF Unmeasured
  <2>4. TurnTypeOK' BY <1>0, <1>a, <2>0, <2>1, <2>2, <2>3 DEF TurnTypeOK, tally, TurnPlaces, Outcomes
  <2>5. ClaimsBounded' BY <1>a, <2>0 DEF ClaimsBounded, AuditLimit, tally
  <2>6. piece = 0 => t = task.tree BY <1>b, <2>0, <2>1 DEF TurnInv, AnswersForTheTurn, Untouched
  <2>7. AnswersForTheTurn' BY <2>0, <2>1, <2>6 DEF TurnInv, AnswersForTheTurn
  <2>8. /\ UnprovenIsChallenged' /\ RoomLeft' /\ PassWasTaken' /\ Untouched' /\ BaselineIsKnown'
    BY <2>0 DEF TurnInv, UnprovenIsChallenged, RoomLeft, PassWasTaken, Untouched, BaselineIsKnown, tally
  <2> QED BY <2>4, <2>5, <2>7, <2>8 DEF TurnInv
\* The rounds of a run.
<1>8. CASE NextRound
  <2>0. /\ place = "next" /\ place' \in {"decide", "ended"} /\ (place' = "ended" => verdict' = "fail")
        /\ verdict' \in {verdict, "fail"} /\ round' \in {round, round + 1} /\ (place' = "decide" => round' = round + 1)
        /\ unread' \in {unread, 0}
        /\ UNCHANGED <<task, pieces, piece, attempt, found, gate, known, typed, cancelled, tree, installed,
                       approved, rejected, unusable,
                       repeats, readOnly, unbacked, verify, audits, audited, tooling, lastTree, failing, runErr, claims>>
    BY <1>8 DEF NextRound, EndRunWith, turn, measure, machine
  <2>1. round \in Nat BY <1>a DEF TurnTypeOK
  <2>2. TurnTypeOK' BY <1>a, <2>0 DEF TurnTypeOK, TurnPlaces, Outcomes
  <2>3. ClaimsBounded' BY <1>a, <2>0 DEF ClaimsBounded, AuditLimit
  <2>4. UnprovenIsChallenged' /\ RoomLeft' BY <1>a, <2>0 DEF UnprovenIsChallenged, RoomLeft
  <2> QED BY <1>c, <1>d, <2>0, <2>1, <2>2, <2>3, <2>4 DEF TurnInv
<1>9. CASE UnusableReply
  <2>0. /\ place = "decide" /\ place' \in {"next", "ended"} /\ (place' = "ended" => verdict' = "fail")
        /\ verdict' \in {verdict, "fail"} /\ unusable' = unusable + 1
        /\ UNCHANGED <<task, pieces, piece, attempt, found, gate, known, typed, unread, cancelled, tree,
                       installed, approved, round, rejected,
                       repeats, readOnly, unbacked, verify, audits, audited, tooling, lastTree, failing, runErr, claims>>
    BY <1>9 DEF UnusableReply, EndRunWith, turn, measure, machine, person
  <2>2. TurnTypeOK' BY <1>a, <2>0 DEF TurnTypeOK, TurnPlaces, Outcomes
  <2>3. ClaimsBounded' BY <1>a, <2>0 DEF ClaimsBounded, AuditLimit
  <2>4. UnprovenIsChallenged' /\ RoomLeft' BY <1>a, <2>0 DEF UnprovenIsChallenged, RoomLeft
  <2> QED BY <1>c, <1>d, <2>0, <2>2, <2>3, <2>4 DEF TurnInv
<1>10. CASE Decide
  <2>0. /\ place = "decide" /\ place' \in {"next", "act", "ended"} /\ (place' = "ended" => verdict' = "fail")
        /\ verdict' \in {verdict, "fail"} /\ unusable' \in {unusable, 0}
        /\ UNCHANGED <<task, pieces, piece, attempt, found, gate, known, typed, unread, cancelled, tree,
                       installed, approved, round, rejected,
                       repeats, readOnly, unbacked, verify, audits, audited, tooling, lastTree, failing, runErr, claims>>
    BY <1>10 DEF Decide, EndRunWith, turn, measure, machine, person
  <2>1. round' > 0 BY <2>0 DEF TurnInv, Untouched
  <2>2. TurnTypeOK' BY <1>a, <2>0 DEF TurnTypeOK, TurnPlaces, Outcomes
  <2>3. ClaimsBounded' BY <1>a, <2>0 DEF ClaimsBounded, AuditLimit
  <2>4. UnprovenIsChallenged' /\ RoomLeft' BY <1>a, <2>0 DEF UnprovenIsChallenged, RoomLeft
  <2> QED BY <1>c, <1>d, <2>0, <2>1, <2>2, <2>3, <2>4 DEF TurnInv
<1>11. CASE ProgressRound
  <2>0. /\ place = "act" /\ place' \in {"next", "ended"} /\ (place' = "ended" => verdict' = "fail")
        /\ verdict' \in {verdict, "fail"} /\ tree' \in Trees /\ installed' \in {installed, TRUE} /\ failing' \in BOOLEAN
        /\ repeats' \in {repeats + 1, 0} /\ readOnly' \in {readOnly, readOnly + 1, 0} /\ lastTree' \in {lastTree, tree'}
        /\ UNCHANGED <<task, pieces, piece, attempt, found, gate, known, typed, unread, cancelled, approved,
                       round, rejected,
                       unusable, unbacked, verify, audits, audited, tooling, runErr, claims>>
    BY <1>11 DEF ProgressRound, RoundRuns, EndRunWith, turn, measure, person
  <2>2. TurnTypeOK'
    <3>1. lastTree' \in Trees /\ installed' \in BOOLEAN BY <1>a, <2>0 DEF TurnTypeOK
    <3>2. repeats' \in Nat /\ readOnly' \in Nat BY <1>a, <2>0 DEF TurnTypeOK
    <3> QED BY <1>a, <2>0, <3>1, <3>2 DEF TurnTypeOK, TurnPlaces, Outcomes
  <2>3. ClaimsBounded' BY <1>a, <2>0 DEF ClaimsBounded, AuditLimit
  <2>4. UnprovenIsChallenged' /\ RoomLeft' BY <1>a, <2>0 DEF UnprovenIsChallenged, RoomLeft
  <2> QED BY <1>c, <1>e, <2>0, <2>2, <2>3, <2>4 DEF TurnInv
<1>12. CASE ClaimRound
  <2>0. /\ place = "act" /\ place' = "claim" /\ tree' \in Trees /\ installed' \in {installed, TRUE}
        /\ failing' \in BOOLEAN /\ runErr' \in BOOLEAN /\ repeats' = 0 /\ claims' = claims + 1
        /\ UNCHANGED <<task, pieces, piece, attempt, found, gate, known, typed, unread, cancelled, verdict,
                       approved, round, rejected,
                       unusable, readOnly, unbacked, verify, audits, audited, tooling, lastTree>>
    BY <1>12 DEF ClaimRound, RoundRuns, turn, measure, person
  <2>1. round' > 0 BY <2>0 DEF TurnInv, Untouched
  <2>2. TurnTypeOK'
    <3>0. installed \in BOOLEAN /\ claims \in Nat BY <1>a DEF TurnTypeOK
    <3>1. installed' \in BOOLEAN BY <2>0, <3>0
    <3>2. claims' \in Nat BY <2>0, <3>0
    <3> QED BY <1>a, <2>0, <3>1, <3>2 DEF TurnTypeOK, TurnPlaces
  <2>3. ClaimsBounded'
    <3>0. /\ rejected \in Nat /\ tooling \in Nat /\ unbacked \in Nat /\ verify \in Nat /\ audits \in Nat
      BY <1>a DEF TurnTypeOK
    <3>1. claims = rejected + tooling + unbacked + verify + audits BY <1>a, <2>0, <3>0 DEF ClaimsBounded
    <3> QED BY <1>a, <2>0, <3>1 DEF ClaimsBounded, TurnTypeOK, AuditLimit
  <2>4. UnprovenIsChallenged' /\ RoomLeft' BY <1>a, <2>0 DEF UnprovenIsChallenged, RoomLeft
  <2> QED BY <1>c, <1>e, <2>0, <2>1, <2>2, <2>3, <2>4 DEF TurnInv
\* A claim of done: what it is sent back for.
<1>13. CASE ChallengeUnchanged
  <2>0. /\ place = "claim" /\ place' = "next" /\ unbacked = 0 /\ unbacked' = 1
        /\ UNCHANGED <<task, pieces, piece, attempt, found, gate, known, typed, unread, cancelled, tree,
                       installed, verdict, approved, round, rejected,
                       unusable, repeats, readOnly, verify, audits, audited, tooling, lastTree, failing, runErr, claims>>
    BY <1>13 DEF ChallengeUnchanged, Unbacked, turn, measure, person, machine
  <2>2. TurnTypeOK' BY <1>a, <2>0 DEF TurnTypeOK, TurnPlaces
  <2>3. ClaimsBounded' BY <1>a, <2>0 DEF ClaimsBounded, TurnTypeOK, AuditLimit
  <2>4. UnprovenIsChallenged' /\ RoomLeft' BY <1>a, <2>0 DEF UnprovenIsChallenged, RoomLeft
  <2> QED BY <1>c, <1>d, <2>0, <2>2, <2>3, <2>4 DEF TurnInv
<1>14. CASE ChallengeFailing
  <2>0. /\ place = "claim" /\ place' = "next" /\ verify < MaxVerify /\ verify' = verify + 1
        /\ UNCHANGED <<task, pieces, piece, attempt, found, gate, known, typed, unread, cancelled, tree,
                       installed, verdict, approved, round, rejected,
                       unusable, repeats, readOnly, unbacked, audits, audited, tooling, lastTree, failing, runErr, claims>>
    BY <1>14 DEF ChallengeFailing, turn, measure, person, machine
  <2>2. TurnTypeOK' BY <1>a, <2>0 DEF TurnTypeOK, TurnPlaces
  <2>3. ClaimsBounded' BY <1>0, <1>a, <2>0 DEF ClaimsBounded, TurnTypeOK, AuditLimit
  <2>4. UnprovenIsChallenged' /\ RoomLeft' BY <1>a, <2>0 DEF UnprovenIsChallenged, RoomLeft
  <2> QED BY <1>c, <1>d, <2>0, <2>2, <2>3, <2>4 DEF TurnInv
<1>15. CASE Weighed
  <2>0. /\ place = "claim" /\ (failing => verify >= MaxVerify) /\ place' = IF AuditDue THEN "audit" ELSE "judge"
        /\ UNCHANGED <<task, pieces, piece, attempt, found, gate, known, typed, unread, cancelled, tree,
                       installed, verdict, approved, round, rejected,
                       unusable, repeats, readOnly, unbacked, verify, audits, audited, tooling, lastTree, failing, runErr, claims>>
    BY <1>15, <1>a DEF Weighed, turn, measure, person, machine, counters, tally, TurnTypeOK
  <2>1. round' > 0 /\ place' \in {"audit", "judge"} BY <2>0 DEF TurnInv, Untouched
  <2>2. TurnTypeOK' BY <1>a, <2>0, <2>1 DEF TurnTypeOK, TurnPlaces
  <2>3. ClaimsBounded' BY <1>a, <2>0, <2>1 DEF ClaimsBounded, AuditLimit
  <2>4. UnprovenIsChallenged'
    <3>1. place' = "judge" => ~AuditDue BY <2>0
    <3>2. audits \in Nat /\ task.criteria \in BOOLEAN BY <1>0, <1>a DEF TurnTypeOK
    <3> QED BY <1>b, <2>0, <2>1, <3>1, <3>2 DEF AuditDue, UnprovenIsChallenged, AuditLimit
  <2>5. RoomLeft'
    <3>1. place' = "audit" => audits < AuditLimit BY <2>0 DEF AuditDue
    <3> QED BY <1>a, <2>0, <3>1 DEF RoomLeft, AuditLimit
  <2> QED BY <1>c, <1>d, <2>0, <2>1, <2>2, <2>3, <2>4, <2>5 DEF TurnInv
<1>16. CASE Audit
  <2>0. /\ place = "audit"
        /\ \/ audited' = TRUE /\ place' = "judge" /\ audits' = audits
           \/ audits' = audits + 1 /\ place' = "next" /\ audited' = audited
        /\ UNCHANGED <<task, pieces, piece, attempt, found, gate, known, typed, unread, cancelled, tree,
                       installed, verdict, approved, round, rejected,
                       unusable, repeats, readOnly, unbacked, verify, tooling, lastTree, failing, runErr, claims>>
    BY <1>16 DEF Audit, turn, measure, person, machine
  <2>1. round' > 0 /\ place' \in {"judge", "next"} BY <2>0 DEF TurnInv, Untouched
  <2>2. TurnTypeOK'
    <3>0. audits \in Nat /\ audited \in BOOLEAN BY <1>a DEF TurnTypeOK
    <3>1. audits' \in {audits, audits + 1} BY <2>0
    <3>2. audited' = audited \/ audited' = TRUE BY <2>0
    <3>3. audits' \in Nat BY <3>0, <3>1
    <3>4. audited' \in BOOLEAN BY <3>0, <3>2
    <3> QED BY <1>a, <2>0, <2>1, <3>3, <3>4 DEF TurnTypeOK, TurnPlaces
  <2>3. audits < AuditLimit /\ AuditLimit' = AuditLimit /\ (failing => verify >= MaxVerify)
    BY <1>a, <2>0 DEF RoomLeft, AuditLimit
  <2>4. ClaimsBounded' BY <1>a, <1>b, <2>0, <2>3 DEF ClaimsBounded, TurnTypeOK
  <2>5. UnprovenIsChallenged' /\ RoomLeft' BY <1>a, <2>0, <2>3 DEF UnprovenIsChallenged, RoomLeft
  <2> QED BY <1>c, <1>d, <2>0, <2>1, <2>2, <2>4, <2>5 DEF TurnInv
\* A claim of done: the word of the anchor, and the final action.
<1>17. CASE Judge
  <2> DEFINE green == Red(tree) = {} \/ Excused(known')
             spared == Red(tree) = {"tools"} /\ tooling < MaxTooling
  <2>0. /\ place = "judge"
        /\ UNCHANGED <<task, pieces, piece, attempt, found, typed, unread, cancelled, tree, installed, round,
                       unusable, repeats, readOnly,
                       unbacked, verify, audits, audited, lastTree, failing, runErr, claims>>
    BY <1>17 DEF Judge, turn, person, machine
  <2>1. known' \in {known, Red(found)} BY <1>17 DEF Judge
  <2>2. PICK yes \in BOOLEAN :
          /\ gate' = IF green /\ tree.gate # gate /\ yes THEN tree.gate ELSE gate
          /\ approved' = IF green /\ tree.gate # gate /\ yes THEN approved \union {tree.gate} ELSE approved
          /\ IF green /\ (tree.gate # gate => yes) /\ ~runErr
               THEN place' = "final" /\ UNCHANGED <<rejected, tooling, verdict>>
               ELSE RejectClaim
    BY <1>17 DEF Judge
  <2> HIDE DEF green
  <2>3. tree \in Trees /\ found \in Trees /\ gate \in Gates /\ rejected \in Nat /\ tooling \in Nat
    BY <1>a DEF TurnTypeOK
  \* The claim is taken, and ends the run, or charged to a budget of its own.
  <2>4. \/ place' = "final" /\ green /\ gate' = tree.gate /\ UNCHANGED <<rejected, tooling, verdict>>
        \/ /\ place' \in {"next", "ended"} /\ (place' = "ended" => verdict' = "fail") /\ verdict' \in {verdict, "fail"}
           /\ \/ spared /\ tooling' = tooling + 1 /\ rejected' = rejected /\ place' = "next"
              \/ ~spared /\ tooling' = tooling /\ rejected' = rejected + 1 /\ (place' = "next" => rejected + 1 <= MaxRetries)
    <3>1. CASE green /\ (tree.gate # gate => yes) /\ ~runErr BY <2>2, <3>1
    <3>2. CASE ~(green /\ (tree.gate # gate => yes) /\ ~runErr)
      <4>1. RejectClaim BY <2>2, <3>2
      <4> QED BY <1>0, <2>3, <4>1 DEF RejectClaim, EndRunWith
    <3> QED BY <3>1, <3>2
  <2> HIDE DEF spared
  <2>5. round' > 0 /\ place' \in {"final", "next", "ended"} /\ rejected <= MaxRetries /\ tooling <= MaxTooling
    BY <1>a, <2>0, <2>4 DEF TurnInv, Untouched, RoomLeft, ClaimsBounded
  <2>6. TurnTypeOK'
    <3>1. known' \in SUBSET UNION ({{"tools"}, Unmeasured} \union {t.fails : t \in Trees})
      BY <1>a, <2>1, <2>3, RedOnceInstalled DEF TurnTypeOK
    <3>2. gate' \in Gates BY <1>0, <2>2, <2>3
    <3>3. rejected' \in Nat /\ tooling' \in Nat BY <2>3, <2>4
    <3>4. place' \in TurnPlaces BY <2>5 DEF TurnPlaces
    <3>5. verdict' \in Outcomes BY <1>a, <2>4 DEF TurnTypeOK, Outcomes
    <3> QED BY <1>a, <2>0, <3>1, <3>2, <3>3, <3>4, <3>5 DEF TurnTypeOK
  <2>7. ClaimsBounded'
    <3>1. /\ claims = rejected + tooling + unbacked + verify + audits + 1
          /\ unbacked \in Nat /\ verify \in Nat /\ audits \in Nat /\ claims \in Nat
          /\ rejected <= MaxRetries + 1 /\ tooling <= MaxTooling /\ unbacked <= 1 /\ verify <= MaxVerify /\ audits <= AuditLimit
      BY <1>a, <2>0 DEF ClaimsBounded, TurnTypeOK
    <3>2. AuditLimit' = AuditLimit BY <2>0 DEF AuditLimit
    <3>3. CASE place' = "final"
      <4>1. UNCHANGED <<rejected, tooling>> BY <2>4, <3>3
      <4> QED BY <2>0, <3>1, <3>2, <3>3, <4>1 DEF ClaimsBounded
    <3>4. CASE place' # "final"
      <4>1. (rejected' = rejected /\ tooling' = tooling + 1 /\ tooling < MaxTooling)
            \/ (rejected' = rejected + 1 /\ tooling' = tooling)
        BY <2>4, <3>4 DEF spared
      <4>2. claims = rejected' + tooling' + unbacked + verify + audits BY <2>3, <3>1, <4>1
      <4>3. rejected' <= MaxRetries + 1 /\ tooling' <= MaxTooling BY <1>0, <2>3, <2>5, <4>1
      <4>4. place' \in {"next", "ended"} /\ (place' = "ended" => verdict' = "fail") BY <2>4, <3>4
      <4>5. rejected' \in Nat /\ tooling' \in Nat BY <2>3, <4>1
      <4>6. UNCHANGED <<claims, unbacked, verify, audits, round>> BY <2>0
      <4>7. (IF \/ place' \in {"claim", "audit", "judge", "final"}
                \/ place' = "ended" /\ verdict' = "pass" /\ round' > 0 THEN 1 ELSE 0) = 0
        BY <4>4
      <4>8. unbacked' <= 1 /\ verify' <= MaxVerify /\ audits' <= AuditLimit' BY <3>1, <3>2, <4>6
      <4>9. claims' = rejected' + tooling' + unbacked' + verify' + audits' + 0 BY <3>1, <4>2, <4>5, <4>6
      <4> QED BY <4>3, <4>7, <4>8, <4>9 DEF ClaimsBounded
    <3> QED BY <3>3, <3>4
  <2>8. UnprovenIsChallenged' BY <2>0 DEF TurnInv, UnprovenIsChallenged, AuditLimit
  <2>9. Untouched' BY <2>5 DEF Untouched
  <2>10. AnswersForTheTurn'
    <3>1. (gate' = gate /\ approved' = approved) \/ gate' \in approved' BY <2>2
    <3> QED BY <2>0, <2>5, <3>1 DEF TurnInv, AnswersForTheTurn
  <2>11. BaselineIsKnown' BY <2>0, <2>1 DEF TurnInv, BaselineIsKnown, Red
  <2>12. PassWasTaken'
    <3>1. CASE place' = "final"
      <4>1. green /\ gate' = tree.gate BY <2>4, <3>1
      <4>2. Red(tree) \subseteq Red(found)
        <5>1. CASE Red(tree) = {} BY <5>1
        <5>2. CASE Excused(known') /\ known' = Red(found) BY <5>2 DEF Excused
        <5>3. CASE Excused(known') /\ known' # Red(found)
          <6>1. PICK k : k = known' OBVIOUS
          <6>2. k # Unmeasured /\ Red(tree) \subseteq k BY <5>3, <6>1 DEF Excused
          <6>3. k = known /\ known # Red(found) BY <2>1, <5>3, <6>1
          <6>4. installed /\ k \subseteq {"tools"} BY <6>2, <6>3 DEF TurnInv, BaselineIsKnown
          <6>5. "tools" \notin Red(tree) BY <2>3, <6>4, RedOnceInstalled
          <6> QED BY <6>2, <6>4, <6>5
        <5> QED BY <4>1, <5>1, <5>2, <5>3 DEF green
      <4>3. Red(tree)' = Red(tree) /\ Red(found)' = Red(found) BY <2>0 DEF Red
      <4> QED BY <2>0, <3>1, <4>1, <4>2, <4>3 DEF PassWasTaken, Accepted
    <3>2. CASE place' # "final" BY <2>4, <3>2 DEF PassWasTaken
    <3> QED BY <3>1, <3>2
  <2>13. RoomLeft'
    <3>1. place' \in {"final", "next"} => rejected' <= MaxRetries BY <2>3, <2>4, <2>5
    <3> QED BY <2>5, <3>1 DEF RoomLeft
  <2> QED BY <2>6, <2>7, <2>8, <2>9, <2>10, <2>11, <2>12, <2>13 DEF TurnInv
<1>18. CASE Final
  <2>0. /\ place = "final"
        /\ \/ place' = "ended" /\ verdict' = "pass" /\ rejected' = rejected
           \/ /\ rejected' = rejected + 1 /\ place' \in {"next", "ended"} /\ (place' = "ended" => verdict' = "fail")
              /\ verdict' \in {verdict, "fail"} /\ (place' = "next" => ~(rejected + 1 > MaxRetries))
        /\ UNCHANGED <<task, pieces, piece, attempt, found, gate, known, typed, unread, cancelled, tree,
                       installed, approved, round, unusable, repeats,
                       readOnly, unbacked, verify, audits, audited, tooling, lastTree, failing, runErr, claims>>
    BY <1>18 DEF Final, EndRunWith, turn, measure, person, machine
  <2>1. round > 0 /\ place' \in {"next", "ended"} /\ rejected \in Nat /\ rejected <= MaxRetries
    BY <1>a, <2>0 DEF TurnInv, Untouched, RoomLeft, TurnTypeOK
  <2>2. TurnTypeOK'
    <3>1. rejected' \in Nat BY <2>0, <2>1
    <3>2. verdict' \in Outcomes BY <1>a, <2>0 DEF TurnTypeOK, Outcomes
    <3> QED BY <1>a, <2>0, <2>1, <3>1, <3>2 DEF TurnTypeOK, TurnPlaces
  <2>3. ClaimsBounded'
    <3>1. /\ claims = rejected + tooling + unbacked + verify + audits + 1
          /\ unbacked \in Nat /\ verify \in Nat /\ audits \in Nat /\ claims \in Nat /\ tooling \in Nat
          /\ tooling <= MaxTooling /\ unbacked <= 1 /\ verify <= MaxVerify /\ audits <= AuditLimit
      BY <1>a, <2>0 DEF ClaimsBounded, TurnTypeOK
    <3>2. AuditLimit' = AuditLimit BY <2>0 DEF AuditLimit
    <3>3. CASE place' = "ended" /\ verdict' = "pass" /\ rejected' = rejected
      BY <1>0, <2>0, <2>1, <3>1, <3>2, <3>3 DEF ClaimsBounded
    <3>4. CASE ~(place' = "ended" /\ verdict' = "pass") /\ rejected' = rejected + 1
      <4>1. claims = rejected' + tooling + unbacked + verify + audits BY <2>1, <3>1, <3>4
      <4>2. rejected' <= MaxRetries + 1 /\ rejected' \in Nat BY <1>0, <2>1, <3>4
      <4>3. place' \notin {"claim", "audit", "judge", "final"} BY <2>1
      <4> QED BY <2>0, <3>1, <3>2, <3>4, <4>1, <4>2, <4>3 DEF ClaimsBounded
    <3>5. place' = "ended" /\ verdict' = "pass" => rejected' = rejected BY <2>0
    <3>6. ~(place' = "ended" /\ verdict' = "pass") => rejected' = rejected + 1 BY <2>0
    <3> QED BY <3>3, <3>4, <3>5, <3>6
  <2>4. UnprovenIsChallenged' /\ Untouched' BY <2>1 DEF UnprovenIsChallenged, Untouched
  <2>5. AnswersForTheTurn' BY <2>0, <2>1 DEF TurnInv, AnswersForTheTurn
  <2>6. Accepted' BY <2>0 DEF TurnInv, PassWasTaken, Accepted, Red
  <2>7. PassWasTaken' BY <2>1, <2>6 DEF PassWasTaken
  <2>8. RoomLeft'
    <3>1. place' = "next" => rejected' <= MaxRetries BY <1>0, <2>0, <2>1
    <3> QED BY <2>1, <3>1 DEF RoomLeft
  <2> QED BY <1>d, <2>0, <2>2, <2>3, <2>4, <2>5, <2>7, <2>8 DEF TurnInv
\* The end of a run: of a subtask, or of the turn.
<1>19. CASE RunEnds
  <2>0. /\ place = "ended" /\ place' \in {"enter", "over"} /\ Forgotten /\ verdict' \in {verdict, "fail"}
        /\ UNCHANGED <<task, pieces, lastTree, found, gate, known, typed, unread, cancelled, tree, installed,
                       approved>>
    BY <1>19 DEF RunEnds, measure, person, machine
  <2>1. attempt' \in 0..SubtaskRetries
    <3>1. attempt \in 0..SubtaskRetries BY <1>a DEF TurnTypeOK
    <3>2. attempt' \in {attempt, 0} \/ (attempt' = attempt + 1 /\ attempt < SubtaskRetries) BY <1>19 DEF RunEnds
    <3> QED BY <1>0, <3>1, <3>2
  <2>2. piece' \in 0..pieces
    <3>1. piece \in 0..pieces BY <1>a DEF TurnTypeOK
    <3>2. piece' \in {piece, 0} \/ (piece' = piece + 1 /\ piece < pieces) BY <1>19 DEF RunEnds
    <3> QED BY <1>b, <3>1, <3>2
  \* A run of the whole ends the turn, that of a subtask leads to another, or ends it too.
  <2>3. \/ piece = 0 /\ piece' = 0 /\ place' = "over" /\ verdict' = verdict
        \/ /\ piece > 0 /\ pieces > 0 /\ (piece' = 0 => task.goal /\ place' = "enter")
           /\ (place' = "over" => piece' > 0 /\ (verdict' = "pass" => ~task.goal \/ cancelled))
    <3>1. piece > 0 => pieces > 0 BY <1>a, <1>b DEF TurnTypeOK
    <3>2. piece \in Nat /\ piece' \in Nat /\ (piece > 0 => piece + 1 > 0) BY <1>b, <2>2
    <3>3. CASE piece = 0 BY <1>19, <3>3 DEF RunEnds
    <3>4. CASE piece > 0
      <4>1. piece' \in {piece, piece + 1} \/ (piece' = 0 /\ task.goal /\ place' = "enter") BY <1>19, <3>4 DEF RunEnds
      <4>2. place' = "over" => piece' = piece /\ (verdict' = "fail" \/ ~task.goal \/ cancelled)
          BY <1>19, <3>4 DEF RunEnds
      <4>3. piece' \in {piece, piece + 1} => piece' > 0 /\ piece' # 0 BY <3>2, <3>4
      <4> QED BY <3>1, <3>4, <4>1, <4>2, <4>3
    <3> QED BY <3>2, <3>3, <3>4
  <2>4. TurnTypeOK'
    <3>1. verdict' \in Outcomes BY <1>a, <2>0 DEF TurnTypeOK, Outcomes
    <3>2. /\ round' \in Nat /\ rejected' \in Nat /\ unusable' \in Nat /\ repeats' \in Nat
          /\ readOnly' \in Nat /\ unbacked' \in 0..1 /\ verify' \in Nat /\ audits' \in Nat
          /\ tooling' \in Nat /\ claims' \in Nat
      BY <2>0 DEF Forgotten
    <3>3. audited' \in BOOLEAN /\ failing' \in BOOLEAN /\ runErr' \in BOOLEAN BY <2>0 DEF Forgotten
    <3>4. place' \in TurnPlaces BY <2>0 DEF TurnPlaces
    <3> QED BY <1>a, <2>0, <2>1, <2>2, <3>1, <3>2, <3>3, <3>4 DEF TurnTypeOK
  <2>5. ClaimsBounded' BY <1>0, <1>b, <2>0 DEF ClaimsBounded, AuditLimit, Forgotten
  <2>6. UnprovenIsChallenged' /\ RoomLeft' BY <1>0, <2>0 DEF UnprovenIsChallenged, RoomLeft, Forgotten
  <2>7. Untouched' BY <2>0, <2>3 DEF Untouched, Forgotten
  <2>8. AnswersForTheTurn' BY <2>0, <2>3 DEF TurnInv, AnswersForTheTurn
  <2>9. Accepted' = Accepted BY <2>0 DEF Accepted, Red
  <2>10. PassWasTaken' BY <2>0, <2>3, <2>9 DEF TurnInv, PassWasTaken
  <2> QED BY <1>d, <2>0, <2>4, <2>5, <2>6, <2>7, <2>8, <2>10 DEF TurnInv
<1> QED
  BY <1>1, <1>2, <1>3, <1>4, <1>5, <1>6, <1>7, <1>8, <1>9, <1>10, <1>11, <1>12, <1>13, <1>14,
     <1>15, <1>16, <1>17, <1>18, <1>19 DEF TurnNext, TurnStep

\* A claim of done earns its PASS: it went through each filter, each filter charged it to one
\* budget, and what the turn reports as done in the end is accepted by the gate the turn
\* found, failed before in the same way, or was taken by the person (loop.go, validateClaim).
THEOREM PassEarned == TurnSpec => []PassIsEarned
<1>1. TurnInv => PassIsTrue
  <2> SUFFICES ASSUME TurnInv, place = "over", verdict = "pass", piece = 0 \/ (task.goal /\ ~cancelled)
               PROVE  /\ tree.gate = task.tree.gate \/ tree.gate \in approved
                      /\ Red(tree) \subseteq Red(task.tree)
    BY DEF PassIsTrue
  <2>1. piece \in Nat /\ pieces \in Nat
    <3>1. task \in Tasks /\ pieces \in 0..task.pieces /\ piece \in 0..pieces BY DEF TurnInv, TurnTypeOK
    <3>2. task.pieces \in Nat BY <3>1, TurnAssumption
    <3> QED BY <3>1, <3>2
  <2>2. piece = 0 BY <2>1 DEF TurnInv, PassWasTaken
  <2>3. Accepted BY <2>2 DEF TurnInv, PassWasTaken
  <2>4. found = task.tree /\ (gate = task.tree.gate \/ gate \in approved) BY <2>2 DEF TurnInv, AnswersForTheTurn
  <2> QED BY <2>3, <2>4 DEF Accepted
<1>2. TurnInv => PassIsEarned BY <1>1 DEF TurnInv, PassIsEarned
<1> QED BY <1>2, TurnStarts, TurnKeeps, PTL DEF TurnSpec

-----------------------------------------------------------------------------
(* The working memory: what is recalled is true (WorkMemory).               *)

\* A set of the first numbers that has 0 and, with each number, the next, has them all.
LEMMA AllOfThem ==
    ASSUME NEW N \in Nat, NEW T, 0 \in T, \A n \in 0..N : n \in T /\ n < N => n + 1 \in T
    PROVE  \A n \in 0..N : n \in T
  <1> DEFINE Missing == {n \in 0..N : n \notin T}
  <1> SUFFICES ASSUME Missing # {} PROVE FALSE
    OBVIOUS
  <1>1. Missing \subseteq Nat
    OBVIOUS
  <1>2. PICK x \in Missing : \A y \in Missing : ~(<<y, x>> \in OpToRel(<, Nat))
    BY <1>1, NatLessThanWellFounded, WFMin
  <1>3. \A y \in Missing : ~(y < x)
    <2>1. ASSUME NEW y \in Missing, y < x PROVE FALSE
      <3>1. <<y, x>> \in Nat \X Nat /\ <<y, x>>[1] < <<y, x>>[2]
        BY <1>1, <2>1
      <3> QED
        BY <1>2, <3>1 DEF OpToRel
    <2> QED
      BY <2>1
  <1>4. x \in 0..N /\ x \notin T /\ x # 0
    BY <1>2
  <1>5. x - 1 \in 0..N /\ x - 1 < x /\ x - 1 < N /\ (x - 1) + 1 = x
    BY <1>4
  <1>6. x - 1 \in T
    BY <1>3, <1>5
  <1> QED
    BY <1>4, <1>5, <1>6

\* f starts from base and goes from each value to the next by G.
Follows(f, N, S, base, G) ==
    f \in [0..N -> S] /\ f[0] = base /\ \A n \in 1..N : f[n] = G[<<n, f[n - 1]>>]

\* A function may be defined by what it is at 0 and how each value follows from the one before.
LEMMA StepByStep ==
    ASSUME NEW N \in Nat, NEW S, NEW base \in S, NEW G \in [(1..N) \X S -> S]
    PROVE  \E f : Follows(f, N, S, base, G)
  <1> DEFINE Good(n) == \E f \in [0..n -> S] : f[0] = base /\ \A k \in 1..n : f[k] = G[<<k, f[k - 1]>>]
             T == {n \in 0..N : Good(n)}
  <1>1. 0 \in T
    <2>1. Good(0)
      <3> DEFINE z == [i \in 0..0 |-> base]
      <3>1. z \in [0..0 -> S] /\ z[0] = base /\ 1..0 = {}
        OBVIOUS
      <3> HIDE DEF z
      <3> QED
        BY <3>1
    <2> QED
      BY <2>1
  <1>2. ASSUME NEW n \in 0..N, Good(n), n < N PROVE Good(n + 1)
    <2>1. PICK f \in [0..n -> S] : f[0] = base /\ \A k \in 1..n : f[k] = G[<<k, f[k - 1]>>]
      BY <1>2
    <2> DEFINE g == [i \in 0..(n + 1) |-> IF i = n + 1 THEN G[<<n + 1, f[n]>>] ELSE f[i]]
    <2>2. f[n] \in S /\ n + 1 \in 1..N /\ G[<<n + 1, f[n]>>] \in S
      BY <1>2, <2>1
    <2>3. g \in [0..(n + 1) -> S]
      BY <2>1, <2>2
    <2>4. g[0] = base
      BY <2>1
    <2>5. ASSUME NEW k \in 1..(n + 1) PROVE g[k] = G[<<k, g[k - 1]>>]
      <3>1. k - 1 \in 0..n /\ g[k - 1] = f[k - 1]
        OBVIOUS
      <3>2. CASE k = n + 1
        <4>1. k - 1 = n /\ g[k] = G[<<n + 1, f[n]>>] /\ g[k - 1] = f[n]
          BY <3>2
        <4> QED
          BY <3>2, <4>1
      <3>3. CASE k # n + 1
        <4>1. k \in 1..n /\ g[k] = f[k]
          BY <3>3
        <4> QED
          BY <2>1, <3>1, <4>1
      <3> QED
        BY <3>2, <3>3
    <2> QED
      BY <2>3, <2>4, <2>5
  <1>3. \A n \in 0..N : n \in T /\ n < N => n + 1 \in T
    <2> SUFFICES ASSUME NEW n \in 0..N, n \in T, n < N PROVE n + 1 \in T
      OBVIOUS
    <2>1. Good(n + 1)
      BY <1>2
    <2> QED
      BY <2>1
  <1> HIDE DEF T
  <1>4. N \in T
    BY <1>1, <1>3, AllOfThem
  <1> QED
    BY <1>4 DEF T, Follows

\* The least of some numbers is one of them.
LEMMA LeastIsOne ==
    ASSUME NEW s, s \subseteq Nat, s # {}
    PROVE  Min(s) \in s /\ \A y \in s : Min(s) <= y
  <1>1. PICK x \in s : \A y \in s : ~(<<y, x>> \in OpToRel(<, Nat))
    BY NatLessThanWellFounded, WFMin
  <1>2. \A y \in s : x <= y
    <2>1. ASSUME NEW y \in s, y < x PROVE FALSE
      <3>1. <<y, x>> \in Nat \X Nat /\ <<y, x>>[1] < <<y, x>>[2]
        BY <2>1
      <3> QED
        BY <1>1, <3>1 DEF OpToRel
    <2> QED
      BY <2>1
  <1> QED
    BY <1>2 DEF Min

\* What one output takes of the room that is left, and that more room leaves no less.
LEMMA CutFacts ==
    ASSUME NEW l \in Nat, NEW r \in Nat
    PROVE  /\ r - Min({l, EvidenceEach, r}) \in Nat /\ r - Min({l, EvidenceEach, r}) <= r
           /\ \A q \in Nat : r <= q => r - Min({l, EvidenceEach, r}) <= q - Min({l, EvidenceEach, q})
  <1>1. EvidenceEach \in Nat
    BY MemoryAssumption
  <1>2. \A q \in Nat : /\ Min({l, EvidenceEach, q}) \in {l, EvidenceEach, q}
                       /\ Min({l, EvidenceEach, q}) <= l /\ Min({l, EvidenceEach, q}) <= EvidenceEach
                       /\ Min({l, EvidenceEach, q}) <= q
    <2> TAKE q \in Nat
    <2>1. {l, EvidenceEach, q} \subseteq Nat
      BY <1>1
    <2> QED
      BY <2>1, LeastIsOne
  <1>3. r - Min({l, EvidenceEach, r}) \in Nat /\ r - Min({l, EvidenceEach, r}) <= r
    BY <1>1, <1>2
  <1>4. ASSUME NEW q \in Nat, r <= q PROVE r - Min({l, EvidenceEach, r}) <= q - Min({l, EvidenceEach, q})
    <2>1. PICK c \in Nat : c = Min({l, EvidenceEach, r}) /\ c \in {l, EvidenceEach, r} /\ c <= l /\ c <= EvidenceEach /\ c <= r
      BY <1>1, <1>2
    <2>2. PICK d \in Nat : d = Min({l, EvidenceEach, q}) /\ d \in {l, EvidenceEach, q} /\ d <= l /\ d <= EvidenceEach /\ d <= q
      BY <1>1, <1>2
    <2>3. r - c <= q - d
      BY <1>1, <1>4, <2>1, <2>2
    <2> QED
      BY <2>1, <2>2, <2>3
  <1> QED
    BY <1>3, <1>4

\* What is remembered of a read.
Entries == {e \in [ask : Asks, out : Seq(BOOLEAN), to : Nat] : e.to \in {e.ask.to, WholeFile}}

\* layout goes from the newest read to the oldest, and what is left is what the newer ones leave.
LEMMA RoomFacts ==
    ASSUME NEW mem \in Seq(Entries)
    PROVE  /\ Room(mem) \in [1..Len(mem) -> Nat]
           /\ \A i \in 1..Len(mem) :
                Room(mem)[i] = IF i = Len(mem) THEN EvidenceTotal
                               ELSE Room(mem)[i + 1] - Min({Len(mem[i + 1].out), EvidenceEach, Room(mem)[i + 1]})
  <1> DEFINE N == Len(mem)
             S(n, r) == r - Min({Len(mem[N - n + 1].out), EvidenceEach, r})
             G == [p \in (1..N) \X Nat |-> S(p[1], p[2])]
  <1>1. N \in Nat /\ EvidenceTotal \in Nat
    BY MemoryAssumption
  <1>2. \A i \in 1..N : Len(mem[i].out) \in Nat
    BY DEF Entries
  <1>3. ASSUME NEW n \in 1..N, NEW r \in Nat PROVE S(n, r) \in Nat
    <2>1. N - n + 1 \in 1..N
      OBVIOUS
    <2>2. Len(mem[N - n + 1].out) \in Nat
      BY <1>2, <2>1
    <2> QED
      BY <2>2, CutFacts
  <1>4. G \in [(1..N) \X Nat -> Nat]
    BY <1>3
  <1> HIDE DEF G, S, N
  <1>5. PICK f : Follows(f, N, Nat, EvidenceTotal, G)
    BY <1>1, <1>4, StepByStep
  <1>5a. f \in [0..N -> Nat] /\ f[0] = EvidenceTotal /\ \A n \in 1..N : f[n] = G[<<n, f[n - 1]>>]
    BY <1>5 DEF Follows
  <1>6. ASSUME NEW n \in 1..N PROVE f[n] = S(n, f[n - 1])
    <2>1. f[n - 1] \in Nat /\ <<n, f[n - 1]>> \in (1..N) \X Nat
      BY <1>1, <1>5a
    <2> QED
      BY <1>5a, <2>1 DEF G
  <1> USE DEF N
  <1> DEFINE room == [i \in 1..N |-> f[N - i]]
  <1>7. room \in [1..N -> Nat]
    BY <1>5a
  <1>8. ASSUME NEW i \in 1..N
        PROVE  room[i] = IF i = N THEN EvidenceTotal
                         ELSE room[i + 1] - Min({Len(mem[i + 1].out), EvidenceEach, room[i + 1]})
    <2>1. CASE i = N
      BY <1>5a, <2>1
    <2>2. CASE i # N
      <3>1. N - i \in 1..N /\ i + 1 \in 1..N /\ room[i] = f[N - i] /\ room[i + 1] = f[N - i - 1] /\ N - (N - i) + 1 = i + 1
        BY <2>2
      <3>2. f[N - i] = S(N - i, f[N - i - 1])
        BY <1>6, <3>1
      <3> QED
        BY <2>2, <3>1, <3>2 DEF S
    <2> QED
      BY <2>1, <2>2
  <1> DEFINE Def(g) == [i \in 1..N |-> IF i = N THEN EvidenceTotal
                                       ELSE g[i + 1] - Min({Len(mem[i + 1].out), EvidenceEach, g[i + 1]})]
  <1>9. room = Def(room)
    BY <1>7, <1>8
  <1>10. Room(mem) = CHOOSE g : g = Def(g)
    BY DEF Room
  <1>11. Room(mem) = Def(Room(mem))
    BY <1>9, <1>10
  <1> HIDE DEF Def
  <1>12. /\ DOMAIN Room(mem) = 1..N
         /\ \A i \in 1..N : Room(mem)[i] = IF i = N THEN EvidenceTotal
                              ELSE Room(mem)[i + 1] - Min({Len(mem[i + 1].out), EvidenceEach, Room(mem)[i + 1]})
    BY <1>11 DEF Def
  <1> DEFINE T == {n \in 0..N : n < N => Room(mem)[N - n] \in Nat}
  <1>13. 0 \in T
    <2>1. CASE 0 < N
      <3>1. N - 0 = N /\ N \in 1..N /\ 0 \in 0..N
        BY <1>1, <2>1
      <3>2. Room(mem)[N] = EvidenceTotal
        BY <1>12, <3>1
      <3>3. Room(mem)[N - 0] \in Nat
        BY <1>1, <3>1, <3>2
      <3> QED
        BY <3>1, <3>3
    <2>2. CASE ~(0 < N)
      BY <1>1, <2>2
    <2> QED
      BY <2>1, <2>2
  <1>14. ASSUME NEW n \in 0..N, n \in T, n < N PROVE n + 1 \in T
    <2>1. CASE n + 1 = N
      BY <2>1
    <2>2. CASE n + 1 < N
      <3>1. N - n \in 1..N /\ N - (n + 1) \in 1..N /\ N - (n + 1) # N /\ N - (n + 1) + 1 = N - n
        BY <2>2
      <3>2. Room(mem)[N - n] \in Nat /\ Len(mem[N - n].out) \in Nat
        BY <1>2, <1>14, <3>1
      <3>3. Room(mem)[N - (n + 1)] = Room(mem)[N - n] - Min({Len(mem[N - n].out), EvidenceEach, Room(mem)[N - n]})
        BY <1>12, <3>1
      <3>4. Room(mem)[N - (n + 1)] \in Nat
        BY <3>2, <3>3, CutFacts
      <3> QED
        BY <2>2, <3>4, <1>1
    <2> QED
      BY <1>14, <2>1, <2>2
  <1> HIDE DEF T
  <1>15. \A n \in 0..N : n \in T
    BY <1>1, <1>13, <1>14, AllOfThem
  <1>16. ASSUME NEW i \in 1..N PROVE Room(mem)[i] \in Nat
    <2>1. N - i \in 0..N /\ N - i < N /\ N - (N - i) = i
      OBVIOUS
    <2> QED
      BY <1>15, <2>1 DEF T
  <1>17. Room(mem) = [i \in 1..N |-> Room(mem)[i]]
    BY <1>11 DEF Def
  <1> QED
    BY <1>12, <1>16, <1>17

\* The same from the last number down.
LEMMA FromTheLast ==
    ASSUME NEW N \in Nat, NEW T, \A i \in 1..N : (i = N \/ i + 1 \in T) => i \in T
    PROVE  \A i \in 1..N : i \in T
  <1> DEFINE U == {n \in 0..N : n < N => N - n \in T}
  <1>1. 0 \in U
    <2>1. 0 < N => N - 0 = N /\ N \in 1..N
      OBVIOUS
    <2> QED
      BY <2>1
  <1>2. \A n \in 0..N : n \in U /\ n < N => n + 1 \in U
    <2> SUFFICES ASSUME NEW n \in 0..N, n \in U, n < N PROVE n + 1 \in U
      OBVIOUS
    <2>1. n + 1 < N => N - (n + 1) \in 1..N /\ N - (n + 1) + 1 = N - n
      OBVIOUS
    <2> QED
      BY <2>1
  <1> HIDE DEF U
  <1>3. \A n \in 0..N : n \in U
    BY <1>1, <1>2, AllOfThem
  <1> SUFFICES ASSUME NEW i \in 1..N PROVE i \in T
    OBVIOUS
  <1>4. N - i \in 0..N /\ N - i < N /\ N - (N - i) = i
    OBVIOUS
  <1> QED
    BY <1>3, <1>4 DEF U

\* No read leaves more room than it found, and none more than the total.
LEMMA RoomShrinks ==
    ASSUME NEW mem \in Seq(Entries)
    PROVE  /\ \A i \in 1..Len(mem) : Room(mem)[i] <= EvidenceTotal
           /\ \A i \in 1..Len(mem) : i < Len(mem) => Room(mem)[i] <= Room(mem)[i + 1]
  <1>1. EvidenceTotal \in Nat /\ Len(mem) \in Nat
    BY MemoryAssumption
  <1>2. ASSUME NEW i \in 1..Len(mem), i < Len(mem) PROVE Room(mem)[i] <= Room(mem)[i + 1]
    <2>1. i + 1 \in 1..Len(mem) /\ i # Len(mem)
      BY <1>2
    <2>2. Room(mem)[i + 1] \in Nat /\ Room(mem)[i] = Room(mem)[i + 1] - Min({Len(mem[i + 1].out), EvidenceEach, Room(mem)[i + 1]})
      BY <2>1, RoomFacts
    <2>3. Len(mem[i + 1].out) \in Nat
      BY <2>1 DEF Entries
    <2> QED
      BY <2>2, <2>3, CutFacts
  <1> DEFINE T == {i \in 1..Len(mem) : Room(mem)[i] <= EvidenceTotal}
  <1>3. ASSUME NEW i \in 1..Len(mem), i = Len(mem) \/ i + 1 \in T PROVE i \in T
    <2>1. CASE i = Len(mem)
      <3>1. Room(mem)[i] = EvidenceTotal
        BY <2>1, RoomFacts
      <3> QED
        BY <1>1, <3>1
    <2>2. CASE i # Len(mem)
      <3>1. i < Len(mem) /\ i + 1 \in T /\ i + 1 \in 1..Len(mem)
        BY <1>3, <2>2
      <3>2. Room(mem)[i] \in Nat /\ Room(mem)[i + 1] \in Nat
        BY <3>1, RoomFacts
      <3> QED
        BY <1>1, <1>2, <3>1, <3>2
    <2> QED
      BY <2>1, <2>2
  <1> HIDE DEF T
  <1>4. \A i \in 1..Len(mem) : i \in T
    BY <1>1, <1>3, FromTheLast
  <1> QED
    BY <1>2, <1>4 DEF T

\* Newer reads leave the older ones no more room than they had.
LEMMA RoomOfConcat ==
    ASSUME NEW o \in Seq(Entries), NEW new \in Seq(Entries)
    PROVE  \A i \in 1..Len(o) : Room(o \o new)[i] <= Room(o)[i]
  <1> DEFINE s == o \o new
             T == {i \in 1..Len(o) : Room(s)[i] <= Room(o)[i]}
  <1>1. /\ s \in Seq(Entries) /\ Len(s) = Len(o) + Len(new) /\ Len(o) \in Nat /\ Len(new) \in Nat
        /\ \A i \in 1..Len(o) : s[i] = o[i]
    OBVIOUS
  <1>1a. \A i \in 1..Len(o) : Len(o[i].out) \in Nat
    BY DEF Entries
  <1> HIDE DEF s
  <1>2. ASSUME NEW i \in 1..Len(o), i = Len(o) \/ i + 1 \in T PROVE i \in T
    <2>0. i \in 1..Len(s) /\ s \in Seq(Entries)
      BY <1>1
    <2>1. i \in 1..Len(s) /\ Room(s)[i] \in Nat
      BY <2>0, RoomFacts
    <2>2. CASE i = Len(o)
      <3>1. Room(o)[i] = EvidenceTotal
        BY <2>2, RoomFacts
      <3>2. Room(s)[i] <= EvidenceTotal
        BY <1>1, <2>1, RoomShrinks
      <3> QED
        BY <3>1, <3>2
    <2>3. CASE i # Len(o)
      <3>1. i + 1 \in T /\ i + 1 \in 1..Len(o) /\ i + 1 \in 1..Len(s) /\ i # Len(s) /\ i # Len(o)
        BY <1>1, <1>2, <2>3
      <3>2. Room(s)[i + 1] \in Nat /\ Room(o)[i + 1] \in Nat /\ Len(o[i + 1].out) \in Nat /\ s[i + 1] = o[i + 1]
        BY <1>1, <1>1a, <3>1, RoomFacts
      <3>3. Room(s)[i] = Room(s)[i + 1] - Min({Len(o[i + 1].out), EvidenceEach, Room(s)[i + 1]})
        BY <1>1, <2>1, <3>1, <3>2, RoomFacts
      <3>4. Room(o)[i] = Room(o)[i + 1] - Min({Len(o[i + 1].out), EvidenceEach, Room(o)[i + 1]})
        BY <3>1, RoomFacts
      <3>5. Room(s)[i] <= Room(o)[i]
        BY <3>1, <3>2, <3>3, <3>4, CutFacts
      <3> QED
        BY <3>5
    <2> QED
      BY <2>2, <2>3
  <1>3. Len(o) \in Nat
    OBVIOUS
  <1> HIDE DEF T
  <1>4. \A i \in 1..Len(o) : i \in T
    BY <1>2, <1>3, FromTheLast
  <1> QED
    BY <1>4 DEF T, s

\* What is left when one of a sequence is taken out.
LEMMA RemovedFacts ==
    ASSUME NEW S, NEW s \in Seq(S), NEW k \in 1..Len(s)
    PROVE  /\ RemoveAt(s, k) \in Seq(S) /\ Len(RemoveAt(s, k)) = Len(s) - 1
           /\ \A i \in 1..(Len(s) - 1) : RemoveAt(s, k)[i] = IF i < k THEN s[i] ELSE s[i + 1]
  <1> DEFINE a == SubSeq(s, 1, k - 1)
             b == SubSeq(s, k + 1, Len(s))
  <1>1. Len(s) \in Nat /\ k \in Int /\ k - 1 \in Int /\ k + 1 \in Int /\ \A i \in 1..Len(s) : s[i] \in S
    OBVIOUS
  <1>2. a \in Seq(S) /\ Len(a) = k - 1 /\ \A i \in 1..(k - 1) : a[i] = s[i]
    <2>1. \A i \in 1..(k - 1) : s[i] \in S
      BY <1>1
    <2> QED
      BY <1>1, <2>1, SubSeqProperties
  <1>3. b \in Seq(S) /\ Len(b) = Len(s) - k /\ \A i \in 1..(Len(s) - k) : b[i] = s[i + k]
    <2>1. \A i \in (k + 1)..Len(s) : s[i] \in S
      BY <1>1
    <2>2. /\ b \in Seq(S) /\ Len(b) = (IF k + 1 <= Len(s) THEN Len(s) - (k + 1) + 1 ELSE 0)
          /\ \A i \in 1..(Len(s) - (k + 1) + 1) : b[i] = s[(k + 1) + i - 1]
      BY <1>1, <2>1, SubSeqProperties
    <2>3. Len(b) = Len(s) - k
      BY <1>1, <2>2
    <2>4. ASSUME NEW i \in 1..(Len(s) - k) PROVE b[i] = s[i + k]
      <3>1. i \in 1..(Len(s) - (k + 1) + 1) /\ (k + 1) + i - 1 = i + k
        BY <1>1
      <3> QED
        BY <2>2, <3>1
    <2> QED
      BY <2>2, <2>3, <2>4
  <1>4. RemoveAt(s, k) = a \o b
    BY DEF RemoveAt
  <1> HIDE DEF a, b
  <1>5. /\ a \o b \in Seq(S) /\ Len(a \o b) = Len(s) - 1
        /\ \A i \in 1..(Len(s) - 1) : (a \o b)[i] = IF i <= Len(a) THEN a[i] ELSE b[i - Len(a)]
    <2>1. Len(a) + Len(b) = Len(s) - 1
      BY <1>1, <1>2, <1>3
    <2>2. /\ a \o b \in Seq(S) /\ Len(a \o b) = Len(a) + Len(b)
          /\ \A i \in 1..(Len(a) + Len(b)) : (a \o b)[i] = IF i <= Len(a) THEN a[i] ELSE b[i - Len(a)]
      BY <1>2, <1>3, ConcatProperties
    <2> QED
      BY <2>1, <2>2
  <1>6. ASSUME NEW i \in 1..(Len(s) - 1) PROVE (a \o b)[i] = IF i < k THEN s[i] ELSE s[i + 1]
    <2>1. CASE i < k
      <3>1. i <= Len(a) /\ i \in 1..(k - 1)
        BY <1>1, <1>2, <2>1
      <3> QED
        BY <1>2, <1>5, <2>1, <3>1
    <2>2. CASE ~(i < k)
      <3>1. ~(i <= Len(a)) /\ i - Len(a) \in 1..(Len(s) - k) /\ (i - Len(a)) + k = i + 1
        BY <1>1, <1>2, <2>2
      <3>2. b[i - Len(a)] = s[i + 1]
        BY <1>3, <3>1
      <3> QED
        BY <1>5, <2>2, <3>1, <3>2
    <2> QED
      BY <2>1, <2>2
  <1> QED
    BY <1>4, <1>5, <1>6

\* Taking out of a concatenation is taking out of the part it is in.
LEMMA RemovedOfConcat ==
    ASSUME NEW S, NEW o \in Seq(S), NEW new \in Seq(S), NEW k \in 1..(Len(o) + Len(new))
    PROVE  /\ k <= Len(o) => RemoveAt(o \o new, k) = RemoveAt(o, k) \o new
           /\ ~(k <= Len(o)) => k - Len(o) \in 1..Len(new) /\ RemoveAt(o \o new, k) = o \o RemoveAt(new, k - Len(o))
  <1> DEFINE s == o \o new
  <1>1. /\ s \in Seq(S) /\ Len(s) = Len(o) + Len(new)
        /\ \A i \in 1..(Len(o) + Len(new)) : s[i] = IF i <= Len(o) THEN o[i] ELSE new[i - Len(o)]
    BY ConcatProperties
  <1>2. Len(o) \in Nat /\ Len(new) \in Nat /\ k \in 1..Len(s)
    BY <1>1
  <1> HIDE DEF s
  <1>3. /\ RemoveAt(s, k) \in Seq(S) /\ Len(RemoveAt(s, k)) = Len(o) + Len(new) - 1
        /\ \A i \in 1..(Len(o) + Len(new) - 1) : RemoveAt(s, k)[i] = IF i < k THEN s[i] ELSE s[i + 1]
    <2>1. /\ RemoveAt(s, k) \in Seq(S) /\ Len(RemoveAt(s, k)) = Len(s) - 1
          /\ \A i \in 1..(Len(s) - 1) : RemoveAt(s, k)[i] = IF i < k THEN s[i] ELSE s[i + 1]
      BY <1>1, <1>2, RemovedFacts
    <2> QED
      BY <1>1, <2>1
  <1>4. ASSUME k <= Len(o) PROVE RemoveAt(s, k) = RemoveAt(o, k) \o new
    <2>1. k \in 1..Len(o)
      BY <1>2, <1>4
    <2> DEFINE r == RemoveAt(o, k)
    <2>2. /\ r \in Seq(S) /\ Len(r) = Len(o) - 1
          /\ \A i \in 1..(Len(o) - 1) : r[i] = IF i < k THEN o[i] ELSE o[i + 1]
      BY <2>1, RemovedFacts
    <2> HIDE DEF r
    <2>3. /\ r \o new \in Seq(S) /\ Len(r \o new) = Len(r) + Len(new)
          /\ \A i \in 1..(Len(r) + Len(new)) : (r \o new)[i] = IF i <= Len(r) THEN r[i] ELSE new[i - Len(r)]
      BY <2>2, ConcatProperties
    <2>4. Len(r \o new) = Len(RemoveAt(s, k))
      BY <1>2, <1>3, <2>2, <2>3
    <2>5. ASSUME NEW i \in 1..(Len(o) + Len(new) - 1) PROVE RemoveAt(s, k)[i] = (r \o new)[i]
      <3>1. CASE i <= Len(o) - 1
        <4>1. i \in 1..(Len(o) - 1) /\ i \in 1..(Len(r) + Len(new)) /\ i <= Len(r) /\ i <= Len(o) /\ i + 1 <= Len(o)
              /\ i \in 1..(Len(o) + Len(new)) /\ i + 1 \in 1..(Len(o) + Len(new))
          BY <1>2, <2>2, <3>1
        <4>2. (r \o new)[i] = IF i < k THEN o[i] ELSE o[i + 1]
          BY <2>2, <2>3, <4>1
        <4>3. s[i] = o[i] /\ s[i + 1] = o[i + 1]
          BY <1>1, <4>1
        <4> QED
          BY <1>3, <4>2, <4>3
      <3>2. CASE ~(i <= Len(o) - 1)
        <4>1. i \in 1..(Len(r) + Len(new)) /\ ~(i <= Len(r)) /\ ~(i < k) /\ ~(i + 1 <= Len(o))
              /\ i + 1 \in 1..(Len(o) + Len(new)) /\ i - Len(r) = i + 1 - Len(o)
          BY <1>2, <2>1, <2>2, <3>2
        <4>2. (r \o new)[i] = new[i + 1 - Len(o)]
          BY <2>3, <4>1
        <4>3. s[i + 1] = new[i + 1 - Len(o)]
          BY <1>1, <4>1
        <4> QED
          BY <1>3, <4>1, <4>2, <4>3
      <3> QED
        BY <3>1, <3>2
    <2>6. RemoveAt(s, k) = r \o new
      BY <1>3, <2>3, <2>4, <2>5, SeqEqual
    <2> QED
      BY <2>6 DEF r
  <1>5. ASSUME ~(k <= Len(o))
        PROVE  k - Len(o) \in 1..Len(new) /\ RemoveAt(s, k) = o \o RemoveAt(new, k - Len(o))
    <2>1. k - Len(o) \in 1..Len(new)
      BY <1>1, <1>2, <1>5
    <2> DEFINE r == RemoveAt(new, k - Len(o))
    <2>2. /\ r \in Seq(S) /\ Len(r) = Len(new) - 1
          /\ \A i \in 1..(Len(new) - 1) : r[i] = IF i < k - Len(o) THEN new[i] ELSE new[i + 1]
      BY <2>1, RemovedFacts
    <2> HIDE DEF r
    <2>3. /\ o \o r \in Seq(S) /\ Len(o \o r) = Len(o) + Len(r)
          /\ \A i \in 1..(Len(o) + Len(r)) : (o \o r)[i] = IF i <= Len(o) THEN o[i] ELSE r[i - Len(o)]
      BY <2>2, ConcatProperties
    <2>4. Len(o \o r) = Len(RemoveAt(s, k)) /\ Len(o) + Len(r) = Len(o) + Len(new) - 1
      BY <1>2, <1>3, <2>2, <2>3
    <2>5. ASSUME NEW i \in 1..(Len(o) + Len(new) - 1) PROVE RemoveAt(s, k)[i] = (o \o r)[i]
      <3>1. CASE i <= Len(o)
        <4>1. i < k /\ i \in 1..(Len(o) + Len(new))
          BY <1>2, <1>5, <3>1
        <4> QED
          BY <1>1, <1>3, <2>3, <2>4, <3>1, <4>1
      <3>2. CASE ~(i <= Len(o))
        <4> DEFINE j == i - Len(o)
        <4>1. j \in 1..(Len(new) - 1) /\ ~(i + 1 <= Len(o)) /\ i \in 1..(Len(o) + Len(new)) /\ i + 1 \in 1..(Len(o) + Len(new))
              /\ (j < k - Len(o) <=> i < k) /\ j + 1 = i + 1 - Len(o)
          BY <1>2, <3>2
        <4>2. (o \o r)[i] = r[j]
          BY <2>3, <2>4, <3>2
        <4>3. s[i] = new[j] /\ s[i + 1] = new[j + 1]
          BY <1>1, <3>2, <4>1
        <4> HIDE DEF j
        <4> QED
          BY <1>3, <2>2, <4>1, <4>2, <4>3
      <3> QED
        BY <3>1, <3>2
    <2>6. RemoveAt(s, k) = o \o r
      BY <1>3, <2>3, <2>4, <2>5, SeqEqual
    <2> QED
      BY <2>1, <2>6 DEF r
  <1> QED
    BY <1>4, <1>5 DEF s

\* A read that is not shown leaves the older ones unshown, and the newer ones as they were, when it goes.
LEMMA RoomOfRemoved ==
    ASSUME NEW o \in Seq(Entries), NEW k \in 1..Len(o), Room(o)[k] = 0
    PROVE  /\ \A i \in k..(Len(o) - 1) : Room(RemoveAt(o, k))[i] = Room(o)[i + 1]
           /\ \A i \in 1..(k - 1) : Room(RemoveAt(o, k))[i] = 0
  <1> DEFINE r == RemoveAt(o, k)
             L == Len(o) - 1
  <1>1. /\ r \in Seq(Entries) /\ Len(r) = L /\ \A i \in 1..L : r[i] = IF i < k THEN o[i] ELSE o[i + 1]
    BY RemovedFacts
  <1>2. k < Len(o)
    <2>1. ASSUME k = Len(o) PROVE FALSE
      <3>1. Room(o)[k] = EvidenceTotal
        BY <2>1, RoomFacts
      <3> QED
        BY <3>1, MemoryAssumption
    <2> QED
      BY <2>1
  <1>3. L \in Nat /\ Len(o) \in Nat /\ L = Len(o) - 1 /\ k \in 1..L
    BY <1>2
  <1>4. \A i \in 1..Len(o) : Len(o[i].out) \in Nat
    BY DEF Entries
  <1> HIDE DEF r
  <1> DEFINE T == {i \in 1..L : IF i < k THEN Room(r)[i] = 0 ELSE Room(r)[i] = Room(o)[i + 1]}
  <1>5. ASSUME NEW i \in 1..L, i = L \/ i + 1 \in T PROVE i \in T
    <2>1. CASE i = L
      <3>1. Room(r)[i] = EvidenceTotal
        BY <1>1, <2>1, RoomFacts
      <3>2. i + 1 = Len(o) /\ i + 1 \in 1..Len(o) /\ ~(i < k)
        BY <1>3, <2>1
      <3>3. Room(o)[i + 1] = EvidenceTotal
        BY <3>2, RoomFacts
      <3> QED
        BY <3>1, <3>2, <3>3
    <2>2. CASE i # L
      <3>1. i + 1 \in T /\ i + 1 \in 1..L /\ i + 1 \in 1..Len(o) /\ i # Len(r) /\ i \in 1..Len(r) /\ i \in 1..Len(o) /\ i # Len(o)
        BY <1>1, <1>3, <1>5, <2>2
      <3>2. Room(r)[i] = Room(r)[i + 1] - Min({Len(r[i + 1].out), EvidenceEach, Room(r)[i + 1]})
        BY <1>1, <3>1, RoomFacts
      <3>3. CASE ~(i < k)
        <4>1. i + 2 \in 1..Len(o) /\ i + 1 # Len(o) /\ ~(i + 1 < k) /\ (i + 1) + 1 = i + 2
          BY <1>3, <3>1, <3>3
        <4>2. r[i + 1] = o[i + 2] /\ Room(r)[i + 1] = Room(o)[i + 2]
          BY <1>1, <3>1, <4>1
        <4>3. Room(o)[i + 1] = Room(o)[i + 2] - Min({Len(o[i + 2].out), EvidenceEach, Room(o)[i + 2]})
          <5>1. Room(o)[i + 1] = Room(o)[(i + 1) + 1] - Min({Len(o[(i + 1) + 1].out), EvidenceEach, Room(o)[(i + 1) + 1]})
            BY <3>1, <4>1, RoomFacts
          <5> QED
            BY <4>1, <5>1
        <4>4. Room(r)[i] = Room(o)[i + 1]
          BY <3>2, <4>2, <4>3
        <4> QED
          BY <3>3, <4>4
      <3>4. CASE i < k /\ i + 1 = k
        <4>1. k + 1 \in 1..Len(o) /\ k # Len(o) /\ ~(k < k)
          BY <1>3
        <4>2. r[k] = o[k + 1] /\ Room(r)[k] = Room(o)[k + 1]
          BY <1>1, <1>3, <3>1, <3>4, <4>1
        <4>3. Room(o)[k] = Room(o)[k + 1] - Min({Len(o[k + 1].out), EvidenceEach, Room(o)[k + 1]})
          BY <4>1, RoomFacts
        <4>4. Room(r)[i] = 0
          BY <3>2, <3>4, <4>2, <4>3
        <4> QED
          BY <3>4, <4>4
      <3>5. CASE i < k /\ i + 1 # k
        <4>1. i + 1 < k /\ Room(r)[i + 1] = 0
          BY <3>1, <3>5
        <4>2. Len(r[i + 1].out) \in Nat /\ 0 \in Nat
          BY <1>1, <1>4, <3>1, <4>1
        <4>3. PICK z : z = 0 - Min({Len(r[i + 1].out), EvidenceEach, 0})
          OBVIOUS
        <4>4. z \in Nat /\ z <= 0
          BY <4>2, <4>3, CutFacts
        <4>5. Room(r)[i] = 0
          BY <3>2, <4>1, <4>3, <4>4
        <4> QED
          BY <3>5, <4>5
      <3> QED
        BY <3>3, <3>4, <3>5
    <2> QED
      BY <2>1, <2>2
  <1> HIDE DEF T
  <1>6. \A i \in 1..L : i \in T
    BY <1>3, <1>5, FromTheLast
  <1>7. ASSUME NEW i \in k..(Len(o) - 1) PROVE Room(r)[i] = Room(o)[i + 1]
    <2>1. i \in 1..L /\ ~(i < k)
      BY <1>3
    <2> QED
      BY <1>6, <2>1 DEF T
  <1>8. ASSUME NEW i \in 1..(k - 1) PROVE Room(r)[i] = 0
    <2>1. i \in 1..L /\ i < k
      BY <1>3
    <2> QED
      BY <1>6, <2>1 DEF T
  <1> QED
    BY <1>7, <1>8 DEF r

\* Every file holds something it may hold.
DiskHolds == \A f \in Files : disk[f].lines \in Contents[f]

\* A read prints lines of its file, and what is remembered of it says which it was.
LEMMA EntryFacts ==
    ASSUME DiskHolds, NEW ask \in Asks
    PROVE  Entry(ask) \in Entries /\ Entry(ask).ask = ask /\ Entry(ask).out = Printed(ask, disk)
  <1>1. ask \in [file : Files, from : Nat \ {0}, to : Nat \ {0}, plain : BOOLEAN] /\ WholeFile \in Nat
    BY MemoryAssumption
  <1> DEFINE l == disk[ask.file].lines
  <1>2. l \in Seq(BOOLEAN)
    BY <1>1, MemoryAssumption DEF DiskHolds
  <1>3. Printed(ask, disk) = SubSeq(l, ask.from, Min({ask.to, Len(l)}))
    BY DEF Printed
  <1> HIDE DEF l
  <1>4. PICK m \in Nat : m = Min({ask.to, Len(l)}) /\ m <= Len(l)
    <2>1. {ask.to, Len(l)} \subseteq Nat
      BY <1>1, <1>2
    <2> QED
      BY <2>1, LeastIsOne
  <1>5. \A i \in ask.from..m : l[i] \in BOOLEAN
    BY <1>1, <1>2, <1>4
  <1>6. Printed(ask, disk) \in Seq(BOOLEAN)
    <2>1. ask.from \in Int /\ m \in Int
      BY <1>1, <1>4
    <2>2. SubSeq(l, ask.from, m) \in Seq(BOOLEAN)
      BY <1>5, <2>1, SubSeqProperties
    <2> QED
      BY <1>3, <1>4, <2>2
  <1>7. HeldTo(ask, Printed(ask, disk)) \in {ask.to, WholeFile}
    BY DEF HeldTo
  <1>8. Entry(ask) = [ask |-> ask, out |-> Printed(ask, disk), to |-> HeldTo(ask, Printed(ask, disk))]
    BY DEF Entry
  <1>9. HeldTo(ask, Printed(ask, disk)) \in Nat
    BY <1>1, <1>7
  <1> QED
    BY <1>6, <1>7, <1>8, <1>9 DEF Entries

\* A read goes to the newest place, and out of the one it had.
LEMMA RememberFacts ==
    ASSUME DiskHolds, NEW ask \in Asks, NEW mem \in Seq(Entries)
    PROVE  /\ Remember(mem, ask) \in Seq(Entries)
           /\ \/ Remember(mem, ask) = Append(mem, Entry(ask))
              \/ \E k \in 1..Len(mem) :
                   mem[k].ask = ask /\ Remember(mem, ask) = Append(RemoveAt(mem, k), Entry(ask))
  <1>1. Entry(ask) \in Entries
    BY EntryFacts
  <1>2. CASE \E i \in 1..Len(mem) : mem[i].ask = ask
    <2> DEFINE I == {i \in 1..Len(mem) : mem[i].ask = ask}
    <2>1. I # {} /\ I \subseteq Nat
      BY <1>2
    <2>2. Min(I) \in I
      BY <2>1, LeastIsOne
    <2>3. Remember(mem, ask) = Append(RemoveAt(mem, Min(I)), Entry(ask))
      BY <1>2, <2>1 DEF Remember, RemoveFirstMatch, SelectInSeq
    <2>4. RemoveAt(mem, Min(I)) \in Seq(Entries)
      BY <2>2, RemovedFacts
    <2> HIDE DEF I
    <2>5. Remember(mem, ask) \in Seq(Entries)
      BY <1>1, <2>3, <2>4
    <2> QED
      BY <2>2, <2>3, <2>5 DEF I
  <1>3. CASE ~\E i \in 1..Len(mem) : mem[i].ask = ask
    <2>1. Remember(mem, ask) = Append(mem, Entry(ask))
      BY <1>3 DEF Remember, RemoveFirstMatch
    <2> QED
      BY <1>1, <2>1
  <1> QED
    BY <1>2, <1>3

\* What is appended to a concatenation is appended to its second part.
LEMMA AppendOfConcat ==
    ASSUME NEW o \in Seq(Entries), NEW new \in Seq(Entries), NEW e \in Entries
    PROVE  Append(o \o new, e) = o \o Append(new, e) /\ Append(new, e) \in Seq(Entries)
  <1>1. o \o new \in Seq(Entries) /\ Len(o \o new) = Len(o) + Len(new) /\ Append(new, e) \in Seq(Entries) /\ Len(Append(new, e)) = Len(new) + 1
    OBVIOUS
  <1>2. Append(o \o new, e) \in Seq(Entries) /\ o \o Append(new, e) \in Seq(Entries)
        /\ Len(Append(o \o new, e)) = Len(o \o Append(new, e))
    BY <1>1
  <1>3. \A i \in 1..Len(Append(o \o new, e)) : Append(o \o new, e)[i] = (o \o Append(new, e))[i]
    BY <1>1
  <1> QED
    BY <1>1, <1>2, <1>3, SeqEqual

\* Reads that are left of a memory, each with no more room than it had there.
Kept(o, mem) ==
    /\ o \in Seq(Entries)
    /\ \A i \in 1..Len(o) : \E j \in 1..Len(mem) : mem[j] = o[i] /\ Room(o)[i] <= Room(mem)[j]

\* A memory after some reads: those that are left of it, and after them only new ones.
Recorded(s, mem, fresh) ==
    \E o, new \in Seq(Entries) : s = o \o new /\ Kept(o, mem) /\ \A i \in 1..Len(new) : new[i] \in fresh

\* One more read that was not shown keeps it so.
LEMMA OneRecorded ==
    ASSUME DiskHolds, NEW mem \in Seq(Entries), NEW fresh \in SUBSET Entries, NEW ask \in Asks, Entry(ask) \in fresh,
           \A j \in 1..Len(mem) : mem[j].ask = ask => Room(mem)[j] = 0,
           NEW s, Recorded(s, mem, fresh)
    PROVE  Recorded(Remember(s, ask), mem, fresh)
  <1>1. PICK o, new \in Seq(Entries) : s = o \o new /\ Kept(o, mem) /\ \A i \in 1..Len(new) : new[i] \in fresh
    BY DEF Recorded
  <1>2. s \in Seq(Entries) /\ Len(s) = Len(o) + Len(new) /\ Len(o) \in Nat /\ Len(new) \in Nat
        /\ \A i \in 1..(Len(o) + Len(new)) : s[i] = IF i <= Len(o) THEN o[i] ELSE new[i - Len(o)]
    BY <1>1, ConcatProperties
  <1>3. PICK e \in Entries : e = Entry(ask) /\ e \in fresh
    OBVIOUS
  <1>4. CASE Remember(s, ask) = Append(s, Entry(ask))
    <2>1. Append(o \o new, e) = o \o Append(new, e) /\ Append(new, e) \in Seq(Entries)
      BY AppendOfConcat
    <2>1a. Remember(s, ask) = o \o Append(new, e)
      BY <1>1, <1>3, <1>4, <2>1
    <2>2. \A i \in 1..Len(Append(new, e)) : Append(new, e)[i] \in fresh
      BY <1>1, <1>3
    <2> QED
      BY <1>1, <2>1, <2>1a, <2>2 DEF Recorded
  <1>5. ASSUME NEW k \in 1..Len(s), s[k].ask = ask, Remember(s, ask) = Append(RemoveAt(s, k), Entry(ask))
        PROVE  Recorded(Remember(s, ask), mem, fresh)
    <2>1. k \in 1..(Len(o) + Len(new))
      BY <1>2
    <2>2. CASE k <= Len(o)
      <3>1. k \in 1..Len(o) /\ o[k].ask = ask
        BY <1>2, <1>5, <2>1, <2>2
      <3>2. Room(o)[k] = 0
        <4>1. PICK j \in 1..Len(mem) : mem[j] = o[k] /\ Room(o)[k] <= Room(mem)[j]
          BY <1>1, <3>1 DEF Kept
        <4>2. Room(mem)[j] = 0
          BY <3>1, <4>1
        <4>3. Room(o)[k] \in Nat
          BY <3>1, RoomFacts
        <4> QED
          BY <4>1, <4>2, <4>3
      <3> DEFINE r == RemoveAt(o, k)
      <3>3. /\ r \in Seq(Entries) /\ Len(r) = Len(o) - 1
            /\ \A i \in 1..(Len(o) - 1) : r[i] = IF i < k THEN o[i] ELSE o[i + 1]
        BY <3>1, RemovedFacts
      <3>4. /\ \A i \in k..(Len(o) - 1) : Room(r)[i] = Room(o)[i + 1]
            /\ \A i \in 1..(k - 1) : Room(r)[i] = 0
        BY <3>1, <3>2, RoomOfRemoved
      <3>5. RemoveAt(s, k) = r \o new
        BY <1>1, <2>1, <2>2, RemovedOfConcat
      <3> HIDE DEF r
      <3>6. ASSUME NEW i \in 1..Len(r) PROVE \E j \in 1..Len(mem) : mem[j] = r[i] /\ Room(r)[i] <= Room(mem)[j]
        <4>1. CASE i < k
          <5>1. i \in 1..Len(o) /\ r[i] = o[i] /\ Room(r)[i] = 0
            BY <1>2, <3>1, <3>3, <3>4, <4>1
          <5>2. PICK j \in 1..Len(mem) : mem[j] = o[i]
            BY <1>1, <5>1 DEF Kept
          <5>3. Room(mem)[j] \in Nat
            BY RoomFacts
          <5> QED
            BY <5>1, <5>2, <5>3
        <4>2. CASE ~(i < k)
          <5>1. i + 1 \in 1..Len(o) /\ r[i] = o[i + 1] /\ Room(r)[i] = Room(o)[i + 1]
            BY <1>2, <3>1, <3>3, <3>4, <4>2
          <5>2. PICK j \in 1..Len(mem) : mem[j] = o[i + 1] /\ Room(o)[i + 1] <= Room(mem)[j]
            BY <1>1, <5>1 DEF Kept
          <5> QED
            BY <5>1, <5>2
        <4> QED
          BY <4>1, <4>2
      <3>7. Kept(r, mem)
        BY <3>3, <3>6 DEF Kept
      <3>8a. Append(r \o new, e) = r \o Append(new, e) /\ Append(new, e) \in Seq(Entries)
        BY <3>3, AppendOfConcat
      <3>8. Remember(s, ask) = r \o Append(new, e) /\ Append(new, e) \in Seq(Entries)
        BY <1>3, <1>5, <3>5, <3>8a
      <3>9. \A i \in 1..Len(Append(new, e)) : Append(new, e)[i] \in fresh
        BY <1>1, <1>3
      <3> QED
        BY <3>3, <3>7, <3>8, <3>9 DEF Recorded
    <2>3. CASE ~(k <= Len(o))
      <3> DEFINE h == k - Len(o)
                 r == RemoveAt(new, h)
      <3>1. h \in 1..Len(new) /\ RemoveAt(s, k) = o \o r
        BY <1>1, <2>1, <2>3, RemovedOfConcat
      <3>2. /\ r \in Seq(Entries) /\ Len(r) = Len(new) - 1
            /\ \A i \in 1..(Len(new) - 1) : r[i] = IF i < h THEN new[i] ELSE new[i + 1]
        BY <3>1, RemovedFacts
      <3> HIDE DEF r, h
      <3>3a. Append(o \o r, e) = o \o Append(r, e) /\ Append(r, e) \in Seq(Entries)
        BY <3>2, AppendOfConcat
      <3>3. Remember(s, ask) = o \o Append(r, e) /\ Append(r, e) \in Seq(Entries)
        BY <1>3, <1>5, <3>1, <3>3a
      <3>4. ASSUME NEW i \in 1..Len(r) PROVE r[i] \in fresh
        <4>1. i \in 1..Len(new) /\ i + 1 \in 1..Len(new) /\ i \in 1..(Len(new) - 1)
          BY <1>2, <3>2
        <4> QED
          BY <1>1, <3>2, <4>1
      <3>5. \A i \in 1..Len(Append(r, e)) : Append(r, e)[i] \in fresh
        BY <1>3, <3>2, <3>4
      <3> QED
        BY <1>1, <3>3, <3>5 DEF Recorded
    <2> QED
      BY <2>2, <2>3
  <1> QED
    BY <1>2, <1>4, <1>5, RememberFacts

\* A batch of reads none of which was shown leaves what is left of the memory, and what it printed.
LEMMA BatchRecorded ==
    ASSUME DiskHolds, NEW mem \in Seq(Entries), NEW batch \in Seq(Asks),
           \A n \in 1..Len(batch) : \A j \in 1..Len(mem) : mem[j].ask = batch[n] => Room(mem)[j] = 0
    PROVE  /\ RememberAll(mem, batch) \in Seq(Entries)
           /\ Recorded(RememberAll(mem, batch), mem, {Entry(batch[n]) : n \in 1..Len(batch)})
  <1> DEFINE N == Len(batch)
             G == [p \in (1..N) \X Seq(Entries) |-> Remember(p[2], batch[p[1]])]
             fresh == {Entry(batch[n]) : n \in 1..N}
  <1>1. N \in Nat /\ \A n \in 1..N : batch[n] \in Asks
    OBVIOUS
  <1>2. G \in [(1..N) \X Seq(Entries) -> Seq(Entries)]
    BY <1>1, RememberFacts
  <1> HIDE DEF G, N, fresh
  <1>3. PICK f : Follows(f, N, Seq(Entries), mem, G)
    BY <1>1, <1>2, StepByStep
  <1>4. f \in [0..N -> Seq(Entries)] /\ f[0] = mem /\ \A n \in 1..N : f[n] = G[<<n, f[n - 1]>>]
    BY <1>3 DEF Follows
  <1>5. ASSUME NEW n \in 1..N PROVE f[n] = Remember(f[n - 1], batch[n])
    <2>1. f[n - 1] \in Seq(Entries)
      BY <1>1, <1>4
    <2> QED
      BY <1>4, <2>1 DEF G
  <1> DEFINE Def(g) == [n \in 0..N |-> IF n = 0 THEN mem ELSE Remember(g[n - 1], batch[n])]
             kept == CHOOSE g : g = Def(g)
  <1>6. f = Def(f)
    BY <1>1, <1>4, <1>5
  <1>7. RememberAll(mem, batch) = kept[N]
    BY DEF RememberAll, N
  <1>8. kept = Def(kept)
    BY <1>6
  <1> HIDE DEF kept
  <1>9. kept[0] = mem /\ \A n \in 1..N : kept[n] = Remember(kept[n - 1], batch[n])
    BY <1>1, <1>8
  <1> HIDE DEF Def
  <1> DEFINE T == {n \in 0..N : kept[n] \in Seq(Entries) /\ Recorded(kept[n], mem, fresh)}
  <1>10. 0 \in T
    <2>1. <<>> \in Seq(Entries) /\ mem \o <<>> = mem /\ \A i \in 1..Len(<<>>) : <<>>[i] \in fresh
      OBVIOUS
    <2>2. Kept(mem, mem)
      <3>1. \A i \in 1..Len(mem) : Room(mem)[i] \in Nat
        BY RoomFacts
      <3> QED
        BY <3>1 DEF Kept
    <2>3. Recorded(mem, mem, fresh)
      BY <2>1, <2>2 DEF Recorded
    <2> QED
      BY <1>1, <1>9, <2>3
  <1>11. ASSUME NEW n \in 0..N, n \in T, n < N PROVE n + 1 \in T
    <2>1. n + 1 \in 1..N /\ (n + 1) - 1 = n
      BY <1>1, <1>11
    <2>2. kept[n + 1] = Remember(kept[n], batch[n + 1])
      BY <1>9, <2>1
    <2>3. PICK ask \in Asks : ask = batch[n + 1]
      BY <1>1, <2>1
    <2>4. fresh \in SUBSET Entries /\ Entry(ask) \in fresh
      BY <1>1, <2>1, <2>3, EntryFacts DEF fresh
    <2>5. \A j \in 1..Len(mem) : mem[j].ask = ask => Room(mem)[j] = 0
      BY <2>1, <2>3 DEF N
    <2>6. Recorded(Remember(kept[n], ask), mem, fresh)
      BY <1>11, <2>4, <2>5, OneRecorded
    <2>7. Remember(kept[n], ask) \in Seq(Entries)
      BY <1>11, RememberFacts
    <2> QED
      BY <1>1, <2>1, <2>2, <2>3, <2>6, <2>7
  <1> HIDE DEF T
  <1>12. N \in T
    <2>1. \A n \in 0..N : n \in T
      BY <1>1, <1>10, <1>11, AllOfThem
    <2> QED
      BY <1>1, <2>1
  <1> QED
    BY <1>7, <1>12 DEF T, fresh, N

\* What a file is on the disk, and in a fingerprint.
Seen == [lines : Seq(BOOLEAN), at : Nat]

\* What each part of the state holds.
MemoryTypes ==
    /\ writes \in 0..MaxWrites
    /\ disk \in [Files -> Seen] /\ DiskHolds /\ \A f \in Files : disk[f].at \in 0..writes
    /\ memory \in Seq(Entries)
    /\ fp \in {Unknown} \union [Counted -> Seen] /\ src \in {Unknown} \union [Sources -> Seen]
    /\ fp = Unknown <=> src = Unknown
    /\ unsynced \in BOOLEAN /\ meddled \in BOOLEAN /\ roundAt \in {"idle", "asked", "round"}
    /\ ran \subseteq Asks /\ inPrompt \in [shown : SUBSET Asks, whole : SUBSET Asks]
    /\ inPrompt.whole \subseteq inPrompt.shown

\* Nothing wrote since the last walk that the run did not look at.
Looked == ~unsynced /\ ~meddled

\* A fingerprint is of the past: a file it says was written when it was last written has not changed since.
WalkIsPast ==
    fp # Unknown =>
      \A f \in Counted : fp[f].at <= disk[f].at /\ (fp[f].at = disk[f].at => fp[f] = disk[f])

\* While every write was looked at, the tree is the one of the last walk.
WalkIsCurrent ==
    Looked => /\ fp # Unknown => \A f \in Counted : disk[f] = fp[f]
              /\ src # Unknown => \A f \in Sources : disk[f] = src[f]

\* A kept read of a counted file says what the file says, as long as it is as the last walk
\* saw it; where that walk saw nothing, as long as every write was looked at.
KeptIsTrue ==
    \A i \in 1..Len(memory) : LET f == memory[i].ask.file IN
      f \in Counted /\ ((fp # Unknown /\ disk[f] = fp[f]) \/ (fp = Unknown /\ Looked))
        => memory[i].out = Printed(memory[i].ask, disk)

\* From the prompt to the end of the round, what memory may answer is in the prompt or was run since.
KeptIsInView ==
    roundAt # "idle" =>
      /\ \A i \in Shown(memory) : memory[i].ask \in ran \union inPrompt.shown
      /\ \A i \in Whole(memory) : memory[i].ask \in ran \union inPrompt.whole

MemoryInv == MemoryTypes /\ WalkIsPast /\ WalkIsCurrent /\ KeptIsTrue /\ KeptIsInView

\* No fingerprint is Unknown.
LEMMA FingerprintIsKnown ==
    ASSUME NEW files \in {Counted, Sources}, NEW d
    PROVE  FingerprintOf(files, d) # Unknown
  <1>1. files \subseteq Files /\ "unknown" \notin files
    BY MemoryAssumption
  <1>2. DOMAIN FingerprintOf(files, d) = files
    BY DEF FingerprintOf
  <1>3. DOMAIN Unknown = {"unknown"}
    BY DEF Unknown
  <1> QED
    BY <1>1, <1>2, <1>3

\* The invariant gives what a round goes by.
LEMMA MemoryInvGives ==
    ASSUME MemoryInv PROVE RecallIsTrue
  <1>1. MemoryTypeOK
    <2>1. \A i \in 1..Len(memory) : memory[i].ask \in Asks /\ memory[i].to \in {memory[i].ask.to, WholeFile}
      BY DEF MemoryInv, MemoryTypes, Entries
    <2> QED
      BY <2>1 DEF MemoryInv, MemoryTypes, MemoryTypeOK, DiskHolds
  <1>2. RecallIsFresh
    <2> SUFFICES ASSUME NEW ask \in Asks, Vouched(ask.file), NEW i \in Answers(ask)
                 PROVE  memory[i].out = Printed(memory[i].ask, disk)
      BY DEF RecallIsFresh
    <2>1. i \in 1..Len(memory) /\ memory[i].ask.file = ask.file
      BY DEF Answers, Shown, Whole
    <2>2. ask.file \in Counted /\ Looked
      BY DEF Vouched, Looked
    <2>3. fp # Unknown => disk[ask.file] = fp[ask.file]
      BY <2>2 DEF MemoryInv, WalkIsCurrent
    <2> QED
      BY <2>1, <2>2, <2>3 DEF MemoryInv, KeptIsTrue
  <1>3. RecallIsInView
    <2> SUFFICES ASSUME roundAt = "round", NEW ask \in Asks, NEW i \in Answers(ask)
                 PROVE  \/ memory[i].ask \in ran
                        \/ memory[i].ask \in (IF memory[i].ask = ask THEN inPrompt.shown ELSE inPrompt.whole)
      BY DEF RecallIsInView
    <2>1. \/ i \in Shown(memory) /\ memory[i].ask = ask
          \/ i \in Whole(memory)
      BY DEF Answers
    <2>2. /\ \A j \in Shown(memory) : memory[j].ask \in ran \union inPrompt.shown
          /\ \A j \in Whole(memory) : memory[j].ask \in ran \union inPrompt.whole
      BY DEF MemoryInv, KeptIsInView
    <2>3. inPrompt.whole \subseteq inPrompt.shown
      BY DEF MemoryInv, MemoryTypes
    <2> QED
      BY <2>1, <2>2, <2>3
  <1>4. SourcesAreCurrent
    <2> SUFFICES ASSUME src # Unknown, ~unsynced, ~meddled PROVE src = FingerprintOf(Sources, disk)
      BY DEF SourcesAreCurrent
    <2>1. src \in [Sources -> Seen] /\ \A f \in Sources : disk[f] = src[f]
      BY DEF MemoryInv, MemoryTypes, WalkIsCurrent, Looked
    <2> QED
      BY <2>1 DEF FingerprintOf
  <1> QED
    BY <1>1, <1>2, <1>3, <1>4 DEF RecallIsTrue

\* At the start nothing is kept, shown or fingerprinted.
LEMMA MemoryInvInit ==
    ASSUME MemoryInit PROVE MemoryInv
  <1>1. MemoryTypes
    <2>1. \A f \in Files : disk[f].lines \in Contents[f] /\ disk[f].lines \in Seq(BOOLEAN) /\ disk[f].at = 0 /\ disk[f] \in Seen
      BY MemoryAssumption DEF MemoryInit, Seen
    <2>2. disk \in [Files -> Seen]
      BY <2>1 DEF MemoryInit
    <2>3. 0 \in 0..MaxWrites
      BY MemoryAssumption
    <2>4. memory \in Seq(Entries)
      BY DEF MemoryInit
    <2>5. inPrompt \in [shown : SUBSET Asks, whole : SUBSET Asks] /\ inPrompt.whole \subseteq inPrompt.shown
      BY DEF MemoryInit, NothingShown
    <2>6. writes = 0 /\ \A f \in Files : disk[f].at \in 0..writes
      BY <2>1 DEF MemoryInit
    <2> QED
      BY <2>1, <2>2, <2>3, <2>4, <2>5, <2>6 DEF MemoryInit, MemoryTypes, DiskHolds
  <1>2. WalkIsPast /\ WalkIsCurrent
    BY DEF MemoryInit, WalkIsPast, WalkIsCurrent
  <1>3. KeptIsTrue
    BY DEF MemoryInit, KeptIsTrue
  <1>4. KeptIsInView
    BY DEF MemoryInit, KeptIsInView
  <1> QED
    BY <1>1, <1>2, <1>3, <1>4 DEF MemoryInv

\* Time goes on for every file that is written.
Advanced ==
    /\ writes' \in 0..MaxWrites
    /\ disk' \in [Files -> Seen] /\ DiskHolds' /\ \A f \in Files : disk'[f].at \in 0..writes'
    /\ \A f \in Files : disk'[f] = disk[f] \/ disk'[f].at > writes

\* A command that may write gives the files it wrote a time of their own.
LEMMA MayWriteAdvances ==
    ASSUME MemoryTypes, MayWrite PROVE Advanced
  <1>0. /\ writes \in 0..MaxWrites /\ MaxWrites \in Nat
        /\ disk \in [Files -> Seen] /\ DiskHolds /\ \A f \in Files : disk[f].at \in 0..writes
    BY MemoryAssumption DEF MemoryTypes
  <1>1. CASE UNCHANGED <<disk, writes>>
    BY <1>0, <1>1 DEF Advanced, DiskHolds
  <1>2. CASE Rewrites(Files)
    <2>1. PICK g \in Files : \E c \in Contents[g] :
            /\ writes < MaxWrites /\ writes' = writes + 1
            /\ disk' = [disk EXCEPT ![g] = [lines |-> c, at |-> writes + 1]]
      BY <1>2 DEF Rewrites
    <2>2. PICK c \in Contents[g] :
            /\ writes < MaxWrites /\ writes' = writes + 1
            /\ disk' = [disk EXCEPT ![g] = [lines |-> c, at |-> writes + 1]]
      BY <2>1
    <2>3. c \in Seq(BOOLEAN)
      BY MemoryAssumption
    <2>4. [lines |-> c, at |-> writes + 1] \in Seen
      BY <1>0, <2>3 DEF Seen
    <2>5. writes' \in 0..MaxWrites /\ writes + 1 \in 0..writes' /\ writes + 1 > writes /\ 0..writes \subseteq 0..writes'
      BY <1>0, <2>2
    <2>6. disk' \in [Files -> Seen]
      BY <1>0, <2>2, <2>4
    <2>7. ASSUME NEW f \in Files
          PROVE  /\ disk'[f].lines \in Contents[f] /\ disk'[f].at \in 0..writes'
                 /\ disk'[f] = disk[f] \/ disk'[f].at > writes
      <3>1. CASE f = g
        <4>1. disk'[f] = [lines |-> c, at |-> writes + 1]
          BY <1>0, <2>2, <3>1
        <4> QED
          BY <2>5, <3>1, <4>1
      <3>2. CASE f # g
        <4>1. disk'[f] = disk[f]
          BY <1>0, <2>2, <3>2
        <4> QED
          BY <1>0, <2>5, <4>1 DEF DiskHolds
      <3> QED
        BY <3>1, <3>2
    <2> QED
      BY <2>5, <2>6, <2>7 DEF Advanced, DiskHolds
  <1> QED
    BY <1>1, <1>2 DEF MayWrite

\* A read prints the same of a file that is the same.
LEMMA PrintsTheSame ==
    ASSUME NEW ask, NEW d, NEW e, d[ask.file] = e[ask.file]
    PROVE  Printed(ask, d) = Printed(ask, e)
  BY DEF Printed

\* A write that is not looked at leaves the invariant, for nothing relies on it any more.
LEMMA AsideKeeps ==
    ASSUME MemoryInv, Advanced, UNCHANGED <<memory, fp, src, roundAt, inPrompt, ran>>,
           unsynced' \in BOOLEAN, meddled' \in BOOLEAN, unsynced' \/ meddled'
    PROVE  MemoryInv'
  <1>0. ~Looked'
    BY DEF Looked
  <1>1. MemoryTypes'
    BY DEF MemoryInv, MemoryTypes, Advanced
  <1>2. ASSUME fp # Unknown, NEW f \in Counted
        PROVE  /\ fp[f].at \in Nat /\ disk[f].at \in Nat /\ disk'[f].at \in Nat /\ fp[f].at <= disk[f].at /\ disk[f].at <= writes
               /\ disk'[f] # disk[f] => disk'[f].at > disk[f].at
    <2>1. fp[f] \in Seen /\ disk[f] \in Seen /\ disk'[f] \in Seen /\ disk[f].at \in 0..writes /\ writes \in Nat
      BY <1>2, MemoryAssumption DEF MemoryInv, MemoryTypes, Advanced
    <2>2. fp[f].at \in Nat /\ disk[f].at \in Nat /\ disk'[f].at \in Nat
      BY <2>1 DEF Seen
    <2>3. fp[f].at <= disk[f].at /\ (disk'[f] = disk[f] \/ disk'[f].at > writes)
      BY <1>2, MemoryAssumption DEF MemoryInv, WalkIsPast, Advanced
    <2> QED
      BY <2>1, <2>2, <2>3
  <1>3. WalkIsPast'
    <2> SUFFICES ASSUME fp # Unknown, NEW f \in Counted
                 PROVE  fp[f].at <= disk'[f].at /\ (fp[f].at = disk'[f].at => fp[f] = disk'[f])
      BY DEF WalkIsPast
    <2>1. CASE disk'[f] = disk[f]
      BY <2>1 DEF MemoryInv, WalkIsPast
    <2>2. CASE disk'[f] # disk[f]
      <3>1. fp[f].at < disk'[f].at
        BY <1>2, <2>2
      <3> QED
        BY <1>2, <3>1
    <2> QED
      BY <2>1, <2>2
  <1>4. WalkIsCurrent'
    BY <1>0 DEF WalkIsCurrent
  <1>5. KeptIsTrue'
    <2> SUFFICES ASSUME NEW i \in 1..Len(memory), memory[i].ask.file \in Counted, fp # Unknown,
                        disk'[memory[i].ask.file] = fp[memory[i].ask.file]
                 PROVE  memory[i].out = Printed(memory[i].ask, disk')
      BY <1>0 DEF KeptIsTrue
    <2>1. PICK f \in Counted : f = memory[i].ask.file
      OBVIOUS
    <2>2. disk'[f] = disk[f]
      BY <1>2, <2>1
    <2>3. memory[i].out = Printed(memory[i].ask, disk)
      BY <2>1, <2>2 DEF MemoryInv, KeptIsTrue
    <2> QED
      BY <2>1, <2>2, <2>3, PrintsTheSame
  <1>6. KeptIsInView'
    BY DEF MemoryInv, KeptIsInView
  <1> QED
    BY <1>1, <1>3, <1>4, <1>5, <1>6 DEF MemoryInv

\* A walk leaves the invariant: it keeps the reads only if it sees what the last one saw.
LEMMA SyncKeeps ==
    ASSUME MemoryInv, Advanced, Sync, UNCHANGED <<inPrompt, ran>>, roundAt # "idle", roundAt' = "round"
    PROVE  MemoryInv'
  <1>1. /\ unsynced' = FALSE /\ meddled' = FALSE /\ (memory' = <<>> \/ (memory' = memory /\ fp' = fp /\ fp # Unknown))
        /\ \/ fp' = FingerprintOf(Counted, disk') /\ src' = FingerprintOf(Sources, disk')
           \/ fp' = Unknown /\ src' = Unknown
    BY DEF Sync
  <1>2. /\ FingerprintOf(Counted, disk') \in [Counted -> Seen] /\ FingerprintOf(Sources, disk') \in [Sources -> Seen]
        /\ FingerprintOf(Counted, disk') # Unknown /\ FingerprintOf(Sources, disk') # Unknown
    <2>1. Counted \subseteq Files /\ Sources \subseteq Files
      BY MemoryAssumption
    <2> QED
      BY <2>1, FingerprintIsKnown DEF FingerprintOf, Advanced
  <1>3. <<>> \in Seq(Entries)
    OBVIOUS
  <1>4. MemoryTypes'
    BY <1>1, <1>2, <1>3 DEF MemoryInv, MemoryTypes, Advanced
  <1>5. (fp' # Unknown => \A f \in Counted : fp'[f] = disk'[f]) /\ (src' # Unknown => \A f \in Sources : src'[f] = disk'[f])
    BY <1>1 DEF FingerprintOf
  <1>6. WalkIsPast'
    <2>1. \A f \in Counted : disk'[f].at \in Nat
      BY MemoryAssumption DEF Advanced, Seen
    <2> QED
      BY <1>5, <2>1 DEF WalkIsPast
  <1>7. WalkIsCurrent'
    BY <1>5 DEF WalkIsCurrent
  <1>8. CASE memory' = <<>>
    <2>1. KeptIsTrue'
      BY <1>8 DEF KeptIsTrue
    <2>2. KeptIsInView'
      BY <1>8 DEF KeptIsInView, Shown, Whole
    <2> QED
      BY <1>4, <1>6, <1>7, <2>1, <2>2 DEF MemoryInv
  <1>9. CASE memory' = memory /\ fp' = fp /\ fp # Unknown
    <2>1. KeptIsTrue'
      <3> SUFFICES ASSUME NEW i \in 1..Len(memory), memory[i].ask.file \in Counted
                   PROVE  memory[i].out = Printed(memory[i].ask, disk')
        BY <1>9 DEF KeptIsTrue
      <3>1. PICK f \in Counted : f = memory[i].ask.file
        OBVIOUS
      <3>2. disk'[f] = fp[f]
        BY <1>5, <1>9
      <3>3. disk'[f] = disk[f]
        <4>1. disk[f] \in Seen /\ disk[f].at \in 0..writes /\ writes \in Nat /\ disk'[f] \in Seen
          BY MemoryAssumption DEF MemoryInv, MemoryTypes, Advanced
        <4>2. fp[f].at <= disk[f].at /\ (disk'[f] = disk[f] \/ disk'[f].at > writes)
          BY <1>9, MemoryAssumption DEF MemoryInv, WalkIsPast, Advanced
        <4>3. disk'[f].at \in Nat /\ disk[f].at <= writes /\ disk[f].at \in Nat
          BY <4>1 DEF Seen
        <4> QED
          BY <3>2, <4>1, <4>2, <4>3
      <3>4. memory[i].out = Printed(memory[i].ask, disk)
        BY <1>9, <3>1, <3>2, <3>3 DEF MemoryInv, KeptIsTrue
      <3> QED
        BY <3>1, <3>3, <3>4, PrintsTheSame
    <2>2. KeptIsInView'
      BY <1>9 DEF MemoryInv, KeptIsInView
    <2> QED
      BY <1>4, <1>6, <1>7, <2>1, <2>2 DEF MemoryInv
  <1> QED
    BY <1>1, <1>8, <1>9

\* A prompt shows what the memory may answer.
LEMMA AskKeeps ==
    ASSUME MemoryInv, Ask PROVE MemoryInv'
  <1>1. /\ UNCHANGED <<disk, writes, memory, fp, src, unsynced, ran, meddled>> /\ roundAt' = "asked"
        /\ inPrompt' = [shown |-> {memory[i].ask : i \in Shown(memory)}, whole |-> {memory[i].ask : i \in Whole(memory)}]
    BY DEF Ask
  <1>2. \A i \in 1..Len(memory) : memory[i].ask \in Asks
    BY DEF MemoryInv, MemoryTypes, Entries
  <1>3. Shown(memory) \subseteq 1..Len(memory) /\ Whole(memory) \subseteq Shown(memory)
    BY DEF Shown, Whole
  <1>4. /\ inPrompt' \in [shown : SUBSET Asks, whole : SUBSET Asks] /\ inPrompt'.whole \subseteq inPrompt'.shown
        /\ \A i \in Shown(memory) : memory[i].ask \in inPrompt'.shown
        /\ \A i \in Whole(memory) : memory[i].ask \in inPrompt'.whole
    BY <1>1, <1>2, <1>3
  <1>5. MemoryTypes'
    BY <1>1, <1>4 DEF MemoryInv, MemoryTypes, DiskHolds
  <1>6. WalkIsPast' /\ WalkIsCurrent' /\ KeptIsTrue'
    BY <1>1 DEF MemoryInv, WalkIsPast, WalkIsCurrent, KeptIsTrue, Looked
  <1>7. KeptIsInView'
    BY <1>1, <1>4 DEF KeptIsInView
  <1> QED
    BY <1>5, <1>6, <1>7 DEF MemoryInv

\* What a batch leaves in memory was there, with no less room, or was printed by the batch.
LEMMA RunReadsFacts ==
    ASSUME MemoryInv, RunReads
    PROVE  /\ UNCHANGED <<disk, writes, fp, src, unsynced, roundAt, inPrompt, meddled>>
           /\ ran' \subseteq Asks /\ ran \subseteq ran' /\ memory' \in Seq(Entries)
           /\ \A i \in 1..Len(memory') :
                \/ \E j \in 1..Len(memory) : memory[j] = memory'[i] /\ Room(memory')[i] <= Room(memory)[j]
                \/ memory'[i].ask \in ran' /\ memory'[i].out = Printed(memory'[i].ask, disk)
  <1>1. PICK n \in 1..MaxReads : \E batch \in [1..n -> Asks] :
          /\ \A i \in DOMAIN batch : Answers(batch[i]) = {}
          /\ memory' = RememberAll(memory, batch)
          /\ ran' = ran \union {batch[i] : i \in DOMAIN batch}
    BY DEF RunReads
  <1>2. PICK batch \in [1..n -> Asks] :
          /\ \A i \in DOMAIN batch : Answers(batch[i]) = {}
          /\ memory' = RememberAll(memory, batch)
          /\ ran' = ran \union {batch[i] : i \in DOMAIN batch}
    BY <1>1
  <1>3. batch \in Seq(Asks) /\ Len(batch) = n /\ DOMAIN batch = 1..n /\ \A k \in 1..n : batch[k] \in Asks
    BY MemoryAssumption
  <1>4. DiskHolds /\ memory \in Seq(Entries) /\ ran \subseteq Asks
    BY DEF MemoryInv, MemoryTypes
  <1>5. ASSUME NEW k \in 1..Len(batch), NEW j \in 1..Len(memory), memory[j].ask = batch[k]
        PROVE  Room(memory)[j] = 0
    <2>1. j \notin {i \in Shown(memory) : memory[i].ask = batch[k]}
      BY <1>2, <1>3 DEF Answers
    <2>2. ~(Room(memory)[j] > 0)
      BY <1>5, <2>1 DEF Shown
    <2>3. Room(memory)[j] \in Nat
      BY <1>4, RoomFacts
    <2> QED
      BY <2>2, <2>3
  <1> DEFINE fresh == {Entry(batch[k]) : k \in 1..Len(batch)}
  <1>6. memory' \in Seq(Entries) /\ Recorded(memory', memory, fresh)
    <2>1. PICK mem \in Seq(Entries) : mem = memory
      BY <1>4
    <2>2. RememberAll(mem, batch) \in Seq(Entries) /\ Recorded(RememberAll(mem, batch), mem, fresh)
      BY <1>3, <1>4, <1>5, <2>1, BatchRecorded
    <2> QED
      BY <1>2, <2>1, <2>2
  <1>7. ASSUME NEW e \in fresh PROVE e.ask \in ran' /\ e.out = Printed(e.ask, disk)
    <2>1. PICK k \in 1..n : e = Entry(batch[k])
      BY <1>3
    <2>2. e.ask = batch[k] /\ e.out = Printed(batch[k], disk)
      BY <1>3, <1>4, <2>1, EntryFacts
    <2> QED
      BY <1>2, <1>3, <2>2
  <1> HIDE DEF fresh
  <1>8. PICK o, new \in Seq(Entries) : memory' = o \o new /\ Kept(o, memory) /\ \A i \in 1..Len(new) : new[i] \in fresh
    BY <1>6 DEF Recorded
  <1>9. Len(memory') = Len(o) + Len(new) /\ Len(o) \in Nat /\ Len(new) \in Nat
        /\ \A i \in 1..(Len(o) + Len(new)) : memory'[i] = IF i <= Len(o) THEN o[i] ELSE new[i - Len(o)]
    BY <1>8, ConcatProperties
  <1>10. ASSUME NEW i \in 1..Len(memory')
         PROVE  \/ \E j \in 1..Len(memory) : memory[j] = memory'[i] /\ Room(memory')[i] <= Room(memory)[j]
                \/ memory'[i].ask \in ran' /\ memory'[i].out = Printed(memory'[i].ask, disk)
    <2>1. CASE i <= Len(o)
      <3>1. i \in 1..Len(o) /\ memory'[i] = o[i]
        BY <1>9, <2>1
      <3>2. PICK j \in 1..Len(memory) : memory[j] = o[i] /\ Room(o)[i] <= Room(memory)[j]
        BY <1>8, <3>1 DEF Kept
      <3>3. Room(memory')[i] <= Room(o)[i]
        BY <1>8, <3>1, RoomOfConcat
      <3>4. Room(memory')[i] \in Nat /\ Room(o)[i] \in Nat /\ Room(memory)[j] \in Nat
        <4>1. Room(memory')[i] \in Nat
          BY <1>6, RoomFacts
        <4>2. Room(o)[i] \in Nat
          BY <3>1, RoomFacts
        <4>3. Room(memory)[j] \in Nat
          BY <1>4, RoomFacts
        <4> QED
          BY <4>1, <4>2, <4>3
      <3> QED
        BY <3>1, <3>2, <3>3, <3>4
    <2>2. CASE ~(i <= Len(o))
      <3>1. i - Len(o) \in 1..Len(new) /\ memory'[i] = new[i - Len(o)]
        BY <1>9, <2>2
      <3>2. memory'[i] \in fresh
        BY <1>8, <3>1
      <3> QED
        BY <1>7, <3>2
    <2> QED
      BY <2>1, <2>2
  <1>11. ran' \subseteq Asks /\ ran \subseteq ran'
    BY <1>2, <1>3, <1>4
  <1>12. UNCHANGED <<disk, writes, fp, src, unsynced, roundAt, inPrompt, meddled>>
    BY DEF RunReads
  <1> QED
    BY <1>6, <1>10, <1>11, <1>12

\* A batch of reads keeps the invariant: what is new in memory was just read.
LEMMA RunReadsKeeps ==
    ASSUME MemoryInv, RunReads PROVE MemoryInv'
  <1>1. /\ UNCHANGED <<disk, writes, fp, src, unsynced, roundAt, inPrompt, meddled>>
        /\ ran' \subseteq Asks /\ ran \subseteq ran' /\ memory' \in Seq(Entries)
    BY RunReadsFacts
  <1>2. \A i \in 1..Len(memory') :
                \/ \E j \in 1..Len(memory) : memory[j] = memory'[i] /\ Room(memory')[i] <= Room(memory)[j]
                \/ memory'[i].ask \in ran' /\ memory'[i].out = Printed(memory'[i].ask, disk)
    BY RunReadsFacts
  <1>3. roundAt = "round" /\ memory \in Seq(Entries)
    BY DEF RunReads, MemoryInv, MemoryTypes
  <1>4. MemoryTypes'
    BY <1>1 DEF MemoryInv, MemoryTypes, DiskHolds
  <1>5. WalkIsPast' /\ WalkIsCurrent'
    BY <1>1 DEF MemoryInv, WalkIsPast, WalkIsCurrent, Looked
  <1>6. KeptIsTrue'
    <2> SUFFICES ASSUME NEW i \in 1..Len(memory'), memory'[i].ask.file \in Counted,
                        \/ fp # Unknown /\ disk[memory'[i].ask.file] = fp[memory'[i].ask.file]
                        \/ fp = Unknown /\ Looked
                 PROVE  memory'[i].out = Printed(memory'[i].ask, disk)
      BY <1>1 DEF KeptIsTrue, Looked
    <2>1. CASE \E j \in 1..Len(memory) : memory[j] = memory'[i]
      BY <2>1 DEF MemoryInv, KeptIsTrue
    <2>2. CASE memory'[i].out = Printed(memory'[i].ask, disk)
      BY <2>2
    <2> QED
      BY <1>2, <2>1, <2>2
  <1>7. ASSUME NEW i \in 1..Len(memory') PROVE Room(memory')[i] \in Nat /\ Len(memory'[i].out) \in Nat
    <2>1. Room(memory')[i] \in Nat
      BY <1>1, RoomFacts
    <2>2. memory'[i] \in Entries
      BY <1>1
    <2> QED
      BY <2>1, <2>2 DEF Entries
  <1>8. ASSUME NEW i \in Shown(memory') PROVE memory'[i].ask \in ran' \union inPrompt.shown
    <2>1. i \in 1..Len(memory') /\ Room(memory')[i] > 0
      BY DEF Shown
    <2>2. CASE \E j \in 1..Len(memory) : memory[j] = memory'[i] /\ Room(memory')[i] <= Room(memory)[j]
      <3>1. PICK j \in 1..Len(memory) : memory[j] = memory'[i] /\ Room(memory')[i] <= Room(memory)[j]
        BY <2>2
      <3>2. Room(memory)[j] \in Nat
        BY <1>3, RoomFacts
      <3>3. j \in Shown(memory)
        BY <1>7, <2>1, <3>1, <3>2 DEF Shown
      <3>4. memory[j].ask \in ran \union inPrompt.shown
        BY <1>3, <3>3 DEF MemoryInv, KeptIsInView
      <3> QED
        BY <1>1, <3>1, <3>4
    <2> QED
      BY <1>2, <2>1, <2>2
  <1>9. ASSUME NEW i \in Whole(memory') PROVE memory'[i].ask \in ran' \union inPrompt.whole
    <2>1. i \in 1..Len(memory') /\ Room(memory')[i] > 0 /\ Len(memory'[i].out) <= Min({EvidenceEach, Room(memory')[i]})
      BY DEF Shown, Whole
    <2>2. CASE \E j \in 1..Len(memory) : memory[j] = memory'[i] /\ Room(memory')[i] <= Room(memory)[j]
      <3>1. PICK j \in 1..Len(memory) : memory[j] = memory'[i] /\ Room(memory')[i] <= Room(memory)[j]
        BY <2>2
      <3>2. Room(memory)[j] \in Nat /\ EvidenceEach \in Nat
        BY <1>3, RoomFacts, MemoryAssumption
      <3>3. j \in Shown(memory)
        BY <1>7, <2>1, <3>1, <3>2 DEF Shown
      <3>4. \A r \in Nat : Min({EvidenceEach, r}) \in {EvidenceEach, r} /\ Min({EvidenceEach, r}) <= EvidenceEach /\ Min({EvidenceEach, r}) <= r
        <4> TAKE r \in Nat
        <4>1. {EvidenceEach, r} \subseteq Nat
          BY <3>2
        <4> QED
          BY <4>1, LeastIsOne
      <3>5. Min({EvidenceEach, Room(memory')[i]}) <= Min({EvidenceEach, Room(memory)[j]})
        <4>1. PICK a \in Nat : a = Room(memory')[i]
          BY <1>7, <2>1
        <4>2. PICK b \in Nat : b = Room(memory)[j]
          BY <3>2
        <4>3. a <= b
          BY <3>1, <4>1, <4>2
        <4>4. Min({EvidenceEach, a}) <= Min({EvidenceEach, b})
          <5>1. Min({EvidenceEach, a}) <= EvidenceEach /\ Min({EvidenceEach, a}) <= a /\ Min({EvidenceEach, a}) \in {EvidenceEach, a}
            BY <3>4
          <5>2. Min({EvidenceEach, b}) \in {EvidenceEach, b}
            BY <3>4
          <5> QED
            BY <3>2, <4>3, <5>1, <5>2
        <4> QED
          BY <4>1, <4>2, <4>4
      <3>6. Len(memory[j].out) <= Min({EvidenceEach, Room(memory)[j]})
        <4>1. Min({EvidenceEach, Room(memory')[i]}) \in Nat /\ Min({EvidenceEach, Room(memory)[j]}) \in Nat
          <5>1. Min({EvidenceEach, Room(memory')[i]}) \in {EvidenceEach, Room(memory')[i]}
            BY <1>7, <2>1, <3>4
          <5>2. Min({EvidenceEach, Room(memory)[j]}) \in {EvidenceEach, Room(memory)[j]}
            BY <3>2, <3>4
          <5> QED
            BY <1>7, <2>1, <3>2, <5>1, <5>2
        <4> QED
          BY <1>7, <2>1, <3>1, <3>5, <4>1
      <3>7. j \in Whole(memory)
        BY <3>3, <3>6 DEF Whole
      <3>8. memory[j].ask \in ran \union inPrompt.whole
        BY <1>3, <3>7 DEF MemoryInv, KeptIsInView
      <3> QED
        BY <1>1, <3>1, <3>8
    <2> QED
      BY <1>2, <2>1, <2>2
  <1>10. KeptIsInView'
    BY <1>1, <1>8, <1>9 DEF KeptIsInView
  <1> QED
    BY <1>4, <1>5, <1>6, <1>10 DEF MemoryInv

\* Every step keeps the invariant.
LEMMA MemoryInvStep ==
    ASSUME MemoryInv, [MemoryNext]_memoryVars PROVE MemoryInv'
  <1>0. MemoryTypes
    BY DEF MemoryInv
  <1>1. CASE Ask
    BY <1>1, AskKeeps
  <1>2. CASE StartRound
    <2>1. MayWrite /\ Sync /\ UNCHANGED <<inPrompt, ran>> /\ roundAt # "idle" /\ roundAt' = "round"
      BY <1>2 DEF StartRound, MayWrite
    <2>2. Advanced
      BY <1>0, <2>1, MayWriteAdvances
    <2> QED
      BY <2>1, <2>2, SyncKeeps
  <1>3. CASE RunReads
    BY <1>3, RunReadsKeeps
  <1>4. CASE Write
    <2>1. MayWrite /\ Sync /\ UNCHANGED <<inPrompt, ran>> /\ roundAt # "idle" /\ roundAt' = "round"
      BY <1>4 DEF Write
    <2>2. Advanced
      BY <1>0, <2>1, MayWriteAdvances
    <2> QED
      BY <2>1, <2>2, SyncKeeps
  <1>5. CASE ActAside
    <2>1. /\ MayWrite /\ UNCHANGED <<memory, fp, src, roundAt, inPrompt, ran>>
          /\ unsynced' \in BOOLEAN /\ meddled' \in BOOLEAN /\ unsynced'
      BY <1>0, <1>5 DEF ActAside, MemoryTypes
    <2>2. Advanced
      BY <1>0, <2>1, MayWriteAdvances
    <2> QED
      BY <2>1, <2>2, AsideKeeps
  <1>6. CASE EndRound
    <2>1. /\ UNCHANGED <<disk, writes, memory, fp, src, unsynced, meddled>> /\ roundAt' = "idle"
          /\ inPrompt' = NothingShown /\ ran' = {}
      BY <1>6 DEF EndRound
    <2>2. inPrompt' \in [shown : SUBSET Asks, whole : SUBSET Asks] /\ inPrompt'.whole \subseteq inPrompt'.shown
      BY <2>1 DEF NothingShown
    <2>3. MemoryTypes'
      BY <2>1, <2>2 DEF MemoryInv, MemoryTypes, DiskHolds
    <2>4. WalkIsPast' /\ WalkIsCurrent' /\ KeptIsTrue'
      BY <2>1 DEF MemoryInv, WalkIsPast, WalkIsCurrent, KeptIsTrue, Looked
    <2>5. KeptIsInView'
      BY <2>1 DEF KeptIsInView
    <2> QED
      BY <2>3, <2>4, <2>5 DEF MemoryInv
  <1>7. CASE Meddle
    <2>1. /\ MayWrite /\ UNCHANGED <<memory, fp, src, roundAt, inPrompt, ran>>
          /\ unsynced' \in BOOLEAN /\ meddled' \in BOOLEAN /\ meddled'
      BY <1>0, <1>7 DEF Meddle, MayWrite, MemoryTypes
    <2>2. Advanced
      BY <1>0, <2>1, MayWriteAdvances
    <2> QED
      BY <2>1, <2>2, AsideKeeps
  <1>8. CASE UNCHANGED memoryVars
    <2>1. UNCHANGED <<disk, writes, memory, fp, src, unsynced, roundAt, inPrompt, ran, meddled>>
      BY <1>8 DEF memoryVars
    <2>2. MemoryTypes'
      BY <2>1 DEF MemoryInv, MemoryTypes, DiskHolds
    <2>3. WalkIsPast' /\ WalkIsCurrent' /\ KeptIsTrue' /\ KeptIsInView'
      BY <2>1 DEF MemoryInv, WalkIsPast, WalkIsCurrent, KeptIsTrue, KeptIsInView, Looked
    <2> QED
      BY <2>2, <2>3 DEF MemoryInv
  <1> QED
    BY <1>1, <1>2, <1>3, <1>4, <1>5, <1>6, <1>7, <1>8 DEF MemoryNext

\* In every run, whoever writes and whatever the walks miss: what a round goes by instead of
\* looking is true - an answer from memory is what the file says and what the model can still
\* see, and progress is measured against the sources of the tree (workmemory.go, recall, sync).
THEOREM RecallHolds == MemorySpec => []RecallIsTrue
  <1>1. MemoryInit => MemoryInv
    BY MemoryInvInit
  <1>2. MemoryInv /\ [MemoryNext]_memoryVars => MemoryInv'
    BY MemoryInvStep
  <1>3. MemoryInv => RecallIsTrue
    BY MemoryInvGives
  <1> QED
    BY <1>1, <1>2, <1>3, PTL DEF MemorySpec
=============================================================================
