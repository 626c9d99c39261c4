-------------------------- MODULE BackgroundAgents ---------------------------
(***************************************************************************)
(* The agents a run starts beside itself (internal/agent/subagents.go) and *)
(* the independent subtasks it runs side by side (parallel.go).  The main  *)
(* agent is one goroutine and every background agent another; each works   *)
(* in a place of its own, is cleaned up by its own goroutine, and leaves a *)
(* report.  A run waits for them, is held back by them once when it claims *)
(* to be done, and cancels what is left of them when it ends.              *)
(*                                                                         *)
(* What an agent does is its own turn (TaskRun): here it changes files or  *)
(* commits them, and passes or does not.                                   *)
(***************************************************************************)
EXTENDS Naturals, FiniteSets, FiniteSetsExt

CONSTANTS
    Kinds,          \* what each agent can be: [branch, tier]
    MaxParallel,    \* agent.max_parallel
    MaxAgents       \* bound: agents of one turn

ASSUME AgentsAssumption ==
    /\ \A i \in 1..MaxAgents : Kinds[i] \subseteq [branch : BOOLEAN, tier : {"none", "cheap", "strong"}]
    /\ MaxParallel \in Nat \ {0} /\ MaxAgents \in Nat \ {0}

VARIABLES
    mainAt,     \* where the main agent is
    asked,      \* its turn was cancelled
    seq,        \* subs.seq: agents started, or placed for the subtasks
    kind,       \* what each is
    agentAt,    \* where its goroutine is
    cut,        \* its own context was cancelled
    outcome,    \* what its report says of how it ended
    work,       \* what its worktree holds: "clean", "dirty" (on no branch), "unkept" (it could
                \* not be committed), "lost" (it was removed with the worktree)
    aside,      \* the agents of this turn are subtasks side by side
    merged,     \* subtasks whose branch was merged
    next,       \* the subtask to merge next
    challenged, \* subs.challenged
    want,       \* the agents a wait names
    waiting,    \* those it has still to look at
    timer       \* its deadline: "off", "armed", "fired", "spent"

child     == <<kind, agentAt, cut, outcome, work>>
wait      == <<want, waiting, timer>>
side      == <<aside, merged, next>>
agentVars == <<mainAt, asked, seq, child, side, challenged, wait>>

Ids == 1..MaxAgents
MainPlaces  == {"round", "wait", "claim", "stop", "weigh", "aside", "merge", "end", "left", "over"}
AgentPlaces == {"none", "queued", "run", "strong", "commit", "remove", "report", "done", "read"}
NoKind      == [branch |-> FALSE, tier |-> "none"]
AsideKind   == [branch |-> TRUE, tier |-> "none"]

Cancelled(i) == asked \/ cut[i]
Started      == {i \in Ids : agentAt[i] # "none"}
Finished     == {i \in Ids : agentAt[i] \in {"done", "read"}}
Working      == {i \in Ids : agentAt[i] \notin {"none", "queued", "done", "read"}}

AgentsInit ==
    /\ mainAt = "round" /\ asked = FALSE /\ seq = 0
    /\ kind = [i \in Ids |-> NoKind]
    /\ agentAt = [i \in Ids |-> "none"]
    /\ cut = [i \in Ids |-> FALSE]
    /\ outcome = [i \in Ids |-> "none"]
    /\ work = [i \in Ids |-> "clean"]
    /\ aside = FALSE /\ merged = {} /\ next = 1
    /\ challenged = FALSE
    /\ want = {} /\ waiting = {} /\ timer = "off"

-----------------------------------------------------------------------------
(* The main agent.                                                          *)

\* The turn is cancelled: every context below it is too.
CancelAll ==
    /\ mainAt # "over" /\ ~asked
    /\ asked' = TRUE
    /\ UNCHANGED <<mainAt, seq, child, side, challenged, wait>>

\* spawnAgent, when it refuses nothing and the place could be made.
Spawn ==
    /\ mainAt = "round" /\ ~asked /\ ~aside
    /\ seq < MaxAgents /\ Cardinality(Working) < MaxParallel
    /\ seq' = seq + 1
    /\ \E k \in Kinds[seq + 1] : kind' = [kind EXCEPT ![seq + 1] = k]
    /\ agentAt' = [agentAt EXCEPT ![seq + 1] = "run"]
    /\ UNCHANGED <<mainAt, asked, cut, outcome, work, side, challenged, wait>>

\* waitAgents: the named ones, or all.
Wait ==
    /\ mainAt = "round" /\ ~aside /\ seq > 0
    /\ want' \in {{}} \union {{i} : i \in Started}
    /\ waiting' = IF want' = {} THEN Started ELSE want'
    /\ timer' = "armed"
    /\ mainAt' = "wait"
    /\ UNCHANGED <<asked, seq, child, side, challenged>>

\* The select of one agent, in the order they were started.
WaitOne ==
    /\ mainAt = "wait" /\ waiting # {}
    /\ LET i == Min(waiting) IN
         /\ waiting' = waiting \ {i}
         /\ \/ (i \in Finished \/ asked) /\ UNCHANGED timer
            \/ timer = "fired" /\ timer' = "spent"
    /\ UNCHANGED <<mainAt, asked, seq, child, side, challenged, want>>

\* The deadline is one value in a channel.
TimerFires ==
    /\ timer = "armed"
    /\ timer' = "fired"
    /\ UNCHANGED <<mainAt, asked, seq, child, side, challenged, want, waiting>>

\* takeReports: of those who have one that was not shown.
TakeReports(of) ==
    LET new == {i \in of : agentAt[i] = "done"} IN
    /\ agentAt' = [i \in Ids |-> IF i \in new THEN "read" ELSE agentAt[i]]
    /\ outcome' = [i \in Ids |-> IF i \in new THEN "none" ELSE outcome[i]]

WaitOver ==
    /\ mainAt = "wait" /\ waiting = {}
    /\ TakeReports(IF want = {} THEN Ids ELSE want)
    /\ mainAt' = "round"
    /\ want' = {} /\ timer' = "off"
    /\ UNCHANGED <<asked, seq, kind, cut, work, side, challenged, waiting>>

\* runActions ends with the reports of all who finished; the round goes on, claims
\* the task done, or was the last one.
RoundOver ==
    /\ mainAt = "round"
    /\ TakeReports(IF aside THEN {} ELSE Ids)
    /\ mainAt' \in {"round", "claim", "end"}
    /\ UNCHANGED <<asked, seq, kind, cut, work, side, challenged, wait>>

\* holdForChildren: the first claim over running agents is sent back, a later one
\* cancels them and waits for their cleanup (stopChildren).
Hold ==
    /\ mainAt = "claim"
    /\ LET running == IF aside THEN {} ELSE Started \ Finished IN
         /\ challenged' = (challenged \/ running # {})
         /\ IF running = {} THEN mainAt' = "weigh" /\ UNCHANGED cut
            ELSE IF ~challenged THEN mainAt' = "round" /\ UNCHANGED cut
            ELSE mainAt' = "stop" /\ cut' = [i \in Ids |-> i \in Started \ Finished \/ cut[i]]
    /\ UNCHANGED <<asked, seq, kind, agentAt, outcome, work, side, wait>>

Stopped ==
    /\ mainAt = "stop" /\ Started = Finished
    /\ mainAt' = "weigh"
    /\ UNCHANGED <<asked, seq, child, side, challenged, wait>>

\* The anchor takes the claim, or the run goes on.
Weigh ==
    /\ mainAt = "weigh"
    /\ mainAt' \in {"round", "end"}
    /\ UNCHANGED <<asked, seq, child, side, challenged, wait>>

\* Mutant: the agents of a run that ends are waited for and not told.
EndFleetWaits ==
    /\ mainAt = "end"
    /\ mainAt' = "left"
    /\ UNCHANGED <<asked, seq, child, side, challenged, wait>>

\* endFleet: stopChildren, whatever way the run ended.
EndFleet ==
    /\ mainAt = "end"
    /\ cut' = [i \in Ids |-> (i \in Started \ Finished /\ ~aside) \/ cut[i]]
    /\ mainAt' = "left"
    /\ UNCHANGED <<asked, seq, kind, agentAt, outcome, work, side, challenged, wait>>

Leave ==
    /\ mainAt = "left" /\ Started = Finished
    /\ mainAt' = "over"
    /\ UNCHANGED <<asked, seq, child, side, challenged, wait>>

-----------------------------------------------------------------------------
(* Independent subtasks: runSubtasksParallel.                               *)

SplitAside ==
    /\ mainAt = "round" /\ seq = 0 /\ ~aside /\ MaxParallel > 1 /\ MaxAgents > 1
    /\ aside' = TRUE /\ mainAt' = "aside"
    /\ UNCHANGED <<asked, seq, child, merged, next, challenged, wait>>

\* The places are made one at a time, while the first subtasks already run; one
\* whose place could not be made did not pass.
PlaceAside ==
    /\ mainAt = "aside" /\ seq < MaxAgents
    /\ seq' = seq + 1
    /\ \/ /\ ~asked
          /\ kind' = [kind EXCEPT ![seq + 1] = AsideKind]
          /\ agentAt' = [agentAt EXCEPT ![seq + 1] = "queued"]
          /\ UNCHANGED outcome
       \/ /\ agentAt' = [agentAt EXCEPT ![seq + 1] = "done"]
          /\ outcome' = [outcome EXCEPT ![seq + 1] = "failed"]
          /\ UNCHANGED kind
    /\ UNCHANGED <<mainAt, asked, cut, work, side, challenged, wait>>

\* The slots channel.
TakeSlotAside(i) ==
    /\ agentAt[i] = "queued" /\ Cardinality(Working) < MaxParallel
    /\ agentAt' = [agentAt EXCEPT ![i] = "run"]
    /\ UNCHANGED <<mainAt, asked, seq, kind, cut, outcome, work, side, challenged, wait>>

AllAside ==
    /\ mainAt = "aside" /\ seq = MaxAgents /\ Started = Finished
    /\ mainAt' = "merge"
    /\ UNCHANGED <<asked, seq, child, side, challenged, wait>>

\* In the order of the plan; a branch may not merge. The closing run of a goal
\* follows, or the turn ends.
MergeNext ==
    /\ mainAt = "merge"
    /\ IF next <= MaxAgents
         THEN /\ next' = next + 1
              /\ merged' \in {merged} \union (IF outcome[next] = "passed" THEN {merged \union {next}} ELSE {})
              /\ UNCHANGED mainAt
         ELSE mainAt' \in {"round", "end"} /\ UNCHANGED <<merged, next>>
    /\ UNCHANGED <<asked, seq, child, aside, challenged, wait>>

-----------------------------------------------------------------------------
(* A background agent.                                                      *)

\* It changes files in its worktree, or commits them.
Works(i) ==
    /\ agentAt[i] \in {"run", "strong"} /\ kind[i].branch
    /\ work' = [work EXCEPT ![i] = IF @ = "clean" THEN "dirty" ELSE "clean"]
    /\ UNCHANGED <<mainAt, asked, seq, kind, agentAt, cut, outcome, side, challenged, wait>>

\* runChild: the strong model takes over what a cheap one did not pass.
AttemptEnds(i) ==
    /\ agentAt[i] \in {"run", "strong"}
    /\ \E pass \in BOOLEAN :
         IF agentAt[i] = "run" /\ kind[i].tier = "cheap" /\ ~pass /\ ~Cancelled(i)
           THEN agentAt' = [agentAt EXCEPT ![i] = "strong"] /\ UNCHANGED outcome
           ELSE /\ agentAt' = [agentAt EXCEPT ![i] = "commit"]
                /\ outcome' = [outcome EXCEPT ![i] = IF Cancelled(i) THEN "cancelled"
                                                     ELSE IF pass THEN "passed" ELSE "failed"]
    /\ UNCHANGED <<mainAt, asked, seq, kind, cut, work, side, challenged, wait>>

\* Mutant: what a cancelled agent left is not committed.
KeepWorkUnlessCut(i) ==
    /\ agentAt[i] = "commit"
    /\ work' = IF outcome[i] = "cancelled" THEN work ELSE [work EXCEPT ![i] = "clean"]
    /\ agentAt' = [agentAt EXCEPT ![i] = "remove"]
    /\ UNCHANGED <<mainAt, asked, seq, kind, cut, outcome, side, challenged, wait>>

\* finishChild: what it did not commit itself would go with the worktree.
KeepWork(i) ==
    /\ agentAt[i] = "commit"
    /\ work' \in {[work EXCEPT ![i] = "clean"],
                  [work EXCEPT ![i] = IF @ = "dirty" THEN "unkept" ELSE "clean"]}
    /\ agentAt' = [agentAt EXCEPT ![i] = "remove"]
    /\ UNCHANGED <<mainAt, asked, seq, kind, cut, outcome, side, challenged, wait>>

\* The worktree is removed by force, and its directory whatever git says.
RemovePlace(i) ==
    /\ agentAt[i] = "remove"
    /\ work' = [work EXCEPT ![i] = IF @ = "dirty" THEN "lost" ELSE @]
    /\ agentAt' = [agentAt EXCEPT ![i] = "report"]
    /\ UNCHANGED <<mainAt, asked, seq, kind, cut, outcome, side, challenged, wait>>

\* queueReport, and the context of the agent is released.
QueueReport(i) ==
    /\ agentAt[i] = "report"
    /\ agentAt' = [agentAt EXCEPT ![i] = "done"]
    /\ cut' = [cut EXCEPT ![i] = FALSE]
    /\ UNCHANGED <<mainAt, asked, seq, kind, outcome, work, side, challenged, wait>>

\* What an agent does once it is told to stop, or has ended by itself.
Ends(i) == \/ Cancelled(i) /\ AttemptEnds(i)
           \/ KeepWork(i) \/ RemovePlace(i) \/ QueueReport(i)
           \/ TakeSlotAside(i)

MainStep ==
    \/ Spawn \/ Wait \/ WaitOne \/ WaitOver \/ RoundOver \/ Hold \/ Stopped \/ Weigh
    \/ EndFleet \/ Leave \/ SplitAside \/ PlaceAside \/ AllAside \/ MergeNext

AgentStep(i) ==
    \/ TakeSlotAside(i) \/ Works(i) \/ AttemptEnds(i) \/ KeepWork(i) \/ RemovePlace(i) \/ QueueReport(i)

AgentsNext == CancelAll \/ MainStep \/ TimerFires \/ \E i \in Ids : AgentStep(i)

AgentsSpec == AgentsInit /\ [][AgentsNext]_agentVars

\* What goes on whoever stops whom: the main agent, and an agent whose context is cancelled
\* or whose work is over. One that nobody stops may run on.
AgentsStep == MainStep \/ \E i \in Ids : Ends(i)

FairAgentsSpec == AgentsSpec /\ WF_agentVars(AgentsStep)

-----------------------------------------------------------------------------
(* Properties.                                                              *)

\* Type invariant: the main agent, its agents and the wait it may be in.
AgentsTypeOK ==
    /\ mainAt \in MainPlaces /\ asked \in BOOLEAN /\ seq \in 0..MaxAgents
    /\ \A i \in Ids : kind[i] \in Kinds[i] \union {NoKind, AsideKind} /\ agentAt \in [Ids -> AgentPlaces]
    /\ cut \in [Ids -> BOOLEAN] /\ outcome \in [Ids -> {"none", "passed", "failed", "cancelled"}]
    /\ work \in [Ids -> {"clean", "dirty", "unkept", "lost"}]
    /\ merged \subseteq Ids /\ next \in 1..(MaxAgents + 1)
    /\ aside \in BOOLEAN /\ challenged \in BOOLEAN
    /\ want \subseteq Ids /\ waiting \subseteq Ids
    /\ timer \in {"off", "armed", "fired", "spent"}
    /\ \A i \in Ids : agentAt[i] = "none" <=> i > seq

\* "A run never ends with an agent still running behind it": not while it is judged,
\* when what they cancel and commit would move under the checks, not while the branches of
\* side by side subtasks are merged, and not after its end.
NothingRunsBehind ==
    mainAt \in {"weigh", "merge", "over"} => Started = Finished

\* agent.max_parallel bounds the agents that have not finished, cleanup included,
\* whichever way they were started.
NeverMoreThanAllowed == Cardinality(Working) <= MaxParallel

\* Whatever ended an agent, the work it left uncommitted is on its branch when its
\* worktree is gone, unless the commit itself failed.
WorkSurvives == \A i \in Ids : work[i] # "lost"

\* Agents are a run's own: bounded in number, gone when it is judged or over, their work kept.
AgentsAreKept == AgentsTypeOK /\ NothingRunsBehind /\ NeverMoreThanAllowed /\ WorkSurvives

\* A run that has to leave its agents behind gets away from them, whatever they do.
LetsGo == (mainAt \in {"stop", "end", "left"}) ~> (mainAt \in {"weigh", "over"})

-----------------------------------------------------------------------------
(* Promises the code does not keep.                                         *)

\* "Its report arrives in the round after it finishes" (spawnAgent): a run does not end
\* with the report of an agent unread that ended by itself before the run did.
ReportsAreRead ==
    mainAt = "over" /\ ~aside => \A i \in Ids : outcome[i] \in {"passed", "failed"} => agentAt[i] = "read"

\* "It is bounded: an agent that outlives the wait is named, and keeps running"
\* (waitAgents): past its deadline a wait stands before no agent that still works.
WaitIsBounded ==
    mainAt = "wait" /\ timer = "spent" /\ ~asked /\ waiting # {} => Min(waiting) \in Finished
=============================================================================
