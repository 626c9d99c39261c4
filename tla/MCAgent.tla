------------------------------- MODULE MCAgent -------------------------------
(***************************************************************************)
(* Small instances of the parts of internal/agent that share no variable:  *)
(* a behaviour is one of a turn, of its background agents, of their feed   *)
(* or of its memory, and leaves the other parts as they were.              *)
(***************************************************************************)
EXTENDS TaskRun, BackgroundAgents, FleetFeed, WorkMemory

VARIABLE part

mcVars == <<part, turnVars, agentVars, fleetVars, memoryVars>>

\* A turn: trees whose gate is the task's or was rewritten, and three tasks.
Own(f) == [gate |-> "own", fails |-> f]
MCTrees == {Own({}), Own({"f1"}), [gate |-> "changed", fails |-> {}]}
Task(g, c, t, i, p, w) == [goal |-> g, criteria |-> c, tree |-> t, installed |-> i, pieces |-> p, typed |-> w]
FirstTask == Task(FALSE, TRUE, Own({}), TRUE, 0, 1)
MCTasks == {FirstTask, Task(TRUE, FALSE, Own({"f1"}), FALSE, 0, 0), Task(TRUE, FALSE, Own({}), TRUE, 2, 0)}

\* The first agent writes and is cheap; the others only read.
Reader == [branch |-> FALSE, tier |-> "none"]
MCKinds == <<{[branch |-> TRUE, tier |-> "cheap"]}, {Reader}, {Reader}>>

\* A source with a blank line in the middle, a lock file, and what git keeps.
MCContents == [go |-> {<<FALSE>>, <<FALSE, TRUE, FALSE>>}, lock |-> {<<FALSE>>}, git |-> {<<FALSE>>}]
Read(f, a, b, p) == [file |-> f, from |-> a, to |-> b, plain |-> p]
MCAsks == {Read("go", 1, 9, TRUE), Read("go", 1, 2, TRUE), Read("git", 1, 9, FALSE)}

OfTurn   == part = "turn"   /\ UNCHANGED <<part, agentVars, fleetVars, memoryVars>>
OfAgents == part = "agents" /\ UNCHANGED <<part, turnVars, fleetVars, memoryVars>>
OfFeed   == part = "feed"   /\ UNCHANGED <<part, turnVars, agentVars, memoryVars>>
OfMemory == part = "memory" /\ UNCHANGED <<part, turnVars, agentVars, fleetVars>>

MCInit ==
    /\ part \in {"turn", "agents", "feed", "memory"}
    /\ TurnInit /\ AgentsInit /\ FleetInit /\ MemoryInit
    /\ part # "turn" => task = FirstTask
    /\ part # "memory" => disk.go.lines = <<FALSE>>

MCNext ==
    \/ OfTurn /\ TurnNext
    \/ OfAgents /\ AgentsNext
    \/ OfFeed /\ FleetNext
    \/ OfMemory /\ MemoryNext

MCSpec == MCInit /\ [][MCNext]_mcVars

\* The fairness of each part: which part moves never changes, so the three are one.
MCStep ==
    \/ OfTurn /\ TurnStep
    \/ OfAgents /\ AgentsStep
    \/ OfFeed /\ FleetStep

FairMCSpec == MCSpec /\ WF_mcVars(MCStep)
=============================================================================
