------------------------------ MODULE MCGateway -------------------------------
(***************************************************************************)
(* Small instances of the parts whose properties are about single states   *)
(* and steps: the approvals, the scheduled tasks, the draft pull requests, *)
(* the task files, the calls of a model, the sessions of a project.  They  *)
(* share no variable: a behaviour is one of one of them, and leaves the    *)
(* others as they were.                                                    *)
(***************************************************************************)
EXTENDS Approvals, Schedules, Autopilot, TaskQueue, ModelCalls, SessionTree, TLC

VARIABLE part

\* A command of a program and what the shell runs itself, one that runs what it is handed, and
\* a question of the loop.
Program(n, k) == [name |-> n, is |-> k]
Line(r, ps, a) == [rule |-> r, programs |-> ps, asks |-> a]
PushLine == Line("net", {Program("git push", "plain"), Program("cd", "builtin")}, "command")
Script   == Line("net", {Program("python", "opaque")}, "command")
Gate     == Line("gate", {}, "other")
MCLines  == {PushLine, Script, Gate}
MCRounds == {<<PushLine, Script>>, <<Gate>>}

\* Two projects of one repository.
MCProjects == <<"repo", "repo">>

\* Which of two requests that take sessions away is which makes no difference.
MCSymmetry == Permutations(Askers)

mcVars == <<part, approvalsVars, schedVars, autopilotVars, queueVars, callVars, treeVars>>
The(p, others) == part = p /\ UNCHANGED <<part, others>>

OfApprovals == The("approvals", <<schedVars, autopilotVars, queueVars, callVars, treeVars>>)
OfSchedules == The("schedules", <<approvalsVars, autopilotVars, queueVars, callVars, treeVars>>)
OfAutopilot == The("autopilot", <<approvalsVars, schedVars, queueVars, callVars, treeVars>>)
OfQueue     == The("queue", <<approvalsVars, schedVars, autopilotVars, callVars, treeVars>>)
OfCalls     == The("calls", <<approvalsVars, schedVars, autopilotVars, queueVars, treeVars>>)
OfTree      == The("tree", <<approvalsVars, schedVars, autopilotVars, queueVars, callVars>>)

MCInit ==
    /\ part \in {"approvals", "schedules", "autopilot", "queue", "calls", "tree"}
    /\ ApprovalsInit /\ SchedulesInit /\ AutopilotInit /\ QueueInit /\ CallsInit
    /\ TreeInit
    /\ part # "schedules" => records = [t \in Tasks |-> Never]
    /\ part # "autopilot" => settings.on
    /\ part # "calls" => call.kind = "complete"
    /\ part # "tree" => ~nested /\ opened = MaxSessions

MCNext ==
    \/ OfApprovals /\ ApprovalsNext
    \/ OfSchedules /\ SchedulesNext
    \/ OfAutopilot /\ AutopilotNext
    \/ OfQueue /\ QueueNext
    \/ OfCalls /\ CallsNext
    \/ OfTree /\ TreeNext

MCSpec == MCInit /\ [][MCNext]_mcVars
=============================================================================
