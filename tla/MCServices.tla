------------------------------ MODULE MCServices ------------------------------
(***************************************************************************)
(* Small instances of what the gateway does with nobody connected: the     *)
(* scheduled tasks and the watch of a pull request.  They share no         *)
(* variable: a behaviour is one of one of them, and leaves the other as it *)
(* was.                                                                    *)
(***************************************************************************)
EXTENDS Schedules, PullRequestWatch

VARIABLE part

mcVars == <<part, schedVars, watchVars>>

OfSchedules == part = "schedules" /\ UNCHANGED <<part, watchVars>>
OfWatch     == part = "watch"     /\ UNCHANGED <<part, schedVars>>

MCInit ==
    /\ part \in {"schedules", "watch"}
    /\ SchedulesInit /\ WatchInit
    /\ part # "schedules" => records = [t \in Tasks |-> Never]

MCNext ==
    \/ OfSchedules /\ SchedulesNext
    \/ OfWatch /\ WatchNext

\* The fairness of FairSchedulesSpec and FairWatchSpec: which part moves never changes.
MCStep ==
    \/ OfSchedules /\ WatcherStep
    \/ OfWatch /\ (WatchStep \/ ResumeWatch)

FairMCSpec ==
    /\ MCInit /\ [][MCNext]_mcVars
    /\ WF_mcVars(MCStep) /\ WF_mcVars(OfWatch /\ TurnEnds) /\ SF_mcVars(OfWatch /\ ReadComments)
=============================================================================
