------------------------------- MODULE MCStore --------------------------------
(***************************************************************************)
(* Small instances of what is kept in files.  Two of SessionStore that     *)
(* share its variables: turns started one at a time by two people, with    *)
(* two crashes and a file that is lost, as the configuration says; and one *)
(* person who queues, changes and deletes, with a shutdown and a crash.    *)
(* And the folder of the local model.  A behaviour is of one.              *)
(***************************************************************************)
EXTENDS SessionStore, LocalModel

VARIABLE part

One(S) == {CHOOSE x \in S : TRUE}
Files == INSTANCE SessionStore WITH
            Handlers <- One(Handlers), Msgs <- One(Msgs), MaxCrashes <- 1,
            Requests <- {"queue", "touch", "delete", "shutdown"}, Faults <- {"crash", "cut_save"}

OfTurns == part = "turns" /\ UNCHANGED <<part, localVars>>
OfFiles == part = "files" /\ UNCHANGED <<part, localVars>>
OfLocal == part = "local" /\ UNCHANGED <<part, vars>>

MCInit == \/ part \in {"turns", "local"} /\ Init /\ LocalInit
          \/ part = "files" /\ Files!Init /\ LocalInit

MCNext == \/ OfTurns /\ Next
          \/ OfFiles /\ Files!Next
          \/ OfLocal /\ LocalNext

mcVars == <<part, vars, localVars>>

\* The fairness of FairSpec, for the turns, and of FairLocalSpec.
FairMCSpec ==
    /\ MCInit /\ [][MCNext]_mcVars
    /\ \A a \in Actors : WF_mcVars(OfTurns /\ SaveStep(a)) /\ WF_mcVars(OfTurns /\ TurnStep(a))
    /\ \A h \in Handlers : WF_mcVars(OfTurns /\ HandlerStep(h))
    /\ \A r \in Runs : WF_mcVars(OfTurns /\ RunStep(r))
    /\ WF_mcVars(OfTurns /\ StartStep)
    /\ \A g \in Starts :
         /\ WF_mcVars(OfLocal /\ EndOf(g))
         /\ WF_mcVars(OfLocal /\ HealthOf(g))
         /\ SF_mcVars(OfLocal /\ TooLate(g))

\* AcceptedIsKept, FinishedIsNotRunAgain and AcceptedIsAnswered of SessionStore, of turns that
\* are started one at a time: a record that is copied before another and written after it
\* forgets what was queued in between.
TurnsAreKept == part = "turns" => AcceptedIsKept
NoTurnTwice  == [][part = "turns" => ~(ResumeInterrupted /\ at'[Main] = "set_current" /\ msg'[Main] \in told)]_mcVars
TurnsAreAnswered ==
    \A m \in Msgs : (part = "turns" /\ m \in accepted) ~> ([](m \in turns) \/ spoiled \/ []~known)
=============================================================================
