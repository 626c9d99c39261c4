--------------------------- MODULE PullRequestWatch ---------------------------
(***************************************************************************)
(* The gateway follows the pull request of a session on its own            *)
(* (gateway/prwatch.go, prwatchrepos.go, prupdate.go, the handlers of      *)
(* pr.go): one goroutine a repository reads the host again and again,      *)
(* sends the agent to fix a CI that failed, to answer comments and to      *)
(* resolve conflicts, until the pull request is merged or closed or the    *)
(* attempts are spent.  Between any two readings the agent, the person and *)
(* the host go on, and the gateway can die; what it does about the pull    *)
(* request is in the session's record.                                     *)
(*                                                                         *)
(* One session, one repository; a message handed to the agent is a turn    *)
(* that is not lost (RunSlot, SessionStore).                               *)
(***************************************************************************)
EXTENDS Naturals, FiniteSets

CONSTANTS
    AutoMerge,      \* the project merges what passed
    MaxFixes,       \* prMaxFixes
    NoneLimit, ErrorLimit, IdleLimit,   \* prNoneLimit, prErrorLimit, prIdleLimit
    MaxPushes,      \* bound: pushes of the branch
    MaxComments,    \* bound: comments
    MaxTurns,       \* bound: turns of the agent waiting or at work
    MaxLives,       \* bound: watches started from nothing
    MaxStops        \* bound: times the gateway dies

ASSUME WatchAssumption ==
    /\ AutoMerge \in BOOLEAN /\ {NoneLimit, ErrorLimit, IdleLimit, MaxTurns} \subseteq Nat \ {0}
    /\ {MaxFixes, MaxPushes, MaxComments, MaxLives, MaxStops} \subseteq Nat

VARIABLES
    host,       \* the pull request: [is, head, ci, comments], ci of the last push
    agentTurns, \* turns the agent has to do, the one at work among them
    watch,      \* the goroutine: [at, status, attempts, fixed, none, errors, idle, conflict, seen, job, of, ci]
    view,       \* prWatch, prFixedKey and prSeen of the conversation: [status, attempts, fixed, seen]
    saved,      \* what the record says of it
    follower,   \* followOpenedPR: "off", "find", "found"
    serving, stops,
    life,       \* history: watches started from nothing, or told to start again
    sends,      \* history: how often this life sent the agent
    handed,     \* history: what for: [life, job, of]
    missed      \* history: what had been taken in and not sent when the gateway died: [job, of]

hostSide     == <<host, agentTurns>>
session      == <<view, saved>>
server       == <<serving, stops>>
watchHistory == <<life, sends, handed, missed>>
watchVars    == <<hostSide, watch, session, follower, server, watchHistory>>

Pushes      == 1..MaxPushes
Unread      == MaxComments + 1     \* there is no baseline yet
Watched     == {"following", "fixing", "passed", "reviewing", "resolving"}
Ended       == {"gave_up", "no_ci", "merged", "base_red", "closed"}
NoView      == [status |-> "nil", attempts |-> 0, fixed |-> 0, seen |-> Unread]
Off         == [at |-> "off", status |-> "following", attempts |-> 0, fixed |-> 0, none |-> 0, errors |-> 0,
                idle |-> 0, conflict |-> FALSE, seen |-> Unread, job |-> "none", of |-> 0, ci |-> "none"]
Open        == host.is = "open"
Running     == agentTurns > 0
PrDone      == view.status = "merged"

WatchInit ==
    /\ host = [is |-> "none", head |-> 0, ci |-> "none", comments |-> 0]
    /\ agentTurns = 0 /\ watch = Off /\ view = NoView /\ saved = NoView /\ follower = "off"
    /\ serving = TRUE /\ stops = 0 /\ life = 0 /\ sends = 0 /\ handed = {} /\ missed = {}

-----------------------------------------------------------------------------
(* Starting.                                                                *)

\* publishPR: the watch as the session shows it, saved when it moved.
Shown(w)   == [status |-> w.status, attempts |-> w.attempts, fixed |-> w.fixed, seen |-> w.seen]
Publish(w) ==
    /\ view' = Shown(w)
    /\ saved' = IF view.status # w.status \/ view.attempts # w.attempts THEN view' ELSE saved

NewLife == life < MaxLives /\ life' = life + 1 /\ sends' = 0 /\ UNCHANGED <<handed, missed>>

\* startPRWatch with no memory: a watch already running is left alone.
StartWatch ==
    IF watch.at # "off" THEN UNCHANGED <<watch, view, watchHistory>>
    ELSE NewLife /\ watch' = [Off EXCEPT !.at = "wait"] /\ view' = Shown(Off)

\* sendToAgent: the turn starts or is queued, and either is saved with the session.
SendTurn == agentTurns < MaxTurns /\ agentTurns' = agentTurns + 1 /\ saved' = view'

\* handleCreatePR: the watch, then the turn that opens the pull request.
CreatePR ==
    /\ serving /\ ~PrDone /\ ~Open
    /\ StartWatch /\ SendTurn
    /\ UNCHANGED <<host, follower, server>>

\* handleGetPR: a CI seen running is a CI to follow.
LookAtPR ==
    /\ serving /\ Open /\ host.ci = "pending" /\ watch.at = "off"
    /\ StartWatch /\ Publish(Off)
    /\ UNCHANGED <<hostSide, follower, server>>

\* handleFixPR, "Try again": the view is dropped, a watch started, and the agent sent.
TryAgain ==
    /\ serving /\ ~PrDone /\ Open
    /\ IF watch.at = "off" THEN StartWatch
       ELSE NewLife /\ view' = [view EXCEPT !.status = "nil", !.attempts = 0] /\ UNCHANGED watch
    /\ SendTurn
    /\ UNCHANGED <<host, follower, server>>

\* followOpenedPR, when nobody follows: the host is asked, and then the watch starts.
FollowFind ==
    /\ serving /\ follower = "find"
    /\ \/ follower' = IF Open THEN "found" ELSE "off"
       \/ follower' = "off"
    /\ UNCHANGED <<hostSide, watch, session, server, watchHistory>>

\* The view is set before startPRWatch looks whether there is a watch.
FollowStart ==
    /\ serving /\ follower = "found"
    /\ follower' = "off"
    /\ IF watch.at = "off" THEN StartWatch
       ELSE NewLife /\ view' = [view EXCEPT !.status = "following", !.attempts = 0] /\ UNCHANGED watch
    /\ UNCHANGED <<hostSide, saved, server>>

\* A commit on the branch, by the agent, a person or the host: no check has reported.
Push == host.head < MaxPushes /\ host' = [host EXCEPT !.head = @ + 1, !.ci = "none"]

-----------------------------------------------------------------------------
(* The watch.                                                               *)

\* It has returned, and its key is still there; or it waits for its next poll.
Leave(w) == watch' = [w EXCEPT !.at = "leaving"]
Again(w) == watch' = [w EXCEPT !.at = "wait", !.job = "none", !.of = 0, !.ci = "none"]
DropView == view' = [view EXCEPT !.status = "nil", !.attempts = 0] /\ UNCHANGED saved

\* prFailed: a reading the host did not answer.
HostFails ==
    LET w == [watch EXCEPT !.errors = @ + 1] IN
    IF w.errors < ErrorLimit THEN Again(w) /\ UNCHANGED session ELSE Leave(w) /\ DropView

\* pollPR, up to its first reading.
Poll ==
    /\ serving /\ watch.at = "wait"
    /\ ~(watch.status \in {"reviewing", "resolving"} /\ Running) \/ PrDone
    /\ watch' = [watch EXCEPT !.at = IF PrDone THEN "leaving"
                                     ELSE IF watch.status = "passed" THEN "find_passed" ELSE "find"]
    /\ UNCHANGED <<hostSide, session, follower, server, watchHistory>>

Find ==
    /\ serving /\ watch.at = "find"
    /\ \/ watch' = [watch EXCEPT !.errors = 0, !.at = IF Open THEN "ci" ELSE "not_found"] /\ UNCHANGED session
       \/ HostFails
    /\ UNCHANGED <<hostSide, follower, server, watchHistory>>

\* No pull request: the agent is still opening it, or there is none.
NotFound ==
    /\ serving /\ watch.at = "not_found"
    /\ IF Running THEN Again(watch) /\ UNCHANGED session ELSE Leave(watch) /\ DropView
    /\ UNCHANGED <<hostSide, follower, server, watchHistory>>

\* The CI, with what awaitedCI makes of it: checks its base runs and it does not yet are pending.
ReadCI ==
    /\ serving /\ watch.at = "ci"
    /\ \/ \E ci \in {host.ci} \union (IF host.ci = "failure" THEN {} ELSE {"pending"}) :
            watch' = [watch EXCEPT !.at = "judge", !.of = host.head, !.ci = ci] /\ UNCHANGED session
       \/ HostFails
    /\ UNCHANGED <<hostSide, follower, server, watchHistory>>

\* ciKey: this push was already handed to the agent.
Handled(w) == w.fixed = w.of

\* prWatchState.step and failed: what a reading makes of the watch, and where it goes on.
JudgedAs(w) ==
    CASE w.ci = "pending" -> [w EXCEPT !.none = 0, !.status = "following", !.at = "talk"]
      [] w.ci = "success" -> [w EXCEPT !.status = "passed", !.at = "merge"]
      [] w.ci = "failure" /\ Handled(w) -> [w EXCEPT !.none = 0, !.at = "talk"]
      [] w.ci = "failure" /\ ~Handled(w) /\ w.attempts >= MaxFixes ->
           [w EXCEPT !.none = 0, !.fixed = w.of, !.status = "gave_up", !.at = "leaving"]
      [] w.ci = "failure" /\ ~Handled(w) /\ w.attempts < MaxFixes ->
           [w EXCEPT !.none = 0, !.fixed = w.of, !.attempts = @ + 1, !.status = "fixing", !.at = "base"]
      [] w.ci = "none" /\ w.none + 1 >= NoneLimit -> [w EXCEPT !.none = @ + 1, !.status = "no_ci", !.at = "leaving"]
      [] w.ci = "none" /\ w.none + 1 < NoneLimit -> [w EXCEPT !.none = @ + 1, !.at = "talk"]

\* Mutant: the verdict is told and saved once the agent was sent.
JudgeUnsaved ==
    /\ serving /\ watch.at = "judge"
    /\ watch' = JudgedAs(watch)
    /\ IF watch'.at = "base" THEN UNCHANGED session ELSE Publish(watch')
    /\ UNCHANGED <<hostSide, follower, server, watchHistory>>

Judge ==
    /\ serving /\ watch.at = "judge"
    /\ watch' = JudgedAs(watch) /\ Publish(watch')
    /\ UNCHANGED <<hostSide, follower, server, watchHistory>>

\* answerCIFailure: a failure the base has too is not this change's to fix.
AskBase ==
    /\ serving /\ watch.at = "base"
    /\ \/ LET w == [watch EXCEPT !.attempts = @ - 1, !.status = "base_red"] IN Leave(w) /\ Publish(w)
       \/ watch' = [watch EXCEPT !.at = "send", !.job = "fix"] /\ UNCHANGED session
    /\ UNCHANGED <<hostSide, follower, server, watchHistory>>

SendToAgent ==
    /\ serving /\ watch.at = "send"
    /\ UNCHANGED view /\ SendTurn /\ Again(watch)
    /\ sends' = sends + 1 /\ handed' = handed \union {[life |-> life, job |-> watch.job, of |-> watch.of]}
    /\ UNCHANGED <<host, follower, server, life, missed>>

\* pollTalk: the comments, which are kept with the session at once; of is the newest.
ReadComments ==
    /\ serving /\ watch.at = "talk" /\ ~Running
    /\ LET news == watch.seen # Unread /\ host.comments > watch.seen IN
         watch' = [watch EXCEPT !.seen = host.comments, !.at = "talked", !.of = host.comments,
                                !.job = IF news THEN "review" ELSE "none"]
    /\ view' = [view EXCEPT !.seen = host.comments]
    /\ saved' = IF view.seen # host.comments THEN view' ELSE saved
    /\ UNCHANGED <<hostSide, follower, server, watchHistory>>

\* The agent is at work, or the host does not say.
NoComments ==
    /\ serving /\ watch.at = "talk"
    /\ IF Running THEN Again(watch) ELSE watch' = [watch EXCEPT !.at = "talked", !.job = "none", !.of = 0]
    /\ UNCHANGED <<hostSide, session, follower, server, watchHistory>>

\* ... whether the branch merges (the host says so anew each time), updateBase, which makes the
\* host push the base onto it, and what the agent is sent for, if it is.
ReadMergeState ==
    /\ serving /\ watch.at = "talked"
    /\ \E merge \in {"unread", "ok", "updated", "conflict"} :
         LET follow == IF merge = "updated" THEN [watch EXCEPT !.status = "following"] ELSE watch
             starts == merge = "conflict" /\ ~watch.conflict
             job    == IF watch.job = "none" /\ starts THEN "resolve" ELSE watch.job
             w      == [follow EXCEPT !.job = job, !.conflict = IF merge = "unread" THEN @ ELSE merge = "conflict"] IN
           /\ IF merge = "updated" THEN Open /\ Push ELSE UNCHANGED host
           /\ IF job = "none"
                THEN Again(w) /\ IF merge = "updated" THEN Publish(w) ELSE UNCHANGED session
              ELSE IF w.attempts >= MaxFixes
                THEN Leave([w EXCEPT !.status = "gave_up"]) /\ Publish([w EXCEPT !.status = "gave_up"])
              ELSE /\ watch' = [w EXCEPT !.at = "send", !.attempts = @ + 1,
                                         !.status = IF job = "review" THEN "reviewing" ELSE "resolving"]
                   /\ Publish(watch')
    /\ UNCHANGED <<agentTurns, follower, server, watchHistory>>

\* finishMerge: what the session is told of a merged pull request.
FinishMerge == view' = [view EXCEPT !.status = "merged", !.attempts = 0] /\ saved' = view'
MergeOnHost == Open /\ host' = [host EXCEPT !.is = "merged"]

\* autoMerge: a CI that passed; the host merges what the branch holds by then, or refuses.
TryToMerge ==
    /\ serving /\ watch.at = "merge"
    /\ \/ AutoMerge /\ MergeOnHost /\ FinishMerge /\ Leave(watch)
       \/ Again(watch) /\ UNCHANGED <<host, session>>
    /\ UNCHANGED <<agentTurns, follower, server, watchHistory>>

\* pollPassed: the pull request is watched until it is merged or closed, or nobody does either.
FindPassed ==
    /\ serving /\ watch.at = "find_passed"
    /\ \/ HostFails
       \/ UNCHANGED session /\ watch' =
            IF ~Open THEN [watch EXCEPT !.at = "state"]
            ELSE [watch EXCEPT !.errors = 0, !.idle = @ + 1, !.at = IF watch.idle + 1 >= IdleLimit THEN "leaving" ELSE "talk"]
    /\ UNCHANGED <<hostSide, follower, server, watchHistory>>

ReadState ==
    /\ serving /\ watch.at = "state"
    /\ \/ HostFails
       \/ host.is = "merged" /\ FinishMerge /\ Leave(watch)
       \/ host.is = "closed" /\ LET w == [watch EXCEPT !.status = "closed"] IN Leave(w) /\ Publish(w)
       \/ Open /\ Again(watch) /\ UNCHANGED session
    /\ UNCHANGED <<hostSide, follower, server, watchHistory>>

\* The goroutine gives its key back.
LetGo ==
    /\ serving /\ watch.at = "leaving"
    /\ watch' = Off
    /\ UNCHANGED <<hostSide, session, follower, server, watchHistory>>

-----------------------------------------------------------------------------
(* The agent, the person, the host and the gateway.                         *)

\* A turn ends, and followOpenedPR begins.
TurnEnds ==
    /\ serving /\ Running
    /\ agentTurns' = agentTurns - 1 /\ saved' = view
    /\ follower' = IF ~PrDone /\ view.status = "nil" THEN "find" ELSE follower
    /\ UNCHANGED <<host, watch, view, server, watchHistory>>

\* What the agent, another person and the CI do on the host.
HostMoves ==
    /\ \/ (Open \/ (host.is = "none" /\ Running)) /\ Push
       \/ host.is = "none" /\ host.head > 0 /\ Running /\ host' = [host EXCEPT !.is = "open"]
       \/ Open /\ \E is \in {"merged", "closed"} : host' = [host EXCEPT !.is = is]
       \/ Open /\ host.comments < MaxComments /\ host' = [host EXCEPT !.comments = @ + 1]
       \/ Open /\ \E ci \in {"pending", "success", "failure"} :
            (ci = "pending") = (host.ci = "none") /\ host.ci \in {"none", "pending"} /\ host' = [host EXCEPT !.ci = ci]
    /\ UNCHANGED <<agentTurns, watch, session, follower, server, watchHistory>>

\* handleMergePR: the CI is read and the merge asked for (what comes between is in TryToMerge).
ClickMerge ==
    /\ serving /\ host.ci \in {"success", "none"}
    /\ MergeOnHost /\ FinishMerge
    /\ UNCHANGED <<agentTurns, watch, follower, server, watchHistory>>

\* What it had taken in and saved as such is known to nobody any more.
GatewayStops ==
    /\ serving /\ stops < MaxStops
    /\ serving' = FALSE /\ stops' = stops + 1
    /\ watch' = Off /\ view' = NoView /\ follower' = "off"
    /\ missed' = IF watch.at \in {"base", "send", "talked"}
                   THEN missed \union {[job |-> IF watch.at = "base" THEN "fix" ELSE watch.job, of |-> watch.of]}
                   ELSE missed
    /\ UNCHANGED <<hostSide, saved, life, sends, handed>>

\* Mutant: a watch that waits for the agent's answer is not resumed.
ResumeForgetful ==
    /\ ~serving /\ serving' = TRUE
    /\ view' = saved
    /\ watch' = IF saved.status \notin {"following", "fixing", "passed"} THEN Off
                ELSE [Off EXCEPT !.at = "wait", !.status = saved.status, !.attempts = saved.attempts,
                                 !.fixed = saved.fixed, !.seen = saved.seen]
    /\ UNCHANGED <<hostSide, saved, follower, stops, watchHistory>>

\* restorePRWatch and resumePRWatch; the turns come back as well (SessionStore).
ResumeWatch ==
    /\ ~serving /\ serving' = TRUE
    /\ view' = saved
    /\ watch' = IF saved.status \notin Watched THEN Off
                ELSE [Off EXCEPT !.at = "wait", !.status = saved.status, !.attempts = saved.attempts,
                                 !.fixed = saved.fixed, !.seen = saved.seen]
    /\ UNCHANGED <<hostSide, saved, follower, stops, watchHistory>>

WatchStep ==
    \/ Poll \/ Find \/ NotFound \/ ReadCI \/ Judge \/ AskBase \/ SendToAgent \/ NoComments
    \/ ReadMergeState \/ TryToMerge \/ FindPassed \/ ReadState \/ LetGo

WatchNext ==
    \/ CreatePR \/ LookAtPR \/ TryAgain \/ FollowFind \/ FollowStart
    \/ WatchStep \/ ReadComments \/ TurnEnds \/ HostMoves \/ ClickMerge \/ GatewayStops \/ ResumeWatch

WatchSpec == WatchInit /\ [][WatchNext]_watchVars

\* The timer of a watch fires, turns end, the gateway is started again, and a host that is asked
\* for the comments again and again gives them in the end.
FairWatchSpec ==
    /\ WatchSpec
    /\ WF_watchVars(WatchStep \/ ResumeWatch) /\ WF_watchVars(TurnEnds)
    /\ SF_watchVars(ReadComments)

-----------------------------------------------------------------------------
(* Properties.                                                              *)

\* Type invariant: the host, the watch, what is shown and what is saved.
WatchTypeOK ==
    /\ host.is \in {"none", "open", "merged", "closed"} /\ host.head \in 0..MaxPushes
    /\ host.comments \in 0..MaxComments /\ agentTurns \in 0..MaxTurns
    /\ watch.status \in Watched \union Ended /\ watch.fixed \in 0..host.head
    /\ watch.at = "off" => watch = Off
    /\ \A v \in {view, saved} : /\ v.status \in Watched \union Ended \union {"nil"}
                                /\ v.seen = Unread \/ v.seen <= host.comments
    /\ ~serving => watch = Off /\ follower = "off"

\* "A failure is answered once per push", and a comment once (ciKey, Tracker): one watch never
\* sends the agent twice for the same push or the same comments, whatever restarts it survives.
HandedOnce ==
    [][sends' > sends /\ watch.job \in {"fix", "review"} =>
         [life |-> life, job |-> watch.job, of |-> watch.of] \notin handed]_watchVars

\* "When it has tried too many times" it stops: the attempts at the CI, the comments and the
\* conflicts of a watch come out of one budget, which a restart does not give back.
AttemptsBounded == sends <= MaxFixes

HandedOver(job, of)   == \E s \in handed : s.job = job /\ s.of >= of
Lost(job, of)         == \E s \in missed : s.job = job /\ s.of >= of

\* The watch is over, for a reason the session shows.
WatchOver == \/ watch.at = "leaving"
             \/ serving /\ watch.at = "off" /\ view.status \in Ended \union {"nil", "passed"}
AtWork    == watch.at \notin {"off", "leaving"} /\ Open

\* A watch acts on each comment made after its baseline, those made while the gateway was down
\* included (prWatchRecord.Seen), unless it ends, or dies with the comments taken in.
CommentsAreAnswered ==
    \A c \in 1..MaxComments :
        (AtWork /\ watch.seen < c /\ c <= host.comments)
            ~> (HandedOver("review", c) \/ Lost("review", c) \/ WatchOver \/ ~Open)

\* A watch sends the agent for a CI that failed, unless the branch moves on, the CI had passed
\* before, the watch ends, or dies with the failure taken in.
FailureIsAnswered ==
    \A r \in Pushes :
        (AtWork /\ host.head = r /\ host.ci = "failure")
            ~> (\/ HandedOver("fix", r) \/ Lost("fix", r) \/ WatchOver \/ ~Open
                \/ host.head # r \/ watch.status = "passed")

\* Neither is left lying, however often the gateway is started again meanwhile.
NothingIsIgnored == CommentsAreAnswered /\ FailureIsAnswered

-----------------------------------------------------------------------------
(* Promises the code does not keep.                                         *)

\* "A failure is answered once per push and not once per poll" (ciKey): Try again sends the
\* agent and starts a watch that knows nothing of it.
AnsweredOnce ==
    [][sends' > sends /\ watch.job = "fix" => ~HandedOver("fix", watch.of)]_watchVars

\* "When it has stopped and there is none, nothing is left to follow" (pollPR): whether the agent
\* has stopped is looked at after the host was, and the turn that opened it ends in between.
LeftWhenThereIsNone == [][watch.at = "not_found" /\ watch'.at = "leaving" => ~Open]_watchVars

\* What the session shows as followed is followed: the view is set before the key is looked at.
ShownIsFollowed == serving /\ view.status \in Watched \ {"passed"} => watch.at # "off"

\* "Merges the session's pull request once its CI has passed" (handleMergePR, autoMerge): no
\* request says which push was read.
MergedWasGreen ==
    [][Open /\ host'.is = "merged" /\ view'.status = "merged" => host.ci \in {"success", "none"}]_watchVars
=============================================================================
