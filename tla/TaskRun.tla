------------------------------- MODULE TaskRun -------------------------------
(***************************************************************************)
(* One turn of the agent (internal/agent): the analysis, the plan, and the *)
(* rounds of execute (loop.go), for the task itself, for each subtask it   *)
(* is split into and, when the person handed over a goal, for the closing  *)
(* run that judges the whole.                                              *)
(*                                                                         *)
(* What the work is made of does not matter to the loop: a tree is the     *)
(* gate its files declare and the failures that gate would show, which is  *)
(* what the anchor, its baseline and the guard of the gate tell apart.     *)
(* The model decides what a round does, so every round may.  The agents a  *)
(* run starts beside itself are in BackgroundAgents.                       *)
(***************************************************************************)
EXTENDS Naturals, FiniteSets

CONSTANTS
    Trees,          \* [gate, fails]: what a round may leave in the working directory
    Tasks,          \* what a turn is handed: [goal, criteria, tree, installed, pieces, typed]
    MaxSteps,       \* agent.max_steps: rounds of one budget
    MaxBudgets,     \* maxBudgetExtensions
    MaxRetries,     \* agent.max_retries
    MaxUnusable,    \* maxUnusableReplies
    StallStop,      \* stallStopAt
    DoneGuard,      \* doneGuardAfter
    MaxVerify,      \* maxVerifyChallenges
    MaxAudits,      \* maxAuditChallenges
    GoalAudits,     \* goalAuditChallenges
    MaxTooling,     \* maxToolingRetries
    SubtaskRetries  \* agent.subtask_retries

\* What judges the work: the gate the task came with, or what the run put in its place.
Gates == {"own", "changed"}

ASSUME TurnAssumption ==
    /\ \A t \in Trees : t.gate \in Gates /\ t.fails \intersect {"tools", "unmeasured"} = {}
    /\ Tasks \subseteq [goal : BOOLEAN, criteria : BOOLEAN, tree : Trees, installed : BOOLEAN,
                       pieces : Nat, typed : Nat]
    /\ MaxSteps \in Nat \ {0} /\ MaxBudgets \in Nat \ {0}
    /\ MaxUnusable \in Nat \ {0} /\ StallStop \in Nat \ {0}
    /\ MaxRetries \in Nat /\ DoneGuard \in Nat /\ MaxVerify \in Nat /\ MaxTooling \in Nat
    /\ MaxAudits \in Nat /\ GoalAudits \in Nat /\ SubtaskRetries \in Nat

VARIABLES
    task,       \* the task: a goal or not, with enough criteria to be audited or not, the tree
                \* and the tools it finds, and the bounds on its plan and on what is typed
    pieces,     \* subtasks of the plan, 0 for a task that is run whole
    piece,      \* the subtask being run, 0 for the run of the whole
    attempt,    \* retries of that subtask
    place,      \* where the loop is
    tree,       \* the working directory
    installed,  \* the tools the project's checks need are on the machine
    found,      \* the tree this run measures itself against (r.baseline, r.before)
    gate,       \* a.gate: the gate a PASS is taken from
    known,      \* what the anchor measured on the baseline
    round, rejected, unusable, repeats, readOnly, unbacked, verify, audits, audited, tooling,
    lastTree,   \* r.lastSources
    failing,    \* a check the run ran itself failed the last time it ran
    runErr,     \* an action of the round that claims could not run
    typed,      \* messages the person has typed
    unread,     \* how many of them no round has read
    cancelled,  \* the context of the turn is cancelled
    verdict,    \* how the run, and then the turn, ended
    approved,   \* history: gates the person accepted a PASS from
    claims      \* history: claims of done of the run that were weighed

turn     == <<task, pieces, piece, attempt>>
tally    == <<round, rejected, unusable, repeats, readOnly, unbacked, verify, audits, audited,
              tooling, failing, runErr, claims>>
counters == <<tally, lastTree>>
measure  == <<found, gate, known>>
person   == <<typed, unread, cancelled>>
machine  == <<tree, installed>>
turnVars == <<turn, counters, measure, person, machine, place, verdict, approved>>

TurnPlaces == {"analysis", "plan", "enter", "next", "decide", "act", "claim", "audit", "judge",
               "final", "ended", "over"}
Unmeasured == {"unmeasured"}
Outcomes == {"none", "pass", "fail", "answered", "asked"}

\* What the anchor finds wrong in a tree: a gate the run wrote or took away finds nothing.
Red(t) == IF t.gate # "own" THEN {} ELSE IF installed THEN t.fails ELSE {"tools"}

AuditLimit == IF task.goal THEN GoalAudits ELSE MaxAudits

TurnInit ==
    /\ task \in Tasks
    /\ pieces = 0 /\ piece = 0 /\ attempt = 0
    /\ place = "analysis"
    /\ tree = task.tree /\ installed = task.installed
    /\ found = tree /\ gate = tree.gate /\ known = Unmeasured
    /\ round = 0 /\ rejected = 0 /\ unusable = 0 /\ repeats = 0 /\ readOnly = 0
    /\ unbacked = 0 /\ verify = 0 /\ audits = 0 /\ audited = FALSE /\ tooling = 0
    /\ lastTree = tree /\ failing = FALSE /\ runErr = FALSE /\ claims = 0
    /\ typed = 0 /\ unread = 0 /\ cancelled = FALSE
    /\ verdict = "none" /\ approved = {}

-----------------------------------------------------------------------------
(* The person.                                                              *)

\* Agent.Steer: only the outermost run has an inbox, from execute to its end.
Steer ==
    /\ piece = 0 /\ place \notin {"analysis", "plan", "enter", "ended", "over"}
    /\ typed < task.typed
    /\ typed' = typed + 1 /\ unread' = unread + 1
    /\ UNCHANGED <<turn, counters, measure, cancelled, machine, place, verdict, approved>>

CancelTurn ==
    /\ place # "over" /\ ~cancelled
    /\ cancelled' = TRUE
    /\ UNCHANGED <<turn, counters, measure, typed, unread, machine, place, verdict, approved>>

-----------------------------------------------------------------------------
(* Before the work: loop.                                                   *)

\* chatReply, askUser, or nothing to ask and nothing to assume; a goal is work.
AnswerOrAsk ==
    /\ place = "analysis"
    /\ \/ place' = "plan" /\ UNCHANGED verdict
       \/ /\ ~task.goal /\ place' = "over"
          /\ verdict' \in {"answered", "asked", "fail"}
    /\ UNCHANGED <<turn, counters, measure, person, machine, approved>>

\* The plan decides: whole, or in pieces one after another.
PlanTask ==
    /\ place = "plan"
    /\ \E n \in 0..task.pieces :
          /\ pieces' = n
          /\ piece' = IF n > 0 THEN 1 ELSE 0
    /\ place' = "enter"
    /\ UNCHANGED <<task, attempt, counters, measure, person, machine, verdict, approved>>

\* runSubtasksParallel: each piece passed or failed in a worktree of its own, and
\* what passed was merged, or could not be; nothing judges the merged tree.
RunAside ==
    /\ place = "plan" /\ task.pieces > 1
    /\ pieces' = task.pieces /\ piece' = task.pieces
    /\ tree' \in Trees
    /\ verdict' \in {"pass", "fail"}
    /\ place' = "ended"
    \* The last piece, and no attempt of it is left: runSubtasksParallel does not retry.
    /\ attempt' = SubtaskRetries
    /\ UNCHANGED <<task, counters, measure, person, installed, approved>>

\* Mutant: the closing run takes its own tree and gate, like any run.
EnterUnpinned ==
    /\ place = "enter"
    /\ found' = tree /\ gate' = tree.gate /\ lastTree' = tree
    /\ known' = Unmeasured
    /\ verdict' = "none" /\ place' = "next"
    /\ UNCHANGED <<turn, tally, person, machine, approved>>

\* execute takes the tree and the gate as it finds them; the closing run of a goal
\* those of the turn (holdGoalBaseline).
Enter ==
    /\ place = "enter"
    /\ LET pinned == task.goal /\ pieces > 0 /\ piece = 0 IN
         /\ found' = IF pinned THEN task.tree ELSE tree
         /\ gate' = IF pinned THEN task.tree.gate ELSE tree.gate
         /\ lastTree' = IF pinned THEN task.tree ELSE tree
    /\ known' = Unmeasured
    /\ verdict' = "none" /\ place' = "next"
    /\ UNCHANGED <<turn, tally, person, machine, approved>>

-----------------------------------------------------------------------------
(* A round.                                                                 *)

EndRunWith(outcome) == place' = "ended" /\ verdict' = outcome

\* nextRound: a spent budget is a question (a goal answers it itself), and the
\* number of budgets has a ceiling; then absorbSteering.
NextRound ==
    /\ place = "next"
    /\ \/ /\ round > 0 /\ round % MaxSteps = 0 /\ ~task.goal
          /\ EndRunWith("fail")
          /\ UNCHANGED <<round, unread>>
       \/ /\ round' = round + 1
          /\ IF round + 1 > MaxSteps * MaxBudgets
               THEN EndRunWith("fail") /\ UNCHANGED unread
               ELSE /\ place' = "decide" /\ UNCHANGED verdict
                    /\ unread' = IF piece = 0 THEN 0 ELSE unread
    /\ UNCHANGED <<turn, measure, typed, cancelled, machine, approved, rejected, unusable,
                   repeats, readOnly, unbacked, verify, audits, audited, tooling, lastTree,
                   failing, runErr, claims>>

\* Mutant: a reply that could not be used is asked for again in the same round.
UnusableInPlace ==
    /\ place = "decide" /\ ~cancelled
    /\ unusable' = IF unusable + 1 < MaxUnusable THEN unusable + 1 ELSE 0
    /\ UNCHANGED <<place, verdict, turn, measure, person, machine, approved, round, rejected,
                   repeats, readOnly, unbacked, verify, audits, audited, tooling, lastTree,
                   failing, runErr, claims>>

\* unusableReply: nothing to run, or no reply at all; only so many in a row.
UnusableReply ==
    /\ place = "decide" /\ ~cancelled
    /\ unusable' = unusable + 1
    /\ IF unusable + 1 >= MaxUnusable THEN EndRunWith("fail") ELSE place' = "next" /\ UNCHANGED verdict
    /\ UNCHANGED <<turn, measure, person, machine, approved, round, rejected,
                   repeats, readOnly, unbacked, verify, audits, audited, tooling, lastTree,
                   failing, runErr, claims>>

\* The call was cut by a message, or by the cancellation of the turn, or answered.
Decide ==
    /\ place = "decide"
    /\ \/ /\ unread > 0 /\ piece = 0 /\ ~cancelled
          /\ place' = "next" /\ UNCHANGED <<unusable, verdict>>
       \/ cancelled /\ EndRunWith("fail") /\ UNCHANGED unusable
       \/ place' = "act" /\ unusable' = 0 /\ UNCHANGED verdict
    /\ UNCHANGED <<turn, measure, person, machine, approved, round, rejected,
                   repeats, readOnly, unbacked, verify, audits, audited, tooling, lastTree,
                   failing, runErr, claims>>

\* What a round leaves behind: the tree, the tools, and a check of its own.
RoundRuns ==
    /\ tree' \in Trees
    /\ installed' \in {installed, TRUE}
    /\ failing' \in BOOLEAN

\* progress: work is left, or the person wrote meanwhile.
ProgressRound ==
    /\ place = "act"
    /\ RoundRuns
    /\ \E again \in BOOLEAN : repeats' = IF again THEN repeats + 1 ELSE 0
    /\ IF repeats' >= StallStop
         THEN EndRunWith("fail") /\ UNCHANGED <<readOnly, lastTree>>
         ELSE /\ place' = "next" /\ UNCHANGED verdict
              /\ readOnly' = IF tree' = lastTree THEN readOnly + 1 ELSE 0
              /\ lastTree' = tree'
    /\ UNCHANGED <<turn, measure, person, approved, round, rejected, unusable, unbacked,
                   verify, audits, audited, tooling, runErr, claims>>

\* A claim of done, with nothing the person wrote still to be read.
ClaimRound ==
    /\ place = "act" /\ (piece > 0 \/ unread = 0)
    /\ RoundRuns
    /\ runErr' \in BOOLEAN
    /\ repeats' = 0 /\ claims' = claims + 1
    /\ place' = "claim"
    /\ UNCHANGED <<turn, measure, person, verdict, approved, round, rejected, unusable,
                   readOnly, unbacked, verify, audits, audited, tooling, lastTree>>

-----------------------------------------------------------------------------
(* A claim of done: claimSentBack, then the anchor.                         *)

Unbacked == tree = found /\ unbacked = 0 /\ readOnly >= DoneGuard

ChallengeUnchanged ==
    /\ place = "claim" /\ Unbacked
    /\ unbacked' = 1
    /\ place' = "next"
    /\ UNCHANGED <<turn, measure, person, machine, verdict, approved, round, rejected,
                   unusable, repeats, readOnly, verify, audits, audited, tooling, lastTree,
                   failing, runErr, claims>>

ChallengeFailing ==
    /\ place = "claim" /\ ~Unbacked /\ failing /\ verify < MaxVerify
    /\ verify' = verify + 1
    /\ place' = "next"
    /\ UNCHANGED <<turn, measure, person, machine, verdict, approved, round, rejected,
                   unusable, repeats, readOnly, unbacked, audits, audited, tooling, lastTree,
                   failing, runErr, claims>>

AuditDue == task.criteria /\ ~audited /\ audits < AuditLimit /\ ~cancelled

\* Nothing the loop can see by itself speaks against the claim.
Weighed ==
    /\ place = "claim" /\ ~Unbacked /\ (~failing \/ verify >= MaxVerify)
    /\ place' = IF AuditDue THEN "audit" ELSE "judge"
    /\ UNCHANGED <<turn, counters, measure, person, machine, verdict, approved>>

\* auditClaim: met, or not readable, which is taken as met; or sent back.
Audit ==
    /\ place = "audit"
    /\ \/ audited' = TRUE /\ place' = "judge" /\ UNCHANGED audits
       \/ audits' = audits + 1 /\ place' = "next" /\ UNCHANGED audited
    /\ UNCHANGED <<turn, measure, person, machine, verdict, approved, round, rejected,
                   unusable, repeats, readOnly, unbacked, verify, tooling, lastTree, failing,
                   runErr, claims>>

\* rejectClaim: a gate that failed for want of a tool is not charged, so many times.
RejectClaim ==
    LET spared == Red(tree) = {"tools"} /\ tooling < MaxTooling IN
    /\ tooling' = IF spared THEN tooling + 1 ELSE tooling
    /\ rejected' = IF spared THEN rejected ELSE rejected + 1
    /\ IF ~spared /\ rejected + 1 > MaxRetries
         THEN EndRunWith("fail") ELSE place' = "next" /\ UNCHANGED verdict

\* WithBaseline: the baseline fails too, and in the same way (sameFailure).
Excused(k) == k # Unmeasured /\ k # {} /\ Red(tree) \subseteq k

\* validateClaim: the anchor, the baseline for what it refuses (measured once; the
\* checkout may fail), and the person for a PASS of a gate that is not the task's.
Judge ==
    /\ place = "judge"
    /\ known' \in IF Red(tree) # {} /\ known = Unmeasured THEN {Unmeasured, Red(found)} ELSE {known}
    /\ \E yes \in BOOLEAN :
         LET green   == Red(tree) = {} \/ Excused(known')
             asked   == green /\ tree.gate # gate
             accepts == green /\ (asked => yes)
         IN /\ gate' = IF asked /\ yes THEN tree.gate ELSE gate
            /\ approved' = IF asked /\ yes THEN approved \union {tree.gate} ELSE approved
            /\ IF accepts /\ ~runErr
                 THEN place' = "final" /\ UNCHANGED <<rejected, tooling, verdict>>
                 ELSE RejectClaim
    /\ UNCHANGED <<turn, found, person, machine, round, unusable, repeats, readOnly,
                   unbacked, verify, audits, audited, lastTree, failing, runErr, claims>>

\* finish: the final action, whose failure is charged like a rejection.
Final ==
    /\ place = "final"
    /\ \/ EndRunWith("pass") /\ UNCHANGED rejected
       \/ /\ rejected' = rejected + 1
          /\ IF rejected + 1 > MaxRetries
               THEN EndRunWith("fail") ELSE place' = "next" /\ UNCHANGED verdict
    /\ UNCHANGED <<turn, measure, person, machine, approved, round, unusable, repeats,
                   readOnly, unbacked, verify, audits, audited, tooling, lastTree, failing,
                   runErr, claims>>

-----------------------------------------------------------------------------
(* The end of a run.                                                        *)

\* A run's counters go with it: the next one starts from none.
Forgotten ==
    /\ round' = 0 /\ rejected' = 0 /\ unusable' = 0 /\ repeats' = 0 /\ readOnly' = 0
    /\ unbacked' = 0 /\ verify' = 0 /\ audits' = 0 /\ audited' = FALSE /\ tooling' = 0
    /\ failing' = FALSE /\ runErr' = FALSE /\ claims' = 0

\* retrySubtask; else the next subtask; else the closing run of a goal; else the turn.
RunEnds ==
    /\ place = "ended"
    /\ \/ /\ piece > 0 /\ verdict = "fail" /\ attempt < SubtaskRetries /\ ~cancelled
          /\ attempt' = attempt + 1 /\ place' = "enter" /\ UNCHANGED <<piece, verdict>>
       \/ /\ piece > 0 /\ verdict = "pass" /\ piece < pieces
          /\ \/ ~cancelled /\ piece' = piece + 1 /\ attempt' = 0 /\ place' = "enter" /\ UNCHANGED verdict
             \/ cancelled /\ place' = "over" /\ verdict' = "fail" /\ UNCHANGED <<piece, attempt>>
       \/ /\ piece > 0 /\ ~(verdict = "pass" /\ piece < pieces)
          /\ verdict = "fail" => attempt >= SubtaskRetries \/ cancelled
          /\ \/ task.goal /\ ~cancelled /\ piece' = 0 /\ attempt' = 0 /\ place' = "enter"
             \/ (~task.goal \/ cancelled) /\ place' = "over" /\ UNCHANGED <<piece, attempt>>
          /\ UNCHANGED verdict
       \/ piece = 0 /\ place' = "over" /\ UNCHANGED <<piece, attempt, verdict>>
    /\ Forgotten
    /\ UNCHANGED <<task, pieces, lastTree, measure, person, machine, approved>>

TurnStep ==
    \/ AnswerOrAsk \/ PlanTask \/ RunAside \/ Enter \/ NextRound \/ UnusableReply \/ Decide
    \/ ProgressRound \/ ClaimRound \/ ChallengeUnchanged \/ ChallengeFailing \/ Weighed \/ Audit
    \/ Judge \/ Final \/ RunEnds

TurnNext == TurnStep \/ Steer \/ CancelTurn

TurnSpec == TurnInit /\ [][TurnNext]_turnVars

\* The goroutine of the turn runs, and every call it makes comes back: a model call
\* and a command have a timeout, a question is answered or expires.
FairTurnSpec == TurnSpec /\ WF_turnVars(TurnStep)

-----------------------------------------------------------------------------
(* Properties.                                                              *)

\* Type invariant: the turn, the counters of its run and what it is measured against.
TurnTypeOK ==
    /\ task \in Tasks /\ pieces \in 0..task.pieces /\ piece \in 0..pieces /\ attempt \in 0..SubtaskRetries
    /\ place \in TurnPlaces /\ verdict \in Outcomes
    /\ tree \in Trees /\ installed \in BOOLEAN /\ found \in Trees /\ lastTree \in Trees
    /\ gate \in Gates /\ known \in SUBSET UNION ({{"tools"}, Unmeasured} \union {t.fails : t \in Trees})
    /\ round \in Nat /\ rejected \in Nat /\ unusable \in Nat /\ repeats \in Nat
    /\ readOnly \in Nat /\ unbacked \in 0..1 /\ verify \in Nat /\ audits \in Nat
    /\ audited \in BOOLEAN /\ tooling \in Nat /\ failing \in BOOLEAN /\ runErr \in BOOLEAN
    /\ typed \in Nat /\ unread \in Nat /\ cancelled \in BOOLEAN /\ claims \in Nat

\* A turn run whole, or a goal however it was split, is not reported done unless the
\* gate the TURN found accepts what is left in the tree, or it already failed the
\* same way before the turn, or the person took the PASS of the gate that replaced it.
PassIsTrue ==
    place = "over" /\ verdict = "pass" /\ (piece = 0 \/ (task.goal /\ ~cancelled)) =>
      /\ tree.gate = task.tree.gate \/ tree.gate \in approved
      /\ Red(tree) \subseteq Red(task.tree)

\* Whatever a run is sent back for, every claim of done that did not end it was charged to
\* exactly one of the budgets that bound it, so a run claims only so often.
ClaimsBounded ==
    /\ claims = rejected + tooling + unbacked + verify + audits
                + (IF \/ place \in {"claim", "audit", "judge", "final"}
                      \/ place = "ended" /\ verdict = "pass" /\ round > 0 THEN 1 ELSE 0)
    /\ rejected <= MaxRetries + 1 /\ tooling <= MaxTooling /\ unbacked <= 1
    /\ verify <= MaxVerify /\ audits <= AuditLimit

\* The anchor's word is asked, and taken, only after what it does not see was: a
\* check of the run's own that fails was sent back as often as it may be, and so
\* were criteria that were never shown.
UnprovenIsChallenged ==
    place \in {"judge", "final"} =>
      /\ failing => verify >= MaxVerify
      /\ task.criteria => audited \/ audits >= AuditLimit \/ cancelled

\* A claim of done earns its PASS: each filter it has to pass, the budget each filter has, and
\* what the PASS of the whole turn says at the end.
PassIsEarned == TurnTypeOK /\ PassIsTrue /\ ClaimsBounded /\ UnprovenIsChallenged

\* A turn that got past its first call ends, whatever the model replies and however often
\* the person writes.
TurnEnds == (place # "analysis") ~> (place = "over")

-----------------------------------------------------------------------------
(* A promise of a comment that splitting a task breaks.                     *)

\* "A PASS from a gate the run itself rewrote is not taken without the user's word"
\* (execute), for the turn as a whole.
SplitPassIsTrue ==
    place = "over" /\ verdict = "pass" /\ ~cancelled =>
      tree.gate = task.tree.gate \/ tree.gate \in approved
=============================================================================
