------------------------------ MODULE Autopilot ------------------------------
(***************************************************************************)
(* The draft pull requests Motita opens by itself (gateway/autopilot.go,   *)
(* autopilotapi.go): a firing of the routine, by the clock or by hand,     *)
(* counts the drafts of its own that are open, and lets the agent make one *)
(* change a project in a session of its own, vets it, pushes it and opens  *)
(* the draft, or leaves nothing behind.  The person changes the settings,  *)
(* closes drafts and writes in those sessions meanwhile; the host fails;   *)
(* the gateway dies.                                                       *)
(***************************************************************************)
EXTENDS Naturals, Sequences, FiniteSets

CONSTANTS
    Projects,       \* the repository of each project, in order
    Limits,         \* what max_open_prs is set to
    MaxFixes,       \* bound: sessions made for a change
    MaxFalls        \* bound: times the gateway dies

ASSUME AutopilotAssumption ==
    /\ Projects \in Seq({Projects[i] : i \in DOMAIN Projects})
    /\ Limits \subseteq Nat \ {0} /\ MaxFixes \in Nat /\ MaxFalls \in Nat

VARIABLES
    settings,   \* the file: [on, limit]
    busy,       \* autopilotBusy
    firing,     \* by the clock and by hand: [at, limit, left, counted, unread, targets, open, fix, lost]
    made,       \* sessions made so far
    fixes,      \* sessions there are
    worktrees,  \* their worktrees and branches
    work,       \* what each worktree holds: "fine", what is never published ("refused"), a "person"'s
    pushed,     \* on the host: "no" branch, one that is "fine", or with what is never published
    drafts,     \* on the host: [fix, repo, open]
    falls,
    left        \* history: sessions a death left behind

onDisk        == <<made, fixes, worktrees, work>>
onHost        == <<pushed, drafts>>
marks         == <<falls, left>>
autopilotVars == <<settings, busy, firing, onDisk, onHost, marks>>

Firers     == {"clock", "hand"}
Fixes      == 1..MaxFixes
Repos      == {Projects[i] : i \in DOMAIN Projects}
NotFiring  == [at |-> "off", limit |-> 0, left |-> <<>>, counted |-> {}, unread |-> {},
               targets |-> {}, open |-> 0, fix |-> 0, lost |-> {}]
Numbers    == [i \in DOMAIN Projects |-> i]

AutopilotInit ==
    /\ settings \in [on : BOOLEAN, limit : Limits]
    /\ busy = FALSE /\ firing = [f \in Firers |-> NotFiring]
    /\ made = 0 /\ fixes = {} /\ worktrees = {} /\ work = [s \in Fixes |-> {}]
    /\ pushed = [s \in Fixes |-> "no"] /\ drafts = {}
    /\ falls = 0 /\ left = {}

-----------------------------------------------------------------------------
(* A firing.                                                                *)

Fires(f, with) == firing' = [firing EXCEPT ![f] = with]
Goes(f, at)    == Fires(f, [firing[f] EXCEPT !.at = at])

Counting(limit) == [NotFiring EXCEPT !.at = "count", !.limit = limit, !.left = Numbers]

\* runAutopilot, for a record that is due (whether it is, Schedules): the mark first ...
ClockMarks ==
    /\ firing["clock"].at = "off"
    /\ ~busy /\ busy' = TRUE /\ Goes("clock", "config")
    /\ UNCHANGED <<settings, onDisk, onHost, marks>>

\* ... then the settings, whose switch is the truth.
ClockReads ==
    /\ firing["clock"].at = "config"
    /\ IF settings.on THEN Fires("clock", Counting(settings.limit)) /\ UNCHANGED busy
       ELSE Fires("clock", NotFiring) /\ busy' = FALSE
    /\ UNCHANGED <<settings, onDisk, onHost, marks>>

\* launchAutopilot: the settings first, then the mark.
HandReads ==
    /\ firing["hand"].at = "off" /\ settings.on
    /\ Fires("hand", [NotFiring EXCEPT !.at = "mark", !.limit = settings.limit])
    /\ UNCHANGED <<settings, busy, onDisk, onHost, marks>>

HandMarks ==
    /\ firing["hand"].at = "mark"
    /\ IF busy THEN Fires("hand", NotFiring) /\ UNCHANGED busy
       ELSE Fires("hand", Counting(firing["hand"].limit)) /\ busy' = TRUE
    /\ UNCHANGED <<settings, onDisk, onHost, marks>>

OpenIn(r) == {d \in drafts : d.repo = r /\ d.open}

\* The next project to count: it has no host, its repository was counted for another project, or
\* the host says what is open, or fails. A repository is marked before the host is asked.
CountNext(f) ==
    LET now == firing[f] i == Head(now.left) r == Projects[i] IN
    /\ now.at = "count" /\ now.left # <<>>
    /\ \/ Fires(f, [now EXCEPT !.left = Tail(@)])
       \/ /\ r \in now.counted
          /\ Fires(f, [now EXCEPT !.left = Tail(@), !.targets = @ \union {i}])
       \/ /\ r \notin now.counted
          /\ \/ Fires(f, [now EXCEPT !.left = Tail(@), !.targets = @ \union {i}, !.counted = @ \union {r},
                                     !.open = @ + Cardinality(OpenIn(r))])
             \/ Fires(f, [now EXCEPT !.left = Tail(@), !.counted = @ \union {r}, !.unread = @ \union {r}])
    /\ UNCHANGED <<settings, busy, onDisk, onHost, marks>>

Counted(f) ==
    /\ firing[f].at = "count" /\ firing[f].left = <<>>
    /\ Fires(f, [firing[f] EXCEPT !.at = "next", !.left = Numbers])
    /\ UNCHANGED <<settings, busy, onDisk, onHost, marks>>

\* Mutant: one more than the person allows.
RoomForOneMore(now) == now.open <= now.limit

\* Whether another draft is within the limit the firing was given.
Room(now) == now.open < now.limit

\* The routine is over, or its limit is reached.
FiringEnds(f) ==
    /\ firing[f].at = "next" /\ (firing[f].left = <<>> \/ ~Room(firing[f]))
    /\ Fires(f, NotFiring) /\ busy' = FALSE
    /\ UNCHANGED <<settings, onDisk, onHost, marks>>

\* fixProject: a project that is no target, a session that cannot be made, one that has no
\* worktree of its own, or a worktree on the branch the autopilot names.
StartFix(f) ==
    LET now == firing[f] IN
    /\ now.at = "next" /\ now.left # <<>> /\ Room(now)
    /\ \/ Fires(f, [now EXCEPT !.left = Tail(@)]) /\ UNCHANGED onDisk
       \/ /\ Head(now.left) \in now.targets /\ made < MaxFixes
          /\ made' = made + 1 /\ fixes' = fixes \union {made'} /\ UNCHANGED work
          /\ \E has \in BOOLEAN :
               /\ worktrees' = IF has THEN worktrees \union {made'} ELSE worktrees
               /\ Fires(f, [now EXCEPT !.fix = made', !.at = IF has THEN "run" ELSE "discard"])
    /\ UNCHANGED <<settings, busy, onHost, marks>>

\* awaitRun: the agent did nothing, or committed; or did not finish, or its session was busy.
FixRuns(f) ==
    LET s == firing[f].fix IN
    /\ firing[f].at = "run"
    /\ \/ \E done \in {{}, {"fine"}, {"fine", "refused"}} :
            work' = [work EXCEPT ![s] = IF s \in worktrees THEN done ELSE {}] /\ Goes(f, "vet")
       \/ UNCHANGED work /\ Goes(f, "discard")
    /\ UNCHANGED <<settings, busy, made, fixes, worktrees, onHost, marks>>

\* Mutant: only the last commit is measured.
VettedLast(s) == s \in worktrees /\ "fine" \in work[s]

\* vetChange: committed, on its branch, something, and nothing of what is never published; what a
\* person wrote is measured like the agent's.
Vetted(s) == s \in worktrees /\ work[s] # {} /\ "refused" \notin work[s]

Vet(f) ==
    /\ firing[f].at = "vet"
    /\ Goes(f, IF Vetted(firing[f].fix) THEN "push" ELSE "discard")
    /\ UNCHANGED <<settings, busy, onDisk, onHost, marks>>

\* gitPushBranch: the branch as it is, or the push fails.
PushFix(f) ==
    LET s == firing[f].fix IN
    /\ firing[f].at = "push"
    /\ \/ s \in worktrees /\ pushed' = [pushed EXCEPT ![s] = IF "refused" \in work[s] THEN "refused" ELSE "fine"] /\ Goes(f, "draft")
       \/ Goes(f, "discard") /\ UNCHANGED pushed
    /\ UNCHANGED <<settings, busy, onDisk, drafts, marks>>

Draft(f) == [fix |-> firing[f].fix, repo |-> Projects[Head(firing[f].left)], open |-> TRUE]

\* CreatePR: the draft is open and the session stays; or it is refused; or it is open and the
\* answer is lost or tells no number.
OpenDraft(f) ==
    LET now == firing[f] IN
    /\ now.at = "draft"
    /\ \/ /\ drafts' = drafts \union {Draft(f)}
          /\ Fires(f, [now EXCEPT !.at = "next", !.fix = 0, !.left = Tail(@), !.open = @ + 1])
       \/ UNCHANGED drafts /\ Goes(f, "discard")
       \/ /\ drafts' = drafts \union {Draft(f)}
          /\ Fires(f, [now EXCEPT !.at = "discard", !.lost = @ \union {now.fix}])
    /\ UNCHANGED <<settings, busy, onDisk, pushed, marks>>

\* Mutant: an attempt that came to nothing is forgotten with its worktree in place.
DiscardSession(f) ==
    /\ firing[f].at = "discard"
    /\ Goes(f, "forget")
    /\ UNCHANGED <<settings, busy, onDisk, onHost, marks>>

\* discardFixSession: the run is stopped, the worktree and its branch go (what git refuses is
\* logged, and is there until somebody removes it) ...
Discard(f) ==
    LET s == firing[f].fix IN
    /\ firing[f].at = "discard"
    /\ worktrees' = worktrees \ {s} /\ work' = [work EXCEPT ![s] = {}]
    /\ Goes(f, "forget")
    /\ UNCHANGED <<settings, busy, made, fixes, onHost, marks>>

\* ... and the session, with its record.
ForgetFix(f) ==
    LET now == firing[f] IN
    /\ now.at = "forget"
    /\ fixes' = fixes \ {now.fix}
    /\ Fires(f, [now EXCEPT !.at = "next", !.fix = 0, !.left = Tail(@)])
    /\ UNCHANGED <<settings, busy, made, worktrees, work, onHost, marks>>

-----------------------------------------------------------------------------
(* The person and the gateway.                                              *)

\* handlePutAutopilot: what the file says from now on.
PutAutopilot ==
    /\ settings' \in [on : BOOLEAN, limit : Limits] /\ settings' # settings
    /\ UNCHANGED <<busy, firing, onDisk, onHost, marks>>

\* A draft is merged or closed.
CloseDraft(d) ==
    /\ d \in drafts /\ d.open
    /\ drafts' = (drafts \ {d}) \union {[d EXCEPT !.open = FALSE]}
    /\ UNCHANGED <<settings, busy, firing, onDisk, pushed, marks>>

\* A message of a person in such a session, queued behind its run or after it, and its commit.
WriteIn(s) ==
    /\ s \in fixes \intersect worktrees
    /\ \E f \in Firers : firing[f].fix = s /\ firing[f].at # "run"
    /\ work' = [work EXCEPT ![s] = @ \union {"person"}]
    /\ UNCHANGED <<settings, busy, firing, made, fixes, worktrees, onHost, marks>>

\* The person deletes such a session before its draft is open.
DeleteFix(s) ==
    /\ s \in fixes /\ \E f \in Firers : firing[f].fix = s
    /\ fixes' = fixes \ {s} /\ worktrees' = worktrees \ {s} /\ work' = [work EXCEPT ![s] = {}]
    /\ UNCHANGED <<settings, busy, firing, made, onHost, marks>>

\* The process dies.
GatewayFalls ==
    /\ falls < MaxFalls /\ falls' = falls + 1
    /\ left' = left \union ({firing[f].fix : f \in Firers} \ {0})
    /\ work' = [s \in Fixes |-> {}]
    /\ busy' = FALSE /\ firing' = [f \in Firers |-> NotFiring]
    /\ UNCHANGED <<settings, made, fixes, worktrees, onHost>>

FixStep(f) ==
    \/ CountNext(f) \/ Counted(f) \/ FiringEnds(f) \/ StartFix(f) \/ FixRuns(f) \/ Vet(f)
    \/ PushFix(f) \/ OpenDraft(f) \/ Discard(f) \/ ForgetFix(f)

AutopilotNext ==
    \/ PutAutopilot
    \/ ClockMarks \/ ClockReads \/ HandReads \/ HandMarks
    \/ \E f \in Firers : FixStep(f)
    \/ \E d \in drafts : CloseDraft(d)
    \/ \E s \in fixes : WriteIn(s) \/ DeleteFix(s)
    \/ GatewayFalls

AutopilotSpec == AutopilotInit /\ [][AutopilotNext]_autopilotVars

-----------------------------------------------------------------------------
(* Properties.                                                              *)

\* Type invariant: the settings, the firings and what is on disk and on the host.
AutopilotTypeOK ==
    /\ settings.limit \in Limits
    /\ \A f \in Firers : /\ firing[f].targets \subseteq DOMAIN Projects
                         /\ firing[f].counted \subseteq Repos
                         /\ firing[f].fix \in 0..made
                         /\ firing[f].fix # 0 <=> firing[f].at \in {"run", "vet", "push", "draft", "discard", "forget"}
    /\ busy <=> \E f \in Firers : firing[f].at \notin {"off", "mark"}
    /\ fixes \subseteq 1..made /\ worktrees \subseteq 1..made
    /\ \A d \in drafts : pushed[d.fix] # "no"

\* "One never runs twice at once" and "no pull request is opened while the open ones of its own
\* are at the person's limit", by the clock and by hand: of the drafts the host could tell this
\* firing of, or told it that it opened, there are never more than the limit it was given.
LimitIsKept ==
    [][\A f \in Firers : \A d \in drafts' \ drafts :
         (d.open /\ d.fix = firing[f].fix /\ firing[f].at = "draft") =>
            Cardinality({e \in drafts' : e.open /\ e.repo \in firing[f].counted \ firing[f].unread
                                         /\ e.fix \notin firing'[f].lost}) <= firing[f].limit
       ]_autopilotVars

\* "A change over the limits, or touching a path on the deny list, is not published": what an
\* agent with nobody to ask did is on the host only once it was vetted.
UnaskedIsVetted == \A s \in Fixes : pushed[s] # "refused"

\* "Whatever ends before the pull request exists leaves nothing behind: no session in the
\* sidebar, no worktree, no branch", however the attempt ended and whoever interfered, unless
\* the process died.
NothingLeftBehind ==
    ~busy => \A s \in fixes \union worktrees : s \in left \/ \E d \in drafts : d.fix = s

-----------------------------------------------------------------------------
(* Promises the code does not keep.                                         *)

\* "No pull request is opened while the open ones of its own are at the person's limit": a second
\* project of a repository that could not be counted is still a target, and a draft whose
\* opening was answered by an error is not counted.
NeverOverTheLimit ==
    [][\A f \in Firers : \A d \in drafts' \ drafts :
         (d.open /\ d.fix = firing[f].fix /\ firing[f].at = "draft") =>
            Cardinality({e \in drafts' : e.open}) <= firing[f].limit]_autopilotVars

\* "The gate" (vetChange): between it and the push nothing holds the session, and what a person
\* sent there meanwhile is pushed with what was vetted.
PushedIsWhatWasVetted ==
    [][\A f \in Firers, s \in Fixes :
         firing[f].at = "push" /\ firing[f].fix = s => work'[s] \in {work[s], {}}]_autopilotVars

\* "Its work is the autopilot's own scratch, never the user's" (discardFixSession).
ScratchIsItsOwn ==
    [][\A f \in Firers : firing[f].at = "discard" /\ firing[f].fix \in worktrees \ worktrees' =>
         "person" \notin work[firing[f].fix]]_autopilotVars

\* "Leaves nothing behind ... no branch" (fixProject): the branch was pushed before the draft.
NothingLeftOnTheHost == ~busy => \A s \in Fixes : pushed[s] # "no" => s \in left \/ \E d \in drafts : d.fix = s
=============================================================================
