----------------------------- MODULE SessionTree -----------------------------
(***************************************************************************)
(* The sessions of a project, their threads and their checkouts, and what  *)
(* takes them away: the deletion of a session, of the project with all of  *)
(* them, and of the ones that were never used.  Each request is a handler  *)
(* of its own that takes a lock at a time; turns start, work and end       *)
(* meanwhile, and so does somebody with an editor in a checkout.           *)
(***************************************************************************)
EXTENDS Naturals, FiniteSets

CONSTANTS
    Askers,         \* handlers, of one request each
    MaxSessions,    \* bound: sessions ever opened
    MaxWork,        \* bound: turns that start, and times somebody else writes in a checkout
    Removals        \* the requests that take sessions away: some of delete, project, prune

ASSUME TreeAssumption == MaxSessions \in Nat /\ MaxWork \in Nat /\ Removals \subseteq {"delete", "project", "prune"}

VARIABLES
    nested,    \* the project is a plain folder of repositories: a checkout holds a worktree of each
    project,   \* the project's record is there
    opened,    \* sessions ever opened: 1..opened, the oldest first
    worked,    \* turns started and edits made, for the bound
    registry,  \* Server.sessions
    session,   \* of each: [parent, placed, closing, running, said, checkout, dirty]
    request,   \* of each handler: [does, at, all, rest, asked, forced, released, thread]
    lost,      \* history: sessions whose uncommitted work went without the user's word
    reopened,  \* history: sessions one removal reopened while another was taking them away
    edited,    \* history: sessions somebody else wrote in the checkout of while they were closing
    orphaned,  \* history: sessions given a parent that was gone, or whose main session went without
               \* its threads being promoted
    stranded,  \* history: sessions placed in the project after its deletion listed them
    halfway    \* history: a refused deletion of the project had given a checkout back

treeVars == <<nested, project, opened, worked, registry, session, request, lost, reopened, edited, orphaned,
              stranded, halfway>>
histories == <<lost, reopened, edited, orphaned, stranded, halfway>>

Sessions == 1..MaxSessions
NewSession ==
    [parent |-> 0, placed |-> FALSE, closing |-> FALSE, running |-> FALSE, said |-> FALSE,
     checkout |-> FALSE, dirty |-> FALSE]
NoRequest ==
    [does |-> "none", at |-> "idle", all |-> {}, rest |-> {}, asked |-> 0, forced |-> FALSE,
     released |-> FALSE, threads |-> {}]

InProject     == {i \in registry : session[i].placed}
Threads(i)    == {k \in registry : session[k].parent = i}
RemovedBy(r)  == IF request[r].does \in {"delete", "project", "prune"} THEN request[r].all ELSE {}
Oldest(s)     == CHOOSE i \in s : \A k \in s : i <= k
Others(s)     == s \ {Oldest(s)}

\* A main session, and threads with a worktree each.
TreeInit ==
    /\ nested \in BOOLEAN /\ project = TRUE /\ opened \in 2..MaxSessions /\ worked = 0 /\ registry = 1..opened
    /\ session = [i \in Sessions |->
         IF i > opened THEN NewSession
         ELSE [NewSession EXCEPT !.placed = TRUE, !.parent = IF i = 1 THEN 0 ELSE 1, !.checkout = i # 1]]
    /\ request = [r \in Askers |-> NoRequest]
    /\ lost = {} /\ reopened = {} /\ edited = {} /\ orphaned = {} /\ stranded = {} /\ halfway = FALSE

To(r, place) == request' = [request EXCEPT ![r].at = place]
Done(r)      == request' = [request EXCEPT ![r] = [NoRequest EXCEPT !.at = "answered"]]

----------------------------------------------------------------------------
\* Opening a session

\* handleCreateSession: the project is there; a thread of `asked`, or a session of its own.
AskForSession(r, asked) ==
    /\ request[r].at = "idle" /\ project /\ opened < MaxSessions
    /\ request' = [request EXCEPT ![r] = [NoRequest EXCEPT !.does = "open", !.at = "new", !.asked = asked]]
    /\ UNCHANGED <<nested, project, opened, worked, registry, session, histories>>

\* newSession: registered before it is anywhere.
Register(r) ==
    /\ request[r].at = "new" /\ opened < MaxSessions
    /\ opened' = opened + 1 /\ registry' = registry \union {opened + 1}
    /\ request' = [request EXCEPT ![r].at = "join", ![r].all = {opened + 1}]
    /\ UNCHANGED <<nested, project, worked, session, histories>>

MainOf(i) == IF i \notin InProject THEN 0 ELSE IF session[i].parent # 0 THEN session[i].parent ELSE i

\* threadParent.
FindParent(r) ==
    /\ request[r].at = "join"
    /\ request' = [request EXCEPT ![r].at = "place", ![r].asked = MainOf(@)]
    /\ UNCHANGED <<nested, project, opened, worked, registry, session, histories>>

\* setParent, and the thread's worktree, or none when it cannot be made.
MakeCheckout(r) ==
    LET i == Oldest(request[r].all)
        p == request[r].asked IN
    /\ request[r].at = "place" /\ To(r, "name")
    /\ \E made \in {p # 0, FALSE} :
         session' = IF i \notin registry THEN session
                    ELSE [session EXCEPT ![i].parent = p, ![i].checkout = made]
    /\ orphaned' = IF p # 0 /\ p \notin registry THEN orphaned \union {i} ELSE orphaned
    /\ UNCHANGED <<nested, project, opened, worked, registry, lost, reopened, edited, stranded, halfway>>

\* setProjectID.
PlaceInProject(r) ==
    LET i == Oldest(request[r].all) IN
    /\ request[r].at = "name" /\ Done(r)
    /\ session' = IF i \notin registry THEN session ELSE [session EXCEPT ![i].placed = TRUE]
    /\ stranded' = IF ~project \/ \E q \in Askers : request[q].does = "project"
                   THEN stranded \union {i} ELSE stranded
    /\ UNCHANGED <<nested, project, opened, worked, registry, lost, reopened, edited, orphaned, halfway>>

Opening(r) == Register(r) \/ FindParent(r) \/ MakeCheckout(r) \/ PlaceInProject(r)

----------------------------------------------------------------------------
\* Turns, and somebody else

StepOfSession ==
    UNCHANGED <<nested, project, opened, registry, request, lost, reopened, orphaned, stranded, halfway>>
Worked == worked < MaxWork /\ worked' = worked + 1

StartTurn(i) ==
    /\ i \in InProject /\ ~session[i].running /\ ~session[i].closing /\ Worked
    /\ session' = [session EXCEPT ![i].running = TRUE, ![i].said = TRUE]
    /\ UNCHANGED edited /\ StepOfSession
EndTurn(i) ==
    /\ session[i].running /\ session' = [session EXCEPT ![i].running = FALSE]
    /\ UNCHANGED <<worked, edited>> /\ StepOfSession
\* A turn writes in the checkout, or commits what is there.
Work(i) ==
    /\ session[i].running /\ session[i].checkout
    /\ session' = [session EXCEPT ![i].dirty = ~@]
    /\ UNCHANGED <<worked, edited>> /\ StepOfSession
\* Somebody else does.
Edit(i) ==
    /\ i \in registry /\ session[i].checkout /\ ~session[i].dirty /\ Worked
    /\ session' = [session EXCEPT ![i].dirty = TRUE]
    /\ edited' = IF session[i].closing THEN edited \union {i} ELSE edited
    /\ StepOfSession

----------------------------------------------------------------------------
\* Taking sessions away

StepOfRemoval == UNCHANGED <<nested, opened, worked, orphaned, stranded>>

Removing(what, s, place, forced) ==
    [NoRequest EXCEPT !.does = what, !.at = place, !.all = s, !.rest = s, !.forced = forced]
Closing(s) == session' = [i \in Sessions |-> IF i \in s THEN [session[i] EXCEPT !.closing = TRUE] ELSE session[i]]

\* handleDeleteSession and handleDeleteProject: every session of it is marked closing.
BeginRemoval(r, what, s, forced) ==
    /\ what \in Removals /\ request[r].at = "idle"
    /\ Closing(s) /\ request' = [request EXCEPT ![r] = Removing(what, s, "stop", forced)]
    /\ UNCHANGED <<project, registry, lost, reopened, edited, halfway>> /\ StepOfRemoval
DeleteSession(r, i, forced) == i \in registry /\ BeginRemoval(r, "delete", {i}, forced)
DeleteProject(r, forced)    == project /\ BeginRemoval(r, "project", InProject, forced)

Kept(i) == session[i].running \/ session[i].closing \/ session[i].said

\* closeIfBlank, of one of the sessions pruneBlankSessions goes through.
Prune(r, i) ==
    /\ "prune" \in Removals /\ request[r].at = "idle" /\ i \in registry
    /\ ~Kept(i) /\ Closing({i}) /\ request' = [request EXCEPT ![r] = Removing("prune", {i}, "inspect", FALSE)]
    /\ UNCHANGED <<project, registry, lost, reopened, edited, halfway>> /\ StepOfRemoval

\* reopenAndDrain of every one of them: nothing is deleted.
Refuse(r) ==
    LET s == request[r].all IN
    /\ Done(r)
    /\ session' = [i \in Sessions |-> IF i \in s THEN [session[i] EXCEPT !.closing = FALSE] ELSE session[i]]
    /\ reopened' = reopened \union {i \in s : \E q \in Askers \ {r} : i \in RemovedBy(q)}
    /\ halfway' = (halfway \/ request[r].released)
    /\ UNCHANGED <<project, registry, lost, edited>> /\ StepOfRemoval

Unsafe(i) == session[i].checkout /\ session[i].dirty

\* Mutant: what is in a checkout is looked at, and it is released all the same.
RefusesNone(r, i) == FALSE
Refuses(r, i)     == Unsafe(i) /\ ~request[r].forced

\* Past one of the sessions; past the last, on to the next thing.
NextOf(r, i, again, then) ==
    LET rest == request[r].rest \ {i} IN
    IF rest # {} THEN [request[r] EXCEPT !.rest = rest, !.at = again]
                 ELSE [request[r] EXCEPT !.rest = request[r].all, !.at = then]
Skips(r, then) == request' = [request EXCEPT ![r].at = then]
NoSession(r)   == request[r].rest = {}
NextUp(r)     == IF NoSession(r) THEN {} ELSE {Oldest(request[r].rest)}

\* stopRunForDeletion: its turn ends, or does not in time.
StopTurn(r) ==
    /\ request[r].at = "stop"
    /\ \/ \E i \in NextUp(r) :
            /\ session' = [session EXCEPT ![i].running = FALSE]
            /\ request' = [request EXCEPT ![r] = NextOf(r, i, "stop",
                 IF request[r].does = "project" /\ ~request[r].forced THEN "check" ELSE "inspect")]
            /\ UNCHANGED <<project, registry, lost, reopened, edited, halfway>> /\ StepOfRemoval
       \/ NoSession(r) /\ Skips(r, "forget")
            /\ UNCHANGED <<project, registry, session, lost, reopened, edited, halfway>> /\ StepOfRemoval
       \/ (\E i \in request[r].rest : session[i].running) /\ Refuse(r)

\* refuseAnyUnsafeRelease: all of them before any.
CheckSafe(r) ==
    /\ request[r].at = "check"
    /\ \E i \in NextUp(r) :
         IF Unsafe(i) THEN Refuse(r)
         ELSE /\ request' = [request EXCEPT ![r] = NextOf(r, i, "check", "inspect")]
              /\ UNCHANGED <<project, registry, session, lost, reopened, edited, halfway>> /\ StepOfRemoval

\* releaseWorktree: nothing to give back; work nobody confirmed the loss of; or it goes.
Inspect(r) ==
    /\ request[r].at = "inspect"
    /\ \E i \in request[r].rest :
         IF Refuses(r, i) THEN Refuse(r)
         ELSE /\ request' = [request EXCEPT ![r] =
                   IF session[i].checkout THEN [request[r] EXCEPT !.at = "release", !.asked = i]
                                          ELSE NextOf(r, i, "inspect", "forget")]
              /\ UNCHANGED <<project, registry, session, lost, reopened, edited, halfway>> /\ StepOfRemoval

\* git refuses a worktree with uncommitted work; the folder of nested ones is just removed.
Release(r) ==
    LET i == request[r].asked IN
    /\ request[r].at = "release"
    /\ IF Unsafe(i) /\ ~request[r].forced /\ ~nested THEN Refuse(r)
       ELSE /\ session' = [session EXCEPT ![i].checkout = FALSE, ![i].dirty = FALSE]
            /\ request' = [request EXCEPT ![r] = [NextOf(r, i, "inspect", "forget") EXCEPT !.released = TRUE]]
            /\ lost' = IF Unsafe(i) /\ ~request[r].forced THEN lost \union {i} ELSE lost
            /\ UNCHANGED <<project, registry, reopened, edited, halfway>> /\ StepOfRemoval

\* forget; and the record of the project.  Only the deletion of one session promotes its threads.
Forget(r) ==
    LET s == request[r].all IN
    /\ request[r].at = "forget" /\ registry' = registry \ s
    /\ IF request[r].does = "delete" THEN Skips(r, "promote") ELSE Done(r)
    /\ project' = (project /\ request[r].does # "project")
    /\ orphaned' = orphaned \union
         IF request[r].does = "delete" THEN {} ELSE (UNION {Threads(i) : i \in s}) \ s
    /\ session' = [i \in Sessions |-> IF i \in s THEN NewSession ELSE session[i]]
    /\ UNCHANGED <<nested, opened, worked, lost, reopened, edited, stranded, halfway>>

\* promoteThreads: the threads there are, and then the oldest takes the place of what was deleted.
ListThreads(r) ==
    /\ request[r].at = "promote"
    /\ LET kids == Threads(Oldest(request[r].all)) IN
       IF kids = {} THEN Done(r)
       ELSE request' = [request EXCEPT ![r].at = "adopt", ![r].threads = kids]
    /\ UNCHANGED <<project, registry, session, lost, reopened, edited, halfway>> /\ StepOfRemoval

\* Mutant: the oldest becomes the main session, and the others are left as they were.
PromoteOne(r) ==
    LET kids == request[r].threads IN
    /\ request[r].at = "adopt" /\ Done(r)
    /\ session' = [session EXCEPT ![Oldest(kids)].parent = 0]
    /\ UNCHANGED <<nested, project, opened, worked, registry, histories>>

Promote(r) ==
    LET kids == request[r].threads
        main == Oldest(kids) IN
    /\ request[r].at = "adopt" /\ Done(r)
    /\ session' = [i \in Sessions |->
         IF i \notin kids THEN session[i] ELSE [session[i] EXCEPT !.parent = IF i = main THEN 0 ELSE main]]
    /\ orphaned' = IF main \in registry THEN orphaned ELSE orphaned \union Others(kids)
    /\ UNCHANGED <<nested, project, opened, worked, registry, lost, reopened, edited, stranded, halfway>>

Removal(r) ==
    \/ StopTurn(r) \/ CheckSafe(r) \/ Inspect(r) \/ Release(r) \/ Forget(r)
    \/ ListThreads(r) \/ Promote(r)

TreeNext ==
    \/ \E r \in Askers :
         \/ \E asked \in registry \union {0} : AskForSession(r, asked)
         \/ \E i \in registry : Prune(r, i)
         \/ \E i \in registry, forced \in BOOLEAN : DeleteSession(r, i, forced)
         \/ \E forced \in BOOLEAN : DeleteProject(r, forced)
         \/ Opening(r) \/ Removal(r)
    \/ \E i \in registry : StartTurn(i) \/ EndTurn(i) \/ Work(i) \/ Edit(i)

TreeSpec == TreeInit /\ [][TreeNext]_treeVars

----------------------------------------------------------------------------
\* Properties

\* Uncommitted work goes only with the user's word.  Git refuses to remove a worktree with work in
\* it, whenever that was written; the folder of a plain project's worktrees is looked at and then
\* removed, and what is written in it in between goes, which a turn can do only once another
\* removal has reopened the session.
WorkIsKept == lost # {} => nested /\ lost \subseteq reopened \union edited
\* A refused deletion of a project leaves every session with its checkout, unless somebody wrote in
\* one, or another removal reopened it, after all were proven safe.
AllOrNothing == halfway => edited \union reopened # {}
\* A thread's main session is there, or is being replaced, unless it was pruned, or went while the
\* thread was being placed or given to it.
MainIsThere ==
    \A i \in registry :
      session[i].parent \in registry \union {0}
      \/ i \in orphaned
      \/ \E r \in Askers : request[r].at \in {"promote", "adopt"} /\ session[i].parent \in request[r].all
\* A session a message was sent to is not pruned as one that was never used, unless another removal
\* reopened it meanwhile.
UsedIsNotPruned ==
    \A r \in Askers : request[r].does = "prune" =>
      \A i \in request[r].all : session[i].said => i \in reopened
\* Nothing is left in a project that was deleted, but what was being placed in it meanwhile.
NoneLeftBehind == ~project => InProject \subseteq stranded

TreeTypeOK ==
    /\ nested \in BOOLEAN /\ project \in BOOLEAN /\ registry \subseteq 1..opened /\ opened \in 0..MaxSessions
    /\ session \in [Sessions -> [parent : {0} \union Sessions, placed : BOOLEAN, closing : BOOLEAN,
         running : BOOLEAN, said : BOOLEAN, checkout : BOOLEAN, dirty : BOOLEAN]]
    /\ \A r \in Askers : request[r].rest \subseteq request[r].all /\ request[r].all \subseteq 1..opened
    /\ lost \union reopened \union edited \union orphaned \union stranded \subseteq 1..opened
    /\ halfway \in BOOLEAN

DeletedWholly == TreeTypeOK /\ AllOrNothing /\ MainIsThere /\ UsedIsNotPruned /\ NoneLeftBehind
=============================================================================
