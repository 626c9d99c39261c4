----------------------------- MODULE LocalModel -----------------------------
(***************************************************************************)
(* The local model: a runtime and a model downloaded into a folder, and    *)
(* the server that runs them (internal/localmodel).  The requests of the   *)
(* settings page run at the same time as each other, as an install, as the *)
(* goroutine that waits for a server to answer and as the one that waits   *)
(* for its end; a server exits whenever it likes, and the gateway dies.    *)
(* Only the model's own download is followed piece by piece; the archive   *)
(* of the runtime is fetched the same way.                                 *)
(***************************************************************************)
EXTENDS Naturals, Sequences

CONSTANTS
    Callers,        \* handlers of one request each, to cancel, stop, delete or close
    Pieces,         \* bound: pieces of the model's file
    MaxStarts,      \* bound: requests to start; the server of one has its number
    MaxInstalls,    \* bound: installs begun
    MaxLocalDeaths, \* bound: times the gateway dies
    LocalFaults     \* which may happen: an install or a start "meets" a deletion that did not see
                    \* it; a death has a deletion "cut" half-way
ASSUME LocalAssumption ==
    /\ Pieces \in Nat \ {0} /\ MaxStarts \in Nat /\ MaxInstalls \in Nat /\ MaxLocalDeaths \in Nat
    /\ LocalFaults \subseteq {"meets", "cut"} /\ Callers \intersect (1..MaxStarts) = {}

VARIABLES
    folder,      \* the folder: [part, model, dir, current]
    task,        \* Manager.task.Running
    installs,    \* where each install is; the last one begun has the highest number
    installing,  \* Manager.installing: the install Cancel waits for, 0 for none
    cancelled,   \* installs whose context was cancelled
    srv,         \* Manager.srv: [starting, running]; the error it shows is left out
    cmd,         \* Manager.cmd: a server, 0 for none
    runs,        \* what the server of each start was launched with: [model, dir]
    servers,     \* servers that have not exited
    reaped,      \* servers whose end was noted: their done is closed
    stage,       \* where each request, and each server's awaitHealth, is
    does,        \* what each request asks for; a stop is the end of a closing
    on,          \* the install or the server it waits for
    localDeaths

localVars == <<folder, task, installs, installing, cancelled, srv, cmd, runs, servers, reaped, stage, does, on,
               localDeaths>>
installVars == <<task, installs, installing, cancelled>>
serverVars  == <<srv, cmd, runs, servers, reaped>>
requestVars   == <<stage, does, on>>

Starts    == 1..MaxStarts
Whole     == [k \in 1..Pieces |-> k]
EmptyFolder == [part |-> <<>>, model |-> <<>>, dir |-> "none", current |-> FALSE]
NotRun    == [model |-> <<>>, dir |-> "none"]
NoServer  == [starting |-> FALSE, running |-> FALSE]

ModelPresent   == Len(folder.model) = Pieces
RuntimePresent == folder.current /\ folder.dir # "none"

\* Deletions that have cancelled the install there was, and those that have stopped the server.
Deleting(places) == \E c \in Callers : does[c] = "delete" /\ stage[c] \in places
PastStop   == {"stopping", "reset", "remove", "removing"}
PastCancel == PastStop \union {"cancelling", "stop"}

LocalInit ==
    /\ folder = EmptyFolder /\ task = FALSE /\ installs = <<>> /\ installing = 0 /\ cancelled = {}
    /\ srv = NoServer /\ cmd = 0 /\ runs = [g \in Starts |-> NotRun] /\ servers = {} /\ reaped = {}
    /\ stage = [w \in Callers \union Starts |-> "idle"]
    /\ does = [c \in Callers |-> "none"] /\ on = [w \in Callers \union Starts |-> 0]
    /\ localDeaths = 0

----------------------------------------------------------------------------
\* The install

\* Install.
Install ==
    /\ ~task /\ Len(installs) < MaxInstalls
    /\ task' = TRUE /\ installs' = Append(installs, "runtime") /\ installing' = Len(installs) + 1
    /\ "meets" \in LocalFaults \/ ~Deleting(PastCancel)
    /\ UNCHANGED <<folder, cancelled, serverVars, requestVars, localDeaths>>

InstallGoes(i, from, to) == installs[i] = from /\ installs' = [installs EXCEPT ![i] = to]

StepOfInstall == UNCHANGED <<task, installing, cancelled, serverVars, requestVars, localDeaths>>

\* installRuntime: nothing to do, or the archive is there and the old folder goes.
RuntimeThere(i) == RuntimePresent /\ InstallGoes(i, "runtime", "model") /\ UNCHANGED folder /\ StepOfInstall

Unpack(i) ==
    /\ ~RuntimePresent /\ i \notin cancelled /\ InstallGoes(i, "runtime", "unpack")
    /\ folder' = [folder EXCEPT !.dir = "half"]
    /\ StepOfInstall

Unpacked(i) == InstallGoes(i, "unpack", "name") /\ folder' = [folder EXCEPT !.dir = "whole"] /\ StepOfInstall
NameIt(i)   == InstallGoes(i, "name", "model") /\ folder' = [folder EXCEPT !.current = TRUE] /\ StepOfInstall

\* installModel; run: what an earlier attempt left is the start of this one.
ModelThere(i) == ModelPresent /\ InstallGoes(i, "model", "end") /\ UNCHANGED folder /\ StepOfInstall
ResumePart(i) ==
    /\ ~ModelPresent
    /\ InstallGoes(i, "model", IF Len(folder.part) = Pieces THEN "check" ELSE "ask")
    /\ UNCHANGED folder /\ StepOfInstall

\* fetch: the rest of the file, or all of it, and then what was kept is dropped.
BeginFetch(i) ==
    /\ i \notin cancelled /\ InstallGoes(i, "ask", "read")
    /\ folder' \in {folder, [folder EXCEPT !.part = <<>>]}
    /\ Len(folder.part) \in {0} \union (Pieces + 1)..(Pieces + MaxInstalls) => folder'.part = <<>>
    /\ StepOfInstall

\* A piece arrives: the one that was published, or another.
Piece(i) ==
    LET n == Len(folder.part) + 1 IN
    /\ i \notin cancelled /\ n <= Pieces
    /\ InstallGoes(i, "read", IF n = Pieces THEN "check" ELSE "read")
    /\ \E p \in {n, 0} : folder' = [folder EXCEPT !.part = Append(@, p)]
    /\ StepOfInstall

\* Mutant: the file is put in place and hashed there.
PlacedFirst(i) ==
    /\ InstallGoes(i, "check", "end")
    /\ folder' = [folder EXCEPT !.part = <<>>, !.model = folder.part]
    /\ StepOfInstall

\* The whole file against its hash: put in place, or deleted.
CheckHash(i) ==
    /\ InstallGoes(i, "check", "end")
    /\ folder' = [folder EXCEPT !.part = <<>>, !.model = IF folder.part = Whole THEN Whole ELSE @]
    /\ StepOfInstall

\* The network, the disk or a cancellation ends it where it is; what there is stays.
Gives(i) ==
    /\ installs[i] \in {"runtime", "unpack", "name", "ask", "read"}
    /\ installs' = [installs EXCEPT ![i] = "end"]
    /\ UNCHANGED folder /\ StepOfInstall

\* The end of install.
InstallEnds(i) ==
    /\ InstallGoes(i, "end", "over") /\ task' = FALSE /\ installing' = 0 /\ cancelled' = cancelled \ {i}
    /\ UNCHANGED <<folder, serverVars, requestVars, localDeaths>>

InstallStep(i) ==
    \/ RuntimeThere(i) \/ Unpack(i) \/ Unpacked(i) \/ NameIt(i) \/ ModelThere(i) \/ ResumePart(i)
    \/ BeginFetch(i) \/ Piece(i) \/ CheckHash(i) \/ Gives(i) \/ InstallEnds(i)

----------------------------------------------------------------------------
\* The server

StepOfServer == UNCHANGED <<folder, installVars, localDeaths>>

\* A request is forgotten once it is answered.
Reaches(w, p) ==
    /\ stage' = [stage EXCEPT ![w] = p]
    /\ does' = IF p = "over" /\ w \in Callers THEN [does EXCEPT ![w] = "none"] ELSE does
Moves(w, from, to) == stage[w] = from /\ Reaches(w, to)

Launched == {g \in Starts : runs[g] # NotRun}

\* Start: what is there is read before the lock is taken.
ReadStatus(g) ==
    /\ stage[g] = "idle" /\ ModelPresent /\ RuntimePresent /\ \A h \in 1..g - 1 : stage[h] # "idle"
    /\ stage' = [stage EXCEPT ![g] = "start"]
    /\ UNCHANGED <<folder, installVars, serverVars, does, on, localDeaths>>

Busy == task \/ srv.running \/ srv.starting

\* Busy, a program that is not there any more, or the server is launched.
Start(g) ==
    /\ stage[g] = "start"
    /\ IF Busy \/ ~RuntimePresent
       THEN stage' = [stage EXCEPT ![g] = "over"] /\ UNCHANGED serverVars
       ELSE /\ "meets" \in LocalFaults \/ ~Deleting(PastStop)
            /\ runs' = [runs EXCEPT ![g] = [model |-> folder.model, dir |-> folder.dir]]
            /\ servers' = servers \union {g} /\ cmd' = g
            /\ srv' = [NoServer EXCEPT !.starting = TRUE]
            /\ stage' = [stage EXCEPT ![g] = "poll"]
            /\ UNCHANGED reaped
    /\ UNCHANGED <<folder, installVars, does, on, localDeaths>>

\* The process exits: by itself, told to, or killed once stopGrace is over.
Exit(g) ==
    /\ g \in servers /\ servers' = servers \ {g}
    /\ UNCHANGED <<srv, cmd, runs, reaped, requestVars>> /\ StepOfServer

\* Mutant: the end of a server that was still starting leaves it shown as starting.
NotesTheRest(g) ==
    /\ g \in Launched \ (servers \union reaped)
    /\ reaped' = reaped \union {g} /\ cmd' = 0
    /\ srv' = [NoServer EXCEPT !.starting = srv.starting]
    /\ UNCHANGED <<runs, servers, requestVars>> /\ StepOfServer

\* wait.
NoteExit(g) ==
    /\ g \in Launched \ (servers \union reaped)
    /\ reaped' = reaped \union {g} /\ cmd' = 0
    /\ srv' = NoServer
    /\ UNCHANGED <<runs, servers, requestVars>> /\ StepOfServer

\* awaitHealth: one round asks for /health unless the server's end was noted; whichever server has
\* the port by then answers.
AskHealth(g) ==
    /\ Moves(g, "poll", IF g \in reaped THEN "over" ELSE "ask")
    /\ UNCHANGED <<serverVars, on>> /\ StepOfServer
Silent(g) == Moves(g, "ask", "poll") /\ UNCHANGED <<serverVars, on>> /\ StepOfServer
Healthy(g) ==
    /\ servers # {} /\ Moves(g, "ask", "healthy")
    /\ UNCHANGED <<serverVars, on>> /\ StepOfServer
\* It is shown as running, and onReady saves its address.
Answers(g) ==
    /\ Moves(g, "healthy", "over")
    /\ srv' = [srv EXCEPT !.starting = FALSE, !.running = TRUE]
    /\ UNCHANGED <<cmd, runs, servers, reaped, on>> /\ StepOfServer
\* healthTimeout is over.
TooLate(g) == Moves(g, "poll", "stop") /\ UNCHANGED <<serverVars, on>> /\ StepOfServer

AfterStop(w) == IF w \notin Callers THEN "over" ELSE IF does[w] = "delete" THEN "reset" ELSE "over"

\* stop: nothing to stop, or the server is told to; and its end.
BeginStop(w) ==
    /\ stage[w] = "stop"
    /\ IF cmd = 0
       THEN Reaches(w, AfterStop(w)) /\ UNCHANGED on
       ELSE Reaches(w, "stopping") /\ on' = [on EXCEPT ![w] = cmd]
    /\ UNCHANGED serverVars /\ StepOfServer
EndStop(w) ==
    /\ on[w] \in reaped /\ Moves(w, "stopping", AfterStop(w)) /\ on' = [on EXCEPT ![w] = 0]
    /\ UNCHANGED serverVars /\ StepOfServer

HealthStep(g) == AskHealth(g) \/ Silent(g) \/ Healthy(g) \/ Answers(g) \/ TooLate(g)

----------------------------------------------------------------------------
\* Cancel, Stop, Delete and Close

Requested(c, what) ==
    /\ stage[c] = "idle"
    /\ stage' = [stage EXCEPT ![c] = IF what = "stop" THEN "stop" ELSE "cancel"]
    /\ does' = [does EXCEPT ![c] = IF what = "stop" THEN "close" ELSE what]
    /\ UNCHANGED <<folder, installVars, serverVars, on, localDeaths>>

AfterCancel(c) == IF does[c] = "cancel" THEN "over" ELSE "stop"

BeginCancel(c) ==
    /\ Moves(c, "cancel", IF installing = 0 THEN AfterCancel(c) ELSE "cancelling")
    /\ cancelled' = cancelled \union ({installing} \ {0}) /\ on' = [on EXCEPT ![c] = installing]
    /\ UNCHANGED <<folder, task, installs, installing, serverVars, localDeaths>>
EndCancel(c) ==
    /\ Moves(c, "cancelling", AfterCancel(c)) /\ installs[on[c]] = "over" /\ on' = [on EXCEPT ![c] = 0]
    /\ UNCHANGED <<folder, installVars, serverVars, localDeaths>>

\* Delete, once the install and the server are stopped.
Reset(c) ==
    /\ Moves(c, "reset", "remove") /\ task' = FALSE /\ srv' = NoServer
    /\ UNCHANGED <<folder, installs, installing, cancelled, cmd, runs, servers, reaped, on, localDeaths>>

\* RemoveAll goes through the folder; what it has not come to is there as it was.
LeftBehind == [part : {folder.part, <<>>}, model : {folder.model, <<>>},
               dir : {folder.dir, "none"} \union IF folder.dir = "whole" THEN {"half"} ELSE {},
               current : {folder.current, FALSE}]
RemoveSome(c) ==
    /\ Moves(c, "remove", "removing") /\ folder' \in LeftBehind
    /\ UNCHANGED <<installVars, serverVars, on, localDeaths>>
RemoveRest(c) ==
    /\ Moves(c, "removing", "over") /\ folder' = EmptyFolder
    /\ UNCHANGED <<installVars, serverVars, on, localDeaths>>

RequestStep(c) ==
    \/ BeginCancel(c) \/ EndCancel(c) \/ Reset(c) \/ RemoveSome(c) \/ RemoveRest(c)

\* The gateway dies, and its server with it; another starts over the folder.
LocalGatewayDies ==
    /\ localDeaths < MaxLocalDeaths /\ localDeaths' = localDeaths + 1
    /\ task' = FALSE /\ installs' = [i \in DOMAIN installs |-> "over"] /\ installing' = 0
    /\ cancelled' = {} /\ srv' = NoServer /\ cmd' = 0 /\ servers' = {} /\ reaped' = Launched
    /\ stage' = [w \in DOMAIN stage |-> IF stage[w] = "idle" THEN "idle" ELSE "over"]
    /\ does' = [c \in Callers |-> "none"] /\ on' = [w \in DOMAIN on |-> 0]
    /\ "cut" \in LocalFaults \/ ~Deleting({"removing"})
    /\ UNCHANGED <<folder, runs>>

LocalNext ==
    \/ Install
    \/ \E i \in DOMAIN installs : InstallStep(i)
    \/ \E g \in Starts : ReadStatus(g) \/ Start(g) \/ Exit(g) \/ NoteExit(g) \/ HealthStep(g)
    \/ \E w \in DOMAIN stage : BeginStop(w) \/ EndStop(w)
    \/ \E c \in Callers :
         \/ RequestStep(c)
         \/ \E what \in {"cancel", "stop", "close", "delete"} : Requested(c, what)
    \/ LocalGatewayDies

LocalSpec == LocalInit /\ [][LocalNext]_localVars

\* A server that was told to stop exits or is killed, and its end is noted; the goroutine that asks
\* for its health goes on until it answers or the time it is given is over.
ToldTo(g)   == \E w \in DOMAIN stage : stage[w] = "stopping" /\ on[w] = g
EndOf(g)    == (ToldTo(g) /\ Exit(g)) \/ NoteExit(g)
HealthOf(g) == Silent(g) \/ Answers(g) \/ BeginStop(g) \/ EndStop(g)
LocalFairness ==
    \A g \in Starts :
      /\ WF_localVars(EndOf(g))
      /\ WF_localVars(HealthOf(g))
      /\ SF_localVars(TooLate(g))
FairLocalSpec == LocalSpec /\ LocalFairness

----------------------------------------------------------------------------
\* Properties

Places == {"idle", "start", "cancel", "cancelling", "stop", "stopping", "reset", "remove", "removing",
           "poll", "ask", "healthy", "over"}
LocalTypeOK ==
    /\ folder \in [part : Seq(0..Pieces), model : Seq(0..Pieces),
                 dir : {"none", "half", "whole"}, current : BOOLEAN]
    /\ task \in BOOLEAN /\ installing \in 0..Len(installs) /\ cancelled \subseteq DOMAIN installs
    /\ \A i \in DOMAIN installs :
         installs[i] \in {"runtime", "unpack", "name", "model", "ask", "read", "check", "end", "over"}
    /\ srv \in [starting : BOOLEAN, running : BOOLEAN]
    /\ cmd \in {0} \union Starts /\ servers \subseteq Launched /\ reaped \subseteq Launched
    /\ stage \in [Callers \union Starts -> Places]

\* The GPU holds one model: no two servers run at once.
OneServer == \A g, h \in servers : g = h
\* What runs was downloaded whole and verified, the runtime unpacked whole, whatever was cut,
\* cancelled or resumed before (a server that finds no model exits).
RunsOnlyTheWhole == \A g \in servers : runs[g].model \in {<<>>, Whole} /\ runs[g].dir = "whole"
OneWholeServer == LocalTypeOK /\ OneServer /\ RunsOnlyTheWhole

\* A server that is starting does not stay so: it answers, exits, or is stopped when the time it
\* is given is over, and Start and Stop work again.
StartEnds == srv.starting ~> ~srv.starting
=============================================================================
