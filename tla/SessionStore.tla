---------------------------- MODULE SessionStore -----------------------------
(***************************************************************************)
(* The record of ONE conversation on disk (internal/gateway/               *)
(* sessionstore.go and server_restore.go): what a save writes, which saves *)
(* meet, what a crash leaves and what the next process makes of it.        *)
(*                                                                         *)
(* A save copies the conversation under its stateMu, reads the transcript  *)
(* after that, and writes under the store's own lock: a new file, synced,  *)
(* then two renames (main to .prev, new to main).  Each of those is an     *)
(* action, so saves overlap, and the process dies, exactly where they can. *)
(*                                                                         *)
(* A record is reduced to what a restart acts on: the queue, the task in   *)
(* flight and the finished turns.  The run slot is reduced to its owner's  *)
(* steps (RunSlot has all of them); a turn either finishes or is cut.      *)
(***************************************************************************)
EXTENDS Naturals, Sequences, FiniteSets

CONSTANTS
    Handlers,   \* goroutines serving requests
    Runs,       \* goroutines of runs; one that is over can run again
    Main,       \* the goroutine that starts and closes the gateway
    Msgs,       \* messages people send, each at most once
    Requests,   \* the kinds of request made in this instance
    Faults,     \* what goes wrong in this instance
    MaxCrashes, \* bound: how often the process dies
    NoMsg, NoFile, Torn, Nobody

Actors == Handlers \union Runs \union {Main}

ASSUME StoreAssumption ==
    /\ Handlers \intersect Runs = {} /\ Main \notin Handlers \union Runs
    /\ Nobody \notin Actors /\ NoMsg \notin Msgs
    /\ Requests \subseteq {"start", "queue", "touch", "delete", "shutdown"}
    /\ Faults \subseteq {"crash", "cut_save", "bad_file"} /\ MaxCrashes \in Nat

Records == [queue : Seq(Msgs), running : BOOLEAN, last : Msgs \union {NoMsg}, turns : SUBSET Msgs]

ASSUME FilesAreNotRecords == NoFile \notin Records /\ Torn \notin Records /\ NoFile # Torn

VARIABLES
    up,         \* the process is there
    alive,      \* Server.baseCtx is not cancelled
    known,      \* the conversation is in the registry
    closing,    \* conversation.closing
    running,    \* conversation.running
    live,       \* conversation.current is a run
    queue,      \* conversation.queue
    lastTask,   \* conversation.lastTask
    turns,      \* Service.Transcript: the messages whose turn is finished
    main,       \* <id>.json
    prev,       \* <id>.json.prev
    tmp,        \* <id>.json.tmp
    writer,     \* who holds sessionStore.mu
    at,         \* where each goroutine is
    back,       \* where it goes on after a save
    ended,      \* the goroutines whose save is saveEnded
    rec,        \* the record a save carries
    msg,        \* the message a goroutine carries
    crashes,    \* how often the process died
    sent,       \* history: messages that were sent
    accepted,   \* history: messages whose sender was told yes
    told,       \* history: messages whose turn was reported finished
    gone,       \* history: the file was deleted with its session
    spoiled     \* history: the disk lost a file

memory  == <<alive, known, closing, running, live, queue, lastTask, turns>>
disk    == <<main, prev, tmp>>
carried == <<back, ended, rec, msg>>
history == <<sent, accepted, told, gone, spoiled>>
vars    == <<up, memory, disk, writer, at, carried, crashes, history>>

SaveSteps   == {"check", "copy", "read_turns", "open", "sync", "keep", "replace"}
LaunchSteps == {"set_current", "set_task", "spawn", "respawn"}
RunSteps    == {"work", "end", "end_run", "tell"}
OtherSteps  == {"idle", "start", "queue", "drain", "wait", "forget", "unlink",
                "load", "resume", "cancel_all", "closed"}
\* Where a goroutine goes on after its save.
BackSteps   == {"idle", "drain", "spawn", "respawn", "end_run", "cancel_all"}
Steps       == SaveSteps \union LaunchSteps \union RunSteps \union OtherSteps

NoRecord == [queue |-> <<>>, running |-> FALSE, last |-> NoMsg, turns |-> {}]

Goto(a, place) == at' = [at EXCEPT ![a] = place]

\* saveSession and saveEndedSession; saveAllSessions goes straight to the copy.
Save(a, next, isEnd) ==
    /\ Goto(a, "check") /\ back' = [back EXCEPT ![a] = next]
    /\ ended' = IF isEnd THEN ended \union {a} ELSE ended \ {a}

\* A session that was just made, and saved.
Init ==
    /\ up = TRUE /\ alive = TRUE /\ known = TRUE /\ closing = FALSE
    /\ running = FALSE /\ live = FALSE /\ queue = <<>> /\ lastTask = NoMsg /\ turns = {}
    /\ main = NoRecord /\ prev = NoFile /\ tmp = NoFile /\ writer = Nobody
    /\ at = [a \in Actors |-> "idle"] /\ back = [a \in Actors |-> "idle"]
    /\ ended = {} /\ rec = [a \in Actors |-> NoRecord] /\ msg = [a \in Actors |-> NoMsg]
    /\ crashes = 0 /\ sent = {} /\ accepted = {} /\ told = {} /\ gone = FALSE
    /\ spoiled = FALSE

-----------------------------------------------------------------------------
(* A save.                                                                  *)

\* persist: a conversation that was forgotten is not saved.
CheckKnown(a) ==
    /\ at[a] = "check"
    /\ Goto(a, IF known THEN "copy" ELSE back[a])
    /\ UNCHANGED <<up, memory, disk, writer, carried, crashes, history>>

\* Mutant: an end is recorded like any other moment.
CopyAsRunning(a) ==
    /\ at[a] = "copy"
    /\ rec' = [rec EXCEPT ![a] = [queue |-> queue, running |-> running /\ live,
                                  last |-> lastTask, turns |-> {}]]
    /\ Goto(a, "read_turns")
    /\ UNCHANGED <<up, memory, disk, writer, back, ended, msg, crashes, history>>

\* sessionStore.write, under stateMu ...
CopyState(a) ==
    /\ at[a] = "copy"
    /\ rec' = [rec EXCEPT ![a] = [queue |-> queue, running |-> running /\ live /\ a \notin ended,
                                  last |-> lastTask, turns |-> {}]]
    /\ Goto(a, "read_turns")
    /\ UNCHANGED <<up, memory, disk, writer, back, ended, msg, crashes, history>>

\* ... and after it, the transcript.
ReadTurns(a) ==
    /\ at[a] = "read_turns"
    /\ rec' = [rec EXCEPT ![a].turns = turns]
    /\ Goto(a, "open")
    /\ UNCHANGED <<up, memory, disk, writer, back, ended, msg, crashes, history>>

\* writeSynced: the new file is empty, or half there, until it is synced.
OpenNew(a) ==
    /\ at[a] = "open" /\ writer = Nobody
    /\ writer' = a /\ tmp' = Torn
    /\ Goto(a, "sync")
    /\ UNCHANGED <<up, memory, main, prev, carried, crashes, history>>

\* Mutant: nothing is kept of the version being replaced, which is removed first.
RemoveOldFirst(a) ==
    /\ at[a] = "sync"
    /\ tmp' = rec[a] /\ main' = NoFile
    /\ Goto(a, "keep")
    /\ UNCHANGED <<up, memory, prev, writer, carried, crashes, history>>

SyncNew(a) ==
    /\ at[a] = "sync"
    /\ tmp' = rec[a]
    /\ Goto(a, "keep")
    /\ UNCHANGED <<up, memory, main, prev, writer, carried, crashes, history>>

\* The version being replaced becomes .prev, when there is one.
KeepPrevious(a) ==
    /\ at[a] = "keep"
    /\ IF main = NoFile THEN UNCHANGED <<main, prev>> ELSE prev' = main /\ main' = NoFile
    /\ Goto(a, "replace")
    /\ UNCHANGED <<up, memory, tmp, writer, carried, crashes, history>>

\* What a sender is told yes for: its own message, once the save that keeps it returned.
Accept(a) ==
    accepted' = IF a \in Handlers /\ msg[a] # NoMsg /\ back[a] \in {"drain", "spawn"}
                  THEN accepted \union {msg[a]} ELSE accepted

Replace(a) ==
    /\ at[a] = "replace"
    /\ main' = tmp /\ tmp' = NoFile
    /\ writer' = Nobody
    /\ Accept(a)
    /\ Goto(a, back[a])
    /\ UNCHANGED <<up, memory, prev, carried, crashes, sent, told, gone, spoiled>>

-----------------------------------------------------------------------------
(* Turns.                                                                   *)

\* Requests are served once the start is over and until the gateway closes.
Serving == up /\ alive /\ (at[Main] = "idle" \/ back[Main] = "cancel_all")
Arrives(h, kind) == Serving /\ at[h] = "idle" /\ kind \in Requests /\ known

Send(h, kind, m) ==
    /\ Arrives(h, kind) /\ m \notin sent
    /\ sent' = sent \union {m} /\ msg' = [msg EXCEPT ![h] = m]
    /\ Goto(h, kind)
    /\ UNCHANGED <<up, memory, disk, writer, back, ended, rec, crashes, accepted, told, gone,
                   spoiled>>

TakeSlot(a, m) ==
    /\ running' = TRUE
    /\ Goto(a, "set_current")
    /\ back' = [back EXCEPT ![a] = "spawn"]
    /\ msg' = [msg EXCEPT ![a] = m]

\* startNotedRun (/task): the slot, or a refusal.
StartNotedRun(h) ==
    /\ at[h] = "start"
    /\ \/ /\ ~running /\ ~closing /\ TakeSlot(h, msg[h])
       \/ /\ running \/ closing
          /\ Goto(h, "idle") /\ msg' = [msg EXCEPT ![h] = NoMsg]
          /\ UNCHANGED <<running, back>>
    /\ UNCHANGED <<up, alive, known, closing, live, queue, lastTask, turns, disk, writer,
                   ended, rec, crashes, history>>

\* startOrQueue: the slot, or the queue and a save.
StartOrQueue(h) ==
    /\ at[h] = "queue"
    /\ \/ /\ ~running /\ ~closing /\ queue = <<>>
          /\ TakeSlot(h, msg[h]) /\ UNCHANGED <<queue, ended>>
       \/ /\ running \/ closing \/ queue # <<>>
          /\ queue' = Append(queue, msg[h])
          /\ Save(h, "drain", FALSE)
          /\ UNCHANGED <<running, msg>>
    /\ UNCHANGED <<up, alive, known, closing, live, lastTask, turns, disk, writer, rec, crashes, history>>

\* drainQueue: nothing once the gateway closes; else takeQueued.
DrainQueue(a) ==
    /\ at[a] = "drain"
    /\ \/ /\ alive /\ ~running /\ ~closing /\ queue # <<>>
          /\ TakeSlot(a, Head(queue)) /\ queue' = Tail(queue)
       \/ /\ ~alive \/ running \/ closing \/ queue = <<>>
          /\ Goto(a, "idle") /\ msg' = [msg EXCEPT ![a] = NoMsg]
          /\ UNCHANGED <<running, queue, back>>
    /\ UNCHANGED <<up, alive, known, closing, live, lastTask, turns, disk, writer,
                   ended, rec, crashes, history>>

\* launchRun: the live run first, then the task it does, then the save ...
SetCurrentRun(a) ==
    /\ at[a] = "set_current"
    /\ live' = TRUE
    /\ Goto(a, "set_task")
    /\ UNCHANGED <<up, alive, known, closing, running, queue, lastTask, turns, disk, writer,
                   carried, crashes, history>>

\* Mutant: the task in flight is not recorded.
ForgetLastTask(a) ==
    /\ at[a] = "set_task"
    /\ Save(a, back[a], FALSE)
    /\ UNCHANGED <<up, memory, disk, writer, rec, msg, crashes, history>>

SetLastTask(a) ==
    /\ at[a] = "set_task"
    /\ lastTask' = msg[a]
    /\ Save(a, back[a], FALSE)
    /\ UNCHANGED <<up, alive, known, closing, running, live, queue, turns, disk, writer,
                   rec, msg, crashes, history>>

\* ... and only then the goroutine of the run.
SpawnRun(a, r) ==
    /\ at[a] \in {"spawn", "respawn"} /\ at[r] = "idle" /\ r # a
    /\ at' = [at EXCEPT ![r] = "work", ![a] = IF at[a] = "respawn" THEN "drain" ELSE "idle"]
    /\ msg' = [msg EXCEPT ![r] = msg[a], ![a] = NoMsg]
    /\ UNCHANGED <<up, memory, disk, writer, back, ended, rec, crashes, history>>

\* executeTurn: the turn is in the transcript, or was cut by a deletion or by the
\* closing of the gateway.
FinishTurn(r) ==
    /\ at[r] = "work"
    /\ turns' = turns \union {msg[r]}
    /\ Goto(r, "end")
    /\ UNCHANGED <<up, alive, known, closing, running, live, queue, lastTask, disk, writer,
                   carried, crashes, history>>

CutTurn(r) ==
    /\ at[r] = "work" /\ (closing \/ ~alive)
    /\ Goto(r, "end")
    /\ UNCHANGED <<up, memory, disk, writer, carried, crashes, history>>

\* closeRun: an end is saved as one unless the gateway closes ...
CloseRun(r) ==
    /\ at[r] = "end"
    /\ Save(r, "end_run", alive)
    /\ UNCHANGED <<up, memory, disk, writer, rec, msg, crashes, history>>

EndRun(r) ==
    /\ at[r] = "end_run"
    /\ running' = FALSE /\ live' = FALSE
    /\ Goto(r, "tell")
    /\ UNCHANGED <<up, alive, known, closing, queue, lastTask, turns, disk, writer, carried,
                   crashes, history>>

\* ... and what finished is reported once the slot is free; then the drain.
Tell(r) ==
    /\ at[r] = "tell"
    /\ told' = IF msg[r] \in turns THEN told \union {msg[r]} ELSE told
    /\ Goto(r, "drain")
    /\ UNCHANGED <<up, memory, disk, writer, carried, crashes, sent, accepted, gone, spoiled>>

\* A rename, a model, a title, a watch: whatever else saves the session.
Touch(h) ==
    /\ Arrives(h, "touch")
    /\ Save(h, "idle", FALSE)
    /\ UNCHANGED <<up, memory, disk, writer, rec, msg, crashes, history>>

-----------------------------------------------------------------------------
(* Deletion (handleDeleteSession, of a session that is not the default one): *)
(* one that is refused changes nothing here, and is left to RunSlot.         *)

BeginClosing(h) ==
    /\ Arrives(h, "delete")
    /\ closing' = TRUE
    /\ Goto(h, "wait")
    /\ UNCHANGED <<up, alive, known, running, live, queue, lastTask, turns, disk, writer,
                   carried, crashes, history>>

\* stopRunForDeletion waits for the live run; then closeForGood.
RunStopped(h) ==
    /\ at[h] = "wait" /\ ~live
    /\ queue' = <<>>
    /\ Goto(h, "forget")
    /\ UNCHANGED <<up, alive, known, closing, running, live, lastTask, turns, disk, writer,
                   carried, crashes, history>>

Forget(h) ==
    /\ at[h] = "forget"
    /\ known' = FALSE
    /\ Goto(h, "unlink")
    /\ UNCHANGED <<up, alive, closing, running, live, queue, lastTask, turns, disk, writer,
                   carried, crashes, history>>

\* sessionStore.delete: the file goes to the trash, and its previous version with it
\* unless there was no file.
DeletePersisted(h) ==
    /\ at[h] = "unlink" /\ writer = Nobody
    /\ gone' = TRUE /\ main' = NoFile
    /\ prev' = IF main = NoFile THEN prev ELSE NoFile
    /\ Goto(h, "idle")
    /\ UNCHANGED <<up, memory, tmp, writer, carried, crashes, sent, accepted, told, spoiled>>

-----------------------------------------------------------------------------
(* The process.                                                             *)

\* Close: every session is saved (with no look at the registry but the copy of
\* it), and then the runs are cancelled.
SaveAllSessions ==
    /\ "shutdown" \in Requests /\ Serving /\ at[Main] = "idle"
    /\ IF known THEN Goto(Main, "copy") ELSE Goto(Main, "cancel_all")
    /\ back' = [back EXCEPT ![Main] = "cancel_all"] /\ ended' = ended \ {Main}
    /\ UNCHANGED <<up, memory, disk, writer, rec, msg, crashes, history>>

CancelAll ==
    /\ at[Main] = "cancel_all"
    /\ alive' = FALSE
    /\ Goto(Main, "closed")
    /\ UNCHANGED <<up, known, closing, running, live, queue, lastTask, turns, disk, writer,
                   carried, crashes, history>>

\* The process dies, anywhere, or only while no save is at the disk: memory is
\* gone and the files are as they are.
Crash ==
    /\ up /\ "crash" \in Faults /\ crashes < MaxCrashes
    /\ "cut_save" \in Faults \/ writer = Nobody
    /\ up' = FALSE /\ alive' = TRUE /\ known' = FALSE /\ closing' = FALSE
    /\ running' = FALSE /\ live' = FALSE /\ queue' = <<>> /\ lastTask' = NoMsg /\ turns' = {}
    /\ writer' = Nobody
    /\ at' = [a \in Actors |-> "idle"] /\ back' = [a \in Actors |-> "idle"]
    /\ ended' = {} /\ rec' = [a \in Actors |-> NoRecord] /\ msg' = [a \in Actors |-> NoMsg]
    /\ crashes' = crashes + 1
    /\ UNCHANGED <<disk, history>>

\* A file that cannot be read any more: the disk's doing, while nobody is there.
SpoilFile ==
    /\ ~up /\ "bad_file" \in Faults /\ main \in Records
    /\ main' = Torn /\ spoiled' = TRUE
    /\ UNCHANGED <<up, memory, prev, tmp, writer, at, carried, crashes, sent, accepted, told, gone>>

Restart ==
    /\ ~up
    /\ up' = TRUE /\ Goto(Main, "load")
    /\ UNCHANGED <<memory, disk, writer, carried, crashes, history>>

\* loadAll: it lists the .json files; one that cannot be read is set aside and its
\* previous version is read in its place.
LoadAll == IF main = Torn THEN prev ELSE main
SetAside == main' = IF main = Torn THEN NoFile ELSE main

\* loadPersistedSessions: what was read becomes a conversation again.
LoadPersistedSessions ==
    /\ at[Main] = "load"
    /\ IF LoadAll \in Records
         THEN /\ known' = TRUE /\ queue' = LoadAll.queue
              /\ lastTask' = LoadAll.last /\ turns' = LoadAll.turns
         ELSE UNCHANGED <<known, queue, lastTask, turns>>
    /\ SetAside
    /\ Goto(Main, "resume")
    /\ UNCHANGED <<up, alive, closing, running, live, prev, tmp, writer, carried, crashes, history>>

\* Mutant: what was queued is drained, and what was running is not looked at.
ResumeOnlyQueue ==
    /\ at[Main] = "resume"
    /\ SetAside
    /\ Goto(Main, IF LoadAll \in Records /\ known THEN "drain" ELSE "idle")
    /\ UNCHANGED <<up, memory, prev, tmp, writer, carried, crashes, history>>

\* resumeInterruptedSessions reads the folder again: what was running starts again,
\* and what was queued is drained.
ResumeInterrupted ==
    /\ at[Main] = "resume"
    /\ SetAside
    /\ IF LoadAll \in Records /\ known
         THEN IF LoadAll.running /\ LoadAll.last # NoMsg
                THEN /\ running' = TRUE /\ Goto(Main, "set_current")
                     /\ back' = [back EXCEPT ![Main] = "respawn"]
                     /\ msg' = [msg EXCEPT ![Main] = LoadAll.last]
                ELSE Goto(Main, "drain") /\ UNCHANGED <<running, back, msg>>
         ELSE Goto(Main, "idle") /\ UNCHANGED <<running, back, msg>>
    /\ UNCHANGED <<up, alive, known, closing, live, queue, lastTask, turns, prev, tmp, writer,
                   ended, rec, crashes, history>>

-----------------------------------------------------------------------------
SaveStep(a) ==
    \/ CheckKnown(a) \/ CopyState(a) \/ ReadTurns(a) \/ OpenNew(a) \/ SyncNew(a)
    \/ KeepPrevious(a) \/ Replace(a)
TurnStep(a) ==
    \/ DrainQueue(a) \/ SetCurrentRun(a) \/ SetLastTask(a)
    \/ \E r \in Runs : SpawnRun(a, r)
HandlerStep(h) ==
    \/ StartNotedRun(h) \/ StartOrQueue(h) \/ RunStopped(h) \/ Forget(h) \/ DeletePersisted(h)
RunStep(r) == FinishTurn(r) \/ CutTurn(r) \/ CloseRun(r) \/ EndRun(r) \/ Tell(r)
StartStep == Restart \/ LoadPersistedSessions \/ ResumeInterrupted
Request(h) ==
    \/ \E m \in Msgs : Send(h, "start", m) \/ Send(h, "queue", m)
    \/ Touch(h) \/ BeginClosing(h)

Next ==
    \/ \E a \in Actors : SaveStep(a) \/ TurnStep(a)
    \/ \E h \in Handlers : Request(h) \/ HandlerStep(h)
    \/ \E r \in Runs : RunStep(r)
    \/ StartStep \/ SaveAllSessions \/ CancelAll \/ Crash \/ SpoilFile

Spec == Init /\ [][Next]_vars

\* Goroutines are scheduled, a turn ends, and whoever runs the gateway starts it
\* again; people owe it no request and the machine no crash.
FairSpec ==
    /\ Spec
    /\ \A a \in Actors : WF_vars(SaveStep(a)) /\ WF_vars(TurnStep(a))
    /\ \A h \in Handlers : WF_vars(HandlerStep(h))
    /\ \A r \in Runs : WF_vars(RunStep(r))
    /\ WF_vars(StartStep)

-----------------------------------------------------------------------------
(* Properties.                                                              *)

\* Type invariant: the process and its conversation, the files, the goroutines,
\* what they carry, and the histories.
MemoryType ==
    /\ up \in BOOLEAN /\ alive \in BOOLEAN /\ known \in BOOLEAN /\ closing \in BOOLEAN
    /\ running \in BOOLEAN /\ live \in BOOLEAN
    /\ queue \in Seq(Msgs) /\ lastTask \in Msgs \union {NoMsg} /\ turns \subseteq Msgs
DiskType ==
    /\ main \in Records \union {NoFile, Torn} /\ prev \in Records \union {NoFile, Torn}
    /\ tmp \in Records \union {NoFile, Torn}
PlaceType ==
    /\ writer \in Actors \union {Nobody}
    /\ at \in [Actors -> Steps] /\ back \in [Actors -> BackSteps]
CarriedType ==
    /\ ended \subseteq Actors /\ rec \in [Actors -> Records]
    /\ msg \in [Actors -> Msgs \union {NoMsg}]
HistoryType ==
    /\ crashes \in Nat /\ sent \subseteq Msgs /\ accepted \subseteq Msgs /\ told \subseteq Msgs
    /\ gone \in BOOLEAN /\ spoiled \in BOOLEAN
\* Whoever is on the way to a turn, or in one, carries its message.
Carrying ==
    \A a \in Actors :
        \/ at[a] \in {"start", "queue", "set_current", "set_task", "spawn", "respawn", "work"}
        \/ at[a] \in SaveSteps /\ back[a] \in {"spawn", "respawn"}
        => msg[a] \in Msgs /\ (at[a] \in {"set_current", "set_task"} => back[a] \in {"spawn", "respawn"})
TypeOK == MemoryType /\ DiskType /\ PlaceType /\ CarriedType /\ HistoryType /\ Carrying

\* However saves overlap and wherever the process dies, the folder never holds half
\* a record under the session's name and always holds a whole one, under that name
\* or as the previous version, until the session is deleted or the disk loses a file.
NeverWithoutACopy ==
    ~spoiled => main # Torn /\ (~gone => main \in Records \/ prev \in Records)

\* What is left to the next process, if it looks for it: the file, else its
\* previous version.
Survivor == IF main \in Records THEN main ELSE prev

\* Unless the disk lost a file or the session was deleted, a turn whose sender was
\* told yes and has no answer yet is in what survives: as the task in flight, as a
\* finished turn or in the queue.
Remembers(r, m) ==
    \/ r.running /\ r.last = m
    \/ m \in r.turns
    \/ \E i \in 1..Len(r.queue) : r.queue[i] = m
AcceptedIsKept ==
    ~gone /\ ~spoiled => \A m \in accepted \ told : Survivor \in Records /\ Remembers(Survivor, m)

\* A turn that was reported finished is not run again by a restart (closeRun: "one
\* finished session relaunched 25 times").
FinishedIsNotRunAgain ==
    [][ResumeInterrupted /\ at'[Main] = "set_current" => msg'[Main] \notin told]_vars

\* Wherever the process dies, a turn that was accepted ends up, for good, among the
\* finished turns of the conversation - unless the disk lost a file, or the crash
\* fell between the renames of a save and no start lists the session any more.
AcceptedIsAnswered ==
    \A m \in Msgs : m \in accepted ~> ([](m \in turns) \/ spoiled \/ []~known)

-----------------------------------------------------------------------------
(* Promises of comments that crashes and late saves break.                  *)

\* "A save that is cut half way costs one turn instead of the whole conversation"
\* (sessionStore.write): a restart brings back a session that has a copy.
CutSaveCostsOneTurn ==
    [][LoadPersistedSessions /\ ~gone /\ Survivor \in Records => known']_vars

\* "This late save would resurrect the session on disk" (saveSession): a deleted
\* session's file does not come back.
DeletedStaysDeleted == [][gone /\ main = NoFile => main' = NoFile]_vars
=============================================================================
