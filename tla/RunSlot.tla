------------------------------- MODULE RunSlot -------------------------------
(***************************************************************************)
(* The run slot of ONE conversation of the gateway (internal/gateway): who *)
(* may work in it, the queue of messages behind it, the inbox of the turn  *)
(* in flight, and the deletion that has to stop it.                        *)
(*                                                                         *)
(* The processes are the goroutines that meet on the conversation: the     *)
(* request handlers and the run goroutines launchRun starts.  Every step   *)
(* between two acquisitions of the conversation's stateMu (or of the       *)
(* inbox's own mutex) is one action, so two goroutines interleave here     *)
(* exactly where they can in the code.                                     *)
(*                                                                         *)
(* Left to other modules: what a save writes (SessionStore), the events of *)
(* a run (RunLog).  Left out: the workspace, the transcript, the figures.  *)
(***************************************************************************)
EXTENDS Naturals, Sequences, FiniteSets

CONSTANTS
    Handlers,   \* goroutines serving requests (HTTP, WebSocket, the scheduler)
    Runs,       \* identities the runs are given, one each
    Msgs,       \* messages people send, each at most once
    NoRun,      \* Go's nil *run
    NoHandler,  \* Go's nil *terminalHold
    Requests,   \* the kinds of request made in this instance
    IsDefault   \* whether this is the gateway's default conversation

Actors == Handlers \union Runs

RequestKinds ==
    {"start", "queue", "interrupt", "cancel", "steer", "work", "terminal",
     "move", "delete", "prune", "merge", "shutdown"}

ASSUME ActorsDistinct ==
    /\ Handlers \intersect Runs = {}
    /\ NoRun \notin Actors
    /\ NoHandler \notin Actors

ASSUME RequestsKnown == Requests \subseteq RequestKinds /\ IsDefault \in BOOLEAN

VARIABLES
    running,    \* conversation.running: the slot is taken
    current,    \* conversation.current: the live run
    lastRun,    \* conversation.lastRun: the last run to end
    queue,      \* conversation.queue: tasks, each the messages it joins
    closing,    \* conversation.closing: being deleted
    merged,     \* conversation.merged: integrated, read-only
    terminal,   \* conversation.terminal: the handler of the open terminal
    forgotten,  \* the conversation left the registry
    alive,      \* baseCtx is not cancelled
    open,       \* Inbox.open: a turn reads the inbox
    notes,      \* Inbox.notes: messages the turn has not read yet
    left,       \* Inbox.left: messages earlier turns accepted and never read
    at,         \* where each goroutine is
    task,       \* the messages a goroutine carries
    target,     \* the run a goroutine holds a pointer to
    cancelled,  \* runs whose context was cancelled by a person or a deletion
    done,       \* runs whose done channel is closed
    fate,       \* history: what became of each message
    order       \* history: messages in the order the queue accepted them

conv    == <<running, current, lastRun, queue, closing, merged, terminal>>
server  == <<forgotten, alive>>
inbox   == <<open, notes, left>>
runs    == <<cancelled, done>>
history == <<fate, order>>
vars    == <<conv, server, inbox, at, task, target, runs, history>>

-----------------------------------------------------------------------------
(* Where a goroutine can be.                                               *)

HandlerSteps ==
    {"idle", "take_slot", "queue", "take_or_enqueue", "cancel", "steer_push",
     "work", "move", "open_terminal", "in_terminal", "release",
     "stop", "wait_run", "wait_terminal", "settled", "reopen", "reset",
     "close_for_good", "forget", "prune"}
RunSteps   == {"none", "turn", "reading", "ending", "finish", "net", "gone"}
DrainSteps == {"drain", "unread", "push_unread", "take_queued", "launch"}
Steps      == HandlerSteps \union RunSteps \union DrainSteps

\* The places of a handler that hold the run slot, and those of a run.
HandlerHolds == {"work", "move", "open_terminal", "in_terminal", "release"}
RunHolds     == {"turn", "reading", "ending"}
Holding      == HandlerHolds \union RunHolds \union {"launch"}

\* A goroutine that has nothing left to do here: a handler can serve another
\* request, a run's goroutine is gone.
Over(a) == IF a \in Runs THEN "gone" ELSE "idle"

\* What becomes of a message: on its way to the conversation, refused (409),
\* accepted (202), the start of a turn, read by one, or dropped by a deletion.
Fates == {"new", "sent", "refused", "accepted", "started", "read", "dropped"}

Goto(a, place) == at' = [at EXCEPT ![a] = place]
GotoWith(a, place, t) == Goto(a, place) /\ task' = [task EXCEPT ![a] = t]

\* The messages of a task change their fate together.
Settle(t, how) ==
    fate' = [m \in Msgs |-> IF \E i \in 1..Len(t) : t[i] = m THEN how ELSE fate[m]]

runnable == ~merged

Init ==
    /\ running = FALSE /\ current = NoRun /\ lastRun = NoRun
    /\ queue = <<>> /\ closing = FALSE /\ merged = FALSE /\ terminal = NoHandler
    /\ forgotten = FALSE /\ alive = TRUE
    /\ open = FALSE /\ notes = <<>> /\ left = <<>>
    /\ at = [a \in Actors |-> IF a \in Runs THEN "none" ELSE "idle"]
    /\ task = [a \in Actors |-> <<>>]
    /\ target = [a \in Actors |-> NoRun]
    /\ cancelled = {} /\ done = {}
    /\ fate = [m \in Msgs |-> "new"] /\ order = <<>>

\* A request reaches a conversation through the registry: withConversation
\* answers 404 for one that was forgotten.
Arrives(h, kind) == at[h] = "idle" /\ kind \in Requests /\ ~forgotten

-----------------------------------------------------------------------------
(* Starting a turn: /task, /plan, /run, a schedule, the autopilot.          *)

\* startNotedRun, first half: is the conversation runnable at all?
StartNotedRun(h, m) ==
    /\ Arrives(h, "start") /\ fate[m] = "new" /\ runnable
    /\ GotoWith(h, "take_slot", <<m>>)
    /\ Settle(<<m>>, "sent")
    /\ UNCHANGED <<conv, server, inbox, target, runs, order>>

\* takeRunSlot, or the 409 the caller turns its refusal into.
TakeRunSlot(h) ==
    /\ at[h] = "take_slot"
    /\ IF running \/ closing
         THEN GotoWith(h, "idle", <<>>) /\ Settle(task[h], "refused") /\ UNCHANGED running
         ELSE Goto(h, "launch") /\ running' = TRUE /\ UNCHANGED <<task, fate>>
    /\ UNCHANGED <<current, lastRun, queue, closing, merged, terminal, server, inbox,
                   target, runs, order>>

\* launchRun, on a slot the caller already took: from here the run's own
\* goroutine holds it.
LaunchRun(a, r) ==
    /\ at[a] = "launch" /\ at[r] = "none"
    /\ current' = r
    /\ at' = [at EXCEPT ![a] = Over(a), ![r] = "turn"]
    /\ task' = [task EXCEPT ![a] = <<>>, ![r] = task[a]]
    /\ Settle(task[a], "started")
    /\ UNCHANGED <<running, lastRun, queue, closing, merged, terminal, server, inbox,
                   target, runs, order>>

-----------------------------------------------------------------------------
(* The queue.                                                               *)

\* handleQueue (and the thread router): the message is on its way to startOrQueue.
Queue(h, m) ==
    /\ Arrives(h, "queue") /\ fate[m] = "new"
    /\ GotoWith(h, "queue", <<m>>)
    /\ Settle(<<m>>, "sent")
    /\ UNCHANGED <<conv, server, inbox, target, runs, order>>

\* startOrQueue, first half: a conversation that cannot run keeps the message.
StartOrQueue(h) ==
    /\ at[h] = "queue"
    /\ IF runnable
         THEN Goto(h, "take_or_enqueue") /\ UNCHANGED <<task, queue, fate, order>>
         ELSE /\ queue' = Append(queue, task[h])
              /\ Settle(task[h], "accepted") /\ order' = order \o task[h]
              /\ GotoWith(h, "idle", <<>>)
    /\ UNCHANGED <<running, current, lastRun, closing, merged, terminal, server, inbox,
                   target, runs>>

\* Mutant: a free slot is enough, whatever waits in the queue.
TakeSlotOverQueue(h) ==
    /\ at[h] = "take_or_enqueue"
    /\ order' = order \o task[h] /\ Settle(task[h], "accepted")
    /\ IF ~running /\ ~closing
         THEN running' = TRUE /\ Goto(h, "launch") /\ UNCHANGED <<queue, task>>
         ELSE queue' = Append(queue, task[h]) /\ GotoWith(h, "drain", <<>>) /\ UNCHANGED running
    /\ UNCHANGED <<current, lastRun, closing, merged, terminal, server, inbox, target, runs>>

\* takeSlotOrEnqueue: one step under the lock that guards the slot and the queue.
TakeSlotOrEnqueue(h) ==
    /\ at[h] = "take_or_enqueue"
    /\ order' = order \o task[h] /\ Settle(task[h], "accepted")
    /\ IF ~running /\ ~closing /\ queue = <<>>
         THEN running' = TRUE /\ Goto(h, "launch") /\ UNCHANGED <<queue, task>>
         ELSE queue' = Append(queue, task[h]) /\ GotoWith(h, "drain", <<>>) /\ UNCHANGED running
    /\ UNCHANGED <<current, lastRun, closing, merged, terminal, server, inbox, target, runs>>

\* handleInterrupt: queueBehindRun, with a message or without.
Interrupt(h, m) ==
    /\ Arrives(h, "interrupt") /\ fate[m] = "new" /\ running
    /\ queue' = <<<<m>>>> \o queue
    /\ Settle(<<m>>, "accepted")
    /\ GotoWith(h, "cancel", <<m>>) /\ target' = [target EXCEPT ![h] = current]
    /\ UNCHANGED <<running, current, lastRun, closing, merged, terminal, server, inbox,
                   runs, order>>

\* handleCancelRun (and an interruption with no message): the live run is read
\* under the lock and cancelled after it.
CancelRun(h) ==
    /\ Arrives(h, "cancel") /\ current # NoRun
    /\ Goto(h, "cancel") /\ target' = [target EXCEPT ![h] = current]
    /\ UNCHANGED <<conv, server, inbox, task, runs, history>>

\* Mutant: cancels whatever run is live by then.
CancelCurrent(h) ==
    /\ at[h] = "cancel"
    /\ cancelled' = cancelled \union ({current} \ {NoRun})
    /\ GotoWith(h, "idle", <<>>) /\ target' = [target EXCEPT ![h] = NoRun]
    /\ UNCHANGED <<conv, server, inbox, done, history>>

\* rn.cancel() of the run that was read, unless it was nil.
CancelTarget(h) ==
    /\ at[h] = "cancel"
    /\ cancelled' = cancelled \union ({target[h]} \ {NoRun})
    /\ GotoWith(h, "idle", <<>>) /\ target' = [target EXCEPT ![h] = NoRun]
    /\ UNCHANGED <<conv, server, inbox, done, history>>

\* handleSteer: with a run live the message goes to the inbox, else to startOrQueue.
Steer(h, m) ==
    /\ Arrives(h, "steer") /\ fate[m] = "new" /\ ~merged
    /\ GotoWith(h, IF current # NoRun THEN "steer_push" ELSE "queue", <<m>>)
    /\ Settle(<<m>>, "sent")
    /\ UNCHANGED <<conv, server, inbox, target, runs, order>>

\* Inbox.Push: taken while a turn reads the inbox, refused when it is closed.
PushSteering(h) ==
    /\ at[h] = "steer_push"
    /\ IF open
         THEN notes' = notes \o task[h] /\ Settle(task[h], "accepted") /\ GotoWith(h, "idle", <<>>)
         ELSE Goto(h, "queue") /\ UNCHANGED <<notes, task, fate>>
    /\ UNCHANGED <<conv, server, open, left, target, runs, order>>

-----------------------------------------------------------------------------
(* drainQueue, whoever calls it.                                            *)

\* Nothing starts while the gateway closes or in an integrated session.
DrainQueue(a) ==
    /\ at[a] = "drain"
    /\ Goto(a, IF alive /\ runnable THEN "unread" ELSE Over(a))
    /\ UNCHANGED <<conv, server, inbox, task, target, runs, history>>

\* requeueUnread, first half: the unread messages leave the inbox.
TakeUnread(a) ==
    /\ at[a] = "unread"
    /\ IF left = <<>>
         THEN Goto(a, "take_queued") /\ UNCHANGED <<left, task>>
         ELSE GotoWith(a, "push_unread", left) /\ left' = <<>>
    /\ UNCHANGED <<conv, server, open, notes, target, runs, history>>

\* requeueUnread, second half: pushQueue puts them, as one task, last.
PushUnread(a) ==
    /\ at[a] = "push_unread"
    /\ queue' = Append(queue, task[a])
    /\ GotoWith(a, "take_queued", <<>>)
    /\ UNCHANGED <<running, current, lastRun, closing, merged, terminal, server, inbox,
                   target, runs, history>>

\* takeQueued: the pop and the slot in one step.
TakeQueued(a) ==
    /\ at[a] = "take_queued"
    /\ IF running \/ closing \/ queue = <<>>
         THEN Goto(a, Over(a)) /\ UNCHANGED <<running, queue, task>>
         ELSE /\ running' = TRUE /\ queue' = Tail(queue)
              /\ GotoWith(a, "launch", Head(queue))
    /\ UNCHANGED <<current, lastRun, closing, merged, terminal, server, inbox, target,
                   runs, history>>

-----------------------------------------------------------------------------
(* What else takes the slot.                                                *)

\* A shell command, a WebSocket query, a reset or a checkpoint restore ("work":
\* released with a drain), or a move to a project or the isolation of a thread
\* ("move": released without one).
TakeSlotFor(h, kind) ==
    /\ kind \in {"work", "move"} /\ Arrives(h, kind) /\ ~running /\ ~closing
    /\ running' = TRUE
    /\ Goto(h, kind)
    /\ UNCHANGED <<current, lastRun, queue, closing, merged, terminal, server, inbox,
                   task, target, runs, history>>

\* Mutant: the slot is given back and nobody drains.
ReleaseWithoutDrain(h) ==
    /\ at[h] \in {"work", "move", "release"}
    /\ running' = FALSE
    /\ Goto(h, "idle")
    /\ UNCHANGED <<current, lastRun, queue, closing, merged, terminal, server, inbox,
                   task, target, runs, history>>

\* releaseAndDrain of the one, the bare releaseRunSlot of the other.
ReleaseRunSlot(h) ==
    /\ at[h] \in {"work", "move", "release"}
    /\ running' = FALSE
    /\ Goto(h, IF at[h] = "move" THEN "idle" ELSE "drain")
    /\ UNCHANGED <<current, lastRun, queue, closing, merged, terminal, server, inbox,
                   task, target, runs, history>>

\* handleTerminal: the slot, and then (another lock) the hold a deletion looks for.
OpenTerminal(h) ==
    /\ Arrives(h, "terminal") /\ ~merged /\ ~running /\ ~closing
    /\ running' = TRUE
    /\ Goto(h, "open_terminal")
    /\ UNCHANGED <<current, lastRun, queue, closing, merged, terminal, server, inbox,
                   task, target, runs, history>>

HoldTerminal(h) ==
    /\ at[h] = "open_terminal"
    /\ terminal' = h
    /\ Goto(h, "in_terminal")
    /\ UNCHANGED <<running, current, lastRun, queue, closing, merged, server, inbox,
                   task, target, runs, history>>

\* The shell exited, the page left or a deletion stopped it: dropTerminal, whose
\* deferred call comes before the one that releases the slot.
DropTerminal(h) ==
    /\ at[h] = "in_terminal"
    /\ terminal' = NoHandler
    /\ Goto(h, "release")
    /\ UNCHANGED <<running, current, lastRun, queue, closing, merged, server, inbox,
                   task, target, runs, history>>

-----------------------------------------------------------------------------
(* The goroutine of a run.                                                  *)

\* Inbox.Begin, when the agent's loop starts.
BeginTurn(r) ==
    /\ at[r] = "turn"
    /\ open' = TRUE /\ notes' = <<>>
    /\ Goto(r, "reading")
    /\ UNCHANGED <<conv, server, left, task, target, runs, history>>

\* Inbox.Take between two model calls.
ReadNotes(r) ==
    /\ at[r] = "reading" /\ notes # <<>>
    /\ notes' = <<>>
    /\ Settle(notes, "read")
    /\ UNCHANGED <<conv, server, open, left, at, task, target, runs, order>>

\* Inbox.End, however the loop ended; or a turn that failed before its loop.
EndTurn(r) ==
    /\ at[r] \in {"turn", "reading"}
    /\ IF at[r] = "reading"
         THEN left' = left \o notes /\ open' = FALSE /\ notes' = <<>>
         ELSE UNCHANGED inbox
    /\ Goto(r, "ending")
    /\ UNCHANGED <<conv, server, task, target, runs, history>>

\* recordIntegration: a merge run that moved the project's HEAD.
RecordIntegration(r) ==
    /\ "merge" \in Requests /\ at[r] = "ending"
    /\ merged' = TRUE
    /\ UNCHANGED <<running, current, lastRun, queue, closing, terminal, server, inbox,
                   at, task, target, runs, history>>

\* Mutant: a release that does not ask whose slot it is.
EndRunUnguarded(r) == running' = FALSE /\ current' = NoRun /\ lastRun' = r

\* endRun: only while r IS the live run.
EndRun(r) ==
    IF current = r
      THEN running' = FALSE /\ current' = NoRun /\ lastRun' = r
      ELSE UNCHANGED <<running, current, lastRun>>

\* Mutant: the end is told first and the slot given back by the deferred endRun.
FinishBeforeRelease(r) ==
    /\ at[r] = "ending"
    /\ done' = done \union {r}
    /\ Goto(r, "net")
    /\ UNCHANGED <<conv, server, inbox, task, target, cancelled, history>>

\* closeRun, after its save: the slot is given back ...
CloseRun(r) ==
    /\ at[r] = "ending"
    /\ EndRun(r)
    /\ Goto(r, "finish")
    /\ UNCHANGED <<queue, closing, merged, terminal, server, inbox, task, target, runs, history>>

\* ... and only then does the last event go out and the done channel close.
Finish(r) ==
    /\ at[r] = "finish"
    /\ done' = done \union {r}
    /\ Goto(r, "net")
    /\ UNCHANGED <<conv, server, inbox, task, target, cancelled, history>>

\* The deferred second endRun; the deferred drainQueue follows it.
EndRunAgain(r) ==
    /\ at[r] = "net"
    /\ EndRun(r)
    /\ GotoWith(r, "drain", <<>>)
    /\ UNCHANGED <<queue, closing, merged, terminal, server, inbox, target, runs, history>>

-----------------------------------------------------------------------------
(* Deleting the conversation (handleDeleteSession), and the pruning of one   *)
(* that was never used (pruneBlankSessions).                                 *)

BeginClosing(h) ==
    /\ Arrives(h, "delete")
    /\ closing' = TRUE
    /\ Goto(h, "stop")
    /\ UNCHANGED <<running, current, lastRun, queue, merged, terminal, server, inbox,
                   task, target, runs, history>>

\* stopRunForDeletion: the live run is cancelled and waited for; with none, the
\* open terminal is; with neither there is nothing to stop.
StopRunForDeletion(h) ==
    /\ at[h] = "stop"
    /\ IF current # NoRun
         THEN /\ Goto(h, "wait_run") /\ target' = [target EXCEPT ![h] = current]
              /\ cancelled' = cancelled \union {current}
         ELSE /\ Goto(h, IF terminal # NoHandler THEN "wait_terminal" ELSE "settled")
              /\ UNCHANGED <<target, cancelled>>
    /\ UNCHANGED <<conv, server, inbox, task, done, history>>

Settled(h) ==
    /\ \/ at[h] = "wait_run" /\ target[h] \in done
       \/ at[h] = "wait_terminal" /\ terminal = NoHandler
    /\ Goto(h, "settled") /\ target' = [target EXCEPT ![h] = NoRun]
    /\ UNCHANGED <<conv, server, inbox, task, runs, history>>

\* It did not stop within deleteStopTimeout: 409, and the conversation stays.
StopTimedOut(h) ==
    /\ at[h] \in {"wait_run", "wait_terminal"}
    /\ Goto(h, "reopen") /\ target' = [target EXCEPT ![h] = NoRun]
    /\ UNCHANGED <<conv, server, inbox, task, runs, history>>

\* The default conversation is reset; any other gives its checkout back, which
\* is refused when that would discard work.
ReleaseWorktree(h) ==
    /\ at[h] = "settled"
    /\ \/ IsDefault /\ Goto(h, "reset")
       \/ ~IsDefault /\ \E place \in {"close_for_good", "reopen"} : Goto(h, place)
    /\ UNCHANGED <<conv, server, inbox, task, target, runs, history>>

\* The messages waiting in the queue when it is dropped.
Queued == {m \in Msgs : \E i \in 1..Len(queue) : \E j \in 1..Len(queue[i]) : queue[i][j] = m}
DropQueue ==
    /\ queue' = <<>>
    /\ fate' = [m \in Msgs |-> IF m \in Queued THEN "dropped" ELSE fate[m]]

\* reopen(false) of a refused deletion, reopen(true) of a reset.
Reopen(h) ==
    /\ at[h] \in {"reopen", "reset"}
    /\ closing' = FALSE
    /\ IF at[h] = "reset" THEN DropQueue ELSE UNCHANGED <<queue, fate>>
    /\ Goto(h, "drain")
    /\ UNCHANGED <<running, current, lastRun, merged, terminal, server, inbox, task,
                   target, runs, order>>

CloseForGood(h) ==
    /\ at[h] = "close_for_good"
    /\ DropQueue
    /\ Goto(h, "forget")
    /\ UNCHANGED <<running, current, lastRun, closing, merged, terminal, server, inbox,
                   task, target, runs, order>>

Forget(h) ==
    /\ at[h] = "forget"
    /\ forgotten' = TRUE
    /\ Goto(h, "idle")
    /\ UNCHANGED <<conv, alive, inbox, task, target, runs, history>>

\* closeIfBlank, under the lock: nothing runs, waits or is being deleted here.
PruneBlank(h) ==
    /\ Arrives(h, "prune") /\ ~IsDefault
    /\ ~running /\ ~closing /\ ~merged /\ queue = <<>>
    /\ closing' = TRUE
    /\ Goto(h, "prune")
    /\ UNCHANGED <<running, current, lastRun, queue, merged, terminal, server, inbox,
                   task, target, runs, history>>

\* closeIfBlank, after the lock: a conversation with turns is reopened with no
\* drain, a blank one gives its checkout back or is refused.
PruneDecide(h) ==
    /\ at[h] = "prune"
    /\ IF \E r \in Runs : at[r] # "none"
         THEN closing' = FALSE /\ Goto(h, "idle")
         ELSE UNCHANGED closing /\ \E place \in {"close_for_good", "reopen"} : Goto(h, place)
    /\ UNCHANGED <<running, current, lastRun, queue, merged, terminal, server, inbox,
                   task, target, runs, history>>

-----------------------------------------------------------------------------
(* What happens around it.                                                  *)

\* The pull request watch reads that the work was merged.
WatchMerged ==
    /\ "merge" \in Requests /\ ~merged
    /\ merged' = TRUE
    /\ UNCHANGED <<running, current, lastRun, queue, closing, terminal, server, inbox,
                   at, task, target, runs, history>>

\* Close cancels baseCtx, and with it every run's context.
Shutdown ==
    /\ "shutdown" \in Requests /\ alive
    /\ alive' = FALSE
    /\ UNCHANGED <<conv, forgotten, inbox, at, task, target, runs, history>>

\* A step of a goroutine that is on its way: nothing but the scheduler delays it.
HandlerStep(h) ==
    \/ TakeRunSlot(h) \/ StartOrQueue(h) \/ TakeSlotOrEnqueue(h)
    \/ CancelTarget(h) \/ PushSteering(h)
    \/ ReleaseRunSlot(h) \/ HoldTerminal(h)
    \/ StopRunForDeletion(h) \/ Settled(h) \/ StopTimedOut(h) \/ ReleaseWorktree(h)
    \/ Reopen(h) \/ CloseForGood(h) \/ Forget(h) \/ PruneDecide(h)

RunStep(r) ==
    \/ BeginTurn(r) \/ ReadNotes(r) \/ EndTurn(r)
    \/ CloseRun(r) \/ Finish(r) \/ EndRunAgain(r)

DrainStep(a) ==
    \/ DrainQueue(a) \/ TakeUnread(a) \/ PushUnread(a) \/ TakeQueued(a)
    \/ \E r \in Runs : LaunchRun(a, r)

\* A request arrives: the clients owe the gateway nothing.
Request(h) ==
    \/ \E m \in Msgs : StartNotedRun(h, m) \/ Queue(h, m) \/ Interrupt(h, m) \/ Steer(h, m)
    \/ CancelRun(h) \/ OpenTerminal(h) \/ BeginClosing(h) \/ PruneBlank(h)
    \/ \E kind \in {"work", "move"} : TakeSlotFor(h, kind)

Next ==
    \/ \E h \in Handlers : Request(h) \/ HandlerStep(h) \/ DropTerminal(h)
    \/ \E r \in Runs : RunStep(r) \/ RecordIntegration(r)
    \/ \E a \in Actors : DrainStep(a)
    \/ WatchMerged \/ Shutdown

Spec == Init /\ [][Next]_vars

\* Go's scheduler runs every goroutine that can run, and an agent's turn ends:
\* it works within a budget of rounds and its calls have deadlines.  A person's
\* terminal owes nobody its end, so DropTerminal is not here.
Fairness ==
    /\ \A h \in Handlers : WF_vars(HandlerStep(h))
    /\ \A r \in Runs : WF_vars(RunStep(r)) /\ WF_vars(EndTurn(r))
    /\ \A a \in Actors : WF_vars(DrainStep(a))

FairSpec == Spec /\ Fairness
-----------------------------------------------------------------------------
(* Properties.                                                              *)

Tasks == Seq(Msgs)

\* Type invariant: the conversation, its server and its inbox ...
ConversationType ==
    /\ running \in BOOLEAN /\ closing \in BOOLEAN /\ merged \in BOOLEAN
    /\ current \in Runs \union {NoRun} /\ lastRun \in Runs \union {NoRun}
    /\ queue \in Seq(Tasks)
    /\ terminal \in Handlers \union {NoHandler}
    /\ forgotten \in BOOLEAN /\ alive \in BOOLEAN
    /\ open \in BOOLEAN /\ notes \in Tasks /\ left \in Tasks
    /\ cancelled \subseteq Runs /\ done \subseteq Runs
    /\ fate \in [Msgs -> Fates] /\ order \in Tasks

\* ... and the goroutines.
PlacesType == at \in [Actors -> Steps]

CarriedType ==
    /\ task \in [Actors -> Tasks]
    /\ target \in [Actors -> Runs \union {NoRun}]

TypeOK == ConversationType /\ PlacesType /\ CarriedType

Holds(a) == at[a] \in Holding

\* The slot is what serialises everything that writes in the workspace: it is
\* marked taken exactly while one goroutine, and no second one, is inside.
SlotHasOneHolder ==
    /\ running <=> \E a \in Actors : Holds(a)
    /\ \A a, b \in Actors : Holds(a) /\ Holds(b) => a = b

\* The run that clients cancel, attach to and wait for is the run that works:
\* current names a run exactly while that run's goroutine holds the slot.
LiveRunIsTheHolder ==
    \A r \in Runs : current = r <=> at[r] \in RunHolds

\* Whoever sees a run's done channel closed may start the next turn or delete
\* the conversation: the run is not live any more and never holds the slot again.
DoneMeansReleased ==
    \A r \in done : current # r /\ at[r] \notin RunHolds

\* A message the conversation holds while nothing runs has a goroutine coming
\* for it: the rule "whoever holds the slot drains after releasing it" leaves no
\* window in which a message waits for nobody.
NoLostWakeup ==
    ~running /\ ~closing /\ alive /\ runnable =>
      /\ queue # <<>> =>
           \E a \in Actors : at[a] \in DrainSteps \union {"finish", "net", "reopen", "reset"}
      /\ left # <<>> =>
           \E a \in Actors : at[a] \in {"finish", "net", "drain", "unread", "reopen", "reset"}

\* Messages the queue took start in the order it took them: none jumps ahead
\* through the moment a run has ended and has not drained yet.
NotOvertaken ==
    \A i, j \in 1..Len(order) :
        i < j /\ fate[order[j]] = "started" => fate[order[i]] \in {"started", "dropped"}

\* Where an accepted message is: waiting, in the inbox, or carried to the queue
\* or to a run by one goroutine.
Places(m) ==
    {<<"queue", i, 0>> : i \in {k \in 1..Len(queue) : \E n \in 1..Len(queue[k]) : queue[k][n] = m}}
    \union {<<"notes", i, 0>> : i \in {k \in 1..Len(notes) : notes[k] = m}}
    \union {<<"left", i, 0>> : i \in {k \in 1..Len(left) : left[k] = m}}
    \union {<<"carried", a, 0>> : a \in {b \in Actors : /\ at[b] \in {"launch", "push_unread"}
                                                        /\ \E n \in 1..Len(task[b]) : task[b][n] = m}}

\* A message answered 202 is in exactly one place until a turn starts with it,
\* reads it, or a deletion drops it: it is neither lost between the inbox, the
\* queue and a launch, nor handed to two turns.
NothingLost ==
    \A m \in Msgs :
        IF fate[m] = "accepted" \/ (fate[m] = "sent" /\ Places(m) # {})
          THEN Cardinality(Places(m)) = 1
          ELSE Places(m) = {}

\* Accepted messages start in turn, each of them once.
EachInTurn == NotOvertaken /\ NothingLost

\* An interruption with a message cancels the run it found, never the run that
\* starts with that very message.
InterruptSparesItsOwn ==
    [][\A h \in Handlers : at[h] = "cancel" /\ at'[h] = "idle" =>
          \A r \in cancelled' \ cancelled : at[r] \in RunHolds =>
             \A i \in 1..Len(task[h]) : \A j \in 1..Len(task[r]) : task[r][j] # task[h][i]]_vars

\* Clients may keep a conversation busy for ever with shell commands, terminals
\* and deletions that are refused: takeRunSlot does not wait behind the queue.
Pestered == \E h \in Handlers :
                at[h] \in HandlerHolds \union {"stop", "wait_run", "wait_terminal", "settled", "reopen", "reset"}

\* Once that stops, an accepted message is eventually started, read or dropped,
\* unless the gateway is closing, the conversation is gone or its work is
\* already integrated.
AcceptedIsServed ==
    <>[]~Pestered =>
      \A m \in Msgs : fate[m] = "accepted" ~>
          fate[m] # "accepted" \/ ~alive \/ merged \/ forgotten

-----------------------------------------------------------------------------
(* Promises of comments that instances of this module do not keep: a shell  *)
(* command against a deletion, two deletions, a reset of a steered turn.    *)

\* "By the time this returns nothing is still executing on behalf of this
\* conversation" (stopRunForDeletion): past the wait, the slot is free.
DeletionFindsItQuiet ==
    \A h \in Handlers : at[h] \in {"settled", "close_for_good", "forget", "reset"} => ~running

\* "From now on no run starts in it" (beginClosing): a conversation that was
\* forgotten gives its slot to nobody.
ForgottenStaysQuiet ==
    [][forgotten => (running' => running)]_vars

\* "The messages were for the conversation that is gone" (reopen): a reset of a
\* conversation that stopped leaves nothing a later drain would start as a turn.
ResetDropsWhatWaited ==
    [][\A h \in Handlers : at[h] = "reset" /\ at'[h] = "drain" /\ ~running =>
          left' = <<>> /\ \A a \in Actors : at[a] # "push_unread"]_vars
=============================================================================
