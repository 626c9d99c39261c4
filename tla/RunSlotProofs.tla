---------------------------- MODULE RunSlotProofs ----------------------------
(***************************************************************************)
(* For any number of handlers, runs and messages: the slot of RunSlot has   *)
(* at most one holder, the live run is that holder, a run whose done        *)
(* channel closed never holds it again, and no message waits for nobody     *)
(* where every release of the slot is followed by a drain.  A message the   *)
(* conversation accepted is in one place until a turn takes it, those of    *)
(* the queue start in its order, and an interruption never cancels the run  *)
(* of its own message.                                                      *)
(*                                                                          *)
(* Each lemma about a step has one step per action of RunSlot, and under it *)
(* one per conjunct of the invariant.                                       *)
(***************************************************************************)
EXTENDS RunSlot, SequenceTheorems, FiniteSetTheorems, TLAPS

USE ActorsDistinct, RequestsKnown DEF Actors

(* Sequences of messages: what the queue, the inbox and the goroutines carry. *)

\* No message, one message, a queue with one task more or without its first.
LEMMA TaskFacts ==
    /\ <<>> \in Tasks /\ <<>> \in Seq(Tasks)
    /\ \A m \in Msgs : <<m>> \in Tasks
    /\ \A t \in Tasks : <<t>> \in Seq(Tasks)
    /\ \A q \in Seq(Tasks), t \in Tasks : Append(q, t) \in Seq(Tasks)
    /\ \A q \in Seq(Tasks) : q # <<>> => Head(q) \in Tasks /\ Tail(q) \in Seq(Tasks)
BY DEF Tasks

\* Two tasks joined are a task, two queues a queue.
LEMMA ConcatTask == \A s, t \in Tasks : s \o t \in Tasks
BY ConcatProperties DEF Tasks

\* The second half: queues, as queueBehindRun joins them.
LEMMA ConcatQueue == \A s, t \in Seq(Tasks) : s \o t \in Seq(Tasks)
BY ConcatProperties DEF Tasks

\* Every step leaves each variable in its type.
LEMMA TypeStep == TypeOK /\ [Next]_vars => TypeOK'
  <1> SUFFICES ASSUME TypeOK, [Next]_vars PROVE TypeOK'
    OBVIOUS
  <1> USE DEF TypeOK, PlacesType, Steps, HandlerSteps, RunSteps, DrainSteps, Over, Goto, GotoWith, Settle,
              Arrives, EndRun, DropQueue, Fates, vars, conv, server, inbox, runs, history
  <1>1. ASSUME NEW h \in Handlers, NEW m \in Msgs, StartNotedRun(h, m) PROVE TypeOK'
    BY <1>1, TaskFacts DEF StartNotedRun, ConversationType, CarriedType
  <1>2. ASSUME NEW h \in Handlers, NEW m \in Msgs, Queue(h, m) PROVE TypeOK'
    BY <1>2, TaskFacts DEF Queue, ConversationType, CarriedType
  <1>3. ASSUME NEW h \in Handlers, NEW m \in Msgs, Interrupt(h, m) PROVE TypeOK'
    BY <1>3, TaskFacts DEF Interrupt, ConversationType, CarriedType
  <1>4. ASSUME NEW h \in Handlers, NEW m \in Msgs, Steer(h, m) PROVE TypeOK'
    BY <1>4, TaskFacts DEF Steer, ConversationType, CarriedType
  <1>5. ASSUME NEW h \in Handlers, TakeRunSlot(h) PROVE TypeOK'
    <2>1. CASE running \/ closing
      <3>1. task' = [task EXCEPT ![h] = <<>>] /\ target' = target
        BY <1>5, <2>1 DEF TakeRunSlot
      <3>2. ConversationType'
        BY <1>5, <2>1, <3>1 DEF TakeRunSlot, ConversationType
      <3>3. PlacesType'
        BY <1>5, <2>1 DEF TakeRunSlot
      <3>4. CarriedType'
        BY <1>5, <2>1, <3>1, TaskFacts DEF TakeRunSlot, CarriedType
      <3> QED
        BY <3>2, <3>3, <3>4
    <2>2. CASE ~(running \/ closing)
      <3>1. ConversationType'
        BY <1>5, <2>2 DEF TakeRunSlot, ConversationType
      <3>2. PlacesType'
        BY <1>5, <2>2 DEF TakeRunSlot
      <3>3. CarriedType'
        BY <1>5, <2>2 DEF TakeRunSlot, CarriedType
      <3> QED
        BY <3>1, <3>2, <3>3
    <2> QED
      BY <2>1, <2>2
  <1>6. ASSUME NEW h \in Handlers, StartOrQueue(h) PROVE TypeOK'
    <2>1. CASE runnable
      <3>1. ConversationType'
        BY <1>6, <2>1 DEF StartOrQueue, ConversationType
      <3>2. PlacesType'
        BY <1>6, <2>1 DEF StartOrQueue
      <3>3. CarriedType'
        BY <1>6, <2>1 DEF StartOrQueue, CarriedType
      <3> QED
        BY <3>1, <3>2, <3>3
    <2>2. CASE ~runnable
      <3>1. task[h] \in Tasks
        BY DEF CarriedType
      <3>2. Append(queue, task[h]) \in Seq(Tasks) /\ order \o task[h] \in Tasks
        BY <3>1, ConcatTask DEF ConversationType
      <3>3. queue' = Append(queue, task[h]) /\ order' = order \o task[h]
        BY <1>6, <2>2 DEF StartOrQueue
      <3>4. fate' \in [Msgs -> Fates]
        BY <1>6, <2>2 DEF StartOrQueue, ConversationType
      <3>5. ConversationType'
        BY <1>6, <2>2, <3>1, <3>2, <3>3, <3>4 DEF StartOrQueue, ConversationType
      <3>6. PlacesType'
        BY <1>6, <2>2 DEF StartOrQueue
      <3>7. CarriedType'
        BY <1>6, <2>2, TaskFacts DEF StartOrQueue, CarriedType
      <3> QED
        BY <3>5, <3>6, <3>7
    <2> QED
      BY <2>1, <2>2
  <1>7. ASSUME NEW h \in Handlers, TakeSlotOrEnqueue(h) PROVE TypeOK'
    <2>1. CASE ~running /\ ~closing /\ queue = <<>>
      <3>1. ConversationType'
        BY <1>7, <2>1, ConcatTask DEF TakeSlotOrEnqueue, ConversationType, CarriedType
      <3>2. PlacesType'
        BY <1>7, <2>1 DEF TakeSlotOrEnqueue
      <3>3. CarriedType'
        BY <1>7, <2>1 DEF TakeSlotOrEnqueue, CarriedType
      <3> QED
        BY <3>1, <3>2, <3>3
    <2>2. CASE ~(~running /\ ~closing /\ queue = <<>>)
      <3>1. task[h] \in Tasks
        BY DEF CarriedType
      <3>2. Append(queue, task[h]) \in Seq(Tasks) /\ order \o task[h] \in Tasks
        BY <3>1, ConcatTask DEF ConversationType
      <3>3. ConversationType'
        BY <1>7, <2>2, <3>1, <3>2 DEF TakeSlotOrEnqueue, ConversationType
      <3>4. PlacesType'
        BY <1>7, <2>2 DEF TakeSlotOrEnqueue
      <3>5. CarriedType'
        <4>1. task' = [task EXCEPT ![h] = <<>>] /\ target' = target
          BY <1>7, <2>2 DEF TakeSlotOrEnqueue, ConversationType
        <4> QED
          BY <4>1, TaskFacts DEF CarriedType
      <3> QED
        BY <3>3, <3>4, <3>5
    <2> QED
      BY <2>1, <2>2
  <1>8. ASSUME NEW h \in Handlers, CancelRun(h) PROVE TypeOK'
    BY <1>8 DEF CancelRun, ConversationType, CarriedType
  <1>9. ASSUME NEW h \in Handlers, CancelTarget(h) PROVE TypeOK'
    BY <1>9, TaskFacts DEF CancelTarget, ConversationType, CarriedType
  <1>10. ASSUME NEW h \in Handlers, PushSteering(h) PROVE TypeOK'
    <2>1. CASE open
      <3>1. notes \o task[h] \in Tasks
        BY ConcatTask DEF ConversationType, CarriedType
      <3>2. notes' = notes \o task[h]
        BY <1>10, <2>1 DEF PushSteering
      <3>3. fate' \in [Msgs -> Fates]
        BY <1>10, <2>1 DEF PushSteering, ConversationType
      <3>4. ConversationType'
        BY <1>10, <2>1, <3>1, <3>2, <3>3 DEF PushSteering, ConversationType
      <3>5. PlacesType'
        BY <1>10, <2>1 DEF PushSteering
      <3>6. CarriedType'
        BY <1>10, <2>1, TaskFacts DEF PushSteering, CarriedType
      <3> QED
        BY <3>4, <3>5, <3>6
    <2>2. CASE ~open
      <3>1. ConversationType'
        BY <1>10, <2>2 DEF PushSteering, ConversationType
      <3>2. PlacesType'
        BY <1>10, <2>2 DEF PushSteering
      <3>3. CarriedType'
        BY <1>10, <2>2 DEF PushSteering, CarriedType
      <3> QED
        BY <3>1, <3>2, <3>3
    <2> QED
      BY <2>1, <2>2
  <1>11. ASSUME NEW h \in Handlers, ReleaseRunSlot(h) PROVE TypeOK'
    BY <1>11 DEF ReleaseRunSlot, ConversationType, CarriedType
  <1>12. ASSUME NEW h \in Handlers, OpenTerminal(h) PROVE TypeOK'
    BY <1>12 DEF OpenTerminal, ConversationType, CarriedType
  <1>13. ASSUME NEW h \in Handlers, HoldTerminal(h) PROVE TypeOK'
    BY <1>13 DEF HoldTerminal, ConversationType, CarriedType
  <1>14. ASSUME NEW h \in Handlers, DropTerminal(h) PROVE TypeOK'
    BY <1>14 DEF DropTerminal, ConversationType, CarriedType
  <1>15. ASSUME NEW h \in Handlers, BeginClosing(h) PROVE TypeOK'
    BY <1>15 DEF BeginClosing, ConversationType, CarriedType
  <1>16. ASSUME NEW h \in Handlers, StopRunForDeletion(h) PROVE TypeOK'
    <2>1. CASE current # NoRun
      BY <1>16, <2>1 DEF StopRunForDeletion, ConversationType, CarriedType
    <2>2. CASE ~(current # NoRun)
      BY <1>16, <2>2 DEF StopRunForDeletion, ConversationType, CarriedType
    <2> QED
      BY <2>1, <2>2
  <1>17. ASSUME NEW h \in Handlers, Settled(h) PROVE TypeOK'
    BY <1>17 DEF Settled, ConversationType, CarriedType
  <1>18. ASSUME NEW h \in Handlers, StopTimedOut(h) PROVE TypeOK'
    BY <1>18 DEF StopTimedOut, ConversationType, CarriedType
  <1>19. ASSUME NEW h \in Handlers, ReleaseWorktree(h) PROVE TypeOK'
    <2>1. ConversationType'
      BY <1>19 DEF ReleaseWorktree, ConversationType
    <2>2. PlacesType'
      BY <1>19 DEF ReleaseWorktree
    <2>3. CarriedType'
      BY <1>19 DEF ReleaseWorktree, CarriedType
    <2> QED
      BY <2>1, <2>2, <2>3
  <1>20. ASSUME NEW h \in Handlers, Reopen(h) PROVE TypeOK'
    BY <1>20, TaskFacts DEF Reopen, ConversationType, CarriedType
  <1>21. ASSUME NEW h \in Handlers, CloseForGood(h) PROVE TypeOK'
    BY <1>21 DEF CloseForGood, ConversationType, CarriedType
  <1>22. ASSUME NEW h \in Handlers, Forget(h) PROVE TypeOK'
    BY <1>22 DEF Forget, ConversationType, CarriedType
  <1>23. ASSUME NEW h \in Handlers, PruneBlank(h) PROVE TypeOK'
    BY <1>23 DEF PruneBlank, ConversationType, CarriedType
  <1>24. ASSUME NEW h \in Handlers, PruneDecide(h) PROVE TypeOK'
    <2>1. closing' \in BOOLEAN /\ \E place \in {"idle", "close_for_good", "reopen"} : Goto(h, place)
      <3>1. CASE \E r \in Runs : at[r] # "none"
        BY <1>24, <3>1 DEF PruneDecide
      <3>2. CASE ~(\E r \in Runs : at[r] # "none")
        BY <1>24, <3>2 DEF PruneDecide, ConversationType
      <3> QED
        BY <3>1, <3>2
    <2>2. ConversationType' /\ CarriedType'
      BY <1>24, <2>1 DEF PruneDecide, ConversationType, CarriedType
    <2>3. PlacesType'
      BY <2>1
    <2> QED
      BY <2>2, <2>3
  <1>25. ASSUME NEW h \in Handlers, NEW k \in {"work", "move"}, TakeSlotFor(h, k) PROVE TypeOK'
    BY <1>25 DEF TakeSlotFor, ConversationType, CarriedType
  <1>26. ASSUME NEW r \in Runs, BeginTurn(r) PROVE TypeOK'
    BY <1>26, TaskFacts DEF BeginTurn, ConversationType, CarriedType
  <1>27. ASSUME NEW r \in Runs, ReadNotes(r) PROVE TypeOK'
    BY <1>27, TaskFacts DEF ReadNotes, ConversationType, CarriedType
  <1>28. ASSUME NEW r \in Runs, EndTurn(r) PROVE TypeOK'
    <2>1. CASE at[r] = "reading"
      <3>1. left \o notes \in Tasks
        BY ConcatTask DEF ConversationType
      <3>2. ConversationType'
        BY <1>28, <2>1, <3>1, TaskFacts DEF EndTurn, ConversationType
      <3>3. PlacesType'
        BY <1>28, <2>1 DEF EndTurn
      <3>4. CarriedType'
        BY <1>28, <2>1, <3>1 DEF EndTurn, CarriedType
      <3> QED
        BY <3>2, <3>3, <3>4
    <2>2. CASE ~(at[r] = "reading")
      <3>1. ConversationType'
        BY <1>28, <2>2 DEF EndTurn, ConversationType
      <3>2. PlacesType'
        BY <1>28, <2>2 DEF EndTurn
      <3>3. CarriedType'
        BY <1>28, <2>2 DEF EndTurn, CarriedType
      <3> QED
        BY <3>1, <3>2, <3>3
    <2> QED
      BY <2>1, <2>2
  <1>29. ASSUME NEW r \in Runs, RecordIntegration(r) PROVE TypeOK'
    BY <1>29 DEF RecordIntegration, ConversationType, CarriedType
  <1>30. ASSUME NEW r \in Runs, CloseRun(r) PROVE TypeOK'
    BY <1>30 DEF CloseRun, ConversationType, CarriedType
  <1>31. ASSUME NEW r \in Runs, Finish(r) PROVE TypeOK'
    BY <1>31 DEF Finish, ConversationType, CarriedType
  <1>32. ASSUME NEW r \in Runs, EndRunAgain(r) PROVE TypeOK'
    BY <1>32, TaskFacts DEF EndRunAgain, ConversationType, CarriedType
  <1>33. ASSUME NEW a \in Actors, DrainQueue(a) PROVE TypeOK'
    BY <1>33 DEF DrainQueue, ConversationType, CarriedType
  <1>34. ASSUME NEW a \in Actors, TakeUnread(a) PROVE TypeOK'
    <2>1. CASE left = <<>>
      <3>1. ConversationType'
        BY <1>34, <2>1 DEF TakeUnread, ConversationType
      <3>2. PlacesType'
        BY <1>34, <2>1 DEF TakeUnread
      <3>3. CarriedType'
        BY <1>34, <2>1 DEF TakeUnread, CarriedType
      <3> QED
        BY <3>1, <3>2, <3>3
    <2>2. CASE ~(left = <<>>)
      <3>1. ConversationType'
        BY <1>34, <2>2, TaskFacts DEF TakeUnread, ConversationType
      <3>2. PlacesType'
        BY <1>34, <2>2 DEF TakeUnread
      <3>3. CarriedType'
        BY <1>34, <2>2 DEF TakeUnread, ConversationType, CarriedType
      <3> QED
        BY <3>1, <3>2, <3>3
    <2> QED
      BY <2>1, <2>2
  <1>35. ASSUME NEW a \in Actors, PushUnread(a) PROVE TypeOK'
    BY <1>35, TaskFacts DEF PushUnread, ConversationType, CarriedType
  <1>36. ASSUME NEW a \in Actors, TakeQueued(a) PROVE TypeOK'
    <2>1. CASE running \/ closing \/ queue = <<>>
      <3>1. ConversationType'
        BY <1>36, <2>1 DEF TakeQueued, ConversationType
      <3>2. PlacesType'
        BY <1>36, <2>1 DEF TakeQueued
      <3>3. CarriedType'
        BY <1>36, <2>1 DEF TakeQueued, CarriedType
      <3> QED
        BY <3>1, <3>2, <3>3
    <2>2. CASE ~(running \/ closing \/ queue = <<>>)
      <3>1. Head(queue) \in Tasks /\ Tail(queue) \in Seq(Tasks)
        BY <2>2 DEF ConversationType
      <3>2. task' = [task EXCEPT ![a] = Head(queue)] /\ target' = target
        BY <1>36, <2>2 DEF TakeQueued
      <3>3. ConversationType'
        BY <1>36, <2>2, <3>1, <3>2 DEF TakeQueued, ConversationType
      <3>4. PlacesType'
        BY <1>36, <2>2 DEF TakeQueued
      <3>5. CarriedType'
        BY <1>36, <2>2, <3>1, <3>2 DEF TakeQueued, CarriedType
      <3> QED
        BY <3>3, <3>4, <3>5
    <2> QED
      BY <2>1, <2>2
  <1>37. ASSUME NEW a \in Actors, NEW r \in Runs, LaunchRun(a, r) PROVE TypeOK'
    BY <1>37, TaskFacts DEF LaunchRun, ConversationType, CarriedType
  <1>38. ASSUME WatchMerged PROVE TypeOK'
    BY <1>38 DEF WatchMerged, ConversationType, CarriedType
  <1>39. ASSUME Shutdown PROVE TypeOK'
    BY <1>39 DEF Shutdown, ConversationType, CarriedType
  <1>40. CASE UNCHANGED vars
    BY <1>40 DEF ConversationType, CarriedType
  <1> QED
    BY <1>1, <1>2, <1>3, <1>4, <1>5, <1>6, <1>7, <1>8, <1>9, <1>10, <1>11, <1>12, <1>13, <1>14, <1>15, <1>16, <1>17,
       <1>18, <1>19, <1>20, <1>21, <1>22, <1>23, <1>24, <1>25, <1>26, <1>27, <1>28, <1>29, <1>30, <1>31, <1>32, <1>33,
       <1>34, <1>35, <1>36, <1>37, <1>38, <1>39, <1>40 DEF Next, Request, HandlerStep, RunStep, DrainStep

\* The variables keep their types: what queue.go, steer.go and launchRun hand
\* from one goroutine to the next is always a task, and current always a run.
THEOREM TypeCorrect == Spec => []TypeOK
  <1>1. Init => TypeOK
    BY TaskFacts DEF Init, TypeOK, ConversationType, PlacesType, CarriedType, Fates, Steps, HandlerSteps, RunSteps
  <1> QED
    BY <1>1, TypeStep, PTL DEF Spec

-----------------------------------------------------------------------------
\* No run whose done channel closed will hold the slot: such a run has left the
\* places of a turn, and LaunchRun takes a run that never ran.
Released == \A r \in done : at[r] \notin RunHolds \union {"none"}

\* The inductive invariant: what the slot is, who is live, who is released.
SlotInv == SlotHasOneHolder /\ LiveRunIsTheHolder /\ Released

\* No step lets a second goroutine into the slot, or a released run back.
LEMMA SlotStep == TypeOK /\ SlotInv /\ [Next]_vars => SlotInv'
  <1> SUFFICES ASSUME TypeOK, SlotInv, [Next]_vars PROVE SlotInv'
    OBVIOUS
  <1>0. /\ at \in [Actors -> Steps] /\ running \in BOOLEAN /\ closing \in BOOLEAN
        /\ current \in Runs \union {NoRun} /\ done \subseteq Runs
    BY DEF TypeOK, ConversationType, PlacesType
  <1> USE <1>0 DEF SlotInv, SlotHasOneHolder, LiveRunIsTheHolder, Released, Holds, Holding, HandlerHolds, RunHolds,
              Over, Goto, GotoWith, Arrives, EndRun, vars, conv, server, inbox, runs, history
  <1>1. ASSUME NEW h \in Handlers, NEW m \in Msgs, StartNotedRun(h, m) PROVE SlotInv'
    BY <1>1 DEF StartNotedRun
  <1>2. ASSUME NEW h \in Handlers, NEW m \in Msgs, Queue(h, m) PROVE SlotInv'
    BY <1>2 DEF Queue
  <1>3. ASSUME NEW h \in Handlers, NEW m \in Msgs, Interrupt(h, m) PROVE SlotInv'
    BY <1>3 DEF Interrupt
  <1>4. ASSUME NEW h \in Handlers, NEW m \in Msgs, Steer(h, m) PROVE SlotInv'
    BY <1>4 DEF Steer
  <1>5. ASSUME NEW h \in Handlers, TakeRunSlot(h) PROVE SlotInv'
    BY <1>5 DEF TakeRunSlot
  <1>6. ASSUME NEW h \in Handlers, StartOrQueue(h) PROVE SlotInv'
    BY <1>6 DEF StartOrQueue
  <1>7. ASSUME NEW h \in Handlers, TakeSlotOrEnqueue(h) PROVE SlotInv'
    BY <1>7 DEF TakeSlotOrEnqueue
  <1>8. ASSUME NEW h \in Handlers, CancelRun(h) PROVE SlotInv'
    BY <1>8 DEF CancelRun
  <1>9. ASSUME NEW h \in Handlers, CancelTarget(h) PROVE SlotInv'
    BY <1>9 DEF CancelTarget
  <1>10. ASSUME NEW h \in Handlers, PushSteering(h) PROVE SlotInv'
    BY <1>10 DEF PushSteering
  <1>11. ASSUME NEW h \in Handlers, ReleaseRunSlot(h) PROVE SlotInv'
    BY <1>11 DEF ReleaseRunSlot
  <1>12. ASSUME NEW h \in Handlers, OpenTerminal(h) PROVE SlotInv'
    BY <1>12 DEF OpenTerminal
  <1>13. ASSUME NEW h \in Handlers, HoldTerminal(h) PROVE SlotInv'
    BY <1>13 DEF HoldTerminal
  <1>14. ASSUME NEW h \in Handlers, DropTerminal(h) PROVE SlotInv'
    BY <1>14 DEF DropTerminal
  <1>15. ASSUME NEW h \in Handlers, BeginClosing(h) PROVE SlotInv'
    BY <1>15 DEF BeginClosing
  <1>16. ASSUME NEW h \in Handlers, StopRunForDeletion(h) PROVE SlotInv'
    BY <1>16 DEF StopRunForDeletion
  <1>17. ASSUME NEW h \in Handlers, Settled(h) PROVE SlotInv'
    BY <1>17 DEF Settled
  <1>18. ASSUME NEW h \in Handlers, StopTimedOut(h) PROVE SlotInv'
    BY <1>18 DEF StopTimedOut
  <1>19. ASSUME NEW h \in Handlers, ReleaseWorktree(h) PROVE SlotInv'
    BY <1>19 DEF ReleaseWorktree
  <1>20. ASSUME NEW h \in Handlers, Reopen(h) PROVE SlotInv'
    BY <1>20 DEF Reopen
  <1>21. ASSUME NEW h \in Handlers, CloseForGood(h) PROVE SlotInv'
    BY <1>21 DEF CloseForGood
  <1>22. ASSUME NEW h \in Handlers, Forget(h) PROVE SlotInv'
    BY <1>22 DEF Forget
  <1>23. ASSUME NEW h \in Handlers, PruneBlank(h) PROVE SlotInv'
    BY <1>23 DEF PruneBlank
  <1>24. ASSUME NEW h \in Handlers, PruneDecide(h) PROVE SlotInv'
    BY <1>24 DEF PruneDecide
  <1>25. ASSUME NEW h \in Handlers, NEW k \in {"work", "move"}, TakeSlotFor(h, k) PROVE SlotInv'
    BY <1>25 DEF TakeSlotFor
  <1>26. ASSUME NEW r \in Runs, BeginTurn(r) PROVE SlotInv'
    BY <1>26 DEF BeginTurn
  <1>27. ASSUME NEW r \in Runs, ReadNotes(r) PROVE SlotInv'
    BY <1>27 DEF ReadNotes
  <1>28. ASSUME NEW r \in Runs, EndTurn(r) PROVE SlotInv'
    BY <1>28 DEF EndTurn
  <1>29. ASSUME NEW r \in Runs, RecordIntegration(r) PROVE SlotInv'
    BY <1>29 DEF RecordIntegration
  <1>30. ASSUME NEW r \in Runs, CloseRun(r) PROVE SlotInv'
    BY <1>30 DEF CloseRun
  <1>31. ASSUME NEW r \in Runs, Finish(r) PROVE SlotInv'
    BY <1>31 DEF Finish
  <1>32. ASSUME NEW r \in Runs, EndRunAgain(r) PROVE SlotInv'
    BY <1>32 DEF EndRunAgain
  <1>33. ASSUME NEW a \in Actors, DrainQueue(a) PROVE SlotInv'
    BY <1>33 DEF DrainQueue
  <1>34. ASSUME NEW a \in Actors, TakeUnread(a) PROVE SlotInv'
    BY <1>34 DEF TakeUnread
  <1>35. ASSUME NEW a \in Actors, PushUnread(a) PROVE SlotInv'
    BY <1>35 DEF PushUnread
  <1>36. ASSUME NEW a \in Actors, TakeQueued(a) PROVE SlotInv'
    BY <1>36 DEF TakeQueued
  <1>37. ASSUME NEW a \in Actors, NEW r \in Runs, LaunchRun(a, r) PROVE SlotInv'
    BY <1>37 DEF LaunchRun
  <1>38. ASSUME WatchMerged PROVE SlotInv'
    BY <1>38 DEF WatchMerged
  <1>39. ASSUME Shutdown PROVE SlotInv'
    BY <1>39 DEF Shutdown
  <1>40. CASE UNCHANGED vars
    BY <1>40
  <1> QED
    BY <1>1, <1>2, <1>3, <1>4, <1>5, <1>6, <1>7, <1>8, <1>9, <1>10, <1>11, <1>12, <1>13, <1>14, <1>15, <1>16, <1>17,
       <1>18, <1>19, <1>20, <1>21, <1>22, <1>23, <1>24, <1>25, <1>26, <1>27, <1>28, <1>29, <1>30, <1>31, <1>32, <1>33,
       <1>34, <1>35, <1>36, <1>37, <1>38, <1>39, <1>40 DEF Next, Request, HandlerStep, RunStep, DrainStep

\* takeRunSlot, takeSlotOrEnqueue and takeQueued never let a second goroutine
\* in, whoever gives the slot back, and conversation.current is its holder.
THEOREM SlotExclusive == Spec => [](SlotHasOneHolder /\ LiveRunIsTheHolder)
  <1>1. Init => SlotInv
    BY DEF Init, SlotInv, SlotHasOneHolder, LiveRunIsTheHolder, Released, Holds, Holding, HandlerHolds, RunHolds
  <1>2. SlotInv => SlotHasOneHolder /\ LiveRunIsTheHolder
    BY DEF SlotInv
  <1> QED
    BY <1>1, <1>2, TypeCorrect, SlotStep, PTL DEF Spec

\* A run's done channel closes (closeRun) after its slot was given back, and
\* neither of its two endRun calls touches the slot of the next run.
THEOREM DoneReleased == Spec => []DoneMeansReleased
  <1>1. Init => SlotInv
    BY DEF Init, SlotInv, SlotHasOneHolder, LiveRunIsTheHolder, Released, Holds, Holding, HandlerHolds, RunHolds
  <1>2. TypeOK /\ SlotInv => DoneMeansReleased
    BY DEF SlotInv, LiveRunIsTheHolder, Released, DoneMeansReleased, TypeOK, ConversationType
  <1> QED
    BY <1>1, <1>2, TypeCorrect, SlotStep, PTL DEF Spec

-----------------------------------------------------------------------------
\* Nothing in this instance holds the slot or the closing mark without draining
\* when it lets go: no move to a project, no pruning.
Drained == Requests \intersect {"move", "prune"} = {}

\* No goroutine is in a place those two would lead to.
NoBareRelease == \A a \in Actors : at[a] \notin {"move", "prune"}

\* No step leaves a message behind with nobody coming for it.
LEMMA WakeStep ==
    Drained /\ TypeOK /\ SlotInv /\ NoBareRelease /\ NoLostWakeup /\ [Next]_vars
      => NoBareRelease' /\ NoLostWakeup'
  <1> SUFFICES ASSUME Drained, TypeOK, SlotInv, NoBareRelease, NoLostWakeup, [Next]_vars
               PROVE  NoBareRelease' /\ NoLostWakeup'
    OBVIOUS
  <1>0. /\ at \in [Actors -> Steps]
        /\ running \in BOOLEAN /\ closing \in BOOLEAN /\ alive \in BOOLEAN /\ merged \in BOOLEAN
    BY DEF TypeOK, ConversationType, PlacesType
  <1>a. \A a \in Actors : Holds(a) => running
    BY DEF SlotInv, SlotHasOneHolder
  <1> USE <1>0, <1>a DEF NoBareRelease, NoLostWakeup, Holds, Holding, HandlerHolds, RunHolds, DrainSteps, runnable,
              Drained, Over, Goto, GotoWith, Arrives, EndRun, DropQueue, vars, conv, server, inbox, runs, history
  <1>1. ASSUME NEW h \in Handlers, NEW m \in Msgs, StartNotedRun(h, m) PROVE NoBareRelease' /\ NoLostWakeup'
    BY <1>1 DEF StartNotedRun
  <1>2. ASSUME NEW h \in Handlers, NEW m \in Msgs, Queue(h, m) PROVE NoBareRelease' /\ NoLostWakeup'
    BY <1>2 DEF Queue
  <1>3. ASSUME NEW h \in Handlers, NEW m \in Msgs, Interrupt(h, m) PROVE NoBareRelease' /\ NoLostWakeup'
    BY <1>3 DEF Interrupt
  <1>4. ASSUME NEW h \in Handlers, NEW m \in Msgs, Steer(h, m) PROVE NoBareRelease' /\ NoLostWakeup'
    BY <1>4 DEF Steer
  <1>5. ASSUME NEW h \in Handlers, TakeRunSlot(h) PROVE NoBareRelease' /\ NoLostWakeup'
    BY <1>5 DEF TakeRunSlot
  <1>6. ASSUME NEW h \in Handlers, StartOrQueue(h) PROVE NoBareRelease' /\ NoLostWakeup'
    BY <1>6 DEF StartOrQueue
  <1>7. ASSUME NEW h \in Handlers, TakeSlotOrEnqueue(h) PROVE NoBareRelease' /\ NoLostWakeup'
    BY <1>7 DEF TakeSlotOrEnqueue
  <1>8. ASSUME NEW h \in Handlers, CancelRun(h) PROVE NoBareRelease' /\ NoLostWakeup'
    BY <1>8 DEF CancelRun
  <1>9. ASSUME NEW h \in Handlers, CancelTarget(h) PROVE NoBareRelease' /\ NoLostWakeup'
    BY <1>9 DEF CancelTarget
  <1>10. ASSUME NEW h \in Handlers, PushSteering(h) PROVE NoBareRelease' /\ NoLostWakeup'
    BY <1>10 DEF PushSteering
  <1>11. ASSUME NEW h \in Handlers, ReleaseRunSlot(h) PROVE NoBareRelease' /\ NoLostWakeup'
    BY <1>11 DEF ReleaseRunSlot
  <1>12. ASSUME NEW h \in Handlers, OpenTerminal(h) PROVE NoBareRelease' /\ NoLostWakeup'
    BY <1>12 DEF OpenTerminal
  <1>13. ASSUME NEW h \in Handlers, HoldTerminal(h) PROVE NoBareRelease' /\ NoLostWakeup'
    BY <1>13 DEF HoldTerminal
  <1>14. ASSUME NEW h \in Handlers, DropTerminal(h) PROVE NoBareRelease' /\ NoLostWakeup'
    BY <1>14 DEF DropTerminal
  <1>15. ASSUME NEW h \in Handlers, BeginClosing(h) PROVE NoBareRelease' /\ NoLostWakeup'
    BY <1>15 DEF BeginClosing
  <1>16. ASSUME NEW h \in Handlers, StopRunForDeletion(h) PROVE NoBareRelease' /\ NoLostWakeup'
    BY <1>16 DEF StopRunForDeletion
  <1>17. ASSUME NEW h \in Handlers, Settled(h) PROVE NoBareRelease' /\ NoLostWakeup'
    BY <1>17 DEF Settled
  <1>18. ASSUME NEW h \in Handlers, StopTimedOut(h) PROVE NoBareRelease' /\ NoLostWakeup'
    BY <1>18 DEF StopTimedOut
  <1>19. ASSUME NEW h \in Handlers, ReleaseWorktree(h) PROVE NoBareRelease' /\ NoLostWakeup'
    BY <1>19 DEF ReleaseWorktree
  <1>20. ASSUME NEW h \in Handlers, Reopen(h) PROVE NoBareRelease' /\ NoLostWakeup'
    BY <1>20 DEF Reopen
  <1>21. ASSUME NEW h \in Handlers, CloseForGood(h) PROVE NoBareRelease' /\ NoLostWakeup'
    BY <1>21 DEF CloseForGood
  <1>22. ASSUME NEW h \in Handlers, Forget(h) PROVE NoBareRelease' /\ NoLostWakeup'
    BY <1>22 DEF Forget
  <1>23. ASSUME NEW h \in Handlers, PruneBlank(h) PROVE NoBareRelease' /\ NoLostWakeup'
    BY <1>23 DEF PruneBlank
  <1>24. ASSUME NEW h \in Handlers, PruneDecide(h) PROVE NoBareRelease' /\ NoLostWakeup'
    BY <1>24 DEF PruneDecide
  <1>25. ASSUME NEW h \in Handlers, NEW k \in {"work", "move"}, TakeSlotFor(h, k) PROVE NoBareRelease' /\ NoLostWakeup'
    BY <1>25 DEF TakeSlotFor
  <1>26. ASSUME NEW r \in Runs, BeginTurn(r) PROVE NoBareRelease' /\ NoLostWakeup'
    BY <1>26 DEF BeginTurn
  <1>27. ASSUME NEW r \in Runs, ReadNotes(r) PROVE NoBareRelease' /\ NoLostWakeup'
    BY <1>27 DEF ReadNotes
  <1>28. ASSUME NEW r \in Runs, EndTurn(r) PROVE NoBareRelease' /\ NoLostWakeup'
    BY <1>28 DEF EndTurn
  <1>29. ASSUME NEW r \in Runs, RecordIntegration(r) PROVE NoBareRelease' /\ NoLostWakeup'
    BY <1>29 DEF RecordIntegration
  <1>30. ASSUME NEW r \in Runs, CloseRun(r) PROVE NoBareRelease' /\ NoLostWakeup'
    BY <1>30 DEF CloseRun
  <1>31. ASSUME NEW r \in Runs, Finish(r) PROVE NoBareRelease' /\ NoLostWakeup'
    BY <1>31 DEF Finish
  <1>32. ASSUME NEW r \in Runs, EndRunAgain(r) PROVE NoBareRelease' /\ NoLostWakeup'
    BY <1>32 DEF EndRunAgain
  <1>33. ASSUME NEW a \in Actors, DrainQueue(a) PROVE NoBareRelease' /\ NoLostWakeup'
    BY <1>33 DEF DrainQueue
  <1>34. ASSUME NEW a \in Actors, TakeUnread(a) PROVE NoBareRelease' /\ NoLostWakeup'
    BY <1>34 DEF TakeUnread
  <1>35. ASSUME NEW a \in Actors, PushUnread(a) PROVE NoBareRelease' /\ NoLostWakeup'
    BY <1>35 DEF PushUnread
  <1>36. ASSUME NEW a \in Actors, TakeQueued(a) PROVE NoBareRelease' /\ NoLostWakeup'
    BY <1>36 DEF TakeQueued
  <1>37. ASSUME NEW a \in Actors, NEW r \in Runs, LaunchRun(a, r) PROVE NoBareRelease' /\ NoLostWakeup'
    BY <1>37 DEF LaunchRun
  <1>38. ASSUME WatchMerged PROVE NoBareRelease' /\ NoLostWakeup'
    BY <1>38 DEF WatchMerged
  <1>39. ASSUME Shutdown PROVE NoBareRelease' /\ NoLostWakeup'
    BY <1>39 DEF Shutdown
  <1>40. CASE UNCHANGED vars
    BY <1>40
  <1> QED
    BY <1>1, <1>2, <1>3, <1>4, <1>5, <1>6, <1>7, <1>8, <1>9, <1>10, <1>11, <1>12, <1>13, <1>14, <1>15, <1>16, <1>17,
       <1>18, <1>19, <1>20, <1>21, <1>22, <1>23, <1>24, <1>25, <1>26, <1>27, <1>28, <1>29, <1>30, <1>31, <1>32, <1>33,
       <1>34, <1>35, <1>36, <1>37, <1>38, <1>39, <1>40 DEF Next, Request, HandlerStep, RunStep, DrainStep

\* The rule of queue.go, "whoever holds the slot drains after releasing it", is
\* enough: where every holder follows it, no queued or unread message is left in
\* a free conversation with no drain on its way.
THEOREM WakeupKept ==
    ASSUME Drained PROVE Spec => []NoLostWakeup
  <1>1. Init => SlotInv
    BY DEF Init, SlotInv, SlotHasOneHolder, LiveRunIsTheHolder, Released, Holds, Holding, HandlerHolds, RunHolds
  <1>2. Init => NoBareRelease /\ NoLostWakeup
    BY DEF Init, NoBareRelease, NoLostWakeup
  <1>3. TypeOK /\ SlotInv /\ NoBareRelease /\ NoLostWakeup /\ [Next]_vars => NoBareRelease' /\ NoLostWakeup'
    BY WakeStep
  <1> QED
    BY <1>1, <1>2, <1>3, TypeCorrect, SlotStep, PTL DEF Spec

-----------------------------------------------------------------------------
(* The messages: where each is, and in which turn.                          *)

\* The messages of a task, and the places of a goroutine that carries one it has to hand on.
Ms(t) == {t[i] : i \in 1..Len(t)}
Carriers == {"launch", "push_unread"}
Senders  == {"take_slot", "queue", "take_or_enqueue", "steer_push"}

Carries(m, a) == at[a] \in Carriers /\ m \in Ms(task[a])
In(q, m)      == \E k \in 1..Len(q) : m \in Ms(q[k])
InQueue(m)    == In(queue, m)
InNotes(m)    == m \in Ms(notes)
InLeft(m)     == m \in Ms(left)
IsCarried(m)  == \E a \in Actors : Carries(m, a)
Placed(m)     == InQueue(m) \/ InNotes(m) \/ InLeft(m) \/ IsCarried(m)

\* A message is once in one of those places ...
OnceIn(q, m) == \A k, l \in 1..Len(q) : m \in Ms(q[k]) /\ m \in Ms(q[l]) => k = l
Single(t, m) == \A k, l \in 1..Len(t) : t[k] = m /\ t[l] = m => k = l
Once(m) ==
    /\ OnceIn(queue, m) /\ Single(notes, m) /\ Single(left, m)
    /\ \A a, b \in Actors : Carries(m, a) /\ Carries(m, b) => a = b
Apart(m) ==
    /\ InQueue(m) => ~InNotes(m) /\ ~InLeft(m) /\ ~IsCarried(m)
    /\ InNotes(m) => ~InLeft(m) /\ ~IsCarried(m)
    /\ InLeft(m) => ~IsCarried(m)

\* ... from when its sender hands it over until it is started, read or dropped.
Sends(m, a) == at[a] \in Senders /\ task[a] = <<m>>
Fated(m) ==
    /\ fate[m] = "accepted" => Placed(m)
    /\ Placed(m) => fate[m] \in {"accepted", "sent"}
    /\ \A a \in Actors : Sends(m, a) => fate[m] = "sent" /\ ~Placed(m)
    /\ \A a, b \in Actors : Sends(m, a) /\ Sends(m, b) => a = b

\* A goroutine carries what was sent, and nothing when it has handed it on.
Hands ==
    /\ \A a \in Actors : at[a] \in Senders => \E m \in Msgs : task[a] = <<m>>
    /\ \A h \in Handlers : at[h] \notin Senders \union Carriers \union {"cancel"} => task[h] = <<>>
    /\ \A a \in Actors : \A m \in Ms(task[a]) : fate[m] # "new"

\* The inbox is open while its turn reads it, and only then has notes.
InboxOfTurn == IF open THEN \E r \in Runs : at[r] = "reading" ELSE notes = <<>>

\* What the queue took is in its order, and goes from there to a turn or is dropped.
Taken(m) ==
    /\ fate[m] \in {"accepted", "started", "dropped"} /\ ~InNotes(m) /\ ~InLeft(m)
    /\ \A a \in Actors : Carries(m, a) => at[a] = "launch"
Before(q, m, n) == \A k, l \in 1..Len(q) : m \in Ms(q[k]) /\ n \in Ms(q[l]) => k < l
Behind(m, n) ==
    /\ Before(queue, m, n)
    /\ IsCarried(n) \/ fate[n] = "started" => fate[m] \in {"started", "dropped"}
InOrder ==
    /\ \A i \in 1..Len(order) : Taken(order[i])
    /\ \A i, j \in 1..Len(order) : i < j => order[i] # order[j] /\ Behind(order[i], order[j])

\* Whoever is about to cancel a run has no message of it.
Spares ==
    \A h \in Handlers : at[h] = "cancel" /\ target[h] # NoRun =>
        /\ target[h] \in Runs /\ at[target[h]] # "none"
        /\ at[target[h]] \in RunHolds => Ms(task[h]) \intersect Ms(task[target[h]]) = {}

MsgInv ==
    /\ Hands /\ InboxOfTurn /\ InOrder /\ Spares
    /\ \A m \in Msgs : Once(m) /\ Apart(m) /\ Fated(m)

-----------------------------------------------------------------------------
(* Tasks and queues of them.                                                *)

\* The messages of a task, of none and of two put together.
LEMMA MsFacts ==
    /\ Ms(<<>>) = {} /\ \A x : Ms(<<x>>) = {x}
    /\ \A t \in Tasks : Ms(t) \subseteq Msgs
    /\ \A x : Single(<<>>, x) /\ ~In(<<>>, x) /\ OnceIn(<<>>, x)
BY DEF Ms, Tasks, Single, In, OnceIn

\* The messages of two tasks joined, as Inbox.End joins what a turn left to what
\* earlier ones did.
LEMMA MsConcat ==
    ASSUME NEW s \in Tasks, NEW t \in Tasks
    PROVE  /\ Ms(s \o t) = Ms(s) \union Ms(t)
           /\ \A m : Single(s, m) /\ Single(t, m) /\ ~(m \in Ms(s) /\ m \in Ms(t)) => Single(s \o t, m)
<1>1. /\ Len(s) \in Nat /\ Len(t) \in Nat /\ Len(s \o t) = Len(s) + Len(t)
      /\ \A i \in 1..(Len(s) + Len(t)) : (s \o t)[i] = IF i <= Len(s) THEN s[i] ELSE t[i - Len(s)]
  BY ConcatProperties DEF Tasks
<1>2. \A i \in 1..Len(s) : i \in 1..Len(s \o t) /\ (s \o t)[i] = s[i] BY <1>1
<1>3. \A i \in 1..Len(t) : Len(s) + i \in 1..Len(s \o t) /\ (s \o t)[Len(s) + i] = t[i] BY <1>1
<1>4. \A i \in 1..Len(s \o t) : \/ i \in 1..Len(s) /\ (s \o t)[i] = s[i]
                                \/ i - Len(s) \in 1..Len(t) /\ (s \o t)[i] = t[i - Len(s)]
  BY <1>1
<1>5. Ms(s \o t) = Ms(s) \union Ms(t)
  <2>1. Ms(s) \union Ms(t) \subseteq Ms(s \o t) BY <1>2, <1>3 DEF Ms
  <2>2. Ms(s \o t) \subseteq Ms(s) \union Ms(t) BY <1>4 DEF Ms
  <2> QED BY <2>1, <2>2
<1>6. ASSUME NEW m, Single(s, m), Single(t, m), ~(m \in Ms(s) /\ m \in Ms(t)) PROVE Single(s \o t, m)
  <2> SUFFICES ASSUME NEW k \in 1..Len(s \o t), NEW l \in 1..Len(s \o t), (s \o t)[k] = m, (s \o t)[l] = m
               PROVE  k = l
    BY DEF Single
  <2>1. CASE m \in Ms(s)
    <3>1. k \in 1..Len(s) /\ s[k] = m BY <1>4, <1>6, <2>1 DEF Ms
    <3>2. l \in 1..Len(s) /\ s[l] = m BY <1>4, <1>6, <2>1 DEF Ms
    <3> QED BY <1>6, <3>1, <3>2 DEF Single
  <2>2. CASE m \notin Ms(s)
    <3>1. k - Len(s) \in 1..Len(t) /\ t[k - Len(s)] = m BY <1>4, <2>2 DEF Ms
    <3>2. l - Len(s) \in 1..Len(t) /\ t[l - Len(s)] = m BY <1>4, <2>2 DEF Ms
    <3>3. k - Len(s) = l - Len(s) BY <1>6, <3>1, <3>2 DEF Single
    <3> QED BY <1>1, <3>3
  <2> QED BY <2>1, <2>2
<1> QED BY <1>1, <1>5, <1>6

\* What a task put last (pushQueue, takeSlotOrEnqueue) does to the queue.
LEMMA QueueAppend ==
    ASSUME NEW q \in Seq(Tasks), NEW t \in Tasks, NEW m
    PROVE  /\ In(Append(q, t), m) <=> In(q, m) \/ m \in Ms(t)
           /\ OnceIn(q, m) /\ (m \notin Ms(t) \/ ~In(q, m)) => OnceIn(Append(q, t), m)
           /\ \A n : Before(q, m, n) /\ m \notin Ms(t) => Before(Append(q, t), m, n)
           /\ \A n : ~In(q, n) /\ m \notin Ms(t) => Before(Append(q, t), m, n)
<1> DEFINE p == Append(q, t)
<1>1. /\ Len(q) \in Nat /\ Len(p) = Len(q) + 1 /\ p[Len(q) + 1] = t
      /\ \A i \in 1..Len(q) : p[i] = q[i]
  OBVIOUS
<1> HIDE DEF p
<1>2. \A i \in 1..Len(p) : (i = Len(q) + 1 /\ p[i] = t) \/ (i \in 1..Len(q) /\ p[i] = q[i]) BY <1>1
<1>3. \A i \in 1..Len(q) : i \in 1..Len(p) /\ i < Len(q) + 1 BY <1>1
<1>4. Len(q) + 1 \in 1..Len(p) BY <1>1
<1>5. In(p, m) <=> In(q, m) \/ m \in Ms(t)
  <2>1. In(p, m) => In(q, m) \/ m \in Ms(t) BY <1>2 DEF In
  <2>2. In(q, m) => In(p, m) BY <1>1, <1>3 DEF In
  <2>3. m \in Ms(t) => In(p, m) BY <1>1, <1>4 DEF In
  <2> QED BY <2>1, <2>2, <2>3
<1>6. OnceIn(q, m) /\ (m \notin Ms(t) \/ ~In(q, m)) => OnceIn(p, m) BY <1>2 DEF OnceIn, In
<1>7. ASSUME NEW n, Before(q, m, n), m \notin Ms(t) PROVE Before(p, m, n) BY <1>2, <1>3, <1>7 DEF Before
<1>8. ASSUME NEW n, ~In(q, n), m \notin Ms(t) PROVE Before(p, m, n) BY <1>2, <1>3, <1>8 DEF Before, In
<1> QED BY <1>5, <1>6, <1>7, <1>8 DEF p

\* The same of a task put first (an interruption) ...
LEMMA QueuePrepend ==
    ASSUME NEW q \in Seq(Tasks), NEW t \in Tasks, NEW m
    PROVE  /\ In(<<t>> \o q, m) <=> In(q, m) \/ m \in Ms(t)
           /\ OnceIn(q, m) /\ (m \notin Ms(t) \/ ~In(q, m)) => OnceIn(<<t>> \o q, m)
           /\ \A n : Before(q, m, n) /\ n \notin Ms(t) /\ m \notin Ms(t) => Before(<<t>> \o q, m, n)
<1> DEFINE p == <<t>> \o q
<1>1. /\ Len(q) \in Nat /\ Len(p) = Len(q) + 1 /\ p[1] = t
      /\ \A i \in 1..Len(q) : p[i + 1] = q[i] /\ i + 1 \in 1..Len(p)
  <2>1. <<t>> \in Seq(Tasks) /\ Len(<<t>>) = 1 /\ <<t>>[1] = t OBVIOUS
  <2>2. /\ Len(p) = 1 + Len(q) /\ Len(q) \in Nat
        /\ \A i \in 1..(1 + Len(q)) : p[i] = IF i <= 1 THEN <<t>>[i] ELSE q[i - 1]
    BY <2>1, ConcatProperties
  <2> HIDE DEF p
  <2>3. ASSUME NEW i \in 1..Len(q) PROVE p[i + 1] = q[i] /\ i + 1 \in 1..Len(p)
    <3>1. i + 1 \in 1..(1 + Len(q)) /\ ~(i + 1 <= 1) /\ (i + 1) - 1 = i BY <2>2
    <3> QED BY <2>2, <3>1
  <2> QED BY <2>1, <2>2, <2>3
<1> HIDE DEF p
<1>2. \A i \in 1..Len(p) : (i = 1 /\ p[i] = t) \/ (i - 1 \in 1..Len(q) /\ p[i] = q[i - 1])
  <2> SUFFICES ASSUME NEW i \in 1..Len(p), i # 1 PROVE i - 1 \in 1..Len(q) /\ p[i] = q[i - 1] BY <1>1
  <2>1. i - 1 \in 1..Len(q) /\ (i - 1) + 1 = i BY <1>1
  <2> QED BY <1>1, <2>1
<1>3. 1 \in 1..Len(p) BY <1>1
<1>5. In(p, m) <=> In(q, m) \/ m \in Ms(t)
  <2>1. In(p, m) => In(q, m) \/ m \in Ms(t) BY <1>2 DEF In
  <2>2. In(q, m) => In(p, m) BY <1>1 DEF In
  <2>3. m \in Ms(t) => In(p, m) BY <1>1, <1>3 DEF In
  <2> QED BY <2>1, <2>2, <2>3
<1>6. ASSUME OnceIn(q, m), m \notin Ms(t) \/ ~In(q, m) PROVE OnceIn(p, m)
  <2> SUFFICES ASSUME NEW k \in 1..Len(p), NEW l \in 1..Len(p), m \in Ms(p[k]), m \in Ms(p[l]) PROVE k = l
    BY DEF OnceIn
  <2>1. CASE k - 1 \in 1..Len(q) /\ p[k] = q[k - 1] /\ l - 1 \in 1..Len(q) /\ p[l] = q[l - 1]
    <3>1. k - 1 = l - 1 BY <1>6, <2>1 DEF OnceIn
    <3> QED BY <3>1
  <2> QED BY <1>2, <1>6, <2>1 DEF In
<1>7. ASSUME NEW n, Before(q, m, n), n \notin Ms(t), m \notin Ms(t) PROVE Before(p, m, n)
  <2> SUFFICES ASSUME NEW k \in 1..Len(p), NEW l \in 1..Len(p), m \in Ms(p[k]), n \in Ms(p[l]) PROVE k < l
    BY DEF Before
  <2>1. k - 1 \in 1..Len(q) /\ p[k] = q[k - 1] /\ l - 1 \in 1..Len(q) /\ p[l] = q[l - 1] BY <1>2, <1>7
  <2>2. k - 1 < l - 1 BY <1>7, <2>1 DEF Before
  <2> QED BY <2>2
<1> QED BY <1>5, <1>6, <1>7 DEF p

\* ... and of the first one taken (takeQueued).
LEMMA QueueTail ==
    ASSUME NEW q \in Seq(Tasks), q # <<>>, NEW m
    PROVE  /\ In(q, m) <=> In(Tail(q), m) \/ m \in Ms(Head(q))
           /\ OnceIn(q, m) => OnceIn(Tail(q), m) /\ ~(In(Tail(q), m) /\ m \in Ms(Head(q)))
           /\ \A n : Before(q, m, n) => Before(Tail(q), m, n)
           /\ \A n : Before(q, m, n) /\ n \in Ms(Head(q)) => ~In(q, m)
<1> DEFINE p == Tail(q)
<1>1. /\ Len(q) \in Nat \ {0} /\ Len(p) = Len(q) - 1 /\ Head(q) = q[1]
      /\ \A i \in 1..Len(p) : p[i] = q[i + 1] /\ i + 1 \in 1..Len(q)
  OBVIOUS
<1> HIDE DEF p
<1>2. \A i \in 1..Len(q) : (i = 1 /\ q[i] = Head(q)) \/ (i - 1 \in 1..Len(p) /\ q[i] = p[i - 1])
  <2> SUFFICES ASSUME NEW i \in 1..Len(q), i # 1 PROVE i - 1 \in 1..Len(p) /\ q[i] = p[i - 1] BY <1>1
  <2>1. i - 1 \in 1..Len(p) /\ (i - 1) + 1 = i BY <1>1
  <2> QED BY <1>1, <2>1
<1>3. 1 \in 1..Len(q) BY <1>1
<1>4. \A i \in 1..Len(p) : i + 1 # 1 BY <1>1
<1>5. In(q, m) <=> In(p, m) \/ m \in Ms(Head(q))
  <2>1. In(q, m) => In(p, m) \/ m \in Ms(Head(q)) BY <1>2 DEF In
  <2>2. In(p, m) => In(q, m) BY <1>1 DEF In
  <2>3. m \in Ms(Head(q)) => In(q, m) BY <1>1, <1>3 DEF In
  <2> QED BY <2>1, <2>2, <2>3
<1>6. OnceIn(q, m) => OnceIn(p, m)
  <2> SUFFICES ASSUME OnceIn(q, m), NEW k \in 1..Len(p), NEW l \in 1..Len(p), m \in Ms(p[k]), m \in Ms(p[l])
               PROVE  k = l
    BY DEF OnceIn
  <2>1. k + 1 = l + 1 BY <1>1 DEF OnceIn
  <2> QED BY <2>1
<1>7. OnceIn(q, m) => ~(In(p, m) /\ m \in Ms(Head(q)))
  <2> SUFFICES ASSUME OnceIn(q, m), NEW k \in 1..Len(p), m \in Ms(p[k]), m \in Ms(Head(q)) PROVE FALSE
    BY DEF In
  <2>1. m \in Ms(q[k + 1]) /\ k + 1 \in 1..Len(q) /\ m \in Ms(q[1]) /\ k + 1 # 1 BY <1>1, <1>4
  <2> QED BY <1>3, <2>1 DEF OnceIn
<1>8. ASSUME NEW n, Before(q, m, n) PROVE Before(p, m, n)
  <2> SUFFICES ASSUME NEW k \in 1..Len(p), NEW l \in 1..Len(p), m \in Ms(p[k]), n \in Ms(p[l]) PROVE k < l
    BY DEF Before
  <2>1. k + 1 < l + 1 BY <1>1, <1>8 DEF Before
  <2> QED BY <2>1
<1>9. ASSUME NEW n, Before(q, m, n), n \in Ms(Head(q)), In(q, m) PROVE FALSE
  <2>1. PICK k \in 1..Len(q) : m \in Ms(q[k]) BY <1>9 DEF In
  <2>2. k < 1 BY <1>1, <1>3, <1>9, <2>1 DEF Before
  <2> QED BY <2>2
<1> QED BY <1>5, <1>6, <1>7, <1>8, <1>9 DEF p

\* One message more at the end of a task.
LEMMA OneMore ==
    ASSUME NEW s \in Tasks, NEW m \in Msgs
    PROVE  /\ Len(s) \in Nat /\ Len(s \o <<m>>) = Len(s) + 1 /\ (s \o <<m>>)[Len(s) + 1] = m
           /\ \A i \in 1..Len(s) : (s \o <<m>>)[i] = s[i]
<1>1. s \in Seq(Msgs) /\ <<m>> \in Seq(Msgs) /\ Len(<<m>>) = 1 /\ <<m>>[1] = m BY DEF Tasks
<1>2. /\ Len(s) \in Nat /\ Len(s \o <<m>>) = Len(s) + 1
      /\ \A i \in 1..(Len(s) + 1) : (s \o <<m>>)[i] = IF i <= Len(s) THEN s[i] ELSE <<m>>[i - Len(s)]
  BY <1>1, ConcatProperties
<1>3. (s \o <<m>>)[Len(s) + 1] = <<m>>[(Len(s) + 1) - Len(s)] BY <1>2
<1>4. (Len(s) + 1) - Len(s) = 1 BY <1>2
<1> QED BY <1>1, <1>2, <1>3, <1>4

-----------------------------------------------------------------------------
(* What each step does to the messages.                                     *)

\* Messages in order stay so when none of them is lost from it and none passes another.
LEMMA OrderKept ==
    ASSUME InOrder, order' = order,
           \A i \in 1..Len(order) : Taken(order[i]) => Taken(order[i])',
           \A i, j \in 1..Len(order) :
              Taken(order[i]) /\ Taken(order[j]) /\ Behind(order[i], order[j]) => Behind(order[i], order[j])'
    PROVE  InOrder'
BY DEF InOrder

\* A step that moves no message, and nobody to or from a place where one is handed on.
LEMMA QuietStep ==
    ASSUME MsgInv, UNCHANGED <<queue, notes, left, fate, order, open, task>>,
           \A a \in Actors :
              /\ at'[a] \in Senders \union Carriers \union {"cancel"} \/ at[a] \in Senders \union Carriers \union {"cancel"}
                   => at'[a] = at[a]
              /\ at[a] # "none" => at'[a] # "none"
              /\ at'[a] \in RunHolds => at[a] \in RunHolds
              /\ at[a] = "reading" => at'[a] = "reading"
              /\ at[a] = "cancel" => target'[a] = target[a]
    PROVE  MsgInv'
<1>1. \A m, a : a \in Actors => /\ (Carries(m, a)' <=> Carries(m, a))
                                /\ (Sends(m, a)' <=> Sends(m, a))
  BY DEF Carries, Sends
<1>2. \A m : IsCarried(m)' <=> IsCarried(m) BY <1>1 DEF IsCarried
<1>3. \A m : Placed(m)' <=> Placed(m) BY <1>2 DEF Placed, InQueue, InNotes, InLeft
<1>4. ASSUME NEW m \in Msgs PROVE Once(m)' /\ Apart(m)' /\ Fated(m)'
  <2>1. Once(m)' BY <1>1 DEF MsgInv, Once
  <2>2. Apart(m)' BY <1>2 DEF MsgInv, Apart, InQueue, InNotes, InLeft
  <2>3. Fated(m)' BY <1>1, <1>3 DEF MsgInv, Fated
  <2> QED BY <2>1, <2>2, <2>3
<1>5. Hands' BY DEF MsgInv, Hands
<1>6. InboxOfTurn' BY DEF MsgInv, InboxOfTurn
<1>7. InOrder'
  <2>1. ASSUME NEW i \in 1..Len(order) PROVE Taken(order[i]) => Taken(order[i])'
      BY <1>1 DEF Taken, InNotes, InLeft, Carries
  <2>2. ASSUME NEW i \in 1..Len(order), NEW j \in 1..Len(order)
        PROVE  Behind(order[i], order[j]) => Behind(order[i], order[j])'
    BY <1>2 DEF Behind
  <2> QED BY <2>1, <2>2, OrderKept DEF MsgInv
<1>8. Spares' BY DEF MsgInv, Spares
<1> QED BY <1>4, <1>5, <1>6, <1>7, <1>8 DEF MsgInv

\* A request hands a message to the goroutine that serves it.
LEMMA SendStep ==
    ASSUME TypeOK, MsgInv, NEW h \in Handlers, NEW m \in Msgs, at[h] = "idle", fate[m] = "new",
           NEW p \in Senders, GotoWith(h, p, <<m>>), Settle(<<m>>, "sent"),
           UNCHANGED <<queue, notes, left, order, open, target>>
    PROVE  MsgInv'
<1>1. /\ at'[h] = p /\ task'[h] = <<m>> /\ fate'[m] = "sent" /\ order' = order
      /\ \A a \in Actors : a # h => at'[a] = at[a] /\ task'[a] = task[a]
      /\ \A n \in Msgs : n # m => fate'[n] = fate[n]
  <2>1. \A n \in Msgs : (\E i \in 1..Len(<<m>>) : <<m>>[i] = n) <=> n = m OBVIOUS
  <2> QED BY <2>1 DEF TypeOK, PlacesType, CarriedType, GotoWith, Goto, Settle
<1>2. \A n : \A a \in Actors : Carries(n, a)' <=> Carries(n, a) BY <1>1 DEF Carries, Carriers, Senders
<1>3. \A n : IsCarried(n)' <=> IsCarried(n) BY <1>2 DEF IsCarried
<1>4. \A n : Placed(n)' <=> Placed(n) BY <1>3 DEF Placed, InQueue, InNotes, InLeft
<1>5. \A n \in Msgs : Sends(n, h)' <=> n = m BY <1>1 DEF Sends, Senders
<1>6. \A n : \A a \in Actors : a # h => (Sends(n, a)' <=> Sends(n, a)) BY <1>1 DEF Sends
<1>7. ASSUME NEW n \in Msgs PROVE Once(n)' /\ Apart(n)' /\ Fated(n)'
  <2>1. Once(n)' BY <1>2 DEF MsgInv, Once
  <2>2. Apart(n)' BY <1>3 DEF MsgInv, Apart, InQueue, InNotes, InLeft
  <2>3. Fated(n) /\ Fated(m) BY DEF MsgInv
  <2>4. fate'[n] = "accepted" => Placed(n)' BY <1>1, <1>4, <2>3 DEF Fated
  <2>5. Placed(n)' => fate'[n] \in {"accepted", "sent"} BY <1>1, <1>4, <2>3 DEF Fated
  <2>6. ASSUME NEW a \in Actors, Sends(n, a)' PROVE a = h <=> n = m
    BY <1>1, <1>5, <1>6, <2>3, <2>6 DEF Fated
  <2>7. ASSUME NEW a \in Actors, Sends(n, a)' PROVE fate'[n] = "sent" /\ ~Placed(n)'
    BY <1>1, <1>4, <1>5, <1>6, <2>3, <2>6, <2>7 DEF Fated
  <2>8. ASSUME NEW a \in Actors, NEW b \in Actors, Sends(n, a)', Sends(n, b)' PROVE a = b
    BY <1>6, <2>3, <2>6, <2>8 DEF Fated
  <2> QED BY <2>1, <2>2, <2>4, <2>5, <2>7, <2>8 DEF Fated
<1>8. Hands'
  <2>1. Ms(<<m>>) = {m} BY MsFacts
  <2>2. \A a \in Actors : Ms(task[a]) \subseteq Msgs BY MsFacts DEF TypeOK, CarriedType
  <2> QED BY <1>1, <2>1, <2>2 DEF MsgInv, Hands, Senders, Carriers
<1>9. InboxOfTurn' BY <1>1 DEF MsgInv, InboxOfTurn
<1>10. InOrder'
  <2>1. \A i \in 1..Len(order) : order[i] \in Msgs /\ (Taken(order[i]) => order[i] # m /\ fate'[order[i]] = fate[order[i]])
    BY <1>1 DEF TypeOK, ConversationType, Tasks, Taken
  <2>2. ASSUME NEW i \in 1..Len(order) PROVE Taken(order[i]) => Taken(order[i])'
    BY <1>1, <1>2, <2>1 DEF Taken, InNotes, InLeft, Senders
  <2>3. ASSUME NEW i \in 1..Len(order), NEW j \in 1..Len(order)
        PROVE  Taken(order[i]) /\ Taken(order[j]) /\ Behind(order[i], order[j]) => Behind(order[i], order[j])'
    BY <1>1, <1>3, <2>1 DEF Behind
  <2> QED BY <1>1, <2>2, <2>3, OrderKept DEF MsgInv
<1>11. Spares'
  <2>1. \A a \in Actors : at'[a] \in {"cancel"} \union RunHolds => at[a] = at'[a] /\ task'[a] = task[a]
    BY <1>1 DEF RunHolds, Senders
  <2>2. \A a \in Actors : at[a] # "none" => at'[a] # "none" BY <1>1 DEF Senders
  <2> QED BY <2>1, <2>2 DEF MsgInv, Spares
<1> QED BY <1>7, <1>8, <1>9, <1>10, <1>11 DEF MsgInv

\* The order takes one more message, behind all the others.
LEMMA OrderMore ==
    ASSUME TypeOK, InOrder, NEW m \in Msgs, order' = order \o <<m>>, fate[m] = "sent",
           Taken(m)', \A x \in Msgs : Taken(x) /\ x # m => Taken(x)' /\ Behind(x, m)',
           \A x, y \in Msgs : Taken(x) /\ Taken(y) /\ x # m /\ y # m /\ Behind(x, y) => Behind(x, y)'
    PROVE  InOrder'
<1>1. order \in Tasks BY DEF TypeOK, ConversationType
<1>2. /\ Len(order) \in Nat /\ Len(order') = Len(order) + 1 /\ order'[Len(order) + 1] = m
      /\ \A i \in 1..Len(order) : order'[i] = order[i]
  BY <1>1, OneMore
<1>3. \A i \in 1..Len(order') : i = Len(order) + 1 \/ i \in 1..Len(order) BY <1>2
<1>4. \A i \in 1..Len(order) : order[i] \in Msgs /\ Taken(order[i]) /\ order[i] # m
  <2>1. \A i \in 1..Len(order) : order[i] \in Msgs /\ Taken(order[i]) BY <1>1 DEF InOrder, Tasks
  <2>2. ~Taken(m) BY DEF Taken
  <2> QED BY <2>1, <2>2
<1>5. ASSUME NEW i \in 1..Len(order') PROVE Taken(order[i])'
  <2>1. CASE i = Len(order) + 1 BY <1>2, <2>1
  <2>2. CASE i \in 1..Len(order)
    <3>1. PICK x \in Msgs : order[i] = x /\ Taken(x) /\ x # m BY <1>4, <2>2
    <3>2. Taken(x)' /\ order'[i] = x BY <1>2, <2>2, <3>1
    <3> QED BY <3>2
  <2> QED BY <1>3, <2>1, <2>2
<1>6. ASSUME NEW i \in 1..Len(order'), NEW j \in 1..Len(order'), i < j
      PROVE  order'[i] # order'[j] /\ Behind(order[i], order[j])'
  <2>1. i \in 1..Len(order) BY <1>2, <1>3, <1>6
  <2>2. PICK x \in Msgs : order[i] = x /\ Taken(x) /\ x # m /\ order'[i] = x BY <1>2, <1>4, <2>1
  <2>3. CASE j = Len(order) + 1
    <3>1. Behind(x, m)' /\ order'[j] = m BY <1>2, <2>2, <2>3
    <3> QED BY <2>2, <3>1
  <2>4. CASE j \in 1..Len(order)
    <3>1. PICK y \in Msgs : order[j] = y /\ Taken(y) /\ y # m /\ order'[j] = y BY <1>2, <1>4, <2>4
    <3>2. x # y /\ Behind(x, y) BY <1>6, <2>1, <2>2, <2>4, <3>1 DEF InOrder
    <3>3. Behind(x, y)' BY <2>2, <3>1, <3>2
    <3> QED BY <2>2, <3>1, <3>2, <3>3
  <2> QED BY <1>3, <2>3, <2>4
<1> QED BY <1>5, <1>6 DEF InOrder

\* What a step makes of the fate of a message and of its senders, put together.
LEMMA FatedNow ==
    ASSUME NEW n \in Msgs, fate'[n] = "accepted" => Placed(n)', Placed(n)' => fate'[n] \in {"accepted", "sent"},
           \A a \in Actors : Sends(n, a)' => fate'[n] = "sent" /\ ~Placed(n)' /\ Sends(n, a),
           Fated(n)
    PROVE  Fated(n)'
BY DEF Fated

\* A sender's message joins the queue.
LEMMA EnqueueStep ==
    ASSUME TypeOK, MsgInv, NEW h \in Handlers, at[h] \in Senders, NEW p \in {"idle", "drain"},
           queue' = Append(queue, task[h]), order' = order \o task[h], Settle(task[h], "accepted"),
           GotoWith(h, p, <<>>), UNCHANGED <<notes, left, open, target>>
    PROVE  MsgInv'
<1>1. PICK m \in Msgs : task[h] = <<m>> BY DEF MsgInv, Hands
<1>2. /\ at'[h] = p /\ task'[h] = <<>> /\ fate'[m] = "accepted" /\ h \in Actors
      /\ \A a \in Actors : a # h => at'[a] = at[a] /\ task'[a] = task[a]
      /\ \A n \in Msgs : n # m => fate'[n] = fate[n]
  <2>1. \A n \in Msgs : (\E i \in 1..Len(<<m>>) : <<m>>[i] = n) <=> n = m OBVIOUS
  <2> QED BY <1>1, <2>1 DEF TypeOK, PlacesType, CarriedType, GotoWith, Goto, Settle
<1>3. Sends(m, h) /\ fate[m] = "sent" /\ ~Placed(m) BY <1>1, <1>2 DEF Sends, MsgInv, Fated
<1>4. \A n : \A a \in Actors : Carries(n, a)' <=> Carries(n, a) BY <1>2 DEF Carries, Carriers, Senders
<1>5. \A n : IsCarried(n)' <=> IsCarried(n) BY <1>4 DEF IsCarried
<1>6. \A n : Ms(<<m>>) = {m} /\ <<m>> \in Tasks /\ queue \in Seq(Tasks) BY MsFacts DEF TypeOK, ConversationType, Tasks
<1>7. queue' = Append(queue, <<m>>) BY <1>1
<1>8. \A n : InQueue(n)' <=> InQueue(n) \/ n = m BY <1>6, <1>7, QueueAppend DEF InQueue
<1>9. \A n : (InNotes(n)' <=> InNotes(n)) /\ (InLeft(n)' <=> InLeft(n)) BY DEF InNotes, InLeft
<1>10. \A n : Placed(n)' <=> Placed(n) \/ n = m BY <1>5, <1>8, <1>9 DEF Placed
<1>11. \A n : \A a \in Actors : Sends(n, a)' => Sends(n, a) /\ a # h BY <1>2 DEF Sends, Senders
<1>12. ASSUME NEW n \in Msgs PROVE Once(n)' /\ Apart(n)' /\ Fated(n)'
  <2>1. Once(n) /\ Apart(n) /\ Fated(n) BY DEF MsgInv
  <2>2. n = m => ~InQueue(n) /\ ~InNotes(n) /\ ~InLeft(n) /\ ~IsCarried(n) BY <1>3 DEF Placed
  <2>3. OnceIn(queue, n)'
    <3>1. OnceIn(queue, n) /\ (n \notin Ms(<<m>>) \/ ~In(queue, n)) BY <1>6, <2>1, <2>2 DEF Once, InQueue
    <3> QED BY <1>6, <1>7, <3>1, QueueAppend
  <2>4. Once(n)' BY <1>4, <2>1, <2>3 DEF Once
  <2>5. Apart(n)' BY <1>5, <1>8, <1>9, <2>1, <2>2 DEF Apart
  <2>6. \A a \in Actors : Sends(n, a)' => n # m BY <1>3, <1>11 DEF MsgInv, Fated
  <2>7. Fated(n)'
    <3>1. fate'[n] = "accepted" => Placed(n)' BY <1>2, <1>10, <2>1 DEF Fated
    <3>2. Placed(n)' => fate'[n] \in {"accepted", "sent"} BY <1>2, <1>10, <2>1 DEF Fated
    <3>3. \A a \in Actors : Sends(n, a)' => fate'[n] = "sent" /\ ~Placed(n)' /\ Sends(n, a)
      BY <1>2, <1>10, <1>11, <2>1, <2>6 DEF Fated
    <3> QED BY <2>1, <3>1, <3>2, <3>3, FatedNow
  <2> QED BY <2>4, <2>5, <2>7
<1>13. Hands'
  <2>1. Ms(<<>>) = {} BY MsFacts
  <2>2. \A a \in Actors : Ms(task[a]) \subseteq Msgs BY MsFacts DEF TypeOK, CarriedType
  <2> QED BY <1>2, <2>1, <2>2 DEF MsgInv, Hands, Senders, Carriers
<1>14. InboxOfTurn' BY <1>2 DEF MsgInv, InboxOfTurn
<1>15. InOrder'
  <2>1. Taken(m)' BY <1>2, <1>3, <1>4, <1>9 DEF Taken, Placed, IsCarried
  <2>2. ASSUME NEW x \in Msgs, Taken(x), x # m PROVE Taken(x)' /\ Behind(x, m)'
    <3>1. Taken(x)' BY <1>2, <1>4, <1>9, <2>2 DEF Taken, Senders
    <3>2. Before(queue, x, m)'
      <4>1. ~In(queue, m) /\ x \notin Ms(<<m>>) BY <1>3, <1>6, <2>2 DEF Placed, InQueue
      <4> QED BY <1>6, <1>7, <4>1, QueueAppend
    <3>3. ~IsCarried(m)' /\ fate'[m] # "started" BY <1>2, <1>3, <1>5 DEF Placed
    <3> QED BY <3>1, <3>2, <3>3 DEF Behind
  <2>3. ASSUME NEW x \in Msgs, NEW y \in Msgs, x # m, y # m, Behind(x, y) PROVE Behind(x, y)'
    <3>1. Before(queue, x, y)'
      <4>1. x \notin Ms(<<m>>) /\ Before(queue, x, y) BY <1>6, <2>3 DEF Behind
      <4> QED BY <1>6, <1>7, <4>1, QueueAppend
    <3> QED BY <1>2, <1>5, <2>3, <3>1 DEF Behind
  <2>4. order' = order \o <<m>> /\ InOrder BY <1>1 DEF MsgInv
  <2>5. \A x \in Msgs : Taken(x) /\ x # m => Taken(x)' /\ Behind(x, m)' BY <2>2
  <2>6. \A x, y \in Msgs : Taken(x) /\ Taken(y) /\ x # m /\ y # m /\ Behind(x, y) => Behind(x, y)' BY <2>3
  <2>7. fate[m] = "sent" /\ m \in Msgs BY <1>3
  <2> QED BY <2>1, <2>4, <2>5, <2>6, <2>7, OrderMore
<1>16. Spares'
  <2>1. \A a \in Actors : at'[a] \in {"cancel"} \union RunHolds => at[a] = at'[a] /\ task'[a] = task[a]
    BY <1>2 DEF RunHolds
  <2>2. \A a \in Actors : at[a] # "none" => at'[a] # "none" BY <1>2
  <2> QED BY <2>1, <2>2 DEF MsgInv, Spares
<1> QED BY <1>12, <1>13, <1>14, <1>15, <1>16 DEF MsgInv

\* A sender's message is started at once: nothing waits in the queue and nobody else launches.
LEMMA StartStep ==
    ASSUME TypeOK, SlotInv, MsgInv, NEW h \in Handlers, at[h] \in Senders, ~running,
           at' = [at EXCEPT ![h] = "launch"], task' = task,
           \/ UNCHANGED <<fate, order>>
           \/ queue = <<>> /\ order' = order \o task[h] /\ Settle(task[h], "accepted"),
           UNCHANGED <<queue, notes, left, open, target>>
    PROVE  MsgInv'
<1>1. PICK m \in Msgs : task[h] = <<m>> BY DEF MsgInv, Hands
<1>2. /\ at'[h] = "launch" /\ h \in Actors /\ task'[h] = <<m>>
      /\ \A a \in Actors : a # h => at'[a] = at[a]
      /\ \A n \in Msgs : n # m => fate'[n] = fate[n]
      /\ \/ fate'[m] = fate[m] /\ order' = order
         \/ fate'[m] = "accepted" /\ queue = <<>> /\ order' = order \o <<m>>
  <2>1. \A n \in Msgs : (\E i \in 1..Len(<<m>>) : <<m>>[i] = n) <=> n = m OBVIOUS
  <2> QED BY <1>1, <2>1 DEF TypeOK, PlacesType, ConversationType, Settle
<1>3. Sends(m, h) /\ fate[m] = "sent" /\ ~Placed(m) BY <1>1, <1>2 DEF Sends, MsgInv, Fated
<1>4. \A a \in Actors : at[a] # "launch"
  BY DEF SlotInv, SlotHasOneHolder, Holds, Holding
<1>5. Ms(<<m>>) = {m} BY MsFacts
<1>6. \A n : \A a \in Actors : Carries(n, a)' <=> Carries(n, a) \/ (a = h /\ n = m)
  BY <1>1, <1>2, <1>5 DEF Carries, Carriers, Senders
<1>7. \A n : IsCarried(n)' <=> IsCarried(n) \/ n = m BY <1>2, <1>6 DEF IsCarried
<1>8. \A n : Placed(n)' <=> Placed(n) \/ n = m BY <1>7 DEF Placed, InQueue, InNotes, InLeft
<1>9. \A n : \A a \in Actors : Sends(n, a)' => Sends(n, a) /\ a # h BY <1>2 DEF Sends, Senders
<1>10. ASSUME NEW n \in Msgs PROVE Once(n)' /\ Apart(n)' /\ Fated(n)'
  <2>1. Once(n) /\ Apart(n) /\ Fated(n) BY DEF MsgInv
  <2>2. n = m => ~InQueue(n) /\ ~InNotes(n) /\ ~InLeft(n) /\ ~IsCarried(n) BY <1>3 DEF Placed
  <2>3. \A a, b \in Actors : Carries(n, a)' /\ Carries(n, b)' => a = b BY <1>6, <2>1, <2>2 DEF Once, IsCarried
  <2>4. Once(n)' BY <2>1, <2>3 DEF Once
  <2>5. Apart(n)' BY <1>7, <2>1, <2>2 DEF Apart, InQueue, InNotes, InLeft
  <2>6. \A a \in Actors : Sends(n, a)' => n # m BY <1>3, <1>9 DEF MsgInv, Fated
  <2>7. Fated(n)'
    <3>1. fate'[n] = "accepted" => Placed(n)' BY <1>2, <1>3, <1>8, <2>1 DEF Fated
    <3>2. Placed(n)' => fate'[n] \in {"accepted", "sent"} BY <1>2, <1>3, <1>8, <2>1 DEF Fated
    <3>3. \A a \in Actors : Sends(n, a)' => fate'[n] = "sent" /\ ~Placed(n)' /\ Sends(n, a)
      BY <1>2, <1>8, <1>9, <2>1, <2>6 DEF Fated
    <3> QED BY <2>1, <3>1, <3>2, <3>3, FatedNow
  <2> QED BY <2>4, <2>5, <2>7
<1>11. Hands'
  <2>1. \A a \in Actors : Ms(task[a]) \subseteq Msgs BY MsFacts DEF TypeOK, CarriedType
  <2> QED BY <1>2, <1>3, <2>1 DEF MsgInv, Hands, Senders, Carriers
<1>12. InboxOfTurn' BY <1>2 DEF MsgInv, InboxOfTurn
<1>13. ASSUME NEW x \in Msgs, Taken(x), x # m PROVE Taken(x)'
  BY <1>2, <1>6, <1>13 DEF Taken, InNotes, InLeft
<1>14. ASSUME NEW x \in Msgs, NEW y \in Msgs, x # m, y # m, Behind(x, y) PROVE Behind(x, y)'
  BY <1>2, <1>7, <1>14 DEF Behind
<1>15. InOrder'
  <2>1. CASE order' = order
    <3>1. \A i \in 1..Len(order) : Taken(order[i]) => order[i] \in Msgs /\ order[i] # m
      BY <1>3 DEF TypeOK, ConversationType, Tasks, Taken
    <3>2. ASSUME NEW i \in 1..Len(order) PROVE Taken(order[i]) => Taken(order[i])'
      BY <1>2, <1>6, <2>1, <3>1 DEF Taken, InNotes, InLeft
    <3>3. ASSUME NEW i \in 1..Len(order), NEW j \in 1..Len(order)
          PROVE  Taken(order[i]) /\ Taken(order[j]) /\ Behind(order[i], order[j]) => Behind(order[i], order[j])'
      BY <1>2, <1>7, <2>1, <3>1 DEF Behind
    <3> QED BY <2>1, <3>2, <3>3, OrderKept DEF MsgInv
  <2>2. CASE fate'[m] = "accepted" /\ queue = <<>> /\ order' = order \o <<m>>
    <3>1. Taken(m)'
      <4>1. \A a \in Actors : Carries(m, a)' => a = h BY <1>3, <1>6 DEF Placed, IsCarried
      <4> QED BY <1>2, <1>3, <2>2, <4>1 DEF Taken, Placed, InNotes, InLeft
    <3>2. ASSUME NEW x \in Msgs, Taken(x), x # m PROVE Behind(x, m)'
      <4>1. ~InQueue(x) BY <2>2, MsFacts DEF InQueue
      <4>2. ~IsCarried(x) BY <1>4, <3>2 DEF Taken, IsCarried
      <4>3. fate[x] # "accepted" BY <3>2, <4>1, <4>2 DEF MsgInv, Fated, Placed, Taken
      <4>4. fate'[x] \in {"started", "dropped"} BY <1>2, <3>2, <4>3 DEF Taken
      <4>5. Before(queue, x, m)' BY <4>1, <2>2 DEF Before
      <4> QED BY <4>4, <4>5 DEF Behind
    <3> QED BY <1>3, <1>13, <1>14, <2>2, <3>1, <3>2, OrderMore DEF MsgInv
  <2> QED BY <1>2, <2>1, <2>2
<1>16. Spares'
  <2>1. \A a \in Actors : at'[a] \in {"cancel"} \union RunHolds => at[a] = at'[a] /\ task'[a] = task[a]
    BY <1>2 DEF RunHolds
  <2>2. \A a \in Actors : at[a] # "none" => at'[a] # "none" BY <1>2
  <2> QED BY <2>1, <2>2 DEF MsgInv, Spares
<1> QED BY <1>10, <1>11, <1>12, <1>15, <1>16 DEF MsgInv

\* A sender goes from one place to the next, or is refused.
LEMMA PassOnStep ==
    ASSUME TypeOK, MsgInv, NEW h \in Handlers, at[h] \in Senders,
           \/ \E p \in Senders : Goto(h, p) /\ UNCHANGED <<task, fate>>
           \/ GotoWith(h, "idle", <<>>) /\ Settle(task[h], "refused"),
           UNCHANGED <<queue, notes, left, open, target, order>>
    PROVE  MsgInv'
<1>1. PICK m \in Msgs : task[h] = <<m>> BY DEF MsgInv, Hands
<1>2. /\ h \in Actors /\ order' = order
      /\ \A a \in Actors : a # h => at'[a] = at[a] /\ task'[a] = task[a]
      /\ \A n \in Msgs : n # m => fate'[n] = fate[n]
      /\ \/ at'[h] \in Senders /\ task'[h] = task[h] /\ fate'[m] = fate[m]
         \/ at'[h] = "idle" /\ task'[h] = <<>> /\ fate'[m] = "refused"
  <2>1. \A n \in Msgs : (\E i \in 1..Len(<<m>>) : <<m>>[i] = n) <=> n = m OBVIOUS
  <2> QED BY <1>1, <2>1 DEF TypeOK, PlacesType, CarriedType, GotoWith, Goto, Settle
<1>3. Sends(m, h) /\ fate[m] = "sent" /\ ~Placed(m) BY <1>1, <1>2 DEF Sends, MsgInv, Fated
<1>4. \A n : \A a \in Actors : Carries(n, a)' <=> Carries(n, a) BY <1>2 DEF Carries, Carriers, Senders
<1>5. \A n : IsCarried(n)' <=> IsCarried(n) BY <1>4 DEF IsCarried
<1>6. \A n : Placed(n)' <=> Placed(n) BY <1>5 DEF Placed, InQueue, InNotes, InLeft
<1>7. \A n : \A a \in Actors : Sends(n, a)' => Sends(n, a) /\ (a = h => fate'[m] = fate[m])
  BY <1>2 DEF Sends, Senders
<1>8. ASSUME NEW n \in Msgs PROVE Once(n)' /\ Apart(n)' /\ Fated(n)'
  <2>1. Once(n) /\ Apart(n) /\ Fated(n) BY DEF MsgInv
  <2>2. Once(n)' BY <1>4, <2>1 DEF Once
  <2>3. Apart(n)' BY <1>5, <2>1 DEF Apart, InQueue, InNotes, InLeft
  <2>4. Fated(n)'
    <3>1. fate'[n] = "accepted" => Placed(n)' BY <1>2, <1>3, <1>6, <2>1 DEF Fated
    <3>2. Placed(n)' => fate'[n] \in {"accepted", "sent"} BY <1>2, <1>3, <1>6, <2>1 DEF Fated
    <3>3. \A a \in Actors : Sends(n, a)' => fate'[n] = "sent" /\ ~Placed(n)' /\ Sends(n, a)
      <4>1. ASSUME NEW a \in Actors, Sends(n, a)', n = m PROVE a = h BY <1>2, <1>3, <1>7, <2>1, <4>1 DEF Fated
      <4> QED BY <1>2, <1>3, <1>6, <1>7, <2>1, <4>1 DEF Fated
    <3> QED BY <2>1, <3>1, <3>2, <3>3, FatedNow
  <2> QED BY <2>2, <2>3, <2>4
<1>9. Hands'
  <2>1. \A a \in Actors : Ms(task[a]) \subseteq Msgs BY MsFacts DEF TypeOK, CarriedType
  <2>2. Ms(<<>>) = {} BY MsFacts
  <2>3. \A n \in Msgs : fate[n] # "new" => fate'[n] # "new" BY <1>2
  <2>4. \A a \in Actors : Ms(task'[a]) \subseteq Ms(task[a]) BY <1>2, <2>2
  <2>5. \A a \in Actors : \A n \in Ms(task'[a]) : fate'[n] # "new" BY <2>1, <2>3, <2>4 DEF MsgInv, Hands
  <2> QED BY <1>1, <1>2, <2>5 DEF MsgInv, Hands, Senders, Carriers
<1>10. InboxOfTurn' BY <1>2 DEF MsgInv, InboxOfTurn, Senders
<1>11. InOrder'
  <2>1. \A i \in 1..Len(order) : Taken(order[i]) => order[i] \in Msgs /\ order[i] # m
    BY <1>3 DEF TypeOK, ConversationType, Tasks, Taken
  <2>2. ASSUME NEW i \in 1..Len(order) PROVE Taken(order[i]) => Taken(order[i])'
    BY <1>2, <1>4, <2>1 DEF Taken, InNotes, InLeft, Senders
  <2>3. ASSUME NEW i \in 1..Len(order), NEW j \in 1..Len(order)
        PROVE  Taken(order[i]) /\ Taken(order[j]) /\ Behind(order[i], order[j]) => Behind(order[i], order[j])'
    BY <1>2, <1>5, <2>1 DEF Behind
  <2> QED BY <1>2, <2>2, <2>3, OrderKept DEF MsgInv
<1>12. Spares'
  <2>1. \A a \in Actors : at'[a] \in {"cancel"} \union RunHolds => at[a] = at'[a] /\ task'[a] = task[a]
    BY <1>2 DEF Senders, RunHolds
  <2>2. \A a \in Actors : at[a] # "none" => at'[a] # "none" BY <1>2 DEF Senders
  <2> QED BY <2>1, <2>2 DEF MsgInv, Spares
<1> QED BY <1>8, <1>9, <1>10, <1>11, <1>12 DEF MsgInv

\* A message steered into a turn that reads its inbox.
LEMMA PushStep ==
    ASSUME TypeOK, MsgInv, NEW h \in Handlers, at[h] \in Senders, open,
           notes' = notes \o task[h], Settle(task[h], "accepted"), GotoWith(h, "idle", <<>>),
           UNCHANGED <<queue, left, open, target, order>>
    PROVE  MsgInv'
<1>1. PICK m \in Msgs : task[h] = <<m>> BY DEF MsgInv, Hands
<1>2. /\ at'[h] = "idle" /\ task'[h] = <<>> /\ fate'[m] = "accepted" /\ h \in Actors /\ order' = order
      /\ \A a \in Actors : a # h => at'[a] = at[a] /\ task'[a] = task[a]
      /\ \A n \in Msgs : n # m => fate'[n] = fate[n]
  <2>1. \A n \in Msgs : (\E i \in 1..Len(<<m>>) : <<m>>[i] = n) <=> n = m OBVIOUS
  <2> QED BY <1>1, <2>1 DEF TypeOK, PlacesType, CarriedType, GotoWith, Goto, Settle
<1>3. Sends(m, h) /\ fate[m] = "sent" /\ ~Placed(m) BY <1>1, <1>2 DEF Sends, MsgInv, Fated
<1>4. \A n : \A a \in Actors : Carries(n, a)' <=> Carries(n, a) BY <1>2 DEF Carries, Carriers, Senders
<1>5. \A n : IsCarried(n)' <=> IsCarried(n) BY <1>4 DEF IsCarried
<1>6. Ms(<<m>>) = {m} /\ <<m>> \in Tasks /\ notes \in Tasks /\ notes' = notes \o <<m>> /\ (\A n : Single(<<m>>, n))
  <2>1. Len(<<m>>) = 1 /\ <<m>>[1] = m OBVIOUS
  <2> QED BY <1>1, <2>1, MsFacts DEF TypeOK, ConversationType, Tasks, Single
<1>7. \A n : InNotes(n)' <=> InNotes(n) \/ n = m BY <1>6, MsConcat DEF InNotes
<1>8. \A n : (InQueue(n)' <=> InQueue(n)) /\ (InLeft(n)' <=> InLeft(n)) BY DEF InQueue, InLeft
<1>9. \A n : Placed(n)' <=> Placed(n) \/ n = m BY <1>5, <1>7, <1>8 DEF Placed
<1>10. \A n : \A a \in Actors : Sends(n, a)' => Sends(n, a) /\ a # h BY <1>2 DEF Sends, Senders
<1>11. ASSUME NEW n \in Msgs PROVE Once(n)' /\ Apart(n)' /\ Fated(n)'
  <2>1. Once(n) /\ Apart(n) /\ Fated(n) BY DEF MsgInv
  <2>2. n = m => ~InQueue(n) /\ ~InNotes(n) /\ ~InLeft(n) /\ ~IsCarried(n) BY <1>3 DEF Placed
  <2>3. Single(notes, n)'
    <3>1. Single(notes, n) /\ Single(<<m>>, n) /\ ~(n \in Ms(notes) /\ n \in Ms(<<m>>))
      BY <1>6, <2>1, <2>2 DEF Once, InNotes
    <3> QED BY <1>6, <3>1, MsConcat
  <2>4. Once(n)' BY <1>4, <2>1, <2>3 DEF Once
  <2>5. Apart(n)' BY <1>5, <1>7, <1>8, <2>1, <2>2 DEF Apart
  <2>6. \A a \in Actors : Sends(n, a)' => n # m BY <1>3, <1>10 DEF MsgInv, Fated
  <2>7. Fated(n)'
    <3>1. fate'[n] = "accepted" => Placed(n)' BY <1>2, <1>9, <2>1 DEF Fated
    <3>2. Placed(n)' => fate'[n] \in {"accepted", "sent"} BY <1>2, <1>9, <2>1 DEF Fated
    <3>3. \A a \in Actors : Sends(n, a)' => fate'[n] = "sent" /\ ~Placed(n)' /\ Sends(n, a)
      BY <1>2, <1>9, <1>10, <2>1, <2>6 DEF Fated
    <3> QED BY <2>1, <3>1, <3>2, <3>3, FatedNow
  <2> QED BY <2>4, <2>5, <2>7
<1>12. Hands'
  <2>1. Ms(<<>>) = {} BY MsFacts
  <2>2. \A a \in Actors : Ms(task[a]) \subseteq Msgs BY MsFacts DEF TypeOK, CarriedType
  <2> QED BY <1>2, <2>1, <2>2 DEF MsgInv, Hands, Senders, Carriers
<1>13. InboxOfTurn' BY <1>2 DEF MsgInv, InboxOfTurn, Senders
<1>14. InOrder'
  <2>1. \A i \in 1..Len(order) : Taken(order[i]) => order[i] \in Msgs /\ order[i] # m
    BY <1>3 DEF TypeOK, ConversationType, Tasks, Taken
  <2>2. ASSUME NEW i \in 1..Len(order) PROVE Taken(order[i]) => Taken(order[i])'
    <3> SUFFICES ASSUME Taken(order[i]) PROVE Taken(order[i])' OBVIOUS
    <3>1. PICK x \in Msgs : order[i] = x /\ x # m BY <2>1
    <3>2. Taken(x)' BY <1>2, <1>4, <1>7, <1>8, <3>1 DEF Taken, Senders
    <3> QED BY <1>2, <3>1, <3>2
  <2>3. ASSUME NEW i \in 1..Len(order), NEW j \in 1..Len(order)
        PROVE  Taken(order[i]) /\ Taken(order[j]) /\ Behind(order[i], order[j]) => Behind(order[i], order[j])'
    BY <1>2, <1>5, <2>1 DEF Behind
  <2> QED BY <1>2, <2>2, <2>3, OrderKept DEF MsgInv
<1>15. Spares'
  <2>1. \A a \in Actors : at'[a] \in {"cancel"} \union RunHolds => at[a] = at'[a] /\ task'[a] = task[a]
    BY <1>2 DEF RunHolds
  <2>2. \A a \in Actors : at[a] # "none" => at'[a] # "none" BY <1>2
  <2> QED BY <2>1, <2>2 DEF MsgInv, Spares
<1> QED BY <1>11, <1>12, <1>13, <1>14, <1>15 DEF MsgInv

\* An interruption puts its message first, and will cancel the run it found.
LEMMA InterruptStep ==
    ASSUME TypeOK, SlotInv, MsgInv, NEW h \in Handlers, NEW m \in Msgs, Interrupt(h, m)
    PROVE  MsgInv'
<1>1. Ms(<<m>>) = {m} /\ <<m>> \in Tasks /\ queue \in Seq(Tasks) /\ queue' = <<<<m>>>> \o queue
  BY MsFacts DEF TypeOK, ConversationType, Tasks, Interrupt
<1>2. /\ at[h] = "idle" /\ fate[m] = "new" /\ at'[h] = "cancel" /\ task'[h] = <<m>> /\ fate'[m] = "accepted"
      /\ target'[h] = current /\ h \in Actors /\ order' = order /\ notes' = notes /\ left' = left /\ open' = open
      /\ \A a \in Actors : a # h => at'[a] = at[a] /\ task'[a] = task[a] /\ target'[a] = target[a]
      /\ \A n \in Msgs : n # m => fate'[n] = fate[n]
  <2>1. \A n \in Msgs : (\E i \in 1..Len(<<m>>) : <<m>>[i] = n) <=> n = m OBVIOUS
  <2> QED BY <2>1 DEF TypeOK, PlacesType, CarriedType, Interrupt, Arrives, GotoWith, Goto, Settle, inbox
<1>3. ~Placed(m) /\ \A a \in Actors : ~Sends(m, a) BY <1>2 DEF MsgInv, Fated
<1>4. \A n : \A a \in Actors : Carries(n, a)' <=> Carries(n, a) BY <1>2 DEF Carries, Carriers
<1>5. \A n : IsCarried(n)' <=> IsCarried(n) BY <1>4 DEF IsCarried
<1>6. \A n : InQueue(n)' <=> InQueue(n) \/ n = m BY <1>1, QueuePrepend DEF InQueue
<1>7. \A n : (InNotes(n)' <=> InNotes(n)) /\ (InLeft(n)' <=> InLeft(n)) BY <1>2 DEF InNotes, InLeft
<1>8. \A n : Placed(n)' <=> Placed(n) \/ n = m BY <1>5, <1>6, <1>7 DEF Placed
<1>9. \A n : \A a \in Actors : Sends(n, a)' => Sends(n, a) BY <1>2 DEF Sends, Senders
<1>10. ASSUME NEW n \in Msgs PROVE Once(n)' /\ Apart(n)' /\ Fated(n)'
  <2>1. Once(n) /\ Apart(n) /\ Fated(n) BY DEF MsgInv
  <2>2. n = m => ~InQueue(n) /\ ~InNotes(n) /\ ~InLeft(n) /\ ~IsCarried(n) BY <1>3 DEF Placed
  <2>3. OnceIn(queue, n)'
    <3>1. OnceIn(queue, n) /\ (n \notin Ms(<<m>>) \/ ~In(queue, n)) BY <1>1, <2>1, <2>2 DEF Once, InQueue
    <3> QED BY <1>1, <3>1, QueuePrepend
  <2>4. Once(n)' BY <1>2, <1>4, <2>1, <2>3 DEF Once
  <2>5. Apart(n)' BY <1>5, <1>6, <1>7, <2>1, <2>2 DEF Apart
  <2>6. \A a \in Actors : Sends(n, a)' => n # m BY <1>3, <1>9
  <2>7. Fated(n)'
    <3>1. fate'[n] = "accepted" => Placed(n)' BY <1>2, <1>8, <2>1 DEF Fated
    <3>2. Placed(n)' => fate'[n] \in {"accepted", "sent"} BY <1>2, <1>8, <2>1 DEF Fated
    <3>3. \A a \in Actors : Sends(n, a)' => fate'[n] = "sent" /\ ~Placed(n)' /\ Sends(n, a)
      BY <1>2, <1>8, <1>9, <2>1, <2>6 DEF Fated
    <3> QED BY <2>1, <3>1, <3>2, <3>3, FatedNow
  <2> QED BY <2>4, <2>5, <2>7
<1>11. \A a \in Actors : m \notin Ms(task[a]) BY <1>2 DEF MsgInv, Hands
<1>12. Hands'
  <2>1. \A a \in Actors : Ms(task[a]) \subseteq Msgs BY MsFacts DEF TypeOK, CarriedType
  <2>2. ASSUME NEW a \in Actors, NEW n \in Ms(task'[a]) PROVE fate'[n] # "new"
    <3>1. CASE a = h BY <1>1, <1>2, <2>2, <3>1
    <3>2. CASE a # h
      <4>1. n \in Msgs /\ fate[n] # "new" BY <1>2, <2>1, <2>2, <3>2 DEF MsgInv, Hands
      <4> QED BY <1>2, <4>1
    <3> QED BY <3>1, <3>2
  <2>3. \A a \in Actors : at'[a] \in Senders => \E n \in Msgs : task'[a] = <<n>>
    BY <1>2 DEF MsgInv, Hands, Senders
  <2>4. \A a \in Handlers : at'[a] \notin Senders \union Carriers \union {"cancel"} => task'[a] = <<>>
    BY <1>2 DEF MsgInv, Hands, Senders, Carriers
  <2> QED BY <2>2, <2>3, <2>4 DEF Hands
<1>13. InboxOfTurn' BY <1>2 DEF MsgInv, InboxOfTurn
<1>14. InOrder'
  <2>1. \A i \in 1..Len(order) : Taken(order[i]) => order[i] \in Msgs /\ order[i] # m
    BY <1>2 DEF TypeOK, ConversationType, Tasks, Taken
  <2>2. ASSUME NEW i \in 1..Len(order) PROVE Taken(order[i]) => Taken(order[i])'
    <3> SUFFICES ASSUME Taken(order[i]) PROVE Taken(order[i])' OBVIOUS
    <3>1. PICK x \in Msgs : order[i] = x /\ x # m BY <2>1
    <3>2. Taken(x)' BY <1>2, <1>4, <1>7, <3>1 DEF Taken, Carries, Carriers
    <3> QED BY <1>2, <3>1, <3>2
  <2>3. ASSUME NEW i \in 1..Len(order), NEW j \in 1..Len(order),
               Taken(order[i]), Taken(order[j]), Behind(order[i], order[j])
        PROVE  Behind(order[i], order[j])'
    <3>1. PICK x \in Msgs : order[i] = x /\ x # m BY <2>1, <2>3
    <3>2. PICK y \in Msgs : order[j] = y /\ y # m BY <2>1, <2>3
    <3>3. Before(queue, x, y)'
      <4>1. Before(queue, x, y) /\ x \notin Ms(<<m>>) /\ y \notin Ms(<<m>>) BY <1>1, <2>3, <3>1, <3>2 DEF Behind
      <4> QED BY <1>1, <4>1, QueuePrepend
    <3>4. Behind(x, y)' BY <1>2, <1>5, <2>3, <3>1, <3>2, <3>3 DEF Behind
    <3> QED BY <1>2, <3>1, <3>2, <3>4
  <2> QED BY <1>2, <2>2, <2>3, OrderKept DEF MsgInv
<1>15. Spares'
  <2>1. current \in Runs => at[current] \in RunHolds /\ current # h
    BY DEF SlotInv, LiveRunIsTheHolder
  <2>2. current \in Runs \union {NoRun} BY DEF TypeOK, ConversationType
  <2>3. \A a \in Actors : Ms(<<m>>) \intersect Ms(task[a]) = {} BY <1>1, <1>11
  <2> QED BY <1>2, <2>1, <2>2, <2>3 DEF MsgInv, Spares, RunHolds
<1> QED BY <1>10, <1>12, <1>13, <1>14, <1>15 DEF MsgInv

\* A step that leaves every message where it is, whoever moves.
LEMMA SameMessages ==
    ASSUME TypeOK, MsgInv, UNCHANGED <<queue, notes, left, fate, order>>,
           \A a \in Actors : at[a] \in Senders \union Carriers \/ at'[a] \in Senders \union Carriers
                                => at'[a] = at[a] /\ task'[a] = task[a],
           Hands', InboxOfTurn', Spares'
    PROVE  MsgInv'
<1>0. \A n : \A a \in Actors : (Carries(n, a)' <=> Carries(n, a)) /\ (Sends(n, a)' <=> Sends(n, a))
  BY DEF Carries, Sends
<1>1. \A n : IsCarried(n)' <=> IsCarried(n) BY <1>0 DEF IsCarried
<1>2. \A n : Placed(n)' <=> Placed(n) BY <1>1 DEF Placed, InQueue, InNotes, InLeft
<1>3. ASSUME NEW n \in Msgs PROVE Once(n)' /\ Apart(n)' /\ Fated(n)'
  <2>1. Once(n)' BY <1>0, <1>3 DEF MsgInv, Once
  <2>2. Apart(n)' BY <1>1, <1>3 DEF MsgInv, Apart, InQueue, InNotes, InLeft
  <2>3. Fated(n)' BY <1>0, <1>2, <1>3 DEF MsgInv, Fated
  <2> QED BY <2>1, <2>2, <2>3
<1>4. InOrder'
  <2>1. ASSUME NEW i \in 1..Len(order) PROVE Taken(order[i]) => Taken(order[i])'
    BY <1>0, <2>1 DEF Taken, InNotes, InLeft, Carries
  <2>2. ASSUME NEW i \in 1..Len(order), NEW j \in 1..Len(order)
        PROVE  Behind(order[i], order[j]) => Behind(order[i], order[j])'
    BY <1>1, <2>2 DEF Behind
  <2> QED BY <2>1, <2>2, OrderKept DEF MsgInv
<1> QED BY <1>3, <1>4 DEF MsgInv

\* Cancelling: the run is read under the lock and cancelled after it, by a
\* handler that has no message, or had put it in the queue.
LEMMA CancelRunStep ==
    ASSUME TypeOK, SlotInv, MsgInv, NEW h \in Handlers, CancelRun(h)
    PROVE  MsgInv'
<1>1. /\ at[h] = "idle" /\ at'[h] = "cancel" /\ target'[h] = current /\ h \in Actors /\ current # NoRun
      /\ task' = task /\ fate' = fate
      /\ \A a \in Actors : a # h => at'[a] = at[a] /\ target'[a] = target[a]
  BY DEF TypeOK, PlacesType, CarriedType, CancelRun, Arrives, Goto, history
<1>2. task[h] = <<>> BY <1>1 DEF MsgInv, Hands, Senders, Carriers
<1>3. Hands' BY <1>1, <1>2 DEF MsgInv, Hands, Senders, Carriers
<1>4. InboxOfTurn'
  <2>1. UNCHANGED <<open, notes>> BY DEF CancelRun, inbox
  <2> QED BY <1>1, <2>1 DEF MsgInv, InboxOfTurn
<1>5. Spares'
  <2>1. current \in Runs /\ at[current] \in RunHolds
    BY <1>1 DEF SlotInv, LiveRunIsTheHolder, TypeOK, ConversationType
  <2>2. Ms(task[h]) = {} BY <1>2, MsFacts
  <2> QED BY <1>1, <2>1, <2>2 DEF MsgInv, Spares, RunHolds
<1>6. \A a \in Actors : at[a] \in Senders \union Carriers \/ at'[a] \in Senders \union Carriers
                                => at'[a] = at[a] /\ task'[a] = task[a]
  BY <1>1 DEF Senders, Carriers
<1>7. UNCHANGED <<queue, notes, left, fate, order>> BY DEF CancelRun, conv, inbox, history
<1> QED BY <1>3, <1>4, <1>5, <1>6, <1>7, SameMessages

\* ... and the handler that cancelled it has nothing left to do.
LEMMA CancelTargetStep ==
    ASSUME TypeOK, MsgInv, NEW h \in Handlers, CancelTarget(h)
    PROVE  MsgInv'
<1>1. /\ at[h] = "cancel" /\ at'[h] = "idle" /\ h \in Actors /\ task'[h] = <<>> /\ fate' = fate
      /\ \A a \in Actors : a # h => at'[a] = at[a] /\ target'[a] = target[a] /\ task'[a] = task[a]
  BY DEF TypeOK, PlacesType, CarriedType, CancelTarget, GotoWith, Goto, history
<1>2. Ms(<<>>) = {} BY MsFacts
<1>3. Hands'
  <2>1. \A a \in Actors : \A n \in Ms(task'[a]) : fate'[n] # "new" BY <1>1, <1>2 DEF MsgInv, Hands
  <2> QED BY <1>1, <2>1 DEF MsgInv, Hands, Senders, Carriers
<1>4. InboxOfTurn'
  <2>1. UNCHANGED <<open, notes>> BY DEF CancelTarget, inbox
  <2> QED BY <1>1, <2>1 DEF MsgInv, InboxOfTurn
<1>5. Spares' BY <1>1 DEF MsgInv, Spares, RunHolds
<1>6. \A a \in Actors : at[a] \in Senders \union Carriers \/ at'[a] \in Senders \union Carriers
                                => at'[a] = at[a] /\ task'[a] = task[a]
  BY <1>1 DEF Senders, Carriers
<1>7. UNCHANGED <<queue, notes, left, fate, order>> BY DEF CancelTarget, conv, inbox, history
<1> QED BY <1>3, <1>4, <1>5, <1>6, <1>7, SameMessages

\* The goroutine of a run that ended forgets the task it ran and drains.
LEMMA EndRunAgainStep ==
    ASSUME TypeOK, MsgInv, NEW r \in Runs, EndRunAgain(r)
    PROVE  MsgInv'
<1>1. /\ at[r] = "net" /\ at'[r] = "drain" /\ r \in Actors /\ r \notin Handlers /\ task'[r] = <<>> /\ fate' = fate
      /\ target' = target
      /\ \A a \in Actors : a # r => at'[a] = at[a] /\ task'[a] = task[a]
  BY DEF TypeOK, PlacesType, CarriedType, EndRunAgain, GotoWith, Goto, history
<1>2. Ms(<<>>) = {} BY MsFacts
<1>3. Hands'
  <2>1. \A a \in Actors : \A n \in Ms(task'[a]) : fate'[n] # "new" BY <1>1, <1>2 DEF MsgInv, Hands
  <2> QED BY <1>1, <2>1 DEF MsgInv, Hands, Senders, Carriers
<1>4. InboxOfTurn'
  <2>1. UNCHANGED <<open, notes>> BY DEF EndRunAgain, inbox
  <2> QED BY <1>1, <2>1 DEF MsgInv, InboxOfTurn
<1>5. Spares'
  <2>1. \A a \in Actors : at'[a] \in {"cancel"} \union RunHolds => a # r BY <1>1 DEF RunHolds
  <2>2. \A a \in Actors : at[a] # "none" => at'[a] # "none" BY <1>1
  <2> QED BY <1>1, <2>1, <2>2 DEF MsgInv, Spares
<1>6. \A a \in Actors : at[a] \in Senders \union Carriers \/ at'[a] \in Senders \union Carriers
                                => at'[a] = at[a] /\ task'[a] = task[a]
  BY <1>1 DEF Senders, Carriers
<1>7. UNCHANGED <<queue, notes, left, fate, order>> BY DEF EndRunAgain, inbox, history
<1> QED BY <1>3, <1>4, <1>5, <1>6, <1>7, SameMessages

\* A turn begins: the inbox was empty, since no other turn reads it.
LEMMA BeginTurnStep ==
    ASSUME TypeOK, SlotInv, MsgInv, NEW r \in Runs, BeginTurn(r)
    PROVE  MsgInv'
<1>1. /\ at[r] = "turn" /\ at'[r] = "reading" /\ r \in Actors /\ r \notin Handlers /\ task' = task /\ fate' = fate
      /\ target' = target /\ open' = TRUE /\ notes' = <<>>
      /\ \A a \in Actors : a # r => at'[a] = at[a]
  BY DEF TypeOK, PlacesType, CarriedType, BeginTurn, Goto, history
<1>2. \A a \in Runs : at[a] # "reading"
  <2>1. \A a \in Actors : at[a] \in RunHolds => a = r
    BY <1>1 DEF SlotInv, SlotHasOneHolder, Holds, Holding, RunHolds
  <2> QED BY <1>1, <2>1 DEF RunHolds
<1>3. notes = <<>> BY <1>2 DEF MsgInv, InboxOfTurn, TypeOK, ConversationType
<1>4. Hands' BY <1>1 DEF MsgInv, Hands, Senders, Carriers
<1>5. InboxOfTurn' BY <1>1 DEF InboxOfTurn
<1>6. Spares'
  <2>1. \A a \in Actors : (at'[a] \in RunHolds <=> at[a] \in RunHolds) /\ (at'[a] = "cancel" <=> at[a] = "cancel")
    BY <1>1 DEF RunHolds
  <2>2. \A a \in Actors : at[a] # "none" => at'[a] # "none" BY <1>1
  <2> QED BY <1>1, <2>1, <2>2 DEF MsgInv, Spares
<1>7. \A a \in Actors : at[a] \in Senders \union Carriers \/ at'[a] \in Senders \union Carriers
                                => at'[a] = at[a] /\ task'[a] = task[a]
  BY <1>1 DEF Senders, Carriers
<1>8. UNCHANGED <<queue, notes, left, fate, order>> BY <1>1, <1>3 DEF BeginTurn, conv, history
<1> QED BY <1>4, <1>5, <1>6, <1>7, <1>8, SameMessages

\* What the turns left unread leaves the inbox with the goroutine that drains.
LEMMA TakeUnreadStep ==
    ASSUME TypeOK, MsgInv, NEW a \in Actors, at[a] = "unread", GotoWith(a, "push_unread", left), left' = <<>>,
           UNCHANGED <<queue, notes, open, target, fate, order>>
    PROVE  MsgInv'
<1>1. /\ at'[a] = "push_unread" /\ task'[a] = left /\ fate' = fate
      /\ \A b \in Actors : b # a => at'[b] = at[b] /\ task'[b] = task[b]
  BY DEF TypeOK, PlacesType, CarriedType, GotoWith, Goto
<1>2. \A n : ~InLeft(n)' BY MsFacts DEF InLeft
<1>3. \A n : (InQueue(n)' <=> InQueue(n)) /\ (InNotes(n)' <=> InNotes(n)) BY DEF InQueue, InNotes
<1>4. \A n : \A b \in Actors : Carries(n, b)' <=> IF b = a THEN InLeft(n) ELSE Carries(n, b)
  BY <1>1 DEF Carries, Carriers, InLeft
<1>5. \A n : ~Carries(n, a) BY DEF Carries, Carriers
<1>6. \A n : IsCarried(n)' <=> IsCarried(n) \/ InLeft(n) BY <1>4, <1>5 DEF IsCarried
<1>7. \A n : Placed(n)' <=> Placed(n) BY <1>2, <1>3, <1>6 DEF Placed
<1>8. \A n : \A b \in Actors : Sends(n, b)' => Sends(n, b) BY <1>1 DEF Sends, Senders
<1>9. ASSUME NEW n \in Msgs PROVE Once(n)' /\ Apart(n)' /\ Fated(n)'
  <2>1. Once(n) /\ Apart(n) /\ Fated(n) BY DEF MsgInv
  <2>2. \A b, c \in Actors : Carries(n, b)' /\ Carries(n, c)' => b = c
    BY <1>4, <1>5, <2>1 DEF Once, Apart, IsCarried
  <2>3. Single(left, n)' BY MsFacts
  <2>4. Once(n)' BY <2>1, <2>2, <2>3 DEF Once
  <2>5. Apart(n)' BY <1>2, <1>3, <1>6, <2>1 DEF Apart
  <2>6. Fated(n)' BY <1>1, <1>7, <1>8, <2>1 DEF Fated
  <2> QED BY <2>4, <2>5, <2>6
<1>10. Hands'
  <2>1. \A n \in Ms(left) : n \in Msgs /\ fate[n] \in {"accepted", "sent"}
    <3>1. Ms(left) \subseteq Msgs BY MsFacts DEF TypeOK, ConversationType
    <3> QED BY <3>1 DEF MsgInv, Fated, Placed, InLeft
  <2>2. \A b \in Actors : \A n \in Ms(task'[b]) : fate'[n] # "new" BY <1>1, <2>1 DEF MsgInv, Hands
  <2> QED BY <1>1, <2>2 DEF MsgInv, Hands, Senders, Carriers
<1>11. InboxOfTurn' BY <1>1 DEF MsgInv, InboxOfTurn
<1>12. InOrder'
  <2>1. ASSUME NEW i \in 1..Len(order) PROVE Taken(order[i]) => Taken(order[i])'
    BY <1>1, <1>2, <1>3, <1>4, <2>1 DEF Taken
  <2>2. ASSUME NEW i \in 1..Len(order), NEW j \in 1..Len(order)
        PROVE  Taken(order[i]) /\ Taken(order[j]) /\ Behind(order[i], order[j]) => Behind(order[i], order[j])'
    BY <1>6, <2>2 DEF Behind, Taken
  <2> QED BY <2>1, <2>2, OrderKept DEF MsgInv
<1>13. Spares'
  <2>1. \A b \in Actors : at'[b] \in {"cancel"} \union RunHolds => b # a BY <1>1 DEF RunHolds
  <2>2. \A b \in Actors : at[b] # "none" => at'[b] # "none" BY <1>1
  <2> QED BY <1>1, <2>1, <2>2 DEF MsgInv, Spares
<1> QED BY <1>9, <1>10, <1>11, <1>12, <1>13 DEF MsgInv

\* ... and joins the queue, last, as one task.
LEMMA PushUnreadStep ==
    ASSUME TypeOK, MsgInv, NEW a \in Actors, PushUnread(a)
    PROVE  MsgInv'
<1>1. /\ at[a] = "push_unread" /\ at'[a] = "take_queued" /\ task'[a] = <<>> /\ fate' = fate /\ order' = order
      /\ notes' = notes /\ left' = left /\ open' = open /\ target' = target
      /\ \A b \in Actors : b # a => at'[b] = at[b] /\ task'[b] = task[b]
  BY DEF TypeOK, PlacesType, CarriedType, PushUnread, GotoWith, Goto, inbox, history
<1>2. /\ queue \in Seq(Tasks) /\ task[a] \in Tasks /\ queue' = Append(queue, task[a])
      /\ Ms(task[a]) \subseteq Msgs
  BY MsFacts DEF TypeOK, ConversationType, CarriedType, PushUnread
<1>3. \A n : Carries(n, a) <=> n \in Ms(task[a]) BY <1>1 DEF Carries, Carriers
<1>4. \A n : InQueue(n)' <=> InQueue(n) \/ Carries(n, a) BY <1>2, <1>3, QueueAppend DEF InQueue
<1>5. \A n : (InNotes(n)' <=> InNotes(n)) /\ (InLeft(n)' <=> InLeft(n)) BY <1>1 DEF InNotes, InLeft
<1>6. \A n : \A b \in Actors : Carries(n, b)' <=> Carries(n, b) /\ b # a BY <1>1 DEF Carries, Carriers
<1>7. \A n : IsCarried(n)' => IsCarried(n) BY <1>6 DEF IsCarried
<1>8. \A n \in Msgs : IsCarried(n)' => ~Carries(n, a) BY <1>6 DEF IsCarried, MsgInv, Once
<1>9. \A n : IsCarried(n) => IsCarried(n)' \/ Carries(n, a) BY <1>6 DEF IsCarried
<1>10. \A n : Carries(n, a) => IsCarried(n) BY DEF IsCarried
<1>11. \A n : Placed(n)' <=> Placed(n) BY <1>4, <1>5, <1>7, <1>9, <1>10 DEF Placed
<1>12. \A n : \A b \in Actors : Sends(n, b)' => Sends(n, b) BY <1>1 DEF Sends, Senders
<1>13. ASSUME NEW n \in Msgs PROVE Once(n)' /\ Apart(n)' /\ Fated(n)'
  <2>1. Once(n) /\ Apart(n) /\ Fated(n) BY DEF MsgInv
  <2>2. OnceIn(queue, n)'
    <3>1. OnceIn(queue, n) /\ (n \notin Ms(task[a]) \/ ~In(queue, n)) BY <1>3, <1>10, <2>1 DEF Once, Apart, InQueue
    <3> QED BY <1>2, <3>1, QueueAppend
  <2>3. Once(n)' BY <1>1, <1>6, <2>1, <2>2 DEF Once
  <2>4. Apart(n)' BY <1>4, <1>5, <1>7, <1>8, <1>10, <2>1 DEF Apart
  <2>5. Fated(n)' BY <1>1, <1>11, <1>12, <2>1 DEF Fated
  <2> QED BY <2>3, <2>4, <2>5
<1>14. Hands'
  <2>1. \A b \in Actors : \A n \in Ms(task'[b]) : fate'[n] # "new" BY <1>1, MsFacts DEF MsgInv, Hands
  <2> QED BY <1>1, <2>1 DEF MsgInv, Hands, Senders, Carriers
<1>15. InboxOfTurn' BY <1>1 DEF MsgInv, InboxOfTurn
<1>16. InOrder'
  <2>1. ASSUME NEW i \in 1..Len(order) PROVE Taken(order[i]) => Taken(order[i])'
    BY <1>1, <1>5, <1>6, <2>1 DEF Taken
  <2>2. ASSUME NEW i \in 1..Len(order), NEW j \in 1..Len(order),
               Taken(order[i]), Taken(order[j]), Behind(order[i], order[j])
        PROVE  Behind(order[i], order[j])'
    <3>1. PICK x : x = order[i] OBVIOUS
    <3>2. PICK y : y = order[j] OBVIOUS
    <3>3. x \notin Ms(task[a]) BY <1>1, <1>3, <2>2, <3>1 DEF Taken
    <3>4. Before(queue, x, y) BY <2>2, <3>1, <3>2 DEF Behind
    <3>5. Before(queue, x, y)' BY <1>2, <3>3, <3>4, QueueAppend
    <3>6. Behind(x, y)' BY <1>1, <1>7, <2>2, <3>1, <3>2, <3>5 DEF Behind
    <3> QED BY <1>1, <3>1, <3>2, <3>6
  <2> QED BY <1>1, <2>1, <2>2, OrderKept DEF MsgInv
<1>17. Spares'
  <2>1. \A b \in Actors : at'[b] \in {"cancel"} \union RunHolds => b # a BY <1>1 DEF RunHolds
  <2>2. \A b \in Actors : at[b] # "none" => at'[b] # "none" BY <1>1
  <2> QED BY <1>1, <2>1, <2>2 DEF MsgInv, Spares
<1> QED BY <1>13, <1>14, <1>15, <1>16, <1>17 DEF MsgInv

\* The first task of the queue goes to a launch: the slot was free, so every
\* message the queue took before those of that task was started or dropped.
LEMMA TakeQueuedStep ==
    ASSUME TypeOK, SlotInv, MsgInv, NEW a \in Actors, at[a] = "take_queued", ~running, queue # <<>>,
           queue' = Tail(queue), GotoWith(a, "launch", Head(queue)),
           UNCHANGED <<notes, left, open, target, fate, order>>
    PROVE  MsgInv'
<1>1. /\ at'[a] = "launch" /\ task'[a] = Head(queue)
      /\ \A b \in Actors : b # a => at'[b] = at[b] /\ task'[b] = task[b]
  BY DEF TypeOK, PlacesType, CarriedType, GotoWith, Goto
<1>2. queue \in Seq(Tasks) /\ Head(queue) \in Tasks /\ Ms(Head(queue)) \subseteq Msgs
  BY MsFacts, TaskFacts DEF TypeOK, ConversationType
<1>3. \A b \in Actors : at[b] # "launch" BY DEF SlotInv, SlotHasOneHolder, Holds, Holding
<1>4. \A n : InQueue(n) <=> InQueue(n)' \/ n \in Ms(Head(queue)) BY <1>2, QueueTail DEF InQueue
<1>5. \A n : (InNotes(n)' <=> InNotes(n)) /\ (InLeft(n)' <=> InLeft(n)) BY DEF InNotes, InLeft
<1>6. \A n : \A b \in Actors : Carries(n, b)' <=> Carries(n, b) \/ (b = a /\ n \in Ms(Head(queue)))
  BY <1>1 DEF Carries, Carriers
<1>7. \A n : IsCarried(n)' <=> IsCarried(n) \/ n \in Ms(Head(queue)) BY <1>6 DEF IsCarried
<1>8. \A n : Placed(n)' <=> Placed(n) BY <1>4, <1>5, <1>7 DEF Placed
<1>9. \A n : \A b \in Actors : Sends(n, b)' => Sends(n, b) BY <1>1 DEF Sends, Senders
<1>10. ASSUME NEW n \in Msgs PROVE Once(n)' /\ Apart(n)' /\ Fated(n)'
  <2>1. Once(n) /\ Apart(n) /\ Fated(n) BY DEF MsgInv
  <2>2. OnceIn(queue, n)' /\ ~(InQueue(n)' /\ n \in Ms(Head(queue)))
    BY <1>2, <2>1, QueueTail DEF Once, InQueue
  <2>3. \A b, c \in Actors : Carries(n, b)' /\ Carries(n, c)' => b = c
    BY <1>4, <1>6, <2>1 DEF Once, Apart, IsCarried
  <2>4. Once(n)' BY <2>1, <2>2, <2>3 DEF Once
  <2>5. Apart(n)' BY <1>4, <1>5, <1>7, <2>1, <2>2 DEF Apart
  <2>6. Fated(n)' BY <1>8, <1>9, <2>1 DEF Fated
  <2> QED BY <2>4, <2>5, <2>6
<1>11. Hands'
  <2>1. \A n \in Ms(Head(queue)) : n \in Msgs /\ fate[n] \in {"accepted", "sent"}
    BY <1>2, <1>4 DEF MsgInv, Fated, Placed
  <2>2. \A b \in Actors : \A n \in Ms(task'[b]) : fate'[n] # "new" BY <1>1, <2>1 DEF MsgInv, Hands
  <2> QED BY <1>1, <2>2 DEF MsgInv, Hands, Senders, Carriers
<1>12. InboxOfTurn' BY <1>1 DEF MsgInv, InboxOfTurn
<1>13. InOrder'
  <2>1. ASSUME NEW i \in 1..Len(order) PROVE Taken(order[i]) => Taken(order[i])'
    BY <1>1, <1>5, <1>6, <2>1 DEF Taken
  <2>2. ASSUME NEW i \in 1..Len(order), NEW j \in 1..Len(order),
               Taken(order[i]), Taken(order[j]), Behind(order[i], order[j])
        PROVE  Behind(order[i], order[j])'
    <3>1. PICK x \in Msgs : x = order[i] BY <2>2 DEF TypeOK, ConversationType, Tasks
    <3>2. PICK y : y = order[j] OBVIOUS
    <3>3. Before(queue, x, y) /\ Taken(x) BY <2>2, <3>1, <3>2 DEF Behind
    <3>4. Before(queue, x, y)' BY <1>2, <3>3, QueueTail
    <3>5. y \in Ms(Head(queue)) => fate[x] \in {"started", "dropped"}
      <4> SUFFICES ASSUME y \in Ms(Head(queue)), fate[x] = "accepted" PROVE FALSE BY <3>3 DEF Taken
      <4>1. ~InQueue(x) BY <1>2, <3>3, QueueTail DEF InQueue
      <4>2. ~IsCarried(x) BY <1>3, <3>3 DEF Taken, IsCarried
      <4> QED BY <3>3, <4>1, <4>2 DEF MsgInv, Fated, Placed, Taken
    <3>6. Behind(x, y)' BY <1>7, <2>2, <3>1, <3>2, <3>4, <3>5 DEF Behind
    <3> QED BY <3>1, <3>2, <3>6
  <2> QED BY <2>1, <2>2, OrderKept DEF MsgInv
<1>14. Spares'
  <2>1. \A b \in Actors : at'[b] \in {"cancel"} \union RunHolds => b # a BY <1>1 DEF RunHolds
  <2>2. \A b \in Actors : at[b] # "none" => at'[b] # "none" BY <1>1
  <2> QED BY <1>1, <2>1, <2>2 DEF MsgInv, Spares
<1> QED BY <1>10, <1>11, <1>12, <1>13, <1>14 DEF MsgInv

\* A run starts with the messages its launcher carried, which are nowhere else.
LEMMA LaunchStep ==
    ASSUME TypeOK, MsgInv, NEW a \in Actors, NEW r \in Runs, LaunchRun(a, r)
    PROVE  MsgInv'
<1>1. /\ at[a] = "launch" /\ at[r] = "none" /\ a # r /\ r \in Actors /\ r \notin Handlers
      /\ at'[a] = Over(a) /\ at'[a] \in {"idle", "gone"} /\ at'[r] = "turn" /\ task'[a] = <<>> /\ task'[r] = task[a]
      /\ \A b \in Actors : b # a /\ b # r => at'[b] = at[b] /\ task'[b] = task[b]
      /\ queue' = queue /\ notes' = notes /\ left' = left /\ open' = open /\ target' = target /\ order' = order
  BY DEF TypeOK, PlacesType, CarriedType, LaunchRun, Over, inbox
<1>2. Ms(task[a]) \subseteq Msgs BY MsFacts DEF TypeOK, CarriedType
<1>3. \A n : Carries(n, a) <=> n \in Ms(task[a]) BY <1>1 DEF Carries, Carriers
<1>4. /\ \A n \in Msgs : Carries(n, a) => fate'[n] = "started"
      /\ \A n \in Msgs : ~Carries(n, a) => fate'[n] = fate[n]
  BY <1>3 DEF LaunchRun, Settle, Ms
<1>5. \A n : (InQueue(n)' <=> InQueue(n)) /\ (InNotes(n)' <=> InNotes(n)) /\ (InLeft(n)' <=> InLeft(n))
  BY <1>1 DEF InQueue, InNotes, InLeft
<1>6. \A n : \A b \in Actors : Carries(n, b)' <=> Carries(n, b) /\ b # a BY <1>1 DEF Carries, Carriers
<1>7. \A n : IsCarried(n)' => IsCarried(n) BY <1>6 DEF IsCarried
<1>8. \A n \in Msgs : Carries(n, a) => IsCarried(n) /\ ~IsCarried(n)' BY <1>6 DEF IsCarried, MsgInv, Once
<1>9. \A n : IsCarried(n) => IsCarried(n)' \/ Carries(n, a) BY <1>6 DEF IsCarried
<1>10. \A n \in Msgs : Placed(n)' <=> Placed(n) /\ ~Carries(n, a)
  <2>1. \A n \in Msgs : Carries(n, a) => Placed(n) /\ ~InQueue(n) /\ ~InNotes(n) /\ ~InLeft(n)
    BY <1>8 DEF Placed, MsgInv, Apart
  <2> QED BY <1>5, <1>7, <1>8, <1>9, <2>1 DEF Placed
<1>11. \A n : \A b \in Actors : Sends(n, b)' => Sends(n, b) BY <1>1 DEF Sends, Senders
<1>12. ASSUME NEW n \in Msgs PROVE Once(n)' /\ Apart(n)' /\ Fated(n)'
  <2>1. Once(n) /\ Apart(n) /\ Fated(n) BY DEF MsgInv
  <2>2. Once(n)' BY <1>1, <1>6, <2>1 DEF Once
  <2>3. Apart(n)' BY <1>5, <1>7, <2>1 DEF Apart
  <2>4. Fated(n)'
    <3>1. fate'[n] = "accepted" => Placed(n)' BY <1>4, <1>10, <2>1 DEF Fated
    <3>2. Placed(n)' => fate'[n] \in {"accepted", "sent"} BY <1>4, <1>10, <2>1 DEF Fated
    <3>3. Carries(n, a) => Placed(n) BY <1>8 DEF Placed
    <3>4. \A b \in Actors : Sends(n, b)' => fate'[n] = "sent" /\ ~Placed(n)' /\ Sends(n, b)
      BY <1>4, <1>10, <1>11, <2>1, <3>3 DEF Fated
    <3> QED BY <2>1, <3>1, <3>2, <3>4, FatedNow
  <2> QED BY <2>2, <2>3, <2>4
<1>13. Hands'
  <2>1. \A n \in Msgs : fate[n] # "new" => fate'[n] # "new" BY <1>4
  <2>2. \A b \in Actors : Ms(task[b]) \subseteq Msgs BY MsFacts DEF TypeOK, CarriedType
  <2>3. \A b \in Actors : \A n \in Ms(task[b]) : fate'[n] # "new" BY <2>1, <2>2 DEF MsgInv, Hands
  <2>4. Ms(<<>>) = {} BY MsFacts
  <2>5. ASSUME NEW b \in Actors, NEW n \in Ms(task'[b]) PROVE fate'[n] # "new"
    <3>1. b # a BY <1>1, <2>4, <2>5
    <3>2. n \in Ms(task[a]) \/ n \in Ms(task[b]) BY <1>1, <2>5, <3>1
    <3> QED BY <2>3, <3>2
  <2>6. \A b \in Actors : at'[b] \in Senders => \E n \in Msgs : task'[b] = <<n>>
    BY <1>1 DEF MsgInv, Hands, Senders
  <2>7. \A b \in Handlers : at'[b] \notin Senders \union Carriers \union {"cancel"} => task'[b] = <<>>
    BY <1>1 DEF MsgInv, Hands
  <2> QED BY <2>5, <2>6, <2>7 DEF Hands
<1>14. InboxOfTurn'
  <2>1. \A b \in Runs : at[b] = "reading" => at'[b] = "reading" BY <1>1
  <2> QED BY <1>1, <2>1 DEF MsgInv, InboxOfTurn
<1>15. InOrder'
  <2>1. ASSUME NEW i \in 1..Len(order) PROVE Taken(order[i]) => Taken(order[i])'
    <3>1. PICK x \in Msgs : x = order[i] BY DEF TypeOK, ConversationType, Tasks
    <3>2. Taken(x) => Taken(x)' BY <1>1, <1>4, <1>5, <1>6 DEF Taken
    <3> QED BY <1>1, <3>1, <3>2
  <2>2. ASSUME NEW i \in 1..Len(order), NEW j \in 1..Len(order),
               Taken(order[i]), Taken(order[j]), Behind(order[i], order[j])
        PROVE  Behind(order[i], order[j])'
    <3>1. PICK x \in Msgs : x = order[i] BY DEF TypeOK, ConversationType, Tasks
    <3>2. PICK y \in Msgs : y = order[j] BY DEF TypeOK, ConversationType, Tasks
    <3>3. Before(queue, x, y)' BY <1>1, <2>2, <3>1, <3>2 DEF Behind
    <3>4. fate[x] \in {"started", "dropped"} => fate'[x] \in {"started", "dropped"} BY <1>4
    <3>5. IsCarried(y)' \/ fate'[y] = "started" => IsCarried(y) \/ fate[y] = "started" BY <1>4, <1>7, <1>8
    <3>6. Behind(x, y)' BY <2>2, <3>1, <3>2, <3>3, <3>4, <3>5 DEF Behind
    <3> QED BY <1>1, <3>1, <3>2, <3>6
  <2> QED BY <1>1, <2>1, <2>2, OrderKept DEF MsgInv
<1>16. Spares'
  <2>1. \A b \in Actors : at'[b] = "cancel" => at[b] = "cancel" /\ task'[b] = task[b] /\ target'[b] = target[b]
    BY <1>1
  <2>2. \A b \in Actors : at[b] # "none" => at'[b] # "none" /\ (at'[b] \in RunHolds => at[b] \in RunHolds /\ task'[b] = task[b])
    BY <1>1 DEF RunHolds
  <2> QED BY <2>1, <2>2 DEF MsgInv, Spares
<1> QED BY <1>12, <1>13, <1>14, <1>15, <1>16 DEF MsgInv

\* A turn reads its inbox.
LEMMA ReadNotesStep ==
    ASSUME TypeOK, MsgInv, NEW r \in Runs, ReadNotes(r)
    PROVE  MsgInv'
<1>1. /\ notes' = <<>> /\ order' = order /\ at' = at /\ task' = task /\ target' = target /\ open' = open
      /\ queue' = queue /\ left' = left
      /\ \A n \in Msgs : InNotes(n) => fate'[n] = "read"
      /\ \A n \in Msgs : ~InNotes(n) => fate'[n] = fate[n]
  BY DEF ReadNotes, Settle, conv, InNotes, Ms
<1>2. \A n : ~InNotes(n)' /\ (InQueue(n)' <=> InQueue(n)) /\ (InLeft(n)' <=> InLeft(n))
  BY <1>1, MsFacts DEF InQueue, InNotes, InLeft
<1>3. \A n : \A b \in Actors : (Carries(n, b)' <=> Carries(n, b)) /\ (Sends(n, b)' <=> Sends(n, b))
  BY <1>1 DEF Carries, Sends
<1>4. \A n : IsCarried(n)' <=> IsCarried(n) BY <1>3 DEF IsCarried
<1>5. \A n \in Msgs : Placed(n)' <=> Placed(n) /\ ~InNotes(n)
  BY <1>2, <1>4 DEF Placed, MsgInv, Apart
<1>6. ASSUME NEW n \in Msgs PROVE Once(n)' /\ Apart(n)' /\ Fated(n)'
  <2>1. Once(n) /\ Apart(n) /\ Fated(n) BY DEF MsgInv
  <2>2. Single(notes, n)' BY <1>1, MsFacts
  <2>3. Once(n)' BY <1>1, <1>3, <2>1, <2>2 DEF Once
  <2>4. Apart(n)' BY <1>2, <1>4, <2>1 DEF Apart
  <2>5. Fated(n)'
    <3>1. fate'[n] = "accepted" => Placed(n)' BY <1>1, <1>5, <2>1 DEF Fated
    <3>2. Placed(n)' => fate'[n] \in {"accepted", "sent"} BY <1>1, <1>5, <2>1 DEF Fated
    <3>3. InNotes(n) => Placed(n) BY DEF Placed
    <3>4. \A b \in Actors : Sends(n, b)' => fate'[n] = "sent" /\ ~Placed(n)' /\ Sends(n, b)
      BY <1>1, <1>3, <1>5, <2>1, <3>3 DEF Fated
    <3> QED BY <2>1, <3>1, <3>2, <3>4, FatedNow
  <2> QED BY <2>3, <2>4, <2>5
<1>7. Hands'
  <2>1. \A n \in Msgs : fate[n] # "new" => fate'[n] # "new" BY <1>1
  <2>2. \A b \in Actors : Ms(task[b]) \subseteq Msgs BY MsFacts DEF TypeOK, CarriedType
  <2>3. \A b \in Actors : \A n \in Ms(task[b]) : fate'[n] # "new" BY <2>1, <2>2 DEF MsgInv, Hands
  <2> QED BY <1>1, <2>3 DEF MsgInv, Hands
<1>8. InboxOfTurn' BY <1>1 DEF MsgInv, InboxOfTurn
<1>9. InOrder'
  <2>1. ASSUME NEW i \in 1..Len(order) PROVE Taken(order[i]) => Taken(order[i])'
    <3>1. PICK x \in Msgs : x = order[i] BY DEF TypeOK, ConversationType, Tasks
    <3>2. Taken(x) => Taken(x)' BY <1>1, <1>2, <1>3 DEF Taken
    <3> QED BY <1>1, <3>1, <3>2
  <2>2. ASSUME NEW i \in 1..Len(order), NEW j \in 1..Len(order),
               Taken(order[i]), Taken(order[j]), Behind(order[i], order[j])
        PROVE  Behind(order[i], order[j])'
    <3>1. PICK x \in Msgs : x = order[i] BY DEF TypeOK, ConversationType, Tasks
    <3>2. PICK y \in Msgs : y = order[j] BY DEF TypeOK, ConversationType, Tasks
    <3>3. fate'[x] = fate[x] /\ fate'[y] = fate[y] BY <1>1, <2>2, <3>1, <3>2 DEF Taken
    <3>4. Behind(x, y)' BY <1>1, <1>4, <2>2, <3>1, <3>2, <3>3 DEF Behind
    <3> QED BY <1>1, <3>1, <3>2, <3>4
  <2> QED BY <1>1, <2>1, <2>2, OrderKept DEF MsgInv
<1>10. Spares' BY <1>1 DEF MsgInv, Spares
<1> QED BY <1>6, <1>7, <1>8, <1>9, <1>10 DEF MsgInv

\* A turn ends: what it has not read stays in the inbox for whoever drains.
LEMMA EndTurnStep ==
    ASSUME TypeOK, MsgInv, NEW r \in Runs, at[r] = "reading", EndTurn(r)
    PROVE  MsgInv'
<1>1. /\ notes' = <<>> /\ order' = order /\ task' = task /\ target' = target /\ open' = FALSE /\ fate' = fate
      /\ queue' = queue /\ left' = left \o notes /\ at'[r] = "ending" /\ r \in Actors /\ r \notin Handlers
      /\ \A b \in Actors : b # r => at'[b] = at[b]
  BY DEF TypeOK, PlacesType, EndTurn, Goto, conv, history
<1>2. /\ \A n : InLeft(n)' <=> InLeft(n) \/ InNotes(n)
      /\ \A n : Single(left, n) /\ Single(notes, n) /\ ~(InLeft(n) /\ InNotes(n)) => Single(left, n)'
  BY <1>1, MsConcat DEF TypeOK, ConversationType, InLeft, InNotes
<1>3. \A n : ~InNotes(n)' /\ (InQueue(n)' <=> InQueue(n)) BY <1>1, MsFacts DEF InQueue, InNotes
<1>4. \A n : \A b \in Actors : (Carries(n, b)' <=> Carries(n, b)) /\ (Sends(n, b)' <=> Sends(n, b))
  BY <1>1 DEF Carries, Sends, Carriers, Senders
<1>5. \A n : IsCarried(n)' <=> IsCarried(n) BY <1>4 DEF IsCarried
<1>6. \A n : Placed(n)' <=> Placed(n) BY <1>2, <1>3, <1>5 DEF Placed
<1>7. ASSUME NEW n \in Msgs PROVE Once(n)' /\ Apart(n)' /\ Fated(n)'
  <2>1. Once(n) /\ Apart(n) /\ Fated(n) BY DEF MsgInv
  <2>2. Single(notes, n)' BY <1>1, MsFacts
  <2>3. Single(left, n)' BY <1>2, <2>1 DEF Once, Apart
  <2>4. Once(n)' BY <1>1, <1>4, <2>1, <2>2, <2>3 DEF Once
  <2>5. Apart(n)' BY <1>2, <1>3, <1>5, <2>1 DEF Apart
  <2>6. Fated(n)' BY <1>1, <1>4, <1>6, <2>1 DEF Fated
  <2> QED BY <2>4, <2>5, <2>6
<1>8. Hands' BY <1>1 DEF MsgInv, Hands, Senders
<1>9. InboxOfTurn' BY <1>1 DEF InboxOfTurn
<1>10. InOrder'
  <2>1. ASSUME NEW i \in 1..Len(order) PROVE Taken(order[i]) => Taken(order[i])'
    <3>1. PICK x : x = order[i] OBVIOUS
    <3>2. \A b \in Actors : at[b] = "launch" => at'[b] = "launch" BY <1>1
    <3>3. Taken(x) => Taken(x)' BY <1>1, <1>2, <1>3, <1>4, <3>2 DEF Taken
    <3> QED BY <1>1, <3>1, <3>3
  <2>2. ASSUME NEW i \in 1..Len(order), NEW j \in 1..Len(order)
        PROVE  Behind(order[i], order[j]) => Behind(order[i], order[j])'
    BY <1>1, <1>5, <2>2 DEF Behind
  <2> QED BY <1>1, <2>1, <2>2, OrderKept DEF MsgInv
<1>11. Spares'
  <2>1. \A a \in Actors : (at'[a] \in RunHolds <=> at[a] \in RunHolds) /\ (at'[a] = "cancel" <=> at[a] = "cancel")
    BY <1>1 DEF RunHolds
  <2>2. \A a \in Actors : at[a] # "none" => at'[a] # "none" BY <1>1
  <2> QED BY <1>1, <2>1, <2>2 DEF MsgInv, Spares
<1> QED BY <1>7, <1>8, <1>9, <1>10, <1>11 DEF MsgInv

\* A deletion drops what waits in the queue.
LEMMA DropStep ==
    ASSUME TypeOK, MsgInv, NEW h \in Handlers, at[h] \in {"reset", "close_for_good"}, DropQueue,
           NEW p \in {"drain", "forget"}, Goto(h, p), UNCHANGED <<notes, left, open, task, target, order>>
    PROVE  MsgInv'
<1>1. /\ h \in Actors /\ at'[h] = p /\ queue' = <<>>
      /\ \A b \in Actors : b # h => at'[b] = at[b]
      /\ \A n \in Msgs : InQueue(n) => fate'[n] = "dropped"
      /\ \A n \in Msgs : ~InQueue(n) => fate'[n] = fate[n]
  BY DEF TypeOK, PlacesType, Goto, DropQueue, Queued, InQueue, In, Ms
<1>2. \A n : ~InQueue(n)' /\ (InNotes(n)' <=> InNotes(n)) /\ (InLeft(n)' <=> InLeft(n))
  BY <1>1, MsFacts DEF InQueue, InNotes, InLeft
<1>3. \A n : \A b \in Actors : (Carries(n, b)' <=> Carries(n, b)) /\ (Sends(n, b)' <=> Sends(n, b))
  BY <1>1 DEF Carries, Sends, Carriers, Senders
<1>4. \A n : IsCarried(n)' <=> IsCarried(n) BY <1>3 DEF IsCarried
<1>5. \A n \in Msgs : Placed(n)' <=> Placed(n) /\ ~InQueue(n)
  BY <1>2, <1>4 DEF Placed, MsgInv, Apart
<1>6. ASSUME NEW n \in Msgs PROVE Once(n)' /\ Apart(n)' /\ Fated(n)'
  <2>1. Once(n) /\ Apart(n) /\ Fated(n) BY DEF MsgInv
  <2>2. OnceIn(queue, n)' BY <1>1, MsFacts
  <2>3. Once(n)' BY <1>3, <2>1, <2>2 DEF Once
  <2>4. Apart(n)' BY <1>2, <1>4, <2>1 DEF Apart
  <2>5. Fated(n)'
    <3>1. fate'[n] = "accepted" => Placed(n)' BY <1>1, <1>5, <2>1 DEF Fated
    <3>2. Placed(n)' => fate'[n] \in {"accepted", "sent"} BY <1>1, <1>5, <2>1 DEF Fated
    <3>3. InQueue(n) => Placed(n) BY DEF Placed
    <3>4. \A b \in Actors : Sends(n, b)' => fate'[n] = "sent" /\ ~Placed(n)' /\ Sends(n, b)
      BY <1>1, <1>3, <1>5, <2>1, <3>3 DEF Fated
    <3> QED BY <2>1, <3>1, <3>2, <3>4, FatedNow
  <2> QED BY <2>3, <2>4, <2>5
<1>7. Hands'
  <2>1. \A n \in Msgs : fate[n] # "new" => fate'[n] # "new" BY <1>1
  <2>2. \A b \in Actors : Ms(task[b]) \subseteq Msgs BY MsFacts DEF TypeOK, CarriedType
  <2>3. \A b \in Actors : \A n \in Ms(task[b]) : fate'[n] # "new" BY <2>1, <2>2 DEF MsgInv, Hands
  <2> QED BY <1>1, <2>3 DEF MsgInv, Hands, Senders, Carriers
<1>8. InboxOfTurn' BY <1>1 DEF MsgInv, InboxOfTurn
<1>9. InOrder'
  <2>1. ASSUME NEW i \in 1..Len(order) PROVE Taken(order[i]) => Taken(order[i])'
    <3>1. PICK x \in Msgs : x = order[i] BY DEF TypeOK, ConversationType, Tasks
    <3>2. \A b \in Actors : at[b] = "launch" => at'[b] = "launch" BY <1>1
    <3>3. Taken(x) => Taken(x)' BY <1>1, <1>2, <1>3, <3>2 DEF Taken
    <3> QED BY <3>1, <3>3
  <2>2. ASSUME NEW i \in 1..Len(order), NEW j \in 1..Len(order),
               Taken(order[i]), Taken(order[j]), Behind(order[i], order[j])
        PROVE  Behind(order[i], order[j])'
    <3>1. PICK x \in Msgs : x = order[i] BY DEF TypeOK, ConversationType, Tasks
    <3>2. PICK y \in Msgs : y = order[j] BY DEF TypeOK, ConversationType, Tasks
    <3>3. Before(queue, x, y)' BY <1>1 DEF Before
    <3>4. fate[x] \in {"started", "dropped"} => fate'[x] \in {"started", "dropped"} BY <1>1
    <3>5. IsCarried(y)' \/ fate'[y] = "started" => IsCarried(y) \/ fate[y] = "started" BY <1>1, <1>4
    <3>6. Behind(x, y)' BY <2>2, <3>1, <3>2, <3>3, <3>4, <3>5 DEF Behind
    <3> QED BY <3>1, <3>2, <3>6
  <2> QED BY <2>1, <2>2, OrderKept DEF MsgInv
<1>10. Spares'
  <2>1. \A a \in Actors : at'[a] \in {"cancel"} \union RunHolds => at[a] = at'[a] /\ task'[a] = task[a]
    BY <1>1 DEF RunHolds
  <2>2. \A a \in Actors : at[a] # "none" => at'[a] # "none" BY <1>1
  <2> QED BY <2>1, <2>2 DEF MsgInv, Spares
<1> QED BY <1>6, <1>7, <1>8, <1>9, <1>10 DEF MsgInv

\* Every step keeps the messages where they belong.
LEMMA MsgStep == TypeOK /\ SlotInv /\ MsgInv /\ [Next]_vars => MsgInv'
<1> SUFFICES ASSUME TypeOK, SlotInv, MsgInv, [Next]_vars PROVE MsgInv'
  OBVIOUS
<1>0. at \in [Actors -> Steps] /\ target \in [Actors -> Runs \union {NoRun}]
  BY DEF TypeOK, PlacesType, CarriedType
<1> DEFINE Quiet == /\ UNCHANGED <<queue, notes, left, fate, order, open, task>>
                    /\ \A b \in Actors :
                         /\ at'[b] \in Senders \union Carriers \union {"cancel"} \/ at[b] \in Senders \union Carriers \union {"cancel"}
                              => at'[b] = at[b]
                         /\ at[b] # "none" => at'[b] # "none"
                         /\ at'[b] \in RunHolds => at[b] \in RunHolds
                         /\ at[b] = "reading" => at'[b] = "reading"
                         /\ at[b] = "cancel" => target'[b] = target[b]
<1>q. Quiet => MsgInv' BY QuietStep
<1> USE DEF Over, Goto, Arrives, EndRun, conv, server, inbox, runs, history
<1>1. ASSUME NEW h \in Handlers, NEW m \in Msgs, StartNotedRun(h, m) PROVE MsgInv'
  BY <1>1, SendStep DEF StartNotedRun, Senders
<1>2. ASSUME NEW h \in Handlers, NEW m \in Msgs, Queue(h, m) PROVE MsgInv'
  BY <1>2, SendStep DEF Queue, Senders
<1>3. ASSUME NEW h \in Handlers, NEW m \in Msgs, Interrupt(h, m) PROVE MsgInv'
  BY <1>3, InterruptStep
<1>4. ASSUME NEW h \in Handlers, NEW m \in Msgs, Steer(h, m) PROVE MsgInv'
  <2>1. PICK p \in Senders : GotoWith(h, p, <<m>>)
    <3>1. (IF current # NoRun THEN "steer_push" ELSE "queue") \in Senders BY DEF Senders
    <3> QED BY <1>4, <3>1 DEF Steer
  <2> QED BY <1>4, <2>1, SendStep DEF Steer
<1>5. ASSUME NEW h \in Handlers, TakeRunSlot(h) PROVE MsgInv'
  <2>0. at[h] \in Senders BY <1>5 DEF TakeRunSlot, Senders
  <2>1. CASE running \/ closing BY <1>5, <2>0, <2>1, PassOnStep DEF TakeRunSlot
  <2>2. CASE ~(running \/ closing) BY <1>5, <2>0, <2>2, StartStep DEF TakeRunSlot
  <2> QED BY <2>1, <2>2
<1>6. ASSUME NEW h \in Handlers, StartOrQueue(h) PROVE MsgInv'
  <2>0. at[h] \in Senders /\ "take_or_enqueue" \in Senders BY <1>6 DEF StartOrQueue, Senders
  <2>1. CASE runnable BY <1>6, <2>0, <2>1, PassOnStep DEF StartOrQueue
  <2>2. CASE ~runnable BY <1>6, <2>0, <2>2, EnqueueStep DEF StartOrQueue
  <2> QED BY <2>1, <2>2
<1>7. ASSUME NEW h \in Handlers, TakeSlotOrEnqueue(h) PROVE MsgInv'
  <2>0. at[h] \in Senders BY <1>7 DEF TakeSlotOrEnqueue, Senders
  <2>1. CASE ~running /\ ~closing /\ queue = <<>> BY <1>7, <2>0, <2>1, StartStep DEF TakeSlotOrEnqueue
  <2>2. CASE ~(~running /\ ~closing /\ queue = <<>>) BY <1>7, <2>0, <2>2, EnqueueStep DEF TakeSlotOrEnqueue
  <2> QED BY <2>1, <2>2
<1>8. ASSUME NEW h \in Handlers, CancelRun(h) PROVE MsgInv'
  BY <1>8, CancelRunStep
<1>9. ASSUME NEW h \in Handlers, CancelTarget(h) PROVE MsgInv'
  BY <1>9, CancelTargetStep
<1>10. ASSUME NEW h \in Handlers, PushSteering(h) PROVE MsgInv'
  <2>0. at[h] \in Senders /\ "queue" \in Senders BY <1>10 DEF PushSteering, Senders
  <2>1. CASE open BY <1>10, <2>0, <2>1, PushStep DEF PushSteering
  <2>2. CASE ~open BY <1>10, <2>0, <2>2, PassOnStep DEF PushSteering
  <2> QED BY <2>1, <2>2
<1>11. ASSUME NEW h \in Handlers, ReleaseRunSlot(h) PROVE MsgInv'
  <2>1. Quiet BY <1>0, <1>11 DEF ReleaseRunSlot, Senders, Carriers, RunHolds
  <2> QED BY <1>q, <2>1
<1>12. ASSUME NEW h \in Handlers, OpenTerminal(h) PROVE MsgInv'
  <2>1. Quiet BY <1>0, <1>12 DEF OpenTerminal, Senders, Carriers, RunHolds
  <2> QED BY <1>q, <2>1
<1>13. ASSUME NEW h \in Handlers, HoldTerminal(h) PROVE MsgInv'
  <2>1. Quiet BY <1>0, <1>13 DEF HoldTerminal, Senders, Carriers, RunHolds
  <2> QED BY <1>q, <2>1
<1>14. ASSUME NEW h \in Handlers, DropTerminal(h) PROVE MsgInv'
  <2>1. Quiet BY <1>0, <1>14 DEF DropTerminal, Senders, Carriers, RunHolds
  <2> QED BY <1>q, <2>1
<1>15. ASSUME NEW h \in Handlers, BeginClosing(h) PROVE MsgInv'
  <2>1. Quiet BY <1>0, <1>15 DEF BeginClosing, Senders, Carriers, RunHolds
  <2> QED BY <1>q, <2>1
<1>16. ASSUME NEW h \in Handlers, StopRunForDeletion(h) PROVE MsgInv'
  <2>1. Quiet BY <1>0, <1>16 DEF StopRunForDeletion, Senders, Carriers, RunHolds
  <2> QED BY <1>q, <2>1
<1>17. ASSUME NEW h \in Handlers, Settled(h) PROVE MsgInv'
  <2>1. Quiet BY <1>0, <1>17 DEF Settled, Senders, Carriers, RunHolds
  <2> QED BY <1>q, <2>1
<1>18. ASSUME NEW h \in Handlers, StopTimedOut(h) PROVE MsgInv'
  <2>1. Quiet BY <1>0, <1>18 DEF StopTimedOut, Senders, Carriers, RunHolds
  <2> QED BY <1>q, <2>1
<1>19. ASSUME NEW h \in Handlers, ReleaseWorktree(h) PROVE MsgInv'
  <2>1. Quiet BY <1>0, <1>19 DEF ReleaseWorktree, Senders, Carriers, RunHolds
  <2> QED BY <1>q, <2>1
<1>20. ASSUME NEW h \in Handlers, Reopen(h) PROVE MsgInv'
  <2>1. CASE at[h] = "reset" BY <1>20, <2>1, DropStep DEF Reopen
  <2>2. CASE at[h] = "reopen"
    <3>1. Quiet BY <1>0, <1>20, <2>2 DEF Reopen, Senders, Carriers, RunHolds
    <3> QED BY <1>q, <3>1
  <2> QED BY <1>20, <2>1, <2>2 DEF Reopen
<1>21. ASSUME NEW h \in Handlers, CloseForGood(h) PROVE MsgInv'
  BY <1>21, DropStep DEF CloseForGood
<1>22. ASSUME NEW h \in Handlers, Forget(h) PROVE MsgInv'
  <2>1. Quiet BY <1>0, <1>22 DEF Forget, Senders, Carriers, RunHolds
  <2> QED BY <1>q, <2>1
<1>23. ASSUME NEW h \in Handlers, PruneBlank(h) PROVE MsgInv'
  <2>1. Quiet BY <1>0, <1>23 DEF PruneBlank, Senders, Carriers, RunHolds
  <2> QED BY <1>q, <2>1
<1>24. ASSUME NEW h \in Handlers, PruneDecide(h) PROVE MsgInv'
  <2>1. Quiet BY <1>0, <1>24 DEF PruneDecide, Senders, Carriers, RunHolds
  <2> QED BY <1>q, <2>1
<1>25. ASSUME NEW h \in Handlers, NEW k \in {"work", "move"}, TakeSlotFor(h, k) PROVE MsgInv'
  <2>1. Quiet BY <1>0, <1>25 DEF TakeSlotFor, Senders, Carriers, RunHolds
  <2> QED BY <1>q, <2>1
<1>26. ASSUME NEW r \in Runs, BeginTurn(r) PROVE MsgInv'
  BY <1>26, BeginTurnStep
<1>27. ASSUME NEW r \in Runs, ReadNotes(r) PROVE MsgInv'
  BY <1>27, ReadNotesStep
<1>28. ASSUME NEW r \in Runs, EndTurn(r) PROVE MsgInv'
  <2>1. CASE at[r] = "reading" BY <1>28, <2>1, EndTurnStep
  <2>2. CASE at[r] = "turn"
    <3>1. Quiet BY <1>0, <1>28, <2>2 DEF EndTurn, Senders, Carriers, RunHolds
    <3> QED BY <1>q, <3>1
  <2> QED BY <1>28, <2>1, <2>2 DEF EndTurn
<1>29. ASSUME NEW r \in Runs, RecordIntegration(r) PROVE MsgInv'
  <2>1. Quiet BY <1>0, <1>29 DEF RecordIntegration, Senders, Carriers, RunHolds
  <2> QED BY <1>q, <2>1
<1>30. ASSUME NEW r \in Runs, CloseRun(r) PROVE MsgInv'
  <2>1. Quiet BY <1>0, <1>30 DEF CloseRun, Senders, Carriers, RunHolds
  <2> QED BY <1>q, <2>1
<1>31. ASSUME NEW r \in Runs, Finish(r) PROVE MsgInv'
  <2>1. Quiet BY <1>0, <1>31 DEF Finish, Senders, Carriers, RunHolds
  <2> QED BY <1>q, <2>1
<1>32. ASSUME NEW r \in Runs, EndRunAgain(r) PROVE MsgInv'
  BY <1>32, EndRunAgainStep
<1>33. ASSUME NEW a \in Actors, DrainQueue(a) PROVE MsgInv'
  <2>1. Quiet BY <1>0, <1>33 DEF DrainQueue, Senders, Carriers, RunHolds
  <2> QED BY <1>q, <2>1
<1>34. ASSUME NEW a \in Actors, TakeUnread(a) PROVE MsgInv'
  <2>1. CASE left = <<>>
    <3>1. Quiet BY <1>0, <1>34, <2>1 DEF TakeUnread, Senders, Carriers, RunHolds
    <3> QED BY <1>q, <3>1
  <2>2. CASE left # <<>> BY <1>34, <2>2, TakeUnreadStep DEF TakeUnread
  <2> QED BY <2>1, <2>2
<1>35. ASSUME NEW a \in Actors, PushUnread(a) PROVE MsgInv'
  BY <1>35, PushUnreadStep
<1>36. ASSUME NEW a \in Actors, TakeQueued(a) PROVE MsgInv'
  <2>1. CASE running \/ closing \/ queue = <<>>
    <3>1. Quiet BY <1>0, <1>36, <2>1 DEF TakeQueued, Senders, Carriers, RunHolds
    <3> QED BY <1>q, <3>1
  <2>2. CASE ~(running \/ closing \/ queue = <<>>) BY <1>36, <2>2, TakeQueuedStep DEF TakeQueued
  <2> QED BY <2>1, <2>2
<1>37. ASSUME NEW a \in Actors, NEW r \in Runs, LaunchRun(a, r) PROVE MsgInv'
  BY <1>37, LaunchStep
<1>38. ASSUME WatchMerged PROVE MsgInv'
  <2>1. Quiet BY <1>0, <1>38 DEF WatchMerged, Senders, Carriers, RunHolds
  <2> QED BY <1>q, <2>1
<1>39. ASSUME Shutdown PROVE MsgInv'
  <2>1. Quiet BY <1>0, <1>39 DEF Shutdown, Senders, Carriers, RunHolds
  <2> QED BY <1>q, <2>1
<1>40. CASE UNCHANGED vars
  <2>1. Quiet BY <1>40 DEF vars
  <2> QED BY <1>q, <2>1
<1> QED
    BY <1>1, <1>2, <1>3, <1>4, <1>5, <1>6, <1>7, <1>8, <1>9, <1>10, <1>11, <1>12, <1>13, <1>14, <1>15, <1>16, <1>17,
       <1>18, <1>19, <1>20, <1>21, <1>22, <1>23, <1>24, <1>25, <1>26, <1>27, <1>28, <1>29, <1>30, <1>31, <1>32, <1>33,
       <1>34, <1>35, <1>36, <1>37, <1>38, <1>39, <1>40 DEF Next, Request, HandlerStep, RunStep, DrainStep

\* A handler about to cancel a run does nothing else.
LEMMA OnlyCancels ==
    ASSUME TypeOK, [Next]_vars, NEW g \in Handlers, at[g] = "cancel", at'[g] # "cancel"
    PROVE  CancelTarget(g)
<1>0. at \in [Actors -> Steps] /\ g \in Actors /\ g \notin Runs BY DEF TypeOK, PlacesType
<1> USE <1>0 DEF Over, Goto, GotoWith, Arrives
<1>1. ASSUME NEW h \in Handlers, NEW m \in Msgs, StartNotedRun(h, m) PROVE FALSE BY <1>1 DEF StartNotedRun
<1>2. ASSUME NEW h \in Handlers, NEW m \in Msgs, Queue(h, m) PROVE FALSE BY <1>2 DEF Queue
<1>3. ASSUME NEW h \in Handlers, NEW m \in Msgs, Interrupt(h, m) PROVE FALSE BY <1>3 DEF Interrupt
<1>4. ASSUME NEW h \in Handlers, NEW m \in Msgs, Steer(h, m) PROVE FALSE BY <1>4 DEF Steer
<1>5. ASSUME NEW h \in Handlers, TakeRunSlot(h) PROVE FALSE BY <1>5 DEF TakeRunSlot
<1>6. ASSUME NEW h \in Handlers, StartOrQueue(h) PROVE FALSE BY <1>6 DEF StartOrQueue
<1>7. ASSUME NEW h \in Handlers, TakeSlotOrEnqueue(h) PROVE FALSE BY <1>7 DEF TakeSlotOrEnqueue
<1>8. ASSUME NEW h \in Handlers, CancelRun(h) PROVE FALSE BY <1>8 DEF CancelRun
<1>9. ASSUME NEW h \in Handlers, CancelTarget(h) PROVE CancelTarget(g) BY <1>9 DEF CancelTarget
<1>10. ASSUME NEW h \in Handlers, PushSteering(h) PROVE FALSE BY <1>10 DEF PushSteering
<1>11. ASSUME NEW h \in Handlers, ReleaseRunSlot(h) PROVE FALSE BY <1>11 DEF ReleaseRunSlot
<1>12. ASSUME NEW h \in Handlers, OpenTerminal(h) PROVE FALSE BY <1>12 DEF OpenTerminal
<1>13. ASSUME NEW h \in Handlers, HoldTerminal(h) PROVE FALSE BY <1>13 DEF HoldTerminal
<1>14. ASSUME NEW h \in Handlers, DropTerminal(h) PROVE FALSE BY <1>14 DEF DropTerminal
<1>15. ASSUME NEW h \in Handlers, BeginClosing(h) PROVE FALSE BY <1>15 DEF BeginClosing
<1>16. ASSUME NEW h \in Handlers, StopRunForDeletion(h) PROVE FALSE BY <1>16 DEF StopRunForDeletion
<1>17. ASSUME NEW h \in Handlers, Settled(h) PROVE FALSE BY <1>17 DEF Settled
<1>18. ASSUME NEW h \in Handlers, StopTimedOut(h) PROVE FALSE BY <1>18 DEF StopTimedOut
<1>19. ASSUME NEW h \in Handlers, ReleaseWorktree(h) PROVE FALSE BY <1>19 DEF ReleaseWorktree
<1>20. ASSUME NEW h \in Handlers, Reopen(h) PROVE FALSE BY <1>20 DEF Reopen
<1>21. ASSUME NEW h \in Handlers, CloseForGood(h) PROVE FALSE BY <1>21 DEF CloseForGood
<1>22. ASSUME NEW h \in Handlers, Forget(h) PROVE FALSE BY <1>22 DEF Forget
<1>23. ASSUME NEW h \in Handlers, PruneBlank(h) PROVE FALSE BY <1>23 DEF PruneBlank
<1>24. ASSUME NEW h \in Handlers, PruneDecide(h) PROVE FALSE BY <1>24 DEF PruneDecide
<1>25. ASSUME NEW h \in Handlers, NEW k \in {"work", "move"}, TakeSlotFor(h, k) PROVE FALSE BY <1>25 DEF TakeSlotFor
<1>26. ASSUME NEW r \in Runs, BeginTurn(r) PROVE FALSE BY <1>26 DEF BeginTurn
<1>27. ASSUME NEW r \in Runs, ReadNotes(r) PROVE FALSE BY <1>27 DEF ReadNotes
<1>28. ASSUME NEW r \in Runs, EndTurn(r) PROVE FALSE BY <1>28 DEF EndTurn
<1>29. ASSUME NEW r \in Runs, RecordIntegration(r) PROVE FALSE BY <1>29 DEF RecordIntegration
<1>30. ASSUME NEW r \in Runs, CloseRun(r) PROVE FALSE BY <1>30 DEF CloseRun
<1>31. ASSUME NEW r \in Runs, Finish(r) PROVE FALSE BY <1>31 DEF Finish
<1>32. ASSUME NEW r \in Runs, EndRunAgain(r) PROVE FALSE BY <1>32 DEF EndRunAgain
<1>33. ASSUME NEW a \in Actors, DrainQueue(a) PROVE FALSE BY <1>33 DEF DrainQueue
<1>34. ASSUME NEW a \in Actors, TakeUnread(a) PROVE FALSE BY <1>34 DEF TakeUnread
<1>35. ASSUME NEW a \in Actors, PushUnread(a) PROVE FALSE BY <1>35 DEF PushUnread
<1>36. ASSUME NEW a \in Actors, TakeQueued(a) PROVE FALSE BY <1>36 DEF TakeQueued
<1>37. ASSUME NEW a \in Actors, NEW r \in Runs, LaunchRun(a, r) PROVE FALSE BY <1>37 DEF LaunchRun
<1>38. ASSUME WatchMerged PROVE FALSE BY <1>38 DEF WatchMerged
<1>39. ASSUME Shutdown PROVE FALSE BY <1>39 DEF Shutdown
<1>40. ASSUME UNCHANGED vars PROVE FALSE BY <1>40 DEF vars
<1> QED
    BY <1>1, <1>2, <1>3, <1>4, <1>5, <1>6, <1>7, <1>8, <1>9, <1>10, <1>11, <1>12, <1>13, <1>14, <1>15, <1>16, <1>17,
       <1>18, <1>19, <1>20, <1>21, <1>22, <1>23, <1>24, <1>25, <1>26, <1>27, <1>28, <1>29, <1>30, <1>31, <1>32, <1>33,
       <1>34, <1>35, <1>36, <1>37, <1>38, <1>39, <1>40 DEF Next, Request, HandlerStep, RunStep, DrainStep

-----------------------------------------------------------------------------
\* A message is in one place, as long as it is anywhere.
LEMMA OnePlace ==
    ASSUME MsgInv, NEW m \in Msgs
    PROVE  IF Placed(m) THEN \E x : Places(m) = {x} ELSE Places(m) = {}
<1> DEFINE Q == {k \in 1..Len(queue) : \E n \in 1..Len(queue[k]) : queue[k][n] = m}
           N == {k \in 1..Len(notes) : notes[k] = m}
           L == {k \in 1..Len(left) : left[k] = m}
           C == {b \in Actors : at[b] \in {"launch", "push_unread"} /\ \E n \in 1..Len(task[b]) : task[b][n] = m}
<1>1. /\ \A k : k \in Q <=> k \in 1..Len(queue) /\ m \in Ms(queue[k])
      /\ \A k : k \in N <=> k \in 1..Len(notes) /\ notes[k] = m
      /\ \A k : k \in L <=> k \in 1..Len(left) /\ left[k] = m
      /\ \A b : b \in C <=> b \in Actors /\ Carries(m, b)
  BY DEF Carries, Carriers, Ms
<1>2. Places(m) = {<<"queue", i, 0>> : i \in Q} \union {<<"notes", i, 0>> : i \in N}
                    \union {<<"left", i, 0>> : i \in L} \union {<<"carried", a, 0>> : a \in C}
  BY DEF Places
<1> HIDE DEF Q, N, L, C
<1>3. Once(m) /\ Apart(m) BY DEF MsgInv
<1>4. /\ InQueue(m) <=> Q # {}
      /\ InNotes(m) <=> N # {}
      /\ InLeft(m) <=> L # {}
      /\ IsCarried(m) <=> C # {}
  <2>1. InQueue(m) <=> Q # {} BY <1>1 DEF InQueue, In
  <2>2. InNotes(m) <=> N # {} BY <1>1 DEF InNotes, Ms
  <2>3. InLeft(m) <=> L # {} BY <1>1 DEF InLeft, Ms
  <2>4. IsCarried(m) <=> C # {} BY <1>1 DEF IsCarried
  <2> QED BY <2>1, <2>2, <2>3, <2>4
<1>5. /\ \A i, j \in Q : i = j
      /\ \A i, j \in N : i = j
      /\ \A i, j \in L : i = j
      /\ \A i, j \in C : i = j
  BY <1>1, <1>3 DEF Once, OnceIn, Single
<1>6. CASE InQueue(m)
  <2>1. N = {} /\ L = {} /\ C = {} BY <1>3, <1>4, <1>6 DEF Apart
  <2>2. PICK i : Q = {i} BY <1>4, <1>5, <1>6
  <2>3. Places(m) = {<<"queue", i, 0>>} BY <1>2, <2>1, <2>2
  <2> QED BY <1>6, <2>3 DEF Placed
<1>7. CASE InNotes(m)
  <2>1. Q = {} /\ L = {} /\ C = {} BY <1>3, <1>4, <1>7 DEF Apart
  <2>2. PICK i : N = {i} BY <1>4, <1>5, <1>7
  <2>3. Places(m) = {<<"notes", i, 0>>} BY <1>2, <2>1, <2>2
  <2> QED BY <1>7, <2>3 DEF Placed
<1>8. CASE InLeft(m)
  <2>1. Q = {} /\ N = {} /\ C = {} BY <1>3, <1>4, <1>8 DEF Apart
  <2>2. PICK i : L = {i} BY <1>4, <1>5, <1>8
  <2>3. Places(m) = {<<"left", i, 0>>} BY <1>2, <2>1, <2>2
  <2> QED BY <1>8, <2>3 DEF Placed
<1>9. CASE IsCarried(m)
  <2>0. ~InQueue(m) /\ ~InNotes(m) /\ ~InLeft(m) BY <1>3, <1>9 DEF Apart
  <2>1. Q = {} /\ N = {} /\ L = {} BY <1>4, <2>0
  <2>2. PICK i : C = {i}
    <3>1. PICK c \in C : TRUE BY <1>4, <1>9
    <3>2. \A j \in C : j = c BY <1>5
    <3>3. C = {c} BY <3>1, <3>2
    <3> QED BY <3>3
  <2>3. Places(m) = {<<"carried", i, 0>>} BY <1>2, <2>1, <2>2
  <2> QED BY <1>9, <2>3 DEF Placed
<1>10. CASE ~Placed(m)
  <2>1. Q = {} /\ N = {} /\ L = {} /\ C = {} BY <1>4, <1>10 DEF Placed
  <2> QED BY <1>2, <1>10, <2>1
<1> QED BY <1>6, <1>7, <1>8, <1>9, <1>10 DEF Placed

\* Nobody has sent anything yet.
LEMMA MsgInit == Init => MsgInv
<1> SUFFICES ASSUME Init PROVE MsgInv OBVIOUS
<1>1. /\ queue = <<>> /\ notes = <<>> /\ left = <<>> /\ order = <<>> /\ open = FALSE
      /\ \A a \in Actors : at[a] \in {"none", "idle"} /\ task[a] = <<>>
      /\ \A m \in Msgs : fate[m] = "new"
  BY DEF Init
<1>2. \A m \in Msgs : ~Placed(m) /\ \A a \in Actors : ~Sends(m, a)
  BY <1>1, MsFacts DEF Placed, InQueue, InNotes, InLeft, IsCarried, Carries, Carriers, Sends, Senders
<1>3. ASSUME NEW m \in Msgs PROVE Once(m) /\ Apart(m) /\ Fated(m)
  <2>1. Once(m) BY <1>1, MsFacts DEF Once, Carries
  <2>2. Apart(m) BY <1>2 DEF Apart, Placed
  <2>3. Fated(m) BY <1>1, <1>2 DEF Fated
  <2> QED BY <2>1, <2>2, <2>3
<1>4. Hands BY <1>1, MsFacts DEF Hands, Senders
<1>5. InboxOfTurn BY <1>1 DEF InboxOfTurn
<1>6. InOrder BY <1>1 DEF InOrder
<1>7. Spares BY <1>1 DEF Spares
<1> QED BY <1>3, <1>4, <1>5, <1>6, <1>7 DEF MsgInv

\* A message the gateway answered 202 is in one place, the queue, the inbox or
\* the hands of one goroutine, until a turn starts with it, reads it or a
\* deletion drops it; and messages of the queue start in the order it took them
\* (takeSlotOrEnqueue, requeueUnread, takeQueued, Inbox.End).
THEOREM MessagesInTurn == Spec => []EachInTurn
<1>1. Init => SlotInv
  BY DEF Init, SlotInv, SlotHasOneHolder, LiveRunIsTheHolder, Released, Holds, Holding, HandlerHolds, RunHolds
<1>2. ASSUME TypeOK, MsgInv PROVE EachInTurn
  <2>1. NotOvertaken BY <1>2 DEF MsgInv, InOrder, Behind, NotOvertaken
  <2>2. NothingLost
    <3> SUFFICES ASSUME NEW m \in Msgs
                 PROVE  IF fate[m] = "accepted" \/ (fate[m] = "sent" /\ Places(m) # {})
                          THEN Cardinality(Places(m)) = 1
                          ELSE Places(m) = {}
      BY DEF NothingLost
    <3>1. Fated(m) BY <1>2 DEF MsgInv
    <3>2. CASE Placed(m)
      <4>1. PICK x : Places(m) = {x} BY <1>2, <3>2, OnePlace
      <4>2. Cardinality(Places(m)) = 1 BY <4>1, FS_Singleton
      <4> QED BY <3>1, <3>2, <4>1, <4>2 DEF Fated
    <3>3. CASE ~Placed(m)
      <4>1. Places(m) = {} BY <1>2, <3>3, OnePlace
      <4> QED BY <3>1, <3>3, <4>1 DEF Fated
    <3> QED BY <3>2, <3>3
  <2> QED BY <2>1, <2>2 DEF EachInTurn
<1> QED BY <1>1, <1>2, MsgInit, TypeCorrect, SlotStep, MsgStep, PTL DEF Spec

\* handleInterrupt puts its message in the queue before it cancels the run it
\* read: should that run have ended meanwhile, the run the message started is
\* not the one cancelled.
THEOREM InterruptSpares == Spec => InterruptSparesItsOwn
<1>1. Init => SlotInv
  BY DEF Init, SlotInv, SlotHasOneHolder, LiveRunIsTheHolder, Released, Holds, Holding, HandlerHolds, RunHolds
<1> DEFINE A == \A h \in Handlers : at[h] = "cancel" /\ at'[h] = "idle" =>
                   \A r \in cancelled' \ cancelled : at[r] \in RunHolds =>
                      \A i \in 1..Len(task[h]) : \A j \in 1..Len(task[r]) : task[r][j] # task[h][i]
<1>2. TypeOK /\ MsgInv /\ [Next]_vars => [A]_vars
  <2> SUFFICES ASSUME TypeOK, MsgInv, [Next]_vars,
                      NEW h \in Handlers, at[h] = "cancel", at'[h] = "idle",
                      NEW r \in cancelled' \ cancelled, at[r] \in RunHolds,
                      NEW i \in 1..Len(task[h]), NEW j \in 1..Len(task[r])
               PROVE  task[r][j] # task[h][i]
    OBVIOUS
  <2>1. CancelTarget(h) BY OnlyCancels
  <2>2. r = target[h] /\ r # NoRun BY <2>1 DEF CancelTarget
  <2>3. Ms(task[h]) \intersect Ms(task[r]) = {} BY <2>2 DEF MsgInv, Spares
  <2> QED BY <2>3 DEF Ms
<1> HIDE DEF A
<1>3. Spec => [][A]_vars
  BY <1>1, <1>2, MsgInit, TypeCorrect, SlotStep, MsgStep, PTL DEF Spec
<1> QED BY <1>3 DEF A, InterruptSparesItsOwn
=============================================================================
