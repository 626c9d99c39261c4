----------------------------- MODULE StoreProofs -----------------------------
(***************************************************************************)
(* For any number of goroutines, messages and crashes: the files of         *)
(* SessionStore always hold a whole record of a session that was not        *)
(* deleted, and, of turns that are started one at a time, all that is owed  *)
(* to their senders and nothing that was answered.                          *)
(***************************************************************************)
EXTENDS MCStore, SequenceTheorems, TLAPS

USE StoreAssumption, FilesAreNotRecords DEF Actors

LEMMA RecordFacts ==
    /\ NoRecord \in Records
    /\ \A q \in Seq(Msgs), b \in BOOLEAN, l \in Msgs \union {NoMsg}, t \in SUBSET Msgs :
          [queue |-> q, running |-> b, last |-> l, turns |-> t] \in Records
    /\ \A r \in Records : /\ r.queue \in Seq(Msgs) /\ r.running \in BOOLEAN
                            /\ r.last \in Msgs \union {NoMsg} /\ r.turns \in SUBSET Msgs
    /\ \A r \in Records, t \in SUBSET Msgs : [r EXCEPT !.turns = t] \in Records
BY DEF Records, NoRecord

LEMMA QueueFacts ==
    /\ <<>> \in Seq(Msgs)
    /\ \A q \in Seq(Msgs), m \in Msgs : Append(q, m) \in Seq(Msgs)
    /\ \A q \in Seq(Msgs) : q # <<>> => Head(q) \in Msgs /\ Tail(q) \in Seq(Msgs)
OBVIOUS

\* Every step leaves each variable in its type.
LEMMA TypeStep == TypeOK /\ [Next]_vars => TypeOK'
  <1> SUFFICES ASSUME TypeOK, [Next]_vars PROVE TypeOK'
    OBVIOUS
  <1> USE RecordFacts, QueueFacts DEF TypeOK, Steps, SaveSteps, LaunchSteps, RunSteps, OtherSteps, BackSteps,
              Goto, Save, TakeSlot, vars, memory, disk, carried, history
  <1>1. ASSUME NEW a \in Actors, CheckKnown(a) PROVE TypeOK'
    <2>1. MemoryType'
      BY <1>1 DEF CheckKnown, MemoryType
    <2>2. DiskType'
      BY <1>1 DEF CheckKnown, DiskType
    <2>3. PlaceType'
      BY <1>1 DEF CheckKnown, PlaceType
    <2>4. CarriedType'
      BY <1>1 DEF CheckKnown, CarriedType
    <2>5. HistoryType'
      BY <1>1 DEF CheckKnown, HistoryType
    <2>6. Carrying'
      BY <1>1 DEF CheckKnown, PlaceType, CarriedType, Carrying
    <2> QED
      BY <2>1, <2>2, <2>3, <2>4, <2>5, <2>6
  <1>2. ASSUME NEW a \in Actors, CopyState(a) PROVE TypeOK'
    <2>1. MemoryType'
      BY <1>2 DEF CopyState, MemoryType
    <2>2. DiskType'
      BY <1>2 DEF CopyState, DiskType
    <2>3. PlaceType'
      BY <1>2 DEF CopyState, PlaceType
    <2>4. CarriedType'
      BY <1>2 DEF CopyState, CarriedType, MemoryType
    <2>5. HistoryType'
      BY <1>2 DEF CopyState, HistoryType
    <2>6. Carrying'
      BY <1>2 DEF CopyState, PlaceType, CarriedType, Carrying
    <2> QED
      BY <2>1, <2>2, <2>3, <2>4, <2>5, <2>6
  <1>3. ASSUME NEW a \in Actors, ReadTurns(a) PROVE TypeOK'
    <2>1. MemoryType'
      BY <1>3 DEF ReadTurns, MemoryType
    <2>2. DiskType'
      BY <1>3 DEF ReadTurns, DiskType
    <2>3. PlaceType'
      BY <1>3 DEF ReadTurns, PlaceType
    <2>4. CarriedType'
      BY <1>3 DEF ReadTurns, CarriedType, MemoryType
    <2>5. HistoryType'
      BY <1>3 DEF ReadTurns, HistoryType
    <2>6. Carrying'
      BY <1>3 DEF ReadTurns, PlaceType, CarriedType, Carrying
    <2> QED
      BY <2>1, <2>2, <2>3, <2>4, <2>5, <2>6
  <1>4. ASSUME NEW a \in Actors, OpenNew(a) PROVE TypeOK'
    <2>1. MemoryType'
      BY <1>4 DEF OpenNew, MemoryType
    <2>2. DiskType'
      BY <1>4 DEF OpenNew, DiskType
    <2>3. PlaceType'
      BY <1>4 DEF OpenNew, PlaceType
    <2>4. CarriedType'
      BY <1>4 DEF OpenNew, CarriedType
    <2>5. HistoryType'
      BY <1>4 DEF OpenNew, HistoryType
    <2>6. Carrying'
      BY <1>4 DEF OpenNew, PlaceType, CarriedType, Carrying
    <2> QED
      BY <2>1, <2>2, <2>3, <2>4, <2>5, <2>6
  <1>5. ASSUME NEW a \in Actors, SyncNew(a) PROVE TypeOK'
    <2>1. MemoryType'
      BY <1>5 DEF SyncNew, MemoryType
    <2>2. DiskType'
      BY <1>5 DEF SyncNew, DiskType, CarriedType
    <2>3. PlaceType'
      BY <1>5 DEF SyncNew, PlaceType
    <2>4. CarriedType'
      BY <1>5 DEF SyncNew, CarriedType
    <2>5. HistoryType'
      BY <1>5 DEF SyncNew, HistoryType
    <2>6. Carrying'
      BY <1>5 DEF SyncNew, PlaceType, CarriedType, Carrying
    <2> QED
      BY <2>1, <2>2, <2>3, <2>4, <2>5, <2>6
  <1>6. ASSUME NEW a \in Actors, KeepPrevious(a) PROVE TypeOK'
    <2>1. MemoryType'
      BY <1>6 DEF KeepPrevious, MemoryType
    <2>2. DiskType'
      BY <1>6 DEF KeepPrevious, DiskType
    <2>3. PlaceType'
      BY <1>6 DEF KeepPrevious, PlaceType
    <2>4. CarriedType'
      BY <1>6 DEF KeepPrevious, CarriedType
    <2>5. HistoryType'
      BY <1>6 DEF KeepPrevious, HistoryType
    <2>6. Carrying'
      BY <1>6 DEF KeepPrevious, PlaceType, CarriedType, Carrying
    <2> QED
      BY <2>1, <2>2, <2>3, <2>4, <2>5, <2>6
  <1>7. ASSUME NEW a \in Actors, Replace(a) PROVE TypeOK'
    <2>1. MemoryType'
      BY <1>7 DEF Replace, MemoryType
    <2>2. DiskType'
      BY <1>7 DEF Replace, DiskType
    <2>3. PlaceType'
      BY <1>7 DEF Replace, PlaceType
    <2>4. CarriedType'
      BY <1>7 DEF Replace, CarriedType
    <2>5. HistoryType'
      BY <1>7 DEF Replace, Accept, HistoryType, CarriedType
    <2>6. Carrying'
      BY <1>7 DEF Replace, PlaceType, CarriedType, Carrying
    <2> QED
      BY <2>1, <2>2, <2>3, <2>4, <2>5, <2>6
  <1>8. ASSUME NEW a \in Actors, DrainQueue(a) PROVE TypeOK'
    <2>1. MemoryType'
      <3>1. CASE alive /\ ~running /\ ~closing /\ queue # <<>>
        <4>1. queue' = Tail(queue) /\ Tail(queue) \in Seq(Msgs)
          BY <1>8, <3>1 DEF DrainQueue, MemoryType
        <4> QED
          BY <1>8, <3>1, <4>1 DEF DrainQueue, MemoryType
      <3>2. CASE ~(alive /\ ~running /\ ~closing /\ queue # <<>>)
        BY <1>8, <3>2 DEF DrainQueue, MemoryType
      <3> QED
        BY <3>1, <3>2
    <2>2. DiskType'
      BY <1>8 DEF DrainQueue, DiskType
    <2>3. PlaceType'
      BY <1>8 DEF DrainQueue, PlaceType
    <2>4. CarriedType'
      BY <1>8 DEF DrainQueue, CarriedType, MemoryType
    <2>5. HistoryType'
      BY <1>8 DEF DrainQueue, HistoryType
    <2>6. Carrying'
      <3>1. CASE alive /\ ~running /\ ~closing /\ queue # <<>>
        <4>1. Head(queue) \in Msgs
          BY <3>1 DEF MemoryType
        <4>2. /\ at' = [at EXCEPT ![a] = "set_current"]
              /\ back' = [back EXCEPT ![a] = "spawn"]
              /\ msg' = [msg EXCEPT ![a] = Head(queue)]
          BY <1>8, <3>1 DEF DrainQueue
        <4> QED
          BY <4>1, <4>2 DEF PlaceType, CarriedType, Carrying
      <3>2. CASE ~(alive /\ ~running /\ ~closing /\ queue # <<>>)
        <4>1. /\ at' = [at EXCEPT ![a] = "idle"] /\ back' = back
              /\ msg' = [msg EXCEPT ![a] = NoMsg]
          BY <1>8, <3>2 DEF DrainQueue
        <4> QED
          BY <4>1 DEF PlaceType, CarriedType, Carrying
      <3> QED
        BY <3>1, <3>2
    <2> QED
      BY <2>1, <2>2, <2>3, <2>4, <2>5, <2>6
  <1>9. ASSUME NEW a \in Actors, SetCurrentRun(a) PROVE TypeOK'
    <2>1. MemoryType'
      BY <1>9 DEF SetCurrentRun, MemoryType
    <2>2. DiskType'
      BY <1>9 DEF SetCurrentRun, DiskType
    <2>3. PlaceType'
      BY <1>9 DEF SetCurrentRun, PlaceType
    <2>4. CarriedType'
      BY <1>9 DEF SetCurrentRun, CarriedType
    <2>5. HistoryType'
      BY <1>9 DEF SetCurrentRun, HistoryType
    <2>6. Carrying'
      BY <1>9 DEF SetCurrentRun, PlaceType, CarriedType, Carrying
    <2> QED
      BY <2>1, <2>2, <2>3, <2>4, <2>5, <2>6
  <1>10. ASSUME NEW a \in Actors, SetLastTask(a) PROVE TypeOK'
    <2>1. MemoryType'
      BY <1>10 DEF SetLastTask, MemoryType, CarriedType
    <2>2. DiskType'
      BY <1>10 DEF SetLastTask, DiskType
    <2>3. PlaceType'
      BY <1>10 DEF SetLastTask, PlaceType
    <2>4. CarriedType'
      BY <1>10 DEF SetLastTask, CarriedType
    <2>5. HistoryType'
      BY <1>10 DEF SetLastTask, HistoryType
    <2>6. Carrying'
      BY <1>10 DEF SetLastTask, PlaceType, CarriedType, Carrying
    <2> QED
      BY <2>1, <2>2, <2>3, <2>4, <2>5, <2>6
  <1>11. ASSUME NEW a \in Actors, NEW r \in Runs, SpawnRun(a, r) PROVE TypeOK'
    <2>1. MemoryType'
      BY <1>11 DEF SpawnRun, MemoryType
    <2>2. DiskType'
      BY <1>11 DEF SpawnRun, DiskType
    <2>3. PlaceType'
      BY <1>11 DEF SpawnRun, PlaceType
    <2>4. CarriedType'
      BY <1>11 DEF SpawnRun, CarriedType
    <2>5. HistoryType'
      BY <1>11 DEF SpawnRun, HistoryType
    <2>6. Carrying'
      BY <1>11 DEF SpawnRun, PlaceType, CarriedType, Carrying
    <2> QED
      BY <2>1, <2>2, <2>3, <2>4, <2>5, <2>6
  <1>12. ASSUME NEW h \in Handlers, NEW m \in Msgs, NEW kind \in {"start", "queue"}, Send(h, kind, m) PROVE TypeOK'
    <2>1. MemoryType'
      BY <1>12 DEF Send, MemoryType
    <2>2. DiskType'
      BY <1>12 DEF Send, DiskType
    <2>3. PlaceType'
      BY <1>12 DEF Send, PlaceType
    <2>4. CarriedType'
      BY <1>12 DEF Send, CarriedType
    <2>5. HistoryType'
      BY <1>12 DEF Send, HistoryType
    <2>6. Carrying'
      BY <1>12 DEF Send, Arrives, PlaceType, CarriedType, Carrying
    <2> QED
      BY <2>1, <2>2, <2>3, <2>4, <2>5, <2>6
  <1>13. ASSUME NEW h \in Handlers, Touch(h) PROVE TypeOK'
    <2>1. MemoryType'
      BY <1>13 DEF Touch, MemoryType
    <2>2. DiskType'
      BY <1>13 DEF Touch, DiskType
    <2>3. PlaceType'
      BY <1>13 DEF Touch, PlaceType
    <2>4. CarriedType'
      BY <1>13 DEF Touch, CarriedType
    <2>5. HistoryType'
      BY <1>13 DEF Touch, HistoryType
    <2>6. Carrying'
      BY <1>13 DEF Touch, Arrives, PlaceType, CarriedType, Carrying
    <2> QED
      BY <2>1, <2>2, <2>3, <2>4, <2>5, <2>6
  <1>14. ASSUME NEW h \in Handlers, BeginClosing(h) PROVE TypeOK'
    <2>1. MemoryType'
      BY <1>14 DEF BeginClosing, MemoryType
    <2>2. DiskType'
      BY <1>14 DEF BeginClosing, DiskType
    <2>3. PlaceType'
      BY <1>14 DEF BeginClosing, PlaceType
    <2>4. CarriedType'
      BY <1>14 DEF BeginClosing, CarriedType
    <2>5. HistoryType'
      BY <1>14 DEF BeginClosing, HistoryType
    <2>6. Carrying'
      BY <1>14 DEF BeginClosing, Arrives, PlaceType, CarriedType, Carrying
    <2> QED
      BY <2>1, <2>2, <2>3, <2>4, <2>5, <2>6
  <1>15. ASSUME NEW h \in Handlers, StartNotedRun(h) PROVE TypeOK'
    <2>1. MemoryType'
      BY <1>15 DEF StartNotedRun, MemoryType
    <2>2. DiskType'
      BY <1>15 DEF StartNotedRun, DiskType
    <2>3. PlaceType'
      BY <1>15 DEF StartNotedRun, PlaceType
    <2>4. CarriedType'
      BY <1>15 DEF StartNotedRun, CarriedType
    <2>5. HistoryType'
      BY <1>15 DEF StartNotedRun, HistoryType
    <2>6. Carrying'
      <3>1. msg[h] \in Msgs
        BY <1>15 DEF StartNotedRun, Carrying
      <3>2. CASE ~running /\ ~closing
        <4>1. /\ at' = [at EXCEPT ![h] = "set_current"]
              /\ back' = [back EXCEPT ![h] = "spawn"]
              /\ msg' = [msg EXCEPT ![h] = msg[h]]
          BY <1>15, <3>2 DEF StartNotedRun
        <4> QED
          BY <3>1, <4>1 DEF PlaceType, CarriedType, Carrying
      <3>3. CASE running \/ closing
        <4>1. /\ at' = [at EXCEPT ![h] = "idle"] /\ back' = back
              /\ msg' = [msg EXCEPT ![h] = NoMsg]
          BY <1>15, <3>3 DEF StartNotedRun
        <4> QED
          BY <4>1 DEF PlaceType, CarriedType, Carrying
      <3> QED
        BY <3>2, <3>3
    <2> QED
      BY <2>1, <2>2, <2>3, <2>4, <2>5, <2>6
  <1>16. ASSUME NEW h \in Handlers, StartOrQueue(h) PROVE TypeOK'
    <2>1. MemoryType'
      <3>1. msg[h] \in Msgs
        BY <1>16 DEF StartOrQueue, Carrying
      <3>2. queue \in Seq(Msgs) /\ Append(queue, msg[h]) \in Seq(Msgs)
        BY <3>1 DEF MemoryType
      <3>3. queue' \in {queue, Append(queue, msg[h])} /\ running' \in BOOLEAN
        BY <1>16 DEF StartOrQueue, MemoryType
      <3> QED
        BY <1>16, <3>2, <3>3 DEF StartOrQueue, MemoryType
    <2>2. DiskType'
      BY <1>16 DEF StartOrQueue, DiskType
    <2>3. PlaceType'
      BY <1>16 DEF StartOrQueue, PlaceType
    <2>4. CarriedType'
      BY <1>16 DEF StartOrQueue, CarriedType
    <2>5. HistoryType'
      BY <1>16 DEF StartOrQueue, HistoryType
    <2>6. Carrying'
      BY <1>16 DEF StartOrQueue, PlaceType, CarriedType, Carrying
    <2> QED
      BY <2>1, <2>2, <2>3, <2>4, <2>5, <2>6
  <1>17. ASSUME NEW h \in Handlers, RunStopped(h) PROVE TypeOK'
    <2>1. MemoryType'
      BY <1>17 DEF RunStopped, MemoryType
    <2>2. DiskType'
      BY <1>17 DEF RunStopped, DiskType
    <2>3. PlaceType'
      BY <1>17 DEF RunStopped, PlaceType
    <2>4. CarriedType'
      BY <1>17 DEF RunStopped, CarriedType
    <2>5. HistoryType'
      BY <1>17 DEF RunStopped, HistoryType
    <2>6. Carrying'
      BY <1>17 DEF RunStopped, PlaceType, CarriedType, Carrying
    <2> QED
      BY <2>1, <2>2, <2>3, <2>4, <2>5, <2>6
  <1>18. ASSUME NEW h \in Handlers, Forget(h) PROVE TypeOK'
    <2>1. MemoryType'
      BY <1>18 DEF Forget, MemoryType
    <2>2. DiskType'
      BY <1>18 DEF Forget, DiskType
    <2>3. PlaceType'
      BY <1>18 DEF Forget, PlaceType
    <2>4. CarriedType'
      BY <1>18 DEF Forget, CarriedType
    <2>5. HistoryType'
      BY <1>18 DEF Forget, HistoryType
    <2>6. Carrying'
      BY <1>18 DEF Forget, PlaceType, CarriedType, Carrying
    <2> QED
      BY <2>1, <2>2, <2>3, <2>4, <2>5, <2>6
  <1>19. ASSUME NEW h \in Handlers, DeletePersisted(h) PROVE TypeOK'
    <2>1. MemoryType'
      BY <1>19 DEF DeletePersisted, MemoryType
    <2>2. DiskType'
      BY <1>19 DEF DeletePersisted, DiskType
    <2>3. PlaceType'
      BY <1>19 DEF DeletePersisted, PlaceType
    <2>4. CarriedType'
      BY <1>19 DEF DeletePersisted, CarriedType
    <2>5. HistoryType'
      BY <1>19 DEF DeletePersisted, HistoryType
    <2>6. Carrying'
      BY <1>19 DEF DeletePersisted, PlaceType, CarriedType, Carrying
    <2> QED
      BY <2>1, <2>2, <2>3, <2>4, <2>5, <2>6
  <1>20. ASSUME NEW r \in Runs, FinishTurn(r) PROVE TypeOK'
    <2>1. MemoryType'
      BY <1>20 DEF FinishTurn, MemoryType, Carrying
    <2>2. DiskType'
      BY <1>20 DEF FinishTurn, DiskType
    <2>3. PlaceType'
      BY <1>20 DEF FinishTurn, PlaceType
    <2>4. CarriedType'
      BY <1>20 DEF FinishTurn, CarriedType
    <2>5. HistoryType'
      BY <1>20 DEF FinishTurn, HistoryType
    <2>6. Carrying'
      BY <1>20 DEF FinishTurn, PlaceType, CarriedType, Carrying
    <2> QED
      BY <2>1, <2>2, <2>3, <2>4, <2>5, <2>6
  <1>21. ASSUME NEW r \in Runs, CutTurn(r) PROVE TypeOK'
    <2>1. MemoryType'
      BY <1>21 DEF CutTurn, MemoryType
    <2>2. DiskType'
      BY <1>21 DEF CutTurn, DiskType
    <2>3. PlaceType'
      BY <1>21 DEF CutTurn, PlaceType
    <2>4. CarriedType'
      BY <1>21 DEF CutTurn, CarriedType
    <2>5. HistoryType'
      BY <1>21 DEF CutTurn, HistoryType
    <2>6. Carrying'
      BY <1>21 DEF CutTurn, PlaceType, CarriedType, Carrying
    <2> QED
      BY <2>1, <2>2, <2>3, <2>4, <2>5, <2>6
  <1>22. ASSUME NEW r \in Runs, CloseRun(r) PROVE TypeOK'
    <2>1. MemoryType'
      BY <1>22 DEF CloseRun, MemoryType
    <2>2. DiskType'
      BY <1>22 DEF CloseRun, DiskType
    <2>3. PlaceType'
      BY <1>22 DEF CloseRun, PlaceType
    <2>4. CarriedType'
      BY <1>22 DEF CloseRun, CarriedType
    <2>5. HistoryType'
      BY <1>22 DEF CloseRun, HistoryType
    <2>6. Carrying'
      BY <1>22 DEF CloseRun, PlaceType, CarriedType, Carrying
    <2> QED
      BY <2>1, <2>2, <2>3, <2>4, <2>5, <2>6
  <1>23. ASSUME NEW r \in Runs, EndRun(r) PROVE TypeOK'
    <2>1. MemoryType'
      BY <1>23 DEF EndRun, MemoryType
    <2>2. DiskType'
      BY <1>23 DEF EndRun, DiskType
    <2>3. PlaceType'
      BY <1>23 DEF EndRun, PlaceType
    <2>4. CarriedType'
      BY <1>23 DEF EndRun, CarriedType
    <2>5. HistoryType'
      BY <1>23 DEF EndRun, HistoryType
    <2>6. Carrying'
      BY <1>23 DEF EndRun, PlaceType, CarriedType, Carrying
    <2> QED
      BY <2>1, <2>2, <2>3, <2>4, <2>5, <2>6
  <1>24. ASSUME NEW r \in Runs, Tell(r) PROVE TypeOK'
    <2>1. MemoryType'
      BY <1>24 DEF Tell, MemoryType
    <2>2. DiskType'
      BY <1>24 DEF Tell, DiskType
    <2>3. PlaceType'
      BY <1>24 DEF Tell, PlaceType
    <2>4. CarriedType'
      BY <1>24 DEF Tell, CarriedType
    <2>5. HistoryType'
      BY <1>24 DEF Tell, HistoryType, MemoryType
    <2>6. Carrying'
      BY <1>24 DEF Tell, PlaceType, CarriedType, Carrying
    <2> QED
      BY <2>1, <2>2, <2>3, <2>4, <2>5, <2>6
  <1>25. ASSUME Restart PROVE TypeOK'
    <2>1. MemoryType'
      BY <1>25 DEF Restart, MemoryType
    <2>2. DiskType'
      BY <1>25 DEF Restart, DiskType
    <2>3. PlaceType'
      BY <1>25 DEF Restart, PlaceType
    <2>4. CarriedType'
      BY <1>25 DEF Restart, CarriedType
    <2>5. HistoryType'
      BY <1>25 DEF Restart, HistoryType
    <2>6. Carrying'
      BY <1>25 DEF Restart, PlaceType, CarriedType, Carrying
    <2> QED
      BY <2>1, <2>2, <2>3, <2>4, <2>5, <2>6
  <1>26. ASSUME LoadPersistedSessions PROVE TypeOK'
    <2>1. MemoryType'
      BY <1>26 DEF LoadPersistedSessions, MemoryType, LoadAll, DiskType
    <2>2. DiskType'
      BY <1>26 DEF LoadPersistedSessions, DiskType, SetAside, LoadAll
    <2>3. PlaceType'
      BY <1>26 DEF LoadPersistedSessions, PlaceType
    <2>4. CarriedType'
      BY <1>26 DEF LoadPersistedSessions, CarriedType
    <2>5. HistoryType'
      BY <1>26 DEF LoadPersistedSessions, HistoryType
    <2>6. Carrying'
      BY <1>26 DEF LoadPersistedSessions, PlaceType, CarriedType, Carrying
    <2> QED
      BY <2>1, <2>2, <2>3, <2>4, <2>5, <2>6
  <1>27. ASSUME ResumeInterrupted PROVE TypeOK'
    <2>1. MemoryType'
      BY <1>27 DEF ResumeInterrupted, MemoryType
    <2>2. DiskType'
      BY <1>27 DEF ResumeInterrupted, DiskType, SetAside, LoadAll
    <2>3. PlaceType'
      BY <1>27 DEF ResumeInterrupted, PlaceType
    <2>4. CarriedType'
      BY <1>27 DEF ResumeInterrupted, CarriedType, LoadAll, DiskType
    <2>5. HistoryType'
      BY <1>27 DEF ResumeInterrupted, HistoryType
    <2>6. Carrying'
      BY <1>27 DEF ResumeInterrupted, LoadAll, DiskType, PlaceType, CarriedType, Carrying
    <2> QED
      BY <2>1, <2>2, <2>3, <2>4, <2>5, <2>6
  <1>28. ASSUME SaveAllSessions PROVE TypeOK'
    <2>1. MemoryType'
      BY <1>28 DEF SaveAllSessions, MemoryType
    <2>2. DiskType'
      BY <1>28 DEF SaveAllSessions, DiskType
    <2>3. PlaceType'
      BY <1>28 DEF SaveAllSessions, PlaceType
    <2>4. CarriedType'
      BY <1>28 DEF SaveAllSessions, CarriedType
    <2>5. HistoryType'
      BY <1>28 DEF SaveAllSessions, HistoryType
    <2>6. Carrying'
      BY <1>28 DEF SaveAllSessions, PlaceType, CarriedType, Carrying
    <2> QED
      BY <2>1, <2>2, <2>3, <2>4, <2>5, <2>6
  <1>29. ASSUME CancelAll PROVE TypeOK'
    <2>1. MemoryType'
      BY <1>29 DEF CancelAll, MemoryType
    <2>2. DiskType'
      BY <1>29 DEF CancelAll, DiskType
    <2>3. PlaceType'
      BY <1>29 DEF CancelAll, PlaceType
    <2>4. CarriedType'
      BY <1>29 DEF CancelAll, CarriedType
    <2>5. HistoryType'
      BY <1>29 DEF CancelAll, HistoryType
    <2>6. Carrying'
      BY <1>29 DEF CancelAll, PlaceType, CarriedType, Carrying
    <2> QED
      BY <2>1, <2>2, <2>3, <2>4, <2>5, <2>6
  <1>30. ASSUME Crash PROVE TypeOK'
    <2>1. MemoryType'
      BY <1>30 DEF Crash, MemoryType
    <2>2. DiskType'
      BY <1>30 DEF Crash, DiskType
    <2>3. PlaceType'
      BY <1>30 DEF Crash, PlaceType
    <2>4. CarriedType'
      BY <1>30 DEF Crash, CarriedType
    <2>5. HistoryType'
      BY <1>30 DEF Crash, HistoryType
    <2>6. Carrying'
      BY <1>30 DEF Crash, PlaceType, CarriedType, Carrying
    <2> QED
      BY <2>1, <2>2, <2>3, <2>4, <2>5, <2>6
  <1>31. ASSUME SpoilFile PROVE TypeOK'
    <2>1. MemoryType'
      BY <1>31 DEF SpoilFile, MemoryType
    <2>2. DiskType'
      BY <1>31 DEF SpoilFile, DiskType
    <2>3. PlaceType'
      BY <1>31 DEF SpoilFile, PlaceType
    <2>4. CarriedType'
      BY <1>31 DEF SpoilFile, CarriedType
    <2>5. HistoryType'
      BY <1>31 DEF SpoilFile, HistoryType
    <2>6. Carrying'
      BY <1>31 DEF SpoilFile, PlaceType, CarriedType, Carrying
    <2> QED
      BY <2>1, <2>2, <2>3, <2>4, <2>5, <2>6
  <1>32. CASE UNCHANGED vars
    BY <1>32 DEF MemoryType, DiskType, PlaceType, CarriedType, HistoryType, Carrying
  <1> QED
    BY <1>1, <1>2, <1>3, <1>4, <1>5, <1>6, <1>7, <1>8, <1>9, <1>10, <1>11, <1>12, <1>13, <1>14, <1>15, <1>16, <1>17,
       <1>18, <1>19, <1>20, <1>21, <1>22, <1>23, <1>24, <1>25, <1>26, <1>27, <1>28, <1>29, <1>30, <1>31, <1>32 DEF Next,
       SaveStep, TurnStep, HandlerStep, RunStep, StartStep, Request

\* The store's lock: one goroutine is at the disk, and the lock is its own; with no
\* process there is none.
LockKept ==
    /\ \A a \in Actors : at[a] \in {"sync", "keep", "replace"} <=> writer = a
    /\ ~up => \A a \in Actors : at[a] = "idle"

\* What is synced is whole, and the session's own file too until the disk loses it.
FilesWhole ==
    /\ \A a \in Actors : at[a] \in {"keep", "replace"} => tmp \in Records
    /\ spoiled \/ (main # Torn /\ prev # Torn)
    /\ spoiled \/ gone \/ main \in Records \/ prev \in Records

\* Every step keeps the lock and the files.
LEMMA FilesStep ==
    TypeOK /\ LockKept /\ FilesWhole /\ [Next]_vars => LockKept' /\ FilesWhole'
  <1> SUFFICES ASSUME TypeOK, LockKept, FilesWhole, [Next]_vars PROVE LockKept' /\ FilesWhole'
    OBVIOUS
  <1> USE DEF TypeOK, DiskType, PlaceType, CarriedType, BackSteps,
              Goto, Save, TakeSlot, vars, memory, disk, carried, history
  <1>1. ASSUME NEW a \in Actors, CheckKnown(a) PROVE LockKept' /\ FilesWhole'
    <2>1. LockKept'
      BY <1>1 DEF CheckKnown, LockKept
    <2>2. FilesWhole'
      BY <1>1 DEF CheckKnown, FilesWhole
    <2> QED
      BY <2>1, <2>2
  <1>2. ASSUME NEW a \in Actors, CopyState(a) PROVE LockKept' /\ FilesWhole'
    <2>1. LockKept'
      BY <1>2 DEF CopyState, LockKept
    <2>2. FilesWhole'
      BY <1>2 DEF CopyState, FilesWhole
    <2> QED
      BY <2>1, <2>2
  <1>3. ASSUME NEW a \in Actors, ReadTurns(a) PROVE LockKept' /\ FilesWhole'
    <2>1. LockKept'
      BY <1>3 DEF ReadTurns, LockKept
    <2>2. FilesWhole'
      BY <1>3 DEF ReadTurns, FilesWhole
    <2> QED
      BY <2>1, <2>2
  <1>4. ASSUME NEW a \in Actors, OpenNew(a) PROVE LockKept' /\ FilesWhole'
    <2>1. LockKept'
      BY <1>4 DEF OpenNew, LockKept
    <2>2. FilesWhole'
      BY <1>4 DEF OpenNew, LockKept, FilesWhole
    <2> QED
      BY <2>1, <2>2
  <1>5. ASSUME NEW a \in Actors, SyncNew(a) PROVE LockKept' /\ FilesWhole'
    <2>1. LockKept'
      BY <1>5 DEF SyncNew, LockKept
    <2>2. FilesWhole'
      BY <1>5 DEF SyncNew, FilesWhole
    <2> QED
      BY <2>1, <2>2
  <1>6. ASSUME NEW a \in Actors, KeepPrevious(a) PROVE LockKept' /\ FilesWhole'
    <2>1. LockKept'
      BY <1>6 DEF KeepPrevious, LockKept
    <2>2. FilesWhole'
      BY <1>6 DEF KeepPrevious, FilesWhole
    <2> QED
      BY <2>1, <2>2
  <1>7. ASSUME NEW a \in Actors, Replace(a) PROVE LockKept' /\ FilesWhole'
    <2>1. LockKept'
      BY <1>7 DEF Replace, LockKept
    <2>2. FilesWhole'
      BY <1>7 DEF Replace, LockKept, FilesWhole
    <2> QED
      BY <2>1, <2>2
  <1>8. ASSUME NEW a \in Actors, DrainQueue(a) PROVE LockKept' /\ FilesWhole'
    <2>1. LockKept'
      BY <1>8 DEF DrainQueue, LockKept
    <2>2. FilesWhole'
      BY <1>8 DEF DrainQueue, FilesWhole
    <2> QED
      BY <2>1, <2>2
  <1>9. ASSUME NEW a \in Actors, SetCurrentRun(a) PROVE LockKept' /\ FilesWhole'
    <2>1. LockKept'
      BY <1>9 DEF SetCurrentRun, LockKept
    <2>2. FilesWhole'
      BY <1>9 DEF SetCurrentRun, FilesWhole
    <2> QED
      BY <2>1, <2>2
  <1>10. ASSUME NEW a \in Actors, SetLastTask(a) PROVE LockKept' /\ FilesWhole'
    <2>1. LockKept'
      BY <1>10 DEF SetLastTask, LockKept
    <2>2. FilesWhole'
      BY <1>10 DEF SetLastTask, FilesWhole
    <2> QED
      BY <2>1, <2>2
  <1>11. ASSUME NEW a \in Actors, NEW r \in Runs, SpawnRun(a, r) PROVE LockKept' /\ FilesWhole'
    <2>1. LockKept'
      BY <1>11 DEF SpawnRun, LockKept
    <2>2. FilesWhole'
      BY <1>11 DEF SpawnRun, FilesWhole
    <2> QED
      BY <2>1, <2>2
  <1>12. ASSUME NEW h \in Handlers, NEW m \in Msgs, NEW kind \in {"start", "queue"}, Send(h, kind, m) PROVE LockKept' /\ FilesWhole'
    <2>1. LockKept'
      BY <1>12 DEF Send, Arrives, Serving, LockKept
    <2>2. FilesWhole'
      BY <1>12 DEF Send, FilesWhole
    <2> QED
      BY <2>1, <2>2
  <1>13. ASSUME NEW h \in Handlers, Touch(h) PROVE LockKept' /\ FilesWhole'
    <2>1. LockKept'
      BY <1>13 DEF Touch, Arrives, Serving, LockKept
    <2>2. FilesWhole'
      BY <1>13 DEF Touch, FilesWhole
    <2> QED
      BY <2>1, <2>2
  <1>14. ASSUME NEW h \in Handlers, BeginClosing(h) PROVE LockKept' /\ FilesWhole'
    <2>1. LockKept'
      BY <1>14 DEF BeginClosing, Arrives, Serving, LockKept
    <2>2. FilesWhole'
      BY <1>14 DEF BeginClosing, FilesWhole
    <2> QED
      BY <2>1, <2>2
  <1>15. ASSUME NEW h \in Handlers, StartNotedRun(h) PROVE LockKept' /\ FilesWhole'
    <2>1. LockKept'
      BY <1>15 DEF StartNotedRun, LockKept
    <2>2. FilesWhole'
      BY <1>15 DEF StartNotedRun, FilesWhole
    <2> QED
      BY <2>1, <2>2
  <1>16. ASSUME NEW h \in Handlers, StartOrQueue(h) PROVE LockKept' /\ FilesWhole'
    <2>1. LockKept'
      BY <1>16 DEF StartOrQueue, LockKept
    <2>2. FilesWhole'
      BY <1>16 DEF StartOrQueue, FilesWhole
    <2> QED
      BY <2>1, <2>2
  <1>17. ASSUME NEW h \in Handlers, RunStopped(h) PROVE LockKept' /\ FilesWhole'
    <2>1. LockKept'
      BY <1>17 DEF RunStopped, LockKept
    <2>2. FilesWhole'
      BY <1>17 DEF RunStopped, FilesWhole
    <2> QED
      BY <2>1, <2>2
  <1>18. ASSUME NEW h \in Handlers, Forget(h) PROVE LockKept' /\ FilesWhole'
    <2>1. LockKept'
      BY <1>18 DEF Forget, LockKept
    <2>2. FilesWhole'
      BY <1>18 DEF Forget, FilesWhole
    <2> QED
      BY <2>1, <2>2
  <1>19. ASSUME NEW h \in Handlers, DeletePersisted(h) PROVE LockKept' /\ FilesWhole'
    <2>1. LockKept'
      BY <1>19 DEF DeletePersisted, LockKept
    <2>2. FilesWhole'
      BY <1>19 DEF DeletePersisted, FilesWhole
    <2> QED
      BY <2>1, <2>2
  <1>20. ASSUME NEW r \in Runs, FinishTurn(r) PROVE LockKept' /\ FilesWhole'
    <2>1. LockKept'
      BY <1>20 DEF FinishTurn, LockKept
    <2>2. FilesWhole'
      BY <1>20 DEF FinishTurn, FilesWhole
    <2> QED
      BY <2>1, <2>2
  <1>21. ASSUME NEW r \in Runs, CutTurn(r) PROVE LockKept' /\ FilesWhole'
    <2>1. LockKept'
      BY <1>21 DEF CutTurn, LockKept
    <2>2. FilesWhole'
      BY <1>21 DEF CutTurn, FilesWhole
    <2> QED
      BY <2>1, <2>2
  <1>22. ASSUME NEW r \in Runs, CloseRun(r) PROVE LockKept' /\ FilesWhole'
    <2>1. LockKept'
      BY <1>22 DEF CloseRun, LockKept
    <2>2. FilesWhole'
      BY <1>22 DEF CloseRun, FilesWhole
    <2> QED
      BY <2>1, <2>2
  <1>23. ASSUME NEW r \in Runs, EndRun(r) PROVE LockKept' /\ FilesWhole'
    <2>1. LockKept'
      BY <1>23 DEF EndRun, LockKept
    <2>2. FilesWhole'
      BY <1>23 DEF EndRun, FilesWhole
    <2> QED
      BY <2>1, <2>2
  <1>24. ASSUME NEW r \in Runs, Tell(r) PROVE LockKept' /\ FilesWhole'
    <2>1. LockKept'
      BY <1>24 DEF Tell, LockKept
    <2>2. FilesWhole'
      BY <1>24 DEF Tell, FilesWhole
    <2> QED
      BY <2>1, <2>2
  <1>25. ASSUME Restart PROVE LockKept' /\ FilesWhole'
    <2>1. LockKept'
      BY <1>25 DEF Restart, LockKept
    <2>2. FilesWhole'
      BY <1>25 DEF Restart, FilesWhole
    <2> QED
      BY <2>1, <2>2
  <1>26. ASSUME LoadPersistedSessions PROVE LockKept' /\ FilesWhole'
    <2>1. LockKept'
      BY <1>26 DEF LoadPersistedSessions, LockKept
    <2>2. FilesWhole'
      BY <1>26 DEF LoadPersistedSessions, SetAside, FilesWhole
    <2> QED
      BY <2>1, <2>2
  <1>27. ASSUME ResumeInterrupted PROVE LockKept' /\ FilesWhole'
    <2>1. LockKept'
      BY <1>27 DEF ResumeInterrupted, LockKept
    <2>2. FilesWhole'
      BY <1>27 DEF ResumeInterrupted, SetAside, FilesWhole
    <2> QED
      BY <2>1, <2>2
  <1>28. ASSUME SaveAllSessions PROVE LockKept' /\ FilesWhole'
    <2>1. LockKept'
      BY <1>28 DEF SaveAllSessions, Serving, LockKept
    <2>2. FilesWhole'
      BY <1>28 DEF SaveAllSessions, FilesWhole
    <2> QED
      BY <2>1, <2>2
  <1>29. ASSUME CancelAll PROVE LockKept' /\ FilesWhole'
    <2>1. LockKept'
      BY <1>29 DEF CancelAll, LockKept
    <2>2. FilesWhole'
      BY <1>29 DEF CancelAll, FilesWhole
    <2> QED
      BY <2>1, <2>2
  <1>30. ASSUME Crash PROVE LockKept' /\ FilesWhole'
    <2>1. LockKept'
      BY <1>30 DEF Crash, LockKept
    <2>2. FilesWhole'
      BY <1>30 DEF Crash, FilesWhole
    <2> QED
      BY <2>1, <2>2
  <1>31. ASSUME SpoilFile PROVE LockKept' /\ FilesWhole'
    <2>1. LockKept'
      BY <1>31 DEF SpoilFile, LockKept
    <2>2. FilesWhole'
      BY <1>31 DEF SpoilFile, FilesWhole
    <2> QED
      BY <2>1, <2>2
  <1>32. CASE UNCHANGED vars
    BY <1>32 DEF LockKept, FilesWhole
  <1> QED
    BY <1>1, <1>2, <1>3, <1>4, <1>5, <1>6, <1>7, <1>8, <1>9, <1>10, <1>11, <1>12, <1>13, <1>14, <1>15, <1>16, <1>17,
       <1>18, <1>19, <1>20, <1>21, <1>22, <1>23, <1>24, <1>25, <1>26, <1>27, <1>28, <1>29, <1>30, <1>31, <1>32 DEF Next,
       SaveStep, TurnStep, HandlerStep, RunStep, StartStep, Request

\* A session that was just made is of its type.
LEMMA TypeInit == Init => TypeOK
  <1> SUFFICES ASSUME Init PROVE TypeOK
    OBVIOUS
  <1>1. MemoryType
    BY QueueFacts DEF Init, MemoryType
  <1>2. DiskType
    BY RecordFacts DEF Init, DiskType
  <1>3. PlaceType
    BY DEF Init, PlaceType, Steps, OtherSteps, BackSteps
  <1>4. CarriedType
    BY RecordFacts DEF Init, CarriedType
  <1>5. HistoryType
    BY DEF Init, HistoryType
  <1>6. Carrying
    BY DEF Init, Carrying, SaveSteps
  <1> QED
    BY <1>1, <1>2, <1>3, <1>4, <1>5, <1>6 DEF TypeOK

\* Type correctness of SessionStore.
THEOREM StoreTypeCorrect == Spec => []TypeOK
BY TypeInit, TypeStep, PTL DEF Spec

\* The two renames of sessionStore.write and its lock are enough: whatever saves
\* overlap and wherever the process dies, a session that was not deleted and whose
\* files the disk did not lose has a whole record in its folder, and its file is never
\* half a record.
THEOREM CopyKept == Spec => []NeverWithoutACopy
  <1>1. Init => LockKept /\ FilesWhole
    BY RecordFacts DEF Init, LockKept, FilesWhole
  <1>2. TypeOK /\ LockKept /\ FilesWhole /\ [Next]_vars => LockKept' /\ FilesWhole'
    BY FilesStep
  <1>3. FilesWhole => NeverWithoutACopy
    BY DEF FilesWhole, NeverWithoutACopy
  <1> QED
    BY <1>1, <1>2, <1>3, StoreTypeCorrect, PTL DEF Spec

-----------------------------------------------------------------------------
(* Turns that are started one at a time.                                    *)

\* A goroutine that holds the slot, and one that has a message nobody was told the end of.
Holds(a)   == at[a] \in SaveSteps \union {"set_current", "set_task", "spawn", "respawn", "work", "end", "end_run"}
Carries(a) == at[a] \in {"start", "tell"} \/ Holds(a)
\* The turn is finished: what is saved of it is its end.
Ending(a)  == at[a] \in {"end", "end_run"} \/ (at[a] \in SaveSteps /\ back[a] = "end_run")
Written(a) == at[a] \in {"keep", "replace"}

\* Where nobody queues, changes, deletes or closes: all there is to save is a turn.
StartsOnly ==
    /\ alive /\ ~closing /\ ~gone /\ queue = <<>>
    /\ \A a \in Actors :
         /\ back[a] \in {"idle", "spawn", "respawn", "end_run"}
         /\ at[a] \in SaveSteps \union {"idle", "start", "drain", "load", "resume", "set_current", "set_task", "spawn",
                                        "respawn", "work", "end", "end_run", "tell"}
         /\ at[a] \in SaveSteps \union {"set_current", "set_task"} => back[a] \in {"spawn", "respawn", "end_run"}
         /\ at[a] \in {"set_current", "set_task"} => back[a] # "end_run"
         /\ at[a] \in SaveSteps => (a \in ended <=> back[a] = "end_run")
         /\ at[a] \in {"load", "resume"} => a = Main
         /\ at[a] = "start" => a \in Handlers
NothingQueued ==
    /\ \A f \in {main, prev, tmp} : f \in Records => f.queue = <<>>
    /\ \A a \in Actors : rec[a].queue = <<>>

\* Turns come one at a time, and none while the gateway starts.
OneTurn ==
    /\ \A a, b \in Actors : Holds(a) /\ Holds(b) => a = b
    /\ \A a \in Actors : Holds(a) => running /\ known /\ up
    /\ \A a \in Actors : at[a] \in {"load", "resume"} => \A b \in Actors \ {a} : at[b] = "idle"
    /\ \A a \in Actors : at[a] = "start" => known /\ up
    /\ ~up \/ at[Main] \in {"load", "resume"} => ~running
    /\ ~up \/ at[Main] = "load" => ~known
TurnIsNoted ==
    \A a \in Actors :
      /\ Holds(a) /\ at[a] # "set_current" => live
      /\ Holds(a) /\ at[a] \notin {"set_current", "set_task"} => lastTask = msg[a]
      /\ Ending(a) => msg[a] \in turns

\* What is being saved is what is known: the task in flight unless it is over, and the finished turns.
SavedIsKnown ==
    \A a \in Actors :
      /\ at[a] \in {"read_turns", "open", "sync", "keep", "replace"} =>
           rec[a].last = msg[a] /\ rec[a].running = (back[a] # "end_run")
      /\ at[a] \in {"open", "sync", "keep", "replace"} => rec[a].turns = turns
      /\ Written(a) => tmp = rec[a]

\* Messages are different, and a told one is nobody's.
EachItsOwn ==
    /\ told \subseteq sent /\ accepted \subseteq sent
    /\ \A a \in Actors : Carries(a) => msg[a] \in Msgs /\ msg[a] \in sent /\ msg[a] \notin told
    /\ \A a, b \in Actors : Carries(a) /\ Carries(b) /\ msg[a] = msg[b] => a = b
\* A file that says a turn runs is of one that nobody was told the end of.
RunsUntold ==
    main \in Records /\ main.running =>
      /\ main.last \in sent /\ main.last \notin told
      /\ \A a \in Actors : Carries(a) /\ (at[a] \in {"start", "tell", "end_run"}) => main.last # msg[a]

\* What was accepted is finished, or in the hands of the one turn; or it is what the start finds.
InHand(m) == m \in turns \/ \E a \in Actors : Holds(a) /\ ~Ending(a) /\ msg[a] = m
Recalled ==
    /\ up /\ known /\ ~spoiled /\ at[Main] # "resume" => \A m \in accepted \ told : InHand(m)
    /\ at[Main] = "resume" /\ known /\ ~spoiled => main \in Records /\ lastTask = main.last /\ turns = main.turns
    /\ at[Main] = "resume" => main # Torn

KeptInv ==
    /\ StartsOnly /\ NothingQueued /\ OneTurn /\ TurnIsNoted /\ SavedIsKnown /\ EachItsOwn /\ RunsUntold /\ Recalled
    /\ AcceptedIsKept

\* A save looks for the conversation: only what a turn saves is ever saved here, and it goes on where it was going.
LEMMA KeptCheckKnown ==
    ASSUME Requests = {"start"}, TypeOK, LockKept, FilesWhole, KeptInv,
           NEW a \in Actors, CheckKnown(a)
    PROVE  KeptInv'
  <1> USE DEF TypeOK, DiskType, PlaceType, CarriedType, KeptInv, Goto, memory, disk, carried, history
  <1>1. StartsOnly'
    BY DEF CheckKnown, StartsOnly, SaveSteps
  <1>2. NothingQueued'
    BY DEF CheckKnown, NothingQueued
  <1>3. OneTurn'
    BY DEF CheckKnown, OneTurn, Holds, SaveSteps
  <1>4. TurnIsNoted'
    BY DEF CheckKnown, StartsOnly, TurnIsNoted, Holds, Ending
  <1>5. SavedIsKnown'
    BY DEF CheckKnown, StartsOnly, SavedIsKnown, Written
  <1>6. EachItsOwn'
    BY DEF CheckKnown, EachItsOwn, Carries, Holds, SaveSteps
  <1>7. RunsUntold'
    BY DEF CheckKnown, OneTurn, RunsUntold, Carries, Holds, SaveSteps
  <1>8. Recalled'
    BY DEF CheckKnown, StartsOnly, Recalled, InHand, Holds, Ending, SaveSteps
  <1>9. AcceptedIsKept'
    BY DEF CheckKnown, AcceptedIsKept, Survivor
  <1> QED
    BY <1>1, <1>2, <1>3, <1>4, <1>5, <1>6, <1>7, <1>8, <1>9

\* The copy of a save is of the turn that holds the slot: its message, and whether it is over.
LEMMA KeptCopyState ==
    ASSUME Requests = {"start"}, TypeOK, LockKept, FilesWhole, KeptInv,
           NEW a \in Actors, CopyState(a)
    PROVE  KeptInv'
  <1> USE DEF TypeOK, DiskType, PlaceType, CarriedType, KeptInv, Goto, memory, disk, carried, history
  <1>1. StartsOnly'
    BY DEF CopyState, StartsOnly, SaveSteps
  <1>2. NothingQueued'
    BY DEF CopyState, StartsOnly, NothingQueued
  <1>3. OneTurn'
    BY DEF CopyState, OneTurn, Holds, SaveSteps
  <1>4. TurnIsNoted'
    BY DEF CopyState, TurnIsNoted, Holds, Ending, SaveSteps
  <1>5. SavedIsKnown'
    BY DEF CopyState, StartsOnly, OneTurn, TurnIsNoted, SavedIsKnown, Written, Holds
  <1>6. EachItsOwn'
    BY DEF CopyState, EachItsOwn, Carries, Holds, SaveSteps
  <1>7. RunsUntold'
    BY DEF CopyState, RunsUntold, Carries, Holds
  <1>8. Recalled'
    BY DEF CopyState, Recalled, InHand, Holds, Ending, SaveSteps
  <1>9. AcceptedIsKept'
    BY DEF CopyState, AcceptedIsKept, Survivor
  <1> QED
    BY <1>1, <1>2, <1>3, <1>4, <1>5, <1>6, <1>7, <1>8, <1>9

\* The transcript a save reads is the one of that moment.
LEMMA KeptReadTurns ==
    ASSUME Requests = {"start"}, TypeOK, LockKept, FilesWhole, KeptInv,
           NEW a \in Actors, ReadTurns(a)
    PROVE  KeptInv'
  <1> USE DEF TypeOK, DiskType, PlaceType, CarriedType, KeptInv, Goto, memory, disk, carried, history
  <1>1. StartsOnly'
    BY DEF ReadTurns, StartsOnly, SaveSteps
  <1>2. NothingQueued'
    BY DEF ReadTurns, NothingQueued
  <1>3. OneTurn'
    BY DEF ReadTurns, OneTurn, Holds, SaveSteps
  <1>4. TurnIsNoted'
    BY DEF ReadTurns, TurnIsNoted, Holds, Ending, SaveSteps
  <1>5. SavedIsKnown'
    BY DEF ReadTurns, SavedIsKnown, Written
  <1>6. EachItsOwn'
    BY DEF ReadTurns, EachItsOwn, Carries, Holds, SaveSteps
  <1>7. RunsUntold'
    BY DEF ReadTurns, RunsUntold, Carries, Holds
  <1>8. Recalled'
    BY DEF ReadTurns, Recalled, InHand, Holds, Ending, SaveSteps
  <1>9. AcceptedIsKept'
    BY DEF ReadTurns, AcceptedIsKept, Survivor
  <1> QED
    BY <1>1, <1>2, <1>3, <1>4, <1>5, <1>6, <1>7, <1>8, <1>9

\* Opening the new file leaves what is kept, and what is carried, alone.
LEMMA KeptOpenNew ==
    ASSUME Requests = {"start"}, TypeOK, LockKept, FilesWhole, KeptInv,
           NEW a \in Actors, OpenNew(a)
    PROVE  KeptInv'
  <1> USE DEF TypeOK, DiskType, PlaceType, CarriedType, KeptInv, Goto, memory, disk, carried, history
  <1>1. StartsOnly'
    BY DEF OpenNew, StartsOnly, SaveSteps
  <1>2. NothingQueued'
    BY DEF OpenNew, NothingQueued
  <1>3. OneTurn'
    BY DEF OpenNew, OneTurn, Holds, SaveSteps
  <1>4. TurnIsNoted'
    BY DEF OpenNew, TurnIsNoted, Holds, Ending, SaveSteps
  <1>5. SavedIsKnown'
    BY DEF OpenNew, OneTurn, SavedIsKnown, Written, Holds, SaveSteps
  <1>6. EachItsOwn'
    BY DEF OpenNew, EachItsOwn, Carries, Holds, SaveSteps
  <1>7. RunsUntold'
    BY DEF OpenNew, RunsUntold, Carries, Holds
  <1>8. Recalled'
    BY DEF OpenNew, Recalled, InHand, Holds, Ending, SaveSteps
  <1>9. AcceptedIsKept'
    BY DEF OpenNew, AcceptedIsKept, Survivor
  <1> QED
    BY <1>1, <1>2, <1>3, <1>4, <1>5, <1>6, <1>7, <1>8, <1>9

\* What is synced is what was copied.
LEMMA KeptSyncNew ==
    ASSUME Requests = {"start"}, TypeOK, LockKept, FilesWhole, KeptInv,
           NEW a \in Actors, SyncNew(a)
    PROVE  KeptInv'
  <1> USE DEF TypeOK, DiskType, PlaceType, CarriedType, KeptInv, Goto, memory, disk, carried, history
  <1>1. StartsOnly'
    BY DEF SyncNew, StartsOnly, SaveSteps
  <1>2. NothingQueued'
    BY DEF SyncNew, NothingQueued
  <1>3. OneTurn'
    BY DEF SyncNew, OneTurn, Holds, SaveSteps
  <1>4. TurnIsNoted'
    BY DEF SyncNew, TurnIsNoted, Holds, Ending, SaveSteps
  <1>5. SavedIsKnown'
    BY DEF SyncNew, OneTurn, SavedIsKnown, Written, Holds, SaveSteps
  <1>6. EachItsOwn'
    BY DEF SyncNew, EachItsOwn, Carries, Holds, SaveSteps
  <1>7. RunsUntold'
    BY DEF SyncNew, RunsUntold, Carries, Holds
  <1>8. Recalled'
    BY DEF SyncNew, Recalled, InHand, Holds, Ending, SaveSteps
  <1>9. AcceptedIsKept'
    BY DEF SyncNew, AcceptedIsKept, Survivor
  <1> QED
    BY <1>1, <1>2, <1>3, <1>4, <1>5, <1>6, <1>7, <1>8, <1>9

\* The version that is replaced survives as the previous one.
LEMMA KeptKeepPrevious ==
    ASSUME Requests = {"start"}, TypeOK, LockKept, FilesWhole, KeptInv,
           NEW a \in Actors, KeepPrevious(a)
    PROVE  KeptInv'
  <1> USE DEF TypeOK, DiskType, PlaceType, CarriedType, KeptInv, Goto, memory, disk, carried, history
  <1>1. StartsOnly'
    BY DEF KeepPrevious, StartsOnly, SaveSteps
  <1>2. NothingQueued'
    BY DEF KeepPrevious, NothingQueued
  <1>3. OneTurn'
    BY DEF KeepPrevious, OneTurn, Holds, SaveSteps
  <1>4. TurnIsNoted'
    BY DEF KeepPrevious, TurnIsNoted, Holds, Ending, SaveSteps
  <1>5. SavedIsKnown'
    BY DEF KeepPrevious, SavedIsKnown, Written
  <1>6. EachItsOwn'
    BY DEF KeepPrevious, EachItsOwn, Carries, Holds, SaveSteps
  <1>7. RunsUntold'
    BY DEF KeepPrevious, RunsUntold
  <1>8. Recalled'
    BY DEF KeepPrevious, OneTurn, Recalled, InHand, Holds, Ending, SaveSteps
  <1>9. AcceptedIsKept'
    <2>1. spoiled \/ Survivor' = Survivor
      BY DEF KeepPrevious, FilesWhole, Survivor
    <2> QED
      BY <2>1 DEF KeepPrevious, AcceptedIsKept
  <1> QED
    BY <1>1, <1>2, <1>3, <1>4, <1>5, <1>6, <1>7, <1>8, <1>9

\* A save that ends: the file says what the one turn is doing, or that it is over, so a sender is told
\* yes for a message the file has, and nothing that is owed is missing from it.
LEMMA KeptReplace ==
    ASSUME Requests = {"start"}, TypeOK, LockKept, FilesWhole, KeptInv,
           NEW a \in Actors, Replace(a)
    PROVE  KeptInv'
  <1> USE DEF TypeOK, DiskType, PlaceType, CarriedType, KeptInv, Goto, memory, disk, carried, history
  <1>a. /\ at[a] = "replace" /\ Holds(a) /\ Carries(a) /\ at' = [at EXCEPT ![a] = back[a]]
        /\ back[a] \in {"spawn", "respawn", "end_run"}
        /\ UNCHANGED <<up, known, turns, back, msg, sent, told, gone, spoiled>>
    BY DEF Replace, StartsOnly, Holds, Carries, SaveSteps
  <1>b. /\ main' = rec[a] /\ rec[a] \in Records /\ rec[a].queue = <<>>
        /\ rec[a].last = msg[a] /\ rec[a].running = (back[a] # "end_run") /\ rec[a].turns = turns
    BY <1>a DEF Replace, SavedIsKnown, Written, FilesWhole, NothingQueued
  <1>c. /\ accepted \subseteq accepted' /\ accepted' \subseteq accepted \union {msg[a]}
        /\ back[a] # "spawn" => accepted' = accepted
    BY <1>a DEF Replace, Accept
  <1>d. /\ msg[a] \in Msgs /\ msg[a] \in sent /\ msg[a] \notin told
        /\ \A b \in Actors : Carries(b) /\ msg[b] = msg[a] => b = a
    BY <1>a DEF EachItsOwn
  <1>e. /\ \A b \in Actors : Holds(b)' = Holds(b) /\ Carries(b)' = Carries(b)
        /\ \A b \in Actors : Holds(b) => b = a
        /\ Ending(a)' = Ending(a) /\ (Ending(a) <=> back[a] = "end_run")
    BY <1>a DEF Holds, Carries, Ending, SaveSteps, OneTurn
  <1>f. up /\ known /\ at[Main] # "resume"
    BY <1>a DEF OneTurn
  <1>g. \A m \in accepted' \ told' : spoiled \/ m \in turns \/ (m = msg[a] /\ back[a] # "end_run")
    BY <1>a, <1>c, <1>e, <1>f DEF Recalled, InHand
  <1>1. StartsOnly'
    BY DEF Replace, StartsOnly
  <1>2. NothingQueued'
    BY DEF Replace, NothingQueued
  <1>3. OneTurn'
    BY DEF Replace, StartsOnly, OneTurn, Holds
  <1>4. TurnIsNoted'
    BY DEF Replace, StartsOnly, TurnIsNoted, Holds, Ending
  <1>5. SavedIsKnown'
    BY DEF Replace, StartsOnly, OneTurn, SavedIsKnown, Written, Holds
  <1>6. EachItsOwn'
    BY <1>a, <1>c, <1>d, <1>e DEF EachItsOwn
  <1>7. RunsUntold'
    <2>1. ASSUME main'.running
          PROVE  /\ main'.last \in sent' /\ main'.last \notin told'
                 /\ \A b \in Actors : Carries(b)' /\ at'[b] \in {"start", "tell", "end_run"} => main'.last # msg'[b]
      BY <2>1, <1>a, <1>b, <1>d, <1>e
    <2> QED
      BY <2>1 DEF RunsUntold
  <1>8. Recalled'
    <2>1. at'[Main] # "resume"
      BY <1>a, <1>f
    <2>2. \A m \in accepted' \ told' : spoiled \/ InHand(m)'
      BY <1>a, <1>e, <1>g DEF InHand
    <2> QED
      BY <1>a, <2>1, <2>2 DEF Recalled
  <1>9. AcceptedIsKept'
    <2>1. Survivor' = rec[a]
      BY <1>b DEF Survivor
    <2>2. \A m \in accepted' \ told' : spoiled \/ Remembers(rec[a], m)
      BY <1>b, <1>g DEF Remembers
    <2> QED
      BY <1>a, <1>b, <2>1, <2>2 DEF AcceptedIsKept
  <1> QED
    BY <1>1, <1>2, <1>3, <1>4, <1>5, <1>6, <1>7, <1>8, <1>9

\* Where nobody queues there is nothing to drain.
LEMMA KeptDrainQueue ==
    ASSUME Requests = {"start"}, TypeOK, LockKept, FilesWhole, KeptInv,
           NEW a \in Actors, DrainQueue(a)
    PROVE  KeptInv'
  <1> USE DEF TypeOK, DiskType, PlaceType, CarriedType, KeptInv, Goto, TakeSlot, memory, disk, carried, history
  <1>1. StartsOnly'
    BY DEF DrainQueue, StartsOnly, SaveSteps
  <1>2. NothingQueued'
    BY DEF DrainQueue, NothingQueued
  <1>3. OneTurn'
    BY DEF DrainQueue, StartsOnly, OneTurn, Holds, SaveSteps
  <1>4. TurnIsNoted'
    BY DEF DrainQueue, TurnIsNoted, Holds, Ending, SaveSteps
  <1>5. SavedIsKnown'
    BY DEF DrainQueue, SavedIsKnown, Written
  <1>6. EachItsOwn'
    BY DEF DrainQueue, StartsOnly, EachItsOwn, Carries, Holds, SaveSteps
  <1>7. RunsUntold'
    BY DEF DrainQueue, RunsUntold, Carries, Holds
  <1>8. Recalled'
    BY DEF DrainQueue, Recalled, InHand, Holds, Ending, SaveSteps
  <1>9. AcceptedIsKept'
    BY DEF DrainQueue, AcceptedIsKept, Survivor
  <1> QED
    BY <1>1, <1>2, <1>3, <1>4, <1>5, <1>6, <1>7, <1>8, <1>9

\* The run of a turn is the live one.
LEMMA KeptSetCurrentRun ==
    ASSUME Requests = {"start"}, TypeOK, LockKept, FilesWhole, KeptInv,
           NEW a \in Actors, SetCurrentRun(a)
    PROVE  KeptInv'
  <1> USE DEF TypeOK, DiskType, PlaceType, CarriedType, KeptInv, Goto, memory, disk, carried, history
  <1>1. StartsOnly'
    BY DEF SetCurrentRun, StartsOnly, SaveSteps
  <1>2. NothingQueued'
    BY DEF SetCurrentRun, NothingQueued
  <1>3. OneTurn'
    BY DEF SetCurrentRun, OneTurn, Holds
  <1>4. TurnIsNoted'
    BY DEF SetCurrentRun, TurnIsNoted, Holds, Ending, SaveSteps
  <1>5. SavedIsKnown'
    BY DEF SetCurrentRun, SavedIsKnown, Written
  <1>6. EachItsOwn'
    BY DEF SetCurrentRun, EachItsOwn, Carries, Holds
  <1>7. RunsUntold'
    BY DEF SetCurrentRun, RunsUntold, Carries, Holds
  <1>8. Recalled'
    BY DEF SetCurrentRun, Recalled, InHand, Holds, Ending, SaveSteps
  <1>9. AcceptedIsKept'
    BY DEF SetCurrentRun, AcceptedIsKept, Survivor
  <1> QED
    BY <1>1, <1>2, <1>3, <1>4, <1>5, <1>6, <1>7, <1>8, <1>9

\* The task of a turn is noted before the save that answers its sender.
LEMMA KeptSetLastTask ==
    ASSUME Requests = {"start"}, TypeOK, LockKept, FilesWhole, KeptInv,
           NEW a \in Actors, SetLastTask(a)
    PROVE  KeptInv'
  <1> USE DEF TypeOK, DiskType, PlaceType, CarriedType, KeptInv, Goto, Save, memory, disk, carried, history
  <1>1. StartsOnly'
    BY DEF SetLastTask, StartsOnly, SaveSteps
  <1>2. NothingQueued'
    BY DEF SetLastTask, NothingQueued
  <1>3. OneTurn'
    BY DEF SetLastTask, OneTurn, Holds
  <1>4. TurnIsNoted'
    BY DEF SetLastTask, StartsOnly, OneTurn, TurnIsNoted, Holds, Ending
  <1>5. SavedIsKnown'
    BY DEF SetLastTask, SavedIsKnown, Written
  <1>6. EachItsOwn'
    BY DEF SetLastTask, EachItsOwn, Carries, Holds
  <1>7. RunsUntold'
    BY DEF SetLastTask, RunsUntold, Carries, Holds
  <1>8. Recalled'
    BY DEF SetLastTask, StartsOnly, OneTurn, Recalled, InHand, Holds, Ending, SaveSteps
  <1>9. AcceptedIsKept'
    BY DEF SetLastTask, AcceptedIsKept, Survivor
  <1> QED
    BY <1>1, <1>2, <1>3, <1>4, <1>5, <1>6, <1>7, <1>8, <1>9

\* The message goes from whoever took the slot to the goroutine of the run.
LEMMA KeptSpawnRun ==
    ASSUME Requests = {"start"}, TypeOK, LockKept, FilesWhole, KeptInv,
           NEW a \in Actors, NEW r \in Runs, SpawnRun(a, r)
    PROVE  KeptInv'
  <1> USE DEF TypeOK, DiskType, PlaceType, CarriedType, KeptInv, Goto, memory, disk, carried, history
  <1>a. /\ at[a] \in {"spawn", "respawn"} /\ at[r] = "idle" /\ r # a
        /\ at' = [at EXCEPT ![r] = "work", ![a] = IF at[a] = "respawn" THEN "drain" ELSE "idle"]
        /\ msg' = [msg EXCEPT ![r] = msg[a], ![a] = NoMsg]
        /\ UNCHANGED <<up, known, turns, back, accepted, told, spoiled, main, lastTask>>
    BY DEF SpawnRun
  <1>b. Holds(a) /\ Holds(r)' /\ ~Ending(r)' /\ msg'[r] = msg[a]
    BY <1>a DEF Holds, Ending, SaveSteps
  <1>1. StartsOnly'
    BY DEF SpawnRun, StartsOnly, SaveSteps
  <1>2. NothingQueued'
    BY DEF SpawnRun, NothingQueued
  <1>3. OneTurn'
    BY DEF SpawnRun, OneTurn, Holds, SaveSteps
  <1>4. TurnIsNoted'
    BY DEF SpawnRun, TurnIsNoted, Holds, Ending, SaveSteps
  <1>5. SavedIsKnown'
    BY DEF SpawnRun, SavedIsKnown, Written
  <1>6. EachItsOwn'
    BY DEF SpawnRun, EachItsOwn, Carries, Holds, SaveSteps
  <1>7. RunsUntold'
    BY DEF SpawnRun, RunsUntold, Carries, Holds
  <1>8. Recalled'
    <2>1. at[Main] # "resume" /\ at'[Main] # "resume"
      BY <1>a DEF OneTurn
    <2>2. ASSUME NEW m, InHand(m) PROVE InHand(m)'
      BY <1>a, <1>b, <2>2 DEF InHand, OneTurn
    <2> QED
      BY <1>a, <2>1, <2>2 DEF Recalled
  <1>9. AcceptedIsKept'
    BY DEF SpawnRun, AcceptedIsKept, Survivor
  <1> QED
    BY <1>1, <1>2, <1>3, <1>4, <1>5, <1>6, <1>7, <1>8, <1>9

\* A message that is sent is nobody else's.
LEMMA KeptSend ==
    ASSUME Requests = {"start"}, TypeOK, LockKept, FilesWhole, KeptInv,
           NEW h \in Handlers, NEW m \in Msgs, Send(h, "start", m)
    PROVE  KeptInv'
  <1> USE DEF TypeOK, DiskType, PlaceType, CarriedType, KeptInv, Goto, memory, disk, carried, history
  <1>a. /\ at[h] = "idle" /\ up /\ known /\ \A b \in Actors : at[b] \notin {"load", "resume"}
        /\ UNCHANGED <<up, known, running, turns, accepted, told, spoiled, lastTask, main>>
        /\ at' = [at EXCEPT ![h] = "start"] /\ msg' = [msg EXCEPT ![h] = m]
    BY DEF Send, Arrives, Serving, StartsOnly
  <1>1. StartsOnly'
    BY DEF Send, StartsOnly, SaveSteps
  <1>2. NothingQueued'
    BY DEF Send, NothingQueued
  <1>3. OneTurn'
    BY <1>a DEF OneTurn, Holds, SaveSteps
  <1>4. TurnIsNoted'
    BY DEF Send, TurnIsNoted, Holds, Ending, SaveSteps
  <1>5. SavedIsKnown'
    BY DEF Send, SavedIsKnown, Written
  <1>6. EachItsOwn'
    BY DEF Send, EachItsOwn, Carries, Holds
  <1>7. RunsUntold'
    BY DEF Send, RunsUntold, Carries, Holds
  <1>8. Recalled'
    <2>1. ASSUME NEW x, NEW b \in Actors, Holds(b), ~Ending(b), msg[b] = x PROVE InHand(x)'
      <3>1. at'[b] = at[b] /\ back' = back /\ msg'[b] = x
        BY <1>a, <2>1 DEF Send, Holds, SaveSteps
      <3>2. Holds(b)' /\ ~Ending(b)'
        BY <3>1, <2>1 DEF Holds, Ending
      <3> QED
        BY <3>1, <3>2 DEF InHand
    <2> QED
      BY <1>a, <2>1 DEF Recalled, InHand
  <1>9. AcceptedIsKept'
    BY DEF Send, AcceptedIsKept, Survivor
  <1> QED
    BY <1>1, <1>2, <1>3, <1>4, <1>5, <1>6, <1>7, <1>8, <1>9

\* The slot is taken when nobody holds it.
LEMMA KeptStartNotedRun ==
    ASSUME Requests = {"start"}, TypeOK, LockKept, FilesWhole, KeptInv,
           NEW h \in Handlers, StartNotedRun(h)
    PROVE  KeptInv'
  <1> USE DEF TypeOK, DiskType, PlaceType, CarriedType, KeptInv, Goto, TakeSlot, memory, disk, carried, history
  <1>1. StartsOnly'
    BY DEF StartNotedRun, StartsOnly, SaveSteps
  <1>2. NothingQueued'
    BY DEF StartNotedRun, NothingQueued
  <1>3. OneTurn'
    BY DEF StartNotedRun, OneTurn, Holds, SaveSteps
  <1>4. TurnIsNoted'
    BY DEF StartNotedRun, TurnIsNoted, Holds, Ending, SaveSteps
  <1>5. SavedIsKnown'
    BY DEF StartNotedRun, SavedIsKnown, Written
  <1>6. EachItsOwn'
    BY DEF StartNotedRun, EachItsOwn, Carries, Holds, SaveSteps
  <1>7. RunsUntold'
    BY DEF StartNotedRun, RunsUntold, Carries, Holds
  <1>8. Recalled'
    BY DEF StartNotedRun, Recalled, InHand, Holds, Ending, SaveSteps
  <1>9. AcceptedIsKept'
    BY DEF StartNotedRun, AcceptedIsKept, Survivor
  <1> QED
    BY <1>1, <1>2, <1>3, <1>4, <1>5, <1>6, <1>7, <1>8, <1>9

\* A turn that finishes is in the transcript, and no save of another turn is on its way.
LEMMA KeptFinishTurn ==
    ASSUME Requests = {"start"}, TypeOK, LockKept, FilesWhole, KeptInv,
           NEW r \in Runs, FinishTurn(r)
    PROVE  KeptInv'
  <1> USE DEF TypeOK, DiskType, PlaceType, CarriedType, KeptInv, Goto, memory, disk, carried, history
  <1>1. StartsOnly'
    BY DEF FinishTurn, StartsOnly, SaveSteps
  <1>2. NothingQueued'
    BY DEF FinishTurn, NothingQueued
  <1>3. OneTurn'
    BY DEF FinishTurn, OneTurn, Holds
  <1>4. TurnIsNoted'
    BY DEF FinishTurn, TurnIsNoted, Holds, Ending
  <1>5. SavedIsKnown'
    BY DEF FinishTurn, OneTurn, SavedIsKnown, Written, Holds, SaveSteps
  <1>6. EachItsOwn'
    BY DEF FinishTurn, EachItsOwn, Carries, Holds
  <1>7. RunsUntold'
    BY DEF FinishTurn, RunsUntold, Carries, Holds
  <1>8. Recalled'
    BY DEF FinishTurn, OneTurn, Recalled, InHand, Holds
  <1>9. AcceptedIsKept'
    BY DEF FinishTurn, AcceptedIsKept, Survivor
  <1> QED
    BY <1>1, <1>2, <1>3, <1>4, <1>5, <1>6, <1>7, <1>8, <1>9

\* The end of a turn is saved as an end.
LEMMA KeptCloseRun ==
    ASSUME Requests = {"start"}, TypeOK, LockKept, FilesWhole, KeptInv,
           NEW r \in Runs, CloseRun(r)
    PROVE  KeptInv'
  <1> USE DEF TypeOK, DiskType, PlaceType, CarriedType, KeptInv, Goto, Save, memory, disk, carried, history
  <1>1. StartsOnly'
    BY DEF CloseRun, StartsOnly, SaveSteps
  <1>2. NothingQueued'
    BY DEF CloseRun, NothingQueued
  <1>3. OneTurn'
    BY DEF CloseRun, OneTurn, Holds
  <1>4. TurnIsNoted'
    BY DEF CloseRun, TurnIsNoted, Holds, Ending
  <1>5. SavedIsKnown'
    BY DEF CloseRun, SavedIsKnown, Written
  <1>6. EachItsOwn'
    BY DEF CloseRun, EachItsOwn, Carries, Holds
  <1>7. RunsUntold'
    BY DEF CloseRun, RunsUntold, Carries, Holds
  <1>8. Recalled'
    BY DEF CloseRun, Recalled, InHand, Holds, Ending
  <1>9. AcceptedIsKept'
    BY DEF CloseRun, AcceptedIsKept, Survivor
  <1> QED
    BY <1>1, <1>2, <1>3, <1>4, <1>5, <1>6, <1>7, <1>8, <1>9

\* The slot is given back when the file says that the turn is over.
LEMMA KeptEndRun ==
    ASSUME Requests = {"start"}, TypeOK, LockKept, FilesWhole, KeptInv,
           NEW r \in Runs, EndRun(r)
    PROVE  KeptInv'
  <1> USE DEF TypeOK, DiskType, PlaceType, CarriedType, KeptInv, Goto, memory, disk, carried, history
  <1>1. StartsOnly'
    BY DEF EndRun, StartsOnly, SaveSteps
  <1>2. NothingQueued'
    BY DEF EndRun, NothingQueued
  <1>3. OneTurn'
    BY DEF EndRun, OneTurn, Holds, SaveSteps
  <1>4. TurnIsNoted'
    BY DEF EndRun, OneTurn, TurnIsNoted, Holds, Ending, SaveSteps
  <1>5. SavedIsKnown'
    BY DEF EndRun, SavedIsKnown, Written
  <1>6. EachItsOwn'
    BY DEF EndRun, EachItsOwn, Carries, Holds
  <1>7. RunsUntold'
    BY DEF EndRun, RunsUntold, Carries, Holds
  <1>8. Recalled'
    BY DEF EndRun, Recalled, InHand, Holds, Ending
  <1>9. AcceptedIsKept'
    BY DEF EndRun, AcceptedIsKept, Survivor
  <1> QED
    BY <1>1, <1>2, <1>3, <1>4, <1>5, <1>6, <1>7, <1>8, <1>9

\* What is told finished is not what the file says is running.
LEMMA KeptTell ==
    ASSUME Requests = {"start"}, TypeOK, LockKept, FilesWhole, KeptInv,
           NEW r \in Runs, Tell(r)
    PROVE  KeptInv'
  <1> USE DEF TypeOK, DiskType, PlaceType, CarriedType, KeptInv, Goto, memory, disk, carried, history
  <1>1. StartsOnly'
    BY DEF Tell, StartsOnly, SaveSteps
  <1>2. NothingQueued'
    BY DEF Tell, NothingQueued
  <1>3. OneTurn'
    BY DEF Tell, OneTurn, Holds, SaveSteps
  <1>4. TurnIsNoted'
    BY DEF Tell, TurnIsNoted, Holds, Ending, SaveSteps
  <1>5. SavedIsKnown'
    BY DEF Tell, SavedIsKnown, Written
  <1>6. EachItsOwn'
    BY DEF Tell, EachItsOwn, Carries, Holds, SaveSteps
  <1>7. RunsUntold'
    BY DEF Tell, RunsUntold, Carries, Holds
  <1>8. Recalled'
    BY DEF Tell, Recalled, InHand, Holds, Ending, SaveSteps
  <1>9. AcceptedIsKept'
    BY DEF Tell, AcceptedIsKept, Survivor
  <1> QED
    BY <1>1, <1>2, <1>3, <1>4, <1>5, <1>6, <1>7, <1>8, <1>9

\* A crash leaves the files as they are.
LEMMA KeptCrash ==
    ASSUME Requests = {"start"}, TypeOK, LockKept, FilesWhole, KeptInv, Crash
    PROVE  KeptInv'
  <1> USE DEF TypeOK, DiskType, PlaceType, CarriedType, KeptInv, Goto, memory, disk, carried, history
  <1>1. StartsOnly'
    BY DEF Crash, StartsOnly, SaveSteps
  <1>2. NothingQueued'
    <2>1. NoRecord.queue = <<>>
      BY DEF NoRecord
    <2> QED
      BY <2>1 DEF Crash, NothingQueued
  <1>3. OneTurn'
    BY DEF Crash, OneTurn, Holds, SaveSteps
  <1>4. TurnIsNoted'
    BY DEF Crash, TurnIsNoted, Holds, Ending, SaveSteps
  <1>5. SavedIsKnown'
    BY DEF Crash, SavedIsKnown, Written
  <1>6. EachItsOwn'
    BY DEF Crash, EachItsOwn, Carries, Holds, SaveSteps
  <1>7. RunsUntold'
    BY DEF Crash, RunsUntold
  <1>8. Recalled'
    BY DEF Crash, Recalled
  <1>9. AcceptedIsKept'
    BY DEF Crash, AcceptedIsKept, Survivor
  <1> QED
    BY <1>1, <1>2, <1>3, <1>4, <1>5, <1>6, <1>7, <1>8, <1>9

\* A file that is lost is an excuse.
LEMMA KeptSpoilFile ==
    ASSUME Requests = {"start"}, TypeOK, LockKept, FilesWhole, KeptInv, SpoilFile
    PROVE  KeptInv'
  <1> USE DEF TypeOK, DiskType, PlaceType, CarriedType, KeptInv, Goto, memory, disk, carried, history
  <1>1. StartsOnly'
    BY DEF SpoilFile, StartsOnly
  <1>2. NothingQueued'
    BY DEF SpoilFile, NothingQueued
  <1>3. OneTurn'
    BY DEF SpoilFile, OneTurn, Holds
  <1>4. TurnIsNoted'
    BY DEF SpoilFile, TurnIsNoted, Holds, Ending
  <1>5. SavedIsKnown'
    BY DEF SpoilFile, SavedIsKnown, Written
  <1>6. EachItsOwn'
    BY DEF SpoilFile, EachItsOwn, Carries, Holds
  <1>7. RunsUntold'
    BY DEF SpoilFile, RunsUntold
  <1>8. Recalled'
    BY DEF SpoilFile, Recalled, LockKept
  <1>9. AcceptedIsKept'
    BY DEF SpoilFile, AcceptedIsKept
  <1> QED
    BY <1>1, <1>2, <1>3, <1>4, <1>5, <1>6, <1>7, <1>8, <1>9

\* A process that starts knows nothing and runs nothing.
LEMMA KeptRestart ==
    ASSUME Requests = {"start"}, TypeOK, LockKept, FilesWhole, KeptInv, Restart
    PROVE  KeptInv'
  <1> USE DEF TypeOK, DiskType, PlaceType, CarriedType, KeptInv, Goto, memory, disk, carried, history
  <1>1. StartsOnly'
    BY DEF Restart, StartsOnly, SaveSteps
  <1>2. NothingQueued'
    BY DEF Restart, NothingQueued
  <1>3. OneTurn'
    BY DEF Restart, OneTurn, Holds, SaveSteps, LockKept
  <1>4. TurnIsNoted'
    BY DEF Restart, TurnIsNoted, Holds, Ending, SaveSteps
  <1>5. SavedIsKnown'
    BY DEF Restart, SavedIsKnown, Written
  <1>6. EachItsOwn'
    BY DEF Restart, EachItsOwn, Carries, Holds, SaveSteps
  <1>7. RunsUntold'
    BY DEF Restart, RunsUntold, Carries, Holds
  <1>8. Recalled'
    BY DEF Restart, OneTurn, Recalled
  <1>9. AcceptedIsKept'
    BY DEF Restart, AcceptedIsKept, Survivor
  <1> QED
    BY <1>1, <1>2, <1>3, <1>4, <1>5, <1>6, <1>7, <1>8, <1>9

\* A start makes of the file the conversation.
LEMMA KeptLoadPersistedSessions ==
    ASSUME Requests = {"start"}, TypeOK, LockKept, FilesWhole, KeptInv, LoadPersistedSessions
    PROVE  KeptInv'
  <1> USE DEF TypeOK, DiskType, PlaceType, CarriedType, KeptInv, Goto, memory, disk, carried, history
  <1>a. /\ at[Main] = "load" /\ at' = [at EXCEPT ![Main] = "resume"]
        /\ UNCHANGED <<up, alive, closing, running, live, prev, tmp, back, ended, rec, msg, sent, accepted, told, gone,
                       spoiled>>
    BY DEF LoadPersistedSessions
  <1>b. up /\ ~running /\ ~known /\ \A b \in Actors \ {Main} : at[b] = "idle"
    BY <1>a DEF OneTurn, LockKept
  <1>c. \A b \in Actors : ~Holds(b)' /\ ~Carries(b)'
    BY <1>a, <1>b DEF Holds, Carries, SaveSteps
  <1>d. /\ main' \in {main, NoFile} /\ main' # Torn /\ (~spoiled => main' = main)
        /\ queue' \in {queue, LoadAll.queue} /\ (LoadAll \notin Records => queue' = queue)
        /\ (known' <=> LoadAll \in Records)
    BY <1>b DEF LoadPersistedSessions, SetAside, FilesWhole
  <1>e. LoadAll \in {main, prev} /\ (~spoiled => LoadAll = main)
    BY DEF LoadAll, FilesWhole
  <1>1. StartsOnly'
    <2>1. queue' = <<>>
      BY <1>d, <1>e DEF StartsOnly, NothingQueued
    <2> QED
      BY <1>a, <2>1 DEF StartsOnly, SaveSteps
  <1>2. NothingQueued'
    BY <1>a, <1>d DEF NothingQueued
  <1>3. OneTurn'
    BY <1>a, <1>b, <1>c DEF OneTurn
  <1>4. TurnIsNoted'
    BY DEF LoadPersistedSessions, OneTurn, TurnIsNoted, Holds, Ending, SaveSteps
  <1>5. SavedIsKnown'
    BY DEF LoadPersistedSessions, OneTurn, SavedIsKnown, Written
  <1>6. EachItsOwn'
    BY DEF LoadPersistedSessions, EachItsOwn, Carries, Holds, SaveSteps
  <1>7. RunsUntold'
    BY <1>a, <1>c, <1>d DEF RunsUntold
  <1>8. Recalled'
    <2>1. ASSUME known', ~spoiled PROVE main' \in Records /\ lastTask' = main'.last /\ turns' = main'.turns
      BY <1>d, <1>e, <2>1 DEF LoadPersistedSessions
    <2> QED
      BY <1>a, <1>d, <2>1 DEF Recalled
  <1>9. AcceptedIsKept'
    BY <1>a, <1>d DEF AcceptedIsKept, Survivor
  <1> QED
    BY <1>1, <1>2, <1>3, <1>4, <1>5, <1>6, <1>7, <1>8, <1>9

\* What the file says is running is run again, by the goroutine of the start, before any request.
LEMMA KeptResumeInterrupted ==
    ASSUME Requests = {"start"}, TypeOK, LockKept, FilesWhole, KeptInv, ResumeInterrupted
    PROVE  KeptInv'
  <1> USE DEF TypeOK, DiskType, PlaceType, CarriedType, KeptInv, Goto, memory, disk, carried, history
  <1>a. /\ at[Main] = "resume" /\ main # Torn /\ LoadAll = main /\ main' = main
        /\ UNCHANGED <<up, alive, known, closing, live, queue, lastTask, turns, prev, tmp, ended, rec, sent, accepted,
                       told, gone, spoiled>>
    BY DEF ResumeInterrupted, SetAside, LoadAll, Recalled
  <1>b. up /\ ~running /\ \A b \in Actors \ {Main} : at[b] = "idle"
    BY <1>a DEF OneTurn, LockKept
  <1>c. \A b \in Actors : ~Holds(b) /\ ~Carries(b)
    BY <1>a, <1>b DEF Holds, Carries, SaveSteps
  <1>d. \/ /\ main \in Records /\ known /\ main.running /\ main.last # NoMsg
           /\ at' = [at EXCEPT ![Main] = "set_current"] /\ msg' = [msg EXCEPT ![Main] = main.last]
        \/ /\ ~(main \in Records /\ known /\ main.running /\ main.last # NoMsg) /\ msg' = msg
           /\ at' \in {[at EXCEPT ![Main] = "idle"], [at EXCEPT ![Main] = "drain"]}
    BY <1>a DEF ResumeInterrupted
  <1>e. \A b \in Actors : b # Main => ~Carries(b)' /\ ~Holds(b)'
    BY <1>a, <1>b, <1>d DEF Holds, Carries, SaveSteps
  <1>1. StartsOnly'
    BY DEF ResumeInterrupted, StartsOnly, SaveSteps
  <1>2. NothingQueued'
    BY <1>a DEF NothingQueued
  <1>3. OneTurn'
    BY DEF ResumeInterrupted, OneTurn, Holds, SaveSteps
  <1>4. TurnIsNoted'
    BY DEF ResumeInterrupted, TurnIsNoted, Holds, Ending, SaveSteps
  <1>5. SavedIsKnown'
    BY DEF ResumeInterrupted, SavedIsKnown, Written
  <1>6. EachItsOwn'
    <2>1. Carries(Main)' => msg'[Main] = main.last /\ main \in Records /\ main.running /\ main.last # NoMsg
      BY <1>a, <1>d DEF Carries, Holds, SaveSteps
    <2>2. Carries(Main)' => msg'[Main] \in Msgs /\ msg'[Main] \in sent /\ msg'[Main] \notin told
      BY <2>1, RecordFacts DEF RunsUntold
    <2> QED
      BY <1>a, <1>e, <2>2 DEF EachItsOwn
  <1>7. RunsUntold'
    <2>1. at'[Main] \notin {"start", "tell", "end_run"}
      BY <1>a, <1>d
    <2> QED
      BY <1>a, <1>e, <2>1 DEF RunsUntold
  <1>8. Recalled'
    <2>1. at'[Main] # "resume"
      BY <1>a, <1>d
    <2>2. ASSUME known, ~spoiled, NEW m \in accepted \ told PROVE InHand(m)'
      <3>1. m \in Msgs /\ main \in Records /\ turns = main.turns /\ Remembers(main, m)
        BY <1>a, <2>2 DEF HistoryType, Recalled, AcceptedIsKept, StartsOnly, Survivor
      <3>2. m \in turns \/ (main.running /\ main.last = m)
        BY <3>1 DEF Remembers, NothingQueued
      <3>3. CASE m \in turns
        BY <1>a, <3>3 DEF InHand
      <3>4. CASE main.running /\ main.last = m
        <4>1. at'[Main] = "set_current" /\ msg'[Main] = m
          BY <1>a, <1>d, <2>2, <3>1, <3>4
        <4> QED
          BY <4>1 DEF InHand, Holds, Ending, SaveSteps
      <3> QED
        BY <3>2, <3>3, <3>4
    <2> QED
      BY <1>a, <2>1, <2>2 DEF Recalled
  <1>9. AcceptedIsKept'
    BY <1>a DEF AcceptedIsKept, Survivor
  <1> QED
    BY <1>1, <1>2, <1>3, <1>4, <1>5, <1>6, <1>7, <1>8, <1>9

\* What nobody asks for, in an instance where turns are started and nothing else is, never happens.
LEMMA NothingElse ==
    ASSUME Requests = {"start"}, TypeOK, KeptInv
    PROVE  /\ \A h \in Handlers, m \in Msgs : ~Send(h, "queue", m)
           /\ \A h \in Handlers : /\ ~Touch(h) /\ ~BeginClosing(h) /\ ~StartOrQueue(h)
                                  /\ ~RunStopped(h) /\ ~Forget(h) /\ ~DeletePersisted(h)
           /\ \A r \in Runs : ~CutTurn(r)
           /\ ~SaveAllSessions /\ ~CancelAll
  <1>1. /\ \A h \in Handlers, m \in Msgs : ~Send(h, "queue", m)
        /\ \A h \in Handlers : ~Touch(h) /\ ~BeginClosing(h)
        /\ ~SaveAllSessions
    BY DEF Send, Touch, BeginClosing, Arrives, SaveAllSessions
  <1>2. \A a \in Actors : at[a] \notin {"queue", "wait", "forget", "unlink", "cancel_all"}
    BY DEF KeptInv, StartsOnly, SaveSteps
  <1>3. \A h \in Handlers : ~StartOrQueue(h) /\ ~RunStopped(h) /\ ~Forget(h) /\ ~DeletePersisted(h)
    BY <1>2 DEF StartOrQueue, RunStopped, Forget, DeletePersisted
  <1>4. ~CancelAll /\ \A r \in Runs : ~CutTurn(r)
    BY <1>2 DEF CancelAll, CutTurn, KeptInv, StartsOnly
  <1> QED
    BY <1>1, <1>3, <1>4

\* Every step keeps what the files owe.
LEMMA KeptStep ==
    ASSUME Requests = {"start"}, TypeOK, LockKept, FilesWhole, KeptInv, [Next]_vars
    PROVE  KeptInv'
  <1>1. CASE UNCHANGED vars
    BY <1>1 DEF vars, memory, disk, carried, history, KeptInv, StartsOnly, NothingQueued, OneTurn, TurnIsNoted,
                SavedIsKnown, EachItsOwn, RunsUntold, Recalled, AcceptedIsKept, Holds, Carries, Ending, Written,
                InHand, Survivor
  <1>2. ASSUME NEW a \in Actors, SaveStep(a) PROVE KeptInv'
    BY <1>2, KeptCheckKnown, KeptCopyState, KeptReadTurns, KeptOpenNew, KeptSyncNew, KeptKeepPrevious, KeptReplace
       DEF SaveStep
  <1>3. ASSUME NEW a \in Actors, TurnStep(a) PROVE KeptInv'
    BY <1>3, KeptDrainQueue, KeptSetCurrentRun, KeptSetLastTask, KeptSpawnRun DEF TurnStep
  <1>4. ASSUME NEW h \in Handlers, Request(h) \/ HandlerStep(h) PROVE KeptInv'
    BY <1>4, NothingElse, KeptSend, KeptStartNotedRun DEF Request, HandlerStep
  <1>5. ASSUME NEW r \in Runs, RunStep(r) PROVE KeptInv'
    BY <1>5, NothingElse, KeptFinishTurn, KeptCloseRun, KeptEndRun, KeptTell DEF RunStep
  <1>6. ASSUME StartStep \/ SaveAllSessions \/ CancelAll \/ Crash \/ SpoilFile PROVE KeptInv'
    BY <1>6, NothingElse, KeptRestart, KeptLoadPersistedSessions, KeptResumeInterrupted, KeptCrash, KeptSpoilFile
       DEF StartStep
  <1> QED
    BY <1>1, <1>2, <1>3, <1>4, <1>5, <1>6 DEF Next

\* A session that was just made owes nothing.
LEMMA KeptInit == Init => TypeOK /\ LockKept /\ FilesWhole /\ KeptInv
  <1> SUFFICES ASSUME Init PROVE TypeOK /\ LockKept /\ FilesWhole /\ KeptInv
    OBVIOUS
  <1>1. TypeOK
    BY TypeInit
  <1>2. LockKept /\ FilesWhole
    BY RecordFacts DEF Init, LockKept, FilesWhole
  <1>3. /\ up /\ alive /\ known /\ ~closing /\ ~gone /\ ~running /\ queue = <<>> /\ accepted = {} /\ told = {} /\ sent = {}
        /\ \A a \in Actors : at[a] = "idle" /\ back[a] = "idle" /\ rec[a] = NoRecord
        /\ main = NoRecord /\ prev = NoFile /\ tmp = NoFile /\ ~NoRecord.running /\ NoRecord.queue = <<>>
    BY DEF Init, NoRecord
  <1>4. StartsOnly /\ NothingQueued
    BY <1>3 DEF StartsOnly, NothingQueued, SaveSteps
  <1>5. \A a \in Actors : ~Holds(a) /\ ~Carries(a) /\ ~Ending(a) /\ ~Written(a)
    BY <1>3 DEF Holds, Carries, Ending, Written, SaveSteps
  <1>6. OneTurn /\ TurnIsNoted /\ SavedIsKnown
    BY <1>3, <1>5 DEF OneTurn, TurnIsNoted, SavedIsKnown
  <1>7. EachItsOwn /\ RunsUntold /\ Recalled /\ AcceptedIsKept
    BY <1>3, <1>5 DEF EachItsOwn, RunsUntold, Recalled, AcceptedIsKept
  <1> QED
    BY <1>1, <1>2, <1>4, <1>6, <1>7 DEF KeptInv

\* The part of MCStore that is about turns is the store, and the other two leave it where it is.
TurnsInv == part = "turns" => TypeOK /\ LockKept /\ FilesWhole /\ KeptInv

LEMMA TurnsInvKept ==
    ASSUME Requests = {"start"}
    PROVE  MCInit /\ [][MCNext]_mcVars => []TurnsInv
  <1>1. MCInit => TurnsInv
    BY KeptInit DEF MCInit, TurnsInv
  <1>2. TurnsInv /\ [MCNext]_mcVars => TurnsInv'
    <2> SUFFICES ASSUME TurnsInv, [MCNext]_mcVars, part' = "turns" PROVE (TypeOK /\ LockKept /\ FilesWhole /\ KeptInv)'
      BY DEF TurnsInv
    <2>1. part = "turns" /\ [Next]_vars
      BY DEF MCNext, mcVars, OfTurns, OfFiles, OfLocal
    <2>2. TypeOK /\ LockKept /\ FilesWhole /\ KeptInv
      BY <2>1 DEF TurnsInv
    <2> QED
      BY <2>1, <2>2, TypeStep, FilesStep, KeptStep
  <1> QED
    BY <1>1, <1>2, PTL

\* A turn that somebody was told yes for is never lost: whatever saves overlap, wherever the process
\* dies and however often, what survives in the folder has it as the task in flight or among the finished
\* turns until its end was told - for any number of people and runs, where turns are started and nothing
\* is queued, and unless the disk loses a file.
THEOREM AcceptedTurnsKept ==
    ASSUME Requests = {"start"}
    PROVE  MCInit /\ [][MCNext]_mcVars => []TurnsAreKept
  <1>1. TurnsInv => TurnsAreKept
    BY DEF TurnsInv, TurnsAreKept, KeptInv
  <1> QED
    BY <1>1, TurnsInvKept, PTL

\* A turn whose end was told is not run again by a start: a file that says a turn is running is of one
\* that nobody was told the end of (closeRun saves the end before it gives the slot back and tells it).
THEOREM ToldTurnsOver ==
    ASSUME Requests = {"start"}
    PROVE  MCInit /\ [][MCNext]_mcVars => NoTurnTwice
  <1>1. TurnsInv /\ [MCNext]_mcVars =>
            [part = "turns" => ~(ResumeInterrupted /\ at'[Main] = "set_current" /\ msg'[Main] \in told)]_mcVars
    <2> SUFFICES ASSUME TurnsInv, part = "turns", ResumeInterrupted, at'[Main] = "set_current" PROVE msg'[Main] \notin told
      OBVIOUS
    <2>1. TypeOK /\ Recalled /\ RunsUntold
      BY DEF TurnsInv, KeptInv
    <2>2. LoadAll = main
      BY <2>1 DEF ResumeInterrupted, LoadAll, Recalled
    <2>3. main \in Records /\ main.running /\ msg'[Main] = main.last
      BY <2>1, <2>2 DEF ResumeInterrupted, Goto, TypeOK, PlaceType, CarriedType
    <2> QED
      BY <2>1, <2>3 DEF RunsUntold
  <1> QED
    BY <1>1, TurnsInvKept, PTL DEF NoTurnTwice
=============================================================================
