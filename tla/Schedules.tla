------------------------------ MODULE Schedules ------------------------------
(***************************************************************************)
(* Tasks that fire on their own (internal/schedule, gateway/schedules.go): *)
(* one record a task on disk, a watcher whose passes read every record,    *)
(* run what is due one after another, each to its end, and write each      *)
(* firing onto the record; and clients that create, change, delete and run *)
(* tasks meanwhile.                                                        *)
(***************************************************************************)
EXTENDS Naturals, FiniteSets

CONSTANTS
    Tasks,          \* identifiers, in the order LoadAll breaks ties in
    Passes,         \* goroutines the ticker starts
    Every,          \* the cadence of a task
    MaxNow,         \* bound: the clock
    MaxEdits,       \* bound: changes by clients
    MaxDeaths       \* bound: times the gateway dies

ASSUME SchedulesAssumption ==
    /\ Tasks \subseteq Nat \ {0} /\ IsFiniteSet(Tasks)
    /\ Every \in Nat \ {0} /\ MaxNow \in Nat /\ MaxEdits \in Nat /\ MaxDeaths \in Nat

VARIABLES
    now,
    records,    \* the store; is says whether the file was "never" there, is "there", or is "gone"
    pass,       \* what each goroutine is doing: [at, now, left, task]; left holds the copies it read
    manual,     \* turns started by hand that have not ended, by task
    patch,      \* the copy a PATCH read before its body was decoded: [task, copy]
    edits, deaths

schedVars == <<now, records, pass, manual, patch, edits, deaths>>

Record     == [is : {"never", "there", "gone"}, enabled : BOOLEAN, task : {"old", "new"}, created : 0..MaxNow,
               last : 0..MaxNow, ran : BOOLEAN, counted : 0..2]
Made(at)   == [is |-> "there", enabled |-> TRUE, task |-> "old", created |-> at, last |-> 0, ran |-> FALSE, counted |-> 0]
Never      == [Made(0) EXCEPT !.is = "never"]
Gone       == [Made(0) EXCEPT !.is = "gone"]
NoPatch    == [task |-> 0, copy |-> Never]
OffPass    == [at |-> "off", now |-> 0, left |-> <<>>, task |-> 0]
Exists(t)  == records[t].is = "there"

\* Schedule.Due.
Due(r, at) ==
    r.enabled /\ at >= (IF r.ran THEN r.last ELSE r.created) + Every

SchedulesInit ==
    /\ now = 0
    /\ records \in [Tasks -> {Made(0), Never}]
    /\ pass = [p \in Passes |-> OffPass]
    /\ manual = {} /\ patch = NoPatch
    /\ edits = 0 /\ deaths = 0

-----------------------------------------------------------------------------
(* The watcher.                                                             *)

\* Mutant: a tick starts a pass whatever the one before is doing.
BeginPassAnyway(p) ==
    /\ pass[p].at = "off"
    /\ pass' = [pass EXCEPT ![p] = [at |-> "pass", now |-> now, task |-> 0,
                                    left |-> [t \in {u \in Tasks : Exists(u)} |-> records[t]]]]
    /\ UNCHANGED <<now, records, manual, patch, edits, deaths>>

\* FireDue: a pass that finds another at work returns; a store that cannot be read ends it too.
BeginPass(p) ==
    /\ \A q \in Passes : pass[q].at = "off"
    /\ pass' = [pass EXCEPT ![p] = [at |-> "pass", now |-> now, task |-> 0,
                                    left |-> [t \in {u \in Tasks : Exists(u)} |-> records[t]]]]
    /\ UNCHANGED <<now, records, manual, patch, edits, deaths>>

\* The copies in the order of LoadAll.
First(left) ==
    CHOOSE t \in DOMAIN left : \A u \in DOMAIN left :
        left[t].created < left[u].created \/ (left[t].created = left[u].created /\ t <= u)
Without(left, t) == [u \in DOMAIN left \ {t} |-> left[u]]

\* Mutant: a pass ends at the first task that is not due.
FireNextBreaks(p) ==
    /\ pass[p].at = "pass" /\ DOMAIN pass[p].left # {}
    /\ LET t == First(pass[p].left) IN
         IF Due(pass[p].left[t], pass[p].now)
           THEN \E at \in {"turn", "record"} : pass' = [pass EXCEPT ![p].at = at, ![p].task = t]
           ELSE pass' = [pass EXCEPT ![p] = OffPass]
    /\ UNCHANGED <<now, records, manual, patch, edits, deaths>>

\* The next copy: not due, or its turn starts, or the session is gone or refuses it.
FireNext(p) ==
    /\ pass[p].at = "pass" /\ DOMAIN pass[p].left # {}
    /\ LET t == First(pass[p].left) IN
         IF Due(pass[p].left[t], pass[p].now)
           THEN \E at \in {"turn", "record"} : pass' = [pass EXCEPT ![p].at = at, ![p].task = t]
           ELSE pass' = [pass EXCEPT ![p].left = Without(@, t)]
    /\ UNCHANGED <<now, records, manual, patch, edits, deaths>>

TurnEnded(p) ==
    /\ pass[p].at = "turn"
    /\ pass' = [pass EXCEPT ![p].at = "record"]
    /\ UNCHANGED <<now, records, manual, patch, edits, deaths>>

\* What a firing writes of a record. Counting stops at two.
Fired(r, at) == [r EXCEPT !.last = at, !.ran = TRUE, !.counted = IF @ < 2 THEN @ + 1 ELSE @]

\* Mutant: the copy the firing started from is saved.
RecordFiringCopy(p) ==
    /\ pass[p].at = "record"
    /\ LET t == pass[p].task IN
         /\ records' = [records EXCEPT ![t] = Fired(pass[p].left[t], pass[p].now)]
         /\ pass' = [pass EXCEPT ![p].at = "pass", ![p].task = 0, ![p].left = Without(@, t)]
    /\ UNCHANGED <<now, manual, patch, edits, deaths>>

\* Update: the record as it is on disk now, if it is there.
RecordFiring(p) ==
    /\ pass[p].at = "record"
    /\ LET t == pass[p].task IN
         /\ records' = IF Exists(t) THEN [records EXCEPT ![t] = Fired(@, pass[p].now)] ELSE records
         /\ pass' = [pass EXCEPT ![p].at = "pass", ![p].task = 0, ![p].left = Without(@, t)]
    /\ UNCHANGED <<now, manual, patch, edits, deaths>>

EndPass(p) ==
    /\ pass[p].at = "pass" /\ DOMAIN pass[p].left = {}
    /\ pass' = [pass EXCEPT ![p] = OffPass]
    /\ UNCHANGED <<now, records, manual, patch, edits, deaths>>

-----------------------------------------------------------------------------
(* The clients.                                                             *)

Create(t) ==
    /\ records[t] = Never
    /\ records' = [records EXCEPT ![t] = Made(now)]
    /\ UNCHANGED <<now, pass, manual, patch, edits, deaths>>

\* handleUpdateSchedule, until the body is decoded.
PatchLoad(t) ==
    /\ Exists(t) /\ patch = NoPatch /\ edits < MaxEdits
    /\ patch' = [task |-> t, copy |-> records[t]] /\ edits' = edits + 1
    /\ UNCHANGED <<now, records, pass, manual, deaths>>

\* ... and from there: what the body carries is applied to the copy, and the copy is saved.
PatchSave ==
    /\ patch # NoPatch
    /\ \/ records' = [records EXCEPT ![patch.task] = [patch.copy EXCEPT !.enabled = ~@]]
       \/ records' = [records EXCEPT ![patch.task] = [patch.copy EXCEPT !.task = "new"]]
       \/ UNCHANGED records
    /\ patch' = NoPatch
    /\ UNCHANGED <<now, pass, manual, edits, deaths>>

DeleteTask(t) ==
    /\ Exists(t) /\ edits < MaxEdits
    /\ records' = [records EXCEPT ![t] = Gone] /\ edits' = edits + 1
    /\ UNCHANGED <<now, pass, manual, patch, deaths>>

\* handleRunScheduleNow, and its record once the turn ended.
RunNow(t) ==
    /\ Exists(t) /\ t \notin manual /\ edits < MaxEdits
    /\ manual' = manual \union {t} /\ edits' = edits + 1
    /\ UNCHANGED <<now, records, pass, patch, deaths>>

\* Mutant: a run by hand moves the cadence.
RecordManualMoves(t) ==
    /\ t \in manual
    /\ manual' = manual \ {t}
    /\ records' = IF Exists(t) THEN [records EXCEPT ![t] = Fired(@, now)] ELSE records
    /\ UNCHANGED <<now, pass, patch, edits, deaths>>

RecordManual(t) ==
    /\ t \in manual
    /\ manual' = manual \ {t}
    /\ records' = IF Exists(t) THEN [records EXCEPT ![t].counted = IF @ < 2 THEN @ + 1 ELSE @] ELSE records
    /\ UNCHANGED <<now, pass, patch, edits, deaths>>

TimePasses ==
    /\ now < MaxNow
    /\ now' = now + 1
    /\ UNCHANGED <<records, pass, manual, patch, edits, deaths>>

\* The gateway dies with what it was doing; every record is written by a rename.
GatewayDies ==
    /\ deaths < MaxDeaths
    /\ deaths' = deaths + 1
    /\ pass' = [p \in Passes |-> OffPass] /\ manual' = {} /\ patch' = NoPatch
    /\ UNCHANGED <<now, records, edits>>

WatcherStep == \E p \in Passes :
    BeginPass(p) \/ FireNext(p) \/ TurnEnded(p) \/ RecordFiring(p) \/ EndPass(p)

SchedulesNext ==
    \/ WatcherStep \/ TimePasses \/ GatewayDies \/ PatchSave
    \/ \E t \in Tasks : Create(t) \/ PatchLoad(t) \/ DeleteTask(t) \/ RunNow(t) \/ RecordManual(t)

SchedulesSpec == SchedulesInit /\ [][SchedulesNext]_schedVars

\* The ticker ticks, and a turn that was started ends.
FairSchedulesSpec == SchedulesSpec /\ WF_schedVars(WatcherStep)

-----------------------------------------------------------------------------
(* Properties.                                                              *)

Firing(t) == {p \in Passes : pass[p].at \in {"turn", "record"} /\ pass[p].task = t}

\* Type invariant: the records, the passes and the copies they hold.
SchedulesTypeOK ==
    /\ now \in 0..MaxNow /\ edits \in 0..MaxEdits /\ deaths \in 0..MaxDeaths
    /\ records \in [Tasks -> Record]
    /\ \A p \in Passes : /\ pass[p].at \in {"off", "pass", "turn", "record"} /\ pass[p].now <= now
                         /\ pass[p].at \in {"turn", "record"} <=> pass[p].task \in DOMAIN pass[p].left
    /\ manual \subseteq Tasks
    /\ patch.task \in Tasks \union {0} /\ patch.copy \in Record

\* "Without this the same task would start again while the first is still going" (Watcher.mu):
\* a task is never in two firings of the watcher.
NeverTwiceAtOnce == \A t \in Tasks : Cardinality(Firing(t)) <= 1

\* A step of a client, and not of the watcher or of a run by hand.
ClientEdits == patch' # patch \/ edits' # edits

\* "Only the fields change touches are this writer's, and a record that is gone stays gone"
\* (Store.Update): what a firing, or a run by hand, writes once it is over neither undoes an
\* edit made meanwhile nor brings a deleted task back.
EditsSurviveFirings ==
    [][\A t \in Tasks : ~ClientEdits =>
         /\ records[t] = Gone => records'[t] = Gone
         /\ Exists(t) => /\ records'[t].enabled = records[t].enabled
                         /\ records'[t].task = records[t].task
                         /\ records'[t].created = records[t].created]_schedVars

\* The cadence: no record ever says that a task ran earlier than one cadence after it was
\* made, or less than one after its run before, whatever ran it by hand.
CadenceIsKept ==
    [][\A t \in Tasks : ~ClientEdits /\ Exists(t) =>
         LET r == records[t] q == records'[t] IN
           q.last # r.last => q.last >= (IF r.ran THEN r.last ELSE r.created) + Every]_schedVars

\* A task that is due runs: the turn of every other task that is due ends before it.
DueFires ==
    \A t \in Tasks : (Exists(t) /\ Due(records[t], now)) ~> (Firing(t) # {} \/ ~Exists(t) \/ ~Due(records[t], now))

-----------------------------------------------------------------------------
(* Promises the code does not keep.                                         *)

\* "Only what the body carries is applied, so pause this cannot rewrite the task by accident"
\* (handleUpdateSchedule): what a PATCH writes is the record as it is, with one field changed.
OnlyWhatItCarries ==
    [][patch # NoPatch /\ patch' = NoPatch /\ deaths' = deaths =>
         LET t == patch.task IN
           records'[t] # records[t] => Exists(t) /\ records'[t].last = records[t].last
                                                 /\ records'[t].ran = records[t].ran]_schedVars

\* "A disabled task is never due" (Schedule.Enabled): the copies a pass goes through are as
\* old as the turns that ran before them.
PausedDoesNotFire ==
    [][\A p \in Passes : pass[p].at = "pass" /\ pass'[p].at = "turn" =>
         Exists(pass'[p].task) /\ records[pass'[p].task].enabled]_schedVars
=============================================================================
