--------------------------- MODULE ServicesProofs ----------------------------
(***************************************************************************)
(* For any tasks, passes, cadence and bounds: a task of Schedules is never *)
(* in two firings at once, a firing undoes no edit, and no record ever     *)
(* says that a task ran before its cadence.  And for any limits of         *)
(* PullRequestWatch: one life of a watch hands a push and a comment to the *)
(* agent once, whatever restarts it survives.  They share no variable.     *)
(***************************************************************************)
EXTENDS Schedules, PullRequestWatch, FiniteSetTheorems, WellFoundedInduction, TLAPS

Copies  == UNION {[S -> Record] : S \in SUBSET Tasks}
Doing   == [at : {"off", "pass", "turn", "record"}, now : 0..MaxNow, left : Copies, task : Tasks \union {0}]
Active  == {p \in Passes : pass[p].at # "off"}

\* What the cadence of a record is counted from.
Base(r) == IF r.ran THEN r.last ELSE r.created

Types ==
    /\ now \in 0..MaxNow /\ edits \in 0..MaxEdits /\ deaths \in 0..MaxDeaths
    /\ records \in [Tasks -> Record]
    /\ manual \subseteq Tasks
    /\ patch \in [task : Tasks \union {0}, copy : Record]

PassTypes ==
    /\ pass \in [Passes -> Doing]
    /\ \A p \in Passes : pass[p].now <= now
    /\ \A p \in Passes : pass[p].at \in {"off", "pass"} => pass[p].task = 0

\* One goroutine at most is in a pass (Watcher.mu).
OnePass == \A p \in Active, q \in Active : p = q

\* A copy a pass still has to go through is of a file that was made, and the record has not
\* fired since it was read.
CopiesAreLater ==
    \A p \in Active : \A t \in DOMAIN pass[p].left :
        /\ pass[p].left[t].is = "there" /\ records[t].is # "never"
        /\ Exists(t) => Base(records[t]) <= Base(pass[p].left[t])
        /\ patch.task = t => Base(patch.copy) <= Base(pass[p].left[t])

\* The copy of a PATCH is no further on than the record.
PatchIsOld ==
    patch # NoPatch =>
        /\ patch.task \in Tasks
        /\ patch.copy.is = "there" /\ records[patch.task].is # "never"
        /\ Exists(patch.task) => Base(patch.copy) <= Base(records[patch.task])

\* What a pass is firing was due when the pass began.
FiringIsDue ==
    \A p \in Passes : pass[p].at \in {"turn", "record"} =>
        /\ pass[p].task \in DOMAIN pass[p].left
        /\ Due(pass[p].left[pass[p].task], pass[p].now)

SInv == Types /\ PassTypes /\ OnePass /\ CopiesAreLater /\ PatchIsOld /\ FiringIsDue

-----------------------------------------------------------------------------
(* Records and the copies of them.                                          *)

\* Records are of their type, whatever happened to them.
LEMMA RecordFacts ==
    /\ \A at \in 0..MaxNow : Made(at) \in Record /\ Made(at).is = "there"
    /\ Never \in Record /\ Never.is = "never" /\ Gone \in Record /\ Gone.is = "gone"
  <1> USE SchedulesAssumption
  <1>1. \A at \in 0..MaxNow : Made(at) \in Record /\ Made(at).is = "there"
    BY DEF Made, Record
  <1>2. Never \in Record /\ Never.is = "never" /\ Gone \in Record /\ Gone.is = "gone"
    BY <1>1 DEF Never, Gone, Record
  <1> QED
    BY <1>1, <1>2

\* What a cadence is counted from is a time.
LEMMA BaseFact == \A r \in Record : Base(r) \in Nat /\ Base(r) <= Base(r)
  <1>1. \A r \in Record : Base(r) \in Nat
    BY SchedulesAssumption DEF Base, Record
  <1> QED
    BY <1>1

\* What a firing writes.
LEMMA FiredFacts ==
    ASSUME NEW r \in Record, NEW at \in 0..MaxNow
    PROVE  /\ Fired(r, at) \in Record /\ Base(Fired(r, at)) = at
           /\ Fired(r, at).last = at /\ Fired(r, at).is = r.is
           /\ Fired(r, at).enabled = r.enabled /\ Fired(r, at).task = r.task
           /\ Fired(r, at).created = r.created
  <1> DEFINE c == IF r.counted < 2 THEN r.counted + 1 ELSE r.counted
  <1>1. c \in 0..2
    BY DEF Record
  <1>2. Fired(r, at) = [r EXCEPT !.last = at, !.ran = TRUE, !.counted = c]
    BY DEF Fired, Record
  <1> HIDE DEF c
  <1> QED
    BY <1>1, <1>2, SchedulesAssumption DEF Base, Record

\* What a client's edit, or a run by hand, writes.
LEMMA EditFacts ==
    ASSUME NEW r \in Record,
           NEW r2 \in {[r EXCEPT !.enabled = ~@], [r EXCEPT !.task = "new"],
                       [r EXCEPT !.counted = IF @ < 2 THEN @ + 1 ELSE @]}
    PROVE  r2 \in Record /\ r2.is = r.is /\ r2.last = r.last /\ Base(r2) = Base(r)
  <1> USE SchedulesAssumption
  <1>1. CASE r2 = [r EXCEPT !.enabled = ~@]
    BY <1>1 DEF Record, Base
  <1>2. CASE r2 = [r EXCEPT !.task = "new"]
    BY <1>2 DEF Record, Base
  <1>3. CASE r2 = [r EXCEPT !.counted = IF @ < 2 THEN @ + 1 ELSE @]
    BY <1>3 DEF Record, Base
  <1> QED
    BY <1>1, <1>2, <1>3

\* What a copy is, and what stays one.
LEMMA CopiesFacts ==
    /\ \A f \in Copies : DOMAIN f \subseteq Tasks /\ \A t \in DOMAIN f : f[t] \in Record
    /\ <<>> \in Copies
    /\ \A f \in Copies, t \in Tasks :
         /\ Without(f, t) \in Copies /\ DOMAIN Without(f, t) = DOMAIN f \ {t}
         /\ \A u \in DOMAIN f \ {t} : Without(f, t)[u] = f[u]
  <1>1. \A f \in Copies : DOMAIN f \subseteq Tasks /\ \A t \in DOMAIN f : f[t] \in Record
    BY DEF Copies
  <1>2. <<>> \in Copies
    <2>1. <<>> \in [{} -> Record]
      OBVIOUS
    <2> QED
      BY <2>1 DEF Copies
  <1>3. ASSUME NEW f \in Copies, NEW t \in Tasks PROVE Without(f, t) \in [DOMAIN f \ {t} -> Record]
    BY <1>1 DEF Without
  <1>4. ASSUME NEW f \in Copies, NEW t \in Tasks PROVE Without(f, t) \in Copies
    <2>1. DOMAIN f \ {t} \in SUBSET Tasks
      BY <1>1
    <2> QED
      BY <1>3, <2>1 DEF Copies
  <1> QED
    BY <1>1, <1>2, <1>4 DEF Without

\* There is a first among the copies: the least identifier of those made earliest.
LEMMA FirstFact ==
    ASSUME NEW f \in Copies, DOMAIN f # {}
    PROVE  First(f) \in DOMAIN f
  <1> DEFINE Lesser  == OpToRel(<, Nat)
             Dates   == {f[t].created : t \in DOMAIN f}
  <1>1. IsWellFoundedOn(Lesser, Nat)
    BY NatLessThanWellFounded
  <1>2. \A x \in Nat, y \in Nat : x < y => <<x, y>> \in Lesser
    BY DEF OpToRel
  <1> HIDE DEF Lesser
  <1>3. \A t \in DOMAIN f : t \in Nat /\ f[t].created \in Nat
    <2>1. \A r \in Record : r.created \in Nat
      BY SchedulesAssumption DEF Record
    <2> QED
      BY <2>1, CopiesFacts, SchedulesAssumption
  <1>4. Dates \subseteq Nat /\ Dates # {}
    BY <1>3
  <1>5. PICK d \in Dates : \A e \in Dates : ~(<<e, d>> \in Lesser)
    <2> HIDE DEF Dates
    <2> QED
      BY <1>1, <1>4, WFMin
  <1> DEFINE Made1 == {t \in DOMAIN f : f[t].created = d}
  <1>6. Made1 \subseteq Nat /\ Made1 # {}
    BY <1>3, <1>5
  <1>7. PICK t \in Made1 : \A u \in Made1 : ~(<<u, t>> \in Lesser)
    <2> HIDE DEF Made1
    <2> QED
      BY <1>1, <1>6, WFMin
  <1>8. \A u \in DOMAIN f : f[t].created < f[u].created \/ (f[t].created = f[u].created /\ t <= u)
    <2> SUFFICES ASSUME NEW u \in DOMAIN f
                 PROVE  f[t].created < f[u].created \/ (f[t].created = f[u].created /\ t <= u)
      OBVIOUS
    <2>1. ~(f[u].created < d)
      BY <1>2, <1>3, <1>4, <1>5
    <2>2. f[u].created = d => ~(u < t)
      BY <1>2, <1>3, <1>6, <1>7
    <2> QED
      BY <2>1, <2>2, <1>3, <1>4, <1>7
  <1> QED
    BY <1>7, <1>8 DEF First

\* The first state: no pass is at work.
LEMMA SInvInit == SchedulesInit => SInv
  <1> SUFFICES ASSUME SchedulesInit PROVE SInv
    OBVIOUS
  <1>1. \A p \in Passes : pass[p].at = "off" /\ pass[p].task = 0 /\ pass[p].now = 0
    BY DEF SchedulesInit, OffPass
  <1>2. OffPass \in Doing
    BY CopiesFacts, SchedulesAssumption DEF OffPass, Doing
  <1>3. Types
    BY RecordFacts, SchedulesAssumption DEF SchedulesInit, Types, NoPatch
  <1>4. PassTypes
    BY <1>1, <1>2 DEF SchedulesInit, PassTypes
  <1>5. OnePass /\ CopiesAreLater /\ FiringIsDue
    BY <1>1 DEF OnePass, CopiesAreLater, FiringIsDue, Active
  <1>6. PatchIsOld
    BY DEF SchedulesInit, PatchIsOld, NoPatch
  <1> QED
    BY <1>3, <1>4, <1>5, <1>6 DEF SInv

-----------------------------------------------------------------------------

\* A pass that is off is of its type.
LEMMA SInvOff == OffPass \in Doing /\ OffPass.at = "off"
BY CopiesFacts, SchedulesAssumption DEF OffPass, Doing

\* Every step keeps the invariant.
LEMMA SInvStep == SInv /\ [SchedulesNext]_schedVars => SInv'
  <1> SUFFICES ASSUME SInv, [SchedulesNext]_schedVars PROVE SInv'
    OBVIOUS
  <1> USE SchedulesAssumption DEF SInv
  <1>1. ASSUME NEW p \in Passes, BeginPass(p) PROVE SInv'
    <2> DEFINE read == [t \in {u \in Tasks : Exists(u)} |-> records[t]]
               d    == [at |-> "pass", now |-> now, task |-> 0, left |-> read]
    <2>a. d \in Doing /\ d.left = read
      <3>1. read \in Copies
        <4>1. read \in [{u \in Tasks : Exists(u)} -> Record]
          BY DEF Types
        <4> QED
          BY <4>1 DEF Copies
      <3> QED
        BY <3>1 DEF Doing, Types
    <2>b. pass'[p] = d /\ pass' \in [Passes -> Doing] /\ (\A q \in Passes \ {p} : pass'[q] = pass[q])
      BY <1>1, <2>a DEF BeginPass, PassTypes
    <2>c. Active' = {p}
      BY <1>1, <2>b DEF BeginPass, Active
    <2> HIDE DEF d
    <2>1. Types'
      BY <1>1, RecordFacts DEF BeginPass, Types
    <2>2. PassTypes'
      BY <1>1, <2>a, <2>b, <2>c DEF BeginPass, PassTypes, Doing, Types
    <2>3. OnePass'
      BY <1>1, <2>a, <2>b, <2>c DEF BeginPass, OnePass, Active
    <2>4. CopiesAreLater'
      <3>1. \A t \in DOMAIN read : t \in Tasks \ {0} /\ Exists(t) /\ read[t] = records[t]
        BY SchedulesAssumption
      <3>2. \A t \in DOMAIN read : patch.task = t => Base(patch.copy) <= Base(records[t])
        BY <3>1 DEF PatchIsOld, NoPatch
      <3>3. \A t \in DOMAIN read : Base(records[t]) <= Base(records[t])
        <4>1. \A r \in Record : Base(r) <= Base(r)
          BY BaseFact
        <4> QED
          BY <3>1, <4>1 DEF Types
      <3>4. records' = records /\ patch' = patch
        BY <1>1 DEF BeginPass
      <3> HIDE DEF read
      <3> QED
        BY <2>a, <2>b, <2>c, <3>1, <3>2, <3>3, <3>4 DEF CopiesAreLater, Exists
    <2>5. PatchIsOld'
      BY <1>1, RecordFacts DEF BeginPass, Exists, PatchIsOld
    <2>6. FiringIsDue'
      BY <1>1, <2>a, <2>b, <2>c, CopiesFacts, RecordFacts DEF BeginPass, Active, Exists, PassTypes, Doing, Types,
         CopiesAreLater, PatchIsOld, FiringIsDue, OffPass
    <2> QED
      BY <2>1, <2>2, <2>3, <2>4, <2>5, <2>6
  <1>2. ASSUME NEW p \in Passes, FireNext(p) PROVE SInv'
    <2> DEFINE t == First(pass[p].left)
    <2>a. pass[p] \in Doing /\ t \in DOMAIN pass[p].left /\ t \in Tasks
      <3>1. pass[p] \in Doing /\ pass[p].left \in Copies
        BY DEF PassTypes, Doing
      <3> QED
        BY <1>2, <3>1, FirstFact, CopiesFacts DEF FireNext
    <2>b. \/ \E at \in {"turn", "record"} : /\ pass'[p] = [pass[p] EXCEPT !.at = at, !.task = t]
                                             /\ Due(pass[p].left[t], pass[p].now)
          \/ pass'[p] = [pass[p] EXCEPT !.left = Without(@, t)]
      BY <1>2 DEF FireNext, PassTypes
    <2>c. p \in Active /\ (\A q \in Passes \ {p} : pass'[q] = pass[q] /\ pass[q].at = "off")
      BY <1>2 DEF FireNext, PassTypes, OnePass, Active
    <2>d. pass'[p] \in Doing /\ pass' \in [Passes -> Doing]
      <3>1. ASSUME NEW at \in {"turn", "record"} PROVE [pass[p] EXCEPT !.at = at, !.task = t] \in Doing
        BY <2>a DEF Doing
      <3>2. [pass[p] EXCEPT !.left = Without(@, t)] \in Doing
        BY <2>a, CopiesFacts DEF Doing
      <3> QED
        BY <1>2, <2>b, <3>1, <3>2 DEF FireNext, PassTypes
    <2>e. /\ DOMAIN pass'[p].left \subseteq DOMAIN pass[p].left
          /\ \A u \in DOMAIN pass'[p].left : pass'[p].left[u] = pass[p].left[u]
          /\ pass'[p].now = pass[p].now
          /\ pass'[p].at \in {"turn", "record"} =>
               pass'[p].task = t /\ pass'[p].left = pass[p].left /\ Due(pass[p].left[t], pass[p].now)
          /\ pass'[p].at \in {"off", "pass"} => pass'[p].task = 0
      <3>1. CASE \E at \in {"turn", "record"} : /\ pass'[p] = [pass[p] EXCEPT !.at = at, !.task = t]
                                               /\ Due(pass[p].left[t], pass[p].now)
        BY <2>a, <3>1 DEF Doing
      <3>2. CASE pass'[p] = [pass[p] EXCEPT !.left = Without(@, t)]
        <4>1. pass[p].at = "pass" /\ pass[p].task = 0
          BY <1>2 DEF FireNext, PassTypes
        <4>2. pass[p].left \in Copies
          BY <2>a DEF Doing
        <4>3. /\ pass'[p].left = Without(pass[p].left, t) /\ pass'[p].now = pass[p].now
              /\ pass'[p].at = pass[p].at /\ pass'[p].task = pass[p].task
          BY <2>a, <3>2 DEF Doing
        <4>4. t \in Tasks
          BY <2>a
        <4>5. /\ DOMAIN Without(pass[p].left, t) = DOMAIN pass[p].left \ {t}
              /\ \A u \in DOMAIN pass[p].left \ {t} : Without(pass[p].left, t)[u] = pass[p].left[u]
          BY <4>2, <4>4, CopiesFacts
        <4> QED
          BY <4>1, <4>3, <4>5
      <3> QED
        BY <2>b, <3>1, <3>2
    <2> HIDE DEF t
    <2>1. Types'
      BY <1>2, RecordFacts DEF FireNext, Types
    <2>2. PassTypes'
      BY <1>2, <2>a, <2>c, <2>d, <2>e DEF FireNext, PassTypes, Doing
    <2>3. OnePass'
      BY <1>2, <2>a, <2>b, <2>c, <2>d DEF FireNext, OnePass, Active
    <2>4. CopiesAreLater'
      BY <1>2, <2>c, <2>e DEF FireNext, CopiesAreLater, Active, Exists
    <2>5. PatchIsOld'
      BY <1>2, RecordFacts DEF FireNext, Exists, PatchIsOld
    <2>6. FiringIsDue'
      BY <1>2, <2>a, <2>c, <2>e DEF FireNext, FiringIsDue
    <2> QED
      BY <2>1, <2>2, <2>3, <2>4, <2>5, <2>6
  <1>3. ASSUME NEW p \in Passes, TurnEnded(p) PROVE SInv'
    <2>a. pass[p] \in Doing
      BY DEF PassTypes
    <2>b. pass'[p] = [pass[p] EXCEPT !.at = "record"]
      BY <1>3 DEF TurnEnded, PassTypes
    <2>c. p \in Active /\ (\A q \in Passes \ {p} : pass'[q] = pass[q] /\ pass[q].at = "off")
      BY <1>3 DEF TurnEnded, PassTypes, OnePass, Active
    <2>d. pass'[p] \in Doing /\ pass' \in [Passes -> Doing]
      <3>1. pass'[p] \in Doing
        BY <2>a, <2>b, CopiesFacts, SInvOff DEF Doing
      <3> QED
        BY <1>3, <3>1 DEF TurnEnded, PassTypes
    <2>1. Types'
      BY <1>3, RecordFacts DEF TurnEnded, Types
    <2>2. PassTypes'
      BY <1>3, <2>a, <2>b, <2>c, <2>d DEF TurnEnded, PassTypes, Doing, Types
    <2>3. OnePass'
      BY <1>3, <2>a, <2>b, <2>c, <2>d DEF TurnEnded, OnePass, Active
    <2>4. CopiesAreLater'
      BY <1>3, <2>a, <2>b, <2>c, <2>d, CopiesFacts, RecordFacts DEF TurnEnded, Active, Exists, PassTypes, Doing, Types,
         CopiesAreLater, PatchIsOld, FiringIsDue, OffPass
    <2>5. PatchIsOld'
      BY <1>3, RecordFacts DEF TurnEnded, Exists, PatchIsOld
    <2>6. FiringIsDue'
      BY <1>3, <2>a, <2>b, <2>c, <2>d, CopiesFacts, RecordFacts DEF TurnEnded, Active, Exists, PassTypes, Doing, Types,
         CopiesAreLater, PatchIsOld, FiringIsDue, OffPass
    <2> QED
      BY <2>1, <2>2, <2>3, <2>4, <2>5, <2>6
  <1>4. ASSUME NEW p \in Passes, RecordFiring(p) PROVE SInv'
    <2> DEFINE t == pass[p].task
    <2>a. pass[p] \in Doing /\ t \in DOMAIN pass[p].left /\ t \in Tasks
      <3>1. pass[p] \in Doing /\ pass[p].left \in Copies
        BY DEF PassTypes, Doing
      <3> QED
        BY <1>4, <3>1, CopiesFacts DEF RecordFiring, FiringIsDue
    <2>b. pass'[p] = [pass[p] EXCEPT !.at = "pass", !.task = 0, !.left = Without(@, t)]
      BY <1>4 DEF RecordFiring, PassTypes
    <2>c. p \in Active /\ (\A q \in Passes \ {p} : pass'[q] = pass[q] /\ pass[q].at = "off")
      BY <1>4 DEF RecordFiring, PassTypes, OnePass, Active
    <2>d. pass'[p] \in Doing /\ pass' \in [Passes -> Doing]
      <3>1. pass'[p] \in Doing
        <4>1. pass[p].left \in Copies /\ t \in Tasks
          BY <2>a DEF Doing
        <4>2. Without(pass[p].left, t) \in Copies
          BY <4>1, CopiesFacts
        <4> QED
          BY <2>a, <2>b, <4>2 DEF Doing
      <3> QED
        BY <1>4, <3>1 DEF RecordFiring, PassTypes
    <2> HIDE DEF t
    <2>1. Types'
      BY <1>4, FiredFacts, BaseFact, <2>a DEF RecordFiring, Types, PassTypes, Doing, Exists
    <2>2. PassTypes'
      BY <1>4, <2>a, <2>b, <2>c, <2>d DEF RecordFiring, PassTypes, Doing, Types
    <2>3. OnePass'
      BY <1>4, <2>a, <2>b, <2>c, <2>d DEF RecordFiring, OnePass, Active
    <2>4. CopiesAreLater'
      <3>1. \A q \in Active' : q = p
        BY <2>c DEF Active
      <3>2. DOMAIN pass'[p].left = DOMAIN pass[p].left \ {t} /\ \A u \in DOMAIN pass[p].left \ {t} : pass'[p].left[u] = pass[p].left[u]
        <4>1. pass[p].left \in Copies /\ t \in Tasks
          BY <2>a DEF Doing
        <4>2. pass'[p].left = Without(pass[p].left, t)
          BY <2>a, <2>b DEF Doing
        <4>3. /\ DOMAIN Without(pass[p].left, t) = DOMAIN pass[p].left \ {t}
              /\ \A u \in DOMAIN pass[p].left \ {t} : Without(pass[p].left, t)[u] = pass[p].left[u]
          BY <4>1, CopiesFacts
        <4> QED
          BY <4>2, <4>3
      <3>3. \A u \in DOMAIN pass[p].left \ {t} : records'[u] = records[u] /\ patch' = patch
        BY <1>4, <2>a, CopiesFacts DEF RecordFiring, Types, t
      <3> QED
        BY <2>c, <3>1, <3>2, <3>3 DEF CopiesAreLater, Exists
    <2>5. PatchIsOld'
      BY <1>4, FiredFacts, BaseFact, <2>a, <2>c DEF RecordFiring, Exists, PatchIsOld, Types, PassTypes, Doing,
         CopiesAreLater, FiringIsDue, Due, Base
    <2>6. FiringIsDue'
      BY <1>4, <2>a, <2>b, <2>c, <2>d, CopiesFacts, FiredFacts, BaseFact DEF RecordFiring, Active, Exists, PassTypes,
         Doing, Types, CopiesAreLater, PatchIsOld, FiringIsDue, OffPass
    <2> QED
      BY <2>1, <2>2, <2>3, <2>4, <2>5, <2>6
  <1>5. ASSUME NEW p \in Passes, EndPass(p) PROVE SInv'
    <2>a. pass[p] \in Doing
      BY DEF PassTypes
    <2>b. pass'[p] = OffPass
      BY <1>5 DEF EndPass, PassTypes
    <2>c. p \in Active /\ (\A q \in Passes \ {p} : pass'[q] = pass[q] /\ pass[q].at = "off")
      BY <1>5 DEF EndPass, PassTypes, OnePass, Active
    <2>d. pass'[p] \in Doing /\ pass' \in [Passes -> Doing]
      <3>1. pass'[p] \in Doing
        BY <2>a, <2>b, CopiesFacts, SInvOff DEF Doing
      <3> QED
        BY <1>5, <3>1 DEF EndPass, PassTypes
    <2>1. Types'
      BY <1>5, RecordFacts DEF EndPass, Types
    <2>2. PassTypes'
      BY <1>5, <2>a, <2>b, <2>c, <2>d DEF EndPass, PassTypes, Doing, Types, OffPass
    <2>3. OnePass'
      BY <1>5, <2>a, <2>b, <2>c, <2>d DEF EndPass, OnePass, Active
    <2>4. CopiesAreLater'
      BY <1>5, <2>a, <2>b, <2>c, <2>d, CopiesFacts, RecordFacts DEF EndPass, Active, Exists, PassTypes, Doing, Types,
         CopiesAreLater, PatchIsOld, FiringIsDue, OffPass
    <2>5. PatchIsOld'
      BY <1>5, RecordFacts DEF EndPass, Exists, PatchIsOld
    <2>6. FiringIsDue'
      BY <1>5, <2>a, <2>b, <2>c, <2>d, CopiesFacts, RecordFacts DEF EndPass, Active, Exists, PassTypes, Doing, Types,
         CopiesAreLater, PatchIsOld, FiringIsDue, OffPass
    <2> QED
      BY <2>1, <2>2, <2>3, <2>4, <2>5, <2>6
  <1>6. ASSUME TimePasses PROVE SInv'
    <2>1. Types'
      BY <1>6, RecordFacts DEF TimePasses, Active, Exists, Types
    <2>2. PassTypes'
      <3>1. \A p \in Passes : pass[p].now \in 0..MaxNow
        BY DEF PassTypes, Doing
      <3> QED
        BY <1>6, <3>1 DEF TimePasses, PassTypes, Types
    <2>3. OnePass'
      BY <1>6, RecordFacts DEF TimePasses, Active, Exists, OnePass, Types
    <2>4. CopiesAreLater'
      BY <1>6, RecordFacts DEF TimePasses, Active, Exists, CopiesAreLater, Types
    <2>5. PatchIsOld'
      BY <1>6, RecordFacts DEF TimePasses, Active, Exists, PatchIsOld, Types
    <2>6. FiringIsDue'
      BY <1>6, RecordFacts DEF TimePasses, Active, Exists, FiringIsDue, Types
    <2> QED
      BY <2>1, <2>2, <2>3, <2>4, <2>5, <2>6
  <1>7. ASSUME GatewayDies PROVE SInv'
    <2>1. Types'
      <3>1. NoPatch \in [task : Tasks \union {0}, copy : Record]
        BY RecordFacts DEF NoPatch
      <3> QED
        BY <1>7, <3>1 DEF GatewayDies, Types
    <2>2. PassTypes'
      BY <1>7, RecordFacts, SInvOff DEF GatewayDies, Active, Exists, PassTypes, Types, OffPass, NoPatch
    <2>3. OnePass'
      BY <1>7, RecordFacts, SInvOff DEF GatewayDies, Active, Exists, OnePass, Types, OffPass, NoPatch, PassTypes
    <2>4. CopiesAreLater'
      BY <1>7, RecordFacts, SInvOff DEF GatewayDies, Active, Exists, CopiesAreLater, Types, OffPass, NoPatch, PassTypes
    <2>5. PatchIsOld'
      BY <1>7, RecordFacts, SInvOff DEF GatewayDies, Active, Exists, PatchIsOld, Types, OffPass, NoPatch, PassTypes
    <2>6. FiringIsDue'
      BY <1>7, RecordFacts, SInvOff DEF GatewayDies, Active, Exists, FiringIsDue, Types, OffPass, NoPatch, PassTypes
    <2> QED
      BY <2>1, <2>2, <2>3, <2>4, <2>5, <2>6
  <1>8. ASSUME PatchSave PROVE SInv'
    <2> DEFINE t == patch.task
    <2>a. /\ t \in Tasks /\ patch.copy \in Record /\ patch.copy.is = "there" /\ records[t].is # "never"
          /\ NoPatch \in [task : Tasks \union {0}, copy : Record]
      BY <1>8, RecordFacts DEF PatchSave, PatchIsOld, Types, NoPatch
    <2>b. /\ patch' = NoPatch /\ UNCHANGED <<now, pass, manual, edits, deaths>>
          /\ records' \in [Tasks -> Record]
          /\ \A u \in Tasks \ {t} : records'[u] = records[u]
          /\ (records'[t].is = "there" /\ Base(records'[t]) = Base(patch.copy)) \/ records'[t] = records[t]
      <3>1. \/ records' = [records EXCEPT ![t] = [patch.copy EXCEPT !.enabled = ~@]]
            \/ records' = [records EXCEPT ![t] = [patch.copy EXCEPT !.task = "new"]]
            \/ UNCHANGED records
        BY <1>8 DEF PatchSave
      <3>2. patch' = NoPatch /\ UNCHANGED <<now, pass, manual, edits, deaths>> /\ records \in [Tasks -> Record]
        BY <1>8 DEF PatchSave, Types
      <3>3. \A q \in Record : [records EXCEPT ![t] = q] \in [Tasks -> Record] /\ [records EXCEPT ![t] = q][t] = q
                                /\ \A u \in Tasks \ {t} : [records EXCEPT ![t] = q][u] = records[u]
        BY <2>a, <3>2
      <3> DEFINE on   == [patch.copy EXCEPT !.enabled = ~@]
                 task == [patch.copy EXCEPT !.task = "new"]
      <3>4. on \in Record /\ on.is = "there" /\ Base(on) = Base(patch.copy)
        BY <2>a, EditFacts
      <3>5. task \in Record /\ task.is = "there" /\ Base(task) = Base(patch.copy)
        BY <2>a, EditFacts
      <3>6. records' = [records EXCEPT ![t] = on] \/ records' = [records EXCEPT ![t] = task] \/ records' = records
        BY <3>1
      <3> HIDE DEF on, task
      <3> QED
        BY <3>2, <3>3, <3>4, <3>5, <3>6
    <2>1. Types'
      BY <2>a, <2>b DEF Types
    <2>2. PassTypes'
      BY <1>8, RecordFacts DEF PatchSave, Active, Exists, PassTypes, Types, NoPatch, PatchIsOld, CopiesAreLater
    <2>3. OnePass'
      BY <1>8, RecordFacts DEF PatchSave, Active, Exists, OnePass, Types, NoPatch, PatchIsOld, CopiesAreLater
    <2>4. CopiesAreLater'
      <3>1. \A p \in Active : DOMAIN pass[p].left \subseteq Tasks
        BY CopiesFacts DEF PassTypes, Doing, Active
      <3>2. NoPatch.task = 0 /\ 0 \notin Tasks
        BY SchedulesAssumption DEF NoPatch
      <3> DEFINE Later(p, s) ==
            /\ pass[p].left[s].is = "there" /\ records'[s].is # "never"
            /\ records'[s].is = "there" => Base(records'[s]) <= Base(pass[p].left[s])
      <3>3. ASSUME NEW p \in Active, NEW s \in DOMAIN pass[p].left PROVE Later(p, s)
        <4>1. /\ pass[p].left[s].is = "there" /\ records[s].is # "never" /\ s \in Tasks
              /\ records[s].is = "there" => Base(records[s]) <= Base(pass[p].left[s])
              /\ patch.task = s => Base(patch.copy) <= Base(pass[p].left[s])
          BY <3>1, <3>3 DEF CopiesAreLater, Exists
        <4>2. CASE records'[s] = records[s]
          BY <4>1, <4>2
        <4>3. CASE records'[s] # records[s]
          <5>1. s = t
            BY <2>b, <4>1, <4>3
          <5>2. records'[s].is = "there" /\ Base(records'[s]) = Base(patch.copy)
            BY <2>b, <4>3, <5>1
          <5> QED
            BY <4>1, <5>1, <5>2
        <4> QED
          BY <4>2, <4>3
      <3>4. pass' = pass /\ patch'.task \notin Tasks
        BY <2>b, <3>2
      <3> QED
        BY <3>1, <3>3, <3>4 DEF CopiesAreLater, Active, Exists
    <2>5. PatchIsOld'
      BY <2>a, <2>b DEF PatchIsOld
    <2>6. FiringIsDue'
      BY <1>8, RecordFacts DEF PatchSave, Active, Exists, FiringIsDue, Types, NoPatch, PatchIsOld, CopiesAreLater
    <2> QED
      BY <2>1, <2>2, <2>3, <2>4, <2>5, <2>6
  <1>9. ASSUME NEW t \in Tasks, Create(t) PROVE SInv'
    <2>1. Types'
      BY <1>9, RecordFacts DEF Create, Active, Exists, Types
    <2>2. PassTypes'
      BY <1>9, RecordFacts DEF Create, Active, Exists, PassTypes, Types
    <2>3. OnePass'
      BY <1>9, RecordFacts DEF Create, Active, Exists, OnePass, Types
    <2>4. CopiesAreLater'
      BY <1>9, RecordFacts DEF Create, Active, Exists, CopiesAreLater, Types
    <2>5. PatchIsOld'
      BY <1>9, RecordFacts DEF Create, Active, Exists, PatchIsOld, Types
    <2>6. FiringIsDue'
      BY <1>9, RecordFacts DEF Create, Active, Exists, FiringIsDue, Types
    <2> QED
      BY <2>1, <2>2, <2>3, <2>4, <2>5, <2>6
  <1>10. ASSUME NEW t \in Tasks, PatchLoad(t) PROVE SInv'
    <2>1. Types'
      BY <1>10, RecordFacts DEF PatchLoad, Active, Exists, Types
    <2>2. PassTypes'
      BY <1>10, RecordFacts DEF PatchLoad, Active, Exists, PassTypes, Types, NoPatch, PatchIsOld
    <2>3. OnePass'
      BY <1>10, RecordFacts DEF PatchLoad, Active, Exists, OnePass, Types, NoPatch, PatchIsOld
    <2>4. CopiesAreLater'
      BY <1>10, RecordFacts DEF PatchLoad, Active, Exists, CopiesAreLater, Types, NoPatch, PatchIsOld
    <2>5. PatchIsOld'
      <3>1. patch' = [task |-> t, copy |-> records[t]] /\ records' = records /\ Exists(t)
        BY <1>10 DEF PatchLoad
      <3>2. Base(records[t]) <= Base(records[t])
        <4>1. \A r \in Record : Base(r) <= Base(r)
          BY BaseFact
        <4> QED
          BY <4>1 DEF Types
      <3> QED
        BY <3>1, <3>2 DEF PatchIsOld, Exists
    <2>6. FiringIsDue'
      BY <1>10, RecordFacts DEF PatchLoad, Active, Exists, FiringIsDue, Types, NoPatch, PatchIsOld
    <2> QED
      BY <2>1, <2>2, <2>3, <2>4, <2>5, <2>6
  <1>11. ASSUME NEW t \in Tasks, DeleteTask(t) PROVE SInv'
    <2>1. Types'
      BY <1>11, RecordFacts DEF DeleteTask, Active, Exists, Types
    <2>2. PassTypes'
      BY <1>11, RecordFacts DEF DeleteTask, Active, Exists, PassTypes, Types
    <2>3. OnePass'
      BY <1>11, RecordFacts DEF DeleteTask, Active, Exists, OnePass, Types
    <2>4. CopiesAreLater'
      BY <1>11, RecordFacts DEF DeleteTask, Active, Exists, CopiesAreLater, Types
    <2>5. PatchIsOld'
      BY <1>11, RecordFacts DEF DeleteTask, Active, Exists, PatchIsOld, Types
    <2>6. FiringIsDue'
      BY <1>11, RecordFacts DEF DeleteTask, Active, Exists, FiringIsDue, Types
    <2> QED
      BY <2>1, <2>2, <2>3, <2>4, <2>5, <2>6
  <1>12. ASSUME NEW t \in Tasks, RunNow(t) PROVE SInv'
    <2>1. Types'
      BY <1>12, RecordFacts DEF RunNow, Active, Exists, Types
    <2>2. PassTypes'
      BY <1>12, RecordFacts DEF RunNow, Active, Exists, PassTypes, Types
    <2>3. OnePass'
      BY <1>12, RecordFacts DEF RunNow, Active, Exists, OnePass, Types
    <2>4. CopiesAreLater'
      BY <1>12, RecordFacts DEF RunNow, Active, Exists, CopiesAreLater, Types
    <2>5. PatchIsOld'
      BY <1>12, RecordFacts DEF RunNow, Active, Exists, PatchIsOld, Types
    <2>6. FiringIsDue'
      BY <1>12, RecordFacts DEF RunNow, Active, Exists, FiringIsDue, Types
    <2> QED
      BY <2>1, <2>2, <2>3, <2>4, <2>5, <2>6
  <1>13. ASSUME NEW t \in Tasks, RecordManual(t) PROVE SInv'
    <2>a. /\ UNCHANGED <<now, pass, patch, edits, deaths>>
          /\ records' \in [Tasks -> Record]
          /\ \A u \in Tasks : records'[u].is = records[u].is /\ Base(records'[u]) = Base(records[u])
      <3>1. records \in [Tasks -> Record] /\ UNCHANGED <<now, pass, patch, edits, deaths>>
        BY <1>13 DEF RecordManual, Types
      <3> DEFINE q == [records[t] EXCEPT !.counted = IF @ < 2 THEN @ + 1 ELSE @]
      <3>2. q \in Record /\ q.is = records[t].is /\ Base(q) = Base(records[t])
        BY <3>1, EditFacts
      <3>3. records' = [records EXCEPT ![t] = q] \/ records' = records
        BY <1>13 DEF RecordManual
      <3> HIDE DEF q
      <3> QED
        BY <3>1, <3>2, <3>3
    <2>1. Types'
      BY <1>13, <2>a DEF RecordManual, Types
    <2>2. PassTypes'
      BY <1>13, RecordFacts DEF RecordManual, Active, Exists, PassTypes, Types
    <2>3. OnePass'
      BY <1>13, RecordFacts DEF RecordManual, Active, Exists, OnePass, Types
    <2>4. CopiesAreLater'
      <3>1. \A p \in Active : DOMAIN pass[p].left \subseteq Tasks
        BY CopiesFacts DEF PassTypes, Doing, Active
      <3> QED
        BY <2>a, <3>1 DEF CopiesAreLater, Active, Exists
    <2>5. PatchIsOld'
      BY <2>a DEF PatchIsOld, Exists
    <2>6. FiringIsDue'
      BY <1>13, RecordFacts DEF RecordManual, Active, Exists, FiringIsDue, Types
    <2> QED
      BY <2>1, <2>2, <2>3, <2>4, <2>5, <2>6
  <1>14. ASSUME UNCHANGED schedVars PROVE SInv'
    BY <1>14 DEF schedVars, Types, PassTypes, OnePass, CopiesAreLater, PatchIsOld, FiringIsDue, Active, Exists
  <1> QED
    BY <1>1, <1>2, <1>3, <1>4, <1>5, <1>6, <1>7, <1>8, <1>9, <1>10, <1>11, <1>12, <1>13, <1>14 DEF SchedulesNext,
       WatcherStep

-----------------------------------------------------------------------------

\* So it holds of every behaviour.
LEMMA SInvAlways == SchedulesSpec => []SInv
  BY SInvInit, SInvStep, PTL DEF SchedulesSpec

\* The records, the passes and the copies they hold have their types.
THEOREM SchedulesTypeCorrect == SchedulesSpec => []SchedulesTypeOK
  <1>1. SInv => SchedulesTypeOK
    <2> SUFFICES ASSUME SInv PROVE SchedulesTypeOK
      OBVIOUS
    <2>1. \A p \in Passes : pass[p] \in Doing /\ DOMAIN pass[p].left \subseteq Tasks
      BY CopiesFacts DEF SInv, PassTypes, Doing
    <2>2. 0 \notin Tasks
      BY SchedulesAssumption
    <2>3. \A p \in Passes : /\ pass[p].at \in {"off", "pass", "turn", "record"} /\ pass[p].now <= now
                            /\ pass[p].at \in {"turn", "record"} <=> pass[p].task \in DOMAIN pass[p].left
      BY <2>1, <2>2 DEF SInv, PassTypes, FiringIsDue, Doing
    <2> QED
      BY <2>3 DEF SInv, Types, SchedulesTypeOK
  <1> QED
    BY <1>1, SInvAlways, PTL

\* A task is never in two firings of the watcher, however many goroutines the ticker starts.
THEOREM OneFiringAtATime == SchedulesSpec => []NeverTwiceAtOnce
  <1>1. SInv => NeverTwiceAtOnce
    <2> SUFFICES ASSUME SInv, NEW t \in Tasks PROVE Cardinality(Firing(t)) <= 1
      BY DEF NeverTwiceAtOnce
    <2>1. \A p \in Firing(t), q \in Firing(t) : p = q
      BY DEF SInv, OnePass, Active, Firing
    <2>2. CASE Firing(t) = {}
      BY <2>2, FS_EmptySet
    <2>3. CASE Firing(t) # {}
      <3>1. PICK p \in Firing(t) : TRUE
        BY <2>3
      <3>2. Firing(t) = {p}
        BY <2>1, <3>1
      <3>3. Cardinality(Firing(t)) = 1
        BY <3>2, FS_Singleton
      <3> QED
        BY <3>3
    <2> QED
      BY <2>2, <2>3
  <1> QED
    BY <1>1, SInvAlways, PTL

\* A step that is not a client's writes only how a record fired.
LEMMA WhatAStepWrites ==
    ASSUME SInv, [SchedulesNext]_schedVars, ~ClientEdits, NEW t \in Tasks
    PROVE  /\ ~Exists(t) => records'[t] = records[t] \/ records[t] = Never
           /\ Exists(t) =>
                /\ records'[t].enabled = records[t].enabled
                /\ records'[t].task = records[t].task
                /\ records'[t].created = records[t].created
                /\ records'[t].last # records[t].last => records'[t].last >= Base(records[t]) + Every
  <1> USE SchedulesAssumption DEF SInv
  <1>1. records \in [Tasks -> Record] /\ patch' = patch /\ edits' = edits /\ edits \in Nat
    BY DEF Types, ClientEdits
  <1>2. \A r \in Record : LET q == [r EXCEPT !.counted = IF @ < 2 THEN @ + 1 ELSE @]
                          IN  q.enabled = r.enabled /\ q.task = r.task /\ q.created = r.created /\ q.last = r.last
    BY DEF Record
  <1>3. CASE UNCHANGED records
    BY <1>3
  <1>4. CASE \E p \in Passes : RecordFiring(p)
    <2>1. PICK p \in Passes : RecordFiring(p)
      BY <1>4
    <2>2. /\ pass[p] \in Doing /\ p \in Active /\ pass[p].task \in DOMAIN pass[p].left
          /\ Due(pass[p].left[pass[p].task], pass[p].now)
      BY <2>1 DEF RecordFiring, PassTypes, FiringIsDue, Active
    <2>3. pass[p].left[pass[p].task] \in Record /\ pass[p].now \in 0..MaxNow
      BY <2>2, CopiesFacts DEF Doing
    <2>4. CASE Exists(t) /\ t = pass[p].task
      <3>1. records'[t] = Fired(records[t], pass[p].now)
        BY <1>1, <2>1, <2>4 DEF RecordFiring
      <3>2. pass[p].now >= Base(pass[p].left[t]) + Every
        BY <2>2, <2>4 DEF Due, Base
      <3>3. Base(records[t]) <= Base(pass[p].left[t])
        BY <2>2, <2>4 DEF CopiesAreLater
      <3>4. Base(records[t]) \in Nat /\ Base(pass[p].left[t]) \in Nat
        BY <1>1, <2>3, <2>4, BaseFact
      <3>5. pass[p].now >= Base(records[t]) + Every
        BY <3>2, <3>3, <3>4, <2>3
      <3> QED
        <4>1. /\ records'[t].enabled = records[t].enabled /\ records'[t].task = records[t].task
              /\ records'[t].created = records[t].created /\ records'[t].last = pass[p].now
          <5>1. records[t] \in Record /\ pass[p].now \in 0..MaxNow
            BY <1>1, <2>3
          <5> DEFINE f == Fired(records[t], pass[p].now)
          <5>2. /\ f.last = pass[p].now /\ f.enabled = records[t].enabled
                /\ f.task = records[t].task /\ f.created = records[t].created
            BY <5>1, FiredFacts
          <5> QED
            BY <3>1, <5>2
        <4> QED
          BY <2>4, <3>5, <4>1
    <2>5. CASE ~(Exists(t) /\ t = pass[p].task)
      <3>1. records'[t] = records[t]
        BY <1>1, <2>1, <2>5 DEF RecordFiring
      <3> QED
        BY <3>1
    <2> QED
      BY <2>4, <2>5
  <1>5. CASE \E u \in Tasks : RecordManual(u)
    <2>1. PICK u \in Tasks : RecordManual(u)
      BY <1>5
    <2>2. CASE u = t /\ Exists(t)
      <3>1. records'[t] = [records[t] EXCEPT !.counted = IF @ < 2 THEN @ + 1 ELSE @]
        BY <1>1, <2>1, <2>2 DEF RecordManual
      <3> QED
        BY <1>1, <1>2, <2>2, <3>1
    <2>3. CASE ~(u = t /\ Exists(t))
      <3>1. records'[t] = records[t]
        BY <1>1, <2>1, <2>3 DEF RecordManual
      <3> QED
        BY <3>1
    <2> QED
      BY <2>2, <2>3
  <1>6. CASE \E u \in Tasks : Create(u)
    <2>1. PICK u \in Tasks : Create(u)
      BY <1>6
    <2>2. u = t => records[t] = Never /\ ~Exists(t)
      BY <2>1, RecordFacts DEF Create, Exists
    <2>3. u # t => records'[t] = records[t]
      BY <1>1, <2>1 DEF Create
    <2> QED
      BY <2>2, <2>3
  <1>7. \A u \in Tasks : ~PatchLoad(u) /\ ~DeleteTask(u) /\ ~RunNow(u)
    BY <1>1 DEF PatchLoad, DeleteTask, RunNow
  <1>8. ~PatchSave
    BY <1>1 DEF PatchSave
  <1> QED
    BY <1>3, <1>4, <1>5, <1>6, <1>7, <1>8
       DEF SchedulesNext, WatcherStep, BeginPass, FireNext, TurnEnded, EndPass, TimePasses, GatewayDies, schedVars

\* What a firing, or a run by hand, writes undoes no edit and brings no deleted task back.
THEOREM FiringsKeepEdits == SchedulesSpec => EditsSurviveFirings
  <1>1. ASSUME SInv, [SchedulesNext]_schedVars
        PROVE  [\A t \in Tasks : ~ClientEdits =>
                  /\ records[t] = Gone => records'[t] = Gone
                  /\ Exists(t) => /\ records'[t].enabled = records[t].enabled
                                  /\ records'[t].task = records[t].task
                                  /\ records'[t].created = records[t].created]_schedVars
    <2>1. Gone.is # "there" /\ Gone # Never
      BY RecordFacts
    <2> QED
      BY <1>1, <2>1, WhatAStepWrites DEF Exists
  <1> QED
    BY <1>1, SInvAlways, PTL DEF SchedulesSpec, EditsSurviveFirings

\* No record ever says that a task ran before its cadence, whatever ran it by hand.
THEOREM NeverBeforeItsTime == SchedulesSpec => CadenceIsKept
  <1>1. ASSUME SInv, [SchedulesNext]_schedVars
        PROVE  [\A t \in Tasks : ~ClientEdits /\ Exists(t) =>
                  LET r == records[t] q == records'[t] IN
                    q.last # r.last => q.last >= (IF r.ran THEN r.last ELSE r.created) + Every]_schedVars
    BY <1>1, WhatAStepWrites DEF Base
  <1> QED
    BY <1>1, SInvAlways, PTL DEF SchedulesSpec, CadenceIsKept

-----------------------------------------------------------------------------
\* The watch of a pull request

CIs     == {"none", "pending", "success", "failure"}
Jobs    == {"none", "fix", "review", "resolve"}
Places  == {"off", "wait", "find", "not_found", "ci", "judge", "base", "send", "talk", "talked", "merge",
            "find_passed", "state", "leaving"}
Statuses == Watched \union Ended \union {"nil"}
Hosts   == [is : {"none", "open", "merged", "closed"}, head : Nat, ci : CIs, comments : 0..MaxComments]
Watches == [at : Places, status : Statuses, attempts : Int, fixed : Nat, none : Nat, errors : Nat, idle : Nat,
            conflict : BOOLEAN, seen : 0..Unread, job : Jobs, of : Nat, ci : CIs]
Views   == [status : Statuses, attempts : Int, fixed : Nat, seen : 0..Unread]

WatchTypes ==
    /\ host \in Hosts /\ watch \in Watches /\ view \in Views /\ saved \in Views
    /\ serving \in BOOLEAN /\ life \in Nat /\ sends \in Nat
    /\ handed \subseteq [life : Nat, job : Jobs, of : Nat]

\* What was read of the host was there, and is not there no more: pushes and comments only add up.
OfTheHost(r) == r.fixed <= host.head /\ r.seen \in (0..host.comments) \union {Unread}
ReadBefore ==
    /\ OfTheHost(watch) /\ OfTheHost(view) /\ OfTheHost(saved)
    /\ watch.at = "judge" => watch.fixed <= watch.of /\ watch.of <= host.head

\* The watch and what the session shows of it remember the same.
Remembers(v, w) == v.fixed = w.fixed /\ v.seen = w.seen
OneMemory == watch.at # "off" => serving /\ Remembers(view, watch)

\* What the watch has taken in, to hand it to the agent, is what it remembers as taken in.
Fixing    == watch.at = "base" \/ (watch.at = "send" /\ watch.job = "fix")
Reviewing == watch.at \in {"talked", "send"} /\ watch.job = "review"
TakenIn ==
    /\ Fixing => watch.of = watch.fixed
    /\ Reviewing => watch.of = watch.seen /\ watch.seen # Unread
    /\ watch.at = "talked" => watch.job \in {"none", "review"}

\* What this life handed over is remembered, by the session and by its record.
HandedNow(job) == {h \in handed : h.life = life /\ h.job = job}
Covers(r, job) == \A h \in HandedNow(job) : h.of <= IF job = "fix" THEN r.fixed ELSE r.seen
HandedIsKnown ==
    /\ \A h \in handed : h.life <= life
    /\ Covers(saved, "fix") /\ (serving => Covers(view, "fix"))
    /\ Covers(saved, "review") /\ (serving => Covers(view, "review"))
    /\ \A h \in HandedNow("review") : h.of <= host.comments

\* What is taken in is newer than anything it handed over.
NotHandedYet ==
    /\ Fixing => \A h \in HandedNow("fix") : h.of < watch.of
    /\ Reviewing => \A h \in HandedNow("review") : h.of < watch.of

WatchInv == WatchTypes /\ ReadBefore /\ OneMemory /\ TakenIn /\ HandedIsKnown /\ NotHandedYet

\* What a step may do that takes nothing in and hands nothing over.
HostGoesOn   == host' \in Hosts /\ host.head <= host'.head /\ host.comments <= host'.comments
SameLife     == serving' = serving /\ life' = life /\ handed' = handed /\ sends' = sends
ViewRemembers  == view' \in Views /\ Remembers(view', view)
SavedRemembers == saved' \in Views /\ (Remembers(saved', saved) \/ (serving /\ Remembers(saved', view)))
WatchRemembers ==
    /\ watch' \in Watches
    /\ watch' = Off \/ (Remembers(watch', watch) /\ (watch'.at # "off" => watch.at # "off"))
Rests(w) == w.at \notin {"judge", "base", "talked", "send"}
TakesNothing ==
    /\ Fixing' => Fixing /\ watch'.of = watch.of
    /\ Reviewing' => Reviewing /\ watch'.of = watch.of
    /\ watch'.at = "judge" => watch'.fixed <= watch'.of /\ watch'.of <= host'.head
    /\ watch'.at = "talked" => watch'.job \in {"none", "review"}

\* Such a step keeps what is known of the watch.
LEMMA GoesOn ==
    ASSUME WatchInv, HostGoesOn, SameLife, ViewRemembers, SavedRemembers, WatchRemembers, TakesNothing
    PROVE  WatchInv'
<1> USE WatchAssumption DEF WatchInv, HostGoesOn, SameLife, ViewRemembers, SavedRemembers, WatchRemembers, TakesNothing
<1>1. WatchTypes'
    BY DEF WatchTypes
<1>2. ReadBefore'
    BY DEF WatchTypes, ReadBefore, OfTheHost, Remembers, Hosts, Watches, Views, Off, Unread
<1>3. OneMemory'
    BY DEF OneMemory, Remembers, Off
<1>4. TakenIn'
    BY DEF TakenIn, Remembers, Fixing, Reviewing, Off
<1>5. HandedIsKnown'
    BY DEF WatchTypes, HandedIsKnown, HandedNow, Covers, Remembers, Hosts, Views
<1>6. NotHandedYet'
    BY DEF NotHandedYet, HandedNow, TakesNothing
<1> QED BY <1>1, <1>2, <1>3, <1>4, <1>5, <1>6

\* ... in particular one after which it holds nothing it has taken in.
LEMMA RestsKeeps ==
    ASSUME WatchInv, HostGoesOn, SameLife, ViewRemembers, SavedRemembers, WatchRemembers, Rests(watch')
    PROVE  WatchInv'
<1>1. TakesNothing
    BY DEF TakesNothing, Rests, Fixing, Reviewing
<1> QED BY <1>1, GoesOn

\* A step that does not touch the session forgets nothing of it.
LEMMA SessionAsWas ==
    ASSUME WatchInv, UNCHANGED session
    PROVE  ViewRemembers /\ SavedRemembers
BY DEF WatchInv, WatchTypes, session, ViewRemembers, SavedRemembers, Remembers

\* A host that is left as it was goes on.
LEMMA HostAsWas ==
    ASSUME WatchInv, host' = host
    PROVE  HostGoesOn
BY WatchAssumption DEF WatchInv, WatchTypes, HostGoesOn, Hosts

\* A watch that waits for its next poll remembers what it knew.
LEMMA AgainRemembers ==
    ASSUME WatchInv, NEW w \in Watches, Remembers(w, watch), watch.at # "off", Again(w)
    PROVE  WatchRemembers /\ Rests(watch')
BY DEF Again, Watches, Places, Jobs, Statuses, Watched, Ended, WatchRemembers, Remembers, Rests, CIs

\* So does one that has returned.
LEMMA LeaveRemembers ==
    ASSUME WatchInv, NEW w \in Watches, Remembers(w, watch), watch.at # "off", Leave(w)
    PROVE  WatchRemembers /\ Rests(watch')
BY DEF Leave, Watches, Places, Jobs, Statuses, Watched, Ended, WatchRemembers, Remembers, Rests

\* The session is shown, and saved with, what the watch remembers (publishPR).
LEMMA PublishRemembers ==
    ASSUME WatchInv, NEW w \in Watches, Remembers(w, watch), watch.at # "off", Publish(w)
    PROVE  ViewRemembers /\ SavedRemembers
BY DEF Publish, Shown, WatchInv, WatchTypes, OneMemory, ViewRemembers, SavedRemembers, Remembers, Views, Watches,
   Places, Jobs, Statuses, Watched, Ended

\* A status and a count of attempts are all that is dropped of a view.
LEMMA OtherStatus ==
    ASSUME NEW v \in Views, NEW st \in Statuses, NEW n \in Int
    PROVE  [v EXCEPT !.status = st, !.attempts = n] \in Views
           /\ Remembers([v EXCEPT !.status = st, !.attempts = n], v)
BY DEF Views, Remembers

\* A dropped view still knows what was taken in.
LEMMA DropRemembers ==
    ASSUME WatchInv, DropView
    PROVE  ViewRemembers /\ SavedRemembers
<1>1. view \in Views /\ saved \in Views /\ "nil" \in Statuses
    BY DEF WatchInv, WatchTypes, Statuses
<1>2. PICK n \in Int : n = 0
    OBVIOUS
<1>3. view' = [view EXCEPT !.status = "nil", !.attempts = n]
    BY <1>2 DEF DropView
<1>4. view' \in Views /\ Remembers(view', view)
    BY <1>1, <1>3, OtherStatus
<1> QED BY <1>1, <1>4 DEF DropView, ViewRemembers, SavedRemembers, Remembers

\* So does that of a merged pull request (finishMerge).
LEMMA FinishRemembers ==
    ASSUME WatchInv, serving, FinishMerge
    PROVE  ViewRemembers /\ SavedRemembers
<1>1. view \in Views /\ saved \in Views /\ "merged" \in Statuses
    BY DEF WatchInv, WatchTypes, Statuses, Ended
<1>2. PICK n \in Int : n = 0
    OBVIOUS
<1>3. view' = [view EXCEPT !.status = "merged", !.attempts = n]
    BY <1>2 DEF FinishMerge
<1>4. view' \in Views /\ Remembers(view', view)
    BY <1>1, <1>3, OtherStatus
<1> QED BY <1>1, <1>4 DEF FinishMerge, ViewRemembers, SavedRemembers, Remembers

\* A merge takes nothing off the branch or the talk.
LEMMA MergeGoesOn ==
    ASSUME WatchInv, MergeOnHost
    PROVE  HostGoesOn
BY WatchAssumption DEF MergeOnHost, WatchInv, WatchTypes, HostGoesOn, Hosts

\* Nor does a push.
LEMMA PushGoesOn ==
    ASSUME WatchInv, Push
    PROVE  HostGoesOn
<1>0. PICK n \in Nat : n = host.head + 1
    BY DEF WatchInv, WatchTypes, Hosts
<1>1. host \in Hosts /\ host' = [host EXCEPT !.head = n, !.ci = "none"] /\ "none" \in CIs
    BY <1>0 DEF Push, WatchInv, WatchTypes, CIs
<1>2. host' \in Hosts
    BY <1>1 DEF Hosts
<1>3. host.head <= host'.head /\ host.comments <= host'.comments
    BY <1>0, <1>1, WatchAssumption DEF Hosts
<1> QED BY <1>2, <1>3 DEF HostGoesOn

\* A reading the host did not answer.
LEMMA HostFailsKeeps ==
    ASSUME WatchInv, watch.at # "off", host' = host, SameLife, HostFails
    PROVE  WatchInv'
<1> DEFINE w == [watch EXCEPT !.errors = @ + 1]
<1>1. w \in Watches /\ Remembers(w, watch)
    BY DEF WatchInv, WatchTypes, Watches, Places, Jobs, Statuses, Watched, Ended, Remembers
<1>2. \/ Again(w) /\ UNCHANGED session
      \/ Leave(w) /\ DropView
    BY DEF HostFails
<1>3. DropView => ViewRemembers /\ SavedRemembers
    BY DropRemembers
<1> HIDE DEF w
<1>4. ViewRemembers /\ SavedRemembers
    BY <1>2, <1>3, SessionAsWas
<1>5. WatchRemembers /\ Rests(watch')
    BY <1>1, <1>2, AgainRemembers, LeaveRemembers
<1> QED BY <1>4, <1>5, HostAsWas, RestsKeeps

\* followOpenedPR asks the host.
LEMMA FollowFindKeeps == ASSUME WatchInv, FollowFind PROVE WatchInv'
<1>1. host' = host /\ watch' = watch /\ UNCHANGED session /\ SameLife
    BY DEF FollowFind, hostSide, server, watchHistory, SameLife
<1>2. WatchRemembers /\ TakesNothing
    BY <1>1 DEF WatchInv, WatchTypes, ReadBefore, TakenIn, WatchRemembers, TakesNothing, Remembers, Fixing, Reviewing
<1> QED BY <1>1, <1>2, HostAsWas, SessionAsWas, GoesOn

\* A poll begins.
LEMMA PollKeeps == ASSUME WatchInv, Poll PROVE WatchInv'
<1>1. host' = host /\ UNCHANGED session /\ SameLife
    BY DEF Poll, hostSide, server, watchHistory, SameLife
<1>2. WatchRemembers /\ Rests(watch')
    BY DEF Poll, WatchInv, WatchTypes, WatchRemembers, Rests, Remembers, Watches, Places, Jobs, Statuses, Watched, Ended
<1> QED BY <1>1, <1>2, HostAsWas, SessionAsWas, RestsKeeps

\* The pull request is looked for.
LEMMA FindKeeps == ASSUME WatchInv, Find PROVE WatchInv'
<1>1. host' = host /\ SameLife /\ watch.at # "off"
    BY DEF Find, hostSide, server, watchHistory, SameLife, HostFails
<1>2. CASE HostFails
    BY <1>1, <1>2, HostFailsKeeps
<1>3. CASE ~HostFails
  <2>1. watch' = [watch EXCEPT !.errors = 0, !.at = IF Open THEN "ci" ELSE "not_found"] /\ UNCHANGED session
    BY <1>3 DEF Find
  <2>2. WatchRemembers /\ Rests(watch')
    BY <1>1, <2>1 DEF WatchInv, WatchTypes, WatchRemembers, Rests, Remembers, Watches, Places, Jobs, Statuses, Watched,
       Ended
  <2> QED BY <1>1, <2>1, <2>2, HostAsWas, SessionAsWas, RestsKeeps
<1> QED BY <1>2, <1>3

\* There is none.
LEMMA NotFoundKeeps == ASSUME WatchInv, NotFound PROVE WatchInv'
<1>1. host' = host /\ SameLife /\ watch.at # "off" /\ watch \in Watches /\ Remembers(watch, watch)
    BY DEF NotFound, hostSide, server, watchHistory, SameLife, WatchInv, WatchTypes, Remembers
<1>2. \/ Again(watch) /\ UNCHANGED session
      \/ Leave(watch) /\ DropView
    BY DEF NotFound
<1>3. DropView => ViewRemembers /\ SavedRemembers
    BY DropRemembers
<1>4. ViewRemembers /\ SavedRemembers
    BY <1>2, <1>3, SessionAsWas
<1>5. WatchRemembers /\ Rests(watch')
    BY <1>1, <1>2, AgainRemembers, LeaveRemembers
<1> QED BY <1>1, <1>4, <1>5, HostAsWas, RestsKeeps

\* The CI is read, of the push there is.
LEMMA ReadCIKeeps == ASSUME WatchInv, ReadCI PROVE WatchInv'
<1>1. host' = host /\ SameLife /\ watch.at = "ci"
    BY DEF ReadCI, hostSide, server, watchHistory, SameLife, HostFails
<1>2. CASE HostFails
    BY <1>1, <1>2, HostFailsKeeps
<1>3. CASE ~HostFails
  <2>1. PICK ci \in CIs : watch' = [watch EXCEPT !.at = "judge", !.of = host.head, !.ci = ci] /\ UNCHANGED session
    BY <1>3 DEF ReadCI, WatchInv, WatchTypes, Hosts, CIs
  <2>2. WatchRemembers
    BY <1>1, <2>1 DEF WatchInv, WatchTypes, WatchRemembers, Remembers, Watches, Places, Hosts
  <2>3. watch'.fixed <= watch'.of /\ watch'.of <= host'.head
    BY <1>1, <2>1 DEF WatchInv, WatchTypes, ReadBefore, OfTheHost, Watches, Hosts
  <2>4. TakesNothing
    BY <2>1, <2>3 DEF WatchInv, WatchTypes, Watches, TakesNothing, Fixing, Reviewing
  <2> QED BY <1>1, <2>1, <2>2, <2>4, HostAsWas, SessionAsWas, GoesOn
<1> QED BY <1>2, <1>3

\* The base has the failure too, or the agent is to be sent.
LEMMA AskBaseKeeps == ASSUME WatchInv, AskBase PROVE WatchInv'
<1>1. host' = host /\ SameLife /\ watch.at = "base"
    BY DEF AskBase, hostSide, server, watchHistory, SameLife
<1> DEFINE w == [watch EXCEPT !.attempts = @ - 1, !.status = "base_red"]
<1>2. w \in Watches /\ Remembers(w, watch)
  <2>1. watch \in Watches /\ watch.attempts - 1 \in Int /\ "base_red" \in Statuses
    BY DEF WatchInv, WatchTypes, Watches, Statuses, Ended
  <2> QED BY <2>1 DEF Watches, Remembers
<1>3. \/ Leave(w) /\ Publish(w)
      \/ watch' = [watch EXCEPT !.at = "send", !.job = "fix"] /\ UNCHANGED session
    BY DEF AskBase
<1>4. CASE watch' = [watch EXCEPT !.at = "send", !.job = "fix"] /\ UNCHANGED session
  <2>1. WatchRemembers /\ TakesNothing
    BY <1>1, <1>4 DEF WatchInv, WatchTypes, WatchRemembers, TakesNothing, Remembers, Watches, Places, Jobs, Statuses,
       Watched, Ended, Fixing, Reviewing
  <2> QED BY <1>1, <1>4, <2>1, HostAsWas, SessionAsWas, GoesOn
<1> HIDE DEF w
<1>5. CASE Leave(w) /\ Publish(w)
    BY <1>1, <1>2, <1>5, LeaveRemembers, PublishRemembers, HostAsWas, RestsKeeps
<1> QED BY <1>3, <1>4, <1>5

\* Comments nobody read.
LEMMA NoCommentsKeeps == ASSUME WatchInv, NoComments PROVE WatchInv'
<1>1. host' = host /\ SameLife /\ UNCHANGED session /\ watch.at = "talk" /\ watch \in Watches /\ Remembers(watch, watch)
    BY DEF NoComments, hostSide, server, watchHistory, SameLife, WatchInv, WatchTypes, Remembers
<1>2. CASE Again(watch)
    BY <1>1, <1>2, AgainRemembers, HostAsWas, SessionAsWas, RestsKeeps
<1>3. CASE watch' = [watch EXCEPT !.at = "talked", !.job = "none", !.of = 0]
  <2>1. WatchRemembers /\ TakesNothing
    BY <1>1, <1>3 DEF WatchRemembers, TakesNothing, Remembers, Watches, Places, Jobs, Statuses, Watched, Ended, Fixing,
       Reviewing
  <2> QED BY <1>1, <2>1, HostAsWas, SessionAsWas, GoesOn
<1> QED BY <1>2, <1>3 DEF NoComments

\* The merge of what passed.
LEMMA TryToMergeKeeps == ASSUME WatchInv, TryToMerge PROVE WatchInv'
<1>1. SameLife /\ serving /\ watch.at # "off" /\ watch \in Watches /\ Remembers(watch, watch)
    BY DEF TryToMerge, server, watchHistory, SameLife, WatchInv, WatchTypes, Remembers
<1>2. CASE MergeOnHost /\ FinishMerge /\ Leave(watch)
    BY <1>1, <1>2, MergeGoesOn, FinishRemembers, LeaveRemembers, RestsKeeps
<1>3. CASE Again(watch) /\ UNCHANGED <<host, session>>
    BY <1>1, <1>3, AgainRemembers, HostAsWas, SessionAsWas, RestsKeeps
<1> QED BY <1>2, <1>3 DEF TryToMerge

\* A passed pull request is looked for.
LEMMA FindPassedKeeps == ASSUME WatchInv, FindPassed PROVE WatchInv'
<1>1. host' = host /\ SameLife /\ watch.at # "off"
    BY DEF FindPassed, hostSide, server, watchHistory, SameLife, HostFails
<1>2. CASE HostFails
    BY <1>1, <1>2, HostFailsKeeps
<1>3. CASE ~HostFails
  <2>0. PICK n \in Nat, k \in Nat : n = watch.idle + 1 /\ k = 0
    BY DEF WatchInv, WatchTypes, Watches
  <2>1. UNCHANGED session /\ \/ watch' = [watch EXCEPT !.at = "state"]
                             \/ \E at \in {"leaving", "talk"} : watch' = [watch EXCEPT !.errors = k, !.idle = n, !.at = at]
    BY <1>3, <2>0 DEF FindPassed
  <2>2. watch \in Watches /\ {"state", "leaving", "talk"} \subseteq Places
    BY DEF WatchInv, WatchTypes, Places
  <2>3. watch' \in Watches
    BY <2>1, <2>2 DEF Watches
  <2>4. WatchRemembers /\ Rests(watch')
    BY <1>1, <2>1, <2>2, <2>3 DEF WatchRemembers, Rests, Remembers, Watches
  <2> QED BY <1>1, <2>1, <2>4, HostAsWas, SessionAsWas, RestsKeeps
<1> QED BY <1>2, <1>3

\* It was merged or closed.
LEMMA ReadStateKeeps == ASSUME WatchInv, ReadState PROVE WatchInv'
<1>1. host' = host /\ SameLife /\ serving /\ watch.at # "off" /\ watch \in Watches /\ Remembers(watch, watch)
    BY DEF ReadState, hostSide, server, watchHistory, SameLife, HostFails, WatchInv, WatchTypes, Remembers
<1>2. CASE HostFails
    BY <1>1, <1>2, HostFailsKeeps
<1>3. CASE FinishMerge /\ Leave(watch)
    BY <1>1, <1>3, FinishRemembers, LeaveRemembers, HostAsWas, RestsKeeps
<1>4. CASE Again(watch) /\ UNCHANGED session
    BY <1>1, <1>4, AgainRemembers, HostAsWas, SessionAsWas, RestsKeeps
<1> DEFINE w == [watch EXCEPT !.status = "closed"]
<1>5. w \in Watches /\ Remembers(w, watch)
    BY DEF WatchInv, WatchTypes, Watches, Places, Jobs, Statuses, Watched, Ended, Remembers
<1>6. HostFails \/ (FinishMerge /\ Leave(watch)) \/ (Again(watch) /\ UNCHANGED session) \/ (Leave(w) /\ Publish(w))
    BY DEF ReadState
<1> HIDE DEF w
<1>7. CASE Leave(w) /\ Publish(w)
    BY <1>1, <1>5, <1>7, LeaveRemembers, PublishRemembers, HostAsWas, RestsKeeps
<1> QED BY <1>2, <1>3, <1>4, <1>6, <1>7

\* The watch is gone.
LEMMA LetGoKeeps == ASSUME WatchInv, LetGo PROVE WatchInv'
<1>1. host' = host /\ UNCHANGED session /\ SameLife
    BY DEF LetGo, hostSide, server, watchHistory, SameLife
<1>2. WatchRemembers /\ Rests(watch')
    BY WatchAssumption DEF LetGo, WatchRemembers, Rests, Watches, Places, Jobs, Statuses, Watched, Ended, CIs, Off,
       Unread
<1> QED BY <1>1, <1>2, HostAsWas, SessionAsWas, RestsKeeps

\* Somebody else's steps leave the watch as it was.
LEMMA WatchAsWas ==
    ASSUME WatchInv, watch' = watch, HostGoesOn, SameLife, ViewRemembers, SavedRemembers
    PROVE  WatchInv'
<1>1. WatchRemembers /\ TakesNothing
    BY DEF WatchInv, WatchTypes, ReadBefore, TakenIn, WatchRemembers, TakesNothing, Remembers, Fixing, Reviewing,
           HostGoesOn, Hosts, Watches
<1> QED BY <1>1, GoesOn

\* A turn ends.
LEMMA TurnEndsKeeps == ASSUME WatchInv, TurnEnds PROVE WatchInv'
<1>1. host' = host /\ watch' = watch /\ SameLife
    BY DEF TurnEnds, server, watchHistory, SameLife
<1>2. ViewRemembers /\ SavedRemembers
    BY DEF TurnEnds, WatchInv, WatchTypes, ViewRemembers, SavedRemembers, Remembers
<1> QED BY <1>1, <1>2, HostAsWas, WatchAsWas

\* The host goes on.
LEMMA HostMovesKeeps == ASSUME WatchInv, HostMoves PROVE WatchInv'
<1>1. watch' = watch /\ UNCHANGED session /\ SameLife
    BY DEF HostMoves, server, watchHistory, SameLife
<1>2. CASE Push
    BY <1>1, <1>2, PushGoesOn, SessionAsWas, WatchAsWas
<1>3. CASE ~Push
  <2>1. HostGoesOn
    BY <1>3, WatchAssumption DEF HostMoves, WatchInv, WatchTypes, HostGoesOn, Hosts, CIs
  <2> QED BY <1>1, <2>1, SessionAsWas, WatchAsWas
<1> QED BY <1>2, <1>3

\* A person merges.
LEMMA ClickMergeKeeps == ASSUME WatchInv, ClickMerge PROVE WatchInv'
<1>1. watch' = watch /\ SameLife /\ serving
    BY DEF ClickMerge, server, watchHistory, SameLife
<1>2. HostGoesOn /\ ViewRemembers /\ SavedRemembers
    BY <1>1, MergeGoesOn, FinishRemembers DEF ClickMerge
<1> QED BY <1>1, <1>2, WatchAsWas

\* A watch started from nothing, and what is shown of it, are of their types.
LEMMA OffIsTyped == Off \in Watches /\ Shown(Off) \in Views /\ [Off EXCEPT !.at = "wait"] \in Watches /\ NoView \in Views
<1>1. Off \in Watches
    BY WatchAssumption DEF Off, Watches, Places, Jobs, Statuses, Watched, CIs, Unread
<1>2. Shown(Off) \in Views
    BY <1>1 DEF Shown, Watches, Views
<1>3. [Off EXCEPT !.at = "wait"] \in Watches
    BY <1>1 DEF Watches, Places
<1>4. NoView \in Views
    BY WatchAssumption DEF NoView, Views, Statuses, Unread
<1> QED BY <1>1, <1>2, <1>3, <1>4

\* A life begins: nothing was handed over in it.
LEMMA LifeBegins ==
    ASSUME WatchInv, serving, serving' = serving, host' = host, life' = life + 1, sends' = 0, handed' = handed,
           \/ watch' = watch /\ view' \in Views /\ Remembers(view', view)
           \/ watch' = [Off EXCEPT !.at = "wait"] /\ view' = Shown(Off),
           saved' = saved \/ saved' = view'
    PROVE  WatchInv'
<1>1. Off \in Watches /\ Shown(Off) \in Views /\ [Off EXCEPT !.at = "wait"] \in Watches
    BY OffIsTyped
<1>2. WatchTypes'
    BY <1>1 DEF WatchInv, WatchTypes
<1>3. ReadBefore'
    BY DEF WatchInv, WatchTypes, ReadBefore, OfTheHost, Remembers, Off, Shown, Hosts
<1>4. OneMemory'
    BY DEF WatchInv, OneMemory, Remembers, Off, Shown
<1>5. TakenIn'
    BY DEF WatchInv, TakenIn, Fixing, Reviewing, Off
<1>6. \A h \in handed' : h.life < life'
    BY DEF WatchInv, WatchTypes, HandedIsKnown
<1>7. HandedIsKnown' /\ NotHandedYet'
    BY <1>2, <1>6 DEF HandedIsKnown, NotHandedYet, HandedNow, Covers, WatchTypes
<1> QED BY <1>2, <1>3, <1>4, <1>5, <1>7 DEF WatchInv

\* The ways a life begins: a pull request is asked for,
LEMMA CreatePRKeeps == ASSUME WatchInv, CreatePR PROVE WatchInv'
<1>1. serving /\ serving' = serving /\ host' = host /\ saved' = view'
    BY DEF CreatePR, SendTurn, server
<1>2. CASE watch.at # "off"
  <2>1. watch' = watch /\ view' = view /\ SameLife
    BY <1>1, <1>2 DEF CreatePR, StartWatch, watchHistory, SameLife
  <2>2. ViewRemembers /\ SavedRemembers
    BY <1>1, <2>1 DEF WatchInv, WatchTypes, ViewRemembers, SavedRemembers, Remembers
  <2> QED BY <1>1, <2>1, <2>2, HostAsWas, WatchAsWas
<1>3. CASE watch.at = "off"
    BY <1>1, <1>3, LifeBegins DEF CreatePR, StartWatch, NewLife
<1> QED BY <1>2, <1>3

\* ... one is looked at whose CI runs,
LEMMA LookAtPRKeeps == ASSUME WatchInv, LookAtPR PROVE WatchInv'
<1>1. serving /\ serving' = serving /\ host' = host /\ (saved' = saved \/ saved' = view')
    BY DEF LookAtPR, Publish, server, hostSide
<1> QED BY <1>1, LifeBegins DEF LookAtPR, StartWatch, NewLife

\* ... somebody says to try again,
LEMMA TryAgainKeeps == ASSUME WatchInv, TryAgain PROVE WatchInv'
<1>1. serving /\ serving' = serving /\ host' = host /\ saved' = view'
    BY DEF TryAgain, SendTurn, server
<1>2. CASE watch.at = "off"
    BY <1>1, <1>2, LifeBegins DEF TryAgain, StartWatch, NewLife
<1>3. CASE watch.at # "off"
  <2>1. PICK n \in Int : n = 0
    OBVIOUS
  <2>2. view' = [view EXCEPT !.status = "nil", !.attempts = n]
    BY <1>3, <2>1 DEF TryAgain
  <2>3. view' \in Views /\ Remembers(view', view)
    BY <2>2, OtherStatus DEF WatchInv, WatchTypes, Statuses
  <2> QED BY <1>1, <1>3, <2>3, LifeBegins DEF TryAgain, NewLife
<1> QED BY <1>2, <1>3

\* ... or the agent opened one by itself.
LEMMA FollowStartKeeps == ASSUME WatchInv, FollowStart PROVE WatchInv'
<1>1. serving /\ serving' = serving /\ host' = host /\ saved' = saved
    BY DEF FollowStart, hostSide, server
<1>2. CASE watch.at = "off"
    BY <1>1, <1>2, LifeBegins DEF FollowStart, StartWatch, NewLife
<1>3. CASE watch.at # "off"
  <2>1. PICK n \in Int : n = 0
    OBVIOUS
  <2>2. view' = [view EXCEPT !.status = "following", !.attempts = n]
    BY <1>3, <2>1 DEF FollowStart
  <2>3. view' \in Views /\ Remembers(view', view)
    BY <2>2, OtherStatus DEF WatchInv, WatchTypes, Statuses, Watched
  <2> QED BY <1>1, <1>3, <2>3, LifeBegins DEF FollowStart, NewLife
<1> QED BY <1>2, <1>3

\* What a reading makes of the watch: a failure it takes in is of a push nothing was handed over for.
LEMMA Judging ==
    ASSUME WatchInv, watch.at = "judge"
    PROVE  /\ JudgedAs(watch) \in Watches
           /\ JudgedAs(watch).of = watch.of /\ JudgedAs(watch).seen = watch.seen
           /\ JudgedAs(watch).at \in {"talk", "merge", "leaving", "base"}
           /\ JudgedAs(watch).fixed \in {watch.fixed, watch.of}
           /\ JudgedAs(watch).at = "base" => watch.fixed # watch.of /\ JudgedAs(watch).fixed = watch.of
<1>1. watch \in Watches /\ {"talk", "merge", "leaving", "base"} \subseteq Places
      /\ {"following", "passed", "gave_up", "fixing", "no_ci"} \subseteq Statuses
    BY DEF WatchInv, WatchTypes, Places, Statuses, Watched, Ended
<1>2. watch.ci \in {"none", "pending", "success", "failure"}
    BY <1>1 DEF Watches, CIs
<1>3. PICK n \in Nat, zero \in Nat, more \in Int : n = watch.none + 1 /\ zero = 0 /\ more = watch.attempts + 1
    BY <1>1 DEF Watches
<1>4. CASE watch.ci = "pending"
  <2>1. JudgedAs(watch) = [watch EXCEPT !.none = zero, !.status = "following", !.at = "talk"]
    BY <1>3, <1>4 DEF JudgedAs
  <2> QED BY <1>1, <2>1 DEF Watches
<1>5. CASE watch.ci = "success"
  <2>1. JudgedAs(watch) = [watch EXCEPT !.status = "passed", !.at = "merge"]
    BY <1>5 DEF JudgedAs
  <2> QED BY <1>1, <2>1 DEF Watches
<1>6. CASE watch.ci = "failure" /\ Handled(watch)
  <2>1. JudgedAs(watch) = [watch EXCEPT !.none = zero, !.at = "talk"]
    BY <1>3, <1>6 DEF JudgedAs
  <2> QED BY <1>1, <2>1 DEF Watches
<1>7. CASE watch.ci = "failure" /\ ~Handled(watch) /\ watch.attempts >= MaxFixes
  <2>1. JudgedAs(watch) = [watch EXCEPT !.none = zero, !.fixed = watch.of, !.status = "gave_up", !.at = "leaving"]
    BY <1>1, <1>3, <1>7, WatchAssumption DEF JudgedAs, Watches
  <2> QED BY <1>1, <2>1 DEF Watches
<1>8. CASE watch.ci = "failure" /\ ~Handled(watch) /\ watch.attempts < MaxFixes
  <2>1. JudgedAs(watch) =
          [watch EXCEPT !.none = zero, !.fixed = watch.of, !.attempts = more, !.status = "fixing", !.at = "base"]
    BY <1>3, <1>8, WatchAssumption, <1>1 DEF JudgedAs, Watches
  <2> QED BY <1>1, <1>8, <2>1 DEF Watches, Handled
<1>9. CASE watch.ci = "none"
  <2>1. \/ JudgedAs(watch) = [watch EXCEPT !.none = n, !.status = "no_ci", !.at = "leaving"]
        \/ JudgedAs(watch) = [watch EXCEPT !.none = n, !.at = "talk"]
    BY <1>3, <1>9, WatchAssumption, <1>1 DEF JudgedAs, Watches
  <2> QED BY <1>1, <2>1 DEF Watches
<1>10. watch.attempts >= MaxFixes \/ watch.attempts < MaxFixes
    BY <1>1, WatchAssumption DEF Watches
<1> QED BY <1>2, <1>4, <1>5, <1>6, <1>7, <1>8, <1>9, <1>10

\* The verdict is remembered, shown and saved in the step that takes it.
LEMMA JudgeKeeps == ASSUME WatchInv, Judge PROVE WatchInv'
<1> DEFINE w == JudgedAs(watch)
<1>1. host' = host /\ SameLife /\ serving /\ watch.at = "judge" /\ watch' = w
    BY DEF Judge, hostSide, server, watchHistory, SameLife
<1>2. /\ w \in Watches /\ w.of = watch.of /\ w.seen = watch.seen
      /\ w.at \in {"talk", "merge", "leaving", "base"} /\ w.fixed \in {watch.fixed, watch.of}
      /\ w.at = "base" => watch.fixed # watch.of /\ w.fixed = watch.of
    BY <1>1, Judging
<1>3. view' = Shown(w) /\ (saved' = saved \/ saved' = view')
    BY <1>1 DEF Judge, Publish
<1> HIDE DEF w
<1>4. Shown(w) \in Views /\ Remembers(Shown(w), w)
    BY <1>2 DEF Shown, Watches, Views, Remembers
<1>5. WatchTypes'
    BY <1>1, <1>2, <1>3, <1>4 DEF WatchInv, WatchTypes, SameLife
<1>6. watch.fixed <= w.fixed /\ w.fixed <= host.head /\ {watch.fixed, w.fixed} \subseteq Nat
    BY <1>1, <1>2 DEF WatchInv, WatchTypes, ReadBefore, OfTheHost, Watches, Hosts
<1>7. ReadBefore'
    BY <1>1, <1>2, <1>3, <1>4, <1>6 DEF WatchInv, ReadBefore, OfTheHost, Remembers
<1>8. OneMemory' /\ TakenIn'
    BY <1>1, <1>2, <1>3, <1>4 DEF OneMemory, TakenIn, Remembers, Fixing, Reviewing, SameLife
<1>9. Covers(view, "fix") /\ Covers(view, "review") /\ Remembers(view, watch)
    BY <1>1 DEF WatchInv, HandedIsKnown, OneMemory
<1>10. HandedIsKnown'
  <2>1. HandedNow("fix")' = HandedNow("fix") /\ HandedNow("review")' = HandedNow("review")
    BY <1>1 DEF HandedNow, SameLife
  <2>2. Covers(view, "fix")' /\ Covers(view, "review")'
    BY <1>2, <1>3, <1>4, <1>6, <1>9, <2>1 DEF Covers, Remembers, HandedNow, WatchInv, WatchTypes
  <2>3. Covers(saved, "fix")' /\ Covers(saved, "review")'
    BY <1>3, <2>1, <2>2 DEF WatchInv, HandedIsKnown, Covers
  <2> QED BY <1>1, <2>1, <2>2, <2>3 DEF WatchInv, HandedIsKnown, SameLife
<1>11. NotHandedYet'
  <2>1. SUFFICES ASSUME w.at = "base", NEW h \in HandedNow("fix") PROVE h.of < w.of
    BY <1>1, <1>2 DEF NotHandedYet, Fixing, Reviewing, HandedNow, SameLife
  <2>2. h.of <= watch.fixed /\ h.of \in Nat
    BY <1>9 DEF Covers, Remembers, HandedNow, WatchInv, WatchTypes
  <2> QED BY <1>2, <1>6, <2>1, <2>2
<1> QED BY <1>5, <1>7, <1>8, <1>10, <1>11 DEF WatchInv

\* What it hands over it remembers as taken in.
LEMMA SendToAgentKeeps == ASSUME WatchInv, SendToAgent PROVE WatchInv'
<1> DEFINE new == [life |-> life, job |-> watch.job, of |-> watch.of]
<1>1. /\ serving /\ serving' = serving /\ host' = host /\ watch.at = "send" /\ life' = life
      /\ view' = view /\ saved' = view /\ sends' = sends + 1 /\ handed' = handed \union {new} /\ Again(watch)
    BY DEF SendToAgent, SendTurn, server
<1>2. watch \in Watches /\ Remembers(watch, watch) /\ Remembers(view, watch)
    BY <1>1 DEF WatchInv, WatchTypes, OneMemory, Remembers
<1>3. WatchRemembers /\ Rests(watch')
    BY <1>1, <1>2, AgainRemembers
<1>4. new \in [life : Nat, job : Jobs, of : Nat]
    BY <1>2 DEF WatchInv, WatchTypes, Watches
<1>5. WatchTypes'
    BY <1>1, <1>3, <1>4 DEF WatchInv, WatchTypes, WatchRemembers
<1>6. ReadBefore' /\ OneMemory'
    BY <1>1, <1>2, <1>3, WatchAssumption DEF WatchInv, WatchTypes, ReadBefore, OfTheHost, OneMemory, WatchRemembers,
       Remembers, Rests, Hosts, Off
<1>7. TakenIn' /\ NotHandedYet'
    BY <1>3 DEF TakenIn, NotHandedYet, Fixing, Reviewing, Rests
<1>8. HandedIsKnown'
  <2>1. watch.job = "fix" => new.of = view.fixed
    BY <1>1, <1>2 DEF WatchInv, TakenIn, Fixing, Remembers
  <2>2. watch.job = "review" => new.of = view.seen /\ new.of <= host.comments
    BY <1>1, <1>2 DEF WatchInv, WatchTypes, TakenIn, Reviewing, Remembers, ReadBefore, OfTheHost, Hosts, Watches
  <2>3. view.fixed \in Nat /\ view.seen \in Nat
    BY DEF WatchInv, WatchTypes, Views
  <2>4. Covers(view, "fix")' /\ Covers(view, "review")'
    BY <1>1, <2>1, <2>2, <2>3 DEF WatchInv, HandedIsKnown, Covers, HandedNow
  <2>5. Covers(saved, "fix")' /\ Covers(saved, "review")'
    BY <1>1, <2>4 DEF Covers
  <2>6. \A h \in handed' : h.life <= life'
    BY <1>1 DEF WatchInv, WatchTypes, HandedIsKnown
  <2>7. \A h \in HandedNow("review")' : h.of <= host'.comments
    BY <1>1, <2>2 DEF WatchInv, HandedIsKnown, HandedNow
  <2> QED BY <2>4, <2>5, <2>6, <2>7 DEF HandedIsKnown
<1> QED BY <1>5, <1>6, <1>7, <1>8 DEF WatchInv

\* News are comments after all that were taken in before.
LEMMA ReadCommentsKeeps == ASSUME WatchInv, ReadComments PROVE WatchInv'
<1> DEFINE c == host.comments
           news == watch.seen # Unread /\ c > watch.seen
<1>1. PICK job \in Jobs : job = IF news THEN "review" ELSE "none"
    BY DEF Jobs
<1>2. /\ serving /\ host' = host /\ SameLife /\ watch.at = "talk"
      /\ watch' = [watch EXCEPT !.seen = c, !.at = "talked", !.of = c, !.job = job]
      /\ view' = [view EXCEPT !.seen = c] /\ (saved' = saved \/ saved' = view')
    BY <1>1 DEF ReadComments, hostSide, server, watchHistory, SameLife
<1>3. c \in Nat /\ c <= MaxComments /\ c \in 0..Unread /\ "talked" \in Places
    BY WatchAssumption DEF WatchInv, WatchTypes, Hosts, Unread, Places
<1>4. watch \in Watches /\ view \in Views /\ Remembers(view, watch)
    BY <1>2 DEF WatchInv, WatchTypes, OneMemory
<1> HIDE DEF c
<1>5. /\ watch' \in Watches /\ watch'.seen = c /\ watch'.at = "talked" /\ watch'.of = c /\ watch'.job = job
      /\ watch'.fixed = watch.fixed
      /\ view' \in Views /\ view'.seen = c /\ view'.fixed = view.fixed
    BY <1>2, <1>3, <1>4 DEF Watches, Views
<1>6. WatchTypes'
    BY <1>2, <1>5 DEF WatchInv, WatchTypes, SameLife
<1>7. ReadBefore'
  <2>1. OfTheHost(watch)' /\ OfTheHost(view)'
    BY <1>2, <1>3, <1>5 DEF WatchInv, ReadBefore, OfTheHost, c
  <2>2. OfTheHost(saved)'
    BY <1>2, <2>1 DEF WatchInv, ReadBefore, OfTheHost
  <2> QED BY <1>5, <2>1, <2>2 DEF ReadBefore
<1>8. OneMemory'
    BY <1>2, <1>4, <1>5 DEF OneMemory, Remembers, SameLife
<1>9. TakenIn'
    BY <1>1, <1>3, <1>5, WatchAssumption DEF TakenIn, Fixing, Reviewing, Unread
<1>10. HandedNow("fix")' = HandedNow("fix") /\ HandedNow("review")' = HandedNow("review")
    BY <1>2 DEF HandedNow, SameLife
<1>11. HandedIsKnown'
  <2>1. Covers(view, "fix")' /\ Covers(view, "review")'
    BY <1>2, <1>5, <1>10 DEF WatchInv, HandedIsKnown, Covers, c
  <2>2. Covers(saved, "fix")' /\ Covers(saved, "review")'
    BY <1>2, <1>10, <2>1 DEF WatchInv, HandedIsKnown, Covers
  <2> QED BY <1>2, <1>10, <2>1, <2>2 DEF WatchInv, HandedIsKnown, SameLife
<1>12. NotHandedYet'
  <2>1. SUFFICES ASSUME news, NEW h \in HandedNow("review") PROVE h.of < c
    BY <1>1, <1>5, <1>10 DEF NotHandedYet, Fixing, Reviewing
  <2>2. h.of <= watch.seen /\ h.of \in Nat /\ watch.seen \in Nat
    BY <1>2, <1>4 DEF WatchInv, WatchTypes, HandedIsKnown, Covers, HandedNow, Remembers, Watches
  <2> QED BY <1>3, <2>1, <2>2 DEF c
<1> QED BY <1>6, <1>7, <1>8, <1>9, <1>11, <1>12 DEF WatchInv

\* Whether the branch merges, and what the agent is sent for.
LEMMA ReadMergeStateKeeps == ASSUME WatchInv, ReadMergeState PROVE WatchInv'
<1>1. SameLife /\ serving /\ watch.at = "talked" /\ watch \in Watches /\ watch.job \in {"none", "review"}
    BY DEF ReadMergeState, server, watchHistory, SameLife, WatchInv, WatchTypes, TakenIn
<1>2. PICK merge \in {"unread", "ok", "updated", "conflict"} :
        LET follow == IF merge = "updated" THEN [watch EXCEPT !.status = "following"] ELSE watch
            starts == merge = "conflict" /\ ~watch.conflict
            job    == IF watch.job = "none" /\ starts THEN "resolve" ELSE watch.job
            w      == [follow EXCEPT !.job = job, !.conflict = IF merge = "unread" THEN @ ELSE merge = "conflict"] IN
          /\ IF merge = "updated" THEN Open /\ Push ELSE UNCHANGED host
          /\ IF job = "none"
               THEN Again(w) /\ IF merge = "updated" THEN Publish(w) ELSE UNCHANGED session
             ELSE IF w.attempts >= MaxFixes
               THEN Leave([w EXCEPT !.status = "gave_up"]) /\ Publish([w EXCEPT !.status = "gave_up"])
             ELSE /\ watch' = [w EXCEPT !.at = "send", !.attempts = @ + 1,
                                        !.status = IF job = "review" THEN "reviewing" ELSE "resolving"]
                  /\ Publish(watch')
    BY DEF ReadMergeState
<1> DEFINE follow == IF merge = "updated" THEN [watch EXCEPT !.status = "following"] ELSE watch
           starts == merge = "conflict" /\ ~watch.conflict
           job    == IF watch.job = "none" /\ starts THEN "resolve" ELSE watch.job
           news   == IF merge = "unread" THEN follow.conflict ELSE merge = "conflict"
           w      == [follow EXCEPT !.job = job, !.conflict = news]
           gaveUp == [w EXCEPT !.status = "gave_up"]
           sent   == [w EXCEPT !.at = "send", !.attempts = @ + 1,
                               !.status = IF job = "review" THEN "reviewing" ELSE "resolving"]
<1>3. HostGoesOn
    BY <1>2, PushGoesOn, HostAsWas
<1>4. follow \in Watches /\ Remembers(follow, watch) /\ follow.of = watch.of
    BY <1>1 DEF Watches, Statuses, Watched, Remembers
<1>5. job \in Jobs /\ job # "fix" /\ (job = "review" => watch.job = "review")
    BY <1>1 DEF Jobs
<1>6. \/ job = "none" /\ Again(w) /\ (Publish(w) \/ UNCHANGED session)
      \/ Leave(gaveUp) /\ Publish(gaveUp)
      \/ watch' = sent /\ Publish(sent)
    BY <1>2
<1> HIDE DEF follow, job, news
<1>7. news \in BOOLEAN
    BY <1>4 DEF news, Watches
<1>8. w \in Watches /\ Remembers(w, watch) /\ w.of = watch.of /\ w.job = job
    BY <1>4, <1>5, <1>7 DEF Watches, Remembers
<1> HIDE DEF w
<1>9. gaveUp \in Watches /\ Remembers(gaveUp, watch)
    BY <1>8 DEF Watches, Remembers, Statuses, Ended
<1>10. /\ sent \in Watches /\ Remembers(sent, watch) /\ sent.at = "send" /\ sent.of = watch.of /\ sent.job = job
  <2>1. PICK n \in Int, st \in Statuses :
           n = w.attempts + 1 /\ st = IF job = "review" THEN "reviewing" ELSE "resolving"
    BY <1>8 DEF Watches, Statuses, Watched
  <2>2. sent = [w EXCEPT !.at = "send", !.attempts = n, !.status = st] /\ "send" \in Places
    BY <2>1 DEF Places
  <2> QED BY <1>8, <2>2 DEF Watches, Remembers
<1> HIDE DEF gaveUp, sent
<1>11. CASE job = "none" /\ Again(w) /\ (Publish(w) \/ UNCHANGED session)
    BY <1>1, <1>3, <1>8, <1>11, AgainRemembers, PublishRemembers, SessionAsWas, RestsKeeps
<1>12. CASE Leave(gaveUp) /\ Publish(gaveUp)
    BY <1>1, <1>3, <1>9, <1>12, LeaveRemembers, PublishRemembers, RestsKeeps
<1>13. CASE watch' = sent /\ Publish(sent)
  <2>1. ViewRemembers /\ SavedRemembers
    BY <1>1, <1>10, <1>13, PublishRemembers
  <2>2. WatchRemembers /\ TakesNothing
    BY <1>1, <1>5, <1>10, <1>13 DEF WatchRemembers, TakesNothing, Fixing, Reviewing
  <2> QED BY <1>1, <1>3, <2>1, <2>2, GoesOn
<1> QED BY <1>6, <1>11, <1>12, <1>13

\* What it had taken in is lost with it.
LEMMA GatewayStopsKeeps == ASSUME WatchInv, GatewayStops PROVE WatchInv'
<1>1. host' = host /\ serving' = FALSE /\ watch' = Off /\ view' = NoView /\ saved' = saved
      /\ life' = life /\ sends' = sends /\ handed' = handed
    BY DEF GatewayStops, hostSide
<1>2. WatchTypes'
    BY <1>1, OffIsTyped DEF WatchInv, WatchTypes
<1>3. ReadBefore' /\ OneMemory' /\ TakenIn' /\ NotHandedYet'
    BY <1>1 DEF WatchInv, WatchTypes, ReadBefore, OfTheHost, OneMemory, TakenIn, NotHandedYet, Fixing, Reviewing, Off,
       NoView, Hosts
<1>4. HandedIsKnown'
  <2>1. HandedNow("fix")' = HandedNow("fix") /\ HandedNow("review")' = HandedNow("review")
    BY <1>1 DEF HandedNow
  <2> QED BY <1>1, <2>1 DEF WatchInv, HandedIsKnown, Covers
<1> QED BY <1>2, <1>3, <1>4 DEF WatchInv

\* The watch goes on from what was saved.
LEMMA ResumeWatchKeeps == ASSUME WatchInv, ResumeWatch PROVE WatchInv'
<1>1. host' = host /\ serving' = TRUE /\ view' = saved /\ saved' = saved
      /\ life' = life /\ sends' = sends /\ handed' = handed
    BY DEF ResumeWatch, hostSide, watchHistory
<1>2. saved \in Views
    BY DEF WatchInv, WatchTypes
<1>3. /\ watch' \in Watches /\ (watch' = Off \/ Remembers(saved, watch')) /\ watch'.at \in {"off", "wait"}
      /\ watch'.at # "off" => Remembers(saved, watch')
  <2>1. CASE saved.status \notin Watched
    BY <2>1, OffIsTyped DEF ResumeWatch, Off
  <2>2. CASE saved.status \in Watched
    <3>1. watch' = [Off EXCEPT !.at = "wait", !.status = saved.status, !.attempts = saved.attempts,
                               !.fixed = saved.fixed, !.seen = saved.seen]
        BY <2>2 DEF ResumeWatch
    <3>2. Off \in Watches /\ "wait" \in Places
        BY OffIsTyped DEF Places
    <3> QED BY <1>2, <3>1, <3>2 DEF Watches, Views, Remembers
  <2> QED BY <2>1, <2>2
<1>4. WatchTypes'
    BY <1>1, <1>2, <1>3 DEF WatchInv, WatchTypes
<1>5. ReadBefore' /\ OneMemory' /\ TakenIn' /\ NotHandedYet'
    BY <1>1, <1>3 DEF WatchInv, WatchTypes, ReadBefore, OfTheHost, OneMemory, TakenIn, NotHandedYet, Remembers, Fixing,
       Reviewing, Off, Hosts
<1>6. HandedIsKnown'
  <2>1. HandedNow("fix")' = HandedNow("fix") /\ HandedNow("review")' = HandedNow("review")
    BY <1>1 DEF HandedNow
  <2> QED BY <1>1, <2>1 DEF WatchInv, HandedIsKnown, Covers
<1> QED BY <1>4, <1>5, <1>6 DEF WatchInv

\* Nothing was handed over at first.
LEMMA WatchBegins == ASSUME WatchInit PROVE WatchInv
<1>1. WatchTypes
    BY OffIsTyped, WatchAssumption DEF WatchInit, WatchTypes, Hosts, CIs
<1>2. ReadBefore /\ OneMemory /\ TakenIn
    BY DEF WatchInit, ReadBefore, OfTheHost, OneMemory, TakenIn, Fixing, Reviewing, Off, NoView
<1>3. HandedIsKnown /\ NotHandedYet
    BY DEF WatchInit, HandedIsKnown, Covers, HandedNow, NotHandedYet
<1> QED BY <1>1, <1>2, <1>3 DEF WatchInv

\* Every step of the specification keeps what is known of the watch.
LEMMA WatchKept == ASSUME WatchInv, [WatchNext]_watchVars PROVE WatchInv'
<1>1. CASE UNCHANGED watchVars
    BY <1>1 DEF watchVars, hostSide, session, server, watchHistory, WatchInv, WatchTypes, ReadBefore, OfTheHost,
       OneMemory, TakenIn,
       HandedIsKnown, Covers, HandedNow, NotHandedYet, Fixing, Reviewing
<1>2. CASE WatchNext
    BY <1>2, CreatePRKeeps, LookAtPRKeeps, TryAgainKeeps, FollowFindKeeps, FollowStartKeeps, PollKeeps, FindKeeps,
       NotFoundKeeps, ReadCIKeeps, JudgeKeeps, AskBaseKeeps, SendToAgentKeeps, NoCommentsKeeps, ReadMergeStateKeeps,
       TryToMergeKeeps, FindPassedKeeps, ReadStateKeeps, LetGoKeeps, ReadCommentsKeeps, TurnEndsKeeps, HostMovesKeeps,
       ClickMergeKeeps, GatewayStopsKeeps, ResumeWatchKeeps DEF WatchNext, WatchStep
<1> QED BY <1>1, <1>2

\* Nothing else counts as a handing over.
LEMMA OnlySending ==
    ASSUME WatchNext, ~SendToAgent
    PROVE  sends' = sends \/ sends' = 0
<1>1. LookAtPR => sends' = sends \/ sends' = 0
    BY DEF LookAtPR, StartWatch, NewLife, watchHistory
<1>2. CreatePR => sends' = sends \/ sends' = 0
    BY DEF CreatePR, StartWatch, NewLife, watchHistory
<1>3. TryAgain => sends' = sends \/ sends' = 0
    BY DEF TryAgain, StartWatch, NewLife, watchHistory
<1>4. FollowFind => sends' = sends
    BY DEF FollowFind, watchHistory
<1>5. FollowStart => sends' = sends \/ sends' = 0
    BY DEF FollowStart, StartWatch, NewLife, watchHistory
<1>6. Poll => sends' = sends
    BY DEF Poll, watchHistory
<1>7. Find => sends' = sends
    BY DEF Find, watchHistory
<1>8. NotFound => sends' = sends
    BY DEF NotFound, watchHistory
<1>9. ReadCI => sends' = sends
    BY DEF ReadCI, watchHistory
<1>10. Judge => sends' = sends
    BY DEF Judge, watchHistory
<1>11. AskBase => sends' = sends
    BY DEF AskBase, watchHistory
<1>12. NoComments => sends' = sends
    BY DEF NoComments, watchHistory
<1>13. ReadMergeState => sends' = sends
    BY DEF ReadMergeState, watchHistory
<1>14. TryToMerge => sends' = sends
    BY DEF TryToMerge, watchHistory
<1>15. FindPassed => sends' = sends
    BY DEF FindPassed, watchHistory
<1>16. ReadState => sends' = sends
    BY DEF ReadState, watchHistory
<1>17. LetGo => sends' = sends
    BY DEF LetGo, watchHistory
<1>18. ReadComments => sends' = sends
    BY DEF ReadComments, watchHistory
<1>19. TurnEnds => sends' = sends
    BY DEF TurnEnds, watchHistory
<1>20. HostMoves => sends' = sends
    BY DEF HostMoves, watchHistory
<1>21. ClickMerge => sends' = sends
    BY DEF ClickMerge, watchHistory
<1>22. GatewayStops => sends' = sends
    BY DEF GatewayStops
<1>23. ResumeWatch => sends' = sends
    BY DEF ResumeWatch, watchHistory
<1> QED
    BY <1>1, <1>2, <1>3, <1>4, <1>5, <1>6, <1>7, <1>8, <1>9, <1>10, <1>11, <1>12, <1>13, <1>14, <1>15, <1>16, <1>17,
       <1>18, <1>19, <1>20, <1>21, <1>22, <1>23 DEF WatchNext, WatchStep

\* A failure is answered once per push, and a comment once: one life of a watch never sends the agent
\* twice for the same push or the same comments, whatever restarts it survives (ciKey, Tracker).
THEOREM HandsOverOnce == WatchSpec => HandedOnce
<1>1. WatchInit => WatchInv
    BY WatchBegins
<1>2. WatchInv /\ [WatchNext]_watchVars => WatchInv'
    BY WatchKept
<1>3. WatchInv /\ [WatchNext]_watchVars =>
        [sends' > sends /\ watch.job \in {"fix", "review"} =>
           [life |-> life, job |-> watch.job, of |-> watch.of] \notin handed]_watchVars
  <2> SUFFICES ASSUME WatchInv, WatchNext, sends' > sends, watch.job \in {"fix", "review"}
               PROVE  [life |-> life, job |-> watch.job, of |-> watch.of] \notin handed
    OBVIOUS
  <2>1. sends \in Nat
    BY DEF WatchInv, WatchTypes
  <2>2. SendToAgent
    BY <2>1, OnlySending
  <2>4. watch.at = "send"
    BY <2>2 DEF SendToAgent
  <2>3. watch.of \in Nat
    BY DEF WatchInv, WatchTypes, Watches
  <2> QED BY <2>3, <2>4 DEF WatchInv, NotHandedYet, HandedNow, Fixing, Reviewing
<1> QED BY <1>1, <1>2, <1>3, PTL DEF WatchSpec, HandedOnce
=============================================================================
