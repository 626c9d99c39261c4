---------------------------- MODULE ProjectProofs ----------------------------
(***************************************************************************)
(* For any projects, limits and number of changes: what an agent nobody    *)
(* asked did is on the host only once it was vetted, an attempt of         *)
(* Autopilot that came to no draft leaves nothing behind on disk, and no   *)
(* draft is opened over the limit of those it was told of.  For any number *)
(* of requests and sessions: uncommitted work goes only with the user's    *)
(* word, and what is deleted is deleted wholly or not at all.              *)
(***************************************************************************)
EXTENDS Autopilot, SessionTree, FiniteSetTheorems, SequenceTheorems, WellFoundedInduction, TLAPS

Works   == {"run", "vet", "push", "draft", "discard", "forget"}
Stages  == {"off", "mark", "config", "count", "next"} \union Works
Firings == [at : Stages, limit : Limits \union {0}, left : Seq(DOMAIN Projects), counted : SUBSET Repos,
            unread : SUBSET Repos, targets : SUBSET DOMAIN Projects, open : Nat, fix : Fixes \union {0},
            lost : SUBSET Fixes]

Types ==
    /\ settings \in [on : BOOLEAN, limit : Limits]
    /\ busy \in BOOLEAN /\ made \in 0..MaxFixes
    /\ fixes \subseteq 1..made /\ worktrees \subseteq 1..made
    /\ work \in [Fixes -> SUBSET {"fine", "refused", "person"}]
    /\ falls \in Nat

HostTypes ==
    /\ pushed \in [Fixes -> {"no", "fine", "refused"}]
    /\ IsFiniteSet(drafts)
    /\ drafts \subseteq [fix : Fixes, repo : Repos, open : BOOLEAN]

FiringTypes ==
    /\ firing \in [Firers -> Firings]
    /\ \A f \in Firers : /\ firing[f].fix \in 0..made
                         /\ firing[f].fix # 0 <=> firing[f].at \in Works
                         /\ firing[f].at \in Works => firing[f].left # <<>>

\* The mark is held by the firing at work, and there is one (autopilotBusy).
OneAtWork ==
    /\ busy <=> \E f \in Firers : firing[f].at \notin {"off", "mark"}
    /\ \A f \in Firers, g \in Firers :
          firing[f].at \notin {"off", "mark"} /\ firing[g].at \notin {"off", "mark"} => f = g

\* What is about to be pushed was vetted, and what is on the host was.
OnlyVetted ==
    /\ \A f \in Firers : firing[f].at = "push" => "refused" \notin work[firing[f].fix]
    /\ \A f \in Firers : firing[f].at = "draft" => pushed[firing[f].fix] # "no"
    /\ \A s \in Fixes : pushed[s] # "refused"
    /\ \A d \in drafts : pushed[d.fix] # "no"

\* Every session there is has a draft, or is being worked on, or was left by a death; the
\* worktree goes before the session.
Accounted ==
    /\ \A f \in Firers : firing[f].at = "forget" => firing[f].fix \notin worktrees
    /\ \A s \in fixes \union worktrees :
          s \in left \/ (\E d \in drafts : d.fix = s) \/ (\E f \in Firers : firing[f].fix = s)

PInv == Types /\ HostTypes /\ FiringTypes /\ OneAtWork /\ OnlyVetted /\ Accounted

-----------------------------------------------------------------------------
(* Firings.                                                                 *)

LEMMA FiringFacts ==
    /\ NotFiring \in Firings /\ NotFiring.at = "off" /\ NotFiring.fix = 0
    /\ Numbers \in Seq(DOMAIN Projects)
    /\ \A limit \in Limits \union {0} :
         Counting(limit) \in Firings /\ Counting(limit).at = "count" /\ Counting(limit).fix = 0
    /\ DOMAIN Projects = 1..Len(Projects) /\ Len(Projects) \in Nat
  <1>1. DOMAIN Projects = 1..Len(Projects) /\ Len(Projects) \in Nat
    BY AutopilotAssumption
  <1>2. Numbers \in Seq(DOMAIN Projects)
    BY <1>1 DEF Numbers
  <1>3. <<>> \in Seq(DOMAIN Projects)
    OBVIOUS
  <1>4. NotFiring \in Firings /\ NotFiring.at = "off" /\ NotFiring.fix = 0
    BY <1>3 DEF NotFiring, Firings, Stages, Works
  <1>5. ASSUME NEW limit \in Limits \union {0}
        PROVE  Counting(limit) \in Firings /\ Counting(limit).at = "count" /\ Counting(limit).fix = 0
    BY <1>2, <1>4 DEF Counting, Firings, Stages, Works
  <1> QED
    BY <1>1, <1>2, <1>4, <1>5

\* One firing goes on and the other stays.
LEMMA FiresFact ==
    ASSUME PInv, NEW f \in Firers, NEW with \in Firings, Fires(f, with)
    PROVE  firing' \in [Firers -> Firings] /\ firing'[f] = with /\ \A g \in Firers \ {f} : firing'[g] = firing[g]
BY DEF PInv, FiringTypes, Fires

LEMMA GoesFact ==
    ASSUME PInv, NEW f \in Firers, NEW at \in Stages, Goes(f, at)
    PROVE  /\ firing' \in [Firers -> Firings] /\ \A g \in Firers \ {f} : firing'[g] = firing[g]
           /\ firing'[f].at = at /\ firing'[f].fix = firing[f].fix /\ firing'[f].left = firing[f].left
  <1>1. firing[f] \in Firings
    BY DEF PInv, FiringTypes
  <1>2. [firing[f] EXCEPT !.at = at] \in Firings
    BY <1>1 DEF Firings
  <1>3. firing' \in [Firers -> Firings] /\ firing'[f] = [firing[f] EXCEPT !.at = at] /\ \A g \in Firers \ {f} : firing'[g] = firing[g]
    BY <1>2, FiresFact DEF Goes
  <1> QED
    BY <1>1, <1>3 DEF Firings

LEMMA PInvInit == AutopilotInit => PInv
  <1> SUFFICES ASSUME AutopilotInit PROVE PInv
    OBVIOUS
  <1> USE FiringFacts, AutopilotAssumption DEF AutopilotInit
  <1>1. \A f \in Firers : firing[f] = NotFiring
    OBVIOUS
  <1>2. Types
    <2>1. work \in [Fixes -> SUBSET {"fine", "refused", "person"}] /\ made \in 0..MaxFixes
      OBVIOUS
    <2> QED
      BY <2>1 DEF Types
  <1>3. HostTypes
    BY FS_EmptySet DEF HostTypes
  <1>4. FiringTypes
    <2>1. firing \in [Firers -> Firings]
      BY <1>1
    <2>2. made = 0 /\ NotFiring.at \notin Works
      BY DEF Works
    <2> QED
      BY <1>1, <2>1, <2>2 DEF FiringTypes
  <1>5. OneAtWork
    BY <1>1 DEF OneAtWork
  <1>6. OnlyVetted
    BY <1>1 DEF OnlyVetted
  <1>7. Accounted
    BY <1>1 DEF Accounted
  <1> QED
    BY <1>2, <1>3, <1>4, <1>5, <1>6, <1>7 DEF PInv

\* A step of the firing at work that changes nothing else.
LEMMA GoesOn ==
    ASSUME PInv, NEW f \in Firers, firing[f].at \notin {"off", "mark"},
           firing' \in [Firers -> Firings], \A g \in Firers \ {f} : firing'[g] = firing[g],
           firing'[f].at \notin {"off", "mark"}, firing'[f].fix = firing[f].fix,
           firing'[f].fix # 0 <=> firing'[f].at \in Works,
           firing'[f].at \in Works => firing'[f].left # <<>>,
           firing'[f].at = "push" => "refused" \notin work[firing[f].fix],
           firing'[f].at # "draft", firing'[f].at # "forget",
           UNCHANGED <<settings, busy, onDisk, onHost, marks>>
    PROVE  PInv'
  <1> USE DEF PInv, onDisk, onHost, marks
  <1>1. Types' /\ HostTypes'
    BY DEF Types, HostTypes
  <1>2. FiringTypes'
    BY DEF FiringTypes
  <1>3. OneAtWork'
    BY DEF OneAtWork
  <1>4. OnlyVetted'
    BY DEF OnlyVetted
  <1>5. Accounted'
    BY DEF Accounted
  <1> QED
    BY <1>1, <1>2, <1>3, <1>4, <1>5

LEMMA PInvStep == PInv /\ [AutopilotNext]_autopilotVars => PInv'
  <1> SUFFICES ASSUME PInv, [AutopilotNext]_autopilotVars PROVE PInv'
    OBVIOUS
  <1> USE AutopilotAssumption DEF PInv
  <1>0. \A f \in Firers : firing[f] \in Firings /\ firing[f].left \in Seq(DOMAIN Projects) /\ firing[f].fix \in Fixes \union {0}
    BY DEF FiringTypes, Firings
  <1>1. CASE PutAutopilot
    <2>1. settings' \in [on : BOOLEAN, limit : Limits] /\ UNCHANGED <<busy, firing, onDisk, onHost, marks>>
      BY <1>1 DEF PutAutopilot
    <2> USE DEF onDisk, onHost, marks
    <2>11. Types'
      BY <2>1 DEF Types
    <2>12. HostTypes'
      BY <2>1 DEF HostTypes
    <2>13. FiringTypes'
      BY <2>1 DEF FiringTypes
    <2>14. OneAtWork'
      BY <2>1 DEF OneAtWork
    <2>15. OnlyVetted'
      BY <2>1 DEF OnlyVetted
    <2>16. Accounted'
      BY <2>1 DEF Accounted
    <2> QED
      BY <2>11, <2>12, <2>13, <2>14, <2>15, <2>16
  <1>2. CASE ClockMarks
    <2>1. ~busy /\ busy' = TRUE /\ Goes("clock", "config") /\ UNCHANGED <<settings, onDisk, onHost, marks>> /\ firing["clock"].at = "off"
      BY <1>2 DEF ClockMarks
    <2>2. /\ firing' \in [Firers -> Firings] /\ \A g \in Firers \ {"clock"} : firing'[g] = firing[g]
          /\ firing'["clock"].at = "config" /\ firing'["clock"].fix = firing["clock"].fix /\ firing["clock"].fix = 0
      BY <2>1, GoesFact DEF FiringTypes, Firers, Stages, Works
    <2>3. \A g \in Firers : firing[g].at \in {"off", "mark"}
      BY <2>1 DEF OneAtWork
    <2> USE DEF onDisk, onHost, marks
    <2>11. Types'
      BY <2>1, <2>2, <2>3 DEF Types
    <2>12. HostTypes'
      BY <2>1, <2>2, <2>3 DEF HostTypes
    <2>13. FiringTypes'
      BY <2>1, <2>2, <2>3 DEF FiringTypes, Works, Firers
    <2>14. OneAtWork'
      BY <2>1, <2>2, <2>3 DEF OneAtWork, Firers
    <2>15. OnlyVetted'
      BY <2>1, <2>2, <2>3 DEF OnlyVetted
    <2>16. Accounted'
      BY <2>1, <2>2, <2>3 DEF Accounted
    <2> QED
      BY <2>11, <2>12, <2>13, <2>14, <2>15, <2>16
  <1>3. CASE ClockReads
    <2>1. firing["clock"].at = "config" /\ UNCHANGED <<settings, onDisk, onHost, marks>> /\ "clock" \in Firers
      BY <1>3 DEF ClockReads, Firers
    <2>2. /\ firing' \in [Firers -> Firings] /\ \A g \in Firers \ {"clock"} : firing'[g] = firing[g]
          /\ firing'["clock"].fix = 0 /\ firing["clock"].fix = 0
          /\ \/ firing'["clock"].at = "count" /\ busy' = busy
             \/ firing'["clock"].at = "off" /\ busy' = FALSE
      <3>1. CASE settings.on
        <4>1. Fires("clock", Counting(settings.limit)) /\ busy' = busy /\ Counting(settings.limit) \in Firings
          BY <1>3, <3>1, FiringFacts DEF ClockReads, Types
        <4>2. Counting(settings.limit).at = "count" /\ Counting(settings.limit).fix = 0
          BY FiringFacts DEF Types
        <4> QED
          BY <2>1, <4>1, <4>2, FiresFact DEF FiringTypes, Works
      <3>2. CASE ~settings.on
        <4>1. Fires("clock", NotFiring) /\ busy' = FALSE
          BY <1>3, <3>2 DEF ClockReads
        <4> QED
          BY <2>1, <4>1, FiringFacts, FiresFact DEF FiringTypes, Works
      <3> QED
        BY <3>1, <3>2
    <2>3. busy /\ \A g \in Firers \ {"clock"} : firing[g].at \in {"off", "mark"}
      BY <2>1 DEF OneAtWork
    <2> USE DEF onDisk, onHost, marks
    <2>11. Types'
      BY <2>1, <2>2, <2>3 DEF Types
    <2>12. HostTypes'
      BY <2>1, <2>2, <2>3 DEF HostTypes
    <2>13. FiringTypes'
      BY <2>1, <2>2, <2>3 DEF FiringTypes, Works
    <2>14. OneAtWork'
      BY <2>1, <2>2, <2>3 DEF OneAtWork
    <2>15. OnlyVetted'
      BY <2>1, <2>2, <2>3 DEF OnlyVetted
    <2>16. Accounted'
      <3>1. \A g \in Firers : firing'[g].fix = firing[g].fix /\ (firing'[g].at = "forget" => firing[g].at = "forget")
        BY <2>1, <2>2
      <3> QED
        BY <2>1, <2>2, <3>1 DEF Accounted
    <2> QED
      BY <2>11, <2>12, <2>13, <2>14, <2>15, <2>16
  <1>4. CASE HandReads
    <2>1. /\ "hand" \in Firers /\ firing["hand"].at = "off" /\ UNCHANGED <<settings, busy, onDisk, onHost, marks>>
          /\ Fires("hand", [NotFiring EXCEPT !.at = "mark", !.limit = settings.limit]) /\ settings.limit \in Limits
      BY <1>4 DEF HandReads, Firers, Types
    <2>2. /\ firing' \in [Firers -> Firings] /\ \A g \in Firers \ {"hand"} : firing'[g] = firing[g]
          /\ firing'["hand"].fix = 0 /\ firing["hand"].fix = 0 /\ firing'["hand"].at = "mark"
      <3> DEFINE with == [NotFiring EXCEPT !.at = "mark", !.limit = settings.limit]
      <3>1. with \in Firings /\ with.at = "mark" /\ with.fix = 0
        BY <2>1, FiringFacts DEF Firings, Stages
      <3>2. Fires("hand", with)
        BY <2>1
      <3> HIDE DEF with
      <3> QED
        BY <2>1, <3>1, <3>2, FiresFact DEF FiringTypes, Works
    <2> USE DEF onDisk, onHost, marks
    <2>11. Types'
      BY <2>1, <2>2 DEF Types
    <2>12. HostTypes'
      BY <2>1, <2>2 DEF HostTypes
    <2>13. FiringTypes'
      BY <2>1, <2>2 DEF FiringTypes, Works
    <2>14. OneAtWork'
      BY <2>1, <2>2 DEF OneAtWork
    <2>15. OnlyVetted'
      BY <2>1, <2>2 DEF OnlyVetted
    <2>16. Accounted'
      BY <2>1, <2>2 DEF Accounted
    <2> QED
      BY <2>11, <2>12, <2>13, <2>14, <2>15, <2>16
  <1>5. CASE HandMarks
    <2>1. "hand" \in Firers /\ firing["hand"].at = "mark" /\ UNCHANGED <<settings, onDisk, onHost, marks>> /\ firing["hand"].fix = 0
      BY <1>5 DEF HandMarks, Firers, FiringTypes, Works
    <2>2. /\ firing' \in [Firers -> Firings] /\ \A g \in Firers \ {"hand"} : firing'[g] = firing[g]
          /\ firing'["hand"].fix = 0
          /\ \/ firing'["hand"].at = "off" /\ busy' = busy
             \/ ~busy /\ firing'["hand"].at = "count" /\ busy' = TRUE
      <3>1. CASE busy
        BY <1>5, <2>1, <3>1, FiringFacts, FiresFact DEF HandMarks
      <3>2. CASE ~busy
        <4>1. Fires("hand", Counting(firing["hand"].limit)) /\ busy' = TRUE
          BY <1>5, <3>2 DEF HandMarks
        <4>2. firing["hand"].limit \in Limits \union {0}
          BY <1>0, <2>1 DEF Firings
        <4>3. Counting(firing["hand"].limit) \in Firings /\ Counting(firing["hand"].limit).at = "count" /\ Counting(firing["hand"].limit).fix = 0
          BY <4>2, FiringFacts
        <4> QED
          BY <2>1, <3>2, <4>1, <4>3, FiresFact
      <3> QED
        BY <3>1, <3>2
    <2> USE DEF onDisk, onHost, marks
    <2>11. Types'
      BY <2>1, <2>2 DEF Types
    <2>12. HostTypes'
      BY <2>1, <2>2 DEF HostTypes
    <2>13. FiringTypes'
      BY <2>1, <2>2 DEF FiringTypes, Works
    <2>14. OneAtWork'
      BY <2>1, <2>2 DEF OneAtWork
    <2>15. OnlyVetted'
      BY <2>1, <2>2 DEF OnlyVetted
    <2>16. Accounted'
      BY <2>1, <2>2 DEF Accounted
    <2> QED
      BY <2>11, <2>12, <2>13, <2>14, <2>15, <2>16
  <1>6. ASSUME NEW f \in Firers, CountNext(f) PROVE PInv'
    <2> DEFINE i == Head(firing[f].left)
               r == Projects[i]
    <2>1. firing[f].at = "count" /\ firing[f].left # <<>> /\ UNCHANGED <<settings, busy, onDisk, onHost, marks>>
      BY <1>6 DEF CountNext
    <2>2. i \in DOMAIN Projects /\ r \in Repos /\ Tail(firing[f].left) \in Seq(DOMAIN Projects)
      <3>1. i \in DOMAIN Projects /\ Tail(firing[f].left) \in Seq(DOMAIN Projects)
        BY <1>0, <2>1, HeadTailProperties
      <3> QED
        BY <3>1 DEF Repos
    <2>3. Cardinality(OpenIn(r)) \in Nat
      <3>1. IsFiniteSet(OpenIn(r))
        BY FS_Subset DEF HostTypes, OpenIn
      <3> QED
        BY <3>1, FS_CardinalityType
    <2>4. PICK with \in Firings : Fires(f, with) /\ with.at = "count" /\ with.fix = firing[f].fix
      <3> DEFINE n == Cardinality(OpenIn(r))
                 rest == Tail(firing[f].left)
                 a == [firing[f] EXCEPT !.left = rest]
                 b == [firing[f] EXCEPT !.left = rest, !.targets = @ \union {i}]
                 c == [firing[f] EXCEPT !.left = rest, !.targets = @ \union {i}, !.counted = @ \union {r}, !.open = @ + n]
                 d == [firing[f] EXCEPT !.left = rest, !.counted = @ \union {r}, !.unread = @ \union {r}]
      <3>1. Fires(f, a) \/ Fires(f, b) \/ Fires(f, c) \/ Fires(f, d)
        BY <1>6 DEF CountNext
      <3> HIDE DEF n, rest, i, r
      <3>2. n \in Nat /\ rest \in Seq(DOMAIN Projects) /\ firing[f] \in Firings
        BY <1>0, <2>2, <2>3 DEF n, rest
      <3>3. a \in Firings /\ a.at = firing[f].at /\ a.fix = firing[f].fix
        BY <3>2 DEF Firings
      <3>4. b \in Firings /\ b.at = firing[f].at /\ b.fix = firing[f].fix
        BY <2>2, <3>2 DEF Firings
      <3>5. c \in Firings /\ c.at = firing[f].at /\ c.fix = firing[f].fix
        <4> DEFINE open == firing[f].open + n
        <4>1. open \in Nat /\ c = [firing[f] EXCEPT !.left = rest, !.targets = @ \union {i}, !.counted = @ \union {r}, !.open = open]
          BY <3>2 DEF Firings
        <4> HIDE DEF open, c
        <4> QED
          BY <2>2, <3>2, <4>1 DEF Firings
      <3>6. d \in Firings /\ d.at = firing[f].at /\ d.fix = firing[f].fix
        BY <2>2, <3>2 DEF Firings
      <3> HIDE DEF a, b, c, d
      <3> QED
        BY <2>1, <3>1, <3>3, <3>4, <3>5, <3>6
    <2>5. firing' \in [Firers -> Firings] /\ firing'[f] = with /\ \A g \in Firers \ {f} : firing'[g] = firing[g]
      BY <2>4, FiresFact
    <2>6. with.fix = 0
      BY <2>1, <2>4 DEF FiringTypes, Works
    <2> QED
      BY <2>1, <2>4, <2>5, <2>6, GoesOn DEF Works
  <1>7. ASSUME NEW f \in Firers, Counted(f) PROVE PInv'
    <2> DEFINE with == [firing[f] EXCEPT !.at = "next", !.left = Numbers]
    <2>1. firing[f].at = "count" /\ Fires(f, with) /\ UNCHANGED <<settings, busy, onDisk, onHost, marks>>
      BY <1>7 DEF Counted
    <2>2. with \in Firings /\ with.at = "next" /\ with.fix = firing[f].fix
      BY <1>0, FiringFacts DEF Firings, Stages
    <2> HIDE DEF with
    <2>3. firing' \in [Firers -> Firings] /\ firing'[f] = with /\ \A g \in Firers \ {f} : firing'[g] = firing[g]
      BY <2>1, <2>2, FiresFact
    <2>4. with.fix = 0
      BY <2>1, <2>2 DEF FiringTypes, Works
    <2> QED
      BY <2>1, <2>2, <2>3, <2>4, GoesOn DEF Works
  <1>8. ASSUME NEW f \in Firers, FiringEnds(f) PROVE PInv'
    <2>1. firing[f].at = "next" /\ Fires(f, NotFiring) /\ busy' = FALSE /\ UNCHANGED <<settings, onDisk, onHost, marks>>
      BY <1>8 DEF FiringEnds
    <2>2. firing' \in [Firers -> Firings] /\ firing'[f] = NotFiring /\ \A g \in Firers \ {f} : firing'[g] = firing[g]
      BY <2>1, FiringFacts, FiresFact
    <2>3. firing[f].fix = 0 /\ firing'[f].fix = 0 /\ firing'[f].at = "off" /\ \A g \in Firers \ {f} : firing[g].at \in {"off", "mark"}
      BY <2>1, <2>2, FiringFacts DEF FiringTypes, Works, OneAtWork
    <2> USE DEF onDisk, onHost, marks
    <2>11. Types'
      BY <2>1, <2>2, <2>3 DEF Types
    <2>12. HostTypes'
      BY <2>1, <2>2, <2>3 DEF HostTypes
    <2>13. FiringTypes'
      BY <2>1, <2>2, <2>3 DEF FiringTypes, Works
    <2>14. OneAtWork'
      BY <2>1, <2>2, <2>3 DEF OneAtWork
    <2>15. OnlyVetted'
      BY <2>1, <2>2, <2>3 DEF OnlyVetted
    <2>16. Accounted'
      BY <2>1, <2>2, <2>3 DEF Accounted
    <2> QED
      BY <2>11, <2>12, <2>13, <2>14, <2>15, <2>16
  <1>9. ASSUME NEW f \in Firers, StartFix(f) PROVE PInv'
    <2>1. /\ firing[f].at = "next" /\ firing[f].left # <<>> /\ firing[f].fix = 0 /\ UNCHANGED <<settings, busy, onHost, marks>>
          /\ \A g \in Firers \ {f} : firing[g].at \in {"off", "mark"}
      BY <1>9 DEF StartFix, FiringTypes, Works, OneAtWork
    <2>2. CASE Fires(f, [firing[f] EXCEPT !.left = Tail(@)]) /\ UNCHANGED onDisk
      <3> DEFINE rest == Tail(firing[f].left)
                 with == [firing[f] EXCEPT !.left = rest]
      <3>1. rest \in Seq(DOMAIN Projects)
        BY <1>0, <2>1, HeadTailProperties
      <3>2. Fires(f, with)
        BY <2>2
      <3> HIDE DEF rest
      <3>3. with \in Firings /\ with.at = "next" /\ with.fix = firing[f].fix
        BY <1>0, <2>1, <3>1 DEF Firings
      <3> HIDE DEF with
      <3>4. firing' \in [Firers -> Firings] /\ firing'[f] = with /\ \A g \in Firers \ {f} : firing'[g] = firing[g]
        BY <3>2, <3>3, FiresFact
      <3> QED
        BY <2>1, <2>2, <3>3, <3>4, GoesOn DEF Works
    <2>3. CASE /\ made < MaxFixes /\ made' = made + 1 /\ fixes' = fixes \union {made'} /\ UNCHANGED work
               /\ \E has \in BOOLEAN :
                    /\ worktrees' = IF has THEN worktrees \union {made'} ELSE worktrees
                    /\ Fires(f, [firing[f] EXCEPT !.fix = made', !.at = IF has THEN "run" ELSE "discard"])
      <3>1. PICK at \in {"run", "discard"} :
              Fires(f, [firing[f] EXCEPT !.fix = made', !.at = at]) /\ worktrees' \in {worktrees, worktrees \union {made'}}
        BY <2>3
      <3>2. made' \in Fixes /\ made' \in 1..made' /\ made \in Nat /\ made' = made + 1 /\ 1..made \subseteq 1..made' /\ made' \in 0..MaxFixes
        BY <2>3 DEF Types, Fixes
      <3> DEFINE with == [firing[f] EXCEPT !.fix = made', !.at = at]
      <3>3. with \in Firings /\ with.at = at /\ with.fix = made' /\ with.left = firing[f].left
        BY <1>0, <3>2 DEF Firings, Stages, Works
      <3>4. Fires(f, with)
        BY <3>1
      <3> HIDE DEF with
      <3>5. firing' \in [Firers -> Firings] /\ firing'[f] = with /\ \A g \in Firers \ {f} : firing'[g] = firing[g]
        BY <3>3, <3>4, FiresFact
      <3> USE DEF onHost, marks
      <3>6. Types'
        BY <2>1, <2>3, <3>1, <3>2 DEF Types
      <3>7. HostTypes'
        BY <2>1 DEF HostTypes
      <3>8. FiringTypes'
        <4>1. \A g \in Firers \ {f} : firing'[g] = firing[g] /\ firing[g].fix \in 0..made'
          BY <3>2, <3>5 DEF FiringTypes
        <4>2. firing'[f].fix \in 0..made' /\ firing'[f].fix # 0 /\ firing'[f].at \in Works /\ firing'[f].left # <<>>
          BY <2>1, <3>1, <3>2, <3>3, <3>5 DEF Works
        <4> QED
          BY <3>5, <4>1, <4>2 DEF FiringTypes
      <3>9. OneAtWork'
        BY <2>1, <3>1, <3>3, <3>5 DEF OneAtWork
      <3>10. OnlyVetted'
        BY <2>1, <2>3, <3>1, <3>3, <3>5 DEF OnlyVetted
      <3>11. Accounted'
        <4>1. 0 \notin fixes \union worktrees
          BY DEF Types
        <4>2. firing'[f].fix = made' /\ firing'[f].at # "forget"
          BY <3>1, <3>3, <3>5
        <4>3. fixes' \union worktrees' \subseteq fixes \union worktrees \union {made'}
          BY <2>3, <3>1
        <4>4. \A g \in Firers : firing[g].fix # 0 => firing'[g].fix = firing[g].fix
          BY <2>1, <3>5
        <4>5. \A g \in Firers : firing'[g].at # "forget"
          BY <2>1, <3>5, <4>2
        <4> QED
          BY <2>1, <4>1, <4>2, <4>3, <4>4, <4>5 DEF Accounted
      <3> QED
        BY <3>6, <3>7, <3>8, <3>9, <3>10, <3>11
    <2> QED
      BY <1>9, <2>2, <2>3 DEF StartFix
  <1>10. ASSUME NEW f \in Firers, FixRuns(f) PROVE PInv'
    <2>1. /\ firing[f].at = "run" /\ firing[f].fix \in Fixes /\ firing[f].left # <<>> /\ firing[f].fix # 0
          /\ UNCHANGED <<settings, busy, made, fixes, worktrees, onHost, marks>>
          /\ \A g \in Firers \ {f} : firing[g].at \in {"off", "mark"}
      BY <1>0, <1>10 DEF FixRuns, FiringTypes, Works, OneAtWork
    <2>2. PICK at \in {"vet", "discard"} : Goes(f, at)
      BY <1>10 DEF FixRuns
    <2>3. work' \in [Fixes -> SUBSET {"fine", "refused", "person"}]
      BY <1>10, <2>1 DEF FixRuns, Types
    <2>4. /\ firing' \in [Firers -> Firings] /\ \A g \in Firers \ {f} : firing'[g] = firing[g]
          /\ firing'[f].at = at /\ firing'[f].fix = firing[f].fix /\ firing'[f].left = firing[f].left
      BY <2>2, GoesFact DEF Stages, Works
    <2> USE DEF onDisk, onHost, marks
    <2>11. Types'
      BY <2>1, <2>2, <2>3, <2>4 DEF Types
    <2>12. HostTypes'
      BY <2>1, <2>2, <2>3, <2>4 DEF HostTypes
    <2>13. FiringTypes'
      BY <2>1, <2>2, <2>3, <2>4 DEF FiringTypes, Works
    <2>14. OneAtWork'
      BY <2>1, <2>2, <2>3, <2>4 DEF OneAtWork
    <2>15. OnlyVetted'
      BY <2>1, <2>2, <2>3, <2>4 DEF OnlyVetted
    <2>16. Accounted'
      <3>1. \A g \in Firers : firing'[g].fix = firing[g].fix /\ (firing'[g].at = "forget" => firing[g].at = "forget")
        BY <2>1, <2>2, <2>4
      <3> QED
        BY <2>1, <2>2, <2>4, <3>1 DEF Accounted
    <2> QED
      BY <2>11, <2>12, <2>13, <2>14, <2>15, <2>16
  <1>11. ASSUME NEW f \in Firers, Vet(f) PROVE PInv'
    <2>1. /\ firing[f].at = "vet" /\ firing[f].fix # 0 /\ firing[f].left # <<>> /\ UNCHANGED <<settings, busy, onDisk, onHost, marks>>
      BY <1>11 DEF Vet, FiringTypes, Works
    <2>2. PICK at \in {"push", "discard"} : Goes(f, at) /\ (at = "push" => "refused" \notin work[firing[f].fix])
      BY <1>11 DEF Vet, Vetted
    <2>3. /\ firing' \in [Firers -> Firings] /\ \A g \in Firers \ {f} : firing'[g] = firing[g]
          /\ firing'[f].at = at /\ firing'[f].fix = firing[f].fix /\ firing'[f].left = firing[f].left
      BY <2>2, GoesFact DEF Stages, Works
    <2> QED
      BY <2>1, <2>2, <2>3, GoesOn DEF Works
  <1>12. ASSUME NEW f \in Firers, PushFix(f) PROVE PInv'
    <2>1. /\ firing[f].at = "push" /\ firing[f].fix \in Fixes /\ firing[f].left # <<>> /\ firing[f].fix # 0
          /\ UNCHANGED <<settings, busy, onDisk, drafts, marks>>
          /\ \A g \in Firers \ {f} : firing[g].at \in {"off", "mark"}
      BY <1>0, <1>12 DEF PushFix, FiringTypes, Works, OneAtWork
    <2>2. PICK at \in {"draft", "discard"} :
            /\ Goes(f, at)
            /\ at = "draft" => pushed' = [pushed EXCEPT ![firing[f].fix] = "fine"]
            /\ at = "discard" => pushed' = pushed
      BY <1>12, <2>1 DEF PushFix, OnlyVetted
    <2>3. /\ pushed' \in [Fixes -> {"no", "fine", "refused"}]
          /\ \A s \in Fixes : pushed'[s] # "refused" /\ (pushed[s] # "no" => pushed'[s] # "no")
          /\ at = "draft" => pushed'[firing[f].fix] # "no"
      BY <2>1, <2>2 DEF HostTypes, OnlyVetted
    <2>4. /\ firing' \in [Firers -> Firings] /\ \A g \in Firers \ {f} : firing'[g] = firing[g]
          /\ firing'[f].at = at /\ firing'[f].fix = firing[f].fix /\ firing'[f].left = firing[f].left
      BY <2>2, GoesFact DEF Stages, Works
    <2> USE DEF onDisk, onHost, marks
    <2>11. Types'
      BY <2>1, <2>2, <2>3, <2>4 DEF Types
    <2>12. HostTypes'
      BY <2>1, <2>2, <2>3, <2>4 DEF HostTypes
    <2>13. FiringTypes'
      BY <2>1, <2>2, <2>3, <2>4 DEF FiringTypes, Works
    <2>14. OneAtWork'
      BY <2>1, <2>2, <2>3, <2>4 DEF OneAtWork
    <2>15. OnlyVetted'
      BY <2>1, <2>2, <2>3, <2>4 DEF OnlyVetted, HostTypes
    <2>16. Accounted'
      BY <2>1, <2>2, <2>3, <2>4 DEF Accounted
    <2> QED
      BY <2>11, <2>12, <2>13, <2>14, <2>15, <2>16
  <1>13. ASSUME NEW f \in Firers, OpenDraft(f) PROVE PInv'
    <2>1. /\ firing[f].at = "draft" /\ firing[f].fix \in Fixes /\ firing[f].left # <<>> /\ firing[f].fix # 0
          /\ UNCHANGED <<settings, busy, onDisk, pushed, marks>>
          /\ \A g \in Firers \ {f} : firing[g].at \in {"off", "mark"}
      BY <1>0, <1>13 DEF OpenDraft, FiringTypes, Works, OneAtWork
    <2> DEFINE i    == Head(firing[f].left)
               rest == Tail(firing[f].left)
               new  == Draft(f)
    <2>2. i \in DOMAIN Projects /\ rest \in Seq(DOMAIN Projects)
      BY <1>0, <2>1, HeadTailProperties
    <2>3. new \in [fix : Fixes, repo : Repos, open : BOOLEAN] /\ new.fix = firing[f].fix
      BY <2>1, <2>2 DEF Draft, Repos
    <2> DEFINE a == [firing[f] EXCEPT !.at = "next", !.fix = 0, !.left = rest, !.open = @ + 1]
               b == [firing[f] EXCEPT !.at = "discard"]
               c == [firing[f] EXCEPT !.at = "discard", !.lost = @ \union {firing[f].fix}]
    <2>4. \/ Fires(f, a) /\ drafts' = drafts \union {new}
          \/ Fires(f, b) /\ drafts' = drafts
          \/ Fires(f, c) /\ drafts' = drafts \union {new}
      BY <1>13 DEF OpenDraft, Goes
    <2> HIDE DEF rest, i, new
    <2>5. a \in Firings /\ a.at = "next" /\ a.fix = 0
      <3> DEFINE open == firing[f].open + 1
      <3>1. open \in Nat /\ a = [firing[f] EXCEPT !.at = "next", !.fix = 0, !.left = rest, !.open = open]
        BY <1>0 DEF Firings
      <3> HIDE DEF open, a
      <3> QED
        BY <1>0, <2>2, <3>1 DEF Firings, Stages
    <2>6. b \in Firings /\ b.at = "discard" /\ b.fix = firing[f].fix /\ b.left = firing[f].left
      BY <1>0 DEF Firings, Stages, Works
    <2>7. c \in Firings /\ c.at = "discard" /\ c.fix = firing[f].fix /\ c.left = firing[f].left
      BY <1>0, <2>1 DEF Firings, Stages, Works
    <2> HIDE DEF a, b, c
    <2>8. PICK with \in {a, b, c} : /\ Fires(f, with) /\ (with = a => drafts' = drafts \union {new})
                                    /\ drafts' \in {drafts, drafts \union {new}}
      BY <2>4, <2>5, <2>6, <2>7
    <2>9. /\ firing' \in [Firers -> Firings] /\ firing'[f] = with /\ \A g \in Firers \ {f} : firing'[g] = firing[g]
          /\ with = a \/ (with.at = "discard" /\ with.fix = firing[f].fix /\ with.left = firing[f].left)
      BY <2>5, <2>6, <2>7, <2>8, FiresFact
    <2> USE DEF onDisk, onHost, marks
    <2>11. Types'
      BY <2>1, <2>3, <2>5, <2>8, <2>9 DEF Types
    <2>12. HostTypes'
      BY <2>1, <2>3, <2>5, <2>8, <2>9, FS_AddElement DEF HostTypes
    <2>13. FiringTypes'
      <3>1. firing'[f].fix \in 0..made /\ (firing'[f].fix # 0 <=> firing'[f].at \in Works) /\ (firing'[f].at \in Works => firing'[f].left # <<>>)
        BY <2>1, <2>5, <2>9 DEF FiringTypes, Works, Types
      <3> QED
        BY <2>1, <2>9, <3>1 DEF FiringTypes
    <2>14. OneAtWork'
      BY <2>1, <2>3, <2>5, <2>8, <2>9 DEF OneAtWork
    <2>15. OnlyVetted'
      BY <2>1, <2>3, <2>5, <2>8, <2>9 DEF OnlyVetted
    <2>16. Accounted'
      BY <2>1, <2>3, <2>5, <2>8, <2>9 DEF Accounted
    <2> QED
      BY <2>11, <2>12, <2>13, <2>14, <2>15, <2>16
  <1>14. ASSUME NEW f \in Firers, Discard(f) PROVE PInv'
    <2>1. /\ firing[f].at = "discard" /\ firing[f].fix \in Fixes /\ firing[f].left # <<>> /\ firing[f].fix # 0
          /\ \A g \in Firers \ {f} : firing[g].at \in {"off", "mark"} /\ firing[g].fix = 0
      BY <1>0, <1>14 DEF Discard, FiringTypes, Works, OneAtWork
    <2>2. /\ worktrees' = worktrees \ {firing[f].fix} /\ work' = [work EXCEPT ![firing[f].fix] = {}]
          /\ UNCHANGED <<settings, busy, made, fixes, onHost, marks>> /\ Goes(f, "forget")
      BY <1>14 DEF Discard
    <2>3. /\ firing' \in [Firers -> Firings] /\ \A g \in Firers \ {f} : firing'[g] = firing[g]
          /\ firing'[f].at = "forget" /\ firing'[f].fix = firing[f].fix /\ firing'[f].left = firing[f].left
      BY <2>2, GoesFact DEF Stages, Works
    <2> USE DEF onHost, marks
    <2>11. Types'
      BY <2>1, <2>2, <2>3 DEF Types
    <2>12. HostTypes'
      BY <2>1, <2>2, <2>3 DEF HostTypes
    <2>13. FiringTypes'
      BY <2>1, <2>2, <2>3 DEF FiringTypes, Works
    <2>14. OneAtWork'
      BY <2>1, <2>2, <2>3 DEF OneAtWork
    <2>15. OnlyVetted'
      BY <2>1, <2>2, <2>3 DEF OnlyVetted
    <2>16. Accounted'
      BY <2>1, <2>2, <2>3 DEF Accounted
    <2> QED
      BY <2>11, <2>12, <2>13, <2>14, <2>15, <2>16
  <1>15. ASSUME NEW f \in Firers, ForgetFix(f) PROVE PInv'
    <2>1. /\ firing[f].at = "forget" /\ firing[f].fix \in Fixes /\ firing[f].left # <<>> /\ firing[f].fix # 0
          /\ \A g \in Firers \ {f} : firing[g].at \in {"off", "mark"} /\ firing[g].fix = 0
      BY <1>0, <1>15 DEF ForgetFix, FiringTypes, Works, OneAtWork
    <2> DEFINE rest == Tail(firing[f].left)
               with == [firing[f] EXCEPT !.at = "next", !.fix = 0, !.left = rest]
    <2>2. /\ fixes' = fixes \ {firing[f].fix} /\ Fires(f, with)
          /\ UNCHANGED <<settings, busy, made, worktrees, work, onHost, marks>>
      BY <1>15 DEF ForgetFix
    <2>4. rest \in Seq(DOMAIN Projects)
      BY <1>0, <2>1, HeadTailProperties
    <2> HIDE DEF rest
    <2>5. with \in Firings /\ with.at = "next" /\ with.fix = 0
      BY <1>0, <2>4 DEF Firings, Stages
    <2> HIDE DEF with
    <2>3. /\ firing' \in [Firers -> Firings] /\ \A g \in Firers \ {f} : firing'[g] = firing[g]
          /\ firing'[f].at = "next" /\ firing'[f].fix = 0
      BY <2>2, <2>5, FiresFact
    <2> USE DEF onHost, marks
    <2>11. Types'
      BY <2>1, <2>2, <2>3 DEF Types
    <2>12. HostTypes'
      BY <2>1, <2>2, <2>3 DEF HostTypes
    <2>13. FiringTypes'
      <3>1. firing'[f].fix \in 0..made /\ firing'[f].fix = 0 /\ firing'[f].at \notin Works
        BY <2>3 DEF Types, Works
      <3> QED
        BY <2>2, <2>3, <3>1 DEF FiringTypes
    <2>14. OneAtWork'
      BY <2>1, <2>2, <2>3 DEF OneAtWork
    <2>15. OnlyVetted'
      BY <2>1, <2>2, <2>3 DEF OnlyVetted
    <2>16. Accounted'
      BY <2>1, <2>2, <2>3 DEF Accounted
    <2> QED
      BY <2>11, <2>12, <2>13, <2>14, <2>15, <2>16
  <1>16. ASSUME NEW d \in drafts, CloseDraft(d) PROVE PInv'
    <2>1. /\ drafts' = (drafts \ {d}) \union {[d EXCEPT !.open = FALSE]} /\ UNCHANGED <<settings, busy, firing, onDisk, pushed, marks>>
      BY <1>16 DEF CloseDraft
    <2>2. [d EXCEPT !.open = FALSE] \in [fix : Fixes, repo : Repos, open : BOOLEAN] /\ [d EXCEPT !.open = FALSE].fix = d.fix
      BY DEF HostTypes
    <2> USE DEF onDisk, onHost, marks
    <2>11. Types'
      BY <2>1, <2>2 DEF Types
    <2>12. HostTypes'
      BY <2>1, <2>2, FS_AddElement, FS_RemoveElement DEF HostTypes
    <2>13. FiringTypes'
      BY <2>1, <2>2 DEF FiringTypes
    <2>14. OneAtWork'
      BY <2>1, <2>2 DEF OneAtWork
    <2>15. OnlyVetted'
      BY <2>1, <2>2 DEF OnlyVetted
    <2>16. Accounted'
      BY <2>1, <2>2 DEF Accounted
    <2> QED
      BY <2>11, <2>12, <2>13, <2>14, <2>15, <2>16
  <1>17. ASSUME NEW s \in fixes, WriteIn(s) PROVE PInv'
    <2>1. s \in Fixes
      BY DEF Types, Fixes
    <2>2. work' = [work EXCEPT ![s] = @ \union {"person"}] /\ UNCHANGED <<settings, busy, firing, made, fixes, worktrees, onHost, marks>>
      BY <1>17 DEF WriteIn
    <2>3. work' \in [Fixes -> SUBSET {"fine", "refused", "person"}] /\ \A u \in Fixes : "refused" \notin work[u] => "refused" \notin work'[u]
      BY <2>1, <2>2 DEF Types
    <2> USE DEF onHost, marks
    <2>11. Types'
      BY <1>0, <2>2, <2>3 DEF Types
    <2>12. HostTypes'
      BY <1>0, <2>2, <2>3 DEF HostTypes
    <2>13. FiringTypes'
      BY <1>0, <2>2, <2>3 DEF FiringTypes
    <2>14. OneAtWork'
      BY <1>0, <2>2, <2>3 DEF OneAtWork
    <2>15. OnlyVetted'
      BY <1>0, <2>2, <2>3 DEF OnlyVetted, FiringTypes, Works
    <2>16. Accounted'
      BY <1>0, <2>2, <2>3 DEF Accounted
    <2> QED
      BY <2>11, <2>12, <2>13, <2>14, <2>15, <2>16
  <1>18. ASSUME NEW s \in fixes, DeleteFix(s) PROVE PInv'
    <2>1. s \in Fixes
      BY DEF Types, Fixes
    <2>2. /\ work' = [work EXCEPT ![s] = {}] /\ fixes' = fixes \ {s} /\ worktrees' = worktrees \ {s}
          /\ UNCHANGED <<settings, busy, firing, made, onHost, marks>>
      BY <1>18 DEF DeleteFix
    <2>3. work' \in [Fixes -> SUBSET {"fine", "refused", "person"}] /\ \A u \in Fixes : "refused" \notin work[u] => "refused" \notin work'[u]
      BY <2>1, <2>2 DEF Types
    <2> USE DEF onHost, marks
    <2>11. Types'
      BY <1>0, <2>2, <2>3 DEF Types
    <2>12. HostTypes'
      BY <1>0, <2>2, <2>3 DEF HostTypes
    <2>13. FiringTypes'
      BY <1>0, <2>2, <2>3 DEF FiringTypes
    <2>14. OneAtWork'
      BY <1>0, <2>2, <2>3 DEF OneAtWork
    <2>15. OnlyVetted'
      BY <1>0, <2>2, <2>3 DEF OnlyVetted, FiringTypes, Works
    <2>16. Accounted'
      BY <1>0, <2>2, <2>3 DEF Accounted
    <2> QED
      BY <2>11, <2>12, <2>13, <2>14, <2>15, <2>16
  <1>19. CASE GatewayFalls
    <2>1. /\ falls' = falls + 1 /\ left' = left \union ({firing[f].fix : f \in Firers} \ {0}) /\ work' = [s \in Fixes |-> {}]
          /\ busy' = FALSE /\ firing' = [f \in Firers |-> NotFiring]
          /\ UNCHANGED <<settings, made, fixes, worktrees, onHost>>
      BY <1>19 DEF GatewayFalls
    <2>2. \A f \in Firers : firing'[f] = NotFiring
      BY <2>1
    <2>3. 0 \notin fixes \union worktrees
      BY DEF Types
    <2> USE DEF onHost
    <2>11. Types'
      <3>1. work' \in [Fixes -> SUBSET {"fine", "refused", "person"}] /\ falls' \in Nat
        BY <2>1 DEF Types
      <3> QED
        BY <2>1, <3>1 DEF Types
    <2>12. HostTypes'
      BY <2>1, <2>2, <2>3, FiringFacts DEF HostTypes
    <2>13. FiringTypes'
      <3>1. firing' \in [Firers -> Firings]
        BY <2>1, FiringFacts
      <3>2. NotFiring.fix \in 0..made /\ made' = made /\ NotFiring.at \notin Works
        BY <2>1, FiringFacts DEF Types, Works
      <3> QED
        BY <2>2, <3>1, <3>2, FiringFacts DEF FiringTypes
    <2>14. OneAtWork'
      BY <2>1, <2>2, <2>3, FiringFacts DEF OneAtWork
    <2>15. OnlyVetted'
      BY <2>1, <2>2, <2>3, FiringFacts DEF OnlyVetted
    <2>16. Accounted'
      <3>1. \A s \in fixes \union worktrees : (\E f \in Firers : firing[f].fix = s) => s \in left'
        BY <2>1, <2>3
      <3> QED
        BY <2>1, <2>2, <3>1, FiringFacts DEF Accounted
    <2> QED
      BY <2>11, <2>12, <2>13, <2>14, <2>15, <2>16
  <1>20. CASE UNCHANGED autopilotVars
    BY <1>20 DEF autopilotVars, onDisk, onHost, marks, Types, HostTypes, FiringTypes, OneAtWork, OnlyVetted, Accounted
  <1> QED
    BY <1>1, <1>2, <1>3, <1>4, <1>5, <1>6, <1>7, <1>8, <1>9, <1>10, <1>11, <1>12, <1>13, <1>14, <1>15, <1>16, <1>17,
       <1>18, <1>19, <1>20
       DEF AutopilotNext, FixStep

-----------------------------------------------------------------------------

LEMMA PInvAlways == AutopilotSpec => []PInv
  BY PInvInit, PInvStep, PTL DEF AutopilotSpec

\* The settings, the firings and what is on disk and on the host have their types, and the
\* mark is held by the firing at work.
THEOREM AutopilotTypeCorrect == AutopilotSpec => []AutopilotTypeOK
  <1>1. PInv => AutopilotTypeOK
    <2> SUFFICES ASSUME PInv PROVE AutopilotTypeOK
      OBVIOUS
    <2>1. \A f \in Firers : firing[f].targets \subseteq DOMAIN Projects /\ firing[f].counted \subseteq Repos
      BY DEF PInv, FiringTypes, Firings
    <2> QED
      BY <2>1 DEF PInv, Types, FiringTypes, OneAtWork, OnlyVetted, AutopilotTypeOK, Works
  <1> QED
    BY <1>1, PInvAlways, PTL

\* What an agent with nobody to ask did is on the host only once it was vetted.
THEOREM NothingUnvettedIsPushed == AutopilotSpec => []UnaskedIsVetted
  <1>1. PInv => UnaskedIsVetted
    BY DEF PInv, OnlyVetted, UnaskedIsVetted
  <1> QED
    BY <1>1, PInvAlways, PTL

\* An attempt that came to no draft leaves no session, no worktree and no branch on disk.
THEOREM AttemptsCleanUp == AutopilotSpec => []NothingLeftBehind
  <1>1. PInv => NothingLeftBehind
    <2> SUFFICES ASSUME PInv, ~busy, NEW s \in fixes \union worktrees
                 PROVE  s \in left \/ \E d \in drafts : d.fix = s
      BY DEF NothingLeftBehind
    <2>1. \A f \in Firers : firing[f].fix = 0
      BY DEF PInv, OneAtWork, FiringTypes, Works
    <2>2. s # 0
      BY DEF PInv, Types
    <2> QED
      BY <2>1, <2>2 DEF PInv, Accounted
  <1> QED
    BY <1>1, PInvAlways, PTL

-----------------------------------------------------------------------------
(* The limit.                                                               *)

\* The drafts of ds a firing was told of, or told that it opened (LimitIsKept).
KnownOf(ds, now) ==
    {d \in ds : d.open /\ d.repo \in now.counted \ now.unread /\ d.fix \notin now.lost}

\* They are no more than it counted, an attempt is begun only where there is room, and who has
\* not the mark has counted nothing.
Within(ds, now) ==
    /\ Cardinality(KnownOf(ds, now)) <= now.open
    /\ now.at \in Works => now.open < now.limit
    /\ now.at \in {"off", "mark"} => now.counted = {}

LimitInv == \A f \in Firers : Within(drafts, firing[f])

\* A draft that is opened is within the limit: what LimitIsKept says of a step.
OpenedWithin ==
    \A f \in Firers : \A d \in drafts' \ drafts :
      (d.open /\ d.fix = firing[f].fix /\ firing[f].at = "draft") =>
         Cardinality({e \in drafts' : e.open /\ e.repo \in firing[f].counted \ firing[f].unread
                                      /\ e.fix \notin firing'[f].lost}) <= firing[f].limit

\* Fewer drafts than were counted are within what was counted.
LEMMA FewerKnown ==
    ASSUME NEW ds, NEW es, IsFiniteSet(ds), IsFiniteSet(es), NEW now \in Firings, NEW then \in Firings,
           Within(ds, now), KnownOf(es, then) \subseteq KnownOf(ds, now), now.open <= then.open
    PROVE  Cardinality(KnownOf(es, then)) <= then.open
  <1>1. IsFiniteSet(KnownOf(ds, now))
    BY FS_Subset DEF KnownOf
  <1>2. /\ IsFiniteSet(KnownOf(es, then))
        /\ Cardinality(KnownOf(es, then)) <= Cardinality(KnownOf(ds, now))
    BY <1>1, FS_Subset
  <1>3. Cardinality(KnownOf(ds, now)) \in Nat /\ Cardinality(KnownOf(es, then)) \in Nat
    BY <1>1, <1>2, FS_CardinalityType
  <1>4. now.open \in Nat /\ then.open \in Nat /\ Cardinality(KnownOf(ds, now)) <= now.open
    BY DEF Firings, Within
  <1> QED
    BY <1>2, <1>3, <1>4

\* A firing that counted nothing knows of no draft.
LEMMA NothingKnown ==
    ASSUME NEW ds, NEW now \in Firings, now.counted = {}, now.at \notin Works
    PROVE  Within(ds, now)
  <1>1. KnownOf(ds, now) = {}
    BY DEF KnownOf
  <1>2. now.open \in Nat
    BY DEF Firings
  <1> QED
    BY <1>1, <1>2, FS_EmptySet DEF Within

\* A firing that goes on with what it has counted.
LEMMA StaysWithin ==
    ASSUME NEW ds, NEW now \in Firings, NEW then \in Firings, Within(ds, now),
           then.counted = now.counted, then.unread = now.unread, then.lost = now.lost,
           then.open = now.open, then.limit = now.limit,
           then.at \in Works => now.open < now.limit,
           then.at \in {"off", "mark"} => now.counted = {}
    PROVE  Within(ds, then)
  BY DEF Within, KnownOf

\* A step of the firing f, or of nobody, with the drafts as they were.
LEMMA OneFiring ==
    ASSUME PInv, LimitInv, NEW f \in Firers, NEW with \in Firings, Fires(f, with),
           UNCHANGED drafts, Within(drafts, with)
    PROVE  LimitInv'
  <1>1. firing'[f] = with /\ \A g \in Firers \ {f} : firing'[g] = firing[g]
    BY FiresFact
  <1> QED
    BY <1>1 DEF LimitInv

\* No firing is at work when the gateway starts.
LEMMA LimitInit == AutopilotInit => LimitInv
  BY FiringFacts, NothingKnown DEF AutopilotInit, LimitInv, NotFiring, Works

\* The host tells how many drafts of a repository are open, or fails.
LEMMA CountNextKeeps ==
    ASSUME PInv, LimitInv, NEW f \in Firers, CountNext(f)
    PROVE  LimitInv'
  <1> DEFINE now == firing[f] i == Head(now.left) r == Projects[i]
  <1>1. now \in Firings /\ now.at = "count" /\ now.left # <<>> /\ Within(drafts, now) /\ IsFiniteSet(drafts)
    BY DEF PInv, FiringTypes, HostTypes, LimitInv, CountNext
  <1>2. i \in DOMAIN Projects /\ r \in Repos /\ Tail(now.left) \in Seq(DOMAIN Projects)
    <2>1. now.left \in Seq(DOMAIN Projects)
      BY <1>1 DEF Firings
    <2> QED
      BY <1>1, <2>1, HeadTailProperties DEF Repos
  <1>3. UNCHANGED drafts
    BY DEF CountNext, onHost
  <1>4. CASE Fires(f, [now EXCEPT !.left = Tail(@)])
    <2> DEFINE then == [now EXCEPT !.left = Tail(@)]
    <2>1. then \in Firings
      BY <1>1, <1>2 DEF Firings
    <2>2. Within(drafts, then)
      BY <1>1, <2>1, StaysWithin DEF Firings, Works
    <2> QED
      BY <1>3, <1>4, <2>1, <2>2, OneFiring
  <1>5. CASE r \in now.counted /\ Fires(f, [now EXCEPT !.left = Tail(@), !.targets = @ \union {i}])
    <2> DEFINE then == [now EXCEPT !.left = Tail(@), !.targets = @ \union {i}]
    <2>1. then \in Firings
      BY <1>1, <1>2 DEF Firings
    <2>2. Within(drafts, then)
      BY <1>1, <2>1, StaysWithin DEF Firings, Works
    <2> QED
      BY <1>3, <1>5, <2>1, <2>2, OneFiring
  <1>6. CASE r \notin now.counted
             /\ Fires(f, [now EXCEPT !.left = Tail(@), !.targets = @ \union {i}, !.counted = @ \union {r},
                                     !.open = @ + Cardinality(OpenIn(r))])
    <2> DEFINE then == [now EXCEPT !.left = Tail(@), !.targets = @ \union {i}, !.counted = @ \union {r},
                                   !.open = @ + Cardinality(OpenIn(r))]
    <2>1. IsFiniteSet(OpenIn(r)) /\ Cardinality(OpenIn(r)) \in Nat
      BY <1>1, FS_Subset, FS_CardinalityType DEF OpenIn
    <2>2. then \in Firings
      <3>1. PICK n \in Nat : n = now.open + Cardinality(OpenIn(r))
        BY <1>1, <2>1 DEF Firings
      <3>2. then = [now EXCEPT !.left = Tail(@), !.targets = @ \union {i}, !.counted = @ \union {r}, !.open = n]
        BY <3>1
      <3>3. now.targets \union {i} \in SUBSET DOMAIN Projects /\ now.counted \union {r} \in SUBSET Repos
        BY <1>1, <1>2 DEF Firings
      <3> QED
        BY <1>1, <1>2, <3>2, <3>3 DEF Firings
    <2>3. KnownOf(drafts, then) \subseteq KnownOf(drafts, now) \union OpenIn(r)
      BY <1>1 DEF KnownOf, OpenIn, Firings
    <2>4. IsFiniteSet(KnownOf(drafts, now)) /\ Cardinality(KnownOf(drafts, now)) \in Nat
      BY <1>1, FS_Subset, FS_CardinalityType DEF KnownOf
    <2>5. /\ IsFiniteSet(KnownOf(drafts, now) \union OpenIn(r))
          /\ Cardinality(KnownOf(drafts, now) \union OpenIn(r))
               <= Cardinality(KnownOf(drafts, now)) + Cardinality(OpenIn(r))
      <3> DEFINE a == KnownOf(drafts, now) b == OpenIn(r)
      <3> HIDE DEF a, b
      <3>1. IsFiniteSet(a) /\ IsFiniteSet(b) /\ Cardinality(a) \in Nat /\ Cardinality(b) \in Nat
        BY <2>1, <2>4 DEF a, b
      <3>2. IsFiniteSet(a \union b) /\ Cardinality(a \union b) = Cardinality(a) + Cardinality(b) - Cardinality(a \cap b)
        BY <3>1, FS_Union
      <3>3. Cardinality(a \cap b) \in Nat
        BY <3>1, FS_Subset, FS_CardinalityType
      <3>4. IsFiniteSet(a \union b) /\ Cardinality(a \union b) <= Cardinality(a) + Cardinality(b)
        BY <3>1, <3>2, <3>3
      <3> QED
        BY <3>4 DEF a, b
    <2>6. /\ Cardinality(KnownOf(drafts, then)) \in Nat
          /\ Cardinality(KnownOf(drafts, then)) <= Cardinality(KnownOf(drafts, now) \union OpenIn(r))
      BY <2>3, <2>5, FS_Subset, FS_CardinalityType
    <2>7. Cardinality(KnownOf(drafts, now)) <= now.open /\ now.open \in Nat
      BY <1>1 DEF Within, Firings
    <2>8. then.open = now.open + Cardinality(OpenIn(r)) /\ then.at = "count"
      BY <1>1 DEF Firings
    <2>9. Cardinality(KnownOf(drafts, now) \union OpenIn(r)) \in Nat
      BY <2>5, FS_CardinalityType
    <2>10. Cardinality(KnownOf(drafts, then)) <= then.open
      BY <2>1, <2>4, <2>5, <2>6, <2>7, <2>8, <2>9
    <2>11. Within(drafts, then)
      BY <2>8, <2>10 DEF Within, Works
    <2> QED
      BY <1>3, <1>6, <2>2, <2>11, OneFiring
  <1>7. CASE r \notin now.counted
             /\ Fires(f, [now EXCEPT !.left = Tail(@), !.counted = @ \union {r}, !.unread = @ \union {r}])
    <2> DEFINE then == [now EXCEPT !.left = Tail(@), !.counted = @ \union {r}, !.unread = @ \union {r}]
    <2>1. then \in Firings /\ then.open = now.open /\ then.at = "count"
      BY <1>1, <1>2 DEF Firings
    <2>2. KnownOf(drafts, then) \subseteq KnownOf(drafts, now)
      BY <1>1 DEF KnownOf, Firings
    <2>3. now.open <= then.open
      BY <1>1, <2>1 DEF Firings
    <2>4. Cardinality(KnownOf(drafts, then)) <= then.open
      <3> HIDE DEF then, now
      <3> QED
        BY <1>1, <2>1, <2>2, <2>3, FewerKnown
    <2>5. Within(drafts, then)
      BY <2>1, <2>4 DEF Within, Works
    <2> QED
      BY <1>3, <1>7, <2>1, <2>5, OneFiring
  <1> QED
    BY <1>4, <1>5, <1>6, <1>7 DEF CountNext

\* CreatePR: the draft it opened is counted, or is one it was not told of.
LEMMA OpenDraftKeeps ==
    ASSUME PInv, LimitInv, NEW f \in Firers, OpenDraft(f)
    PROVE  /\ LimitInv'
           /\ Cardinality({e \in drafts' : e.open /\ e.repo \in firing[f].counted \ firing[f].unread
                                           /\ e.fix \notin firing'[f].lost}) <= firing[f].limit
  <1> DEFINE now == firing[f] d == Draft(f)
             first == [now EXCEPT !.at = "next", !.fix = 0, !.left = Tail(@), !.open = @ + 1]
             away  == [now EXCEPT !.at = "discard", !.lost = @ \union {now.fix}]
  <1>1. /\ now \in Firings /\ now.at = "draft" /\ now.left # <<>> /\ now.fix \in Fixes
        /\ Within(drafts, now) /\ IsFiniteSet(drafts)
    <2>1. now \in Firings /\ now.at = "draft" /\ now.left # <<>> /\ now.fix # 0
      BY DEF PInv, FiringTypes, OpenDraft, Works
    <2>2. now.fix \in Fixes
      BY <2>1 DEF Firings
    <2> QED
      BY <2>1, <2>2 DEF PInv, HostTypes, LimitInv
  <1>2. now.open \in Nat /\ now.limit \in Nat /\ now.open < now.limit
    <2>1. now.open \in Nat /\ now.limit \in Limits \union {0}
      BY <1>1 DEF Firings
    <2>2. now.limit \in Nat
      <3>1. Limits \subseteq Nat
        BY AutopilotAssumption
      <3>2. CASE now.limit \in Limits
        BY <3>1, <3>2
      <3>3. CASE now.limit = 0
        BY <3>3
      <3>4. now.limit \in Limits \/ now.limit = 0
        BY <2>1
      <3> QED
        BY <3>2, <3>3, <3>4
    <2> QED
      BY <1>1, <2>1, <2>2 DEF Within, Works
  <1>3. \A g \in Firers \ {f} : firing[g] \in Firings /\ firing[g].at \in {"off", "mark"} /\ firing[g].counted = {}
    BY <1>1 DEF PInv, OneAtWork, LimitInv, Within, FiringTypes
  <1>4. /\ IsFiniteSet(KnownOf(drafts, now)) /\ Cardinality(KnownOf(drafts, now)) \in Nat
        /\ Cardinality(KnownOf(drafts, now)) <= now.open
    BY <1>1, FS_Subset, FS_CardinalityType DEF KnownOf, Within
  <1>5. IsFiniteSet(drafts \union {d})
    BY <1>1, FS_AddElement
  <1>6. \A ds : \A g \in Firers \ {f} : Within(ds, firing[g])
    BY <1>3, NothingKnown DEF Works
  <1>7. CASE drafts' = drafts \union {d} /\ Fires(f, first)
    <2>1. first \in Firings
      <3>0. now.left \in Seq(DOMAIN Projects)
        BY <1>1 DEF Firings
      <3>1. Tail(now.left) \in Seq(DOMAIN Projects)
        BY <1>1, <3>0, HeadTailProperties
      <3> QED
        <4>1. PICK n \in Nat : n = now.open + 1
          BY <1>2
        <4>2. first = [now EXCEPT !.at = "next", !.fix = 0, !.left = Tail(@), !.open = n]
          BY <4>1
        <4> QED
          BY <1>1, <3>1, <4>2 DEF Firings, Stages
    <2>2. firing'[f] = first /\ \A g \in Firers \ {f} : firing'[g] = firing[g]
      BY <1>7, <2>1, FiresFact
    <2>3. first.open = now.open + 1 /\ first.at = "next" /\ first.lost = now.lost
          /\ first.counted = now.counted /\ first.unread = now.unread
      BY <1>1 DEF Firings
    <2>4. KnownOf(drafts', first) \subseteq KnownOf(drafts, now) \union {d}
      BY <1>7, <2>3 DEF KnownOf
    <2>5. /\ IsFiniteSet(KnownOf(drafts, now) \union {d})
          /\ Cardinality(KnownOf(drafts, now) \union {d}) \in Nat
          /\ Cardinality(KnownOf(drafts, now) \union {d}) <= now.open + 1
      <3>1. IsFiniteSet(KnownOf(drafts, now) \union {d})
            /\ Cardinality(KnownOf(drafts, now) \union {d}) \in {Cardinality(KnownOf(drafts, now)), Cardinality(KnownOf(drafts, now)) + 1}
        BY <1>4, FS_AddElement
      <3> QED
        BY <1>2, <1>4, <3>1
    <2>6. /\ Cardinality(KnownOf(drafts', first)) \in Nat
          /\ Cardinality(KnownOf(drafts', first)) <= Cardinality(KnownOf(drafts, now) \union {d})
      BY <2>4, <2>5, FS_Subset, FS_CardinalityType
    <2>7. Cardinality(KnownOf(drafts', first)) <= now.open + 1
      BY <1>2, <2>5, <2>6
    <2>8. Within(drafts', first)
      BY <2>3, <2>7 DEF Within, Works
    <2>9. LimitInv'
      BY <1>6, <2>2, <2>8 DEF LimitInv
    <2>10. Cardinality(KnownOf(drafts', first)) <= now.limit
      BY <1>2, <2>6, <2>7
    <2>11. KnownOf(drafts', first) = {e \in drafts' : e.open /\ e.repo \in firing[f].counted \ firing[f].unread
                                                     /\ e.fix \notin firing'[f].lost}
      BY <2>2, <2>3 DEF KnownOf
    <2> QED
      BY <2>9, <2>10, <2>11
  <1>8. ASSUME NEW then \in Firings, Fires(f, then), drafts' \in {drafts, drafts \union {d}},
               then.open = now.open, then.limit = now.limit, then.counted = now.counted, then.unread = now.unread,
               then.at = "discard", now.lost \subseteq then.lost,
               drafts' = drafts \/ d.fix \in then.lost
        PROVE  /\ LimitInv'
               /\ Cardinality({e \in drafts' : e.open /\ e.repo \in firing[f].counted \ firing[f].unread
                                               /\ e.fix \notin firing'[f].lost}) <= firing[f].limit
    <2>1. firing'[f] = then /\ \A g \in Firers \ {f} : firing'[g] = firing[g]
      BY <1>8, FiresFact
    <2>2. KnownOf(drafts', then) \subseteq KnownOf(drafts, now)
      BY <1>8 DEF KnownOf
    <2>3. IsFiniteSet(drafts') /\ now.open <= then.open
      <3>1. IsFiniteSet(drafts')
        BY <1>1, <1>5, <1>8
      <3>2. now.open <= then.open
        BY <1>2, <1>8
      <3> QED
        BY <3>1, <3>2
    <2>4. Cardinality(KnownOf(drafts', then)) <= then.open
      <3> HIDE DEF now
      <3> QED
        BY <1>1, <2>2, <2>3, FewerKnown
    <2>5. Within(drafts', then)
      BY <1>2, <1>8, <2>4 DEF Within, Works
    <2>6. LimitInv'
      BY <1>6, <2>1, <2>5 DEF LimitInv
    <2>7. Cardinality(KnownOf(drafts', then)) \in Nat
      BY <2>2, <1>4, FS_Subset, FS_CardinalityType
    <2>8. Cardinality(KnownOf(drafts', then)) <= now.limit
      BY <1>2, <1>8, <2>4, <2>7
    <2>9. KnownOf(drafts', then) = {e \in drafts' : e.open /\ e.repo \in firing[f].counted \ firing[f].unread
                                                   /\ e.fix \notin firing'[f].lost}
      BY <1>8, <2>1 DEF KnownOf
    <2> QED
      BY <2>6, <2>8, <2>9
  <1>9. CASE UNCHANGED drafts /\ Goes(f, "discard")
    <2> DEFINE then == [now EXCEPT !.at = "discard"]
    <2>1. then \in Firings /\ Fires(f, then)
      BY <1>1, <1>9 DEF Firings, Stages, Works, Goes
    <2>2. /\ then.open = now.open /\ then.limit = now.limit /\ then.counted = now.counted /\ then.unread = now.unread
          /\ then.at = "discard" /\ then.lost = now.lost
      BY <1>1 DEF Firings
    <2> QED
      BY <1>8, <1>9, <2>1, <2>2
  <1>10. CASE drafts' = drafts \union {d} /\ Fires(f, away)
    <2>1. away \in Firings
      BY <1>1 DEF Firings, Stages, Works
    <2>2. /\ away.open = now.open /\ away.limit = now.limit /\ away.counted = now.counted /\ away.unread = now.unread
          /\ away.at = "discard" /\ away.lost = now.lost \union {now.fix}
      BY <1>1 DEF Firings
    <2>3. d.fix = now.fix
      BY DEF Draft
    <2> QED
      BY <1>8, <1>10, <2>1, <2>2, <2>3
  <1> QED
    BY <1>7, <1>9, <1>10 DEF OpenDraft

\* A draft that is closed is no longer one of those that are open.
LEMMA CloseDraftKeeps ==
    ASSUME PInv, LimitInv, NEW d \in drafts, CloseDraft(d)
    PROVE  LimitInv' /\ \A e \in drafts' \ drafts : ~e.open
  <1> DEFINE shut == [d EXCEPT !.open = FALSE]
  <1>1. IsFiniteSet(drafts) /\ d \in [fix : Fixes, repo : Repos, open : BOOLEAN] /\ firing' = firing
        /\ drafts' = (drafts \ {d}) \union {shut}
    BY DEF PInv, HostTypes, CloseDraft
  <1>2. shut.open = FALSE
    BY <1>1
  <1>3. IsFiniteSet(drafts')
    BY <1>1, FS_Subset, FS_AddElement
  <1>4. ASSUME NEW f \in Firers PROVE Within(drafts', firing[f])
    <2>1. firing[f] \in Firings /\ Within(drafts, firing[f]) /\ firing[f].open <= firing[f].open
      BY DEF PInv, FiringTypes, LimitInv, Firings
    <2>2. KnownOf(drafts', firing[f]) \subseteq KnownOf(drafts, firing[f])
      BY <1>1, <1>2 DEF KnownOf
    <2>3. Cardinality(KnownOf(drafts', firing[f])) <= firing[f].open
      BY <1>1, <1>3, <2>1, <2>2, FewerKnown
    <2> QED
      BY <2>1, <2>3 DEF Within
  <1>5. LimitInv'
    BY <1>1, <1>4 DEF LimitInv
  <1>6. \A e \in drafts' \ drafts : ~e.open
    BY <1>1, <1>2
  <1> QED
    BY <1>5, <1>6

\* A step of a firing that counts nothing and opens nothing.
LEMMA PlainStep ==
    ASSUME PInv, LimitInv, NEW f \in Firers,
           \/ (ClockMarks \/ ClockReads) /\ f = "clock"
           \/ (HandReads \/ HandMarks) /\ f = "hand"
           \/ (Counted(f) \/ FiringEnds(f) \/ StartFix(f) \/ FixRuns(f) \/ Vet(f) \/ PushFix(f)
               \/ Discard(f) \/ ForgetFix(f))
    PROVE  LimitInv' /\ UNCHANGED drafts
  <1> DEFINE now == firing[f]
             Same(then) == /\ then.counted = now.counted /\ then.unread = now.unread /\ then.lost = now.lost
                           /\ then.open = now.open /\ then.limit = now.limit
  <1>1. UNCHANGED drafts
    BY DEF ClockMarks, ClockReads, HandReads, HandMarks, Counted, FiringEnds, StartFix, FixRuns, Vet, PushFix, Discard,
           ForgetFix, onHost
  <1> SUFFICES LimitInv'
    BY <1>1
  <1>2. now \in Firings /\ Within(drafts, now) /\ settings.limit \in Limits /\ made \in 0..MaxFixes
    BY DEF PInv, FiringTypes, LimitInv, Types
  <1>3. ASSUME NEW then \in Firings, Fires(f, then), then.counted = {}, then.at \notin Works
        PROVE  LimitInv'
    BY <1>1, <1>3, NothingKnown, OneFiring
  <1>4. Fires(f, NotFiring) => LimitInv'
    BY <1>3, FiringFacts DEF NotFiring, Works
  <1>5. ASSUME NEW limit \in Limits \union {0}, Fires(f, Counting(limit)) PROVE LimitInv'
    <2>1. Counting(limit).counted = {}
      BY DEF Counting, NotFiring
    <2> QED
      BY <1>3, <1>5, <2>1, FiringFacts DEF Works
  <1>6. ASSUME NEW then \in Firings, Fires(f, then), Same(then), then.at \in Works => now.open < now.limit,
               then.at \notin {"off", "mark"}
        PROVE  LimitInv'
    BY <1>1, <1>2, <1>6, StaysWithin, OneFiring
  <1>7. ASSUME NEW at \in Stages \ {"off", "mark"}, Goes(f, at), at \in Works => now.open < now.limit
        PROVE  LimitInv'
    <2> DEFINE then == [now EXCEPT !.at = at]
    <2>1. then \in Firings /\ Same(then) /\ then.at = at /\ Fires(f, then)
      BY <1>2, <1>7 DEF Firings, Goes
    <2> QED
      BY <1>6, <1>7, <2>1
  <1>8. CASE ClockMarks /\ f = "clock"
    BY <1>7, <1>8 DEF ClockMarks, Stages, Works
  <1>9. CASE ClockReads /\ f = "clock"
    BY <1>2, <1>4, <1>5, <1>9 DEF ClockReads
  <1>10. CASE HandReads /\ f = "hand"
    <2> DEFINE then == [NotFiring EXCEPT !.at = "mark", !.limit = settings.limit]
    <2>1. then \in Firings /\ then.counted = {} /\ then.at = "mark"
      BY <1>2, FiringFacts DEF NotFiring, Firings, Stages
    <2> QED
      BY <1>3, <1>10, <2>1 DEF HandReads, Works
  <1>11. CASE HandMarks /\ f = "hand"
    BY <1>2, <1>4, <1>5, <1>11 DEF HandMarks, Firings
  <1>12. CASE Counted(f)
    <2> DEFINE then == [now EXCEPT !.at = "next", !.left = Numbers]
    <2>1. then \in Firings /\ Same(then) /\ then.at = "next"
      BY <1>2, FiringFacts DEF Firings, Stages
    <2> QED
      BY <1>6, <1>12, <2>1 DEF Counted, Works
  <1>13. CASE FiringEnds(f)
    BY <1>4, <1>13 DEF FiringEnds
  <1>14. CASE StartFix(f)
    <2>1. now.at = "next" /\ now.left # <<>> /\ now.open < now.limit
      BY <1>14 DEF StartFix, Room
    <2>2. Tail(now.left) \in Seq(DOMAIN Projects)
      <3>1. now.left \in Seq(DOMAIN Projects)
        BY <1>2 DEF Firings
      <3> QED
        BY <2>1, <3>1, HeadTailProperties
    <2>3. CASE Fires(f, [now EXCEPT !.left = Tail(@)])
      <3> DEFINE then == [now EXCEPT !.left = Tail(@)]
      <3>1. then \in Firings /\ Same(then) /\ then.at = "next"
        BY <1>2, <2>1, <2>2 DEF Firings
      <3> QED
        BY <1>6, <2>3, <3>1 DEF Works
    <2>4. ASSUME NEW has \in BOOLEAN, made < MaxFixes, made' = made + 1,
                 Fires(f, [now EXCEPT !.fix = made', !.at = IF has THEN "run" ELSE "discard"])
          PROVE  LimitInv'
      <3> DEFINE then == [now EXCEPT !.fix = made', !.at = IF has THEN "run" ELSE "discard"]
      <3>1. made' \in Fixes
        BY <1>2, <2>4, AutopilotAssumption DEF Fixes
      <3>2. then \in Firings /\ Same(then) /\ then.at \in {"run", "discard"}
        BY <1>2, <3>1 DEF Firings, Stages, Works
      <3> QED
        BY <1>6, <2>1, <2>4, <3>2
    <2> QED
      BY <1>14, <2>3, <2>4 DEF StartFix
  <1>15. CASE FixRuns(f) \/ Vet(f) \/ PushFix(f) \/ Discard(f)
    <2>1. now.at \in Works
      BY <1>15 DEF FixRuns, Vet, PushFix, Discard, Works
    <2>2. now.open < now.limit
      BY <1>2, <2>1 DEF Within
    <2>3. \E at \in {"vet", "discard", "push", "draft", "forget"} : Goes(f, at)
      BY <1>15 DEF FixRuns, Vet, PushFix, Discard
    <2> QED
      BY <1>7, <2>2, <2>3 DEF Stages, Works
  <1>16. CASE ForgetFix(f)
    <2> DEFINE then == [now EXCEPT !.at = "next", !.fix = 0, !.left = Tail(@)]
    <2>1. now.left # <<>>
      BY <1>16 DEF ForgetFix, PInv, FiringTypes, Works
    <2>2. Tail(now.left) \in Seq(DOMAIN Projects)
      <3>1. now.left \in Seq(DOMAIN Projects)
        BY <1>2 DEF Firings
      <3> QED
        BY <2>1, <3>1, HeadTailProperties
    <2>3. then \in Firings /\ Same(then) /\ then.at = "next"
      BY <1>2, <2>2 DEF Firings, Stages
    <2> QED
      BY <1>6, <1>16, <2>3 DEF ForgetFix, Works
  <1> QED
    BY <1>1, <1>8, <1>9, <1>10, <1>11, <1>12, <1>13, <1>14, <1>15, <1>16

\* Each step keeps the count, and a draft is opened within the limit.
LEMMA LimitStep == PInv /\ LimitInv /\ [AutopilotNext]_autopilotVars => LimitInv' /\ OpenedWithin
  <1> SUFFICES ASSUME PInv, LimitInv, [AutopilotNext]_autopilotVars
               PROVE  LimitInv' /\ OpenedWithin
    OBVIOUS
  <1> USE DEF OpenedWithin
  <1>1. CASE UNCHANGED <<firing, drafts>>
    BY <1>1 DEF LimitInv
  <1>2. CASE GatewayFalls
    <2>1. UNCHANGED drafts /\ \A f \in Firers : firing'[f] = NotFiring
      BY <1>2 DEF GatewayFalls, onHost
    <2>2. NotFiring.counted = {} /\ NotFiring.at \notin Works
      BY DEF NotFiring, Works
    <2> QED
      BY <2>1, <2>2, FiringFacts, NothingKnown DEF LimitInv
  <1>3. ASSUME NEW d \in drafts, CloseDraft(d) PROVE LimitInv' /\ \A e \in drafts' \ drafts : ~e.open
    BY <1>3, CloseDraftKeeps
  <1>4. ASSUME NEW f \in Firers, CountNext(f) PROVE LimitInv' /\ UNCHANGED drafts
    <2>1. UNCHANGED drafts
      BY <1>4 DEF CountNext, onHost
    <2> QED
      BY <1>4, <2>1, CountNextKeeps
  <1>5. ASSUME NEW f \in Firers, OpenDraft(f)
        PROVE  /\ LimitInv'
               /\ \A g \in Firers : firing[g].at = "draft" => g = f
    BY <1>5, OpenDraftKeeps DEF PInv, OneAtWork, OpenDraft
  <1>6. CASE ClockMarks \/ ClockReads \/ HandReads \/ HandMarks
    BY <1>6, PlainStep DEF Firers
  <1>7. ASSUME NEW f \in Firers,
               Counted(f) \/ FiringEnds(f) \/ StartFix(f) \/ FixRuns(f) \/ Vet(f) \/ PushFix(f) \/ Discard(f) \/ ForgetFix(f)
        PROVE  LimitInv' /\ UNCHANGED drafts
    BY <1>7, PlainStep
  <1>8. CASE PutAutopilot \/ (\E s \in fixes : WriteIn(s) \/ DeleteFix(s)) \/ UNCHANGED autopilotVars
    BY <1>1, <1>8 DEF PutAutopilot, WriteIn, DeleteFix, onHost, autopilotVars
  <1>9. CASE \E d \in drafts : CloseDraft(d)
    BY <1>3, <1>9
  <1>10. CASE \E f \in Firers : CountNext(f)
    BY <1>4, <1>10
  <1>11. CASE \E f \in Firers : OpenDraft(f)
    BY <1>5, <1>11, OpenDraftKeeps
  <1>12. CASE \E f \in Firers : Counted(f) \/ FiringEnds(f) \/ StartFix(f) \/ FixRuns(f) \/ Vet(f) \/ PushFix(f)
                               \/ Discard(f) \/ ForgetFix(f)
    BY <1>7, <1>12
  <1> QED
    BY <1>2, <1>6, <1>8, <1>9, <1>10, <1>11, <1>12 DEF AutopilotNext, FixStep

\* No draft is opened while those the firing was told of, or opened, are at the person's limit,
\* however many firings are tried by the clock and by hand (runAutopilot, fixProject).
THEOREM LimitNotExceeded == AutopilotSpec => LimitIsKept
  <1>1. AutopilotSpec => []LimitInv
    BY LimitInit, LimitStep, PInvAlways, PTL DEF AutopilotSpec
  <1>2. PInv /\ LimitInv /\ [AutopilotNext]_autopilotVars => [OpenedWithin]_autopilotVars
    BY LimitStep
  <1> QED
    BY <1>1, <1>2, PInvAlways, PTL DEF AutopilotSpec, LimitIsKept, OpenedWithin

-----------------------------------------------------------------------------
\* The sessions of a project

Taking   == {"stop", "check", "inspect", "release", "forget"}
Placing  == {"join", "place", "name"}
Places   == {"idle", "answered", "new", "promote", "adopt"} \union Placing \union Taking
Removers == {"delete", "project", "prune"}

SessionRecord ==
    [parent : {0} \union Sessions, placed : BOOLEAN, closing : BOOLEAN, running : BOOLEAN, said : BOOLEAN,
     checkout : BOOLEAN, dirty : BOOLEAN]
RequestRecord ==
    [does : Removers \union {"none", "open"}, at : Places, all : SUBSET Sessions, rest : SUBSET Sessions,
     asked : {0} \union Sessions, forced : BOOLEAN, released : BOOLEAN, threads : SUBSET Sessions]

Histories == lost \union reopened \union edited \union orphaned \union stranded
TreeTypes ==
    /\ nested \in BOOLEAN /\ project \in BOOLEAN /\ halfway \in BOOLEAN
    /\ opened \in 0..MaxSessions /\ registry \subseteq 1..opened /\ Histories \subseteq 1..opened
    /\ session \in [Sessions -> SessionRecord] /\ request \in [Askers -> RequestRecord]

\* What is dirty is checked out; a session that is gone has no work, one never opened is as new.
NothingOfTheGone ==
    /\ \A i \in Sessions : session[i].dirty => session[i].checkout
    /\ \A i \in Sessions \ registry : ~session[i].checkout /\ ~session[i].said
    /\ \A i \in Sessions : i > opened => session[i] = NewSession

\* What a request is about was opened; what it does says where it can be.
OfOpened(d) == d.rest \subseteq d.all /\ d.all \union d.threads \subseteq 1..opened
DoesAndAt(d) ==
    /\ d.at \in {"idle", "answered"} <=> d.does = "none"
    /\ d.at \in {"new"} \union Placing <=> d.does = "open"
    /\ d.at \in {"promote", "adopt"} => d.does = "delete"
    /\ d.at = "check" => d.does = "project" /\ ~d.forced
    /\ d.at = "release" => d.asked \in d.rest
    /\ d.does \in {"delete", "prune"} \/ d.at \in Placing => d.all = {Oldest(d.all)}
    /\ d.does = "prune" => d.at # "stop"
    /\ d.does \in {"none", "open"} => d.rest = {}
\* A checkout is given back before another is looked at only by the deletion of a project.
GaveBack(d) ==
    d.released => d.at \notin {"stop", "check"} /\ (d.does = "project" \/ d.at \notin {"inspect", "release"})

\* A session some request takes away is closing, and its turn stopped, unless another removal reopened it.
StaysClosing(i) == i \in reopened \/ i \notin registry \/ session[i].closing
Still(i)        == i \in reopened \/ i \notin registry \/ ~session[i].running
KeptClosing(d) ==
    d.at \in Taking => /\ \A i \in d.all : StaysClosing(i)
                       /\ \A i \in IF d.at = "stop" THEN d.all \ d.rest ELSE d.all : Still(i)

\* What was looked at holds no work since, other than what somebody wrote.
Clean(i) == i \in reopened \union edited \/ ~session[i].dirty
LookedAt(d) ==
    ~d.forced =>
      /\ d.at = "release" => Clean(d.asked)
      /\ d.at = "check" => \A i \in d.all \ d.rest : Clean(i)
      /\ d.does = "project" /\ d.at \in {"inspect", "release"} => \A i \in d.all : Clean(i)

\* A deletion that looks for threads has forgotten their main session; those it did not list are orphans.
Adopting(d) ==
    /\ d.at \in {"promote", "adopt"} => d.all \intersect registry = {}
    /\ d.at = "adopt" => \A i \in registry : session[i].parent \in d.all => i \in d.threads \union orphaned
\* The deletion of a project has listed all of its sessions but those that came since.
Listed(d) == d.does = "project" => InProject \subseteq d.all \union stranded
Unused(d) == d.does = "prune" => \A i \in d.all : session[i].said => i \in reopened
\* A session is in no project, and has no checkout, until the request that opens it says so.
NotYetPlaced(d) ==
    d.at \in Placing => \A i \in d.all : ~session[i].placed /\ (d.at # "name" => ~session[i].checkout)

Fits(d) ==
    /\ OfOpened(d) /\ DoesAndAt(d) /\ GaveBack(d) /\ KeptClosing(d) /\ LookedAt(d) /\ Adopting(d) /\ Listed(d)
    /\ Unused(d) /\ NotYetPlaced(d)
OnePlaces ==
    \A r, q \in Askers : request[r].at \in Placing /\ request[q].at \in Placing /\ r # q =>
      request[r].all \intersect request[q].all = {}

TreeInv ==
    /\ TreeTypes /\ NothingOfTheGone /\ (\A r \in Askers : Fits(request[r])) /\ OnePlaces
    /\ MainIsThere /\ NoneLeftBehind /\ WorkIsKept /\ AllOrNothing

\* The oldest of some sessions is one of them.
LEMMA OldestIsOne ==
    ASSUME NEW s \in SUBSET Sessions, s # {}
    PROVE  Oldest(s) \in s
<1>1. s \subseteq Nat
    BY TreeAssumption DEF Sessions
<1>2. PICK i \in s : \A k \in s : ~(<<k, i>> \in OpToRel(<, Nat))
    BY <1>1, NatLessThanWellFounded, WFMin
<1>3. \A k \in s : i <= k
  <2>1. ASSUME NEW k \in s, k < i PROVE FALSE
    <3>1. <<k, i>> \in Nat \X Nat /\ <<k, i>>[1] < <<k, i>>[2]
        BY <1>1, <2>1
    <3> QED BY <1>2, <3>1 DEF OpToRel
  <2> QED BY <1>1, <2>1
<1> QED BY <1>3 DEF Oldest

\* The oldest of one is that one.
LEMMA OldestOfOne == ASSUME NEW i \in Sessions PROVE Oldest({i}) = i
BY OldestIsOne

\* A handler that was asked nothing, and a session that was just opened.
LEMMA RequestFacts ==
    /\ NoRequest \in RequestRecord /\ NoRequest.at = "idle" /\ NoRequest.does = "none" /\ NoRequest.all = {} /\ NoRequest.rest = {}
       /\ ~NoRequest.released /\ ~NoRequest.forced /\ NoRequest.threads = {}
    /\ NewSession \in SessionRecord /\ NewSession.parent = 0 /\ ~NewSession.placed /\ ~NewSession.closing /\ ~NewSession.running
       /\ ~NewSession.said /\ ~NewSession.checkout /\ ~NewSession.dirty
<1>1. NoRequest \in RequestRecord
    BY DEF NoRequest, RequestRecord, Places, Placing, Taking, Removers
<1>2. NewSession \in SessionRecord
    BY DEF NewSession, SessionRecord
<1> QED BY <1>1, <1>2 DEF NoRequest, NewSession

\* A handler that has answered takes nothing away any more.
LEMMA DoneIs ==
    LET d == [NoRequest EXCEPT !.at = "answered"] IN
    /\ d \in RequestRecord /\ d.at = "answered" /\ d.does = "none" /\ d.all = {} /\ d.rest = {} /\ ~d.released /\ ~d.forced
    /\ d.threads = {}
BY RequestFacts DEF RequestRecord, Places

\* Whatever the sessions are, a handler that does nothing fits them.
LEMMA AnsweredFits ==
    ASSUME NEW d \in RequestRecord, d.at \in {"idle", "answered"}, d.does = "none", d.all = {}, d.rest = {}, ~d.released, d.threads = {}
    PROVE  Fits(d)
BY DEF Fits, OfOpened, DoesAndAt, GaveBack, KeptClosing, LookedAt, Adopting, Listed, Unused, NotYetPlaced, Placing,
   Taking

\* A step of one request alone.
LEMMA RequestStep ==
    ASSUME TreeInv, NEW r \in Askers, NEW d \in RequestRecord, Fits(d), request' = [request EXCEPT ![r] = d],
           UNCHANGED <<nested, project, opened, registry, session, histories>>,
           d.at \in Placing => request[r].at \in Placing /\ d.all = request[r].all,
           request[r].at \in {"promote", "adopt"} =>
             \/ d.at \in {"promote", "adopt"} /\ d.all = request[r].all
             \/ \A i \in registry : session[i].parent \notin request[r].all
    PROVE  TreeInv'
<1> USE DEF TreeInv, histories
<1>1. \A q \in Askers : request'[q] = IF q = r THEN d ELSE request[q]
    BY DEF TreeTypes
<1>2. TreeTypes' /\ NothingOfTheGone'
    BY DEF TreeTypes, Histories, NothingOfTheGone
<1>3. \A q \in Askers : Fits(request[q])'
  <2> SUFFICES ASSUME NEW q \in Askers PROVE Fits(request[q])'
    OBVIOUS
  <2>1. PICK e \in RequestRecord : e = request'[q] /\ Fits(e)
    BY <1>1 DEF TreeTypes
  <2>2. Fits(e)'
    BY <2>1 DEF Fits, OfOpened, DoesAndAt, GaveBack, KeptClosing, StaysClosing, Still, LookedAt, Clean, Adopting,
       Listed,
                InProject, Unused, NotYetPlaced
  <2> QED
      BY <2>1, <2>2 DEF Fits, OfOpened, DoesAndAt, GaveBack, KeptClosing, LookedAt, Adopting, Listed, Unused,
         NotYetPlaced
<1>4. OnePlaces'
    BY <1>1 DEF OnePlaces
<1>5. MainIsThere'
    BY <1>1 DEF MainIsThere
<1>6. NoneLeftBehind' /\ WorkIsKept' /\ AllOrNothing'
    BY DEF NoneLeftBehind, InProject, WorkIsKept, AllOrNothing
<1> QED BY <1>2, <1>3, <1>4, <1>5, <1>6

\* What is known of a record is known of the request that holds it.
LEMMA FitsOf ==
    ASSUME NEW q \in Askers, NEW e, request'[q] = e, Fits(e)'
    PROVE  Fits(request[q])'
BY DEF Fits, OfOpened, DoesAndAt, GaveBack, KeptClosing, LookedAt, Adopting, Listed, Unused, NotYetPlaced

\* A session that was asked for is nobody's yet.
LEMMA AskForSessionKeeps ==
    ASSUME TreeInv, NEW r \in Askers, NEW asked \in registry \union {0}, AskForSession(r, asked) PROVE TreeInv'
<1> DEFINE d == [NoRequest EXCEPT !.does = "open", !.at = "new", !.asked = asked]
<1>1. asked \in {0} \union Sessions
    BY TreeAssumption DEF TreeInv, TreeTypes, Sessions
<1>2. d \in RequestRecord /\ d.does = "open" /\ d.at = "new" /\ d.all = {} /\ d.rest = {} /\ ~d.released /\ ~d.forced /\ d.threads = {}
    BY <1>1, RequestFacts DEF RequestRecord, Places, Removers
<1>3. request' = [request EXCEPT ![r] = d] /\ UNCHANGED <<nested, project, opened, registry, session, histories>>
      /\ request[r].at = "idle"
    BY DEF AskForSession
<1> HIDE DEF d
<1>4. Fits(d)
    BY <1>2 DEF Fits, OfOpened, DoesAndAt, GaveBack, KeptClosing, LookedAt, Adopting, Listed, Unused, NotYetPlaced,
       Placing, Taking
<1> QED BY <1>2, <1>3, <1>4, RequestStep DEF Placing

\* threadParent finds a session, or none.
LEMMA MainOfIs == ASSUME TreeInv, NEW i PROVE MainOf(i) \in {0} \union Sessions
<1>1. CASE i \notin InProject
    BY <1>1 DEF MainOf
<1>2. CASE i \in InProject
  <2>1. i \in Sessions
    BY <1>2, TreeAssumption DEF InProject, TreeInv, TreeTypes, Sessions
  <2>2. session[i].parent \in {0} \union Sessions
    BY <2>1 DEF TreeInv, TreeTypes, SessionRecord
  <2> QED BY <1>2, <2>1, <2>2 DEF MainOf
<1> QED BY <1>1, <1>2

\* Nothing of the sessions changes while the parent of a new one is looked for.
LEMMA FindParentKeeps == ASSUME TreeInv, NEW r \in Askers, FindParent(r) PROVE TreeInv'
<1> DEFINE p == MainOf(request[r].asked)
           d == [request[r] EXCEPT !.at = "place", !.asked = p]
<1>1. request[r] \in RequestRecord /\ Fits(request[r]) /\ request[r].at = "join" /\ p \in {0} \union Sessions
  <2>1. request[r] \in RequestRecord /\ Fits(request[r]) /\ request[r].at = "join"
    BY DEF FindParent, TreeInv, TreeTypes
  <2>2. p \in {0} \union Sessions
    BY MainOfIs
  <2> QED BY <2>1, <2>2
<1>2. request' = [request EXCEPT ![r] = d] /\ UNCHANGED <<nested, project, opened, registry, session, histories>>
    BY <1>1 DEF FindParent, TreeInv, TreeTypes
<1> HIDE DEF p
<1>3. /\ d \in RequestRecord /\ d.at = "place" /\ d.does = request[r].does /\ d.all = request[r].all /\ d.rest = request[r].rest
      /\ d.released = request[r].released /\ d.forced = request[r].forced /\ d.threads = request[r].threads
    BY <1>1 DEF RequestRecord, Places, Placing
<1> HIDE DEF d
<1>4. Fits(d)
    BY <1>1, <1>3 DEF Fits, OfOpened, DoesAndAt, GaveBack, KeptClosing, LookedAt, Adopting, Listed, Unused,
       NotYetPlaced, Placing, Taking
<1> QED BY <1>1, <1>2, <1>3, <1>4, RequestStep DEF Placing

\* What a handler that takes sessions away goes through.
LEMMA TakingFacts ==
    ASSUME TreeInv, NEW r \in Askers
    PROVE  /\ request[r] \in RequestRecord /\ Fits(request[r])
           /\ request[r].at \in Taking => request[r].does \in Removers /\ RemovedBy(r) = request[r].all
           /\ request[r].all \subseteq Sessions /\ request[r].rest \subseteq request[r].all
BY DEF TreeInv, TreeTypes, Fits, DoesAndAt, OfOpened, RequestRecord, Taking, Placing, Removers, RemovedBy

\* releaseWorktree has looked: there is no work in the checkout, or its loss was confirmed.
LEMMA InspectedKeeps ==
    ASSUME TreeInv, NEW r \in Askers, request[r].at = "inspect", NEW i \in request[r].rest, ~Refuses(r, i),
           request' = [request EXCEPT ![r] = IF session[i].checkout THEN [request[r] EXCEPT !.at = "release", !.asked = i]
                                                                    ELSE NextOf(r, i, "inspect", "forget")],
           UNCHANGED <<nested, project, opened, registry, session, histories>>
    PROVE  TreeInv'
<1>1. request[r] \in RequestRecord /\ Fits(request[r]) /\ i \in Sessions
    BY TakingFacts
<1>2. request[r].forced \/ Clean(i)
    BY <1>1 DEF Refuses, Unsafe, Clean, TreeInv, NothingOfTheGone
<1>3. CASE session[i].checkout
  <2> DEFINE d == [request[r] EXCEPT !.at = "release", !.asked = i]
  <2>1. /\ d \in RequestRecord /\ d.at = "release" /\ d.asked = i /\ d.does = request[r].does /\ d.all = request[r].all
        /\ d.rest = request[r].rest /\ d.released = request[r].released /\ d.forced = request[r].forced
        /\ d.threads = request[r].threads
    BY <1>1 DEF RequestRecord, Places, Taking
  <2>2. request' = [request EXCEPT ![r] = d]
    BY <1>3
  <2> HIDE DEF d
  <2>3. Fits(d)
    BY <1>1, <1>2, <2>1 DEF Fits, OfOpened, DoesAndAt, GaveBack, KeptClosing, LookedAt, Adopting, Listed, Unused,
       NotYetPlaced, Placing, Taking
  <2> QED BY <2>1, <2>2, <2>3, RequestStep DEF Placing
<1>4. CASE ~session[i].checkout
  <2> DEFINE d == NextOf(r, i, "inspect", "forget")
  <2>1. /\ d \in RequestRecord /\ d.does = request[r].does /\ d.all = request[r].all /\ d.forced = request[r].forced
        /\ d.released = request[r].released /\ d.threads = request[r].threads /\ d.rest \subseteq d.all
        /\ d.at \in {"inspect", "forget"}
    <3>1. {"inspect", "forget"} \subseteq Places /\ request[r].rest \subseteq request[r].all
        BY <1>1 DEF Places, Taking, Fits, OfOpened
    <3>2. "inspect" \in Places /\ "forget" \in Places
        BY <3>1
    <3> QED BY <1>1, <3>1, <3>2 DEF NextOf, RequestRecord
  <2>2. request' = [request EXCEPT ![r] = d]
    BY <1>4
  <2> HIDE DEF d
  <2>3. Fits(d)
    BY <1>1, <2>1 DEF Fits, OfOpened, DoesAndAt, GaveBack, KeptClosing, LookedAt, Adopting, Listed, Unused,
       NotYetPlaced, Placing, Taking
  <2> QED BY <2>1, <2>2, <2>3, RequestStep DEF Placing
<1> QED BY <1>3, <1>4

\* refuseAnyUnsafeRelease has looked at one more, and gives nothing back before it has looked at all.
LEMMA CheckedKeeps ==
    ASSUME TreeInv, NEW r \in Askers, request[r].at = "check", NEW i, i \in NextUp(r), ~Unsafe(i),
           request' = [request EXCEPT ![r] = NextOf(r, i, "check", "inspect")],
           UNCHANGED <<nested, project, opened, registry, session, histories>>
    PROVE  TreeInv'
<1> DEFINE d == NextOf(r, i, "check", "inspect")
<1>1. request[r] \in RequestRecord /\ Fits(request[r])
    BY TakingFacts
<1>2. i \in request[r].rest /\ i \in Sessions
    BY TakingFacts, OldestIsOne DEF NextUp, NoSession
<1>3. Clean(i)
    BY <1>2 DEF Unsafe, Clean, TreeInv, NothingOfTheGone
<1>4. /\ d \in RequestRecord /\ d.does = request[r].does /\ d.all = request[r].all /\ d.forced = request[r].forced
      /\ d.released = request[r].released /\ d.threads = request[r].threads
      /\ \/ d.at = "check" /\ d.rest = request[r].rest \ {i}
         \/ d.at = "inspect" /\ d.rest = request[r].all /\ request[r].rest \ {i} = {}
  <2>1. "check" \in Places /\ "inspect" \in Places
    BY DEF Places, Taking
  <2> QED BY <1>1, <2>1 DEF NextOf, RequestRecord
<1> HIDE DEF d
<1>5. Fits(d)
    BY <1>1, <1>3, <1>4 DEF Fits, OfOpened, DoesAndAt, GaveBack, KeptClosing, LookedAt, Adopting, Listed, Unused,
       NotYetPlaced, Placing, Taking
<1> QED BY <1>4, <1>5, RequestStep DEF d, Placing

\* A project without sessions has no turn to stop.
LEMMA NothingToStopKeeps ==
    ASSUME TreeInv, NEW r \in Askers, request[r].at = "stop", NoSession(r), Skips(r, "forget"),
           UNCHANGED <<nested, project, opened, registry, session, histories>>
    PROVE  TreeInv'
<1> DEFINE d == [request[r] EXCEPT !.at = "forget"]
<1>1. request[r] \in RequestRecord /\ Fits(request[r]) /\ request[r].rest = {}
    BY TakingFacts DEF NoSession
<1>2. /\ d \in RequestRecord /\ d.at = "forget" /\ d.does = request[r].does /\ d.all = request[r].all
      /\ d.rest = request[r].rest /\ d.released = request[r].released /\ d.forced = request[r].forced
      /\ d.threads = request[r].threads
    BY <1>1 DEF RequestRecord, Places, Taking
<1>3. request' = [request EXCEPT ![r] = d]
    BY <1>1 DEF Skips, TreeInv, TreeTypes
<1> HIDE DEF d
<1>4. Fits(d)
    BY <1>1, <1>2 DEF Fits, OfOpened, DoesAndAt, GaveBack, KeptClosing, LookedAt, Adopting, Listed, Unused,
       NotYetPlaced, Placing, Taking
<1> QED BY <1>2, <1>3, <1>4, RequestStep DEF Placing

\* promoteThreads lists the threads there are: those that come later are orphans.
LEMMA ListThreadsKeeps == ASSUME TreeInv, NEW r \in Askers, ListThreads(r) PROVE TreeInv'
<1> DEFINE kids == Threads(Oldest(request[r].all))
<1>1. request[r] \in RequestRecord /\ Fits(request[r]) /\ request[r].at = "promote"
      /\ UNCHANGED <<nested, project, opened, registry, session, histories>>
    BY TakingFacts DEF ListThreads, StepOfRemoval, histories
<1>2. request[r].all = {Oldest(request[r].all)} /\ request[r].does = "delete"
    BY <1>1 DEF Fits, DoesAndAt
<1>3. kids = {i \in registry : session[i].parent \in request[r].all} /\ kids \subseteq 1..opened /\ kids \subseteq Sessions
  <2>1. PICK x : x = Oldest(request[r].all)
    OBVIOUS
  <2>2. kids = {i \in registry : session[i].parent = x} /\ request[r].all = {x}
    BY <1>2, <2>1 DEF Threads
  <2>3. registry \subseteq 1..opened /\ registry \subseteq Sessions
    BY TreeAssumption DEF TreeInv, TreeTypes, Sessions
  <2> HIDE DEF kids
  <2> QED BY <2>2, <2>3
<1>4. CASE kids = {}
  <2>1. request' = [request EXCEPT ![r] = [NoRequest EXCEPT !.at = "answered"]]
    BY <1>4 DEF ListThreads, Done
  <2> QED BY <1>1, <1>3, <1>4, <2>1, DoneIs, AnsweredFits, RequestStep DEF Placing
<1>5. CASE kids # {}
  <2> DEFINE d == [request[r] EXCEPT !.at = "adopt", !.threads = kids]
  <2>1. request' = [request EXCEPT ![r] = d]
    BY <1>1, <1>5 DEF ListThreads, TreeInv, TreeTypes
  <2> HIDE DEF kids
  <2>2. /\ d \in RequestRecord /\ d.at = "adopt" /\ d.does = request[r].does /\ d.all = request[r].all
        /\ d.rest = request[r].rest /\ d.released = request[r].released /\ d.forced = request[r].forced /\ d.threads = kids
    BY <1>1, <1>3 DEF RequestRecord, Places
  <2> HIDE DEF d
  <2>3. Fits(d)
    BY <1>1, <1>2, <1>3, <2>2 DEF Fits, OfOpened, DoesAndAt, GaveBack, KeptClosing, LookedAt, Adopting, Listed, Unused,
       NotYetPlaced, Placing, Taking
  <2> QED BY <1>1, <2>1, <2>2, <2>3, RequestStep DEF Placing
<1> QED BY <1>4, <1>5

\* A turn, or somebody with an editor: a session that is closing gets neither a turn nor work.
LEMMA CalmStep ==
    ASSUME TreeInv, NEW i \in registry, NEW s \in SessionRecord, session' = [session EXCEPT ![i] = s],
           s.parent = session[i].parent, s.placed = session[i].placed, s.closing = session[i].closing,
           s.checkout = session[i].checkout, s.dirty => s.checkout,
           s.running => session[i].running \/ ~session[i].closing,
           s.said => session[i].said \/ (session[i].placed /\ ~session[i].closing),
           s.dirty => session[i].dirty \/ session[i].running \/ ~session[i].closing \/ i \in edited',
           edited' \in {edited, edited \union {i}},
           UNCHANGED <<nested, project, opened, registry, request, lost, reopened, orphaned, stranded, halfway>>
    PROVE  TreeInv'
<1>1. i \in Sessions /\ registry \subseteq Sessions /\ registry \subseteq 1..opened /\ opened \in Nat
    BY TreeAssumption DEF TreeInv, TreeTypes, Sessions
<1>2. \A j \in Sessions : session'[j] = IF j = i THEN s ELSE session[j]
    BY DEF TreeInv, TreeTypes
<1>3. TreeTypes' /\ NothingOfTheGone'
    BY <1>1, <1>2 DEF TreeInv, TreeTypes, Histories, NothingOfTheGone
<1>4. InProject' = InProject
    BY <1>1, <1>2 DEF InProject
<1>5. ASSUME NEW q \in Askers, NEW d \in RequestRecord, Fits(d), d.at \in Taking => d.does \in Removers
      PROVE  Fits(d)'
  <2>1. d.all \subseteq Sessions
    BY DEF RequestRecord
  <2>2. OfOpened(d)' /\ DoesAndAt(d)' /\ GaveBack(d)'
    BY <1>5 DEF Fits, OfOpened, DoesAndAt, GaveBack
  <2>3. KeptClosing(d)'
    BY <1>2, <1>5, <2>1 DEF Fits, KeptClosing, StaysClosing, Still
  <2>4. LookedAt(d)'
    BY <1>1, <1>2, <1>5, <2>1 DEF Fits, OfOpened, DoesAndAt, GaveBack, KeptClosing, LookedAt, Adopting, Listed, Unused,
       NotYetPlaced, Placing, Taking, StaysClosing, Still, Clean, InProject, RequestRecord
  <2>5. Adopting(d)' /\ Listed(d)'
    BY <1>1, <1>2, <1>4, <1>5 DEF Fits, Adopting, Listed
  <2>6. Unused(d)' /\ NotYetPlaced(d)'
    BY <1>2, <1>5, <2>1 DEF Fits, DoesAndAt, Placing, Places, Taking, RequestRecord, KeptClosing, StaysClosing, Unused,
       NotYetPlaced
  <2> QED BY <2>2, <2>3, <2>4, <2>5, <2>6 DEF Fits
<1>6. \A q \in Askers : Fits(request[q])'
    BY <1>5, TakingFacts, FitsOf
<1>7. OnePlaces' /\ MainIsThere'
    BY <1>1, <1>2 DEF TreeInv, OnePlaces, MainIsThere
<1>8. NoneLeftBehind' /\ WorkIsKept' /\ AllOrNothing'
    BY <1>4 DEF TreeInv, NoneLeftBehind, WorkIsKept, AllOrNothing
<1> QED BY <1>3, <1>6, <1>7, <1>8 DEF TreeInv

\* A session that is closing gets no turn.
LEMMA StartTurnKeeps == ASSUME TreeInv, NEW i \in registry, StartTurn(i) PROVE TreeInv'
<1> DEFINE s == [session[i] EXCEPT !.running = TRUE, !.said = TRUE]
<1>1. i \in Sessions /\ session[i] \in SessionRecord /\ session \in [Sessions -> SessionRecord]
    BY TreeAssumption DEF TreeInv, TreeTypes, Sessions
<1>2. session' = [session EXCEPT ![i] = s]
    BY <1>1 DEF StartTurn
<1>3. /\ s \in SessionRecord /\ s.parent = session[i].parent /\ s.placed = session[i].placed /\ s.closing = session[i].closing
      /\ s.checkout = session[i].checkout /\ s.dirty = session[i].dirty
    BY <1>1 DEF SessionRecord
<1>4. session[i].placed /\ ~session[i].closing /\ (session[i].dirty => session[i].checkout)
    BY <1>1 DEF StartTurn, InProject, TreeInv, NothingOfTheGone
<1> HIDE DEF s
<1> QED BY <1>2, <1>3, <1>4, CalmStep DEF StartTurn, StepOfSession

\* A turn that ends takes nothing away.
LEMMA EndTurnKeeps == ASSUME TreeInv, NEW i \in registry, EndTurn(i) PROVE TreeInv'
<1> DEFINE s == [session[i] EXCEPT !.running = FALSE]
<1>1. i \in Sessions /\ session[i] \in SessionRecord /\ session \in [Sessions -> SessionRecord]
    BY TreeAssumption DEF TreeInv, TreeTypes, Sessions
<1>2. session' = [session EXCEPT ![i] = s]
    BY <1>1 DEF EndTurn
<1>3. /\ s \in SessionRecord /\ s.parent = session[i].parent /\ s.placed = session[i].placed /\ s.closing = session[i].closing
      /\ s.checkout = session[i].checkout /\ s.dirty = session[i].dirty /\ s.said = session[i].said /\ ~s.running
    BY <1>1 DEF SessionRecord
<1>4. session[i].dirty => session[i].checkout
    BY <1>1 DEF TreeInv, NothingOfTheGone
<1> HIDE DEF s
<1> QED BY <1>2, <1>3, <1>4, CalmStep DEF EndTurn, StepOfSession

\* A turn of a session that is not closing works in its checkout.
LEMMA WorkKeeps == ASSUME TreeInv, NEW i \in registry, Work(i) PROVE TreeInv'
<1> DEFINE s == [session[i] EXCEPT !.dirty = ~@]
<1>1. i \in Sessions /\ session[i] \in SessionRecord /\ session \in [Sessions -> SessionRecord]
    BY TreeAssumption DEF TreeInv, TreeTypes, Sessions
<1>2. session' = [session EXCEPT ![i] = s]
    BY <1>1 DEF Work
<1>3. /\ s \in SessionRecord /\ s.parent = session[i].parent /\ s.placed = session[i].placed /\ s.closing = session[i].closing
      /\ s.checkout = session[i].checkout /\ s.said = session[i].said /\ s.running = session[i].running
    BY <1>1 DEF SessionRecord
<1>4. session[i].running /\ session[i].checkout
    BY DEF Work
<1> HIDE DEF s
<1> QED BY <1>2, <1>3, <1>4, CalmStep DEF Work, StepOfSession

\* What somebody else writes in a closing session's checkout is remembered.
LEMMA EditKeeps == ASSUME TreeInv, NEW i \in registry, Edit(i) PROVE TreeInv'
<1> DEFINE s == [session[i] EXCEPT !.dirty = TRUE]
<1>1. i \in Sessions /\ session[i] \in SessionRecord /\ session \in [Sessions -> SessionRecord]
    BY TreeAssumption DEF TreeInv, TreeTypes, Sessions
<1>2. session' = [session EXCEPT ![i] = s]
    BY <1>1 DEF Edit
<1>3. /\ s \in SessionRecord /\ s.parent = session[i].parent /\ s.placed = session[i].placed /\ s.closing = session[i].closing
      /\ s.checkout = session[i].checkout /\ s.said = session[i].said /\ s.running = session[i].running
    BY <1>1 DEF SessionRecord
<1>4. session[i].checkout /\ (~session[i].closing \/ i \in edited') /\ edited' \in {edited, edited \union {i}}
    BY DEF Edit
<1> HIDE DEF s
<1> QED BY <1>2, <1>3, <1>4, CalmStep DEF Edit, StepOfSession

\* What a request knows of its sessions outlives the steps of the others.
LEMMA OthersKeep ==
    ASSUME TreeInv, NEW d \in RequestRecord, Fits(d), d.at \in Taking => d.does \in Removers,
           opened' \in Nat, opened <= opened', \A j \in registry' : j \in 1..opened => j \in registry,
           reopened \subseteq reopened', edited \subseteq edited', orphaned \subseteq orphaned', stranded \subseteq stranded',
           \A j \in d.all :
             /\ session'[j].dirty => session[j].dirty
             /\ session'[j].said => session[j].said
             /\ session'[j].running => session[j].running
             /\ d.at \in Taking => j \in reopened' \/ j \notin registry' \/ (session[j].closing => session'[j].closing)
             /\ d.at \in Placing => (session'[j].placed => session[j].placed) /\ (session'[j].checkout => session[j].checkout),
           d.does = "project" => InProject' \subseteq InProject \union stranded',
           d.at = "adopt" =>
             \A j \in registry' : session'[j].parent \in d.all => j \in orphaned' \/ (j \in registry /\ session[j].parent \in d.all)
    PROVE  Fits(d)'
<1>1. d.all \subseteq 1..opened /\ opened \in Nat
    BY DEF Fits, OfOpened, TreeInv, TreeTypes
<1>2. OfOpened(d)' /\ DoesAndAt(d)' /\ GaveBack(d)'
    BY <1>1 DEF Fits, OfOpened, DoesAndAt, GaveBack
<1>3. \A j \in d.all : (j \in registry' => j \in registry) /\ (j \in reopened => j \in reopened')
    BY <1>1
<1>4. KeptClosing(d)'
    BY <1>3 DEF Fits, KeptClosing, StaysClosing, Still
<1>5. LookedAt(d)'
  <2>1. d.at = "release" => d.asked \in d.all
    BY DEF Fits, OfOpened, DoesAndAt
  <2>2. \A j \in d.all : Clean(j) => (j \in reopened' \union edited' \/ ~session'[j].dirty)
    BY DEF Clean
  <2> QED BY <2>1, <2>2 DEF Fits, LookedAt, Clean
<1>6. Adopting(d)'
    BY <1>3 DEF Fits, Adopting
<1>7. Listed(d)'
    BY DEF Fits, Listed
<1>8. Unused(d)' /\ NotYetPlaced(d)'
    BY <1>3 DEF Fits, Unused, NotYetPlaced
<1> QED BY <1>2, <1>4, <1>5, <1>6, <1>7, <1>8 DEF Fits

\* The request that asked for a removal marks what it takes away as closing, before anything else.
LEMMA BegunKeeps ==
    ASSUME TreeInv, NEW r \in Askers, NEW what \in Removers, NEW s \in SUBSET registry, NEW place \in {"stop", "inspect"},
           NEW forced \in BOOLEAN, request[r].at = "idle", Closing(s),
           request' = [request EXCEPT ![r] = Removing(what, s, place, forced)],
           UNCHANGED <<nested, project, opened, registry, histories>>,
           what = "project" => place = "stop" /\ s = InProject, what # "project" => \E i \in s : s = {i},
           what = "prune" <=> place = "inspect", what = "prune" => \A i \in s : ~session[i].running /\ ~session[i].said
    PROVE  TreeInv'
<1> DEFINE d == Removing(what, s, place, forced)
<1>1. registry \subseteq Sessions /\ registry \subseteq 1..opened /\ opened \in Nat
    BY TreeAssumption DEF TreeInv, TreeTypes, Sessions
<1>2. /\ d \in RequestRecord /\ d.does = what /\ d.at = place /\ d.all = s /\ d.rest = s /\ d.forced = forced
      /\ ~d.released /\ d.threads = {}
  <2>1. s \in SUBSET Sessions /\ place \in Taking
    BY <1>1 DEF Taking
  <2> QED BY <2>1, RequestFacts DEF RequestRecord, Places, Removing
<1>3. request' \in [Askers -> RequestRecord] /\ \A q \in Askers : request'[q] = IF q = r THEN d ELSE request[q]
  <2>1. request \in [Askers -> RequestRecord] /\ request' = [request EXCEPT ![r] = d]
    BY DEF TreeInv, TreeTypes
  <2> HIDE DEF d
  <2> QED BY <1>2, <2>1
<1> HIDE DEF d
<1>4. \A j \in Sessions :
        /\ session'[j] \in SessionRecord /\ session'[j].parent = session[j].parent /\ session'[j].placed = session[j].placed
        /\ session'[j].closing = (j \in s \/ session[j].closing) /\ session'[j].running = session[j].running
        /\ session'[j].said = session[j].said /\ session'[j].checkout = session[j].checkout
        /\ session'[j].dirty = session[j].dirty /\ (j \notin s => session'[j] = session[j])
  <2> TAKE j \in Sessions
  <2>1. session'[j] = (IF j \in s THEN [session[j] EXCEPT !.closing = TRUE] ELSE session[j]) /\ session[j] \in SessionRecord
    BY DEF Closing, TreeInv, TreeTypes
  <2>2. CASE j \in s
    BY <2>1, <2>2 DEF SessionRecord
  <2>3. CASE j \notin s
    BY <2>1, <2>3 DEF SessionRecord
  <2> QED BY <2>2, <2>3
<1>5. TreeTypes' /\ NothingOfTheGone'
  <2>1. session' \in [Sessions -> SessionRecord]
    BY <1>4 DEF Closing
  <2>2. \A i \in Sessions : i > opened => i \notin s
    BY <1>1
  <2> QED BY <1>3, <1>4, <2>1, <2>2 DEF TreeInv, TreeTypes, Histories, histories, NothingOfTheGone
<1>6. InProject' = InProject
    BY <1>1, <1>4 DEF InProject
<1>7. Fits(d)'
  <2>1. \A i \in s : s = {i} => Oldest(s) = i
    BY <1>1, OldestOfOne
  <2>2. OfOpened(d)' /\ DoesAndAt(d)' /\ GaveBack(d)'
    BY <1>1, <1>2, <2>1 DEF OfOpened, DoesAndAt, GaveBack, Placing, Removers
  <2>3. KeptClosing(d)'
    BY <1>1, <1>2, <1>4 DEF KeptClosing, StaysClosing, Still, Removers
  <2>4. LookedAt(d)' /\ Adopting(d)' /\ NotYetPlaced(d)'
    BY <1>2 DEF LookedAt, Adopting, NotYetPlaced, Placing
  <2>5. Listed(d)' /\ Unused(d)'
    BY <1>1, <1>2, <1>4, <1>6 DEF Listed, Unused
  <2> QED BY <2>2, <2>3, <2>4, <2>5 DEF Fits
<1>8. ASSUME NEW d0 \in RequestRecord, Fits(d0), d0.at \in Taking => d0.does \in Removers PROVE Fits(d0)'
  <2>1. d0.all \subseteq Sessions
    BY DEF RequestRecord
  <2>2. \A j \in d0.all :
          /\ session'[j].dirty = session[j].dirty /\ session'[j].said = session[j].said
          /\ session'[j].running = session[j].running /\ (session[j].closing => session'[j].closing)
          /\ session'[j].placed = session[j].placed /\ session'[j].checkout = session[j].checkout
    BY <1>4, <2>1
  <2>3. \A j \in registry : session'[j].parent = session[j].parent
    BY <1>1, <1>4
  <2>4. UNCHANGED <<opened, registry, reopened, edited, orphaned, stranded>>
    BY DEF histories
  <2> QED BY <1>1, <1>6, <1>8, <2>2, <2>3, <2>4, OthersKeep
<1>9. \A q \in Askers : Fits(request[q])'
  <2> TAKE q \in Askers
  <2>1. CASE q = r
    BY <1>3, <1>7, <2>1, FitsOf
  <2>2. CASE q # r
    BY <1>3, <1>8, <2>2, TakingFacts, FitsOf
  <2> QED BY <2>1, <2>2
<1>10. OnePlaces' /\ MainIsThere'
  <2>1. OnePlaces'
    BY <1>2, <1>3 DEF TreeInv, OnePlaces, Placing
  <2>2. \A i \in registry : session'[i].parent = session[i].parent
    BY <1>1, <1>4
  <2>3. \A q \in Askers : request[q].at \in {"promote", "adopt"} => request'[q] = request[q]
    BY <1>3
  <2> QED BY <2>1, <2>2, <2>3 DEF TreeInv, MainIsThere, histories
<1>11. NoneLeftBehind' /\ WorkIsKept' /\ AllOrNothing'
    BY <1>6 DEF TreeInv, NoneLeftBehind, WorkIsKept, AllOrNothing, histories
<1> QED BY <1>5, <1>9, <1>10, <1>11 DEF TreeInv

\* The session is closing before anything of it is looked at.
LEMMA DeleteSessionKeeps ==
    ASSUME TreeInv, NEW r \in Askers, NEW i \in registry, NEW forced \in BOOLEAN, DeleteSession(r, i, forced)
    PROVE  TreeInv'
BY BegunKeeps DEF DeleteSession, BeginRemoval, StepOfRemoval, Removers, histories

\* All of a project's sessions are closing, and what comes later is stranded.
LEMMA DeleteProjectKeeps ==
    ASSUME TreeInv, NEW r \in Askers, NEW forced \in BOOLEAN, DeleteProject(r, forced) PROVE TreeInv'
<1>1. InProject \in SUBSET registry
    BY DEF InProject
<1> QED BY <1>1, BegunKeeps DEF DeleteProject, BeginRemoval, StepOfRemoval, Removers, histories

\* Only a session without a message or a turn is pruned.
LEMMA PruneKeeps == ASSUME TreeInv, NEW r \in Askers, NEW i \in registry, Prune(r, i) PROVE TreeInv'
BY BegunKeeps DEF Prune, Kept, StepOfRemoval, Removers, histories

\* A refused removal reopens its sessions: nothing of them went, and what another one takes away is known.
LEMMA RefuseKeeps ==
    ASSUME TreeInv, NEW r \in Askers, request[r].at \in Taking, Refuse(r),
           request[r].released => edited \union reopened # {}
    PROVE  TreeInv'
<1> DEFINE s == request[r].all
           d == [NoRequest EXCEPT !.at = "answered"]
<1>1. registry \subseteq Sessions /\ registry \subseteq 1..opened /\ opened \in Nat /\ s \subseteq 1..opened /\ s \subseteq Sessions
    BY TakingFacts, TreeAssumption DEF TreeInv, TreeTypes, Sessions, Fits, OfOpened
<1>2. d \in RequestRecord /\ d.at = "answered" /\ d.does = "none" /\ d.all = {} /\ d.rest = {} /\ ~d.released /\ d.threads = {}
    BY DoneIs
<1>3. \A q \in Askers : request'[q] = IF q = r THEN d ELSE request[q]
    BY DEF Refuse, Done, TreeInv, TreeTypes
<1>4. request' \in [Askers -> RequestRecord]
    BY <1>2 DEF Refuse, Done, TreeInv, TreeTypes
<1>5. /\ UNCHANGED <<nested, project, opened, registry, lost, edited, orphaned, stranded>>
      /\ reopened' = reopened \union {i \in s : \E q \in Askers \ {r} : i \in RemovedBy(q)}
      /\ halfway' = (halfway \/ request[r].released)
    BY DEF Refuse, StepOfRemoval
<1>6. /\ \A j \in Sessions :
          /\ session'[j] \in SessionRecord /\ session'[j].parent = session[j].parent /\ session'[j].placed = session[j].placed
          /\ session'[j].closing = (j \notin s /\ session[j].closing) /\ session'[j].running = session[j].running
          /\ session'[j].said = session[j].said /\ session'[j].checkout = session[j].checkout
          /\ session'[j].dirty = session[j].dirty /\ (j \notin s => session'[j] = session[j])
      /\ session' \in [Sessions -> SessionRecord]
  <2>1. session' = [i \in Sessions |-> IF i \in s THEN [session[i] EXCEPT !.closing = FALSE] ELSE session[i]]
    BY DEF Refuse
  <2>2. ASSUME NEW j \in Sessions
        PROVE  /\ session'[j] \in SessionRecord /\ session'[j].parent = session[j].parent /\ session'[j].placed = session[j].placed
               /\ session'[j].closing = (j \notin s /\ session[j].closing) /\ session'[j].running = session[j].running
               /\ session'[j].said = session[j].said /\ session'[j].checkout = session[j].checkout
               /\ session'[j].dirty = session[j].dirty /\ (j \notin s => session'[j] = session[j])
    <3>1. session'[j] = (IF j \in s THEN [session[j] EXCEPT !.closing = FALSE] ELSE session[j]) /\ session[j] \in SessionRecord
        BY <2>1 DEF TreeInv, TreeTypes
    <3> HIDE DEF s
    <3>2. CASE j \in s
        BY <3>1, <3>2 DEF SessionRecord
    <3>3. CASE j \notin s
        BY <3>1, <3>3 DEF SessionRecord
    <3> QED BY <3>2, <3>3
  <2>3. session' \in [Sessions -> SessionRecord]
    BY <2>1, <2>2
  <2> QED BY <2>2, <2>3
<1>7. /\ reopened' \subseteq 1..opened /\ reopened \subseteq reopened'
      /\ \A q \in Askers \ {r} : \A j \in s : j \in RemovedBy(q) => j \in reopened'
    BY <1>1, <1>5 DEF TreeInv, TreeTypes, Histories
<1> HIDE DEF s, d
<1>8. TreeTypes' /\ NothingOfTheGone'
  <2>1. \A i \in Sessions : i > opened => i \notin s
    BY <1>1
  <2>2. halfway' \in BOOLEAN
    BY <1>5, TakingFacts DEF RequestRecord, TreeInv, TreeTypes
  <2> QED BY <1>4, <1>5, <1>6, <1>7, <2>1, <2>2 DEF TreeInv, TreeTypes, Histories, NothingOfTheGone
<1>9. InProject' = InProject
    BY <1>1, <1>5, <1>6 DEF InProject
<1>10. ASSUME NEW d0 \in RequestRecord, Fits(d0), d0.at \in Taking => d0.does \in Removers,
              d0.at \in Taking => \A j \in s \intersect d0.all : j \in reopened'
       PROVE  Fits(d0)'
  <2>1. d0.all \subseteq Sessions
    BY DEF RequestRecord
  <2>2. \A j \in d0.all :
          /\ session'[j].dirty = session[j].dirty /\ session'[j].said = session[j].said
          /\ session'[j].running = session[j].running
          /\ j \notin s => session'[j].closing = session[j].closing
          /\ session'[j].placed = session[j].placed /\ session'[j].checkout = session[j].checkout
    BY <1>6, <2>1
  <2>3. d0.at \in Taking => \A j \in d0.all : j \in reopened' \/ (session[j].closing => session'[j].closing)
    BY <1>10, <2>2
  <2>4. \A j \in registry : session'[j].parent = session[j].parent
    BY <1>1, <1>6
  <2> QED BY <1>1, <1>5, <1>7, <1>9, <1>10, <2>2, <2>3, <2>4, OthersKeep
<1>11. \A q \in Askers : Fits(request[q])'
  <2> TAKE q \in Askers
  <2>1. CASE q = r
    <3>1. Fits(d)'
        BY <1>2 DEF Fits, OfOpened, DoesAndAt, GaveBack, KeptClosing, LookedAt, Adopting, Listed, Unused, NotYetPlaced,
           Placing, Taking
    <3> QED BY <1>3, <2>1, <3>1, FitsOf
  <2>2. CASE q # r
    <3>1. request[q].at \in Taking => \A j \in s \intersect request[q].all : j \in reopened'
        BY <1>7, <2>2, TakingFacts
    <3> QED BY <1>3, <1>10, <2>2, <3>1, TakingFacts, FitsOf
  <2> QED BY <2>1, <2>2
<1>12. OnePlaces' /\ MainIsThere'
    BY <1>1, <1>2, <1>3, <1>5, <1>6 DEF TreeInv, OnePlaces, MainIsThere, Placing, Taking
<1>13. NoneLeftBehind' /\ WorkIsKept' /\ AllOrNothing'
    BY <1>5, <1>7, <1>9 DEF TreeInv, NoneLeftBehind, WorkIsKept, AllOrNothing
<1> QED BY <1>8, <1>11, <1>12, <1>13 DEF TreeInv

\* A new session is registered last, in no project: nobody knows of it but the request that opens it.
LEMMA RegisterKeeps == ASSUME TreeInv, NEW r \in Askers, Register(r) PROVE TreeInv'
<1> PICK n : n = opened + 1
    OBVIOUS
<1> PICK d : d = [request[r] EXCEPT !.at = "join", !.all = {n}]
    OBVIOUS
<1>1. /\ opened \in Nat /\ n \in Sessions /\ registry \subseteq 1..opened /\ registry \subseteq Sessions /\ opened' = n
      /\ registry' = registry \union {n} /\ opened' \in 0..MaxSessions
      /\ UNCHANGED <<nested, project, session, lost, reopened, edited, orphaned, stranded, halfway>>
  <2>1. opened \in Nat /\ registry \subseteq 1..opened /\ opened < MaxSessions
    BY TreeAssumption DEF Register, TreeInv, TreeTypes
  <2> QED BY <2>1, TreeAssumption DEF Register, Sessions, histories
<1>2. request[r] \in RequestRecord /\ Fits(request[r]) /\ request[r].at = "new" /\ request[r].does = "open"
    BY TakingFacts DEF Register, Fits, DoesAndAt
<1>3. /\ d \in RequestRecord /\ d.at = "join" /\ d.does = "open" /\ d.all = {n} /\ d.rest = {} /\ d.released = request[r].released
      /\ d.threads = request[r].threads
  <2>1. request[r].rest = {}
    BY <1>2 DEF Fits, DoesAndAt
  <2> QED BY <1>1, <1>2, <2>1 DEF RequestRecord, Places, Placing
<1>4. request' \in [Askers -> RequestRecord] /\ \A q \in Askers : request'[q] = IF q = r THEN d ELSE request[q]
  <2>1. request \in [Askers -> RequestRecord] /\ request' = [request EXCEPT ![r] = d]
    BY <1>2 DEF TreeInv, TreeTypes, Register
  <2> QED BY <1>3, <2>1
<1>5. session[n] = NewSession /\ n \notin 1..opened /\ 1..opened \subseteq 1..n
    BY <1>1 DEF TreeInv, NothingOfTheGone
<1>6. TreeTypes' /\ NothingOfTheGone'
  <2>1. TreeTypes'
    BY <1>1, <1>4, <1>5 DEF TreeInv, TreeTypes, Histories
  <2>2. \A i \in Sessions : (i > opened' => i > opened) /\ (i \notin registry' => i \notin registry)
    BY <1>1 DEF Sessions
  <2>3. session' = session /\ NothingOfTheGone
    BY <1>1 DEF TreeInv
  <2> QED BY <2>1, <2>2, <2>3 DEF NothingOfTheGone
<1>7. InProject' = InProject
    BY <1>1, <1>5, RequestFacts DEF InProject
<1>8. ASSUME NEW d0 \in RequestRecord, Fits(d0), d0.at \in Taking => d0.does \in Removers PROVE Fits(d0)'
  <2>1. d0.all \subseteq 1..opened /\ 0 \notin d0.all
    BY <1>1, <1>8 DEF Fits, OfOpened
  <2>2. session'[n].parent \notin d0.all
    BY <1>1, <1>5, <2>1, RequestFacts
  <2> QED BY <1>1, <1>7, <1>8, <2>1, <2>2, OthersKeep
<1>9. Fits(d)'
  <2>1. Oldest({n}) = n
    BY <1>1, OldestOfOne
  <2>2. OfOpened(d)'
    BY <1>1, <1>2, <1>3, <1>5 DEF OfOpened, Fits
  <2>3. DoesAndAt(d)' /\ GaveBack(d)'
    BY <1>3, <2>1 DEF DoesAndAt, GaveBack, Placing
  <2>4. KeptClosing(d)' /\ LookedAt(d)' /\ Adopting(d)' /\ Listed(d)' /\ Unused(d)'
    BY <1>3 DEF KeptClosing, LookedAt, Adopting, Listed, Unused, Taking
  <2>5. NotYetPlaced(d)'
    BY <1>1, <1>3, <1>5, RequestFacts DEF NotYetPlaced
  <2> QED BY <2>2, <2>3, <2>4, <2>5 DEF Fits
<1>10. \A q \in Askers : Fits(request[q])'
  <2> TAKE q \in Askers
  <2>1. CASE q = r
    BY <1>4, <1>9, <2>1, FitsOf
  <2>2. CASE q # r
    BY <1>4, <1>8, <2>2, TakingFacts, FitsOf
  <2> QED BY <2>1, <2>2
<1>11. OnePlaces'
  <2>1. \A q \in Askers : q # r => n \notin request'[q].all
    BY <1>4, <1>5, TakingFacts DEF Fits, OfOpened
  <2>2. request'[r].all = {n}
    BY <1>3, <1>4
  <2>3. \A q, k \in Askers : q # k /\ (q = r \/ k = r) => request'[q].all \intersect request'[k].all = {}
    BY <2>1, <2>2
  <2>4. \A q, k \in Askers : q # r /\ k # r => request'[q] = request[q] /\ request'[k] = request[k]
    BY <1>4
  <2> QED BY <2>3, <2>4 DEF TreeInv, OnePlaces
<1>12. MainIsThere'
  <2>1. \A q \in Askers : request[q].at \in {"promote", "adopt"} => request'[q] = request[q]
    BY <1>2, <1>4
  <2>2. session'[n].parent = 0
    BY <1>1, <1>5, RequestFacts
  <2> QED BY <1>1, <2>1, <2>2 DEF TreeInv, MainIsThere
<1>13. NoneLeftBehind' /\ WorkIsKept' /\ AllOrNothing'
    BY <1>1, <1>7 DEF TreeInv, NoneLeftBehind, WorkIsKept, AllOrNothing
<1> QED BY <1>6, <1>10, <1>11, <1>12, <1>13 DEF TreeInv

\* What a request that opens a session is about.
LEMMA PlacingFacts ==
    ASSUME TreeInv, NEW r \in Askers, request[r].at \in Placing, NEW i, i = Oldest(request[r].all)
    PROVE  /\ request[r].does = "open" /\ request[r].all = {i} /\ request[r].rest = {} /\ i \in 1..opened /\ i \in Sessions
           /\ ~session[i].placed /\ (request[r].at # "name" => ~session[i].checkout)
           /\ \A q \in Askers \ {r} : request[q].at \in Placing => i \notin request[q].all
<1>1. request[r] \in RequestRecord /\ Fits(request[r]) /\ request[r].all \subseteq Sessions
    BY TakingFacts
<1>2. request[r].does = "open" /\ request[r].all = {i} /\ request[r].rest = {}
    BY <1>1 DEF Fits, DoesAndAt
<1>3. i \in Sessions /\ i \in 1..opened
    BY <1>1, <1>2 DEF Fits, OfOpened
<1>4. ~session[i].placed /\ (request[r].at # "name" => ~session[i].checkout)
    BY <1>1, <1>2 DEF Fits, NotYetPlaced
<1>5. ASSUME NEW q \in Askers \ {r}, request[q].at \in Placing PROVE i \notin request[q].all
  <2>1. request[r].all \intersect request[q].all = {}
    BY <1>5 DEF TreeInv, OnePlaces
  <2> QED BY <1>2, <2>1
<1> QED BY <1>2, <1>3, <1>4, <1>5

\* A thread whose main session went while it was being placed is an orphan.
LEMMA MakeCheckoutKeeps == ASSUME TreeInv, NEW r \in Askers, MakeCheckout(r) PROVE TreeInv'
<1> PICK i : i = Oldest(request[r].all)
    OBVIOUS
<1> PICK p : p = request[r].asked
    OBVIOUS
<1> PICK d : d = [request[r] EXCEPT !.at = "name"]
    OBVIOUS
<1>1. /\ request[r] \in RequestRecord /\ Fits(request[r]) /\ request[r].at = "place" /\ p \in {0} \union Sessions
      /\ request[r].does = "open" /\ request[r].all = {i} /\ request[r].rest = {} /\ i \in 1..opened /\ i \in Sessions
      /\ ~session[i].placed /\ ~session[i].checkout
      /\ \A q \in Askers \ {r} : request[q].at \in Placing => i \notin request[q].all
  <2>1. request[r] \in RequestRecord /\ Fits(request[r]) /\ request[r].at = "place"
    BY TakingFacts DEF MakeCheckout
  <2>2. p \in {0} \union Sessions
    BY <2>1 DEF RequestRecord
  <2> QED BY <2>1, <2>2, PlacingFacts DEF Placing
<1>2. /\ UNCHANGED <<nested, project, opened, registry, lost, reopened, edited, stranded, halfway>>
      /\ orphaned' = IF p # 0 /\ p \notin registry THEN orphaned \union {i} ELSE orphaned
      /\ registry \subseteq 1..opened /\ registry \subseteq Sessions /\ opened \in Nat
    BY TreeAssumption DEF MakeCheckout, TreeInv, TreeTypes, Sessions
<1>3. PICK c \in BOOLEAN :
        session' = IF i \notin registry THEN session ELSE [session EXCEPT ![i].parent = p, ![i].checkout = c]
    BY DEF MakeCheckout
<1>4. /\ d \in RequestRecord /\ d.at = "name" /\ d.does = request[r].does /\ d.all = {i} /\ d.rest = {}
      /\ d.released = request[r].released /\ d.forced = request[r].forced /\ d.threads = request[r].threads
    BY <1>1 DEF RequestRecord, Places, Placing
<1>5. request' \in [Askers -> RequestRecord] /\ \A q \in Askers : request'[q] = IF q = r THEN d ELSE request[q]
  <2>1. request \in [Askers -> RequestRecord] /\ request' = [request EXCEPT ![r] = d]
    BY <1>1 DEF TreeInv, TreeTypes, MakeCheckout, To
  <2> QED BY <1>4, <2>1
<1>6. /\ session' \in [Sessions -> SessionRecord]
      /\ \A j \in Sessions :
           /\ session'[j].placed = session[j].placed /\ session'[j].closing = session[j].closing
           /\ session'[j].running = session[j].running /\ session'[j].said = session[j].said
           /\ session'[j].dirty = session[j].dirty /\ (j # i \/ i \notin registry => session'[j] = session[j])
      /\ i \in registry => session'[i].parent = p
  <2>1. session \in [Sessions -> SessionRecord]
    BY DEF TreeInv, TreeTypes
  <2>2. CASE i \notin registry
    BY <1>3, <2>1, <2>2
  <2>3. CASE i \in registry
    <3> DEFINE s == [session[i] EXCEPT !.parent = p, !.checkout = c]
    <3>1. session' = [session EXCEPT ![i] = s]
        BY <1>1, <1>3, <2>1, <2>3
    <3>2. session[i] \in SessionRecord
        BY <1>1, <2>1
    <3>3. /\ s \in SessionRecord /\ s.placed = session[i].placed /\ s.closing = session[i].closing /\ s.running = session[i].running
          /\ s.said = session[i].said /\ s.dirty = session[i].dirty /\ s.parent = p
        BY <1>1, <3>2 DEF SessionRecord
    <3> HIDE DEF s
    <3>4. session' \in [Sessions -> SessionRecord] /\ session'[i] = s /\ \A j \in Sessions : j # i => session'[j] = session[j]
        BY <1>1, <2>1, <3>1, <3>3
    <3> QED BY <2>3, <3>3, <3>4
  <2> QED BY <2>2, <2>3
<1>7. TreeTypes' /\ NothingOfTheGone'
  <2>1. TreeTypes'
    BY <1>1, <1>2, <1>5, <1>6 DEF TreeInv, TreeTypes, Histories
  <2>2. ~session[i].dirty
    BY <1>1 DEF TreeInv, NothingOfTheGone
  <2>3. \A j \in Sessions : j # i => session'[j] = session[j]
    BY <1>6
  <2>4. ~session'[i].dirty /\ ~(i > opened) /\ (i \notin registry => session'[i] = session[i])
    <3>1. session'[i].dirty = session[i].dirty /\ (i \notin registry => session'[i] = session[i])
        BY <1>1, <1>6
    <3>2. ~(i > opened)
        BY <1>1, <1>2
    <3> QED BY <1>2, <2>2, <3>1, <3>2
  <2>5. NothingOfTheGone'
    BY <1>2, <2>3, <2>4 DEF TreeInv, NothingOfTheGone
  <2> QED BY <2>1, <2>5
<1>8. InProject' = InProject
    BY <1>2, <1>6 DEF InProject
<1>9. orphaned \subseteq orphaned' /\ (p \in registry \union {0} \/ i \in orphaned')
    BY <1>2
<1>10. ASSUME NEW d0 \in RequestRecord, Fits(d0), d0.at \in Taking => d0.does \in Removers, d0.at \in Placing => i \notin d0.all
       PROVE  Fits(d0)'
  <2>1. d0.all \subseteq Sessions /\ 0 \notin d0.all /\ d0.all \subseteq 1..opened
    BY <1>2, <1>10 DEF Fits, OfOpened, RequestRecord
  <2>2. \A j \in d0.all :
          /\ session'[j].dirty = session[j].dirty /\ session'[j].said = session[j].said
          /\ session'[j].running = session[j].running /\ session'[j].closing = session[j].closing
          /\ session'[j].placed = session[j].placed /\ (d0.at \in Placing => session'[j].checkout = session[j].checkout)
    BY <1>6, <1>10, <2>1
  <2>3. d0.at = "adopt" => \A j \in registry : session'[j].parent \in d0.all => j \in orphaned' \/ session[j].parent \in d0.all
    <3> SUFFICES ASSUME d0.at = "adopt", NEW j \in registry, session'[j].parent \in d0.all
                 PROVE  j \in orphaned' \/ session[j].parent \in d0.all
        OBVIOUS
    <3>1. CASE j # i
        BY <1>2, <1>6, <3>1
    <3>2. CASE j = i
      <4>1. p \in d0.all
        BY <1>6, <3>2
      <4>2. p \notin registry
        BY <1>10, <4>1 DEF Fits, Adopting
      <4> QED BY <1>9, <2>1, <3>2, <4>1, <4>2
    <3> QED BY <3>1, <3>2
  <2> QED BY <1>2, <1>8, <1>9, <1>10, <2>2, <2>3, OthersKeep
<1>11. \A q \in Askers : Fits(request[q])'
  <2> TAKE q \in Askers
  <2>1. CASE q = r
    <3>1. session'[i].placed = FALSE /\ Oldest({i}) = i
        BY <1>1, <1>6, OldestOfOne DEF SessionRecord
    <3>2. Fits(d)'
        BY <1>1, <1>2, <1>4, <3>1 DEF Fits, OfOpened, DoesAndAt, GaveBack, KeptClosing, LookedAt, Adopting, Listed,
           Unused, NotYetPlaced, Placing, Taking
    <3> QED BY <1>5, <2>1, <3>2, FitsOf
  <2>2. CASE q # r
    BY <1>1, <1>5, <1>10, <2>2, TakingFacts, FitsOf
  <2> QED BY <2>1, <2>2
<1>12. OnePlaces'
  <2>1. \A q \in Askers : request'[q].all = request[q].all /\ (request'[q].at \in Placing => request[q].at \in Placing)
    BY <1>1, <1>4, <1>5 DEF Placing
  <2> QED BY <2>1 DEF TreeInv, OnePlaces
<1>13. MainIsThere'
  <2>1. \A q \in Askers : request[q].at \in {"promote", "adopt"} => request'[q] = request[q]
    BY <1>1, <1>5
  <2>2. \A j \in registry : j # i => session'[j].parent = session[j].parent
    BY <1>2, <1>6
  <2> QED BY <1>2, <1>6, <1>9, <2>1, <2>2 DEF TreeInv, MainIsThere
<1>14. NoneLeftBehind' /\ WorkIsKept' /\ AllOrNothing'
    BY <1>2, <1>8 DEF TreeInv, NoneLeftBehind, WorkIsKept, AllOrNothing
<1> QED BY <1>7, <1>11, <1>12, <1>13, <1>14 DEF TreeInv

\* A session that is placed in a project being deleted is stranded.
LEMMA PlaceInProjectKeeps == ASSUME TreeInv, NEW r \in Askers, PlaceInProject(r) PROVE TreeInv'
<1> PICK i : i = Oldest(request[r].all)
    OBVIOUS
<1> DEFINE d == [NoRequest EXCEPT !.at = "answered"]
<1>1. /\ request[r].at = "name" /\ request[r].does = "open" /\ i \in 1..opened /\ i \in Sessions
      /\ \A q \in Askers \ {r} : request[q].at \in Placing => i \notin request[q].all
    BY PlacingFacts DEF PlaceInProject, Placing
<1>2. /\ UNCHANGED <<nested, project, opened, registry, lost, reopened, edited, orphaned, halfway>>
      /\ stranded' = IF ~project \/ \E q \in Askers : request[q].does = "project" THEN stranded \union {i} ELSE stranded
      /\ registry \subseteq 1..opened /\ registry \subseteq Sessions /\ opened \in Nat
    BY TreeAssumption DEF PlaceInProject, TreeInv, TreeTypes, Sessions
<1>3. d \in RequestRecord /\ d.at = "answered" /\ d.does = "none" /\ d.all = {} /\ d.rest = {} /\ ~d.released /\ d.threads = {}
    BY DoneIs
<1>4. request' \in [Askers -> RequestRecord] /\ \A q \in Askers : request'[q] = IF q = r THEN d ELSE request[q]
  <2>1. request \in [Askers -> RequestRecord] /\ request' = [request EXCEPT ![r] = d]
    BY DEF TreeInv, TreeTypes, PlaceInProject, Done
  <2> HIDE DEF d
  <2> QED BY <1>3, <2>1
<1> HIDE DEF d
<1>5. /\ session' \in [Sessions -> SessionRecord]
      /\ \A j \in Sessions :
           /\ session'[j].parent = session[j].parent /\ session'[j].closing = session[j].closing
           /\ session'[j].running = session[j].running /\ session'[j].said = session[j].said
           /\ session'[j].dirty = session[j].dirty /\ session'[j].checkout = session[j].checkout
           /\ (j # i \/ i \notin registry => session'[j] = session[j])
  <2>1. session \in [Sessions -> SessionRecord]
    BY DEF TreeInv, TreeTypes
  <2>2. session' = IF i \notin registry THEN session ELSE [session EXCEPT ![i].placed = TRUE]
    BY DEF PlaceInProject
  <2>3. CASE i \notin registry
    BY <2>1, <2>2, <2>3
  <2>4. CASE i \in registry
    <3> DEFINE s == [session[i] EXCEPT !.placed = TRUE]
    <3>1. session' = [session EXCEPT ![i] = s]
        BY <1>1, <2>1, <2>2, <2>4
    <3>2. session[i] \in SessionRecord
        BY <1>1, <2>1
    <3>3. /\ s \in SessionRecord /\ s.parent = session[i].parent /\ s.closing = session[i].closing /\ s.running = session[i].running
          /\ s.said = session[i].said /\ s.dirty = session[i].dirty /\ s.checkout = session[i].checkout
        BY <1>1, <3>2 DEF SessionRecord
    <3> HIDE DEF s
    <3>4. session' \in [Sessions -> SessionRecord] /\ session'[i] = s /\ \A j \in Sessions : j # i => session'[j] = session[j]
        BY <1>1, <2>1, <3>1, <3>3
    <3> QED BY <2>4, <3>3, <3>4
  <2> QED BY <2>3, <2>4
<1>6. TreeTypes' /\ NothingOfTheGone'
  <2>1. TreeTypes'
    BY <1>1, <1>2, <1>4, <1>5 DEF TreeInv, TreeTypes, Histories
  <2>2. ~(i > opened)
    BY <1>1, <1>2
  <2> QED BY <1>2, <1>5, <2>1, <2>2 DEF TreeInv, NothingOfTheGone
<1>7. InProject' \subseteq InProject \union {i}
    BY <1>2, <1>5 DEF InProject
<1>8. stranded \subseteq stranded' /\ (~project \/ (\E q \in Askers : request[q].does = "project") => i \in stranded')
    BY <1>2
<1>9. ASSUME NEW q \in Askers, q # r PROVE Fits(request[q])'
  <2>1. PICK d0 : d0 = request[q]
    OBVIOUS
  <2>2. /\ d0 \in RequestRecord /\ Fits(d0) /\ (d0.at \in Taking => d0.does \in Removers) /\ d0.all \subseteq Sessions
        /\ (d0.at \in Placing => i \notin d0.all) /\ request'[q] = d0
    BY <1>1, <1>4, <1>9, <2>1, TakingFacts
  <2>3. d0.does = "project" => InProject' \subseteq InProject \union stranded'
    BY <1>7, <1>8, <2>1
  <2>4. \A j \in d0.all :
          /\ session'[j].dirty = session[j].dirty /\ session'[j].said = session[j].said
          /\ session'[j].running = session[j].running /\ session'[j].closing = session[j].closing
          /\ session'[j].checkout = session[j].checkout /\ (d0.at \in Placing => session'[j].placed = session[j].placed)
    BY <1>5, <2>2
  <2>5. Fits(d0)'
    BY <1>2, <1>5, <1>8, <2>2, <2>3, <2>4, OthersKeep
  <2> QED BY <2>2, <2>5, FitsOf
<1>10. \A q \in Askers : Fits(request[q])'
  <2>1. Fits(d)'
    BY <1>3 DEF Fits, OfOpened, DoesAndAt, GaveBack, KeptClosing, LookedAt, Adopting, Listed, Unused, NotYetPlaced,
       Placing, Taking
  <2>2. Fits(request[r])'
    BY <1>4, <2>1, FitsOf
  <2> QED BY <1>9, <2>2
<1>11. OnePlaces'
    BY <1>3, <1>4 DEF TreeInv, OnePlaces, Placing
<1>12. MainIsThere'
  <2>1. \A q \in Askers : request[q].at \in {"promote", "adopt"} => request'[q] = request[q]
    BY <1>1, <1>4
  <2>2. \A j \in registry : session'[j].parent = session[j].parent
    BY <1>2, <1>5
  <2> QED BY <1>2, <2>1, <2>2 DEF TreeInv, MainIsThere
<1>13. NoneLeftBehind' /\ WorkIsKept' /\ AllOrNothing'
    BY <1>2, <1>7, <1>8 DEF TreeInv, NoneLeftBehind, WorkIsKept, AllOrNothing
<1> QED BY <1>6, <1>10, <1>11, <1>12, <1>13 DEF TreeInv

\* A turn is waited for, before anything of its session goes.
LEMMA StoppedKeeps ==
    ASSUME TreeInv, NEW r \in Askers, request[r].at = "stop", NEW i, i \in NextUp(r),
           session' = [session EXCEPT ![i].running = FALSE],
           request' = [request EXCEPT ![r] = NextOf(r, i, "stop",
             IF request[r].does = "project" /\ ~request[r].forced THEN "check" ELSE "inspect")],
           UNCHANGED <<nested, project, opened, registry, histories>>
    PROVE  TreeInv'
<1> PICK then \in {"check", "inspect"} : then = IF request[r].does = "project" /\ ~request[r].forced THEN "check" ELSE "inspect"
    OBVIOUS
<1> PICK d : d = NextOf(r, i, "stop", then)
    OBVIOUS
<1>1. request[r] \in RequestRecord /\ Fits(request[r]) /\ request[r].does \in Removers
    BY TakingFacts DEF Taking
<1>2. i \in request[r].rest /\ i \in Sessions /\ i \in request[r].all
    BY TakingFacts, OldestIsOne DEF NextUp, NoSession
<1>3. /\ d \in RequestRecord /\ d.does = request[r].does /\ d.all = request[r].all /\ d.forced = request[r].forced
      /\ d.released = request[r].released /\ d.threads = request[r].threads
      /\ \/ d.at = "stop" /\ d.rest = request[r].rest \ {i}
         \/ d.at = then /\ d.rest = request[r].all /\ request[r].rest \ {i} = {}
  <2>1. "stop" \in Places /\ then \in Places
    BY DEF Places, Taking
  <2> QED BY <1>1, <2>1 DEF NextOf, RequestRecord
<1>4. request' \in [Askers -> RequestRecord] /\ \A q \in Askers : request'[q] = IF q = r THEN d ELSE request[q]
    BY <1>3 DEF TreeInv, TreeTypes
<1>5. /\ session' \in [Sessions -> SessionRecord]
      /\ \A j \in Sessions :
           /\ session'[j].parent = session[j].parent /\ session'[j].placed = session[j].placed
           /\ session'[j].closing = session[j].closing /\ session'[j].said = session[j].said
           /\ session'[j].dirty = session[j].dirty /\ session'[j].checkout = session[j].checkout
           /\ (session'[j].running => session[j].running) /\ (j # i => session'[j] = session[j])
      /\ ~session'[i].running
  <2> DEFINE s == [session[i] EXCEPT !.running = FALSE]
  <2>1. session \in [Sessions -> SessionRecord] /\ session[i] \in SessionRecord /\ session' = [session EXCEPT ![i] = s]
    BY <1>2 DEF TreeInv, TreeTypes
  <2>2. /\ s \in SessionRecord /\ s.parent = session[i].parent /\ s.closing = session[i].closing /\ ~s.running
        /\ s.said = session[i].said /\ s.dirty = session[i].dirty /\ s.checkout = session[i].checkout /\ s.placed = session[i].placed
    BY <2>1 DEF SessionRecord
  <2> HIDE DEF s
  <2>3. session' \in [Sessions -> SessionRecord] /\ session'[i] = s /\ \A j \in Sessions : j # i => session'[j] = session[j]
    BY <1>2, <2>1, <2>2
  <2> QED BY <2>2, <2>3
<1>6. /\ UNCHANGED <<nested, project, opened, registry, lost, reopened, edited, orphaned, stranded, halfway>>
      /\ registry \subseteq 1..opened /\ registry \subseteq Sessions /\ opened \in Nat
    BY TreeAssumption DEF TreeInv, TreeTypes, Sessions, histories
<1>7. TreeTypes' /\ NothingOfTheGone'
  <2>1. TreeTypes'
    BY <1>4, <1>5, <1>6 DEF TreeInv, TreeTypes, Histories
  <2>2. ~(i > opened)
    BY <1>1, <1>2, <1>6 DEF Fits, OfOpened
  <2> QED BY <1>5, <1>6, <2>1, <2>2 DEF TreeInv, NothingOfTheGone
<1>8. InProject' = InProject
    BY <1>5, <1>6 DEF InProject
<1>9. ASSUME NEW d0 \in RequestRecord, Fits(d0), d0.at \in Taking => d0.does \in Removers PROVE Fits(d0)'
  <2>1. \A j \in d0.all :
          /\ session'[j].dirty = session[j].dirty /\ session'[j].said = session[j].said
          /\ (session'[j].running => session[j].running) /\ session'[j].closing = session[j].closing
          /\ session'[j].checkout = session[j].checkout /\ session'[j].placed = session[j].placed
    BY <1>5 DEF RequestRecord
  <2>2. \A j \in registry : session'[j].parent = session[j].parent
    BY <1>5, <1>6
  <2> QED BY <1>6, <1>8, <1>9, <2>1, <2>2, OthersKeep
<1>10. Fits(d)'
  <2>1. OfOpened(d)' /\ DoesAndAt(d)' /\ GaveBack(d)'
    BY <1>1, <1>3, <1>6 DEF Fits, OfOpened, DoesAndAt, GaveBack, Placing, Removers
  <2>2. KeptClosing(d)'
    <3>1. \A j \in d.all : StaysClosing(j)'
        BY <1>1, <1>3, <1>5, <1>6 DEF Fits, KeptClosing, StaysClosing, Taking, RequestRecord
    <3>2. \A j \in IF d.at = "stop" THEN d.all \ d.rest ELSE d.all : j = i \/ j \in request[r].all \ request[r].rest
        BY <1>3
    <3>3. \A j \in request[r].all \ request[r].rest : Still(j)'
        BY <1>1, <1>5, <1>6 DEF Fits, KeptClosing, Still, Taking, RequestRecord
    <3>4. Still(i)'
        BY <1>5 DEF Still
    <3> QED BY <3>1, <3>2, <3>3, <3>4 DEF KeptClosing
  <2>3. LookedAt(d)' /\ Adopting(d)' /\ NotYetPlaced(d)'
    BY <1>3 DEF LookedAt, Adopting, NotYetPlaced, Placing
  <2>4. Listed(d)' /\ Unused(d)'
    BY <1>1, <1>3, <1>6, <1>8 DEF Fits, DoesAndAt, Listed, Unused
  <2> QED BY <2>1, <2>2, <2>3, <2>4 DEF Fits
<1>11. \A q \in Askers : Fits(request[q])'
  <2> TAKE q \in Askers
  <2>1. CASE q = r
    BY <1>4, <1>10, <2>1, FitsOf
  <2>2. CASE q # r
    BY <1>4, <1>9, <2>2, TakingFacts, FitsOf
  <2> QED BY <2>1, <2>2
<1>12. OnePlaces' /\ MainIsThere'
  <2>1. OnePlaces'
    BY <1>3, <1>4 DEF TreeInv, OnePlaces, Placing
  <2>2. \A q \in Askers : request[q].at \in {"promote", "adopt"} => request'[q] = request[q]
    BY <1>4
  <2>3. \A j \in registry : session'[j].parent = session[j].parent
    BY <1>5, <1>6
  <2> QED BY <1>6, <2>1, <2>2, <2>3 DEF TreeInv, MainIsThere
<1>13. NoneLeftBehind' /\ WorkIsKept' /\ AllOrNothing'
    BY <1>6, <1>8 DEF TreeInv, NoneLeftBehind, WorkIsKept, AllOrNothing
<1> QED BY <1>7, <1>11, <1>12, <1>13 DEF TreeInv

\* A checkout goes with what is in it, if anything, only as the user said, or as somebody wrote it since it was looked at.
LEMMA ReleasedKeeps ==
    ASSUME TreeInv, NEW r \in Askers, Release(r), NEW i, i = request[r].asked, Unsafe(i) /\ ~request[r].forced => nested
    PROVE  TreeInv'
<1> PICK d : d = [NextOf(r, i, "inspect", "forget") EXCEPT !.released = TRUE]
    OBVIOUS
<1>0. /\ request[r].at = "release"
      /\ session' = [session EXCEPT ![i].checkout = FALSE, ![i].dirty = FALSE]
      /\ request' = [request EXCEPT ![r] = d]
      /\ lost' = IF Unsafe(i) /\ ~request[r].forced THEN lost \union {i} ELSE lost
      /\ UNCHANGED <<nested, project, opened, registry, reopened, edited, orphaned, stranded, halfway>>
    BY DEF Release, StepOfRemoval
<1>1. request[r] \in RequestRecord /\ Fits(request[r]) /\ request[r].does \in Removers
    BY <1>0, TakingFacts DEF Taking
<1>2. i \in request[r].rest /\ i \in Sessions /\ i \in request[r].all /\ i \in 1..opened
    BY <1>0, <1>1 DEF Fits, DoesAndAt, OfOpened, RequestRecord
<1>3. /\ d \in RequestRecord /\ d.does = request[r].does /\ d.all = request[r].all /\ d.forced = request[r].forced
      /\ d.released /\ d.threads = request[r].threads /\ d.rest \subseteq d.all /\ d.at \in {"inspect", "forget"}
      /\ (request[r].rest \ {i} = {} => d.at = "forget")
  <2>1. "inspect" \in Places /\ "forget" \in Places
    BY DEF Places, Taking
  <2>2. NextOf(r, i, "inspect", "forget") \in RequestRecord
    BY <1>1, <2>1 DEF NextOf, RequestRecord
  <2>3. request[r].rest \subseteq request[r].all
    BY <1>1 DEF Fits, OfOpened
  <2>4. PICK n : n = NextOf(r, i, "inspect", "forget")
    OBVIOUS
  <2>5. /\ n.does = request[r].does /\ n.all = request[r].all /\ n.forced = request[r].forced /\ n.threads = request[r].threads
        /\ n.rest \subseteq request[r].all /\ n.at \in {"inspect", "forget"}
        /\ (request[r].rest \ {i} = {} => n.at = "forget")
    BY <1>1, <2>1, <2>3, <2>4 DEF NextOf, RequestRecord
  <2>6. n \in RequestRecord /\ d = [n EXCEPT !.released = TRUE]
    BY <2>2, <2>4
  <2> QED BY <2>5, <2>6 DEF RequestRecord
<1>4. request' \in [Askers -> RequestRecord] /\ \A q \in Askers : request'[q] = IF q = r THEN d ELSE request[q]
    BY <1>0, <1>3 DEF TreeInv, TreeTypes
<1>5. /\ session' \in [Sessions -> SessionRecord]
      /\ \A j \in Sessions :
           /\ session'[j].parent = session[j].parent /\ session'[j].placed = session[j].placed
           /\ session'[j].closing = session[j].closing /\ session'[j].said = session[j].said
           /\ session'[j].running = session[j].running /\ (session'[j].dirty => session[j].dirty)
           /\ (session'[j].checkout => session[j].checkout) /\ (j # i => session'[j] = session[j])
      /\ ~session'[i].checkout /\ ~session'[i].dirty
  <2> DEFINE s == [session[i] EXCEPT !.checkout = FALSE, !.dirty = FALSE]
  <2>1. session \in [Sessions -> SessionRecord] /\ session[i] \in SessionRecord /\ session' = [session EXCEPT ![i] = s]
    BY <1>0, <1>2 DEF TreeInv, TreeTypes
  <2>2. /\ s \in SessionRecord /\ s.parent = session[i].parent /\ s.closing = session[i].closing /\ s.running = session[i].running
        /\ s.said = session[i].said /\ ~s.dirty /\ ~s.checkout /\ s.placed = session[i].placed
    BY <2>1 DEF SessionRecord
  <2> HIDE DEF s
  <2>3. session' \in [Sessions -> SessionRecord] /\ session'[i] = s /\ \A j \in Sessions : j # i => session'[j] = session[j]
    <3>1. session'[i] = s /\ \A j \in Sessions : j # i => session'[j] = session[j]
        BY <1>2, <2>1
    <3>2. \A j \in Sessions : session'[j] \in SessionRecord
        BY <2>1, <2>2, <3>1
    <3>3. session' \in [Sessions -> SessionRecord]
        BY <2>1, <2>2
    <3> QED BY <3>1, <3>3
  <2> QED BY <2>2, <2>3
<1>6. /\ UNCHANGED <<nested, project, opened, registry, reopened, edited, orphaned, stranded, halfway>>
      /\ registry \subseteq 1..opened /\ registry \subseteq Sessions /\ opened \in Nat /\ lost' \subseteq lost \union {i}
    BY <1>0, TreeAssumption DEF TreeInv, TreeTypes, Sessions
<1>7. TreeTypes' /\ NothingOfTheGone'
  <2>1. TreeTypes'
    BY <1>2, <1>4, <1>5, <1>6 DEF TreeInv, TreeTypes, Histories
  <2>2. ~(i > opened)
    BY <1>2, <1>6
  <2> QED BY <1>5, <1>6, <2>1, <2>2 DEF TreeInv, NothingOfTheGone
<1>8. InProject' = InProject
    BY <1>5, <1>6 DEF InProject
<1>9. ASSUME NEW d0 \in RequestRecord, Fits(d0), d0.at \in Taking => d0.does \in Removers PROVE Fits(d0)'
  <2>1. \A j \in d0.all :
          /\ (session'[j].dirty => session[j].dirty) /\ session'[j].said = session[j].said
          /\ session'[j].running = session[j].running /\ session'[j].closing = session[j].closing
          /\ (session'[j].checkout => session[j].checkout) /\ session'[j].placed = session[j].placed
    BY <1>5 DEF RequestRecord
  <2>2. \A j \in registry' : session'[j].parent = session[j].parent /\ j \in registry
    BY <1>5, <1>6
  <2>3. opened' \in Nat /\ opened <= opened'
    BY <1>6
  <2> QED BY <1>6, <1>8, <1>9, <2>1, <2>2, <2>3, OthersKeep
<1>10. Fits(d)'
  <2>1. d.does \in {"delete", "prune"} => d.at = "forget"
    <3>1. d.does \in {"delete", "prune"} => request[r].rest \subseteq {Oldest(request[r].all)}
        BY <1>1, <1>3 DEF Fits, DoesAndAt, OfOpened
    <3> QED BY <1>2, <1>3, <3>1
  <2>2. OfOpened(d)' /\ DoesAndAt(d)' /\ GaveBack(d)'
    BY <1>1, <1>3, <1>6, <2>1 DEF Fits, OfOpened, DoesAndAt, GaveBack, Placing, Removers
  <2>3. KeptClosing(d)'
    <3>1. \A j \in request[r].all : StaysClosing(j) /\ Still(j)
        BY <1>0, <1>1 DEF Fits, KeptClosing, Taking
    <3>2. \A j \in d.all : session'[j].closing = session[j].closing /\ session'[j].running = session[j].running
        BY <1>3, <1>5 DEF RequestRecord
    <3>3. \A j \in d.all : StaysClosing(j)' /\ Still(j)'
        BY <1>3, <1>6, <3>1, <3>2 DEF StaysClosing, Still
    <3> QED BY <1>3, <3>3 DEF KeptClosing
  <2>4. \A j \in d.all : Clean(j) => Clean(j)'
    BY <1>3, <1>5, <1>6 DEF Clean, RequestRecord
  <2>5. LookedAt(d)'
    BY <1>0, <1>1, <1>3, <2>4 DEF Fits, LookedAt
  <2>6. Adopting(d)' /\ NotYetPlaced(d)'
    BY <1>3 DEF Adopting, NotYetPlaced, Placing
  <2>7. \A j \in d.all : session'[j].said = session[j].said
    BY <1>3, <1>5 DEF RequestRecord
  <2>8. Listed(d)' /\ Unused(d)'
    BY <1>1, <1>3, <1>6, <1>8, <2>7 DEF Fits, Listed, Unused
  <2> QED BY <2>2, <2>3, <2>5, <2>6, <2>8 DEF Fits
<1>11. \A q \in Askers : Fits(request[q])'
  <2> TAKE q \in Askers
  <2>1. CASE q = r
    BY <1>4, <1>10, <2>1, FitsOf
  <2>2. CASE q # r
    BY <1>4, <1>9, <2>2, TakingFacts, FitsOf
  <2> QED BY <2>1, <2>2
<1>12. OnePlaces' /\ MainIsThere'
  <2>1. OnePlaces'
    BY <1>3, <1>4 DEF TreeInv, OnePlaces, Placing
  <2>2. \A q \in Askers : request[q].at \in {"promote", "adopt"} => request'[q] = request[q]
    BY <1>0, <1>4
  <2>3. \A j \in registry : session'[j].parent = session[j].parent
    BY <1>5, <1>6
  <2> QED BY <1>6, <2>1, <2>2, <2>3 DEF TreeInv, MainIsThere
<1>13. WorkIsKept'
  <2>1. CASE Unsafe(i) /\ ~request[r].forced
    <3>1. i \in reopened \union edited
        BY <1>0, <1>1, <2>1 DEF Fits, LookedAt, Clean, Unsafe
    <3> QED BY <1>0, <2>1, <3>1 DEF TreeInv, WorkIsKept
  <2>2. CASE ~(Unsafe(i) /\ ~request[r].forced)
    BY <1>0, <2>2 DEF TreeInv, WorkIsKept
  <2> QED BY <2>1, <2>2
<1>14. NoneLeftBehind' /\ AllOrNothing'
    BY <1>6, <1>8 DEF TreeInv, NoneLeftBehind, AllOrNothing
<1> QED BY <1>7, <1>11, <1>12, <1>13, <1>14 DEF TreeInv

\* The sessions go, with no checkout left; the threads of a deleted one are to be promoted.
LEMMA ForgetKeeps == ASSUME TreeInv, NEW r \in Askers, Forget(r) PROVE TreeInv'
<1> PICK s : s = request[r].all
    OBVIOUS
<1> PICK d : d = IF request[r].does = "delete" THEN [request[r] EXCEPT !.at = "promote"] ELSE [NoRequest EXCEPT !.at = "answered"]
    OBVIOUS
<1> PICK u : u = UNION {Threads(i) : i \in request[r].all}
    OBVIOUS
<1>1. /\ request[r] \in RequestRecord /\ Fits(request[r]) /\ request[r].does \in Removers /\ request[r].at = "forget"
      /\ s \subseteq Sessions /\ s \subseteq 1..opened
    BY TakingFacts DEF Taking, Forget, Fits, OfOpened
<1>2. /\ registry' = registry \ s /\ project' = (project /\ request[r].does # "project")
      /\ UNCHANGED <<nested, opened, lost, reopened, edited, stranded, halfway>>
      /\ orphaned' = orphaned \union IF request[r].does = "delete" THEN {} ELSE u \ s
      /\ session' = [i \in Sessions |-> IF i \in s THEN NewSession ELSE session[i]]
    BY DEF Forget
<1>3. registry \subseteq 1..opened /\ registry \subseteq Sessions /\ opened \in Nat
    BY TreeAssumption DEF TreeInv, TreeTypes, Sessions
<1>4. /\ d \in RequestRecord /\ d.threads \subseteq 1..opened
      /\ \/ /\ request[r].does = "delete" /\ d.does = "delete" /\ d.at = "promote" /\ d.all = s /\ d.rest \subseteq s
            /\ d.forced = request[r].forced
         \/ /\ request[r].does # "delete" /\ d.does = "none" /\ d.at = "answered" /\ d.all = {} /\ d.rest = {} /\ ~d.released
  <2>1. CASE request[r].does = "delete"
    BY <1>1, <2>1 DEF RequestRecord, Places, Fits, OfOpened
  <2>2. CASE request[r].does # "delete"
    BY <2>2, DoneIs
  <2> QED BY <2>1, <2>2
<1>5. request' \in [Askers -> RequestRecord] /\ \A q \in Askers : request'[q] = IF q = r THEN d ELSE request[q]
  <2>1. request \in [Askers -> RequestRecord] /\ request' = [request EXCEPT ![r] = d]
    BY DEF TreeInv, TreeTypes, Forget, Skips, Done
  <2> QED BY <1>4, <2>1
<1>6. /\ session' \in [Sessions -> SessionRecord]
      /\ \A j \in Sessions : session'[j] = IF j \in s THEN NewSession ELSE session[j]
    BY <1>2, RequestFacts DEF TreeInv, TreeTypes
<1>7. orphaned \subseteq orphaned' /\ orphaned' \subseteq 1..opened
  <2>1. u \subseteq registry
    BY DEF Threads
  <2> QED BY <1>2, <1>3, <2>1 DEF TreeInv, TreeTypes, Histories
<1>8. TreeTypes' /\ NothingOfTheGone'
  <2>1. project' \in BOOLEAN
    BY <1>2 DEF TreeInv, TreeTypes
  <2>2. TreeTypes'
    BY <1>2, <1>3, <1>5, <1>6, <1>7, <2>1 DEF TreeInv, TreeTypes, Histories
  <2> QED BY <1>2, <1>6, <2>2, RequestFacts DEF TreeInv, NothingOfTheGone
<1>9. InProject' = InProject \ s
    BY <1>2, <1>3, <1>6, RequestFacts DEF InProject
<1>10. ASSUME NEW d0 \in RequestRecord, Fits(d0), d0.at \in Taking => d0.does \in Removers PROVE Fits(d0)'
  <2>1. d0.all \subseteq Sessions
    BY DEF RequestRecord
  <2>2. \A j \in d0.all :
          /\ (session'[j].dirty => session[j].dirty) /\ (session'[j].said => session[j].said)
          /\ (session'[j].running => session[j].running) /\ (j \notin registry' \/ session'[j].closing = session[j].closing \/ j \notin registry)
          /\ (session'[j].checkout => session[j].checkout) /\ (session'[j].placed => session[j].placed)
    BY <1>2, <1>6, <2>1, RequestFacts
  <2>3. \A j \in registry' : session'[j].parent = session[j].parent /\ j \in registry
    BY <1>2, <1>3, <1>6
  <2> QED BY <1>2, <1>3, <1>7, <1>9, <1>10, <2>2, <2>3, OthersKeep
<1>11. Fits(d)'
  <2>1. d.all \intersect registry' = {}
    BY <1>2, <1>4
  <2>2. OfOpened(d)' /\ DoesAndAt(d)' /\ GaveBack(d)'
    BY <1>1, <1>2, <1>4 DEF Fits, OfOpened, DoesAndAt, GaveBack, Placing, Removers
  <2>3. KeptClosing(d)' /\ LookedAt(d)' /\ Adopting(d)' /\ Listed(d)' /\ Unused(d)' /\ NotYetPlaced(d)'
    BY <1>4, <2>1 DEF KeptClosing, LookedAt, Adopting, Listed, Unused, NotYetPlaced, Taking, Placing
  <2> QED BY <2>2, <2>3 DEF Fits
<1>12. \A q \in Askers : Fits(request[q])'
  <2> TAKE q \in Askers
  <2>1. CASE q = r
    BY <1>5, <1>11, <2>1, FitsOf
  <2>2. CASE q # r
    BY <1>5, <1>10, <2>2, TakingFacts, FitsOf
  <2> QED BY <2>1, <2>2
<1>13. OnePlaces'
    BY <1>4, <1>5 DEF TreeInv, OnePlaces, Placing
<1>14. MainIsThere'
  <2> SUFFICES ASSUME NEW i \in registry'
               PROVE  \/ session'[i].parent \in registry' \union {0} \/ i \in orphaned'
                      \/ \E q \in Askers : request'[q].at \in {"promote", "adopt"} /\ session'[i].parent \in request'[q].all
    BY DEF MainIsThere
  <2>1. i \in registry /\ i \notin s /\ session'[i] = session[i]
    BY <1>2, <1>3, <1>6
  <2>2. \A q \in Askers : request[q].at \in {"promote", "adopt"} => request'[q] = request[q]
    BY <1>1, <1>5
  <2>3. CASE session[i].parent \in s
    <3>1. CASE request[r].does = "delete"
        BY <1>4, <1>5, <2>1, <2>3, <3>1
    <3>2. CASE request[r].does # "delete"
      <4>1. i \in Threads(session[i].parent)
        BY <2>1 DEF Threads
      <4>2. i \in u
        BY <2>3, <4>1
      <4> QED BY <1>2, <2>1, <3>2, <4>2
    <3> QED BY <3>1, <3>2
  <2>4. CASE session[i].parent \notin s
    BY <1>2, <1>7, <2>1, <2>2, <2>4 DEF TreeInv, MainIsThere
  <2> QED BY <2>3, <2>4
<1>15. NoneLeftBehind'
    BY <1>1, <1>2, <1>9 DEF TreeInv, NoneLeftBehind, Fits, Listed
<1>16. WorkIsKept' /\ AllOrNothing'
    BY <1>2 DEF TreeInv, WorkIsKept, AllOrNothing
<1> QED BY <1>8, <1>12, <1>13, <1>14, <1>15, <1>16 DEF TreeInv

\* The threads are given the oldest of them, which may be gone: then they are orphans.
LEMMA PromoteKeeps == ASSUME TreeInv, NEW r \in Askers, Promote(r) PROVE TreeInv'
<1> PICK kids : kids = request[r].threads
    OBVIOUS
<1> PICK main : main = Oldest(kids)
    OBVIOUS
<1> PICK d : d = [NoRequest EXCEPT !.at = "answered"]
    OBVIOUS
<1>1. /\ request[r] \in RequestRecord /\ Fits(request[r]) /\ request[r].at = "adopt"
      /\ kids \subseteq Sessions /\ kids \subseteq 1..opened
    BY TakingFacts DEF Promote, Fits, OfOpened, RequestRecord
<1>2. /\ UNCHANGED <<nested, project, opened, registry, lost, reopened, edited, stranded, halfway>>
      /\ orphaned' = IF main \in registry THEN orphaned ELSE orphaned \union (kids \ {main})
      /\ session' = [i \in Sessions |->
           IF i \notin kids THEN session[i] ELSE [session[i] EXCEPT !.parent = IF i = main THEN 0 ELSE main]]
    BY DEF Promote, Others
<1>3. registry \subseteq 1..opened /\ registry \subseteq Sessions /\ opened \in Nat
    BY TreeAssumption DEF TreeInv, TreeTypes, Sessions
<1>4. d \in RequestRecord /\ d.at = "answered" /\ d.does = "none" /\ d.all = {} /\ d.rest = {} /\ ~d.released /\ d.threads = {}
    BY DoneIs
<1>5. request' \in [Askers -> RequestRecord] /\ \A q \in Askers : request'[q] = IF q = r THEN d ELSE request[q]
  <2>1. request \in [Askers -> RequestRecord] /\ request' = [request EXCEPT ![r] = d]
    BY DEF TreeInv, TreeTypes, Promote, Done
  <2> QED BY <1>4, <2>1
<1>6. kids # {} => main \in kids
    BY <1>1, OldestIsOne
<1>7. \A j \in Sessions :
        /\ session'[j] \in SessionRecord /\ session'[j].placed = session[j].placed /\ session'[j].closing = session[j].closing
        /\ session'[j].running = session[j].running /\ session'[j].said = session[j].said
        /\ session'[j].dirty = session[j].dirty /\ session'[j].checkout = session[j].checkout
        /\ (j \notin kids => session'[j] = session[j])
        /\ (j \in kids => session'[j].parent = IF j = main THEN 0 ELSE main)
  <2> TAKE j \in Sessions
  <2>1. session[j] \in SessionRecord
    BY DEF TreeInv, TreeTypes
  <2>2. CASE j \notin kids
    BY <1>2, <2>1, <2>2
  <2>3. CASE j \in kids
    <3>1. PICK p \in {0} \union Sessions : p = IF j = main THEN 0 ELSE main
        BY <1>1, <1>6, <2>3
    <3>2. session'[j] = [session[j] EXCEPT !.parent = p]
        BY <1>2, <2>3, <3>1
    <3>3. /\ session'[j] \in SessionRecord /\ session'[j].placed = session[j].placed /\ session'[j].closing = session[j].closing
          /\ session'[j].running = session[j].running /\ session'[j].said = session[j].said
          /\ session'[j].dirty = session[j].dirty /\ session'[j].checkout = session[j].checkout /\ session'[j].parent = p
        BY <2>1, <3>2 DEF SessionRecord
    <3> QED BY <2>3, <3>1, <3>3
  <2> QED BY <2>2, <2>3
<1>8. session' \in [Sessions -> SessionRecord]
    BY <1>2, <1>7
<1>9. orphaned \subseteq orphaned' /\ orphaned' \subseteq 1..opened
    BY <1>1, <1>2 DEF TreeInv, TreeTypes, Histories
<1>10. TreeTypes' /\ NothingOfTheGone'
  <2>1. TreeTypes'
    BY <1>2, <1>5, <1>8, <1>9 DEF TreeInv, TreeTypes, Histories
  <2>2. \A i \in Sessions : i > opened => i \notin kids
    BY <1>1, <1>3
  <2> QED BY <1>2, <1>7, <2>1, <2>2 DEF TreeInv, NothingOfTheGone
<1>11. InProject' = InProject
    BY <1>2, <1>3, <1>7 DEF InProject
<1>12. ASSUME NEW d0 \in RequestRecord, Fits(d0), d0.at \in Taking => d0.does \in Removers PROVE Fits(d0)'
  <2>1. \A j \in d0.all :
          /\ session'[j].dirty = session[j].dirty /\ session'[j].said = session[j].said
          /\ session'[j].running = session[j].running /\ session'[j].closing = session[j].closing
          /\ session'[j].checkout = session[j].checkout /\ session'[j].placed = session[j].placed
    BY <1>7 DEF RequestRecord
  <2>2. d0.at = "adopt" => \A j \in registry : session'[j].parent \in d0.all => j \in orphaned' \/ session[j].parent \in d0.all
    <3> SUFFICES ASSUME d0.at = "adopt", NEW j \in registry, session'[j].parent \in d0.all
                 PROVE  j \in orphaned' \/ session[j].parent \in d0.all
        OBVIOUS
    <3>1. CASE j \notin kids
        BY <1>3, <1>7, <3>1
    <3>2. CASE j \in kids
      <4>1. 0 \notin d0.all /\ d0.all \intersect registry = {}
        BY <1>3, <1>12 DEF Fits, OfOpened, Adopting
      <4>2. j # main /\ main \in d0.all
        BY <1>3, <1>7, <3>2, <4>1
      <4> QED BY <1>2, <3>2, <4>1, <4>2
    <3> QED BY <3>1, <3>2
  <2>3. /\ opened' \in Nat /\ opened <= opened' /\ \A j \in registry' : j \in registry
        /\ reopened \subseteq reopened' /\ edited \subseteq edited' /\ stranded \subseteq stranded'
    BY <1>2, <1>3
  <2>4. d0.at = "adopt" =>
          \A j \in registry' : session'[j].parent \in d0.all => j \in orphaned' \/ (j \in registry /\ session[j].parent \in d0.all)
    BY <2>2, <2>3
  <2> QED BY <1>9, <1>11, <1>12, <2>1, <2>3, <2>4, OthersKeep
<1>13. \A q \in Askers : Fits(request[q])'
  <2> TAKE q \in Askers
  <2>1. CASE q = r
    <3>1. Fits(d)'
        BY <1>4 DEF Fits, OfOpened, DoesAndAt, GaveBack, KeptClosing, LookedAt, Adopting, Listed, Unused, NotYetPlaced,
           Placing, Taking
    <3> QED BY <1>5, <2>1, <3>1, FitsOf
  <2>2. CASE q # r
    BY <1>5, <1>12, <2>2, TakingFacts, FitsOf
  <2> QED BY <2>1, <2>2
<1>14. OnePlaces'
    BY <1>4, <1>5 DEF TreeInv, OnePlaces, Placing
<1>15. MainIsThere'
  <2> SUFFICES ASSUME NEW i \in registry
               PROVE  \/ session'[i].parent \in registry' \union {0} \/ i \in orphaned'
                      \/ \E q \in Askers : request'[q].at \in {"promote", "adopt"} /\ session'[i].parent \in request'[q].all
    BY <1>2 DEF MainIsThere
  <2>1. CASE i \in kids
    BY <1>2, <1>3, <1>7, <2>1
  <2>2. CASE i \notin kids
    <3>1. session'[i] = session[i]
        BY <1>3, <1>7, <2>2
    <3>2. session[i].parent \in request[r].all => i \in orphaned
        BY <1>1, <2>2 DEF Fits, Adopting
    <3>3. \A q \in Askers \ {r} : request'[q] = request[q]
        BY <1>5
    <3> QED BY <1>2, <1>9, <3>1, <3>2, <3>3 DEF TreeInv, MainIsThere
  <2> QED BY <2>1, <2>2
<1>16. NoneLeftBehind' /\ WorkIsKept' /\ AllOrNothing'
    BY <1>2, <1>11 DEF TreeInv, NoneLeftBehind, WorkIsKept, AllOrNothing
<1> QED BY <1>10, <1>13, <1>14, <1>15, <1>16 DEF TreeInv

\* A request that has given checkouts back is refused only for what was written since, or reopened.
LEMMA RefusedOnlyFor ==
    ASSUME TreeInv, NEW r \in Askers, NEW i \in request[r].all, Unsafe(i), ~request[r].forced, request[r].released,
           request[r].at \in {"inspect", "release"}
    PROVE  edited \union reopened # {}
<1>1. request[r].does = "project"
    BY TakingFacts DEF Fits, GaveBack
<1>2. Clean(i)
    BY <1>1, TakingFacts DEF Fits, LookedAt
<1> QED BY <1>2 DEF Clean, Unsafe

\* The first stage of a deletion: its turns end, or it is refused.
LEMMA StopTurnKeeps == ASSUME TreeInv, NEW r \in Askers, StopTurn(r) PROVE TreeInv'
<1>1. request[r].at = "stop" /\ Fits(request[r])
    BY TakingFacts DEF StopTurn
<1>2. CASE \E i \in NextUp(r) :
            /\ session' = [session EXCEPT ![i].running = FALSE]
            /\ request' = [request EXCEPT ![r] = NextOf(r, i, "stop",
                 IF request[r].does = "project" /\ ~request[r].forced THEN "check" ELSE "inspect")]
            /\ UNCHANGED <<project, registry, lost, reopened, edited, halfway>> /\ StepOfRemoval
  <2>1. UNCHANGED <<nested, project, opened, registry, histories>>
    BY <1>2 DEF StepOfRemoval, histories
  <2> QED BY <1>1, <1>2, <2>1, StoppedKeeps
<1>3. CASE /\ NoSession(r) /\ Skips(r, "forget")
           /\ UNCHANGED <<project, registry, session, lost, reopened, edited, halfway>> /\ StepOfRemoval
  <2>1. UNCHANGED <<nested, project, opened, registry, session, histories>>
    BY <1>3 DEF StepOfRemoval, histories
  <2> QED BY <1>1, <1>3, <2>1, NothingToStopKeeps
<1>4. CASE (\E i \in request[r].rest : session[i].running) /\ Refuse(r)
  <2>1. ~request[r].released
    BY <1>1 DEF Fits, GaveBack
  <2> QED BY <1>1, <1>4, <2>1, RefuseKeeps DEF Taking
<1> QED BY <1>2, <1>3, <1>4 DEF StopTurn

\* The second, of a project: every checkout is looked at.
LEMMA CheckSafeKeeps == ASSUME TreeInv, NEW r \in Askers, CheckSafe(r) PROVE TreeInv'
<1>1. request[r].at = "check" /\ Fits(request[r])
    BY TakingFacts DEF CheckSafe
<1>2. PICK i \in NextUp(r) :
         IF Unsafe(i) THEN Refuse(r)
         ELSE /\ request' = [request EXCEPT ![r] = NextOf(r, i, "check", "inspect")]
              /\ UNCHANGED <<project, registry, session, lost, reopened, edited, halfway>> /\ StepOfRemoval
    BY DEF CheckSafe
<1>3. CASE Unsafe(i)
  <2>1. ~request[r].released
    BY <1>1 DEF Fits, GaveBack
  <2> QED BY <1>1, <1>2, <1>3, <2>1, RefuseKeeps DEF Taking
<1>4. CASE ~Unsafe(i)
  <2>1. UNCHANGED <<nested, project, opened, registry, session, histories>>
    BY <1>2, <1>4 DEF StepOfRemoval, histories
  <2> QED BY <1>1, <1>2, <1>4, <2>1, CheckedKeeps
<1> QED BY <1>3, <1>4

\* The third: a checkout is looked at again.
LEMMA InspectKeeps == ASSUME TreeInv, NEW r \in Askers, Inspect(r) PROVE TreeInv'
<1>1. request[r].at = "inspect" /\ Fits(request[r]) /\ request[r].rest \subseteq request[r].all
    BY TakingFacts DEF Inspect
<1>2. PICK i \in request[r].rest :
         IF Refuses(r, i) THEN Refuse(r)
         ELSE /\ request' = [request EXCEPT ![r] =
                   IF session[i].checkout THEN [request[r] EXCEPT !.at = "release", !.asked = i]
                                          ELSE NextOf(r, i, "inspect", "forget")]
              /\ UNCHANGED <<project, registry, session, lost, reopened, edited, halfway>> /\ StepOfRemoval
    BY DEF Inspect
<1>3. CASE Refuses(r, i)
  <2>1. i \in request[r].all /\ Unsafe(i) /\ ~request[r].forced
    BY <1>1, <1>3 DEF Refuses
  <2>2. request[r].released => edited \union reopened # {}
    BY <1>1, <2>1, RefusedOnlyFor
  <2> QED BY <1>1, <1>2, <1>3, <2>2, RefuseKeeps DEF Taking
<1>4. CASE ~Refuses(r, i)
  <2>1. UNCHANGED <<nested, project, opened, registry, session, histories>>
    BY <1>2, <1>4 DEF StepOfRemoval, histories
  <2> QED BY <1>1, <1>2, <1>4, <2>1, InspectedKeeps
<1> QED BY <1>3, <1>4

\* The fourth: the checkout goes, or git refuses it.
LEMMA ReleaseKeeps == ASSUME TreeInv, NEW r \in Askers, Release(r) PROVE TreeInv'
<1>1. request[r].at = "release" /\ Fits(request[r]) /\ request[r].rest \subseteq request[r].all
    BY TakingFacts DEF Release
<1> PICK i : i = request[r].asked
    OBVIOUS
<1>2. i \in request[r].all
    BY <1>1 DEF Fits, DoesAndAt
<1>3. CASE Unsafe(i) /\ ~request[r].forced /\ ~nested
  <2>1. request[r].released => edited \union reopened # {}
    BY <1>1, <1>2, <1>3, RefusedOnlyFor
  <2>2. Refuse(r)
    BY <1>3 DEF Release
  <2> QED BY <1>1, <2>1, <2>2, RefuseKeeps DEF Taking
<1>4. CASE ~(Unsafe(i) /\ ~request[r].forced /\ ~nested)
  <2>1. Unsafe(i) /\ ~request[r].forced => nested
    BY <1>4
  <2> QED BY <2>1, ReleasedKeeps
<1> QED BY <1>3, <1>4

\* The project as it is found keeps the invariant.
LEMMA TreeInvInit == TreeInit => TreeInv
<1> SUFFICES ASSUME TreeInit PROVE TreeInv
    OBVIOUS
<1>1. /\ opened \in 2..MaxSessions /\ opened \in Nat /\ opened >= 2 /\ registry = 1..opened /\ project
      /\ request = [r \in Askers |-> NoRequest] /\ Histories = {} /\ lost = {} /\ halfway = FALSE
      /\ MaxSessions \in Nat /\ nested \in BOOLEAN /\ project \in BOOLEAN /\ opened \in 0..MaxSessions
  <2>1. opened \in Nat /\ opened >= 2 /\ opened <= MaxSessions /\ MaxSessions \in Nat
    <3>1. opened \in 2..MaxSessions
        BY DEF TreeInit
    <3> QED BY <3>1, TreeAssumption
  <2>2. Histories = {}
    BY DEF TreeInit, Histories
  <2>3. project \in BOOLEAN
    BY DEF TreeInit
  <2>4. opened \in 2..MaxSessions /\ opened \in 0..MaxSessions
    BY <2>1
  <2>5. registry = 1..opened /\ project /\ request = [r \in Askers |-> NoRequest] /\ lost = {} /\ halfway = FALSE /\ nested \in BOOLEAN
    BY DEF TreeInit
  <2> QED BY <2>1, <2>2, <2>3, <2>4, <2>5
<1>2. \A j \in Sessions :
        /\ session[j] \in SessionRecord /\ session[j].parent \in {0, 1} /\ ~session[j].dirty /\ ~session[j].said
        /\ (j > opened => session[j] = NewSession)
  <2> TAKE j \in Sessions
  <2>1. CASE j > opened
    BY <1>1, <2>1, RequestFacts DEF TreeInit
  <2>2. CASE ~(j > opened)
    <3>1. PICK p \in {0, 1}, c \in BOOLEAN : p = (IF j = 1 THEN 0 ELSE 1) /\ c = (j # 1)
        OBVIOUS
    <3>2. session[j] = [NewSession EXCEPT !.placed = TRUE, !.parent = p, !.checkout = c]
        BY <2>2, <3>1 DEF TreeInit
    <3>3. 0 \in {0} \union Sessions /\ 1 \in Sessions
        BY <1>1 DEF Sessions
    <3> QED BY <2>2, <3>1, <3>2, <3>3, RequestFacts DEF SessionRecord
  <2> QED BY <2>1, <2>2
<1>3. session \in [Sessions -> SessionRecord]
    BY <1>2 DEF TreeInit
<1>4. request \in [Askers -> RequestRecord] /\ \A r \in Askers : request[r] = NoRequest
    BY <1>1, RequestFacts
<1>5. TreeTypes
    BY <1>1, <1>3, <1>4 DEF TreeTypes
<1>6. \A j \in Sessions : j \in registry \/ j > opened
    BY <1>1 DEF Sessions
<1>7. NothingOfTheGone
    BY <1>2, <1>6, RequestFacts DEF NothingOfTheGone
<1>8. \A r \in Askers : Fits(request[r])
    BY <1>4, RequestFacts, AnsweredFits
<1>9. OnePlaces
    BY <1>4, RequestFacts DEF OnePlaces, Placing
<1>10. MainIsThere
  <2>1. 1 \in registry /\ registry \subseteq Sessions
    BY <1>1 DEF Sessions
  <2> QED BY <1>2, <2>1 DEF MainIsThere
<1>11. NoneLeftBehind /\ WorkIsKept /\ AllOrNothing
    BY <1>1 DEF NoneLeftBehind, WorkIsKept, AllOrNothing
<1> QED BY <1>5, <1>7, <1>8, <1>9, <1>10, <1>11 DEF TreeInv

\* So does a step that is none of the sessions'.
LEMMA TreeUnchanged == ASSUME TreeInv, UNCHANGED treeVars PROVE TreeInv'
<1>1. UNCHANGED <<nested, project, opened, registry, session, request, lost, reopened, edited, orphaned, stranded, halfway>>
    BY DEF treeVars
<1>2. TreeTypes' /\ NothingOfTheGone' /\ OnePlaces' /\ MainIsThere'
    BY <1>1 DEF TreeInv, TreeTypes, Histories, NothingOfTheGone, OnePlaces, MainIsThere
<1>3. NoneLeftBehind' /\ WorkIsKept' /\ AllOrNothing' /\ InProject' = InProject
    BY <1>1 DEF TreeInv, NoneLeftBehind, InProject, WorkIsKept, AllOrNothing
<1>4. \A q \in Askers : Fits(request[q])'
  <2> TAKE q \in Askers
  <2>1. PICK d : d = request[q]
    OBVIOUS
  <2>2. d \in RequestRecord /\ Fits(d) /\ (d.at \in Taking => d.does \in Removers) /\ opened \in Nat
    BY <2>1, TakingFacts DEF TreeInv, TreeTypes
  <2>3. Fits(d)'
    BY <1>1, <1>3, <2>2, OthersKeep
  <2> QED BY <1>1, <2>1, <2>3, FitsOf
<1> QED BY <1>2, <1>3, <1>4 DEF TreeInv

\* So does every step.
LEMMA TreeInvNext == TreeInv /\ [TreeNext]_treeVars => TreeInv'
<1> SUFFICES ASSUME TreeInv, [TreeNext]_treeVars PROVE TreeInv'
    OBVIOUS
<1>1. CASE UNCHANGED treeVars
    BY <1>1, TreeUnchanged
<1>2. ASSUME NEW r \in Askers, NEW asked \in registry \union {0}, AskForSession(r, asked) PROVE TreeInv'
    BY <1>2, AskForSessionKeeps
<1>3. ASSUME NEW r \in Askers, NEW i \in registry, Prune(r, i) PROVE TreeInv'
    BY <1>3, PruneKeeps
<1>4. ASSUME NEW r \in Askers, NEW i \in registry, NEW forced \in BOOLEAN, DeleteSession(r, i, forced) PROVE TreeInv'
    BY <1>4, DeleteSessionKeeps
<1>5. ASSUME NEW r \in Askers, NEW forced \in BOOLEAN, DeleteProject(r, forced) PROVE TreeInv'
    BY <1>5, DeleteProjectKeeps
<1>6. ASSUME NEW r \in Askers, Opening(r) PROVE TreeInv'
    BY <1>6, RegisterKeeps, FindParentKeeps, MakeCheckoutKeeps, PlaceInProjectKeeps DEF Opening
<1>7. ASSUME NEW r \in Askers, Removal(r) PROVE TreeInv'
    BY <1>7, StopTurnKeeps, CheckSafeKeeps, InspectKeeps, ReleaseKeeps, ForgetKeeps, ListThreadsKeeps, PromoteKeeps
       DEF Removal
<1>8. ASSUME NEW i \in registry, StartTurn(i) \/ EndTurn(i) \/ Work(i) \/ Edit(i) PROVE TreeInv'
    BY <1>8, StartTurnKeeps, EndTurnKeeps, WorkKeeps, EditKeeps
<1> QED BY <1>1, <1>2, <1>3, <1>4, <1>5, <1>6, <1>7, <1>8 DEF TreeNext

\* So it always holds.
LEMMA TreeInvariant == TreeSpec => []TreeInv
BY TreeInvInit, TreeInvNext, PTL DEF TreeSpec

\* Uncommitted work goes only with the user's word: a worktree of a single repository never goes with work in it, and
\* that of a plain project only with what somebody wrote after it was looked at, or after another removal reopened it.
THEOREM WorkGoesByWord == TreeSpec => []WorkIsKept
<1>1. TreeInv => WorkIsKept
    BY DEF TreeInv
<1> QED BY <1>1, TreeInvariant, PTL

\* What is deleted is deleted wholly, or not at all: a refused deletion of a project leaves every checkout, no thread is
\* left with a main session that is gone, no session that was used is pruned, and no session stays in a project that went.
THEOREM DeletionsAreWhole == TreeSpec => []DeletedWholly
<1>1. ASSUME TreeInv PROVE DeletedWholly
  <2>1. TreeTypeOK
    BY <1>1, TakingFacts DEF TreeInv, TreeTypes, Histories, TreeTypeOK, SessionRecord, Fits, OfOpened
  <2>2. UsedIsNotPruned
    BY <1>1 DEF TreeInv, Fits, Unused, UsedIsNotPruned
  <2> QED BY <1>1, <2>1, <2>2 DEF TreeInv, DeletedWholly
<1> QED BY <1>1, TreeInvariant, PTL
=============================================================================
