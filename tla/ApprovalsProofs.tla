--------------------------- MODULE ApprovalsProofs ---------------------------
(***************************************************************************)
(* For any commands, rounds, questions and answers under way: nothing of   *)
(* Approvals runs without a person's consent, and what a person allowed    *)
(* for good stays in the file.                                             *)
(***************************************************************************)
EXTENDS Approvals, FiniteSetTheorems, TLAPS

\* What covers a line: a yes to its question in this turn, to every command, or to its shapes.
Covered(l) ==
    \/ l \in said
    \/ l.asks = "command" /\ saidAuto
    \/ l.asks = "command" /\ KeysOf(l) # {} /\ KeysOf(l) \subseteq saidShapes

Questions == [id : Nat, lines : SUBSET Lines, batch : BOOLEAN, timed : BOOLEAN]
Replies   == [yes : BOOLEAN, scope : Scopes \union {"none"}]
Answers   == [id : Nat, lines : SUBSET Lines, yes : BOOLEAN, scope : Scopes, step : {"allow", "send"}]

OpenLines == {l \in {todo[i] : i \in DOMAIN todo} : l \notin inTurn}

TurnType ==
    /\ asker \in {"idle", "round", "batch", "line", "asking"}
    /\ todo \in Seq(Lines) /\ inTurn \subseteq Lines /\ declined \subseteq Lines
    /\ question \in Questions /\ reply \in Replies /\ lastId \in Nat

StandingType ==
    /\ answers \subseteq Answers
    /\ autoApprove \in BOOLEAN /\ hasPath \in BOOLEAN
    /\ ran \subseteq Lines /\ said \subseteq Lines /\ saidAuto \in BOOLEAN
    /\ heard.lines \subseteq Lines

\* There is a question exactly while the run is blocked on it, and it is the last one.
OneQuestion ==
    /\ asker = "asking" <=> question # NoQuestion
    /\ question # NoQuestion => question.id = lastId /\ lastId > 0 /\ question.lines # {}
    /\ reply # NoReply => question # NoQuestion
    /\ asker = "batch" => OpenLines # {}
    /\ asker = "asking" => question.batch \/ todo # <<>>

\* An answer under way is to a question that was asked, and a person said what it says.
AnswersAreSaid ==
    /\ reply.yes => question.lines \subseteq said
    /\ \A a \in answers :
         /\ a.id \in 1..lastId
         /\ a.yes /\ question # NoQuestion /\ a.id = question.id => a.lines = question.lines /\ a.lines \subseteq said
         /\ a.yes /\ a.step = "allow" /\ a.scope = "session" => saidAuto
         /\ a.yes /\ a.scope = "project" => \A l \in a.lines : KeysOf(l) \subseteq saidShapes

\* What stands was allowed by a person, and a store that knows its file holds what is in it.
StandingIsSaid ==
    /\ autoApprove => saidAuto
    /\ shapes \subseteq saidShapes /\ file \subseteq saidShapes
    /\ hasPath => file \subseteq shapes

\* What runs, and what would run again in this turn, is covered.
RunsAreCovered ==
    /\ asker # "idle" => \A l \in inTurn : Covered(l)
    /\ asker = "idle" => ran = {}
    /\ \A l \in ran : Covered(l)

AInv == TurnType /\ StandingType /\ OneQuestion /\ AnswersAreSaid /\ StandingIsSaid /\ RunsAreCovered

-----------------------------------------------------------------------------

LEMMA RecordFacts ==
    /\ NoQuestion \in Questions /\ NoReply \in Replies
    /\ \A i \in Nat, ls \in SUBSET Lines, b \in BOOLEAN, t \in BOOLEAN :
          [id |-> i, lines |-> ls, batch |-> b, timed |-> t] \in Questions
    /\ \A y \in BOOLEAN, sc \in Scopes : [yes |-> y, scope |-> sc] \in Replies
    /\ \A i \in Nat, ls \in SUBSET Lines, y \in BOOLEAN, sc \in Scopes :
          [id |-> i, lines |-> ls, yes |-> y, scope |-> sc, step |-> "allow"] \in Answers
    /\ \A a \in Answers : [a EXCEPT !.step = "send"] \in Answers /\ [a EXCEPT !.scope = "once"] \in Answers
    /\ \A r \in Replies : [r EXCEPT !.scope = "once"] \in Replies
BY DEF Questions, Replies, Answers, Scopes, NoQuestion, NoReply

LEMMA AInvInit == ApprovalsInit => AInv
  <1> SUFFICES ASSUME ApprovalsInit PROVE AInv
    OBVIOUS
  <1> USE RecordFacts DEF ApprovalsInit
  <1>1. TurnType
    BY DEF TurnType
  <1>2. StandingType
    BY DEF StandingType, NotHeard
  <1>3. OneQuestion
    BY DEF OneQuestion, NoReply
  <1>4. AnswersAreSaid
    BY DEF AnswersAreSaid, NoReply
  <1>5. StandingIsSaid
    BY DEF StandingIsSaid
  <1>6. RunsAreCovered
    BY DEF RunsAreCovered
  <1> QED
    BY <1>1, <1>2, <1>3, <1>4, <1>5, <1>6 DEF AInv

-----------------------------------------------------------------------------

\* What stands covers every line of a question it answers.
LEMMA StandingFacts ==
    ASSUME AInv, NEW ls \in SUBSET Lines, Standing(ls)
    PROVE  \A l \in ls : Covered(l)
BY DEF AInv, StandingIsSaid, Standing, Commands, Allowed, Covered

\* A round that goes on with an answer runs only what the answer covers.
LEMMA ResumeStep ==
    ASSUME AInv, NEW ls \in SUBSET Lines, NEW b \in BOOLEAN, NEW answer \in {"yes", "no", "error"},
           Resume(ls, b, answer), b \/ todo # <<>>, asker # "idle",
           answer = "yes" => \A l \in ls : Covered(l),
           question' = NoQuestion, reply' = NoReply, heard'.lines \subseteq Lines,
           UNCHANGED <<lastId, answers, standing, said, saidAuto, saidShapes>>
    PROVE  AInv'
  <1> USE RecordFacts DEF AInv, standing
  <1>1. TurnType'
    <2>1. todo' \in Seq(Lines)
      BY DEF TurnType, Resume
    <2> QED
      BY <2>1 DEF TurnType, Resume
  <1>2. StandingType'
    BY DEF StandingType, Resume
  <1>3. OneQuestion'
    BY DEF OneQuestion, Resume
  <1>4. AnswersAreSaid'
    BY DEF AnswersAreSaid, NoReply
  <1>5. StandingIsSaid'
    BY DEF StandingIsSaid
  <1>6. RunsAreCovered'
    <2>1. \A l \in inTurn' : Covered(l)
      BY DEF RunsAreCovered, Resume
    <2>2. \A l \in ran' : Covered(l)
      BY DEF Resume
    <2>3. asker' # "idle"
      BY DEF Resume
    <2>4. \A l : Covered(l)' <=> Covered(l)
      BY DEF Covered
    <2> QED
      BY <2>1, <2>2, <2>3, <2>4 DEF RunsAreCovered
  <1> QED
    BY <1>1, <1>2, <1>3, <1>4, <1>5, <1>6

\* A question is answered by what stands, opened under a new identifier, or cannot be asked.
LEMMA AskStep ==
    ASSUME AInv, NEW ls \in SUBSET Lines, NEW b \in BOOLEAN, ls # {}, Ask(ls, b),
           asker \in {"batch", "line"}, b \/ todo # <<>>,
           UNCHANGED <<answers, standing, said, saidAuto, saidShapes, heard>>
    PROVE  AInv'
  <1>1. question = NoQuestion /\ reply = NoReply
    BY DEF AInv, OneQuestion
  <1>2. heard.lines \subseteq Lines
    BY DEF AInv, StandingType
  <1>3. CASE Standing(ls)
    <2>1. Resume(ls, b, "yes") /\ UNCHANGED <<question, reply, lastId>>
      BY <1>3 DEF Ask
    <2> QED
      BY <1>1, <1>2, <1>3, <2>1, ResumeStep, StandingFacts
  <1>4. CASE Resume(ls, b, "error") /\ UNCHANGED <<question, reply, lastId>>
    BY <1>1, <1>2, <1>4, ResumeStep
  <1>5. ASSUME NEW t \in BOOLEAN, asker' = "asking", lastId' = lastId + 1, reply' = NoReply,
               question' = [id |-> lastId + 1, lines |-> ls, batch |-> b, timed |-> t],
               UNCHANGED <<inTurn, declined, todo, ran>>
        PROVE  AInv'
    <2> USE RecordFacts, <1>1, <1>5 DEF AInv, standing
    <2>1. TurnType'
      BY DEF TurnType
    <2>2. StandingType'
      BY DEF StandingType
    <2>3. OneQuestion'
      <3>1. question'.id = lastId' /\ lastId' > 0 /\ question'.lines # {}
        BY DEF TurnType
      <3>2. question' # NoQuestion
        BY <3>1 DEF NoQuestion
      <3> QED
        BY <3>1, <3>2 DEF OneQuestion
    <2>4. AnswersAreSaid'
      <3>1. \A a \in answers : a.id \in 1..lastId' /\ a.id # question'.id
        BY DEF AnswersAreSaid, TurnType
      <3> QED
        BY <3>1 DEF AnswersAreSaid, NoReply
    <2>5. StandingIsSaid'
      BY DEF StandingIsSaid
    <2>6. RunsAreCovered'
      BY DEF RunsAreCovered, Covered
    <2> QED
      BY <2>1, <2>2, <2>3, <2>4, <2>5, <2>6
  <1> QED
    BY <1>3, <1>4, <1>5 DEF Ask

-----------------------------------------------------------------------------

\* Every step keeps the invariant.
LEMMA AInvStep == AInv /\ [ApprovalsNext]_approvalsVars => AInv'
  <1> SUFFICES ASSUME AInv, [ApprovalsNext]_approvalsVars PROVE AInv'
    OBVIOUS
  <1> USE RecordFacts DEF AInv, standing, consent, turnOf
  <1>1. ASSUME Turn PROVE AInv'
    <2>1. TurnType'
      BY <1>1 DEF Turn, TurnType
    <2>2. StandingType'
      BY <1>1 DEF Turn, StandingType
    <2>3. OneQuestion'
      BY <1>1 DEF Turn, OneQuestion, OpenLines
    <2>4. AnswersAreSaid'
      BY <1>1 DEF Turn, AnswersAreSaid
    <2>5. StandingIsSaid'
      BY <1>1 DEF Turn, StandingIsSaid
    <2>6. RunsAreCovered'
      BY <1>1 DEF Turn, RunsAreCovered, Covered
    <2> QED
      BY <2>1, <2>2, <2>3, <2>4, <2>5, <2>6
  <1>2. ASSUME Propose PROVE AInv'
    <2>1. TurnType'
      <3>1. todo' \in Seq(Lines)
        BY <1>2, ApprovalsAssumption DEF Propose
      <3> QED
        BY <1>2, <3>1 DEF Propose, TurnType
    <2>2. StandingType'
      BY <1>2 DEF Propose, StandingType
    <2>3. OneQuestion'
      <3>1. asker' = "batch" => OpenLines' # {}
        BY <1>2, FS_EmptySet DEF Propose, OpenLines
      <3> QED
        BY <1>2, <3>1 DEF Propose, OneQuestion
    <2>4. AnswersAreSaid'
      BY <1>2 DEF Propose, AnswersAreSaid
    <2>5. StandingIsSaid'
      BY <1>2 DEF Propose, StandingIsSaid
    <2>6. RunsAreCovered'
      BY <1>2 DEF Propose, RunsAreCovered, Covered
    <2> QED
      BY <2>1, <2>2, <2>3, <2>4, <2>5, <2>6
  <1>3. ASSUME AskRound PROVE AInv'
    <2>1. OpenLines \in SUBSET Lines /\ OpenLines # {}
      BY <1>3 DEF AskRound, OpenLines, TurnType, OneQuestion
    <2>2. Ask(OpenLines, TRUE)
      BY <1>3 DEF AskRound, OpenLines
    <2> QED
      BY <1>3, <2>1, <2>2, AskStep DEF AskRound
  <1>4. ASSUME AskLine PROVE AInv'
    <2> DEFINE l == Head(todo)
    <2>1. asker = "line" /\ todo # <<>> /\ l \in Lines
      BY <1>4 DEF AskLine, TurnType
    <2>2. question = NoQuestion /\ reply = NoReply
      BY <2>1 DEF OneQuestion
    <2>3. UNCHANGED <<answers, standing, said, saidAuto, saidShapes, heard>>
      BY <1>4 DEF AskLine
    <2>4. CASE l \in inTurn \/ l \in declined
      <3>1. Resume({l}, FALSE, IF l \in inTurn THEN "yes" ELSE "no") /\ UNCHANGED <<question, reply, lastId>>
        BY <1>4, <2>4 DEF AskLine
      <3>2. l \in inTurn => Covered(l)
        BY <2>1 DEF RunsAreCovered
      <3>3. heard'.lines \subseteq Lines
        BY <2>3 DEF StandingType
      <3>4. CASE l \in inTurn
        <4>1. Resume({l}, FALSE, "yes")
          BY <3>1, <3>4
        <4> HIDE DEF l
        <4> QED
          BY <2>1, <2>2, <2>3, <3>1, <3>2, <3>3, <3>4, <4>1, ResumeStep
      <3>5. CASE l \notin inTurn
        <4>1. Resume({l}, FALSE, "no")
          BY <3>1, <3>5
        <4> HIDE DEF l
        <4> QED
          BY <2>1, <2>2, <2>3, <3>1, <3>3, <4>1, ResumeStep
      <3> QED
        BY <3>4, <3>5
    <2>5. CASE ~(l \in inTurn \/ l \in declined)
      <3>1. Ask({l}, FALSE)
        BY <1>4, <2>5 DEF AskLine
      <3> HIDE DEF l
      <3> QED
        BY <2>1, <2>3, <3>1, AskStep
    <2> QED
      BY <2>4, <2>5
  <1>5. ASSUME RoundEnds PROVE AInv'
    <2>1. TurnType'
      BY <1>5 DEF RoundEnds, ForgetConsent, TurnType
    <2>2. StandingType'
      BY <1>5 DEF RoundEnds, ForgetConsent, StandingType, NotHeard
    <2>3. OneQuestion'
      BY <1>5 DEF RoundEnds, ForgetConsent, OneQuestion
    <2>4. AnswersAreSaid'
      BY <1>5 DEF RoundEnds, ForgetConsent, AnswersAreSaid, OneQuestion, NoReply
    <2>5. StandingIsSaid'
      BY <1>5 DEF RoundEnds, ForgetConsent, StandingIsSaid
    <2>6. RunsAreCovered'
      BY <1>5 DEF RoundEnds, ForgetConsent, RunsAreCovered, Covered
    <2> QED
      BY <2>1, <2>2, <2>3, <2>4, <2>5, <2>6
  <1>6. ASSUME Answered PROVE AInv'
    <2> DEFINE answer == IF reply.yes THEN "yes" ELSE "no"
    <2>1. asker = "asking" /\ question \in Questions /\ question.lines # {}
      BY <1>6 DEF Answered, TurnType, OneQuestion
    <2>2. question.lines \in SUBSET Lines /\ question.batch \in BOOLEAN
      BY <2>1 DEF Questions
    <2>3. answer \in {"yes", "no", "error"} /\ Resume(question.lines, question.batch, answer)
      BY <1>6 DEF Answered
    <2>4. answer = "yes" => \A l \in question.lines : Covered(l)
      BY DEF AnswersAreSaid, Covered
    <2>5. heard'.lines \subseteq Lines
      BY <1>6, <2>2 DEF Answered, StandingType
    <2>6. question.batch \/ todo # <<>>
      BY <2>1 DEF OneQuestion
    <2> HIDE DEF answer
    <2> QED
      BY <1>6, <2>1, <2>2, <2>3, <2>4, <2>5, <2>6, ResumeStep DEF Answered
  <1>7. ASSUME Expires PROVE AInv'
    <2>1. asker = "asking" /\ question \in Questions
      BY <1>7 DEF Expires, TurnType
    <2>2. question.lines \in SUBSET Lines /\ question.batch \in BOOLEAN
      BY <2>1 DEF Questions
    <2>3. question.batch \/ todo # <<>>
      BY <2>1 DEF OneQuestion
    <2> QED
      BY <1>7, <2>1, <2>2, <2>3, ResumeStep DEF Expires, StandingType
  <1>8. ASSUME CancelTurn PROVE AInv'
    <2>1. TurnType'
      BY <1>8 DEF CancelTurn, ForgetConsent, TurnType
    <2>2. StandingType'
      BY <1>8 DEF CancelTurn, ForgetConsent, StandingType, NotHeard
    <2>3. OneQuestion'
      BY <1>8 DEF CancelTurn, ForgetConsent, OneQuestion, NoReply
    <2>4. AnswersAreSaid'
      BY <1>8 DEF CancelTurn, ForgetConsent, AnswersAreSaid, NoReply
    <2>5. StandingIsSaid'
      BY <1>8 DEF CancelTurn, ForgetConsent, StandingIsSaid
    <2>6. RunsAreCovered'
      BY <1>8 DEF CancelTurn, ForgetConsent, RunsAreCovered, Covered
    <2> QED
      BY <2>1, <2>2, <2>3, <2>4, <2>5, <2>6
  <1>9. ASSUME NEW l \in Lines, AskBackground(l) PROVE AInv'
    <2>1. TurnType'
      BY <1>9 DEF AskBackground, TurnType
    <2>2. StandingType'
      BY <1>9 DEF AskBackground, StandingType
    <2>3. OneQuestion'
      BY <1>9 DEF AskBackground, OneQuestion, OpenLines
    <2>4. AnswersAreSaid'
      BY <1>9 DEF AskBackground, AnswersAreSaid
    <2>5. StandingIsSaid'
      BY <1>9 DEF AskBackground, StandingIsSaid
    <2>6. RunsAreCovered'
      <3>1. \A k \in {l} : Covered(k)
        BY <1>9, StandingFacts DEF AskBackground
      <3> QED
        BY <1>9, <3>1 DEF AskBackground, RunsAreCovered, Covered
    <2> QED
      BY <2>1, <2>2, <2>3, <2>4, <2>5, <2>6
  <1>10. ASSUME NEW yes \in BOOLEAN, NEW scope \in Scopes, GiveAnswer(yes, scope) PROVE AInv'
    <2>1. TurnType'
      BY <1>10 DEF GiveAnswer, TurnType
    <2>2. StandingType'
      <3>1. question.id \in Nat /\ question.lines \in SUBSET Lines
        BY DEF TurnType, Questions
      <3>2. answers' \subseteq Answers
        BY <1>10, <3>1 DEF GiveAnswer, StandingType
      <3> QED
        BY <1>10, <3>1, <3>2 DEF GiveAnswer, StandingType
    <2>3. OneQuestion'
      BY <1>10 DEF GiveAnswer, OneQuestion, OpenLines
    <2>4. AnswersAreSaid'
      <3> DEFINE new == [id |-> question.id, lines |-> question.lines, yes |-> yes, scope |-> scope, step |-> "allow"]
      <3>1. answers' = answers \union {new} /\ said \subseteq said' /\ saidShapes \subseteq saidShapes'
        BY <1>10 DEF GiveAnswer
      <3>2. (yes => question.lines \subseteq said') /\ (yes /\ scope = "session" => saidAuto') /\ (saidAuto => saidAuto')
        BY <1>10 DEF GiveAnswer
      <3>3. yes /\ scope = "project" => \A l \in question.lines : KeysOf(l) \subseteq saidShapes'
        BY <1>10 DEF GiveAnswer
      <3>4. UNCHANGED <<question, reply, lastId>> /\ question.id = lastId /\ lastId \in Nat /\ lastId > 0
        BY <1>10 DEF GiveAnswer, OneQuestion, TurnType
      <3>5. \A a \in answers :
              /\ a.id \in 1..lastId'
              /\ a.yes /\ question' # NoQuestion /\ a.id = question'.id => a.lines = question'.lines /\ a.lines \subseteq said'
              /\ a.yes /\ a.step = "allow" /\ a.scope = "session" => saidAuto'
              /\ a.yes /\ a.scope = "project" => \A l \in a.lines : KeysOf(l)' \subseteq saidShapes'
        BY <3>1, <3>2, <3>4 DEF AnswersAreSaid, KeysOf
      <3>6. /\ new.id \in 1..lastId'
            /\ new.yes /\ question' # NoQuestion /\ new.id = question'.id => new.lines = question'.lines /\ new.lines \subseteq said'
            /\ new.yes /\ new.step = "allow" /\ new.scope = "session" => saidAuto'
            /\ new.yes /\ new.scope = "project" => \A l \in new.lines : KeysOf(l)' \subseteq saidShapes'
        BY <3>2, <3>3, <3>4 DEF KeysOf
      <3>7. reply'.yes => question'.lines \subseteq said'
        BY <3>1, <3>4 DEF AnswersAreSaid
      <3> HIDE DEF new
      <3> QED
        BY <3>1, <3>5, <3>6, <3>7 DEF AnswersAreSaid
    <2>5. StandingIsSaid'
      BY <1>10 DEF GiveAnswer, StandingIsSaid
    <2>6. RunsAreCovered'
      BY <1>10 DEF GiveAnswer, RunsAreCovered, Covered
    <2> QED
      BY <2>1, <2>2, <2>3, <2>4, <2>5, <2>6
  <1>11. ASSUME NEW on \in BOOLEAN, SetAuto(on) PROVE AInv'
    <2>1. TurnType'
      BY <1>11 DEF SetAuto, TurnType
    <2>2. StandingType'
      <3>1. answers' \subseteq Answers
        BY <1>11 DEF SetAuto, StandingType
      <3>2. heard'.lines \subseteq Lines /\ saidAuto' \in BOOLEAN /\ autoApprove' \in BOOLEAN
        <4>1. heard'.lines = heard.lines
          BY <1>11 DEF SetAuto
        <4> QED
          BY <1>11, <4>1 DEF SetAuto, StandingType
      <3> QED
        BY <1>11, <3>1, <3>2 DEF SetAuto, StandingType
    <2>3. OneQuestion'
      <3>1. reply' # NoReply => reply # NoReply
        <4>1. reply = NoReply => reply.scope # "session"
          BY DEF NoReply
        <4> QED
          BY <1>11, <4>1 DEF SetAuto
      <3> QED
        BY <1>11, <3>1 DEF SetAuto, OneQuestion, OpenLines
    <2>4. AnswersAreSaid'
      BY <1>11 DEF SetAuto, AnswersAreSaid, StandingType, Answers
    <2>5. StandingIsSaid'
      BY <1>11 DEF SetAuto, StandingIsSaid
    <2>6. RunsAreCovered'
      BY <1>11 DEF SetAuto, RunsAreCovered, Covered
    <2> QED
      BY <2>1, <2>2, <2>3, <2>4, <2>5, <2>6
  <1>12. ASSUME NEW l \in Lines, AllowShell(l) PROVE AInv'
    <2>1. TurnType'
      BY <1>12 DEF AllowShell, RememberAll, TurnType
    <2>2. StandingType'
      BY <1>12 DEF AllowShell, RememberAll, StandingType
    <2>3. OneQuestion'
      BY <1>12 DEF AllowShell, RememberAll, OneQuestion, OpenLines
    <2>4. AnswersAreSaid'
      BY <1>12 DEF AllowShell, RememberAll, AnswersAreSaid
    <2>5. StandingIsSaid'
      BY <1>12 DEF AllowShell, RememberAll, StandingIsSaid
    <2>6. RunsAreCovered'
      BY <1>12 DEF AllowShell, RememberAll, RunsAreCovered, Covered
    <2> QED
      BY <2>1, <2>2, <2>3, <2>4, <2>5, <2>6
  <1>13. ASSUME NEW a \in answers, Deliver(a) PROVE AInv'
    <2>1. TurnType'
      BY <1>13 DEF Deliver, RememberAll, TurnType, StandingType, Answers, Replies
    <2>2. StandingType'
      BY <1>13 DEF Deliver, RememberAll, StandingType
    <2>3. OneQuestion'
      <3>1. UNCHANGED <<asker, todo, inTurn, question, lastId>>
        BY <1>13 DEF Deliver
      <3>2. reply' = reply \/ (question.id = a.id /\ a.id > 0)
        BY <1>13 DEF Deliver, AnswersAreSaid
      <3>3. reply' # NoReply => question # NoQuestion
        BY <3>2 DEF OneQuestion, NoQuestion
      <3> QED
        BY <3>1, <3>3 DEF OneQuestion, OpenLines
    <2>4. AnswersAreSaid'
      <3> DEFINE sent == [a EXCEPT !.step = "send"]
      <3>1. a \in Answers /\ UNCHANGED <<question, lastId, said, saidAuto, saidShapes>> /\ answers' \subseteq answers \union {sent}
        BY <1>13 DEF Deliver, StandingType
      <3>2. sent.id = a.id /\ sent.lines = a.lines /\ sent.yes = a.yes /\ sent.scope = a.scope /\ sent.step = "send"
        BY <3>1 DEF Answers
      <3>3. \A b \in answers \union {sent} :
              /\ b.id \in 1..lastId
              /\ b.yes /\ question # NoQuestion /\ b.id = question.id => b.lines = question.lines /\ b.lines \subseteq said
              /\ b.yes /\ b.step = "allow" /\ b.scope = "session" => saidAuto
              /\ b.yes /\ b.scope = "project" => \A l \in b.lines : KeysOf(l) \subseteq saidShapes
        <4> HIDE DEF sent
        <4> QED
          BY <1>13, <3>2 DEF AnswersAreSaid
      <3>4. reply' = reply \/ (reply' = [yes |-> a.yes, scope |-> a.scope] /\ question.id = a.id /\ a.id > 0)
        BY <1>13 DEF Deliver, AnswersAreSaid
      <3>5. reply'.yes => question.lines \subseteq said
        BY <1>13, <3>4 DEF AnswersAreSaid, NoQuestion
      <3> HIDE DEF sent
      <3> QED
        BY <3>1, <3>3, <3>5 DEF AnswersAreSaid, KeysOf
    <2>5. StandingIsSaid'
      <3>1. autoApprove' => saidAuto'
        BY <1>13 DEF Deliver, StandingIsSaid, AnswersAreSaid
      <3>2. CASE UNCHANGED <<shapes, file>>
        BY <1>13, <3>1, <3>2 DEF Deliver, StandingIsSaid
      <3>3. CASE a.yes /\ a.scope = "project" /\ RememberAll(UNION {KeysOf(l) : l \in a.lines})
        <4>1. UNION {KeysOf(l) : l \in a.lines} \subseteq saidShapes
          BY <1>13, <3>3 DEF AnswersAreSaid
        <4>2. \A keys : keys \subseteq saidShapes /\ RememberAll(keys) =>
                 shapes' \subseteq saidShapes /\ file' \subseteq saidShapes /\ (hasPath => file' \subseteq shapes')
          BY DEF RememberAll, StandingIsSaid
        <4> QED
          BY <1>13, <3>1, <3>3, <4>1, <4>2 DEF Deliver, StandingIsSaid
      <3> QED
        BY <1>13, <3>2, <3>3 DEF Deliver
    <2>6. RunsAreCovered'
      BY <1>13 DEF Deliver, RememberAll, RunsAreCovered, Covered
    <2> QED
      BY <2>1, <2>2, <2>3, <2>4, <2>5, <2>6
  <1>14. ASSUME Reopen PROVE AInv'
    <2>1. TurnType'
      BY <1>14 DEF Reopen, ForgetConsent, TurnType
    <2>2. StandingType'
      BY <1>14 DEF Reopen, ForgetConsent, StandingType, NotHeard
    <2>3. OneQuestion'
      BY <1>14 DEF Reopen, ForgetConsent, OneQuestion, NoReply
    <2>4. AnswersAreSaid'
      BY <1>14 DEF Reopen, ForgetConsent, AnswersAreSaid, NoReply
    <2>5. StandingIsSaid'
      BY <1>14 DEF Reopen, ForgetConsent, StandingIsSaid
    <2>6. RunsAreCovered'
      BY <1>14 DEF Reopen, ForgetConsent, RunsAreCovered, Covered
    <2> QED
      BY <2>1, <2>2, <2>3, <2>4, <2>5, <2>6
  <1>15. ASSUME UNCHANGED approvalsVars PROVE AInv'
    <2>1. TurnType'
      BY <1>15 DEF approvalsVars, TurnType
    <2>2. StandingType'
      BY <1>15 DEF approvalsVars, StandingType
    <2>3. OneQuestion'
      BY <1>15 DEF approvalsVars, OneQuestion, OpenLines
    <2>4. AnswersAreSaid'
      BY <1>15 DEF approvalsVars, AnswersAreSaid
    <2>5. StandingIsSaid'
      BY <1>15 DEF approvalsVars, StandingIsSaid
    <2>6. RunsAreCovered'
      BY <1>15 DEF approvalsVars, RunsAreCovered, Covered
    <2> QED
      BY <2>1, <2>2, <2>3, <2>4, <2>5, <2>6
  <1> QED
    BY <1>1, <1>2, <1>3, <1>4, <1>5, <1>6, <1>7, <1>8, <1>9, <1>10, <1>11, <1>12, <1>13, <1>14, <1>15
       DEF ApprovalsNext, AskerStep, PersonStep, Scopes

LEMMA AInvAlways == ApprovalsSpec => []AInv
  <1> QED
    BY AInvInit, AInvStep, PTL DEF ApprovalsSpec

-----------------------------------------------------------------------------

\* Type correctness: one question at a time, which is the last one given an identifier.
THEOREM ApprovalsTypeCorrect == ApprovalsSpec => []ApprovalsTypeOK
  <1>1. AInv => ApprovalsTypeOK
    BY DEF AInv, TurnType, StandingType, OneQuestion, AnswersAreSaid, Questions, Replies, Answers, ApprovalsTypeOK
  <1> QED
    BY <1>1, AInvAlways, PTL

\* Silence is not consent: whatever answers are late, doubled or for an earlier question, only
\* what a person allowed runs.
THEOREM SilenceIsNotConsent == ApprovalsSpec => []RanWasAllowed
  <1>1. AInv => RanWasAllowed
    BY DEF AInv, RunsAreCovered, Covered, RanWasAllowed
  <1> QED
    BY <1>1, AInvAlways, PTL

\* What is in the file stays in it: a store that may write it holds all of it.
THEOREM AllowedForGood == ApprovalsSpec => NothingForgotten
  <1>1. AInv /\ [ApprovalsNext]_approvalsVars => [file \subseteq file']_approvalsVars
    <2> SUFFICES ASSUME AInv, ApprovalsNext PROVE file \subseteq file'
      BY DEF approvalsVars, standing
    <2> USE DEF standing, AInv, StandingIsSaid
    <2>1. ASSUME NEW keys, RememberAll(keys) PROVE file \subseteq file'
      BY <2>1 DEF RememberAll
    <2>2. CASE UNCHANGED file
      BY <2>2
    <2>3. ASSUME AskerStep \/ CancelTurn \/ (\E l \in Lines : AskBackground(l)) PROVE UNCHANGED file
      BY <2>3 DEF AskerStep, Turn, Propose, AskRound, AskLine, RoundEnds, Answered, Expires, CancelTurn, AskBackground
    <2>4. ASSUME NEW yes, NEW scope, GiveAnswer(yes, scope) PROVE UNCHANGED file
      BY <2>4 DEF GiveAnswer
    <2>5. ASSUME NEW on, SetAuto(on) PROVE UNCHANGED file
      BY <2>5 DEF SetAuto
    <2>6. ASSUME NEW l, AllowShell(l) PROVE file \subseteq file'
      BY <2>1, <2>6 DEF AllowShell
    <2>7. ASSUME NEW a, Deliver(a) PROVE file \subseteq file'
      BY <2>1, <2>7 DEF Deliver
    <2>8. ASSUME Reopen PROVE UNCHANGED file
      BY <2>8 DEF Reopen
    <2> QED
      BY <2>2, <2>3, <2>4, <2>5, <2>6, <2>7, <2>8 DEF ApprovalsNext, PersonStep
  <1> QED
    BY <1>1, AInvAlways, PTL DEF ApprovalsSpec, NothingForgotten

-----------------------------------------------------------------------------
(* What a run has heard is in force.                                        *)

\* What a run was told of this turn stands: for the turn, the session or the project.
HeardStands ==
    /\ heard = [lines |-> heard.lines, auto |-> heard.auto, shapes |-> heard.shapes]
    /\ heard.auto => autoApprove
    /\ heard.shapes \subseteq shapes
    /\ \A l \in heard.lines : l.asks = "command" => l \in inTurn
    /\ asker = "idle" => heard = NotHeard

\* What an answer allows was allowed before the answer is in the channel.
SetBeforeSent ==
    /\ reply.yes /\ reply.scope = "session" => autoApprove
    /\ reply.yes /\ reply.scope = "project" => \A l \in question.lines : KeysOf(l) \subseteq shapes
    /\ \A a \in answers : a.yes /\ a.step = "send" =>
         /\ a.scope = "session" => autoApprove
         /\ a.scope = "project" => \A l \in a.lines : KeysOf(l) \subseteq shapes

HInv == HeardStands /\ SetBeforeSent /\ NotAskedAgain

\* A turn hears nothing before its first answer.
LEMMA HInvInit == ApprovalsInit => HInv
  BY DEF ApprovalsInit, HInv, HeardStands, SetBeforeSent, NotAskedAgain, NotHeard, NoReply

\* A round that goes on, with an answer or without, knows what it heard.
LEMMA ResumeHears ==
    ASSUME AInv, HInv, NEW ls \in SUBSET Lines, NEW b \in BOOLEAN, NEW answer \in {"yes", "no", "error"},
           Resume(ls, b, answer), question' = NoQuestion, reply' = NoReply,
           UNCHANGED <<answers, autoApprove, shapes>>, asker # "idle",
           heard' = [lines |-> heard'.lines, auto |-> heard'.auto, shapes |-> heard'.shapes],
           heard'.auto => autoApprove, heard'.shapes \subseteq shapes,
           heard'.lines \subseteq IF answer = "yes" THEN heard.lines \union ls ELSE heard.lines
    PROVE  HInv'
  <1>1. HeardStands'
    <2>1. \A l \in heard'.lines : l.asks = "command" => l \in inTurn'
      BY DEF HInv, HeardStands, Resume
    <2>2. asker' = "line"
      BY DEF Resume
    <2> QED
      BY <2>1, <2>2 DEF HeardStands
  <1>2. SetBeforeSent'
    BY DEF HInv, SetBeforeSent, NoReply, KeysOf
  <1>3. NotAskedAgain'
    BY DEF NotAskedAgain
  <1> QED
    BY <1>1, <1>2, <1>3 DEF HInv

\* A question is opened only for what neither the turn nor what stands covers.
LEMMA AskHears ==
    ASSUME AInv, HInv, NEW ls \in SUBSET Lines, NEW b \in BOOLEAN, Ask(ls, b), ls # {}, ls \intersect inTurn = {},
           asker \in {"batch", "line"}, UNCHANGED <<answers, autoApprove, shapes, heard>>
    PROVE  HInv'
  <1>1. question = NoQuestion /\ reply = NoReply
    BY DEF AInv, OneQuestion
  <1>2. /\ heard' = [lines |-> heard'.lines, auto |-> heard'.auto, shapes |-> heard'.shapes]
        /\ heard'.auto => autoApprove
        /\ heard'.shapes \subseteq shapes /\ heard'.lines = heard.lines
    BY DEF HInv, HeardStands
  <1>3. ASSUME NEW answer \in {"yes", "no", "error"}, Resume(ls, b, answer), UNCHANGED <<question, reply, lastId>> PROVE HInv'
    BY <1>1, <1>2, <1>3, ResumeHears
  <1>4. ASSUME ~Standing(ls), NEW t \in BOOLEAN, asker' = "asking", reply' = NoReply,
               question' = [id |-> lastId + 1, lines |-> ls, batch |-> b, timed |-> t], UNCHANGED inTurn
        PROVE  HInv'
    <2>1. HeardStands'
      BY <1>4 DEF HInv, HeardStands
    <2>2. SetBeforeSent'
      BY <1>4 DEF HInv, SetBeforeSent, NoReply, KeysOf
    <2>3. NotAskedAgain'
      <3> SUFFICES ASSUME Commands(ls)
                   PROVE  /\ ~heard.auto
                          /\ ~(ls \subseteq heard.lines)
                          /\ \E l \in ls : KeysOf(l) = {} \/ ~(KeysOf(l) \subseteq heard.shapes)
        BY <1>4 DEF NotAskedAgain, Commands, KeysOf
      <3>1. ~autoApprove /\ \E l \in ls : ~Allowed(l)
        BY <1>4 DEF Standing
      <3>2. ~heard.auto
        BY <3>1 DEF HInv, HeardStands
      <3>3. ~(ls \subseteq heard.lines)
        BY DEF HInv, HeardStands, Commands
      <3>4. \E l \in ls : KeysOf(l) = {} \/ ~(KeysOf(l) \subseteq heard.shapes)
        BY <3>1 DEF Allowed, HInv, HeardStands
      <3> QED
        BY <3>2, <3>3, <3>4
    <2> QED
      BY <2>1, <2>2, <2>3 DEF HInv
  <1> QED
    BY <1>3, <1>4 DEF Ask

\* Every step keeps what was heard in force.
LEMMA HInvStep == AInv /\ HInv /\ [ApprovalsNext]_approvalsVars => HInv'
  <1> SUFFICES ASSUME AInv, HInv, [ApprovalsNext]_approvalsVars PROVE HInv'
    OBVIOUS
  \* A step that leaves the question, and takes back nothing that stands.
  <1>a. ASSUME UNCHANGED <<question, reply, answers, heard, inTurn>>, autoApprove => autoApprove', shapes \subseteq shapes',
               asker' = "idle" => asker = "idle" \/ heard = NotHeard
        PROVE  HInv'
    <2>1. HeardStands'
      BY <1>a DEF HInv, HeardStands
    <2>2. SetBeforeSent'
      BY <1>a DEF HInv, SetBeforeSent, KeysOf
    <2>3. NotAskedAgain'
      BY <1>a DEF HInv, NotAskedAgain, Commands, KeysOf
    <2> QED
      BY <2>1, <2>2, <2>3 DEF HInv
  \* A step that forgets what was heard, and the question with it.
  <1>b. ASSUME question' = NoQuestion, reply' = NoReply, heard' = NotHeard, answers' = {} \/ UNCHANGED <<answers, autoApprove, shapes>>
        PROVE  HInv'
    <2>1. HeardStands'
      BY <1>b DEF HeardStands, NotHeard
    <2>2. SetBeforeSent'
      BY <1>b DEF HInv, SetBeforeSent, NoReply, KeysOf
    <2>3. NotAskedAgain'
      BY <1>b DEF NotAskedAgain
    <2> QED
      BY <2>1, <2>2, <2>3 DEF HInv
  <1> USE DEF standing, consent, turnOf
  <1>1. ASSUME Turn PROVE HInv'
    <2>1. heard = NotHeard /\ question = NoQuestion /\ reply = NoReply
      BY <1>1 DEF Turn, HInv, HeardStands, AInv, OneQuestion
    <2> QED
      BY <1>1, <1>b, <2>1 DEF Turn
  <1>2. ASSUME Propose PROVE HInv'
    BY <1>2, <1>a DEF Propose
  <1>3. ASSUME AskRound PROVE HInv'
    <2>1. OpenLines \in SUBSET Lines /\ OpenLines # {} /\ OpenLines \intersect inTurn = {}
      BY <1>3 DEF AskRound, OpenLines, AInv, TurnType, OneQuestion
    <2>2. Ask(OpenLines, TRUE)
      BY <1>3 DEF AskRound, OpenLines
    <2> QED
      BY <1>3, <2>1, <2>2, AskHears DEF AskRound
  <1>4. ASSUME AskLine PROVE HInv'
    <2> DEFINE l == Head(todo)
    <2>1. asker = "line" /\ todo # <<>> /\ l \in Lines
      BY <1>4 DEF AskLine, AInv, TurnType
    <2>2. question = NoQuestion /\ reply = NoReply
      BY <2>1 DEF AInv, OneQuestion
    <2>3. UNCHANGED <<answers, autoApprove, shapes, heard>>
      BY <1>4 DEF AskLine
    <2>4. CASE l \in inTurn \/ l \in declined
      <3>1. Resume({l}, FALSE, IF l \in inTurn THEN "yes" ELSE "no") /\ UNCHANGED <<question, reply, lastId>>
        BY <1>4, <2>4 DEF AskLine
      <3>2. PICK answer \in {"yes", "no", "error"} : answer = IF l \in inTurn THEN "yes" ELSE "no"
        OBVIOUS
      <3>3. /\ heard' = [lines |-> heard'.lines, auto |-> heard'.auto, shapes |-> heard'.shapes]
            /\ heard'.auto => autoApprove
            /\ heard'.shapes \subseteq shapes /\ heard'.lines = heard.lines
        BY <2>3 DEF HInv, HeardStands
      <3> HIDE DEF l
      <3> QED
        BY <2>1, <2>2, <2>3, <3>1, <3>2, <3>3, ResumeHears
    <2>5. CASE ~(l \in inTurn \/ l \in declined)
      <3>1. Ask({l}, FALSE)
        BY <1>4, <2>5 DEF AskLine
      <3> HIDE DEF l
      <3> QED
        BY <2>1, <2>3, <2>5, <3>1, AskHears
    <2> QED
      BY <2>4, <2>5
  <1>5. ASSUME RoundEnds PROVE HInv'
    <2>1. question = NoQuestion /\ reply = NoReply
      BY <1>5 DEF RoundEnds, AInv, OneQuestion
    <2>2. CASE asker' = "round" /\ UNCHANGED heard
      BY <1>5, <1>a, <2>2 DEF RoundEnds
    <2>3. CASE heard' = NotHeard
      BY <1>5, <1>b, <2>1, <2>3 DEF RoundEnds
    <2> QED
      BY <1>5, <2>2, <2>3 DEF RoundEnds, ForgetConsent
  <1>6. ASSUME Answered PROVE HInv'
    <2> DEFINE answer == IF reply.yes THEN "yes" ELSE "no"
    <2>1. asker = "asking" /\ question.lines \in SUBSET Lines /\ question.batch \in BOOLEAN
      BY <1>6 DEF Answered, AInv, TurnType, Questions
    <2>2. answer \in {"yes", "no", "error"} /\ Resume(question.lines, question.batch, answer)
      BY <1>6 DEF Answered
    <2>3. question' = NoQuestion /\ reply' = NoReply /\ UNCHANGED <<answers, autoApprove, shapes>>
      BY <1>6 DEF Answered
    <2>4. CASE ~reply.yes
      <3>1. heard' = heard
        BY <1>6, <2>4 DEF Answered
      <3>2. /\ heard' = [lines |-> heard'.lines, auto |-> heard'.auto, shapes |-> heard'.shapes]
            /\ heard'.auto => autoApprove
            /\ heard'.shapes \subseteq shapes /\ heard'.lines = heard.lines
        BY <3>1 DEF HInv, HeardStands
      <3> HIDE DEF answer
      <3> QED
        BY <2>1, <2>2, <2>3, <3>2, ResumeHears
    <2>5. CASE reply.yes
      <3> DEFINE keys == UNION {KeysOf(l) : l \in question.lines}
      <3>0. heard' = [lines  |-> heard.lines \union question.lines,
                      auto   |-> heard.auto \/ reply.scope = "session",
                      shapes |-> IF reply.scope = "project" THEN heard.shapes \union keys ELSE heard.shapes]
        BY <1>6, <2>5 DEF Answered
      <3>1. heard' = [lines |-> heard'.lines, auto |-> heard'.auto, shapes |-> heard'.shapes]
        BY <3>0
      <3>2. heard'.auto => autoApprove
        BY <2>5, <3>0 DEF HInv, HeardStands, SetBeforeSent
      <3>3. heard'.shapes \subseteq shapes
        <4>1. heard'.shapes \subseteq heard.shapes \union keys /\ (reply.scope # "project" => heard'.shapes = heard.shapes)
          BY <3>0
        <4>2. reply.scope = "project" => keys \subseteq shapes
          BY <2>5 DEF HInv, SetBeforeSent
        <4> QED
          BY <4>1, <4>2 DEF HInv, HeardStands
      <3>4. heard'.lines \subseteq IF answer = "yes" THEN heard.lines \union question.lines ELSE heard.lines
        BY <2>5, <3>0
      <3> HIDE DEF answer, keys
      <3> QED
        BY <2>1, <2>2, <2>3, <3>1, <3>2, <3>3, <3>4, ResumeHears
    <2> QED
      BY <2>4, <2>5
  <1>7. ASSUME Expires PROVE HInv'
    <2>1. asker = "asking" /\ question.lines \in SUBSET Lines /\ question.batch \in BOOLEAN
      BY <1>7 DEF Expires, AInv, TurnType, Questions
    <2>2. /\ heard' = [lines |-> heard'.lines, auto |-> heard'.auto, shapes |-> heard'.shapes]
          /\ heard'.auto => autoApprove
          /\ heard'.shapes \subseteq shapes /\ heard'.lines = heard.lines
      BY <1>7 DEF Expires, HInv, HeardStands
    <2> QED
      BY <1>7, <2>1, <2>2, ResumeHears DEF Expires
  <1>8. ASSUME CancelTurn PROVE HInv'
    BY <1>8, <1>b DEF CancelTurn, ForgetConsent
  <1>9. ASSUME NEW l \in Lines, AskBackground(l) PROVE HInv'
    BY <1>9, <1>a DEF AskBackground
  <1>10. ASSUME NEW yes \in BOOLEAN, NEW scope \in Scopes, GiveAnswer(yes, scope) PROVE HInv'
    <2>1. UNCHANGED <<question, reply, heard, inTurn, asker, autoApprove, shapes>>
          /\ \A a \in answers' : a \in answers \/ a.step = "allow"
      BY <1>10 DEF GiveAnswer
    <2>2. HeardStands' /\ NotAskedAgain'
      BY <2>1 DEF HInv, HeardStands, NotAskedAgain, Commands, KeysOf
    <2>3. SetBeforeSent'
      BY <2>1 DEF HInv, SetBeforeSent, KeysOf
    <2> QED
      BY <2>2, <2>3 DEF HInv
  <1>11. ASSUME NEW on \in BOOLEAN, SetAuto(on) PROVE HInv'
    <2>1. /\ UNCHANGED <<question, inTurn, asker, shapes>>
          /\ heard' = [lines |-> heard.lines, auto |-> FALSE, shapes |-> heard.shapes]
      BY <1>11 DEF SetAuto, HInv, HeardStands
    <2>2. HeardStands'
      <3>1. /\ heard'.lines = heard.lines /\ heard'.auto = FALSE /\ heard'.shapes = heard.shapes
            /\ heard' = [lines |-> heard'.lines, auto |-> heard'.auto, shapes |-> heard'.shapes]
        BY <2>1
      <3>2. ASSUME asker' = "idle" PROVE heard' = NotHeard
        <4>1. heard.lines = {} /\ heard.shapes = {}
          BY <2>1, <3>2 DEF HInv, HeardStands, NotHeard
        <4> QED
          BY <2>1, <4>1 DEF NotHeard
      <3>3. \A l \in heard.lines : l.asks = "command" => l \in inTurn
        BY DEF HInv, HeardStands
      <3>4. heard.shapes \subseteq shapes
        BY DEF HInv, HeardStands
      <3> QED
        BY <2>1, <3>1, <3>2, <3>3, <3>4 DEF HeardStands
    <2>3. NotAskedAgain'
      BY <2>1 DEF HInv, NotAskedAgain, Commands, KeysOf
    <2>4. SetBeforeSent'
      <3>1. reply'.scope # "session" /\ (reply'.scope = "project" => reply' = reply)
        BY <1>11 DEF SetAuto, AInv, TurnType, Replies
      <3>2. \A a \in answers' : a.step = "send" => a.scope # "session" /\ (a.scope = "project" => a \in answers)
        BY <1>11 DEF SetAuto, AInv, StandingType, Answers
      <3> QED
        BY <2>1, <3>1, <3>2 DEF HInv, SetBeforeSent, KeysOf
    <2> QED
      BY <2>2, <2>3, <2>4 DEF HInv
  <1>12. ASSUME NEW l \in Lines, AllowShell(l) PROVE HInv'
    BY <1>12, <1>a DEF AllowShell, RememberAll
  <1>13. ASSUME NEW a \in answers, Deliver(a) PROVE HInv'
    <2> DEFINE sent == [a EXCEPT !.step = "send"]
               keys == UNION {KeysOf(l) : l \in a.lines}
    <2>0. /\ UNCHANGED <<asker, inTurn, question, heard>> /\ a \in Answers
          /\ sent.lines = a.lines /\ sent.yes = a.yes /\ sent.scope = a.scope
      BY <1>13 DEF Deliver, AInv, StandingType, Answers
    <2>1. CASE a.step = "allow"
      <3>1. /\ UNCHANGED reply /\ answers' \subseteq answers \union {sent}
            /\ autoApprove' = (autoApprove \/ (a.yes /\ a.scope = "session"))
        BY <1>13, <2>1 DEF Deliver
      <3>2. shapes \subseteq shapes' /\ (a.yes /\ a.scope = "project" => keys \subseteq shapes')
        BY <1>13, <2>1 DEF Deliver, RememberAll
      <3>3. HeardStands' /\ NotAskedAgain'
        BY <2>0, <3>1, <3>2 DEF HInv, HeardStands, NotAskedAgain, Commands, KeysOf
      <3>4. SetBeforeSent'
        <4>1. \A b \in answers : b.yes /\ b.step = "send" =>
                /\ b.scope = "session" => autoApprove'
                /\ b.scope = "project" => \A l \in b.lines : KeysOf(l) \subseteq shapes'
          BY <3>1, <3>2 DEF HInv, SetBeforeSent
        <4>2. a.yes => /\ a.scope = "session" => autoApprove'
                       /\ a.scope = "project" => \A l \in a.lines : KeysOf(l) \subseteq shapes'
          BY <3>1, <3>2
        <4>3. /\ reply'.yes /\ reply'.scope = "session" => autoApprove'
              /\ reply'.yes /\ reply'.scope = "project" => \A l \in question'.lines : KeysOf(l) \subseteq shapes'
          BY <2>0, <3>1, <3>2 DEF HInv, SetBeforeSent
        <4>4. \A l : KeysOf(l)' = KeysOf(l)
          BY DEF KeysOf
        <4> HIDE DEF sent, keys
        <4> QED
          BY <2>0, <3>1, <4>1, <4>2, <4>3, <4>4 DEF SetBeforeSent
      <3> QED
        BY <3>3, <3>4 DEF HInv
    <2>2. CASE a.step # "allow"
      <3>1. /\ UNCHANGED <<autoApprove, shapes>> /\ answers' \subseteq answers /\ a.step = "send"
            /\ reply' = reply \/ (question.id = a.id /\ reply'.yes = a.yes /\ reply'.scope = a.scope)
        BY <1>13, <2>0, <2>2 DEF Deliver, Answers
      <3>2. HeardStands' /\ NotAskedAgain'
        BY <2>0, <3>1 DEF HInv, HeardStands, NotAskedAgain, Commands, KeysOf
      <3>3. question.id = a.id /\ a.yes => a.lines = question.lines
        BY <1>13 DEF AInv, AnswersAreSaid, NoQuestion
      <3>4. SetBeforeSent'
        BY <1>13, <2>0, <3>1, <3>3 DEF HInv, SetBeforeSent, KeysOf
      <3> QED
        BY <3>2, <3>4 DEF HInv
    <2> QED
      BY <2>1, <2>2
  <1>14. ASSUME Reopen PROVE HInv'
    BY <1>14, <1>b DEF Reopen, ForgetConsent
  <1>15. ASSUME UNCHANGED approvalsVars PROVE HInv'
    BY <1>15, <1>a DEF approvalsVars
  <1> QED
    BY <1>1, <1>2, <1>3, <1>4, <1>5, <1>6, <1>7, <1>8, <1>9, <1>10, <1>11, <1>12, <1>13, <1>14, <1>15
       DEF ApprovalsNext, AskerStep, PersonStep, Scopes

\* A run is never blocked on a command that an answer it has heard in this turn covers: what the
\* answer allows is set before it is sent (deliverApproval).
THEOREM HeardIsEnough == ApprovalsSpec => []NotAskedAgain
  <1>1. ApprovalsSpec => []HInv
    BY HInvInit, HInvStep, AInvAlways, PTL DEF ApprovalsSpec
  <1>2. HInv => NotAskedAgain
    BY DEF HInv
  <1> QED
    BY <1>1, <1>2, PTL
=============================================================================
