------------------------------ MODULE Approvals ------------------------------
(***************************************************************************)
(* Who lets a command run (internal/approvals, the approver of             *)
(* internal/gateway/runs.go, alwaysallow.go, the round's question of       *)
(* internal/agent/batchapproval.go).  A run that meets a command the       *)
(* policy asks about blocks on one question; a person answers it, for that *)
(* line, for the session or for the project; nobody answering in time, and *)
(* a cancellation, refuse it.  What was said for the project is kept in a  *)
(* file by the SHAPE of the command.                                       *)
(***************************************************************************)
EXTENDS Naturals, Sequences, FiniteSets

CONSTANTS
    Lines,          \* commands: [rule, programs, asks], programs a set of [name, is]
    Rounds,         \* what a round proposes: sequences of lines
    MaxQuestions,   \* bound: questions asked
    MaxClients      \* bound: answers being delivered at a time

ASSUME ApprovalsAssumption ==
    /\ \A l \in Lines : /\ l.asks \in {"command", "other"}
                        /\ \A p \in l.programs : p.is \in {"plain", "builtin", "opaque"}
    /\ Rounds \subseteq Seq(Lines) /\ MaxQuestions \in Nat /\ MaxClients \in Nat

VARIABLES
    asker,      \* the turn: "idle", "round", "batch", "line", "asking"
    todo,       \* lines of the round that are still to run
    inTurn,     \* approvedInTurn
    declined,   \* lines declined with the round
    question,   \* pendingApproval: [id, lines, batch, timed]
    reply,      \* its channel
    lastId,     \* the identifier given last
    answers,    \* answers being delivered: [id, lines, yes, scope, step]
    autoApprove,
    shapes,     \* approvals.Store: what is allowed in the scope
    file,       \* what approvals.json holds
    hasPath,    \* the store knows its file
    ran,        \* history: lines the last step ran on an approval
    said,       \* history: lines a person said yes to in this turn, by the id of their question
    saidAuto,   \* history: "all commands" was in force at some moment of this turn
    saidShapes, \* history: shapes a person ever allowed for good
    heard       \* history: what the run was told of this turn: [lines, auto, shapes]

consent       == <<ran, said, saidAuto, saidShapes, heard>>
standing      == <<autoApprove, shapes, file, hasPath>>
turnOf        == <<asker, todo, inTurn, declined, question, reply, lastId>>
approvalsVars == <<turnOf, answers, standing, consent>>

NoQuestion == [id |-> 0, lines |-> {}, batch |-> FALSE, timed |-> FALSE]
NoReply    == [yes |-> FALSE, scope |-> "none"]
Scopes     == {"once", "session", "project"}
NotHeard   == [lines |-> {}, auto |-> FALSE, shapes |-> {}]

\* KeysOf: the shapes one "always" covers. A program that runs whatever it is handed has none,
\* nor has its line; what the shell runs itself counts only when there is nothing else.
KeysOf(l) ==
    LET of(kinds) == {[rule |-> l.rule, program |-> p.name] : p \in {q \in l.programs : q.is \in kinds}} IN
    IF of({"opaque"}) # {} THEN {}
    ELSE IF of({"plain"}) # {} THEN of({"plain"}) ELSE of({"builtin"})

\* AllowedAll.
Allowed(l) == KeysOf(l) # {} /\ KeysOf(l) \subseteq shapes

Commands(ls) == \A l \in ls : l.asks = "command"

\* What the approver answers before it asks anybody.
Standing(ls) == Commands(ls) /\ (autoApprove \/ \A l \in ls : Allowed(l))

ApprovalsInit ==
    /\ asker = "idle" /\ todo = <<>> /\ inTurn = {} /\ declined = {}
    /\ question = NoQuestion /\ reply = NoReply /\ lastId = 0 /\ answers = {}
    /\ autoApprove = FALSE /\ shapes = {} /\ file = {} /\ hasPath = TRUE
    /\ ran = {} /\ said = {} /\ saidAuto = FALSE /\ saidShapes = {} /\ heard = NotHeard

-----------------------------------------------------------------------------
(* The run.                                                                 *)

Turn ==
    /\ asker = "idle"
    /\ asker' = "round" /\ inTurn' = {}
    /\ saidAuto' = (autoApprove \/ \E a \in answers : a.yes /\ a.scope = "session")
    /\ UNCHANGED <<todo, declined, question, reply, lastId, answers, standing, ran, said, saidShapes, heard>>

\* A round, or the loop's own question (another budget, a rewritten gate): askRound puts the
\* lines together when two or more would be asked about.
Propose ==
    /\ asker = "round" /\ lastId < MaxQuestions
    /\ todo' \in Rounds
    /\ declined' = {}
    /\ LET open == {l \in {todo'[i] : i \in DOMAIN todo'} : l \notin inTurn} IN
         asker' = IF Cardinality(open) > 1 THEN "batch" ELSE "line"
    /\ UNCHANGED <<inTurn, question, reply, lastId, answers, standing, consent>>

\* What an answer does to the round: a batch decides its lines and the round runs, a line
\* runs or does not.
Resume(ls, batch, answer) ==
    /\ asker' = "line"
    /\ inTurn' = IF answer = "yes" THEN inTurn \union {l \in ls : l.asks = "command"} ELSE inTurn
    /\ declined' = IF batch /\ answer = "no" THEN declined \union ls ELSE declined
    /\ todo' = IF batch THEN todo ELSE Tail(todo)
    /\ ran' = IF ~batch /\ answer = "yes" THEN ls ELSE {}

\* Mutant: a question of the loop is answered like a command's.
AskAnything(ls, batch) ==
    IF autoApprove \/ Standing(ls)
      THEN Resume(ls, batch, "yes") /\ UNCHANGED <<question, reply, lastId>>
      ELSE \/ lastId < MaxQuestions
              /\ question' \in {[id |-> lastId + 1, lines |-> ls, batch |-> batch, timed |-> t] : t \in BOOLEAN}
              /\ reply' = NoReply /\ lastId' = lastId + 1 /\ asker' = "asking"
              /\ UNCHANGED <<inTurn, declined, todo, ran>>
           \/ Resume(ls, batch, "error") /\ UNCHANGED <<question, reply, lastId>>

\* approverFor: answered by what stands, or the question is opened (no identifier can be
\* made: refused), with the timeout the settings hold now, or none.
Ask(ls, batch) ==
    IF Standing(ls)
      THEN Resume(ls, batch, "yes") /\ UNCHANGED <<question, reply, lastId>>
      ELSE \/ lastId < MaxQuestions
              /\ question' \in {[id |-> lastId + 1, lines |-> ls, batch |-> batch, timed |-> t] : t \in BOOLEAN}
              /\ reply' = NoReply /\ lastId' = lastId + 1 /\ asker' = "asking"
              /\ UNCHANGED <<inTurn, declined, todo, ran>>
           \/ Resume(ls, batch, "error") /\ UNCHANGED <<question, reply, lastId>>

AskRound ==
    /\ asker = "batch"
    /\ Ask({l \in {todo[i] : i \in DOMAIN todo} : l \notin inTurn}, TRUE)
    /\ UNCHANGED <<answers, standing, said, saidAuto, saidShapes, heard>>

\* One line: approved earlier in the turn, declined with the round, or asked about.
AskLine ==
    /\ asker = "line" /\ todo # <<>>
    /\ LET l == Head(todo) IN
         IF l \in inTurn \/ l \in declined
           THEN /\ Resume({l}, FALSE, IF l \in inTurn THEN "yes" ELSE "no")
                /\ UNCHANGED <<question, reply, lastId>>
           ELSE Ask({l}, FALSE)
    /\ UNCHANGED <<answers, standing, said, saidAuto, saidShapes, heard>>

\* What was said in a turn is of no account after it.
ForgetConsent == ran' = {} /\ said' = {} /\ heard' = NotHeard

RoundEnds ==
    /\ asker = "line" /\ todo = <<>>
    /\ declined' = {} /\ ran' = {}
    /\ \/ asker' = "round" /\ UNCHANGED <<said, heard>>
       \/ asker' = "idle" /\ ForgetConsent
    /\ UNCHANGED <<todo, inTurn, question, reply, lastId, answers, standing, saidAuto, saidShapes>>

\* awaitAnswer: the answer that came.
Answered ==
    /\ asker = "asking" /\ reply # NoReply
    /\ Resume(question.lines, question.batch, IF reply.yes THEN "yes" ELSE "no")
    /\ question' = NoQuestion /\ reply' = NoReply
    /\ heard' = IF ~reply.yes THEN heard
                ELSE [lines  |-> heard.lines \union question.lines,
                      auto   |-> heard.auto \/ reply.scope = "session",
                      shapes |-> IF reply.scope = "project"
                                   THEN heard.shapes \union UNION {KeysOf(l) : l \in question.lines} ELSE heard.shapes]
    /\ UNCHANGED <<lastId, answers, standing, said, saidAuto, saidShapes>>

\* Nobody answered within the timeout: refused, whatever is on its way.
Expires ==
    /\ asker = "asking" /\ question.timed
    /\ Resume(question.lines, question.batch, "error")
    /\ question' = NoQuestion /\ reply' = NoReply
    /\ UNCHANGED <<lastId, answers, standing, said, saidAuto, saidShapes, heard>>

\* The run is cancelled.
CancelTurn ==
    /\ asker # "idle"
    /\ asker' = "idle" /\ todo' = <<>> /\ declined' = {}
    /\ question' = NoQuestion /\ reply' = NoReply
    /\ ForgetConsent
    /\ UNCHANGED <<inTurn, lastId, answers, standing, saidAuto, saidShapes>>

\* A background agent is answered by what stands, and asks nothing.
AskBackground(l) ==
    /\ asker # "idle" /\ Standing({l})
    /\ ran' = {l}
    /\ UNCHANGED <<turnOf, answers, standing, said, saidAuto, saidShapes, heard>>

-----------------------------------------------------------------------------
(* The person.                                                              *)

\* handleApproval: an answer to a question that is not the one being asked is refused; one to
\* it is delivered with the question it was found to match.
GiveAnswer(yes, scope) ==
    /\ question # NoQuestion /\ Cardinality(answers) < MaxClients
    /\ answers' = answers \union
         {[id |-> question.id, lines |-> question.lines, yes |-> yes, scope |-> scope, step |-> "allow"]}
    /\ said' = IF yes THEN said \union question.lines ELSE said
    /\ saidAuto' = (saidAuto \/ (yes /\ scope = "session"))
    /\ saidShapes' = IF yes /\ scope = "project"
                       THEN saidShapes \union UNION {KeysOf(l) : l \in question.lines} ELSE saidShapes
    /\ UNCHANGED <<turnOf, standing, ran, heard>>

\* RememberAll: what is new is kept, in the file when there is one and it can be written.
RememberAll(keys) ==
    /\ shapes' = shapes \union keys
    /\ file' \in {file} \union (IF hasPath /\ ~(keys \subseteq shapes) THEN {shapes'} ELSE {})

\* Mutant: the run is answered first.
AllowAfterwards(a) ==
    /\ a \in answers
    /\ IF a.step = "allow"
         THEN /\ answers' = (answers \ {a}) \union {[a EXCEPT !.step = "send"]}
              /\ reply' = IF question.id = a.id /\ reply = NoReply THEN [yes |-> a.yes, scope |-> a.scope] ELSE reply
              /\ UNCHANGED <<autoApprove, shapes, file>>
         ELSE /\ answers' = answers \ {a}
              /\ autoApprove' = (autoApprove \/ (a.yes /\ a.scope = "session"))
              /\ IF a.yes /\ a.scope = "project" THEN RememberAll(UNION {KeysOf(l) : l \in a.lines})
                 ELSE UNCHANGED <<shapes, file>>
              /\ UNCHANGED reply
    /\ UNCHANGED <<asker, todo, inTurn, declined, question, lastId, hasPath, consent>>

\* deliverApproval: what the answer allows from now on, then the answer, for which the
\* channel of the question has room once.
Deliver(a) ==
    /\ a \in answers
    /\ IF a.step = "allow"
         THEN /\ answers' = (answers \ {a}) \union {[a EXCEPT !.step = "send"]}
              /\ autoApprove' = (autoApprove \/ (a.yes /\ a.scope = "session"))
              /\ IF a.yes /\ a.scope = "project" THEN RememberAll(UNION {KeysOf(l) : l \in a.lines})
                 ELSE UNCHANGED <<shapes, file>>
              /\ UNCHANGED reply
         ELSE /\ answers' = answers \ {a}
              /\ reply' = IF question.id = a.id /\ reply = NoReply THEN [yes |-> a.yes, scope |-> a.scope] ELSE reply
              /\ UNCHANGED <<autoApprove, shapes, file>>
    /\ UNCHANGED <<asker, todo, inTurn, declined, question, lastId, hasPath, consent>>

\* handleAutoApprove. What a person takes back is no longer what an answer under way says,
\* once that answer has allowed it: the scopes of both are kept for NotAskedAgain.
SetAuto(on) ==
    /\ autoApprove' = on /\ autoApprove # on
    /\ saidAuto' = (saidAuto \/ on)
    /\ heard' = [heard EXCEPT !.auto = FALSE]
    /\ reply' = IF reply.scope = "session" THEN [reply EXCEPT !.scope = "once"] ELSE reply
    /\ answers' = {IF a.step = "send" /\ a.scope = "session" THEN [a EXCEPT !.scope = "once"] ELSE a : a \in answers}
    /\ UNCHANGED <<asker, todo, inTurn, declined, question, lastId, shapes, file, hasPath, ran, said, saidShapes>>

\* handleShell between turns: a line the person runs, allowing its shape for good.
AllowShell(l) ==
    /\ asker = "idle"
    /\ RememberAll(KeysOf(l))
    /\ saidShapes' = saidShapes \union KeysOf(l)
    /\ UNCHANGED <<turnOf, answers, autoApprove, hasPath, ran, said, saidAuto, heard>>

\* Mutant: a file that cannot be read is replaced by an empty one.
ReopenEmptied ==
    /\ asker' = "idle" /\ todo' = <<>> /\ declined' = {} /\ inTurn' = {}
    /\ question' = NoQuestion /\ reply' = NoReply /\ answers' = {} /\ ForgetConsent
    /\ hasPath' = TRUE
    /\ \E readable \in BOOLEAN : file' = IF readable THEN file ELSE {}
    /\ shapes' = file'
    /\ UNCHANGED <<lastId, autoApprove, saidAuto, saidShapes>>

\* The gateway starts again: openApprovalStore. A file that cannot be read leaves a store
\* without a file. What the session allows is in its record.
Reopen ==
    /\ asker' = "idle" /\ todo' = <<>> /\ declined' = {} /\ inTurn' = {}
    /\ question' = NoQuestion /\ reply' = NoReply /\ answers' = {} /\ ForgetConsent
    /\ \E readable \in BOOLEAN : hasPath' = readable /\ shapes' = IF readable THEN file ELSE {}
    /\ UNCHANGED <<lastId, autoApprove, file, saidAuto, saidShapes>>

AskerStep == Turn \/ Propose \/ AskRound \/ AskLine \/ RoundEnds \/ Answered \/ Expires

PersonStep ==
    \/ GiveAnswer(FALSE, "once") \/ \E scope \in Scopes : GiveAnswer(TRUE, scope)
    \/ \E on \in BOOLEAN : SetAuto(on)
    \/ \E l \in Lines : AllowShell(l)

ApprovalsNext ==
    \/ AskerStep \/ CancelTurn \/ (\E l \in Lines : AskBackground(l))
    \/ PersonStep \/ (\E a \in answers : Deliver(a)) \/ Reopen

ApprovalsSpec == ApprovalsInit /\ [][ApprovalsNext]_approvalsVars

-----------------------------------------------------------------------------
(* Properties.                                                              *)

\* Type invariant: the turn, its question, and what stands.
ApprovalsTypeOK ==
    /\ asker \in {"idle", "round", "batch", "line", "asking"}
    /\ todo \in Seq(Lines) /\ inTurn \subseteq Lines /\ declined \subseteq Lines
    /\ asker = "asking" <=> question # NoQuestion
    /\ question # NoQuestion => question.id = lastId /\ question.lines # {}
    /\ reply.scope \in Scopes \union {"none"} /\ (reply # NoReply => question # NoQuestion)
    /\ \A a \in answers : a.id \in 1..lastId /\ a.step \in {"allow", "send"} /\ a.scope \in Scopes
    /\ autoApprove \in BOOLEAN /\ hasPath \in BOOLEAN
    /\ heard.lines \subseteq Lines /\ ran \subseteq Lines

\* "Silence is not consent": nothing runs on an approval that no person gave, to that very
\* question in this turn, to every command, or to the shape of each program in it; an answer
\* that comes late, or twice, or to an earlier question, approves nothing else.
RanWasAllowed ==
    \A l \in ran : \/ l \in said
                   \/ l.asks = "command" /\ saidAuto
                   \/ l.asks = "command" /\ KeysOf(l) # {} /\ KeysOf(l) \subseteq saidShapes

\* "Set BEFORE the answer is delivered, so the run's very next question already sees it": a
\* run is never blocked on a command that an answer it has heard in this turn covers.
NotAskedAgain ==
    question # NoQuestion /\ Commands(question.lines) =>
        /\ ~heard.auto
        /\ ~(question.lines \subseteq heard.lines)
        /\ \E l \in question.lines : KeysOf(l) = {} \/ ~(KeysOf(l) \subseteq heard.shapes)

\* What a person allowed for good, once in the file, is never lost from it, whatever a start
\* could read and whichever write failed.
NothingForgotten == [][file \subseteq file']_approvalsVars

-----------------------------------------------------------------------------
(* Promises the code does not keep.                                         *)

\* "One bad file never makes every command ask again forever: the person says always once
\* more and the file is written afresh" (tui/alwaysallow.go; the store is this one): a store
\* that holds what a person allowed knows a file to write it to.
WrittenAfresh == shapes # {} => hasPath
=============================================================================
