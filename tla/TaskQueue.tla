------------------------------ MODULE TaskQueue ------------------------------
(***************************************************************************)
(* A directory of task files that agents consume (internal/task, the queue *)
(* source): a listing, then one file after another claimed by a rename and *)
(* read under its new name.  Several agents may watch one directory, files *)
(* are put in it at any moment, also under a name used before, a rename or *)
(* a read fails, and an agent dies.                                        *)
(***************************************************************************)
EXTENDS Naturals, FiniteSets

CONSTANTS
    Names,          \* names of files, in alphabetical order
    Agents,         \* processes that watch the directory
    MaxTasks,       \* bound: tasks put in it
    MaxAgentDeaths  \* bound: times an agent dies

ASSUME QueueAssumption == Names \subseteq Nat \ {0} /\ MaxTasks \in Nat /\ MaxAgentDeaths \in Nat

VARIABLES
    queued,     \* the directory: the task of each name, 0 when there is no such file
    consumed,   \* the same for name.done
    agent,      \* queueSource: [at, pending, file, unclaimable]
    tasks,      \* history: the name of each task so far, by number
    given,      \* history: which agent was given which task
    crossed,    \* history: names used again while a file of the name was claimed and not read
    died        \* history: names an agent had claimed and not read when it died

queueVars == <<queued, consumed, agent, tasks, given, crossed, died>>

NewAgent   == [at |-> "list", pending |-> {}, file |-> 0, unclaimable |-> {}]
Reading(n) == {a \in Agents : agent[a].at = "read" /\ agent[a].file = n}
Listed(a)  == {n \in Names : queued[n] # 0 /\ n \notin agent[a].unclaimable}

QueueInit ==
    /\ queued = [n \in Names |-> 0] /\ consumed = queued
    /\ agent = [a \in Agents |-> NewAgent]
    /\ tasks = [t \in {} |-> 0] /\ given = {} /\ crossed = {} /\ died = {}

\* Whoever writes tasks puts one in, under a name there is no file of.
Enqueue(n) ==
    LET t == Cardinality(DOMAIN tasks) + 1 IN
    /\ queued[n] = 0 /\ t <= MaxTasks
    /\ queued' = [queued EXCEPT ![n] = t]
    /\ tasks' = [u \in DOMAIN tasks \union {t} |-> IF u = t THEN n ELSE tasks[u]]
    /\ crossed' = IF Reading(n) # {} THEN crossed \union {n} ELSE crossed
    /\ UNCHANGED <<consumed, agent, given, died>>

\* list, when nothing is pending.
ListFiles(a) ==
    /\ agent[a].at = "list" /\ agent[a].pending = {} /\ Listed(a) # {}
    /\ agent' = [agent EXCEPT ![a].pending = Listed(a)]
    /\ UNCHANGED <<queued, consumed, tasks, given, crossed, died>>

FirstOf(s) == CHOOSE n \in s : \A k \in s : n <= k

\* The rename that failed on a file that is there: this agent leaves it out of its listings.
LeaveOut(a, n) == agent' = [agent EXCEPT ![a].pending = @ \ {n}, ![a].unclaimable = @ \union {n}]

\* Mutant: the file is read where it is, and renamed afterwards.
ClaimLater(a) ==
    LET n == FirstOf(agent[a].pending) IN
    /\ agent[a].at = "list" /\ agent[a].pending # {}
    /\ \/ /\ queued[n] # 0
          /\ consumed' = [consumed EXCEPT ![n] = queued[n]] /\ UNCHANGED queued
          /\ agent' = [agent EXCEPT ![a].at = "read", ![a].file = n, ![a].pending = @ \ {n}]
       \/ queued[n] # 0 /\ LeaveOut(a, n) /\ UNCHANGED <<queued, consumed>>
       \/ /\ queued[n] = 0
          /\ agent' = [agent EXCEPT ![a].pending = @ \ {n}] /\ UNCHANGED <<queued, consumed>>
    /\ UNCHANGED <<tasks, given, crossed, died>>

\* claim: the rename, which replaces what was consumed under that name before, or fails.
Claim(a) ==
    LET n == FirstOf(agent[a].pending) IN
    /\ agent[a].at = "list" /\ agent[a].pending # {}
    /\ \/ /\ queued[n] # 0
          /\ consumed' = [consumed EXCEPT ![n] = queued[n]] /\ queued' = [queued EXCEPT ![n] = 0]
          /\ agent' = [agent EXCEPT ![a].at = "read", ![a].file = n, ![a].pending = @ \ {n}]
       \/ queued[n] # 0 /\ LeaveOut(a, n) /\ UNCHANGED <<queued, consumed>>
       \/ /\ queued[n] = 0
          /\ agent' = [agent EXCEPT ![a].pending = @ \ {n}] /\ UNCHANGED <<queued, consumed>>
    /\ UNCHANGED <<tasks, given, crossed, died>>

Idle(a, out) == agent' = [agent EXCEPT ![a].at = "list", ![a].file = 0, ![a].unclaimable = @ \union out]

\* The read fails: the file goes back under its name, over what is there, and out of the
\* listings; nothing is left to go back when the file is gone again.
ReadFails(a) ==
    LET n == agent[a].file IN
    /\ agent[a].at = "read"
    /\ \/ /\ consumed[n] # 0
          /\ queued' = [queued EXCEPT ![n] = consumed[n]] /\ consumed' = [consumed EXCEPT ![n] = 0]
          /\ Idle(a, {n})
       \/ consumed[n] = 0 /\ Idle(a, {}) /\ UNCHANGED <<queued, consumed>>
    /\ UNCHANGED <<tasks, given, crossed, died>>

\* The read: what the file of that name holds by then is the task.
ReadTask(a) ==
    LET n == agent[a].file IN
    /\ agent[a].at = "read" /\ consumed[n] # 0
    /\ given' = given \union {[to |-> a, task |-> consumed[n]]}
    /\ Idle(a, {})
    /\ UNCHANGED <<queued, consumed, tasks, crossed, died>>

\* The process ends between two steps, and another takes its place.
AgentDies(a) ==
    /\ agent[a] # NewAgent /\ Cardinality(died) < MaxAgentDeaths
    /\ died' = IF agent[a].at = "read" THEN died \union {agent[a].file} ELSE died
    /\ agent' = [agent EXCEPT ![a] = NewAgent]
    /\ UNCHANGED <<queued, consumed, tasks, given, crossed>>

QueueNext ==
    \/ \E n \in Names : Enqueue(n)
    \/ \E a \in Agents : ListFiles(a) \/ Claim(a) \/ ReadFails(a) \/ ReadTask(a) \/ AgentDies(a)

QueueSpec == QueueInit /\ [][QueueNext]_queueVars

-----------------------------------------------------------------------------
(* Properties.                                                              *)

GivenTo(t) == {a \in Agents : [to |-> a, task |-> t] \in given}

\* Type invariant: the directory and what each agent is doing.
QueueTypeOK ==
    /\ DOMAIN tasks \subseteq 1..MaxTasks
    /\ \A n \in Names : {queued[n], consumed[n]} \subseteq {0} \union {t \in DOMAIN tasks : tasks[t] = n}
    /\ \A n \in Names : queued[n] = 0 \/ queued[n] # consumed[n]
    /\ \A a \in Agents : agent[a].file # 0 <=> agent[a].at = "read"

\* "The rename is also what makes the claim exclusive when two agents watch one directory": a
\* task is given to one agent, and once it was it is not in the queue again, unless its name
\* was used for another file while it was being claimed.
GivenOnce ==
    \A t \in DOMAIN tasks : tasks[t] \notin crossed =>
        /\ Cardinality(GivenTo(t)) <= 1
        /\ GivenTo(t) # {} => queued[tasks[t]] # t

\* "So the task is not lost": a task nobody was given is in the queue, or claimed by an agent
\* that is about to read it, or was when its agent died; its name used once at a time.
NoTaskLost ==
    \A t \in DOMAIN tasks : LET n == tasks[t] IN
        (GivenTo(t) = {} /\ n \notin crossed \union died) =>
            queued[n] = t \/ (consumed[n] = t /\ Reading(n) # {})

\* A task file is given once: to no second agent, and to one if it is in the queue at all.
EachGivenOnce == QueueTypeOK /\ GivenOnce /\ NoTaskLost

-----------------------------------------------------------------------------
(* Promises the code does not keep.                                         *)

\* The same without the exception: two agents, or a read that fails, and a name used again.
ExclusiveAlways == \A t \in DOMAIN tasks : Cardinality(GivenTo(t)) <= 1
=============================================================================
