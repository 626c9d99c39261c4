------------------------------ MODULE WorkMemory ------------------------------
(***************************************************************************)
(* The working memory of a run (internal/agent/workmemory.go): the output  *)
(* of the commands that only read is kept, shown in every later prompt,    *)
(* and given back instead of running a command that would print the same.  *)
(* What is kept is dropped when the working tree is no longer the one last *)
(* looked at: at the start of a round, and after a command that may write. *)
(*                                                                         *)
(* A file is the lines it has, of which only whether they are blank is     *)
(* told apart, and when it was last written, which is what a fingerprint   *)
(* sees of it.  Sizes are counted in lines.                                *)
(***************************************************************************)
EXTENDS Naturals, Sequences, SequencesExt, FiniteSetsExt

CONSTANTS
    Files,          \* files a command may read
    Counted,        \* those the walk counts: not under .git, node_modules, outside the tree
    Sources,        \* those of them that are neither a lock file nor a build's output
    Contents,       \* what each file may hold: sequences of BOOLEAN, TRUE for a blank line
    Asks,           \* the reads: [file, from, to, plain], plain when fileRead recognises it
    WholeFile,      \* wholeFile
    EvidenceEach, EvidenceTotal,    \* evidenceEach, evidenceTotal
    MaxReads,       \* maxParallelReads
    MaxWrites,      \* bound: writes
    MaxKept         \* bound: reads kept at one time

ASSUME MemoryAssumption ==
    /\ Sources \subseteq Counted /\ Counted \subseteq Files /\ "unknown" \notin Files
    /\ Asks \subseteq [file : Files, from : Nat \ {0}, to : Nat \ {0}, plain : BOOLEAN]
    /\ \A f \in Files : Contents[f] \subseteq Seq(BOOLEAN) /\ \A c \in Contents[f] : Len(c) < WholeFile
    /\ WholeFile \in Nat /\ MaxWrites \in Nat
    /\ EvidenceEach \in Nat \ {0} /\ EvidenceTotal \in Nat \ {0} /\ MaxReads \in Nat \ {0}

VARIABLES
    disk,       \* what each file holds and when it was written
    writes,     \* writes so far
    memory,     \* workMemory.reads in the order of workMemory.order: oldest first
    fp, src,    \* the fingerprints of the last walk, Unknown when it could not be taken
    unsynced,   \* workMemory.unsynced
    roundAt,    \* "idle", "asked" (the model has its prompt), "round" (its actions run)
    inPrompt,   \* history: the reads of that prompt, and those it has in full
    ran,        \* history: the reads this round ran
    meddled     \* history: somebody else wrote since the last walk

memoryVars == <<disk, writes, memory, fp, src, unsynced, roundAt, inPrompt, ran, meddled>>

Unknown == [unknown |-> TRUE]
NothingShown == [shown |-> {}, whole |-> {}]

FingerprintOf(files, d) == [f \in files |-> d[f]]

MemoryInit ==
    /\ disk \in [Files -> [lines : UNION {Contents[f] : f \in Files}, at : {0}]] /\ writes = 0
    /\ \A f \in Files : disk[f].lines \in Contents[f]
    /\ memory = <<>> /\ fp = Unknown /\ src = Unknown /\ unsynced = FALSE
    /\ roundAt = "idle" /\ inPrompt = NothingShown /\ ran = {} /\ meddled = FALSE

-----------------------------------------------------------------------------
(* What is shown, and what may be answered.                                 *)

\* layout: newest first, each cut to what is left of the total.
Room(mem) ==
    LET room[i \in 1..Len(mem)] ==
          IF i = Len(mem) THEN EvidenceTotal
          ELSE room[i + 1] - Min({Len(mem[i + 1].out), EvidenceEach, room[i + 1]})
    IN room

Shown(mem) == {i \in 1..Len(mem) : Room(mem)[i] > 0}
Whole(mem) == {i \in Shown(mem) : Len(mem[i].out) <= Min({EvidenceEach, Room(mem)[i]})}

\* recall: the same words as long as they are shown, or a file read shown in full whose
\* lines hold those asked for. (Of several, the latest; any of them here.)
Answers(ask) ==
    LET same == {i \in Shown(memory) : memory[i].ask = ask} IN
    IF same # {} \/ ~ask.plain THEN same
    ELSE {i \in Whole(memory) : /\ memory[i].ask.plain /\ memory[i].ask.file = ask.file
                                /\ memory[i].ask.from <= ask.from /\ ask.to <= memory[i].to}

Printed(ask, d) == SubSeq(d[ask.file].lines, ask.from, Min({ask.to, Len(d[ask.file].lines)}))

\* The lines remember counts: the blank ones at the end go with the newlines.
LinesCounted(out) == LET said == {i \in 1..Len(out) : ~out[i]} IN IF said = {} THEN 1 ELSE Max(said)

\* Fewer lines than asked for are the end of the file.
HeldTo(ask, out) ==
    IF ask.to # WholeFile /\ LinesCounted(out) < ask.to - ask.from + 1 THEN WholeFile ELSE ask.to

Entry(ask) == LET out == Printed(ask, disk) IN [ask |-> ask, out |-> out, to |-> HeldTo(ask, out)]

\* forget, and a read that is seen again moves to the newest place.
Remember(mem, ask) == Append(RemoveFirstMatch(mem, LAMBDA kept : kept.ask = ask), Entry(ask))

\* What a batch printed is recorded in the order the model wrote it.
RememberAll(mem, batch) ==
    LET kept[n \in 0..Len(batch)] == IF n = 0 THEN mem ELSE Remember(kept[n - 1], batch[n])
    IN kept[Len(batch)]

-----------------------------------------------------------------------------
(* The tree.                                                                *)

Rewrites(files) ==
    \E f \in files : \E c \in Contents[f] :
      /\ writes < MaxWrites /\ writes' = writes + 1
      /\ disk' = [disk EXCEPT ![f] = [lines |-> c, at |-> writes + 1]]

MayWrite == Rewrites(Files) \/ UNCHANGED <<disk, writes>>

\* sync: the walk may fail, or find too many files to count.
Sync ==
    \E ok \in BOOLEAN :
      /\ fp' = IF ok THEN FingerprintOf(Counted, disk') ELSE Unknown
      /\ src' = IF ok THEN FingerprintOf(Sources, disk') ELSE Unknown
      /\ memory' = IF fp' = Unknown \/ fp' # fp THEN <<>> ELSE memory
      /\ unsynced' = FALSE /\ meddled' = FALSE

\* An agent beside this one, the anchor, the person in an editor.
Meddle ==
    /\ Rewrites(Files) /\ meddled' = TRUE
    /\ UNCHANGED <<memory, fp, src, unsynced, roundAt, inPrompt, ran>>

-----------------------------------------------------------------------------
(* A round.                                                                 *)

\* actionPhase: the prompt shows what the memory lays out.
Ask ==
    /\ roundAt = "idle" /\ roundAt' = "asked"
    /\ inPrompt' = [shown |-> {memory[i].ask : i \in Shown(memory)},
                    whole |-> {memory[i].ask : i \in Whole(memory)}]
    /\ UNCHANGED <<disk, writes, memory, fp, src, unsynced, ran, meddled>>

\* runRound: the tree as this round finds it.
StartRound ==
    /\ roundAt = "asked" /\ roundAt' = "round"
    /\ UNCHANGED <<disk, writes, inPrompt, ran>>
    /\ Sync

\* One read, or several side by side (readBatch, runReads): none of them is held. One that
\* fails, or whose output was cut, is not kept.
RunReads ==
    /\ roundAt = "round"
    /\ \E batch \in UNION {[1..n -> Asks] : n \in 1..MaxReads} :
         /\ \A i \in DOMAIN batch : Answers(batch[i]) = {}
         /\ memory' = RememberAll(memory, batch) /\ Len(memory') <= MaxKept
         /\ ran' = ran \union {batch[i] : i \in DOMAIN batch}
    /\ UNCHANGED <<disk, writes, fp, src, unsynced, roundAt, inPrompt, meddled>>

\* Mutant: a write that the program makes itself is not looked at.
WriteUnseen ==
    /\ roundAt = "round"
    /\ MayWrite
    /\ UNCHANGED <<memory, fp, src, unsynced, meddled, roundAt, inPrompt, ran>>

\* A command that may write, or a file the program writes itself: what it did is looked at.
Write ==
    /\ roundAt = "round"
    /\ MayWrite
    /\ Sync
    /\ UNCHANGED <<roundAt, inPrompt, ran>>

\* An agent, a box, the desktop: it may write, and is not looked at.
ActAside ==
    /\ roundAt = "round"
    /\ MayWrite
    /\ unsynced' = TRUE
    /\ UNCHANGED <<memory, fp, src, meddled, roundAt, inPrompt, ran>>

EndRound ==
    /\ roundAt = "round" /\ roundAt' = "idle"
    /\ inPrompt' = NothingShown /\ ran' = {}
    /\ UNCHANGED <<disk, writes, memory, fp, src, unsynced, meddled>>

MemoryNext == Ask \/ StartRound \/ RunReads \/ Write \/ ActAside \/ EndRound \/ Meddle

MemorySpec == MemoryInit /\ [][MemoryNext]_memoryVars

-----------------------------------------------------------------------------
(* Properties.                                                              *)

\* Type invariant: the memory, the walk it was last checked against and the round.
MemoryTypeOK ==
    /\ \A f \in Files : disk[f].lines \in Contents[f] /\ disk[f].at \in 0..writes
    /\ writes \in 0..MaxWrites
    /\ \A i \in 1..Len(memory) : memory[i].ask \in Asks /\ memory[i].to \in {memory[i].ask.to, WholeFile}
    /\ fp = Unknown <=> src = Unknown
    /\ unsynced \in BOOLEAN /\ meddled \in BOOLEAN /\ roundAt \in {"idle", "asked", "round"}
    /\ ran \subseteq Asks /\ inPrompt.whole \subseteq inPrompt.shown

\* What the memory can be relied on for: files its walk counts, while nothing wrote that
\* it does not look at.
Vouched(f) == f \in Counted /\ ~unsynced /\ ~meddled

\* A read is answered from memory only with what the file still says.
RecallIsFresh ==
    roundAt = "round" =>
      \A ask \in Asks : Vouched(ask.file) =>
        \A i \in Answers(ask) : memory[i].out = Printed(memory[i].ask, disk)

\* "What the model was shown and what may be answered from memory must be the same set":
\* a read that is answered is in the prompt, in full if it is not the same command, or was
\* run in this round.
RecallIsInView ==
    roundAt = "round" =>
      \A ask \in Asks : \A i \in Answers(ask) :
        \/ memory[i].ask \in ran
        \/ memory[i].ask \in (IF memory[i].ask = ask THEN inPrompt.shown ELSE inPrompt.whole)

\* A claim is weighed, and progress measured, against the sources the tree has now.
SourcesAreCurrent ==
    roundAt = "round" /\ src # Unknown /\ ~unsynced /\ ~meddled => src = FingerprintOf(Sources, disk)

\* What a round goes by instead of looking: an answer from memory is what the file says and
\* what the model can still see, and the sources are those of the tree.
RecallIsTrue == MemoryTypeOK /\ RecallIsFresh /\ RecallIsInView /\ SourcesAreCurrent

-----------------------------------------------------------------------------
(* Promises of comments that the code does not keep.                        *)

\* "So does a plain file read whose lines are ALL inside a read still held" (recall): the
\* read that answers holds every line that was asked for.
RecallHoldsTheLines ==
    roundAt = "round" =>
      \A ask \in Asks : Vouched(ask.file) /\ ask.plain =>
        \A i \in Answers(ask) :
          ask.from + Len(Printed(ask, disk)) <= memory[i].ask.from + Len(memory[i].out)

\* "A line it cannot vouch for is treated as a write, which costs one extra execution and
\* never a stale answer" (readsOnly), whatever the file and whoever wrote it.
NeverStale ==
    roundAt = "round" =>
      \A ask \in Asks : \A i \in Answers(ask) : memory[i].out = Printed(memory[i].ask, disk)
=============================================================================
