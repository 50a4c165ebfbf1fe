---------------------------- MODULE ParallelImport ----------------------------
(***************************************************************************)
(* The parallel import of the files of a build.lab: the part of            *)
(* LabBuildCompiler::built_lab_file that waits for all files to parse      *)
(* (compiler/lab/LabBuildCompiler.cpp), and                                *)
(* ASTProcessor::import_chemical_files_recursive with its                  *)
(* ConcurrentParsingState (compiler/ASTProcessor.cpp, .h).                 *)
(*                                                                         *)
(* The importer hands every file that build.lab imports to a thread pool;  *)
(* a task parses its file and hands the imports of it on.  A counter of    *)
(* the tasks that are outstanding fulfils a promise when it falls to zero, *)
(* and the importer waits for that promise.  Several build.lab files can   *)
(* be imported at the same time, each by a task of the same pool, when     *)
(* remote imports are built as they are downloaded.                        *)
(***************************************************************************)
EXTENDS Integers, Sequences, FiniteSets

CONSTANTS
    Build,      \* the build.lab files being imported, each with files of its own
    Lab,        \* stands for build.lab itself among the files of a build
    File,       \* the files a build.lab imports, directly or not
    Imports,    \* Imports[f]: what f (or Lab) imports, in order
    Unreadable, \* the files that cannot be read or parsed
    Threads,    \* threads of the pool
    OnPool      \* are the build.lab files imported by tasks of the pool?

Importer == File \cup {Lab}

ASSUME ConstantsAssumption ==
    /\ Lab \notin File
    /\ Imports \in [Importer -> Seq(File)]
    /\ Imports[Lab] # <<>>
    /\ Unreadable \subseteq File
    /\ Threads \in Nat \ {0}
    /\ OnPool \in BOOLEAN

VARIABLES
    queue,       \* the tasks in the pool's queue, <<build, file>>
    pc,          \* pc[b][x]: where the task of file x is; for Lab, the importer
    idx,         \* idx[b][x]: the import x's loop is at
    cache,       \* cache[b]: the files the processor of b knows (ASTProcessor::cache)
    outstanding, \* ConcurrentParsingState::outstanding
    promised,    \* all_done_promise has its value
    hasErrors,   \* has_errors
    parsed,      \* parsed[b]: the files that have been parsed
    verdict,     \* what the importer made of it: "none", "ok" or "failed"
    \* The next two only observe.
    handed,      \* handed[b][f]: how often the pool was given f
    early        \* a task was counted when the counter had fallen to zero

state == <<outstanding, promised, hasErrors>>
vars == <<queue, pc, idx, cache, state, parsed, verdict, handed, early>>

\* The task of a file holds a thread of the pool.
Working == {"parse", "look", "count", "push", "end", "fulfil"}

TypeOK ==
    /\ queue \in Seq(Build \X File)
    /\ pc \in [Build -> [Importer -> Working \cup {"idle", "queued", "wait", "done"}]]
    /\ idx \in [Build -> [Importer -> Nat \ {0}]]
    /\ cache \in [Build -> SUBSET File]
    /\ outstanding \in [Build -> Int]
    /\ {promised, hasErrors, early} \subseteq [Build -> BOOLEAN]
    /\ handed \in [Build -> [File -> Nat]]
    /\ parsed \in [Build -> SUBSET File]
    /\ verdict \in [Build -> {"none", "ok", "failed"}]

Init ==
    /\ queue = <<>>
    /\ pc = [b \in Build |-> [x \in Importer |-> "idle"]]
    /\ idx = [b \in Build |-> [x \in Importer |-> 1]]
    /\ cache = [b \in Build |-> {}]
    /\ outstanding = [b \in Build |-> 0]
    /\ promised = [b \in Build |-> FALSE]
    /\ hasErrors = [b \in Build |-> FALSE]
    /\ parsed = [b \in Build |-> {}]
    /\ verdict = [b \in Build |-> "none"]
    /\ handed = [b \in Build |-> [f \in File |-> 0]]
    /\ early = [b \in Build |-> FALSE]

Go(b, x, p) == pc' = [pc EXCEPT ![b][x] = p]

Busy ==
    Cardinality({t \in Build \X File : pc[t[1]][t[2]] \in Working})
        + (IF OnPool THEN Cardinality({b \in Build : pc[b][Lab] \in Working \cup {"wait"}})
           ELSE 0)

ThreadFree == Busy < Threads

-----------------------------------------------------------------------------
\* import_chemical_files_recursive, called by x for what it imports.

AtImport(b, x) == pc[b][x] = "look" /\ idx[b][x] <= Len(Imports[x])
Target(b, x) == Imports[x][idx[b][x]]

\* Mutant: the file is looked up and entered in two steps.
LookUpOnly(b, x) ==
    /\ AtImport(b, x)
    /\ IF Target(b, x) \in cache[b]
       THEN idx' = [idx EXCEPT ![b][x] = @ + 1] /\ UNCHANGED <<pc, cache>>
       ELSE Go(b, x, "count") /\ UNCHANGED <<idx, cache>>
    /\ UNCHANGED <<queue, state, parsed, verdict, handed, early>>

\* Under import_mutex: a file the processor knows is skipped, another is entered.
LookUp(b, x) ==
    /\ AtImport(b, x)
    /\ IF Target(b, x) \in cache[b]
       THEN idx' = [idx EXCEPT ![b][x] = @ + 1] /\ UNCHANGED <<pc, cache>>
       ELSE /\ cache' = [cache EXCEPT ![b] = @ \cup {Target(b, x)}]
            /\ Go(b, x, "count")
            /\ UNCHANGED idx
    /\ UNCHANGED <<queue, state, parsed, verdict, handed, early>>

\* The counter has fallen to zero: the promise has its value, or a task is about
\* to give it one.
Fallen(b) == promised[b] \/ \E f \in File : pc[b][f] = "fulfil"

\* Mutant: tasks that tasks push are not counted.
CountFirstOnly(b, x) ==
    /\ pc[b][x] = "count"
    /\ outstanding' = IF x = Lab THEN [outstanding EXCEPT ![b] = @ + 1] ELSE outstanding
    /\ early' = [early EXCEPT ![b] = @ \/ Fallen(b)]
    /\ Go(b, x, "push")
    /\ UNCHANGED <<queue, idx, cache, promised, hasErrors, parsed, verdict, handed>>

\* pushed_task, outside the mutex.
Count(b, x) ==
    /\ pc[b][x] = "count"
    /\ outstanding' = [outstanding EXCEPT ![b] = @ + 1]
    /\ early' = [early EXCEPT ![b] = @ \/ Fallen(b)]
    /\ Go(b, x, "push")
    /\ UNCHANGED <<queue, idx, cache, promised, hasErrors, parsed, verdict, handed>>

\* pool.push
Push(b, x) ==
    /\ pc[b][x] = "push"
    /\ queue' = Append(queue, <<b, Target(b, x)>>)
    /\ pc' = [pc EXCEPT ![b][x] = "look", ![b][Target(b, x)] = "queued"]
    /\ idx' = [idx EXCEPT ![b][x] = @ + 1]
    /\ handed' = [handed EXCEPT ![b][Target(b, x)] = @ + 1]
    /\ UNCHANGED <<cache, state, parsed, verdict, early>>

\* The loop is over: the task has its done_task left, the importer waits.
EndLoop(b, x) ==
    /\ pc[b][x] = "look" /\ ~AtImport(b, x)
    /\ Go(b, x, IF x = Lab THEN "wait" ELSE "end")
    /\ UNCHANGED <<queue, idx, cache, state, parsed, verdict, handed, early>>

-----------------------------------------------------------------------------
\* A task of the pool.

TakeTask ==
    /\ ThreadFree
    /\ queue # <<>>
    /\ Go(Head(queue)[1], Head(queue)[2], "parse")
    /\ queue' = Tail(queue)
    /\ UNCHANGED <<idx, cache, state, parsed, verdict, handed, early>>

\* import_chemical_file_recursive up to the imports of the file: it is read and
\* parsed, or the state is told of an error and its imports are left alone.
Parse(b, f) ==
    /\ pc[b][f] = "parse"
    /\ IF f \in Unreadable
       THEN /\ hasErrors' = [hasErrors EXCEPT ![b] = TRUE]
            /\ Go(b, f, "end")
            /\ UNCHANGED parsed
       ELSE /\ parsed' = [parsed EXCEPT ![b] = @ \cup {f}]
            /\ Go(b, f, "look")
            /\ UNCHANGED hasErrors
    /\ UNCHANGED <<queue, idx, cache, outstanding, promised, verdict, handed, early>>

\* Mutant: a file that cannot be parsed does not count down.
DoneTaskParsed(b, f) ==
    /\ pc[b][f] = "end"
    /\ outstanding' = [outstanding EXCEPT ![b] = IF f \in parsed[b] THEN @ - 1 ELSE @]
    /\ Go(b, f, IF f \in parsed[b] /\ outstanding[b] = 1 THEN "fulfil" ELSE "done")
    /\ UNCHANGED <<queue, idx, cache, promised, hasErrors, parsed, verdict, handed, early>>

\* done_task: the task counts down, and the one that makes the counter zero goes
\* on to fulfil the promise.
DoneTask(b, f) ==
    /\ pc[b][f] = "end"
    /\ outstanding' = [outstanding EXCEPT ![b] = @ - 1]
    /\ Go(b, f, IF outstanding[b] = 1 THEN "fulfil" ELSE "done")
    /\ UNCHANGED <<queue, idx, cache, promised, hasErrors, parsed, verdict, handed, early>>

\* set_value, which no lock joins to the countdown.  Fulfilling the promise again
\* throws an exception, which ends up in the future that pool.push returned.
Fulfil(b, f) ==
    /\ pc[b][f] = "fulfil"
    /\ promised' = [promised EXCEPT ![b] = TRUE]
    /\ Go(b, f, "done")
    /\ UNCHANGED <<queue, idx, cache, outstanding, hasErrors, parsed, verdict, handed, early>>

-----------------------------------------------------------------------------
\* The importer.

Start(b) ==
    /\ pc[b][Lab] = "idle"
    /\ OnPool => ThreadFree
    /\ Go(b, Lab, "look")
    /\ UNCHANGED <<queue, idx, cache, state, parsed, verdict, handed, early>>

\* fut.wait() returns, has_errors is read, and the state goes out of scope.
Return(b) ==
    /\ pc[b][Lab] = "wait"
    /\ promised[b]
    /\ verdict' = [verdict EXCEPT ![b] = IF hasErrors[b] THEN "failed" ELSE "ok"]
    /\ Go(b, Lab, "done")
    /\ UNCHANGED <<queue, idx, cache, state, parsed, handed, early>>

ImporterStep(b, x) == LookUp(b, x) \/ Count(b, x) \/ Push(b, x) \/ EndLoop(b, x)
TaskStep(b, f) == Parse(b, f) \/ DoneTask(b, f) \/ Fulfil(b, f)

\* Every thread of the pool imports a build.lab and waits, and what they wait
\* for is in the pool's queue.
PoolExhausted ==
    /\ OnPool
    /\ Cardinality({b \in Build : pc[b][Lab] = "wait"}) >= Threads
    /\ queue # <<>>

Next ==
    \/ \E b \in Build, x \in Importer : ImporterStep(b, x)
    \/ \E b \in Build, f \in File : TaskStep(b, f)
    \/ \E b \in Build : Start(b) \/ Return(b)
    \/ TakeTask

\* The threads of the pool and of the importers run.
Fairness ==
    /\ \A b \in Build, x \in Importer : WF_vars(ImporterStep(b, x))
    /\ \A b \in Build, f \in File : WF_vars(TaskStep(b, f))
    /\ \A b \in Build : WF_vars(Return(b))
    /\ WF_vars(TakeTask)

Spec == Init /\ [][Next]_vars /\ Fairness

-----------------------------------------------------------------------------
\* Properties.

\* What a readable build.lab ends up with: the files its imports reach.
Reachable ==
    {f \in File :
        \A S \in SUBSET File :
            /\ \A i \in 1..Len(Imports[Lab]) : Imports[Lab][i] \in S
            /\ \A g \in S \ Unreadable : \A i \in 1..Len(Imports[g]) : Imports[g][i] \in S
            => f \in S}

Left(b) == \E f \in File : pc[b][f] \notin {"idle", "done"}

\* fut.wait() waits for all files to parse, if no file was counted once the
\* counter had fallen to zero, which only the importer can do to it: then the
\* importer goes on with each file that can be reached, or knows that one could
\* not be read (import_chemical_files_recursive counts a file's imports before it
\* counts the file down), and no task is left that would use the state that goes
\* away.
CompleteUnlessEarly ==
    \A b \in Build : verdict[b] # "none" /\ ~early[b] =>
        /\ ~Left(b)
        /\ parsed[b] = Reachable \ Unreadable
        /\ verdict[b] = "ok" <=> Reachable \cap Unreadable = {}

\* Over the whole import a file is handed to the pool once, however many files
\* import it at a time, and however early its first task has ended
\* (import_chemical_files_recursive enters it in cache before it lets go of
\* import_mutex): its result is written by one task.
PushedOnce == \A b \in Build, f \in File : handed[b][f] <= 1

\* The importer gets back from fut.wait(), unless the pool's threads all wait
\* like it does.
WaitReturns ==
    \A b \in Build : pc[b][Lab] = "wait" ~> (pc[b][Lab] = "done" \/ PoolExhausted)
=============================================================================
