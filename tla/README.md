# TLA+ models of the Chemical compiler's build system and run-time libraries

Chemical is a compiler (C++) for the Chemical language, with a build system of
its own ("lab"), a language server, and a standard library written in Chemical.
This directory holds TLA+ modules that model the stateful parts of it, TLC
configurations that check them on small instances, and proofs for TLAPS. All
paths below are relative to `src/`.

Run everything from this directory:

    tlc -config build_tcc.cfg MCIncrementalBuild      # any run of PROJECT.json
    tlapm IncrementalBuildProofs.tla                  # the proofs of a module

The proofs are in eight modules: `IncrementalBuildProofs`, `ImportGraphProofs`,
`ThreadPoolProofs`, `TestLaunchProofs`, `ParallelImportProofs`, `RemoteImportsProofs`,
`ServerProofs` (of `ChildBuild` and `Workspace`, the two of the language server; the
names in `Workspace` carry the module's, so that both can be extended there) and
`MovesProofs`. Each takes one to a few minutes, `MovesProofs` about ten.

## 1. Inventory

Where state, failure and concurrency are: the lab build system, the language
server, and the concurrency and test libraries. The front end and the back ends
are long, sequential passes over a syntax tree.

| Part | State | Operations | What is hard | What makes it right |
|---|---|---|---|---|
| Incremental build of a job (`compiler/lab/LabBuildCompiler.cpp` 361-512, 680-1420, 1604-2234; `compiler/lab/timestamp`) | per module: timestamp file, `partial.2c.c`, `partial.2h.c`, object; per job: object file, executable; `has_changed` | `process_job_tcc/gen`, `process_module_tcc/gen`, change check, `save_mod_timestamp` | staleness, kills and errors between two writes, edits while a build runs, files shared by layouts and modes | what is linked is what a clean build would link |
| Remote imports (same file, 2300-2681, 4363-4779) | `remote_imports`, `requesters`, `built_module`, `built_files`, `downloading_dirs`, directories on disk | `add_remote_import`, `process_remote_imports`, `download_remote_import`, `create_module_for_dependency` | requests before, during and after a download; two imports in one directory; failing git; several mutexes | each requester gets each module as often as it asked, made from a whole clone of the newest version |
| Parallel import of build.lab (`compiler/ASTProcessor.cpp` 804-855, 988-1056; `LabBuildCompiler.cpp` 2750-2771) | the file cache, the counter of outstanding tasks, a promise | look up, count, push, parse, done | the counter at zero too early, pool threads that wait for the pool | the wait ends, and then all files are parsed |
| Module graph (`LabBuildCompiler.cpp` 141-163, 272-357; `server/LspSemanticTokens.cpp` 456-474) | the calls under way, the list of parents, the order so far | flatten, deduplicate, find cycles | cycles, order, recursion without end | dependencies first, each module once, exactly the cycles |
| Thread pool (`lang/libs/std/src/concurrency/threadpool.ch`) | queue, run flag, workers; promises shared by two owners | submit, worker loop, get, delete, destructor | who frees the promise, lost wake-ups, destruction with tasks queued, nested get | no use after free, no leak, every task is run |
| Test runner (`lang/libs/test`) | a process and a socket pair per test, `has_failed`, tries | launch, read loop, time out, reap, retry | inherited descriptors, end of process against poll, retries | a test's result is its own and is known |
| Build files in child processes (`server/build`) | shared memory, two semaphores (events on Windows), a child, the server's context | launch, wait with time out, read, acknowledge, fill the context | a late answer, a child killed at any point, who creates and unlinks what | what is taken for the answer is one, nothing is left |
| Language server workspace (`server/WorkspaceManager.cpp`, `LspSemanticTokens.cpp`) | trees of every module, dirty files and modules, token cache, overridden sources, two tasks | open, change, save, close, requests, diagnostics | trees freed while others point into them, requests beside the background build | a request reads trees and tokens that are there |
| Move semantics: the checker (`compiler/symres/SymResLinkBody.cpp`) and the destruction in C (`preprocess/2c/2cASTVisitor.cpp`) | `moved_identifiers`; `destruct_jobs`, drop flags, the loop's first job | declare, move, assign, branch, loop, jump, return | one pass over the source stands for every path through it | no moved value is used, each value is destroyed once |
| The rest of symbol resolution, generics, type verification (`compiler/symres`, `generics`, `typeverify`) | symbol table, instantiation caches | passes over the tree | undo at the end of a scope | sequential |
| Lexer, parser, syntax tree, interpreter, the rest of C translation, LLVM backend | the tree | passes | none of the above | the language's tests |
| Compiler binding interface (`compiler/cbi`) | none of its own | what build.lab files and plugins call | - | - |
| Command line, diagnostics, source locations (`core`) | options, file ids | - | - | - |
| Libraries in Chemical (`lang/libs`) other than the above | - | containers, text formats, wrappers of system calls; the HTTP server submits to the pool | - | - |
| Vendored code (`lib`), packaging (`scripts`, `cmake`) | - | - | - | - |

How the parts interact: a job first gets its remote imports (each download task
builds a module, which may import a build.lab in parallel, on the same pool);
then its modules are flattened and go through the incremental build, which
calls parser, symbol resolution, type verification and a back end for each of
them; the test runner is a program the build produces, which launches itself
once per test on a pool of the standard library. What a module is translated to
depends on two passes that never meet, the move checker and the C backend. The
language server runs the same parser and symbol resolution on trees it keeps,
and gets the module graph from a child process that runs the project's build
files.

`PROJECT.json` lists every part with its status, every place where the code is
hard to test (`hazards`) with the properties that watch it, and for every
definition the lines it stands for (`map`).

## 2. Plan

1. `IncrementalBuild` with its abstract specification `CleanBuild`, its
   inductive invariant, and the proofs. *(done)*
2. `ThreadPool`, `TestLaunch`: the concurrent libraries. *(modelled, checked and
   proved)*
3. `ParallelImport`, `RemoteImports`: what runs before a build. *(modelled, checked
   and proved)*
4. `ImportGraph`: the cycle check and the flattening, call by call. *(modelled,
   checked and proved)*
5. `ChildBuild`: server, child, two semaphores, shared memory, the time out.
   *(modelled, checked and proved)*
6. `Workspace`: which trees of the language server are dirty, freed, read.
   *(modelled, checked and proved)*
7. `MoveChecker` and `DropFlags`, composed in `Moves`. *(modelled, checked and
   proved)*
8. Proofs of all safety properties of the runs. *(done)* The thread pool implements
   `TaskPool`. *(done)*
9. Extensions: moves of fields and switch in `Moves`; created, deleted and saved
   files in `Workspace`; builds whose set of modules changes in between;
   `ParallelImport` and `RemoteImports` over one pool (the nested waits), and
   `RemoteImports` over directories that an earlier build left.

Abstract specifications: `CleanBuild`, a build without a cache, which
`IncrementalBuild` implements; `TaskPool`, a pool without threads, which `ThreadPool`
implements. Worth stating still: an import of build.lab as a search of its graph.

## 3. The incremental build

`IncrementalBuild.tla` models one job. A cached file is not its text but what it
was made from: a set of `<<module, version of its files, output mode>>`. A clean
build makes the executable from the current version of every module, so
staleness is a difference of two such sets.

| Model | Code |
|---|---|
| `src[m]` | sizes and modification times of m's files |
| `stamp[m]` | `timestamp_tcc.dat` / `timestamp.dat` in m's directory |
| `partial`, `header`, `object` | `partial.2c.c`, `partial.2h.c`, the module's object |
| `jobObject`, `exe` | `object_tcc.o`, the linked executable |
| `layout` | `translate_to_single_file` or not (C backend), or LLVM |
| `hasChanged`, `parsed`, `unit`, `pos` | `LabModule::has_changed`, the trees in memory, the C writer, the loop of the job |
| `BeginBuild` | `process_job_*` up to the loop, with the change check and the early return |
| `CompileCFile`, `SkipCFile` | the C file case of the loop |
| `ImportModule` .. `CompileModule` | `process_module_tcc/gen`, one action per file that is written |
| `CompileJob`, `LinkJob`, `AfterFailure` | the job's object, `link_objects_now` and what it leaves when it fails or is killed |
| `Abort`, `Crash...` | an error return; a kill between two writes, or within one (the file is torn) |
| `Edit`, `RemoveModuleDir`, `RemoveBuildDir` | the programmer, between builds or, for `Edit`, at any time |

`Closure(m)` states reachability as the least set closed under `Deps`: the
module has no recursion, so it can be proved about. `Changed` and `Visited` state
what `has_module_changed_recursive` returns and which modules it visits,
including that a missing kept file returns before the dependencies are visited.

The code does **not** keep the cache right in all cases. The variable `disturbed`
observes the windows in which it does not; no action reads it. They are:

* a build fails or is killed when a module's timestamp has been renewed, and
  something that is made from that module has not (`StampsAhead`);
* it is killed between the write of a kept file and of its timestamp, when the old
  timestamp is still valid in another output mode (`StampOfOtherMode`), or within
  a write of a kept file under a valid timestamp, or of the job's object;
* a file is edited after the build read it and before it is stamped (`EditMissed`);
* two builds share files the timestamps do not tell apart: the single and the
  multi file layout, or a build without caching in another mode (`Confuses`).

The properties say that **nothing else** does: `SoundUnlessDisturbed` (what is
linked), `CacheSound` (what lies on disk between builds),
`NothingChangedAfterSuccess` (a second build finds nothing to do), and
`ImplementsCleanBuild`: seen through files, executable and status, the job is the
`CleanBuild` specification, which has no cache. The linker writes the executable in
place (2219-2234): when a link fails or is killed, `AfterFailure` leaves the old one,
none, a piece, or all of the new one, and `CleanBuild` promises of a build that ends
while "linking" only that it has not succeeded. A build that ends before that leaves the
executable alone. What comments in the code promise
without the exceptions is in section 13. The observer `disturbed` is set by the
windows and never cleared until the build directory is removed, which is the
remedy a user has.

Bounds. `build_tcc`: application -> library -> C file (the shape of
`lang/libs/atomic/build.lab`, line 17), both layouts of the C backend, one mode, two
versions of each file; states in which the cache may lie are not explored further
(`CONSTRAINT Trusted`), since nothing is promised of them. `build_llvm`: application
-> library, two output modes, with and without caching; it checks the refinement,
which implies `SoundUnlessDisturbed`. A chain of three modules
has a dependency of a dependency, two versions make a file old or current, and the
proofs remove the bounds.

All of this is safety, and no fairness is stated: that a build ends is that a loop
over the sorted modules does.

### What is proved

`IncrementalBuildProofs.tla` proves for every value of the constants under the
three named assumptions (types; an order with dependencies first, which is what
`flatten_dedupe_sorted` returns for an acyclic graph; every module is reached from
the job):

* `TypeCorrect`: `Spec => []TypeOK`
* `Inductive`: `Spec => []IInv`
* `Sound`: `Spec => []SoundUnlessDisturbed`
* `CacheIsSound`: `Spec => []CacheSound`
* `NothingChangedHolds`: `Spec => []NothingChangedAfterSuccess`
* `Implements`: `Spec => ImplementsCleanBuild`

The argument. `CacheSound` speaks of the time between builds and is not inductive.
`IInv` (`IncrementalBuildInv.tla`) adds what holds in the middle of one: what the
verdicts of the change check still mean when the loop comes to a module, that the
modules before `pos` are in memory at the version the kept files are made from,
what the writer holds, what a kept file is worth before and behind its timestamp,
and what the job's object was made from. Each part is preserved by each action;
the windows in which one would fail are exactly those that set `disturbed`. The
lemmas on `Closure` (it contains m, is transitive, and lies in the prefix of
`Order`) take the place of an induction over the graph. `IInv` is also checked by
TLC in `build_tcc`. `NothingChangedHolds` has a second invariant, `ReadyInv`: in a
build with caching during which nothing is edited, each module that was found
unchanged or that the loop has left behind has its kept file and a timestamp that
compares equal. It does not ask whether the cache is disturbed, and so shows the
other side of the windows: a stale cache is not found changed either.
`Implements` maps the last step before the link to `StartLink`. Induction over data and
recursive operators are out of the prover's reach, which is why `ImportGraph` has
the calls of the recursion as its state.

## 4. The thread pool

`TaskPool.tla` is what a pool promises, without threads: tasks are started once and
in the order of submission, `Get` comes after `Return` and gives the value once, a
task returns when the futures of what it submitted have been dealt with, and the
pool is closed when all has been run. `ThreadPool.tla` is the code: what happens
between `lock` and `unlock` of one mutex is one action; reading the value, deleting
the promise and running a task, which are outside, are their own. Condition
variables may wake spuriously. A task may submit tasks and consume their futures
(`Parent`); clients submit until the pool is deleted.

`thread_pool`: two workers, a task that submits another, a second one and one
without a future. Two workers are needed for one to sleep while another runs, and
one nested task for a worker to wait in `get`. Checked: no side touches a freed
promise, none leaks, all tasks have run when the destructor returns, the pool
implements `TaskPool`, `get` and the destructor return. The last two have one
exception, stated as `AllWorkersWait`: every worker runs a task that waits in `get`
for a queued one. This deadlock is real and inherent to a pool of fixed size.
Fairness: each thread is scheduled (weak fairness per worker and per owner of a
future); a task, when it runs, does submit its children and deals with their
futures. Not modelled: a client that submits while another deletes the pool.

### What is proved

`ThreadPoolProofs.tla`, for every set of workers that is not empty (`create_pool`
panics on 0), every set of tasks, with or without futures, and every tree of tasks
that submit tasks: `TypeCorrect`, `NoUseAfterFreeHolds`, `PromiseFreedHolds` and
`DestructionWaitsHolds`, and `Implements`: `Spec => ImplementsTaskPool`. `IInv` has
a part for each thing that could be handed out twice. A worker has one task and no
two have the same (`OneWorkerEach`), what the worker is at is what the task is at
(`WorkerOfTask`), the queue holds the waiting tasks once each (`QueueOfTasks`), a
promise is ready only when its task has been run (`ReadyAfterRun`), and of the two
sides of a promise the one that comes second frees it: the owner when it saw the
value, the worker when it saw `dropped` as it set the value (`OneSideFrees`).
`LastWorkerDrains` is what the destructor rests on: workers leave only when the
queue is empty after `run` was cleared, and tasks are submitted by clients, who do
not do so then, or by tasks that run, on a worker which is still there. `Implements`
maps each step: `Take` is `Get`, a future's `Drop` is `Drop` when it has the mutex,
and what the promises and the condition variables do is not seen (`Handle`). That
`get` and the destructor return is liveness and stays with TLC.

## 5. The test runner

`TestLaunch.tla`: `launch_test` action by action, with the set `holders` of
processes that hold the child's end of each socket. Every process spawned while a
descriptor is open in the runner inherits it (there is no close-on-exec), so the
end of messages depends on other tests' processes. An exit closes descriptors
first and is visible to `waitpid` later. Evidence is kept per test, as the runner's
arrays keep it, so `BlameIsDeserved` is about what is read into them, and does not watch
what a reused pid or descriptor would do in the runner's own calls.

`test_launch`: two tests on two threads; one is launched twice when it fails, the
other passes on a crash. Two are what inheritance needs. Checked: a test is blamed
only for its own processes; with the exception of one reaped by the `WNOHANG`
check, a failure is known when the process's status is; nothing is left behind; the
time out cannot kill a stranger; and every launch ends, although tests may hang.
Fairness: threads run, exits complete, and time passes, so a loop that comes to
its top again and again finds its time over (strong fairness of `TimeOut`).
A spawn failure makes a test count as passed; no text of the repository says
otherwise and no property does. Left out: short or malformed messages, EINTR,
filters and printing.

### What is proved

`TestLaunchProofs.tla`, for every set of tests, number of threads and number of tries:
`TypeCorrect`, `BlameIsDeservedHolds`, `FailureKnownAtEndHolds`, `NoProcessLeftHolds`,
`KillsOwnProcessHolds`, and `TriesBoundedHolds`, which says how often a test is
launched: `@test.retry(n)` gives n - 1 launches at most, and one for n up to 2 (section
13). The invariant is one of each test (`TestInv`), and what makes that possible is
a lemma (`OthersKeep`): the steps of one test touch another one only through
`holders`, by adding or removing processes other than its own and the runner. So the
descriptors that leak into strangers delay the end of a test's messages, and
cannot make it look like one that failed. `FailureNotLost` and `LoopLeft` follow a
failure from the process into the socket, into `has_failed`, or into the exit
status.

## 6. The parallel import of build.lab

`ParallelImport.tla`: the importer and each task walk a list of imports: look up
under the mutex, count, push. A task that is done counts down (`DoneTask`), and the one
that makes the counter zero goes on to fulfil the promise (`Fulfil`): two steps which no
lock joins. `early` observes that a task was counted when the counter had fallen to
zero, before or after the promise got its value; the code allows both, and in both the
wait ends with a file that nobody has parsed (section 13). `CompleteUnlessEarly` says
that nothing else goes wrong. `handed` counts over the whole import how often the pool
was given a file, and `PushedOnce` says at most once, whether or not its first task has
ended by then. `parallel_import` has two
build.lab files imported by tasks of a pool of two threads, a cycle, a shared and an
unreadable file: the wait ends unless all the threads wait (`PoolExhausted`, real
when as many packages with a build.lab come up in a wave as there are threads). The
pool is ctpl, a FIFO queue with a fixed number of threads, and external. Fairness:
every thread that can go on does. The system stops when the imports have ended or
the pool is exhausted, so deadlock is not checked.

### What is proved

`ParallelImportProofs.tla`, for every set of build.lab files, graph of imports, set of
unreadable files and number of threads: `TypeCorrect`, `PushedOnceHolds`,
`CompleteUnlessEarlyHolds`. The heart of `IInv` is `CounterRight`: the counter is the
cardinality of the set of tasks that are in the queue, at work, or counted and about
to be pushed, without the one that is about to fulfil the promise; and when the counter
fell to zero in time that set is empty. `FulfilOnce` says that one task does so, and
`HandedRight` that a file has been handed to the pool as often as the state of its task
says, which is at most once. Then
all that was entered into the cache has been parsed or has made an error
(`HandedOnce`, `ParsedOrError`), and the cache is closed under imports (`LookedAt`), so
it is all that can be reached (`ReachableLeast`).

## 7. The remote imports

`RemoteImports.tla`: `add_remote_import` is one step under the job's mutex, a
download is as many steps as it has accesses to what others write. A request is
made by the job before it runs, or by the thread that builds a module. Directories
on disk hold nothing, a part of a clone of a version, or a whole one.

Four of its variables only observe, and name the windows the code leaves open:
`hidden` (built_module set without the mutex while the import is replaced),
`torn` (two threads append to one vector of dependencies), `switched` (an import
replaced while its task is starting, so that the directory is named for one version
and holds another), `doubled` (two threads building one local module).
`RequestsServed`, `WholeClones`, `NewestInTime`, `DoubledOnlyByRace` say what holds
outside them, `ImportsEnd` that it ends. Two writes to a vector at a time may
lose either; what else the undefined behaviour may do is not modelled. The vector of
requesters keeps a request that is made twice, and such a requester gets the module
twice: `requesters`, `wanted` and `deps` are counts, and `RequestsServed` says that
each requester has each module as often as it asked, no more and no less.

`remote_imports`: a library, a tool, a second module of the library's repository
(asked for twice), and one that only the downloads ask for, in two versions, so that
there are two waves, one directory with two tasks, and requests before, during and
after a download. Three threads let the three imports of the first wave run at the
same time. The default conflict strategy (the newer version is kept) is the only one
modelled. Fairness: threads run and git ends. That of `Task` assumes that building a
build.lab comes back, which it does not while the importers of the same wave hold every
thread of the pool (`PoolExhausted` in section 6); the two on one pool are an extension
(section 2). Deadlock is not checked because the job ends. `NewestInTime` speaks of the
requests in time: a newer version that is asked for after its download is dropped, and
what the guide says of versions without that condition does not hold (section 13).

### What is proved

`RemoteImportsProofs.tla`, for every set of imports, assignment of repositories, list of
requests and uses, number of versions and threads: `TypeCorrect`,
`RequestsServedHolds`, `WholeClonesHolds`, `NewestInTimeHolds`,
`DoubledOnlyByRaceHolds`. The invariant has a part for each: a request is counted among
the requesters until they are gone through and among the dependencies afterwards
(`ServedInv`); a directory is claimed by one task from the look at it to the release,
and holds a part of a clone only while that task clones, or after it failed
(`DirsInv`); the version of an import is the newest one asked for before its download,
and so is what the directory of that name holds, as long as no import of the
repository was `switched` (`NewestInv`); and one thread at a time builds a local
module (`LocalsInv`). `None \notin Import` is assumed of the model's mark for
"no instance", which stands for a null pointer.

## 8. The module graph

`ImportGraph.tla`: the two recursions over a graph of files, call by call. A frame
of `stack` is a call of `check_imports_for_cycles` or `recursive_dedupe`; `end` is
the length the list of parents had when the call was made, and `parents` is the one
list all calls share and trim. Recursion as a stack makes the depth a property
instead of an assumption. A call looks at its imports in any order, which covers
every order in which a file can list them.

`import_graph`: every graph over four files with at most six imports (self-imports
included), from every set of roots. Four files make a diamond,
and a cycle beside or behind a branch that does not lead to it, which is what the shared
list could get wrong. `CyclesFound` compares
the verdict with the definition (`Least`, the least set closed under imports) in
both directions, `DepthBounded` says that no call nests deeper than there are files,
`IndependentFirst` that the order has dependencies first, each once, and all of
them. The search ends, so deadlock is not checked.

### What is proved

`ImportGraphProofs.tla` proves the three for every finite set of files, every graph
and every set of roots: `CyclesAreFound`, `DepthIsBounded`, `IndependentComeFirst`,
from one inductive invariant (`IInv` there). It needs no induction over the graph,
since the stack is state: the active calls are a path (`Path`), so an import found
among the callers closes a cycle; the shared list begins with the callers of each
active call, however siblings have trimmed it (`Callers`), so no file has two calls;
while no cycle is found, whatever a call is done with leads to none (`Covered` with
`SafeFiles`), since a file all of whose imports lead to no cycle leads to none
(`SafeByImports`); and in the second search whatever a call is done with has been
entered (`Covered` with the order). That `flatten` nests no deeper than there are
files follows from `Path` and the verdict of the check.

The same `flatten` runs on modules, for the job and in the language server, without
a cycle check before it: two modules that depend on each other make it recurse
without end. Nothing in the model contradicts that; `DepthBounded` holds of
`flatten` because `phase` is "flatten" only when no cycle was found.

## 9. Build files in child processes

`ChildBuild.tla`: the server launches a child that runs the project's build files
and hands the module graph back in shared memory. An action is a call the other side
can observe, on POSIX (names in the file system, `O_EXCL`) and on Windows (named
objects with handles). Each launch has names of its own. `done[l]` is whose
semaphore carries the name `childDone`, `mine[l]` the one the server waits on.

A time out may come at any point of the wait. On POSIX, the child unlinks and
creates `childDone` after the server has done so, and the two never share it: every
launch is timed out (section 13), and `HeardMeansWhole` is exercised by the Windows
half of the run. The server reads the shared memory after a time out, too; a payload
that is not whole is torn and does not parse, and reading memory that was never
sized ends the server (`crashed`).

`child_build` has two launches, since what they share is the server's context.
`overlapped` observes that one began while another was under way, and
`ContextOfOneBuild` promises nothing then. `NothingLeft`, `NoChildLeft` and
`LaunchEnds` hold with a child killed between any two of its calls. A launch whose
`CreateDone` fails leaves its names, and `NothingLeft` excepts it.
Fairness: weak fairness of the server's and of the child's steps and of a kill that
was sent. `Compile` has none: a build may hang, and `LaunchEnds` holds nevertheless.
Launches end, so deadlock is not checked. Left out: compiling in the server (a debug
switch), exhausted resources other than the failing creation, interrupted calls, the
JSON text.

### What is proved

`ServerProofs.tla`, for every set of launches and any set of platforms:
`TypeCorrect`, `HeardMeansWholeHolds`, `NothingLeftHolds`, `NoChildLeftHolds`,
`ContextOfOneBuildHolds`, and `HeardOnWindowsOnlyHolds`: on POSIX no launch, ever,
hears its child (section 13). Launches share nothing but the context, so the
invariant is one of each launch (`LaunchInv`) and one of the context (`ContextInv`).
`PosixDeaf` is why nobody is heard on POSIX: the server waits on its own semaphore,
and only the child's is posted. On Windows, `HeardIsThere` says that what was posted
is of a child that has written its answer and keeps its handle until it is
acknowledged or killed, and `NamesHeld` who holds what leads to a name.

## 10. The language server's workspace

`Workspace.tla`: the messages of the editor, one after the other, as the server's
loop handles them. What a file's functions contain is linked

* into its own module (`own[f]`): to the trees of the files beside it, and to what
  linking puts on the module's allocator, such as the cases of a variant
  (`SymResLinkBody.cpp` 742);
* into the modules it depends on (`through[f]`), whose declarations it gets by their
  children maps. Such a map is made by the module that first asks for it, lies on that
  module's allocator (`mapsOn`), and is never made again.

| Code | Model |
|---|---|
| parsing a file again frees its tree (876-907) | the links of the files beside it and of the modules above it die; the module's map is `outdated` |
| `sym_res_mod_sig` clears the module's allocator (335) and so does linking the other files again (788) | all links into the module die, but those the file at hand gets now; the maps on the allocator are `outdated` |
| `sym_res_mod_sig` links declarations, not bodies, and calls `unmake_module_dirty` (407) | the module counts as clean (`resolved`, `dirtyFiles`) |
| linking a file's functions | its links are live, or `misled` when a map it sees is out of date |

`ToResolve` is the loop that resolves dependencies from the first one that is not
resolved on. A file is taken to use all it can see. The cache of tokens is a list, the
most recent first.

`SiblingsLive`, `DependenciesLive` and `TokensLinked` say that a request reads trees,
nodes and tokens that are there. The code does not ensure it always, and the model
records where it does not:

* `absorbed`, files that were left out. When a file is processed, the modules below are
  cleared, linked again in their declarations only, and count as clean. The functions of
  their files, and those of other modules that depend on them, keep links to what was
  freed (`Bypassed`). Opening a file of a module and then one of a module above it
  suffices: a request for the first walks to nodes that were cleared. A file leaves the
  set when it is linked again.
* `misled`, files linked by a map out of date: they point to what had been freed before
  they were linked. An edit in a module, and its dependents linked again, lead there.

`DependenciesLive` excepts the second and promises that nothing is reached that was freed
*since* a file was linked: that a change below a module, at any depth, is noticed by what
is above it. Section 13 has what the comments say.

`workspace`: `app` depends on `lib`, which depends on `base`, as does `fork`, so that there
are direct and indirect dependencies and a module which is above one that is resolved but
not above the file at hand; two files in `base`, which may be exchanged (`SYMMETRY`); and a
cache of two entries (ten in the code) for five files, so that tokens are evicted. One
file at a time does not lex (`OneBroken`); without that bound the same properties hold in
a million states. The server can always handle another message, and deadlock is checked.
Left out: the links of declarations, which are made again each time their module is
resolved, created, deleted and closed files, a saved build.lab, the background build and
the analyzers, and the mutexes (the model has one message at a time).

### What is proved

`ServerProofs.tla`, for every set of files and modules, every graph in the order
`flatten` gives (section 8 proves it of `flatten`) and every capacity of the cache:
`WorkspaceTypeCorrect`, `WorkspaceInvariance`, `SiblingsLiveHolds`,
`DependenciesLiveHolds`, `TokensLinkedHolds`. The properties speak of the file that was
answered for last; `WorkspaceInv` adds what holds of the others (`DeadIsDirty`): a file
with a link to what was freed is one a request would link again first, since a file beside
it or a module below is dirty, or it was `absorbed`. What makes it inductive is that a
module that loses its dirtiness was resolved, so that whatever is linked to it is in the
module of the file at hand, above it, or `Bypassed`; the modules above notice that module
instead. The proof needs nothing of the maps: they decide who is misled, which no
property promises anything about. `WorkspaceTypeCorrect` includes that the cache's list
holds no file twice and no more than its capacity, which takes lemmas on moving an
element of a sequence to its front (`MovedToFront`).

## 11. Moves

The move checker walks a function body once, in the order of the text; the C backend
emits destructor calls and drop flags in a second pass; the program then takes any
path. `Moves.tla` composes the three:

* `MoveChecker.tla`: `moved_identifiers`, what the checker saves and restores at
  each branch and loop (`bodies`), and which statements it accepts.
* `DropFlags.tla`: `destruct_jobs`, the index where a loop's jobs begin, the C
  statements emitted for each statement, scope end and jump, and what they do along
  all paths at once. `paths` relates the state at the entry of the innermost loop
  body, or of the function, to those reached from it: what each variable holds (live,
  gone, nothing), its drop flag, and the first fault met, behind which a run holds
  nothing. At its end a loop is closed under any number of rounds (`Rounds`).
* `MoveProgram.tla`: what the two share, the variables and the kinds of bodies.

A behaviour of `Moves` writes a program, any statement the checker accepts being
next: declaration, move, assignment, `if` / `else`, four kinds of loop, block,
`break`, `continue`, `return`. So `moves` checks every accepted program of two
variables with up to five statements and scopes, with any of the variables as
parameters.

| Property | It says |
|---|---|
| `CheckerRemembers` | what some path no longer holds is on the checker's list |
| `NoMovedUse` | no accepted program uses or destroys a value twice |
| `NoLeak` | each value is destroyed, however its scope is left |
| `FlagsTruthful` | on each path the drop flags say what is held |

Each has exceptions, and each exception is a set of variables that observes one gap
of the code: `forgotten` (a later branch of an `if` overwrites what the earlier one
saved; an assignment in one branch speaks for all; a loop's body is linked once, so
the second round is never looked at; the end of a loop erases a reversed range,
which is undefined and modelled by both outcomes), `maybeLive` (an assignment taken
for a first one), `overDropped` (a `break` out of a loop used as a value drops what
was declared before the loop), `selfAssigned` (`x = x`). The variables are never
read by an action. What the documentation says of moves without the exceptions is in
section 13.

Two variables let one be moved into the other; five statements let a variable be
declared in front of a loop, moved behind a branch in it and used again. The
function ends, so deadlock is not checked. Left out: moves of fields
(`moved_chains`), `switch`, `unsafe`, `comptime if`, conditions that move, variables
without an initial value, code behind a jump in its scope, and destruction in the
LLVM backend.

### What is proved

`MovesProofs.tla`, for any finite set of variables and any number of statements,
scopes and rounds of a loop: `MovesTypeCorrect`, `CheckerRemembersHolds`,
`NoMovedUseHolds`, `NoLeakHolds`, `FlagsTruthfulHolds`, all from one inductive
invariant, `IInv` of `MovesInv.tla` (`Invariance`).

The four properties speak of the statement that is being written, three of them at
function level only; a loop that is closed brings back the runs of its entry and of
its body, with the lists of the checker as they were saved. The invariant therefore
says of every set of runs that is kept, the current one and those at each open scope,
that it is `Good`. A *context* is what the checker knows at a point: the variables in
scope, those on the list, those that may be gone, and the saved lists that go back on
it later. `Good(P, f, c, h)` says of the runs `P` from the context `f` to the context
`c` that whatever is wrong with a variable is either excused by the history `h`, or
was wrong in the state the run started from. The second half is what makes loops
possible: a body is translated for every state it might be entered in
(`AnyEnv`), most of which no program reaches, and when the runs before the loop are
joined with those of its body (`JoinGood`, `RoundsGood`, `LoopGood`), what the body
took from its start is what the runs before it are excused for.

The other parts of `IInv` relate lists and scopes: `Jumped` (nothing runs on behind a
jump), `LoopBegins` (a jump drops no less than it leaves), `Doubles` (a variable is
listed twice only if the history knows), `KnownKept` (what a body was entered with is
still on the list, below every later begin, or was forgotten), `ListDeclared`.

The argument goes bottom up. `RunIs` is the bridge from the fold that runs emitted
code to its single statements; `LeaveEffect` says what any number of drops and ends
do, in the order `destruct` emits them; `GoodMove`, `GoodInit`, `GoodAssign`,
`GoodLeave`, `GoodReturn` carry that over to sets of runs; `ListRemove`, `LinkedIs`
and `SplitIs` do the same for the list. Then there is one lemma per action
(`DeclareKeeps`, ..., `CloseLoopKeeps`, `EndFunctionKeeps`). No run lists `IInv`, since
evaluating it costs more than the rest of the run: with `INVARIANT IInv` and
`MaxStatements = 4` in `moves.cfg`, TLC finds it to hold in all 68541 states within
half a minute, with 5 in five minutes.

One assumption concerns the program: the variables of a function are finitely many.
`Parameters` takes any of them in any order.

## 12. What is only checked, and what is not modelled

Every safety property of a passing run is proved for all values of the constants.
Only model-checked are:

* Liveness: `GetReturns`, `DeleteReturns`, `LaunchesEnd`, `WaitReturns`,
  `ImportsEnd`, `LaunchEnds`. Fairness is about ENABLED, which is out of reach.
* What `moved_is_error` refutes. What `answer_heard` refutes has a counterpart that is
  proved, `HeardOnWindowsOnlyHolds`.

Recursive definitions can be reasoned about here only where a set is at hand to do the
induction on. In `MovesProofs`, `LeastNumber` takes the least element of a set of
numbers from the well-foundedness of <, and `Induction` and `Iteration` follow: that
is enough for code of any length and any number of rounds, as long as each
use names its set. What an operator does for every input that is no set, such as the
calls of `flatten` one in another, is proved as an invariant of its steps instead.

The proofs assume of the constants only what the named assumptions in the modules
say, each of which TLC evaluates in every run. They are types; the order `flatten`
returns; that a pool and a build have at least one thread, version and entry; that a
function has finitely many variables; and that a model value that stands for "nobody" or "the job" is none of the others.

Not modelled, with reasons in `components` of `PROJECT.json`. Most of the compiler's
lines are parser, syntax tree, generics, type verification and translation:
sequential functions from one tree to another whose correctness is about the shape
of the data, for which the models have no abstraction that would be shorter than the
code and still say something a test does not. From them the models take what has a
protocol: the move checker and the destruction. Vendored code, packaging, text
formats and the libraries of components are left alone.

## 13. Where code and texts disagree

| Run | What it shows |
|---|---|
| `moved_is_error` | Using a moved value is not always an error: a program of three or four statements is accepted and uses or destroys one (`.agents/skills/symres/SKILL.md` 202 and `lang/docs/chemical-safety-analysis.md` 1727; the lines are quoted in `findings`). |
| `answer_heard` | A child that has posted `childDone` and waits is timed out, since parent and child each have a semaphore of that name (`server/build/ChildProcessBuild.cpp` 262-269 and `ipc_process.cpp`). |

Further divergences are the exceptions that properties of passing runs name, and
have no run of their own:

* A build that fails behind a renewed timestamp makes the next one take its early
  return, link old objects and report success (`LabBuildCompiler.cpp` 1704-1739,
  against the comment at 1706): `disturbed` through `StampsAhead`.
* An edit between reading and stamping is vouched for and never translated
  (`Timestamp.cpp` 14-39, against its comment at 10): `EditMissed`.
* The result of a failing process that the `WNOHANG` check reaps counts as passed
  (`launch.ch` 103-111, 181): the exception of `FailureKnownAtEnd`.
* `@test.retry(2)` launches a failing test once (`runner.ch` 50-62, against the
  comment at 53): the number of tries in `TestLaunch`.
* The wait for all files can end with files unparsed (`ASTProcessor.cpp` 847,
  `ASTProcessor.h` 63-68, against the comment at `LabBuildCompiler.cpp` 2759):
  `early`, the exception of `CompleteUnlessEarly`.
* "If one version is greater than the other, The newer version is kept and older is
  discarded" (`.agents/skills/chemical_mod/SKILL.md` 153, with 151 before it, and without
  a condition). The code keeps the older one whenever the newer is asked for after the
  older has been built (`LabBuildCompiler.cpp` 4398-4405, the requester gets what there
  is) or while it is being downloaded (4414, the import is replaced, but what has been
  cloned stays). `NewestInTime` therefore says "in time", with `inTime` as its
  condition, and so does not confirm the guide.
* A request is processed "so that everything is ready to serve the request (tokens,
  unit)" (`server/WorkspaceManager.h` 361-364). The functions of a file that was left out
  when its module was resolved for another (`LspSemanticTokens.cpp` 335, 407) are not:
  `absorbed`, the exception of `SiblingsLive` and `DependenciesLive`. Nor are those linked
  by a map of symbols "calculated once for caching purposes" (`compiler/lab/LabModule.h`
  119) and used after what it holds was freed: `misled`, the
  exception of `DependenciesLive`.
