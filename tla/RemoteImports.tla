----------------------------- MODULE RemoteImports -----------------------------
(***************************************************************************)
(* The remote imports of a job: LabBuildCompiler::add_remote_import,       *)
(* download_remote_import and process_remote_imports                       *)
(* (compiler/lab/LabBuildCompiler.cpp), and the cache of modules that      *)
(* create_module_for_dependency keeps in LabJob::built_files.              *)
(*                                                                         *)
(* Imports are downloaded in waves, the imports of a wave at a time on the *)
(* threads of a pool.  Each task fetches a repository, builds the module   *)
(* in it, which may ask for more remote imports, and then gives the module *)
(* to all who have asked for it.  What is done under LabJob::mutex is one  *)
(* step here; the rest of a task is as many steps as it has accesses to    *)
(* what others write.                                                      *)
(***************************************************************************)
EXTENDS Integers, Sequences, FiniteSets

CONSTANTS
    Import,     \* the remote imports, by origin, scope, name and subdirectory
    Repo,       \* Repo[i]: the repository i is in
    Job,        \* the job, where it asks for a module as the modules do
    Local,      \* the modules on this machine (native libraries, directories)
    Roots,      \* what the job asks for: a sequence of <<import, version>>
    Wants,      \* Wants[i]: what the build file of i asks for, likewise
    Uses,       \* Uses[i]: the local modules it imports, in order
    MaxVersion, \* the newest version
    Threads,    \* threads of the pool
    MayFail     \* may a download fail?

Version == 1..MaxVersion
Requester == Import \cup {Job}
None == "none"

ASSUME ConstantsAssumption ==
    /\ Job \notin Import
    /\ None \notin Import
    /\ MaxVersion \in Nat \ {0}
    /\ Threads \in Nat \ {0}
    /\ MayFail \in BOOLEAN
    /\ Roots \in Seq(Import \X Version)
    /\ Wants \in [Import -> Seq(Import \X Version)]
    /\ Uses \in [Import -> Seq(Local)]

VARIABLES
    order,      \* remote_imports: the imports in the order they were first asked for
    version,    \* version[i]: RemoteImport::version, 0 before it is asked for
    requesters, \* requesters[i][r]: how often r is among RemoteImport::requesters
    built,      \* RemoteImport::built_module: the version it was built from, or 0
    processed,  \* processed_count
    job,        \* "asking", "idle", "wave", "success" or "failed"
    asked,      \* how many of its Roots the job has asked for
    pc,         \* pc[i]: where the task of i is
    idx,        \* idx[i]: how far its build file has been gone through
    dir,        \* dir[i]: the version in the name of its target_dir
    downloading,\* downloading_dirs
    disk,       \* disk[r][v]: what is in the directory of r and v: 0 nothing,
                \* -w a part of a clone of version w, w all of it
    deps,       \* deps[r][i]: how often the module of i is among r's dependencies
    builtFiles, \* LabJob::built_files, for Local: who built the module
    uses,       \* uses[i][l]: who built the instance of l that i depends on
    \* The next only observe.
    wanted,     \* wanted[r][i]: how often r has asked for i
    inTime,     \* inTime[i]: the versions asked for before i's clone began
    switched,   \* the repositories of imports that were changed during a download
    hidden,     \* the imports whose built_module was overwritten as it was set
    torn,       \* the modules whose dependencies two threads wrote at a time
    doubled     \* the local modules two threads were building at a time

shared == <<order, version, requesters, built>>
tasks == <<pc, idx, dir>>
files == <<downloading, disk>>
modules == <<deps, builtFiles, uses>>
observed == <<wanted, inTime, switched, hidden, torn, doubled>>
vars == <<shared, processed, job, asked, tasks, files, modules, observed>>

TypeOK ==
    /\ order \in Seq(Import)
    /\ version \in [Import -> 0..MaxVersion]
    /\ requesters \in [Import -> [Requester -> Nat]]
    /\ built \in [Import -> 0..MaxVersion]
    /\ processed \in Nat
    /\ job \in {"asking", "idle", "wave", "success", "failed"}
    /\ asked \in Nat
    /\ pc \in [Import -> {"none", "queued", "claim", "exists", "clone", "ask", "lookup",
                          "make", "append", "publish", "serve", "end",
                          "ok", "failed"}]
    /\ idx \in [Import -> Nat \ {0}]
    /\ dir \in [Import -> 0..MaxVersion]
    /\ downloading \subseteq {Repo[i] : i \in Import} \X Version
    /\ disk \in [{Repo[i] : i \in Import} -> [Version -> -MaxVersion..MaxVersion]]
    /\ deps \in [Requester -> [Import -> Nat]]
    /\ builtFiles \in [Local -> Import \cup {None}]
    /\ uses \in [Import -> [Local -> Import \cup {None}]]
    /\ wanted \in [Requester -> [Import -> Nat]]
    /\ inTime \in [Import -> SUBSET Version]
    /\ switched \subseteq Import
    /\ hidden \subseteq Import
    /\ torn \subseteq Import
    /\ doubled \subseteq Local

Init ==
    /\ order = <<>>
    /\ version = [i \in Import |-> 0]
    /\ requesters = [i \in Import |-> [r \in Requester |-> 0]]
    /\ built = [i \in Import |-> 0]
    /\ processed = 0
    /\ job = "asking"
    /\ asked = 0
    /\ pc = [i \in Import |-> "none"]
    /\ idx = [i \in Import |-> 1]
    /\ dir = [i \in Import |-> 0]
    /\ downloading = {}
    /\ disk = [r \in {Repo[i] : i \in Import} |-> [v \in Version |-> 0]]
    /\ deps = [r \in Requester |-> [i \in Import |-> 0]]
    /\ builtFiles = [l \in Local |-> None]
    /\ uses = [i \in Import |-> [l \in Local |-> None]]
    /\ wanted = [r \in Requester |-> [i \in Import |-> 0]]
    /\ inTime = [i \in Import |-> {}]
    /\ switched = {}
    /\ hidden = {}
    /\ torn = {}
    /\ doubled = {}

Go(i, p) == pc' = [pc EXCEPT ![i] = p]

\* The dependencies of these modules are being written by the thread that
\* builds them, which holds no mutex.
Appending == {i \in Import : pc[i] = "append"}

-----------------------------------------------------------------------------
\* add_remote_import, under the job's mutex, with the default strategy: of two
\* versions the newer one is kept.

\* Mutant: who asks for a module that has been built is put on its list.
AddRemoteImportToList(r, i, v) ==
    /\ order' = IF version[i] = 0 THEN Append(order, i) ELSE order
    /\ version' = [version EXCEPT ![i] = IF v > @ THEN v ELSE @]
    /\ requesters' = [requesters EXCEPT ![i][r] = @ + 1]
    /\ wanted' = [wanted EXCEPT ![r][i] = @ + 1]
    /\ inTime' = [inTime EXCEPT ![i] = IF pc[i] \in {"none", "queued", "claim", "exists"}
                                       THEN @ \cup {v} ELSE @]
    /\ UNCHANGED <<built, deps, switched>>

\* Mutant: the version asked for first is kept.
AddRemoteImportKeepFirst(r, i, v) ==
    /\ order' = IF version[i] = 0 THEN Append(order, i) ELSE order
    /\ IF built[i] # 0
       THEN /\ deps' = [deps EXCEPT ![r][i] = @ + 1]
            /\ UNCHANGED <<version, requesters>>
       ELSE /\ version' = [version EXCEPT ![i] = IF @ = 0 THEN v ELSE @]
            /\ requesters' = [requesters EXCEPT ![i][r] = @ + 1]
            /\ UNCHANGED deps
    /\ wanted' = [wanted EXCEPT ![r][i] = @ + 1]
    /\ inTime' = [inTime EXCEPT ![i] = IF pc[i] \in {"none", "queued", "claim", "exists"}
                                       THEN @ \cup {v} ELSE @]
    /\ UNCHANGED <<built, switched>>

AddRemoteImport(r, i, v) ==
    /\ order' = IF version[i] = 0 THEN Append(order, i) ELSE order
    /\ IF built[i] # 0
       THEN /\ deps' = [deps EXCEPT ![r][i] = @ + 1]
            /\ UNCHANGED <<version, requesters, switched>>
       ELSE /\ version' = [version EXCEPT ![i] = IF v > @ THEN v ELSE @]
            /\ requesters' = [requesters EXCEPT ![i][r] = @ + 1]
            /\ switched' = IF v > version[i] /\ pc[i] \notin {"none", "queued"}
                           THEN switched \cup {i} ELSE switched
            /\ UNCHANGED deps
    /\ wanted' = [wanted EXCEPT ![r][i] = @ + 1]
    /\ inTime' = [inTime EXCEPT ![i] = IF pc[i] \in {"none", "queued", "claim", "exists"}
                                       THEN @ \cup {v} ELSE @]
    /\ UNCHANGED built

\* fetch_job_dependency, before the job is run.
AskForRoot ==
    /\ job = "asking" /\ asked < Len(Roots)
    /\ asked' = asked + 1
    /\ AddRemoteImport(Job, Roots[asked + 1][1], Roots[asked + 1][2])
    /\ UNCHANGED <<processed, job, tasks, files, builtFiles, uses, hidden, torn, doubled>>

RunJob ==
    /\ job = "asking" /\ asked = Len(Roots)
    /\ job' = "idle"
    /\ UNCHANGED <<shared, processed, asked, tasks, files, modules, observed>>

-----------------------------------------------------------------------------
\* process_remote_imports

Wave == {order[n] : n \in (processed + 1)..Len(order)}
Finished(i) == pc[i] \in {"none", "ok", "failed"}

\* The imports that came up since the last wave go to the pool.
BeginWave ==
    /\ job = "idle" /\ Wave # {}
    /\ pc' = [i \in Import |-> IF i \in Wave THEN "queued" ELSE pc[i]]
    /\ processed' = Len(order)
    /\ job' = "wave"
    /\ UNCHANGED <<shared, asked, idx, dir, files, modules, observed>>

\* Every future of the wave has been waited for.
EndWave ==
    /\ job = "wave" /\ \A i \in Import : Finished(i)
    /\ job' = IF \E i \in Import : pc[i] = "failed" THEN "failed" ELSE "idle"
    /\ UNCHANGED <<shared, processed, asked, tasks, files, modules, observed>>

EndImports ==
    /\ job = "idle" /\ Wave = {}
    /\ job' = "success"
    /\ UNCHANGED <<shared, processed, asked, tasks, files, modules, observed>>

-----------------------------------------------------------------------------
\* download_remote_import, the task of import i.

Where(i) == <<Repo[i], dir[i]>>
InDir(i) == disk[Repo[i]][dir[i]]

\* A free thread takes the task that was queued first; the name of the target
\* directory is made from the import as it is now.
TakeTask(i) ==
    /\ pc[i] = "queued"
    /\ Cardinality({j \in Import : ~Finished(j) /\ pc[j] # "queued"}) < Threads
    /\ \A m, n \in 1..Len(order) : m < n /\ order[n] = i => pc[order[m]] # "queued"
    /\ dir' = [dir EXCEPT ![i] = version[i]]
    /\ Go(i, "claim")
    /\ UNCHANGED <<shared, processed, job, asked, idx, files, modules, observed>>

\* Mutant: a directory that another task is busy with is not waited for.
ClaimAnyway(i) ==
    /\ pc[i] = "claim"
    /\ downloading' = downloading \cup {Where(i)}
    /\ Go(i, "exists")
    /\ UNCHANGED <<shared, processed, job, asked, idx, dir, disk, modules, observed>>

\* download_cv.wait until nobody downloads into the directory.
Claim(i) ==
    /\ pc[i] = "claim"
    /\ Where(i) \notin downloading
    /\ downloading' = downloading \cup {Where(i)}
    /\ Go(i, "exists")
    /\ UNCHANGED <<shared, processed, job, asked, idx, dir, disk, modules, observed>>

\* A directory that exists is taken for a clone; else git is told to clone the
\* version that the import has now.
LookAtDir(i) ==
    /\ pc[i] = "exists"
    /\ IF InDir(i) # 0
       THEN Go(i, "ask") /\ UNCHANGED disk
       ELSE Go(i, "clone") /\ disk' = [disk EXCEPT ![Repo[i]][dir[i]] = -version[i]]
    /\ UNCHANGED <<shared, processed, job, asked, idx, dir, downloading, modules, observed>>

Clone(i) ==
    /\ pc[i] = "clone"
    /\ disk' = [disk EXCEPT ![Repo[i]][dir[i]] = -@]
    /\ Go(i, "ask")
    /\ UNCHANGED <<shared, processed, job, asked, idx, dir, downloading, modules, observed>>

\* git fails, and removes what it has cloned or (with a commit: init, fetch,
\* checkout) does not; or the build file is no good.
Fail(i) ==
    /\ MayFail
    /\ pc[i] \in {"clone", "ask"}
    /\ \/ UNCHANGED disk
       \/ pc[i] = "clone" /\ disk' = [disk EXCEPT ![Repo[i]][dir[i]] = 0]
    /\ downloading' = downloading \ {Where(i)}
    /\ Go(i, "failed")
    /\ UNCHANGED <<shared, processed, job, asked, idx, dir, modules, observed>>

\* create_module_for_dependency finds no build file in what is left of a clone.
NoBuildFile(i) ==
    /\ pc[i] = "ask" /\ InDir(i) < 0
    /\ downloading' = downloading \ {Where(i)}
    /\ Go(i, "failed")
    /\ UNCHANGED <<shared, processed, job, asked, idx, dir, disk, modules, observed>>

\* create_module_for_dependency of the clone: build_module_from_mod_file first
\* asks for the remote imports of the build file ...
AskForImport(i) ==
    /\ pc[i] = "ask" /\ InDir(i) > 0 /\ idx[i] <= Len(Wants[i])
    /\ AddRemoteImport(i, Wants[i][idx[i]][1], Wants[i][idx[i]][2])
    /\ idx' = [idx EXCEPT ![i] = @ + 1]
    /\ UNCHANGED <<processed, job, asked, pc, dir, files, builtFiles, uses, hidden, torn, doubled>>

\* The task of k sets its built_module, holding no mutex, after the thread of i
\* has found it unset and before that thread puts the newer import in its place:
\* the import is served and has no built_module.
AskWhilePublished(i) ==
    /\ pc[i] = "ask" /\ InDir(i) > 0 /\ idx[i] <= Len(Wants[i])
    /\ LET k == Wants[i][idx[i]][1]
       IN  /\ pc[k] = "publish"
           /\ Wants[i][idx[i]][2] > version[k]
           /\ AddRemoteImport(i, k, Wants[i][idx[i]][2])
           /\ Go(k, "serve")
           /\ hidden' = hidden \cup {k}
    /\ idx' = [idx EXCEPT ![i] = @ + 1]
    /\ UNCHANGED <<processed, job, asked, dir, files, builtFiles, uses, torn, doubled>>

AskedForAll(i) ==
    /\ pc[i] = "ask" /\ InDir(i) > 0 /\ idx[i] > Len(Wants[i])
    /\ idx' = [idx EXCEPT ![i] = 1]
    /\ Go(i, "lookup")
    /\ UNCHANGED <<shared, processed, job, asked, dir, files, modules, observed>>

\* ... and then builds its local imports, unless built_files has them.
NextLocal(i) == Uses[i][idx[i]]

LookUpLocal(i) ==
    /\ pc[i] = "lookup" /\ idx[i] <= Len(Uses[i])
    /\ LET l == NextLocal(i)
       IN  IF builtFiles[l] # None
           THEN /\ uses' = [uses EXCEPT ![i][l] = builtFiles[l]]
                /\ Go(i, "append")
                /\ UNCHANGED doubled
           ELSE /\ Go(i, "make")
                /\ doubled' = IF \E j \in Import : pc[j] = "make" /\ NextLocal(j) = l
                              THEN doubled \cup {l} ELSE doubled
                /\ UNCHANGED uses
    /\ UNCHANGED <<shared, processed, job, asked, idx, dir, files, deps, builtFiles,
                   wanted, inTime, switched, hidden, torn>>

\* Mutant: the module that was built is not entered in built_files.
BuildLocalOnly(i) ==
    /\ pc[i] = "make"
    /\ uses' = [uses EXCEPT ![i][NextLocal(i)] = i]
    /\ Go(i, "append")
    /\ UNCHANGED <<shared, processed, job, asked, idx, dir, files, deps, builtFiles, observed>>

\* The module is built without the mutex, and entered unless one is there by now.
BuildLocal(i) ==
    /\ pc[i] = "make"
    /\ builtFiles' = [builtFiles EXCEPT ![NextLocal(i)] = IF @ = None THEN i ELSE @]
    /\ uses' = [uses EXCEPT ![i][NextLocal(i)] = i]
    /\ Go(i, "append")
    /\ UNCHANGED <<shared, processed, job, asked, idx, dir, files, deps, observed>>

\* add_dependency on the module being built, without the mutex.
AppendLocal(i) ==
    /\ pc[i] = "append"
    /\ idx' = [idx EXCEPT ![i] = @ + 1]
    /\ Go(i, "lookup")
    /\ UNCHANGED <<shared, processed, job, asked, dir, files, modules, observed>>

ModuleBuilt(i) ==
    /\ pc[i] = "lookup" /\ idx[i] > Len(Uses[i])
    /\ Go(i, "publish")
    /\ UNCHANGED <<shared, processed, job, asked, idx, dir, files, modules, observed>>

\* built_module is set before the mutex is taken.
Publish(i) ==
    /\ pc[i] = "publish"
    /\ built' = [built EXCEPT ![i] = InDir(i)]
    /\ Go(i, "serve")
    /\ UNCHANGED <<order, version, requesters, processed, job, asked, idx, dir, files,
                   modules, observed>>

\* The modules that ask for i and are being written to by the threads that build them.
Torn(i) == {r \in Appending : requesters[i][r] > 0}

\* Under the mutex, all requesters get the module, as often as they asked.  The
\* thread that is building a requester does not hold the mutex when it adds to the
\* same vector: either of two such writes may be lost.
Serve(i) ==
    /\ pc[i] = "serve"
    /\ \E lost \in SUBSET Torn(i) :
          deps' = [r \in Requester |->
                      IF r \in lost THEN deps[r]
                      ELSE [deps[r] EXCEPT ![i] = @ + requesters[i][r]]]
    /\ torn' = torn \cup Torn(i)
    /\ Go(i, "end")
    /\ UNCHANGED <<shared, processed, job, asked, idx, dir, files, builtFiles, uses,
                   wanted, inTime, switched, hidden, doubled>>

\* Mutant: the directory stays among downloading_dirs.
ReleaseNothing(i) ==
    /\ pc[i] = "end"
    /\ Go(i, "ok")
    /\ UNCHANGED <<shared, processed, job, asked, idx, dir, files, modules, observed>>

\* DownloadGuard goes out of scope.
Release(i) ==
    /\ pc[i] = "end"
    /\ downloading' = downloading \ {Where(i)}
    /\ Go(i, "ok")
    /\ UNCHANGED <<shared, processed, job, asked, idx, dir, disk, modules, observed>>

-----------------------------------------------------------------------------

Main == AskForRoot \/ RunJob \/ BeginWave \/ EndWave \/ EndImports

Task(i) ==
    \/ TakeTask(i) \/ Claim(i) \/ LookAtDir(i) \/ Clone(i)
    \/ NoBuildFile(i) \/ AskForImport(i) \/ AskWhilePublished(i) \/ AskedForAll(i)
    \/ LookUpLocal(i) \/ BuildLocal(i) \/ AppendLocal(i) \/ ModuleBuilt(i)
    \/ Publish(i) \/ Serve(i) \/ Release(i)

Next ==
    \/ Main
    \/ \E i \in Import : Task(i) \/ Fail(i)

\* The main thread and the pool's threads run, and git ends.
Fairness == WF_vars(Main) /\ \A i \in Import : WF_vars(Task(i))

Spec == Init /\ [][Next]_vars /\ Fairness

-----------------------------------------------------------------------------
\* Properties.

\* All who asked for a module have it among their dependencies when the imports
\* are there, as often as they asked for it and nobody else: whether they asked
\* before it was downloaded, meanwhile, or after (add_remote_import against the end
\* of download_remote_import), but for the modules whose vector two threads wrote,
\* and the imports whose built_module was lost.
RequestsServed ==
    job = "success" =>
        \A r \in Requester \ torn, i \in Import \ hidden : deps[r][i] = wanted[r][i]

\* No module is built from a directory that another task is still cloning into,
\* and what a failed clone has left makes the job fail too.
WholeClones ==
    \A i \in Import :
        pc[i] \in {"ask", "lookup", "make", "append", "publish"} =>
            \/ InDir(i) > 0
            \/ \E j \in Import : pc[j] = "failed" /\ Where(j) = Where(i)

\* Of the versions that were asked for before the download of an import began,
\* the newest is built, unless one was asked for while the task was starting.  A
\* newer one that comes later is dropped and the older stays (add_remote_import),
\* whatever the guide says of versions (section 13 of the README).
NewestInTime ==
    \A i \in Import :
        (built[i] # 0 /\ \A j \in switched : Repo[j] # Repo[i])
            => built[i] \in inTime[i] /\ \A v \in inTime[i] : v <= built[i]

\* Two modules depend on two instances of one local module only if two threads
\* were building it at the same time (the window between the look at
\* built_files and the emplace).
DoubledOnlyByRace ==
    \A i, j \in Import, l \in Local \ doubled :
        {uses[i][l], uses[j][l]} \subseteq Import => uses[i][l] = uses[j][l]

\* The remote imports of a job come to an end.
ImportsEnd == <>(job \in {"success", "failed"})
=============================================================================
