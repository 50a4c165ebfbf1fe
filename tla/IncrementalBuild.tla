-------------------------- MODULE IncrementalBuild --------------------------
(***************************************************************************)
(* The incremental build of one job of the lab build system                *)
(* (compiler/lab/LabBuildCompiler.cpp, compiler/lab/timestamp).            *)
(*                                                                         *)
(* A job flattens its modules, dependencies first, asks of every module    *)
(* whether it has changed since its timestamp file was written, and then   *)
(* either links what an earlier build left on disk or walks the modules,   *)
(* reusing the unchanged ones and translating the others.  Every cached    *)
(* file carries here what it was made from: a set of <<module, version of  *)
(* its source files, output mode>>.  A clean build makes the executable    *)
(* from the current version of every module, so staleness is a difference  *)
(* between two such sets.                                                  *)
(***************************************************************************)
EXTENDS Naturals, Sequences

CONSTANTS
    Module,            \* the modules the job depends on
    Deps,              \* Deps[m]: the modules m depends on directly
    Roots,             \* the job's own dependencies
    Order,             \* the modules as flatten_dedupe_sorted returns them
    Kind,              \* Kind[m]: "chem" (chemical source) or "c" (a C file)
    Layouts,           \* what builds are asked for: "single", "multi", "llvm"
    OutModes,          \* output modes (debug, release, ...)
    CachingChoices,    \* values is_caching_enabled takes (--no-cache)
    MaxVersion,        \* bound on the edits of one module's files
    Aborts,            \* may a build fail or be killed half way?
    EditsWhileBuilding \* may files be edited while a build runs?

Chem == {m \in Module : Kind[m] = "chem"}

ASSUME ConstantsAssumption ==
    /\ Deps \in [Module -> SUBSET Module]
    /\ Kind \in [Module -> {"chem", "c"}]
    /\ Roots \subseteq Module
    /\ Layouts \subseteq {"single", "multi"} \/ Layouts = {"llvm"}
    /\ CachingChoices \subseteq BOOLEAN
    /\ MaxVersion \in Nat \ {0}
    /\ Aborts \in BOOLEAN
    /\ EditsWhileBuilding \in BOOLEAN

\* Order lists every module once, behind the modules it depends on.
ASSUME OrderAssumption ==
    /\ Order \in Seq(Module)
    /\ \A m \in Module : \E i \in 1..Len(Order) : Order[i] = m
    /\ \A i, j \in 1..Len(Order) : Order[i] = Order[j] => i = j
    /\ \A i \in 1..Len(Order) :
          Deps[Order[i]] \subseteq {Order[j] : j \in 1..(i - 1)}

-----------------------------------------------------------------------------

\* m and every module it depends on, directly or not.
Closure(m) ==
    {d \in Module :
        \A S \in SUBSET Module :
            m \in S /\ (\A x \in S : Deps[x] \subseteq S) => d \in S}

\* The job's modules are those its own dependencies reach.
ASSUME RootsAssumption == \A m \in Module : \E r \in Roots : m \in Closure(r)

\* The modules whose source decides what a translation of m contains: the text
\* of a chemical module depends on the declarations of the chemical modules
\* below it, a C file is compiled on its own.
Sources(m) == IF Kind[m] = "c" THEN {m} ELSE Closure(m) \cap Chem

Version == 1..MaxVersion

\* What a cached file was made from.  Version 0 marks a file cut off by a
\* crash in the middle of a write.
Origins == SUBSET (Module \X (0..MaxVersion) \X OutModes)

NoFile == {}
NoStamp == <<>>

VARIABLES
    src,        \* src[m]: version (size and modification time) of m's files
    stamp,      \* stamp[m]: <<version, mode>> in m's timestamp file
    partial,    \* partial[m]: m's partial.2c.c, the C text of a single file build
    header,     \* header[m]: m's partial.2h.c, the declarations of a multi file build
    object,     \* object[m]: m's object file
    jobObject,  \* object_tcc.o, the job's object file
    exe,        \* the executable linked last
    phase,      \* where the running build is, "idle" when none runs
    layout,     \* layout of the running (last) build, "none" before the first
    outMode,    \* its output mode
    caching,    \* its is_caching_enabled
    pos,        \* index in Order of the module being processed
    hasChanged, \* LabModule::has_changed: "unknown" is nullopt
    parsed,     \* parsed[m]: version of m the build has read into memory
    unit,       \* origins of the C text in the build's writer
    status,     \* how the last build ended
    \* The next three only observe.
    restamped,  \* modules whose timestamp the running build has saved
    edited,     \* a file was edited since the last build began
    disturbed   \* the cache may lie about what it was made from

disk == <<stamp, partial, header, object, jobObject>>
choice == <<layout, outMode, caching>>
progress == <<pos, hasChanged, parsed, unit, restamped>>
vars == <<src, disk, exe, phase, choice, progress, status, edited, disturbed>>

TypeOK ==
    /\ src \in [Module -> Version]
    /\ stamp \in [Module -> (Version \X OutModes) \cup {NoStamp}]
    /\ partial \in [Module -> Origins]
    /\ header \in [Module -> Origins]
    /\ object \in [Module -> Origins]
    /\ jobObject \in [exists : BOOLEAN, made : Origins]
    /\ exe \in Origins
    /\ phase \in {"idle", "import", "translate", "stamp", "compile", "job", "link"}
    /\ layout \in Layouts \cup {"none"}
    /\ outMode \in OutModes
    /\ caching \in BOOLEAN
    /\ pos \in 1..(Len(Order) + 1)
    /\ hasChanged \in [Module -> {"unknown", "changed", "unchanged"}]
    /\ parsed \in [Module -> 0..MaxVersion]
    /\ unit \in Origins
    /\ status \in {"none", "running", "success", "failed"}
    /\ restamped \subseteq Module
    /\ edited \in BOOLEAN
    /\ disturbed \in BOOLEAN

-----------------------------------------------------------------------------
\* What the change check computes (has_module_changed_recursive).

\* The file whose presence lets layout l reuse m.
Kept(l, m) == IF l = "single" /\ m \in Chem THEN partial[m] ELSE object[m]

Present(l, m) == Kept(l, m) # NoFile

\* compare_mod_timestamp: same files, mode, sizes and modification times.
StampValid(o, m) == stamp[m] = <<src[m], o>>

\* Mutant: the dependencies are not asked.
ChangedIgnoringDeps(l, o, m) == ~Present(l, m) \/ ~StampValid(o, m)

\* The result returned for m: its kept file is gone, its files differ from its
\* timestamp, or one of the two is so of a dependency.
Changed(l, o, m) ==
    \E d \in Closure(m) : ~Present(l, d) \/ ~StampValid(o, d)

\* A missing kept file returns before the dependencies are asked, so a module
\* below it may never be visited.
Visited(l) ==
    {m \in Module :
        \A S \in SUBSET Module :
            /\ Roots \subseteq S
            /\ \A x \in S : Present(l, x) => Deps[x] \subseteq S
            => m \in S}

\* The has_changed the walk leaves in every module.
Verdict(l, o, c) ==
    [m \in Module |->
        IF ~c \/ m \notin Visited(l) \/ ~Present(l, m) THEN "unknown"
        ELSE IF Changed(l, o, m) THEN "changed"
        ELSE "unchanged"]

AnyChanged(l, o, c) == ~c \/ \E r \in Roots : Changed(l, o, r)

-----------------------------------------------------------------------------

Cur == Order[pos]
Done == {Order[i] : i \in 1..(pos - 1)}

\* What the translation of m contains, made from the syntax trees in memory.
Text(m) == {<<d, parsed[d], outMode>> : d \in Sources(m)}

\* What a clean build puts in m's files, and in the executable.
Fresh(o, m) == {<<d, src[d], o>> : d \in Sources(m)}
CleanOutput == {<<m, src[m], outMode>> : m \in Module}

Init ==
    /\ src = [m \in Module |-> 1]
    /\ stamp = [m \in Module |-> NoStamp]
    /\ partial = [m \in Module |-> NoFile]
    /\ header = [m \in Module |-> NoFile]
    /\ object = [m \in Module |-> NoFile]
    /\ jobObject = [exists |-> FALSE, made |-> NoFile]
    /\ exe = NoFile
    /\ phase = "idle"
    /\ layout = "none"
    /\ outMode \in OutModes
    /\ caching = TRUE
    /\ pos = 1
    /\ hasChanged = [m \in Module |-> "unknown"]
    /\ parsed = [m \in Module |-> 0]
    /\ unit = NoFile
    /\ status = "none"
    /\ restamped = {}
    /\ edited = FALSE
    /\ disturbed = FALSE

\* A build starting with these choices shares files with earlier builds that
\* the timestamps do not tell apart: the single file and the multi file layout
\* have one timestamp file between them, and a build without caching replaces
\* objects without renewing timestamps of another output mode.
Confuses(l, o, c) ==
    \/ layout \notin {"none", l}
    \/ ~c /\ \E m \in Module : stamp[m] # NoStamp /\ stamp[m][2] # o

\* process_job_tcc / process_job_gen up to the loop over the modules.
BeginBuild(l, o, c) ==
    /\ phase = "idle"
    /\ layout' = l /\ outMode' = o /\ caching' = c
    /\ hasChanged' = Verdict(l, o, c)
    /\ LET reuseAll == /\ ~AnyChanged(l, o, c)
                       /\ l = "llvm" \/ (l = "single" /\ jobObject.exists)
       IN  phase' = IF reuseAll THEN "link"
                    ELSE IF Len(Order) = 0
                         THEN (IF l = "llvm" THEN "link" ELSE "job")
                    ELSE "import"
    /\ status' = "running"
    /\ edited' = FALSE
    /\ disturbed' = (disturbed \/ Confuses(l, o, c))
    /\ UNCHANGED <<src, disk, exe, pos, parsed, unit, restamped>>

\* On to the next module of the loop, or out of it.
Advance ==
    /\ pos' = pos + 1
    /\ phase' = IF pos < Len(Order) THEN "import"
                ELSE IF layout = "llvm" THEN "link" ELSE "job"

\* The C file case of the loop: compile it, then save its timestamp.
CompileCFile ==
    /\ phase = "import"
    /\ Kind[Cur] = "c"
    /\ hasChanged[Cur] # "unchanged"
    /\ object' = [object EXCEPT ![Cur] = {<<Cur, src[Cur], outMode>>}]
    /\ IF caching THEN phase' = "stamp" /\ UNCHANGED pos ELSE Advance
    /\ UNCHANGED <<src, stamp, partial, header, jobObject, exe, choice, hasChanged,
                   parsed, unit, restamped, status, edited, disturbed>>

SkipCFile ==
    /\ phase = "import"
    /\ Kind[Cur] = "c"
    /\ hasChanged[Cur] = "unchanged"
    /\ Advance
    /\ UNCHANGED <<src, disk, exe, choice, hasChanged, parsed, unit, restamped,
                   status, edited, disturbed>>

\* import_module_files_direct, sym_res_module and type_verify_module: done for
\* unchanged modules too.
ImportModule ==
    /\ phase = "import"
    /\ Kind[Cur] = "chem"
    /\ parsed' = [parsed EXCEPT ![Cur] = src[Cur]]
    /\ phase' = "translate"
    /\ UNCHANGED <<src, disk, exe, choice, pos, hasChanged, unit, restamped,
                   status, edited, disturbed>>

CacheHit ==
    /\ hasChanged[Cur] = "unchanged"
    /\ layout # "llvm" => Present(layout, Cur)

\* An unchanged module adds its cached C text, or its cached declarations, to
\* the writer and keeps its object file.
ReuseModule ==
    /\ phase = "translate"
    /\ CacheHit
    /\ unit' = CASE layout = "single" -> unit \cup partial[Cur]
                 [] layout = "multi"  -> unit \cup (IF header[Cur] # NoFile
                                                    THEN header[Cur] ELSE Text(Cur))
                 [] OTHER             -> unit
    /\ Advance
    /\ UNCHANGED <<src, disk, exe, choice, hasChanged, parsed, restamped,
                   status, edited, disturbed>>

\* declare_module and implement_module (compile_module for LLVM), and the file
\* written before the timestamp: partial.2c.c, partial.2h.c, or the object.
TranslateModule ==
    /\ phase = "translate"
    /\ ~CacheHit
    /\ unit' = IF layout = "llvm" THEN unit ELSE unit \cup Text(Cur)
    /\ partial' = IF layout = "single" /\ caching
                  THEN [partial EXCEPT ![Cur] = Text(Cur)] ELSE partial
    /\ header' = IF layout = "multi" /\ caching
                 THEN [header EXCEPT ![Cur] = Text(Cur)] ELSE header
    /\ object' = IF layout = "llvm"
                 THEN [object EXCEPT ![Cur] = Text(Cur)] ELSE object
    /\ CASE caching                     -> phase' = "stamp" /\ UNCHANGED pos
         [] ~caching /\ layout = "multi" -> phase' = "compile" /\ UNCHANGED pos
         [] OTHER                       -> Advance
    /\ UNCHANGED <<src, stamp, jobObject, exe, choice, hasChanged, parsed,
                   restamped, status, edited, disturbed>>

\* Mutant: C files get no timestamp.
SaveTimestampChemOnly ==
    /\ phase = "stamp"
    /\ stamp' = IF Cur \in Chem THEN [stamp EXCEPT ![Cur] = <<src[Cur], outMode>>]
                ELSE stamp
    /\ restamped' = restamped \cup {Cur}
    /\ IF layout = "multi" /\ Cur \in Chem
       THEN phase' = "compile" /\ UNCHANGED pos
       ELSE Advance
    /\ UNCHANGED <<src, partial, header, object, jobObject, exe, choice, hasChanged,
                   parsed, unit, status, edited, disturbed>>

\* save_mod_timestamp: sizes and times are those the files have now.
SaveTimestamp ==
    /\ phase = "stamp"
    /\ stamp' = [stamp EXCEPT ![Cur] = <<src[Cur], outMode>>]
    /\ restamped' = restamped \cup {Cur}
    /\ IF layout = "multi" /\ Cur \in Chem
       THEN phase' = "compile" /\ UNCHANGED pos
       ELSE Advance
    /\ UNCHANGED <<src, partial, header, object, jobObject, exe, choice, hasChanged,
                   parsed, unit, status, edited, disturbed>>

\* compile_c_to_obj_w_opts for one module of a multi file build: the C text is
\* the module's own behind the declarations of the modules before it.
CompileModule ==
    /\ phase = "compile"
    /\ object' = [object EXCEPT ![Cur] = {t \in unit : t[1] \in Sources(Cur)}]
    /\ Advance
    /\ UNCHANGED <<src, stamp, partial, header, jobObject, exe, choice, hasChanged,
                   parsed, unit, restamped, status, edited, disturbed>>

\* compile_c_to_obj_w_opts for the job.  In a multi file build the bodies are in
\* the modules' objects and the job's object holds none of them.
CompileJob ==
    /\ phase = "job"
    /\ jobObject' = [exists |-> TRUE,
                     made   |-> IF layout = "single" THEN unit ELSE NoFile]
    /\ phase' = "link"
    /\ UNCHANGED <<src, stamp, partial, header, object, exe, choice, progress,
                   status, edited, disturbed>>

\* The objects the job links, read from disk.
Linked ==
    IF layout = "single"
    THEN jobObject.made \cup UNION {object[m] : m \in Module \ Chem}
    ELSE UNION {object[m] : m \in Module}

\* A job's locals end with it.
DropProgress ==
    /\ pos' = 1
    /\ hasChanged' = [m \in Module |-> "unknown"]
    /\ parsed' = [m \in Module |-> 0]
    /\ unit' = NoFile
    /\ restamped' = {}

\* link_objects_now, and the job has succeeded.
LinkJob ==
    /\ phase = "link"
    /\ exe' = Linked
    /\ status' = "success"
    /\ phase' = "idle"
    /\ DropProgress
    /\ UNCHANGED <<src, disk, choice, edited, disturbed>>

-----------------------------------------------------------------------------
\* Failures.  disturbed records the windows in which they leave a cache that
\* later builds misread; the invariants below say that nothing else does.

\* A timestamp has been renewed in this build, and something made from the files it vouches
\* for has not.
StampsAhead ==
    \E d \in restamped :
        \/ layout = "single" /\ d \in Chem /\ phase # "link"
        \/ \E n \in Module \ Done : d \in Sources(n)

\* A kept file has been rewritten in this output mode, and the timestamp beside
\* it still vouches for it in another.
StampOfOtherMode ==
    phase = "stamp" /\ \E o \in OutModes \ {outMode} : StampValid(o, Cur)

\* A piece of a file, where the writer was killed.
Torn(m) == {<<m, 0, outMode>>}
TornWhole == UNION {Torn(m) : m \in Module}

\* The linker writes the executable in place.  A link that fails or is killed
\* leaves what was there, nothing, a piece of a file, or all of the new one.
AfterFailure == IF phase = "link" THEN {exe, NoFile, TornWhole, Linked} ELSE {exe}

\* Mutant: the job's status is success whatever it returned.
EndFailedAsSuccess ==
    /\ phase' = "idle"
    /\ status' = "success"
    /\ exe' \in AfterFailure
    /\ DropProgress
    /\ UNCHANGED <<src, choice, edited>>

EndFailed ==
    /\ phase' = "idle"
    /\ status' = "failed"
    /\ exe' \in AfterFailure
    /\ DropProgress
    /\ UNCHANGED <<src, choice, edited>>

\* An error return (parse, symbol resolution, type verification, translation,
\* C compilation, linking) or a kill between two writes.
Abort ==
    /\ Aborts
    /\ phase # "idle"
    /\ disturbed' = (disturbed \/ StampsAhead \/ StampOfOtherMode)
    /\ EndFailed
    /\ UNCHANGED disk

\* A kill cuts off the file of the current module that is being written.
WritesPartial == phase = "translate" /\ layout = "single" /\ caching /\ ~CacheHit
WritesHeader == phase = "translate" /\ layout = "multi" /\ caching /\ ~CacheHit
WritesObject ==
    \/ phase = "import" /\ Kind[Cur] = "c" /\ hasChanged[Cur] # "unchanged"
    \/ phase = "translate" /\ layout = "llvm" /\ ~CacheHit
    \/ phase = "compile"

\* Killed while a module's cache file is written: a piece of a file, under a
\* timestamp that may still vouch for it.
CrashWritingModule ==
    /\ Aborts
    /\ \/ /\ WritesPartial
          /\ partial' = [partial EXCEPT ![Cur] = Torn(Cur)]
          /\ UNCHANGED <<header, object>>
       \/ /\ WritesHeader
          /\ header' = [header EXCEPT ![Cur] = Torn(Cur)]
          /\ UNCHANGED <<partial, object>>
       \/ /\ WritesObject
          /\ object' = [object EXCEPT ![Cur] = Torn(Cur)]
          /\ UNCHANGED <<partial, header>>
    /\ disturbed' = \/ disturbed
                    \/ StampsAhead
                    \/ \E o \in OutModes : StampValid(o, Cur)
    /\ EndFailed
    /\ UNCHANGED <<stamp, jobObject>>

\* Killed while a timestamp is written: the file has been truncated, and an
\* empty timestamp file compares as changed.
CrashSavingTimestamp ==
    /\ Aborts
    /\ phase = "stamp"
    /\ stamp' = [stamp EXCEPT ![Cur] = NoStamp]
    /\ disturbed' = (disturbed \/ StampsAhead)
    /\ EndFailed
    /\ UNCHANGED <<partial, header, object, jobObject>>

\* Killed while the job's object file is written.
CrashWritingJob ==
    /\ Aborts
    /\ phase = "job"
    /\ jobObject' = [exists |-> TRUE, made |-> TornWhole]
    /\ disturbed' = (disturbed \/ layout = "single" \/ StampsAhead)
    /\ EndFailed
    /\ UNCHANGED <<stamp, partial, header, object>>

-----------------------------------------------------------------------------
\* The programmer.

\* A file changed after the build read it and before the build saved its
\* timestamp: the timestamp will vouch for a version that was never translated.
EditMissed(m) ==
    /\ caching
    /\ phase = "stamp" \/ (phase = "translate" /\ ~CacheHit)
    /\ m = Cur

Edit(m) ==
    /\ src[m] < MaxVersion
    /\ phase = "idle" \/ EditsWhileBuilding
    /\ src' = [src EXCEPT ![m] = @ + 1]
    /\ edited' = TRUE
    /\ disturbed' = (disturbed \/ (phase # "idle" /\ EditMissed(m)))
    /\ UNCHANGED <<disk, exe, phase, choice, progress, status>>

\* One module's directory under modules/ is removed.
RemoveModuleDir(m) ==
    /\ phase = "idle"
    /\ stamp' = [stamp EXCEPT ![m] = NoStamp]
    /\ partial' = [partial EXCEPT ![m] = NoFile]
    /\ header' = [header EXCEPT ![m] = NoFile]
    /\ object' = [object EXCEPT ![m] = NoFile]
    /\ edited' = TRUE
    /\ UNCHANGED <<src, jobObject, exe, phase, choice, progress, status, disturbed>>

\* The job's build directory is removed.
RemoveBuildDir ==
    /\ phase = "idle"
    /\ stamp' = [m \in Module |-> NoStamp]
    /\ partial' = [m \in Module |-> NoFile]
    /\ header' = [m \in Module |-> NoFile]
    /\ object' = [m \in Module |-> NoFile]
    /\ jobObject' = [exists |-> FALSE, made |-> NoFile]
    /\ exe' = NoFile
    /\ layout' = "none"
    /\ status' = "none"
    /\ disturbed' = FALSE
    /\ UNCHANGED <<src, phase, outMode, caching, progress, edited>>

BuildStep ==
    \/ CompileCFile \/ SkipCFile
    \/ ImportModule \/ ReuseModule \/ TranslateModule
    \/ SaveTimestamp \/ CompileModule
    \/ CompileJob \/ LinkJob

Failure == Abort \/ CrashWritingModule \/ CrashSavingTimestamp \/ CrashWritingJob

Next ==
    \/ \E l \in Layouts, o \in OutModes, c \in CachingChoices : BeginBuild(l, o, c)
    \/ BuildStep
    \/ Failure
    \/ \E m \in Module : Edit(m) \/ RemoveModuleDir(m)
    \/ RemoveBuildDir

Spec == Init /\ [][Next]_vars

-----------------------------------------------------------------------------
\* Properties.

\* A build that reports success has linked what a clean build of the same files
\* would have linked, however much of it came from earlier builds
\* (process_job_tcc and process_job_gen, the two early returns included).
SoundUnlessDisturbed ==
    (phase = "idle" /\ status = "success" /\ ~edited /\ ~disturbed)
        => exe = CleanOutput

\* A module whose files and dependencies are unchanged since its timestamp has
\* in its kept file what translating it again would give: this is what lets
\* process_module_tcc and process_module_gen skip it.
CacheSound ==
    phase = "idle" /\ ~disturbed /\ layout # "none" =>
        \A o \in OutModes, m \in Module :
            (Present(layout, m) /\ \A d \in Closure(m) : StampValid(o, d))
            => Kept(layout, m) = Fresh(o, m)

\* After a successful build with caching, the same build again finds nothing
\* changed: no module is left without a timestamp or a kept file.
NothingChangedAfterSuccess ==
    (phase = "idle" /\ status = "success" /\ caching /\ ~edited)
        => ~AnyChanged(layout, outMode, caching)

\* The incremental build implements the clean one: seen through its source
\* files, its executable and its status, caching cannot be told from compiling
\* everything, and nothing but a link touches the executable.
Clean == INSTANCE CleanBuild WITH
    trusted <- ~disturbed,
    status <- IF phase = "link" THEN "linking" ELSE status
ImplementsCleanBuild == Clean!Spec
=============================================================================
