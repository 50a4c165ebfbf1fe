------------------------------- MODULE Workspace -------------------------------
(***************************************************************************)
(* The language server's view of a project (server/WorkspaceManager.h,     *)
(* .cpp, LspSemanticTokens.cpp, model/ModuleData.h): syntax trees of the   *)
(* files of every module, kept between the messages of the editor, which   *)
(* files are dirty, and a small cache of tokens.                           *)
(*                                                                         *)
(* Messages are handled one after the other.  What a function contains is  *)
(* linked to the trees of the other files of its module, to what linking   *)
(* put on the module's allocator, and to the trees and allocators of the   *)
(* modules it depends on.  Parsing a file again frees its tree, resolving  *)
(* a module again clears its allocator, and dirtiness is what must bring   *)
(* the files with such links to be linked again before one of them is      *)
(* read.  A file is taken to use all it can see.  The links of what a file *)
(* declares are not kept: they are made again each time its module is      *)
(* resolved.                                                               *)
(*                                                                         *)
(* A module sees those it depends on through their children maps, each     *)
(* made by the module that first asks for it, and never made again.        *)
(*                                                                         *)
(* WorkspaceInit, WorkspaceSpec and the like carry the module's name since *)
(* ServerProofs extends this module and ChildBuild.                        *)
(***************************************************************************)
EXTENDS Naturals, Sequences, SequencesExt, FiniteSets

CONSTANTS
    File, Module,
    ModuleOf,    \* ModuleOf[f]: the module of a file
    Dependencies, \* Dependencies[m]: the modules that m names
    FlatDeps,    \* FlatDeps[m]: all m depends on, itself excepted, deepest first
    Capacity,    \* of the token cache (10 in the code)
    NoFile

FilesOf(m) == {f \in File : ModuleOf[f] = m}
DepsOf(m) == ToSet(FlatDeps[m])

ASSUME ConstantsAssumption ==
    /\ ModuleOf \in [File -> Module]
    /\ FlatDeps \in [Module -> Seq(Module)]
    /\ \A m \in Module : IsInjective(FlatDeps[m]) /\ m \notin DepsOf(m)
    /\ \A m \in Module : \A i \in DOMAIN FlatDeps[m] :
          DepsOf(FlatDeps[m][i]) \subseteq {FlatDeps[m][j] : j \in 1 .. i - 1}
    /\ Dependencies \in [Module -> SUBSET Module]
    /\ \A m \in Module : DepsOf(m) = UNION {{d} \cup DepsOf(d) : d \in Dependencies[m]}
    /\ Capacity \in Nat \ {0}
    /\ NoFile \notin File

VARIABLES
    broken,        \* the files whose text does not lex
    prepared,      \* the modules whose files have been parsed
    resolved,      \* symbol_resolved_once
    dirtyFiles,    \* dirtyFiles[m]
    dirtyModules,
    own,           \* own[f]: links of f's functions into their own module
    through,       \* through[f]: links into the modules it depends on
    mapsOn,        \* mapsOn[m]: the modules whose children map is on m's allocator
    outdated,      \* modules whose children map is, or holds, what was freed
    tokenCache,    \* the files whose tokens are cached, the most recent first
    linked,        \* the cached tokens that point into the tree of their file
    \* The rest only observes.
    served,        \* the file that has just been read for a request
    absorbed       \* files that missed their turn, see ProcessWhole

moduleVars == <<prepared, resolved, dirtyFiles, dirtyModules>>
treeVars == <<own, through, mapsOn, outdated>>
tokenVars == <<tokenCache, linked>>
workspaceVars == <<broken, moduleVars, treeVars, tokenVars, served, absorbed>>

\* Where links lead: nowhere yet, to what is there, or to something that was freed
\* after they were made, or before, by a map that was out of date.
Links == {"none", "live", "dead", "misled"}

Mapped == UNION {mapsOn[x] : x \in Module}

WorkspaceTypeOK ==
    /\ broken \subseteq File
    /\ prepared \subseteq Module /\ resolved \subseteq prepared
    /\ dirtyFiles \in [Module -> SUBSET File]
    /\ \A m \in Module : dirtyFiles[m] \subseteq FilesOf(m)
    /\ dirtyModules = {m \in Module : dirtyFiles[m] # {}}
    /\ own \in [File -> Links \ {"misled"}] /\ through \in [File -> Links]
    /\ \A f \in File : own[f] = "none" <=> through[f] = "none"
    /\ mapsOn \in [Module -> SUBSET Module] /\ outdated \subseteq Mapped
    /\ tokenCache \in Seq(File) /\ IsInjective(tokenCache)
    /\ Len(tokenCache) <= Capacity
    /\ linked \subseteq ToSet(tokenCache)
    /\ served \in File \cup {NoFile} /\ absorbed \subseteq File

WorkspaceInit ==
    /\ broken = {} /\ prepared = {} /\ resolved = {}
    /\ dirtyFiles = [m \in Module |-> {}] /\ dirtyModules = {}
    /\ own = [f \in File |-> "none"] /\ through = [f \in File |-> "none"]
    /\ mapsOn = [m \in Module |-> {}] /\ outdated = {}
    /\ tokenCache = <<>> /\ linked = {}
    /\ served = NoFile /\ absorbed = {}

-----------------------------------------------------------------------------
(* The cache of tokens                                                     *)

\* The place in the list that the cache's map has for a file.
Place(f) == CHOOSE i \in DOMAIN tokenCache : tokenCache[i] = f

\* get: the file becomes the most recent one.
Touch(f) ==
    IF Contains(tokenCache, f) THEN <<f>> \o RemoveAt(tokenCache, Place(f)) ELSE tokenCache

\* put, evicting the least recent one when there is no room.
Put(f) ==
    IF Contains(tokenCache, f) THEN Touch(f)
    ELSE <<f>> \o (IF Len(tokenCache) = Capacity THEN Front(tokenCache) ELSE tokenCache)

\* Tokens of f as they were just read; do they point into its tree?
PutTokens(f, pointing) ==
    /\ tokenCache' = Put(f)
    /\ linked' = ((linked \ {f}) \cup (IF pointing THEN {f} ELSE {})) \cap ToSet(tokenCache')

-----------------------------------------------------------------------------
(* Processing a file                                                       *)

CompletelyResolved(m) == m \in resolved /\ dirtyFiles[m] = {}

\* From the first dependency that is not resolved, all of them are.
ToResolve(m) ==
    LET deps == FlatDeps[m]
    IN  {deps[i] : i \in {n \in DOMAIN deps : \E k \in 1 .. n : ~CompletelyResolved(deps[k])}}

\* Must the other files of f's module be linked again?
Siblings(f) == FilesOf(ModuleOf[f]) \ {f}
ResolveSiblings(f) ==
    ToResolve(ModuleOf[f]) # {} \/ dirtyFiles[ModuleOf[f]] \cap Siblings(f) # {}

\* Mutant: a tree is trusted whose tokens were evicted.
ReparseChanged(f, changed, dependsOnDirty) == dependsOnDirty \/ changed

Reparse(f, changed, dependsOnDirty) ==
    dependsOnDirty \/ changed \/ ~Contains(tokenCache, f)

\* Links to what is freed.
Freed(l) == IF l = "live" THEN "dead" ELSE l

FilesIn(ms) == {f \in File : ModuleOf[f] \in ms}

\* y's turn comes before x's when m and what it depends on are gone through.
Before(m, y, x) ==
    LET order == Append(FlatDeps[m], m)
    IN  \E j \in DOMAIN order : \E i \in 1 .. j - 1 : order[i] = y /\ order[j] = x

\* declareSymbolsOf: the children maps that x makes on its allocator, when the
\* modules ms and m ask for those of their dependencies, each in its turn.
MapsMade(m, ms, x) ==
    {d \in Dependencies[x] \ Mapped :
        /\ x \in ms \cup {m}
        /\ \A y \in ms \cup {m} : d \in Dependencies[y] => ~Before(m, y, x)}

\* The modules that lose something they are linked to, when ms are resolved again,
\* and are not dirty for it: m is dirty, and with it what depends on m.
Bypassed(m, ms) ==
    {n \in Module \ {m} : /\ n \in ms \/ DepsOf(n) \cap ms # {}
                          /\ m \notin DepsOf(n)}

\* The file does not lex: nothing behind the tokens happens.
ProcessBroken(f) ==
    /\ PutTokens(f, FALSE)
    /\ UNCHANGED <<moduleVars, treeVars, absorbed>>

\* The modules ms go through sym_res_mod_sig: their allocators are cleared, what
\* they declare is linked again, what their functions contain is not, and they
\* count as clean.  The file's own module is cleared if its other files are linked
\* again, and stays as dirty as it is, until the file is parsed.
ProcessWhole(f, changed, dependsOnDirty) ==
    LET m == ModuleOf[f]
        ms == ToResolve(m)
        parse == Reparse(f, changed, dependsOnDirty)
        cleared == ms \cup (IF ResolveSiblings(f) THEN {m} ELSE {})
        hit == cleared \cup (IF parse THEN {m} ELSE {})
    IN  /\ prepared' = prepared \cup {m} \cup DepsOf(m)
        /\ resolved' = resolved \cup ms
        /\ dirtyFiles' = [d \in Module |-> IF d \in ms THEN {}
                                           ELSE IF parse /\ d = m THEN {f}
                                           ELSE dirtyFiles[d]]
        /\ dirtyModules' = (dirtyModules \ ms) \cup (IF parse THEN {m} ELSE {})
        /\ mapsOn' = [x \in Module |-> mapsOn[x] \cup MapsMade(m, ms, x)]
        /\ outdated' = outdated \cup (UNION {mapsOn[x] : x \in cleared})
                           \cup (IF parse THEN {m} \cap Mapped ELSE {})
        /\ own' = [g \in File |-> IF g = f THEN "live"
                                  ELSE IF ModuleOf[g] \in hit THEN Freed(own[g])
                                  ELSE own[g]]
        /\ through' = [g \in File |->
                          IF g = f
                          THEN IF Dependencies[m] \cap outdated' = {} THEN "live" ELSE "misled"
                          ELSE IF DepsOf(ModuleOf[g]) \cap hit # {} THEN Freed(through[g])
                          ELSE through[g]]
        /\ absorbed' = (absorbed \cup {g \in FilesIn(Bypassed(m, ms)) : own[g] # "none"}) \ {f}
        /\ PutTokens(f, parse)

ProcessFile(f, changed, dependsOnDirty) ==
    IF f \in broken' THEN ProcessBroken(f) ELSE ProcessWhole(f, changed, dependsOnDirty)

-----------------------------------------------------------------------------
(* The messages                                                            *)

OwnFileOnly(f) == dirtyFiles[ModuleOf[f]] = {f}

\* should_process_file asks about one dirty module after the other.
DirtyBesides(f) == dirtyFiles[ModuleOf[f]] # {} /\ ~OwnFileOnly(f)

\* Mutant: the modules f depends on are forgotten.
ShouldProcessOwn(f) == DirtyBesides(f)

\* Mutant: an edit in f's own module is taken for f's own edit.
ShouldProcessDeps(f) == dirtyModules \cap DepsOf(ModuleOf[f]) # {}

ShouldProcess(f) ==
    \/ DirtyBesides(f)
    \/ dirtyModules \cap DepsOf(ModuleOf[f]) # {}

\* textDocument/didChange: the new text lexes or not.
Change(f) ==
    /\ broken' \in {broken \ {f}, broken \cup {f}}
    /\ ProcessFile(f, TRUE, FALSE)
    /\ served' = NoFile

\* textDocument/didOpen
Open(f) ==
    /\ ~Contains(tokenCache, f)
    /\ broken' = broken
    /\ ProcessFile(f, FALSE, FALSE)
    /\ served' = NoFile

\* A request that reads the tokens or the tree of f once it is processed.
RequestDirty(f) ==
    /\ ShouldProcess(f)
    /\ broken' = broken
    /\ ProcessFile(f, FALSE, TRUE)
    /\ served' = f

RequestClean(f) ==
    /\ ~ShouldProcess(f)
    /\ served' = f
    /\ tokenCache' = Touch(f)
    /\ UNCHANGED <<broken, moduleVars, treeVars, linked, absorbed>>

WorkspaceNext == \E f \in File : Change(f) \/ Open(f) \/ RequestDirty(f) \/ RequestClean(f)

WorkspaceSpec == WorkspaceInit /\ [][WorkspaceNext]_workspaceVars

-----------------------------------------------------------------------------
(* What a request may rely on                                              *)

\* The file that is read has been processed and its text lexes.
Answered(f) == served = f /\ f \notin broken /\ own[f] # "none"

\* A request never walks from a function into the freed tree of a file next to
\* it, or to a node that went when its module's allocator was cleared, whatever the
\* order of edits, openings and requests (should_process_file), except in a file
\* that was left out when a module was declared clean for the sake of another.
SiblingsLive == \A f \in File : Answered(f) => own[f] = "live" \/ f \in absorbed

\* Nor does it walk into what has been freed in a module it depends on, at any
\* depth, since the file was linked: an edit there brings the file to be linked
\* again (should_process_file, sym_res_mod_deps_seq), except in a file left out
\* like that.  A file that was linked by a children map out of date was misled
\* before: no request can tell.
DependenciesLive ==
    \A f \in File : Answered(f) => through[f] \in {"live", "misled"} \/ f \in absorbed

\* The tokens of a file that lexes point into its tree if they are cached at
\* all, also after they were evicted and read again.
TokensLinked ==
    \A f \in ToSet(tokenCache) : f \notin broken => f \in linked
=============================================================================
