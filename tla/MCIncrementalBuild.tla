-------------------------- MODULE MCIncrementalBuild --------------------------
(***************************************************************************)
(* Instances of IncrementalBuild: an application app over a library lib,   *)
(* and a C file that lib wraps.                                            *)
(***************************************************************************)
EXTENDS IncrementalBuildInv

CONSTANTS lib, app, cfile

\* app -> lib -> cfile
MixModule == {cfile, lib, app}
MixDeps == [m \in MixModule |->
    CASE m = app -> {lib} [] m = lib -> {cfile} [] OTHER -> {}]
MixRoots == {app}
MixOrder == <<cfile, lib, app>>
MixKind == [m \in MixModule |-> IF m = cfile THEN "c" ELSE "chem"]

\* app -> lib
PairModule == {lib, app}
PairDeps == [m \in PairModule |-> IF m = app THEN {lib} ELSE {}]
PairRoots == {app}
PairOrder == <<lib, app>>
PairKind == [m \in PairModule |-> "chem"]

\* Nothing is promised of a cache that may lie: runs stop at such states.
Trusted == ~disturbed
=============================================================================
