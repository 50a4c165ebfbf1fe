------------------------------ MODULE CleanBuild ------------------------------
(***************************************************************************)
(* What an incremental build promises, without its cache: a build that     *)
(* succeeds leaves the executable a clean build of the current files would *)
(* leave, and a build that fails before it links leaves the one that was   *)
(* there.  The linker writes the executable in place: of a build that ends *)
(* while linking nothing is promised but that it has not succeeded.  The   *)
(* promise of success is suspended for a build whose files are edited      *)
(* while it runs, and from the moment trust in the cache is lost until the *)
(* build directory goes.                                                   *)
(***************************************************************************)
EXTENDS Naturals

CONSTANTS Module, OutModes, MaxVersion

VARIABLES src, exe, outMode, status, edited, trusted

vars == <<src, exe, outMode, status, edited, trusted>>

CleanOutput == {<<m, src[m], outMode>> : m \in Module}

Init ==
    /\ src = [m \in Module |-> 1]
    /\ exe = {}
    /\ outMode \in OutModes
    /\ status = "none"
    /\ edited = FALSE
    /\ trusted = TRUE

\* Trust in the cache may go with any step, and comes back with ForgetAll only.
TrustMayGo == trusted' => trusted

Unfinished == {"running", "linking"}

\* Whatever the place of the executable may hold.
Executables == SUBSET (Module \X (0..MaxVersion) \X OutModes)

\* A build for which nothing is left to do but to link starts with that.
Begin ==
    /\ status \notin Unfinished
    /\ status' \in Unfinished
    /\ outMode' \in OutModes
    /\ edited' = FALSE
    /\ TrustMayGo
    /\ UNCHANGED <<src, exe>>

StartLink ==
    /\ status = "running"
    /\ status' = "linking"
    /\ TrustMayGo
    /\ UNCHANGED <<src, exe, outMode, edited>>

Succeed ==
    /\ status = "linking"
    /\ status' = "success"
    /\ exe' \in Executables
    /\ trusted /\ ~edited => exe' = CleanOutput
    /\ UNCHANGED <<src, outMode, edited, trusted>>

Fail ==
    /\ status \in Unfinished
    /\ status' = "failed"
    /\ exe' \in (IF status = "linking" THEN Executables ELSE {exe})
    /\ TrustMayGo
    /\ UNCHANGED <<src, outMode, edited>>

\* Files change, or cached files are deleted.
Touch ==
    /\ src' = src \/ \E m \in Module : src' = [src EXCEPT ![m] = @ + 1]
    /\ edited' = TRUE
    /\ TrustMayGo
    /\ UNCHANGED <<exe, outMode, status>>

ForgetAll ==
    /\ status \notin Unfinished
    /\ exe' = {}
    /\ status' = "none"
    /\ trusted' = TRUE
    /\ UNCHANGED <<src, outMode, edited>>

Next == Begin \/ StartLink \/ Succeed \/ Fail \/ Touch \/ ForgetAll

Spec == Init /\ [][Next]_vars
=============================================================================
