----------------------------- MODULE MCTestLaunch -----------------------------
(***************************************************************************)
(* Two tests on two threads: one that may be tried twice, and one that     *)
(* passes when it crashes.                                                 *)
(***************************************************************************)
EXTENDS TestLaunch

CONSTANTS flaky, crashing

MCRetry == [t \in {flaky, crashing} |-> IF t = flaky THEN 3 ELSE 0]
=============================================================================
