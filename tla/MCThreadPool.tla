----------------------------- MODULE MCThreadPool -----------------------------
(***************************************************************************)
(* Two workers; clients submit a task that submits another one, and two    *)
(* tasks of their own, one without a future.                               *)
(***************************************************************************)
EXTENDS ThreadPool

CONSTANTS outer, inner, plain, void

MCTask == {outer, inner, plain, void}
MCParent == [t \in MCTask |-> IF t = inner THEN outer ELSE Client]
=============================================================================
