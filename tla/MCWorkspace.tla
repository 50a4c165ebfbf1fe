----------------------------- MODULE MCWorkspace -----------------------------
EXTENDS Workspace, TLC

CONSTANTS base, lib, app, fork, a, b, c, d, e

\* app depends on lib, which depends on base like fork does.
MCModuleOf == [f \in File |-> CASE f \in {a, b} -> base
                                [] f = c -> lib
                                [] f = d -> app
                                [] OTHER -> fork]
MCDependencies == [m \in Module |-> CASE m = base -> {}
                                      [] m = app -> {lib}
                                      [] OTHER -> {base}]
MCFlatDeps == [m \in Module |-> CASE m = base -> <<>>
                                  [] m = app -> <<base, lib>>
                                  [] OTHER -> <<base>>]

\* The two files of base are alike.
Alike == Permutations({a, b})

\* Bound: as many files at a time as do not lex.
OneBroken == Cardinality(broken) <= 1
=============================================================================
