------------------------------ MODULE ImportGraph ------------------------------
(***************************************************************************)
(* What the compiler does with a graph of imports before it builds         *)
(* anything (compiler/lab/LabBuildCompiler.cpp): the files of a build.lab  *)
(* are searched for cycles (check_imports_for_cycles) and, if there are    *)
(* none, put in an order in which they can be processed (flatten).  The    *)
(* modules of a job are put in order by flatten_dedupe_sorted, and those   *)
(* of the language server by its copy in LspSemanticTokens.cpp: the same   *)
(* recursion, on a graph nothing was checked of.                           *)
(*                                                                         *)
(* Both searches are recursive functions; a frame of the stack here is a   *)
(* call there, and an import is looked at in any order.                    *)
(***************************************************************************)
EXTENDS Integers, Sequences, SequencesExt, FiniteSets

CONSTANTS
    File,         \* the files, or modules
    MaxImports    \* bound on the imports of a graph

ASSUME ConstantsAssumption == IsFiniteSet(File) /\ MaxImports \in Nat

VARIABLES
    imports,      \* imports[f]: what f imports; chosen once
    roots,        \* the files the search starts from
    phase,        \* "check", "flatten", "done" or "refused"
    rootsLeft,    \* the roots the loop has not come to
    stack,        \* the calls that are active, the innermost last
    parents,      \* the list all calls of check_imports_for_cycles share
    cyclic,       \* has_cyclic_dependencies
    order         \* flat_out

vars == <<imports, roots, phase, rootsLeft, stack, parents, cyclic, order>>
graph == <<imports, roots>>

\* A call for file f, which has yet to look at the files in left; end is the
\* length of parents when it was made.
Call(f, end) == [file |-> f, left |-> imports[f], end |-> end]
Top == stack[Len(stack)]
Pop == SubSeq(stack, 1, Len(stack) - 1)

\* The innermost call has looked at i.
Looked(i) == [stack EXCEPT ![Len(stack)].left = @ \ {i}]

ImportsIn == UNION {{f} \X imports[f] : f \in File}

Init ==
    /\ imports \in [File -> SUBSET File]
    /\ Cardinality(ImportsIn) <= MaxImports
    /\ roots \in SUBSET File \ {{}}
    /\ phase = "check" /\ rootsLeft = roots
    /\ stack = <<>> /\ parents = <<>>
    /\ cyclic = FALSE /\ order = <<>>

-----------------------------------------------------------------------------
(* check_imports_for_cycles                                                *)

CheckRoot(r) ==
    /\ phase = "check" /\ stack = <<>>
    /\ rootsLeft' = rootsLeft \ {r}
    /\ parents' = <<>>
    /\ stack' = <<Call(r, 0)>>
    /\ UNCHANGED <<graph, phase, cyclic, order>>

\* Mutant: what a sibling left in the list stays there.
Untrimmed(end) == parents

\* The list as it was when the call was made.
Trimmed(end) == SubSeq(parents, 1, end)

\* Mutant: the search goes on behind a cycle.
FollowAlways(i, chain) == TRUE

\* The imports of a file that is its own ancestor are not searched.
Follow(i, chain) == ~Contains(chain, i)

CheckDirect ==
    /\ phase = "check" /\ stack # <<>>
    /\ Top.file \in Top.left
    /\ cyclic' = TRUE
    /\ stack' = Looked(Top.file)
    /\ UNCHANGED <<graph, phase, rootsLeft, parents, order>>

CheckImport(i) ==
    LET chain == Trimmed(Top.end)
    IN  /\ phase = "check"
        /\ i # Top.file
        /\ cyclic' = (cyclic \/ Contains(chain, i))
        /\ parents' = Append(chain, Top.file)
        /\ stack' = Looked(i) \o (IF Follow(i, chain) THEN <<Call(i, Len(chain) + 1)>> ELSE <<>>)
        /\ UNCHANGED <<graph, phase, rootsLeft, order>>

CheckReturn ==
    /\ phase = "check" /\ stack # <<>> /\ Top.left = {}
    /\ stack' = Pop
    /\ UNCHANGED <<graph, phase, rootsLeft, parents, cyclic, order>>

\* A cycle ends the build of the build.lab.
CheckEnd ==
    /\ phase = "check" /\ stack = <<>> /\ rootsLeft = {}
    /\ phase' = (IF cyclic THEN "refused" ELSE "flatten")
    /\ rootsLeft' = roots
    /\ UNCHANGED <<graph, stack, parents, cyclic, order>>

-----------------------------------------------------------------------------
(* flatten, recursive_dedupe                                               *)

FlattenRoot(r) ==
    /\ phase = "flatten" /\ stack = <<>>
    /\ rootsLeft' = rootsLeft \ {r}
    /\ stack' = <<Call(r, 0)>>
    /\ UNCHANGED <<graph, phase, parents, cyclic, order>>

FlattenImport(i) ==
    /\ phase = "flatten"
    /\ stack' = Append(Looked(i), Call(i, 0))
    /\ UNCHANGED <<graph, phase, rootsLeft, parents, cyclic, order>>

\* Mutant: a file is entered each time it is met.
EnterAlways(f) == Append(order, f)

\* A file is entered once, behind its imports.
Enter(f) == IF Contains(order, f) THEN order ELSE Append(order, f)

FlattenReturn ==
    /\ phase = "flatten" /\ stack # <<>> /\ Top.left = {}
    /\ order' = Enter(Top.file)
    /\ stack' = Pop
    /\ UNCHANGED <<graph, phase, rootsLeft, parents, cyclic>>

FlattenEnd ==
    /\ phase = "flatten" /\ stack = <<>> /\ rootsLeft = {}
    /\ phase' = "done"
    /\ UNCHANGED <<graph, rootsLeft, stack, parents, cyclic, order>>

Next ==
    \/ \E r \in rootsLeft : CheckRoot(r) \/ FlattenRoot(r)
    \/ stack # <<>> /\ \E i \in Top.left : CheckImport(i) \/ FlattenImport(i)
    \/ CheckDirect \/ CheckReturn \/ CheckEnd
    \/ FlattenReturn \/ FlattenEnd

Spec == Init /\ [][Next]_vars

-----------------------------------------------------------------------------

TypeOK ==
    /\ imports \in [File -> SUBSET File]
    /\ roots \subseteq File /\ rootsLeft \subseteq roots
    /\ phase \in {"check", "flatten", "done", "refused"}
    /\ stack \in Seq([file : File, left : SUBSET File, end : Nat])
    /\ parents \in Seq(File)
    /\ cyclic \in BOOLEAN
    /\ order \in Seq(File)

\* The reference: what a file imports, directly or not, and what is searched.
\* Each is the least set of files that is closed under imports.
Closed(S) == \A f \in S : imports[f] \subseteq S
Least(start) == {g \in File : \A S \in SUBSET File : start \subseteq S /\ Closed(S) => g \in S}
Imported(f) == Least(imports[f])
Searched == Least(roots)

\* The verdict is right in both directions.  A cycle that is missed makes
\* flatten recurse for ever, and one that is invented, because the list of
\* parents is shared between siblings, refuses a build that is in order.
CyclesFound ==
    phase # "check" => (cyclic <=> \E f \in Searched : f \in Imported(f))

\* "otherwise stackoverflow": no call is ever nested deeper than there are
\* files, in either search, whatever the graph.
DepthBounded == Len(stack) <= Cardinality(File)

\* The order has every file behind all it imports, once, and in the end all of
\* the files that can be reached and no other.
IndependentFirst ==
    /\ IsInjective(order)
    /\ \A n \in DOMAIN order :
          imports[order[n]] \subseteq {order[k] : k \in 1 .. n - 1}
    /\ phase = "done" => ToSet(order) = Searched
=============================================================================
