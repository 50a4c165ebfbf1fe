----------------------------- MODULE MoveProgram -----------------------------
(***************************************************************************)
(* What the two halves of move semantics say about a program: its local    *)
(* variables, of a struct type with a destructor, each declared once, and  *)
(* the kinds of bodies it nests.                                           *)
(***************************************************************************)
EXTENDS FiniteSets

CONSTANTS Var,     \* the variables of the program
          NoVar    \* no variable: a new value on the right of an assignment

ASSUME VarAssumption == IsFiniteSet(Var) /\ NoVar \notin Var

\* Bodies whose code may run any number of times.
LoopKinds == {"while", "dowhile", "loop", "valueloop"}

BodyKinds == {"function", "if", "block"} \cup LoopKinds
==============================================================================
