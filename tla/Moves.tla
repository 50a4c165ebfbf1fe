-------------------------------- MODULE Moves --------------------------------
(***************************************************************************)
(* A function body written one statement at a time, any statement the      *)
(* checker accepts, with what SymResLinkBody and ToCAstVisitor make of it. *)
(* Code after a jump in the same scope is left out.                        *)
(***************************************************************************)
EXTENDS MoveChecker, DropFlags

CONSTANT MaxStatements      \* statements and scopes opened, all in all

VARIABLES
  declared,        \* the variables the program has declared so far
  returned,        \* the last statement of the scope is a return
  inElse,          \* for each open scope: it is the else of its if
  size,            \* statements so far
  overDropped,     \* history: dropped by a jump out of a loop used as a value
  selfAssigned     \* history: x = x

vars == <<checkVars, emitVars, declared, returned, inElse, size, overDropped, selfAssigned>>

history == <<overDropped, selfAssigned>>

\* The parameters taken by value: their jobs are queued before the body's.
Parameters ==
  {s \in UNION {[1 .. n -> Var] : n \in 0 .. Cardinality(Var)} : IsInjective(s)}

Init ==
  /\ moved = <<>>
  /\ bodies = <<[kind |-> "function", begin |-> 0, backup |-> <<>>,
                known |-> {}, atBreak |-> {}]>>
  /\ forgotten = {} /\ conditional = {} /\ maybeLive = {}
  /\ jobs \in Parameters /\ loopBegin = 0 /\ destroyScope = TRUE /\ scopes = <<>>
  /\ paths = {[from |-> Start,
              now |-> FoldLeft(Exec, Start, [i \in DOMAIN jobs |-> C("init", jobs[i])])]}
  /\ declared = ToSet(jobs) /\ returned = FALSE /\ inElse = <<>> /\ size = 0
  /\ overDropped = {} /\ selfAssigned = {}

InFunction == bodies # <<>>

\* The loops around the statement; the function's own body comes
\* first in bodies and has no entry in scopes.
LoopScopes == {n \in DOMAIN scopes : scopes[n].kind \in LoopKinds}

\* No loop is open: every run starts at the entry of the function.
AtFunctionLevel == LoopScopes = {}

\* A statement can follow: the function is not over and no jump came before.
Open == InFunction /\ destroyScope /\ size < MaxStatements

InScope == ToSet(jobs)

Statement ==
  /\ Open
  /\ size' = size + 1
  /\ UNCHANGED inElse

\* var x = make()  or  var x = y
Declare(x, y) ==
  /\ Statement
  /\ x \notin declared /\ y \in InScope \cup {NoVar}
  /\ IF y = NoVar THEN UNCHANGED checkVars ELSE CheckMove(y)
  /\ EmitDeclare(x, y)
  /\ declared' = declared \cup {x}
  /\ UNCHANGED <<returned, history>>

\* take(x)
MoveInto(x) ==
  /\ Statement
  /\ x \in InScope
  /\ CheckMove(x)
  /\ EmitMove(x)
  /\ UNCHANGED <<declared, returned, history>>

\* x = make()  or  x = y
Assign(x, y) ==
  /\ Statement
  /\ x \in InScope /\ y \in InScope \cup {NoVar}
  /\ CheckAssign(x, y)
  /\ EmitAssign(x, y, LhsWasMoved(x, y))
  /\ selfAssigned' = selfAssigned \cup ({x} \cap {y})
  /\ UNCHANGED <<declared, returned, overDropped>>

\* if(...) {   while(...) {   do {   loop {   v = loop {   {
Enter(kind) ==
  /\ Open
  /\ CheckEnter(kind)
  /\ EmitEnter(kind, kind \in LoopKinds)
  /\ size' = size + 1
  /\ inElse' = Append(inElse, FALSE)
  /\ UNCHANGED <<declared, returned, history>>

\* } else if(...) {   } else {
NextBranch(isElse) ==
  /\ InFunction /\ inElse # <<>> /\ ~Last(inElse)
  /\ size < MaxStatements
  /\ CheckNextBranch(returned)
  /\ EmitNextBranch
  /\ inElse' = Append(Front(inElse), isElse)
  /\ returned' = FALSE
  /\ size' = size + 1
  /\ UNCHANGED <<declared, history>>

Close ==
  /\ InFunction /\ inElse # <<>>
  /\ inElse' = Front(inElse)
  /\ returned' = FALSE
  /\ UNCHANGED <<declared, size, history>>

CloseIf ==
  /\ Close
  /\ CheckCloseIf(returned)
  /\ EmitCloseIf(Last(inElse))

CloseBlock ==
  /\ Close
  /\ CheckCloseBlock
  /\ EmitCloseBlock

\* The variables declared before the scope n was opened.
OuterOf(n) == ToSet(SubSeq(jobs, 1, scopes[n].begin))

CloseLoop ==
  /\ Close
  /\ CheckCloseLoop(OuterOf(Len(scopes)), returned, destroyScope)
  /\ EmitCloseLoop

Jump(isBreak) ==
  /\ Statement
  /\ LoopScopes # {}
  /\ LET n == Max(LoopScopes) IN
     /\ IF isBreak THEN CheckBreak(OuterOf(n), n + 1) ELSE CheckContinue(OuterOf(n), n + 1)
     /\ EmitJump(n, isBreak)
     /\ overDropped' = overDropped
          \cup ToSet(SubSeq(jobs, loopBegin + 1, scopes[n].begin))
  /\ UNCHANGED <<declared, returned, selfAssigned>>

Return(x) ==
  /\ Statement
  /\ x \in InScope \cup {NoVar}
  /\ x # NoVar => Usable(x)
  /\ UNCHANGED checkVars
  /\ EmitReturn(x)
  /\ returned' = TRUE
  /\ UNCHANGED <<declared, history>>

\* The end of the function's own scope.
EndFunction ==
  /\ InFunction /\ inElse = <<>>
  /\ paths' = ScopeEnd([begin |-> 0])
  /\ jobs' = <<>> /\ destroyScope' = TRUE
  /\ bodies' = <<>>
  /\ UNCHANGED <<moved, forgotten, conditional, maybeLive, loopBegin, scopes,
                 declared, returned, inElse, size, history>>

Next ==
  \/ \E x \in Var, y \in Var \cup {NoVar} : Declare(x, y) \/ Assign(x, y)
  \/ \E x \in Var : MoveInto(x)
  \/ \E kind \in BodyKinds \ {"function"} : Enter(kind)
  \/ \E isElse \in BOOLEAN : NextBranch(isElse)
  \/ CloseIf \/ CloseBlock \/ CloseLoop
  \/ \E isBreak \in BOOLEAN : Jump(isBreak)
  \/ \E x \in Var \cup {NoVar} : Return(x)
  \/ EndFunction

Spec == Init /\ [][Next]_vars

TypeOK == CheckTypeOK /\ EmitTypeOK

Now == {p.now : p \in paths}

FaultsOf(what) == {e.fault[2] : e \in {d \in Now : d.fault[1] = what}}

\* A variable that no path holds any more is on the list, unless the list is
\* known to have lost it: the later branches of an if overwrite the backup of
\* the earlier ones, an assignment in a branch speaks for the other branches, a
\* loop's body is linked once.
CheckerRemembers ==
  AtFunctionLevel =>
    \A e \in Now, x \in InScope : e.val[x] = "gone" => ~Usable(x) \/ x \in forgotten \cup overDropped

\* An accepted program uses and destroys no value that was moved or destroyed
\* before, outside the cases named in CheckerRemembers and the loop used as a
\* value.
NoMovedUse ==
  AtFunctionLevel => FaultsOf("used") \cup FaultsOf("destroyed") \subseteq forgotten \cup overDropped

\* Every value is destroyed, however the scope is left, except where the list
\* took an assignment for a reinitialisation on paths that still held the old
\* value, and x = x.
NoLeak ==
  AtFunctionLevel => FaultsOf("leaked") \subseteq maybeLive \cup selfAssigned

\* On every path a drop flag says whether the variable holds a value: the
\* destructors at scope ends depend on no compile-time knowledge.
FlagsTruthful ==
  \A p \in paths :
    LET wrong(e) == {x \in InScope : e.flag[x] # (e.val[x] = "live")} IN
    Running(p.now) => wrong(p.now) \subseteq wrong(p.from) \cup overDropped \cup selfAssigned

\* Contradicted: an accepted program uses no moved value.
MovedIsError == AtFunctionLevel => FaultsOf("used") \cup FaultsOf("destroyed") = {}
==============================================================================
