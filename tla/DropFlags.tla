------------------------------ MODULE DropFlags ------------------------------
(***************************************************************************)
(* The C backend's half of move semantics: the destruction jobs that       *)
(* ToCAstVisitor and CDestructionVisitor queue while they translate a      *)
(* function body, and the C statements they emit for declarations, moves,  *)
(* assignments, scope ends and jumps.                                      *)
(*                                                                         *)
(* The emitted code is not kept but run as it is emitted, along every path *)
(* at once: paths relates each state at the entry of the innermost loop    *)
(* body (or of the function) to the states reached from it at the          *)
(* statement being translated.  Conditions are free.                       *)
(***************************************************************************)
EXTENDS MoveProgram, Integers, Sequences, SequencesExt, FiniteSets

VARIABLES
  jobs,            \* destruct_jobs: the variables to destroy, oldest first
  loopBegin,       \* loop_job_begin_index
  destroyScope,    \* destroy_current_scope: FALSE right after a jump
  scopes,          \* the C scopes being written, the innermost last
  paths            \* the runs of the emitted C up to here

emitVars == <<jobs, loopBegin, destroyScope, scopes, paths>>

NoFault == <<"none", NoVar>>
Faults == {NoFault} \cup ({"used", "destroyed", "leaked"} \X Var)

\* A state of the running function: what each variable holds, its drop flag,
\* and the first thing that went wrong; a run that went wrong holds nothing.
Env == {e \in [val : [Var -> {"none", "live", "gone"}], flag : [Var -> BOOLEAN], fault : Faults] :
          e.fault = NoFault \/ \A x \in Var : e.val[x] = "none"}

Start == [val |-> [x \in Var |-> "none"], flag |-> [x \in Var |-> FALSE],
          fault |-> NoFault]

Path == [from : Env, now : Env]

EmitTypeOK ==
  /\ jobs \in Seq(Var) /\ loopBegin \in Nat /\ destroyScope \in BOOLEAN
  /\ \A p \in paths : p \in Path
  /\ \A s \in ToSet(scopes) :
        s.begin \in Nat /\ \A p \in s.entry \cup s.done \cup s.again : p \in Path

Running(e) == e.fault = NoFault

\* A run stops at its first fault.
Fault(what, x) == [Start EXCEPT !.fault = <<what, x>>]

(***************************************************************************)
(* What the emitted statements do.                                         *)
(***************************************************************************)
C(op, x) == [op |-> op, of |-> x]

Exec(e, s) ==
  LET x == s.of
      live == e.val[x] = "live" IN
  IF ~Running(e) \/ s.op = "keep" THEN e
  ELSE CASE s.op = "init" -> [e EXCEPT !.val[x] = "live", !.flag[x] = TRUE]
    [] s.op = "flag"     -> [e EXCEPT !.flag[x] = TRUE]
    [] s.op = "move"     -> IF live THEN [e EXCEPT !.val[x] = "gone", !.flag[x] = FALSE]
                            ELSE Fault("used", x)
    [] s.op = "return"   -> IF live THEN [e EXCEPT !.val[x] = "gone"]
                            ELSE Fault("used", x)
    [] s.op = "destroy"  -> IF live THEN [e EXCEPT !.val[x] = "gone"]
                            ELSE Fault("destroyed", x)
    [] s.op = "drop"     -> IF ~e.flag[x] THEN e          \* if(flag) destroy(&x);
                            ELSE IF live THEN [e EXCEPT !.val[x] = "gone"]
                            ELSE Fault("destroyed", x)
    [] s.op = "store"    -> IF live THEN Fault("leaked", x)
                            ELSE [e EXCEPT !.val[x] = "live"]
    [] s.op = "end"      -> IF live THEN Fault("leaked", x)
                            ELSE [e EXCEPT !.val[x] = "none", !.flag[x] = FALSE]

Run(e, code) == FoldLeft(Exec, e, code)

After(code, P) == {[p EXCEPT !.now = Run(@, code)] : p \in P}

(***************************************************************************)
(* What is emitted.                                                        *)
(***************************************************************************)
\* VisitVarInitStmt and queue_destruct: the value, then the flag.
DeclareCode(x, y) ==
  (IF y = NoVar THEN <<>> ELSE <<C("move", y)>>) \o <<C("init", x)>>

\* Mutant: the drop flag of a moved left side is not set again.
AssignNoFlag(x, y, lhsWasMoved) ==
  LET rhs == IF y = NoVar THEN <<>> ELSE <<C("move", y)>> IN
  IF lhsWasMoved
  THEN rhs \o <<C("store", x)>>
  ELSE rhs \o <<C("destroy", x), C("store", x)>>

\* assign_statement: a moved left side is only stored to, after its flag was
\* set; otherwise the right side is kept in a temporary while the old value is
\* destroyed, and the flag stays.
AssignCode(x, y, lhsWasMoved) ==
  LET rhs == IF y = NoVar THEN <<>> ELSE <<C("move", y)>> IN
  IF lhsWasMoved
  THEN <<C("flag", x)>> \o rhs \o <<C("store", x)>>
  ELSE rhs \o <<C("destroy", x), C("store", x)>>

\* destruct: the youngest job first; that of the returned variable is skipped
\* whatever its flag.
Drops(begin, returned) ==
  [i \in 1 .. (Len(jobs) - begin) |->
     LET x == jobs[Len(jobs) + 1 - i] IN C(IF x = returned THEN "keep" ELSE "drop", x)]

\* The lifetime of the variables of the jobs from begin on ends.
Ends(begin) == [i \in 1 .. (Len(jobs) - begin) |-> C("end", jobs[begin + i])]

(***************************************************************************)
(* Loops: the runs of the body are joined over any number of rounds.       *)
(***************************************************************************)
Join(P, R) ==
  UNION {{[from |-> p.from, now |-> r.now] : r \in {q \in R : q.from = p.now}} : p \in P}

\* The runs in P, and those that go on with any number of rounds in R.  A chain
\* of rounds need not change the same state twice, so after a round for each of
\* these states there are no more.
Rounds(P, R) ==
  LET changed == {r \in R : r.now # r.from}
      after[n \in Nat] ==
        IF n = 0 THEN [all |-> P, last |-> P]
        ELSE LET Q == after[n - 1]
                 more == Join(Q.last, changed) \ Q.all
             IN  [all |-> Q.all \cup more, last |-> more]
  IN  after[Cardinality({r.from : r \in changed})].all

\* The runs of a loop entered by entry, whose body ends or continues by back
\* and leaves the loop by breaks.
LoopRuns(kind, entry, back, breaks) ==
  LET rounds == Rounds(entry, back) IN
  Join(rounds, breaks) \cup
    CASE kind = "while"   -> rounds
      [] kind = "dowhile" -> Join(rounds, back) \cup {p \in entry : ~Running(p.now)}
      [] OTHER            -> {p \in rounds : ~Running(p.now)}

\* Every state a loop's body could be entered in, given what is declared.
AnyEnv ==
  {[val  |-> [x \in Var |-> IF x \in ToSet(jobs) THEN v[x] ELSE "none"],
    flag |-> [x \in Var |-> x \in ToSet(jobs) /\ f[x]],
    fault |-> NoFault] : v \in [Var -> {"live", "gone"}], f \in [Var -> BOOLEAN]}

(***************************************************************************)
(* The translation of one statement.                                       *)
(***************************************************************************)
EmitDeclare(x, y) ==
  /\ jobs' = Append(jobs, x)
  /\ paths' = After(DeclareCode(x, y), paths)
  /\ UNCHANGED <<loopBegin, destroyScope, scopes>>

EmitMove(x) ==
  /\ paths' = After(<<C("move", x)>>, paths)
  /\ UNCHANGED <<jobs, loopBegin, destroyScope, scopes>>

EmitAssign(x, y, lhsWasMoved) ==
  /\ paths' = After(AssignCode(x, y, lhsWasMoved), paths)
  /\ UNCHANGED <<jobs, loopBegin, destroyScope, scopes>>

\* loop_scope; a loop used as a value is written with scope, which does not
\* move loop_job_begin_index.
LoopBeginIn(kind) ==
  IF kind \in {"while", "dowhile", "loop"} THEN Len(jobs) ELSE loopBegin

EmitEnter(kind, isLoop) ==
  /\ scopes' = Append(scopes, [kind |-> kind, begin |-> Len(jobs), prevLoop |-> loopBegin,
                               entry |-> paths, done |-> {}, again |-> {}])
  /\ loopBegin' = LoopBeginIn(kind)
  /\ paths' = IF isLoop THEN {[from |-> e, now |-> e] : e \in AnyEnv} ELSE paths
  /\ UNCHANGED <<jobs, destroyScope>>

\* visit_scope, after its last node: what it emits and leaves behind.
ScopeEnd(s) ==
  After((IF destroyScope THEN Drops(s.begin, NoVar) ELSE <<>>) \o Ends(s.begin), paths)

\* Mutant: destroy_current_scope stays FALSE after the scope of a jump.
LeaveNoReset(s) ==
  /\ jobs' = SubSeq(jobs, 1, s.begin)
  /\ UNCHANGED destroyScope

LeaveScope(s) ==
  /\ jobs' = SubSeq(jobs, 1, s.begin)
  /\ destroyScope' = TRUE

EmitNextBranch ==
  LET s == Last(scopes) IN
  /\ LeaveScope(s)
  /\ scopes' = Append(Front(scopes), [s EXCEPT !.done = @ \cup ScopeEnd(s)])
  /\ paths' = s.entry
  /\ UNCHANGED loopBegin

\* Without an else the condition may also have failed.
EmitCloseIf(hasElse) ==
  LET s == Last(scopes) IN
  /\ LeaveScope(s)
  /\ scopes' = Front(scopes)
  /\ paths' = s.done \cup ScopeEnd(s) \cup (IF hasElse THEN {} ELSE s.entry)
  /\ UNCHANGED loopBegin

EmitCloseBlock ==
  LET s == Last(scopes) IN
  /\ LeaveScope(s)
  /\ scopes' = Front(scopes)
  /\ paths' = ScopeEnd(s)
  /\ UNCHANGED loopBegin

EmitCloseLoop ==
  LET s == Last(scopes) IN
  /\ LeaveScope(s)
  /\ scopes' = Front(scopes)
  /\ loopBegin' = s.prevLoop
  /\ paths' = LoopRuns(s.kind, s.entry, ScopeEnd(s) \cup s.again, s.done)

\* A jump leaves no run behind it but those that already went wrong.
Stopped(P) == {p \in P : ~Running(p.now)}

\* break and continue of the loop whose scope is scopes[n]: the jobs from
\* loop_job_begin_index on are destroyed, the variables of the loop end.
EmitJump(n, isBreak) ==
  LET s == scopes[n]
      left == After(Drops(loopBegin, NoVar) \o Ends(s.begin), paths)
      gone == {p \in left : Running(p.now)} IN
  /\ scopes' = [scopes EXCEPT ![n] =
                  IF isBreak THEN [s EXCEPT !.done = @ \cup gone]
                  ELSE [s EXCEPT !.again = @ \cup gone]]
  /\ paths' = Stopped(left)
  /\ destroyScope' = FALSE
  /\ UNCHANGED <<jobs, loopBegin>>

\* writeReturnStmtFor: the value is copied out before everything is destroyed.
ReturnCode(x) ==
  (IF x = NoVar THEN <<>> ELSE <<C("return", x)>>) \o Drops(0, x) \o Ends(0)

EmitReturn(x) ==
  /\ paths' = Stopped(After(ReturnCode(x), paths))
  /\ destroyScope' = FALSE
  /\ UNCHANGED <<jobs, loopBegin, scopes>>
==============================================================================
