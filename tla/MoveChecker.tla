----------------------------- MODULE MoveChecker -----------------------------
(***************************************************************************)
(* The compile-time half of move semantics: the list of moved identifiers  *)
(* that SymResLinkBody keeps while it links a function body in source      *)
(* order.  The module gives the list, the bodies that are open around the  *)
(* statement being linked, and what each kind of statement does to them.   *)
(* Module Moves composes it with the C backend.                            *)
(*                                                                         *)
(* Moves of single fields (moved_chains) are left out.                     *)
(***************************************************************************)
EXTENDS MoveProgram, Integers, Sequences, SequencesExt

VARIABLES
  moved,           \* moved_identifiers
  bodies,          \* the bodies being linked, the innermost last
  \* History, not in the code: what the list no longer says
  forgotten,       \* moved on some path, and taken off the list or never on it
  conditional,     \* on the list for a move that only some paths make
  maybeLive        \* reinitialised as if moved, though some path still held it

checkVars == <<moved, bodies, forgotten, conditional, maybeLive>>

\* begin and backup are the code's; known and atBreak are history: what was on
\* the list when the body was entered, and where a break left the loop.
Body == [kind : BodyKinds, begin : Nat, backup : Seq(Var),
         known : SUBSET Var, atBreak : SUBSET Var]

CheckTypeOK ==
  /\ moved \in Seq(Var)
  /\ bodies \in Seq(Body)
  /\ {forgotten, conditional, maybeLive} \subseteq SUBSET Var

Innermost == Last(bodies)

\* A move or an access of x is an error while x is on the list.
Usable(x) == x \notin ToSet(moved)

\* mark_moved_no_check.
Marked(m, x) == Append(m, x)

\* un_move_exact_id: the first entry for x goes.
UnMoved(m, x) == RemoveFirst(m, x)

\* Bodies around the statement that may not run, or run again, and that were
\* entered with x on the list.
EnteredSince(x) ==
  {b \in ToSet(bodies) : b.kind \in LoopKinds \cup {"if"} /\ x \in b.known}

\* x is moved: by value into a call, or into the variable it initialises.
CheckMove(x) ==
  /\ Usable(x)
  /\ moved' = Marked(moved, x)
  /\ UNCHANGED <<bodies, forgotten, conditional, maybeLive>>

\* x = y, or x = a new value when y = NoVar: the right side is marked first,
\* then the left side comes off the list.
CheckAssign(x, y) ==
  LET after == IF y = NoVar THEN moved ELSE Marked(moved, y) IN
  /\ y # NoVar => Usable(y)
  /\ moved' = UnMoved(after, x)
  /\ LET off == IF x \in ToSet(moved) THEN {x} ELSE {}
         outer == IF off # {} THEN EnteredSince(x) ELSE {} IN
     /\ forgotten' = forgotten \cup (IF outer # {} THEN {x} ELSE {})
     /\ maybeLive' = maybeLive \cup (off \cap conditional)
                       \cup (IF \E b \in outer : b.kind \in LoopKinds THEN {x} ELSE {})
     /\ conditional' = conditional \ off
  /\ UNCHANGED bodies

\* The C backend asks the left side of an assignment whether it was moved.
LhsWasMoved(x, y) ==
  x \in ToSet(IF y = NoVar THEN moved ELSE Marked(moved, y))

CheckEnter(kind) ==
  /\ bodies' = Append(bodies, [kind |-> kind, begin |-> Len(moved), backup |-> <<>>,
                             known |-> ToSet(moved), atBreak |-> {}])
  /\ UNCHANGED <<moved, forgotten, conditional, maybeLive>>

\* A body that ends in a return forgets what it moved.  When assignments took
\* older entries off, the list is shorter than begin and vector::erase is given
\* a reversed range: entries that were there before may come back.
Stale(b, returned) ==
  IF returned /\ Len(moved) < b.begin
  THEN [1 .. (b.begin - Len(moved)) -> Var] \cup {<<>>}
  ELSE {<<>>}

\* Mutant: every body forgets what it moved, not only one that returns.
LinkedForgetting(b, returned, stale) ==
  IF Len(moved) > b.begin THEN SubSeq(moved, 1, b.begin) ELSE moved \o stale

\* link_seq: the list after the last statement of the body.
Linked(b, returned, stale) ==
  IF returned /\ Len(moved) > b.begin THEN SubSeq(moved, 1, b.begin)
  ELSE moved \o stale

\* extractEnd: what was put on the list since begin replaces the backup.
Backup(b, m) ==
  IF Len(m) <= b.begin THEN b.backup ELSE SubSeq(m, b.begin + 1, Len(m))

WithoutNew(b, m) == IF Len(m) <= b.begin THEN m ELSE SubSeq(m, 1, b.begin)

\* What the end of a branch with list m leaves behind in the history.
BranchHistory(b, m, stale) ==
  /\ forgotten' = forgotten \cup (ToSet(b.backup) \ ToSet(Backup(b, m)))
  /\ conditional' = conditional \cup (ToSet(m) \ b.known) \cup ToSet(stale)
  /\ UNCHANGED maybeLive

\* link_seq_backing_moves at the end of a branch; the next branch starts with
\* the list as it was, or shorter.
CheckNextBranch(returned) ==
  LET b == Innermost IN
  \E stale \in Stale(b, returned) :
    LET m == Linked(b, returned, stale)
        rest == WithoutNew(b, m) IN
    /\ b.kind = "if"
    /\ moved' = rest
    /\ bodies' = Append(Front(bodies),
                        [b EXCEPT !.begin = Len(rest), !.backup = Backup(b, m),
                                  !.known = ToSet(rest)])
    /\ BranchHistory(b, m, stale)

\* Mutant: the branches' moves are not restored.
NotRestored(m, backup) == m

\* restore_moved_ids: after the last branch the backup goes back on the list.
Restored(m, backup) == m \o backup

CheckCloseIf(returned) ==
  LET b == Innermost IN
  \E stale \in Stale(b, returned) :
    LET m == Linked(b, returned, stale) IN
    /\ b.kind = "if"
    /\ moved' = Restored(WithoutNew(b, m), Backup(b, m))
    /\ bodies' = Front(bodies)
    /\ BranchHistory(b, m, stale)

\* Moves of variables older than the loop, seen where control goes back to its
\* start: the next round was linked as if they had not been made.
MovedInRound(outer, b) == (outer \cap ToSet(moved)) \ b.known

\* The end of a block, which is not linked by link_seq.
CheckCloseBlock ==
  /\ Innermost.kind = "block"
  /\ bodies' = Front(bodies)
  /\ UNCHANGED <<moved, forgotten, conditional, maybeLive>>

\* The end of a loop's body; outer are the variables declared before it, and
\* again says whether control falls through to the next round.
CheckCloseLoop(outer, returned, again) ==
  LET b == Innermost IN
  \E stale \in Stale(b, returned) :
    /\ b.kind \in LoopKinds
    /\ moved' = Linked(b, returned, stale)
    /\ bodies' = Front(bodies)
    /\ forgotten' = forgotten \cup (b.atBreak \ ToSet(moved'))
                      \cup (IF again THEN MovedInRound(outer, b) ELSE {})
    /\ conditional' = conditional \cup (ToSet(moved') \ b.known) \cup ToSet(stale)
    /\ UNCHANGED maybeLive

\* continue: the enclosing loop, bodies[n], starts over with what is moved here.
CheckContinue(outer, n) ==
  /\ forgotten' = forgotten \cup MovedInRound(outer, bodies[n])
  /\ UNCHANGED <<moved, bodies, conditional, maybeLive>>

\* break: what follows the loop starts with what is moved here, too.
CheckBreak(outer, n) ==
  /\ bodies' = [bodies EXCEPT ![n].atBreak = @ \cup (outer \cap ToSet(moved))]
  /\ UNCHANGED <<moved, forgotten, conditional, maybeLive>>
==============================================================================
