------------------------------- MODULE MovesInv -------------------------------
(***************************************************************************)
(* The inductive invariant behind the safety properties of Moves.          *)
(*                                                                         *)
(* A context says what the checker knows at a point of the program.  Good  *)
(* relates the runs that reach the point to it: what is wrong with a       *)
(* variable there is excused by the history, or was wrong already in the   *)
(* state the run started from, at the entry of the loop around it.         *)
(***************************************************************************)
EXTENDS Moves

(***************************************************************************)
(* Contexts.                                                               *)
(***************************************************************************)
\* The body the runs start from after the first n scopes were opened: the
\* function, 1, or the innermost loop.
Home(sc, n) == Max({0} \cup {k \in 1 .. n : sc[k].kind \in LoopKinds}) + 1

\* The lists that are kept beside the list of moved variables, and go back on
\* it when the body is closed.
Kept(b, k) == [j \in 2 .. k |-> ToSet(b[j].backup)]

\* scope: the variables that exist; list: those on the list of moved ones;
\* said: those that may be gone; kept: see Kept.
Context(scope, list, said, kept) == [scope |-> scope, list |-> list, said |-> said, kept |-> kept]

Outer(jb, sc, l) == IF l = 1 THEN {} ELSE ToSet(SubSeq(jb, 1, sc[l - 1].begin))
Known(b, l) == IF l = 1 THEN {} ELSE b[l].known

\* At the entry of bodies[l].
Entry(jb, sc, b, l) == Context(Outer(jb, sc, l), Known(b, l), Known(b, l), Kept(b, l))
EntryOf(l) == Entry(jobs, scopes, bodies, l)

\* At the statement being translated.
Here == Context(InScope, ToSet(moved), ToSet(moved), Kept(bodies, Len(bodies)))

Excuses == [gone  |-> forgotten \cup overDropped,
            clash |-> conditional \cup maybeLive,
            up    |-> overDropped,
            down  |-> selfAssigned,
            leak  |-> maybeLive \cup selfAssigned]

(***************************************************************************)
(* What can be wrong with x in the state e.                                *)
(***************************************************************************)
Live(e, x) == e.val[x] = "live"
FlagUp(e, x) == e.flag[x] = TRUE /\ ~Live(e, x)
FlagDown(e, x) == Live(e, x) /\ e.flag[x] = FALSE
Gone(e, c, x) == e.val[x] = "gone" /\ x \notin c.said
Clash(e, c, x) == Live(e, x) /\ x \in c.list

\* x will be put on the list at the end of bodies[j], and holds a value or is
\* on the list once more.
Owed(e, c, j, x) ==
  /\ j \in DOMAIN c.kept /\ x \in c.kept[j]
  /\ Live(e, x) \/ x \in c.list \/ \E n \in DOMAIN c.kept : n > j /\ x \in c.kept[n]

\* A run from the context f to the context c.
Safe(p, f, c, h, x) ==
  /\ p.now.val[x] # "none"
  /\ Gone(p.now, c, x) => x \in h.gone \/ Gone(p.from, f, x)
  /\ Clash(p.now, c, x) => x \in h.clash \/ Clash(p.from, f, x)
  /\ \A j \in DOMAIN c.kept : Owed(p.now, c, j, x) =>
        x \in h.clash \/ Clash(p.from, f, x) \/ Owed(p.from, f, j, x)
  /\ FlagUp(p.now, x) => x \in h.up \/ FlagUp(p.from, x)
  /\ FlagDown(p.now, x) => x \in h.down \/ FlagDown(p.from, x)

\* What stopped the run.
Blamed(p, f, h, x) ==
  /\ p.now.fault = <<"used", x>> => x \in h.gone \/ Gone(p.from, f, x)
  /\ p.now.fault = <<"destroyed", x>> => x \in h.gone \/ Gone(p.from, f, x) \/ FlagUp(p.from, x)
  /\ p.now.fault = <<"leaked", x>> => x \in h.leak \/ FlagDown(p.from, x)

\* The state at the entry of a body holds nothing but what exists there.
Clean(e, f) ==
  Running(e) /\ \A x \in Var \ f.scope : e.val[x] = "none" /\ e.flag[x] = FALSE

Good(P, f, c, h) ==
  \A p \in P :
    /\ p \in Path /\ Clean(p.from, f)
    /\ \A x \in Var : Blamed(p, f, h, x)
    /\ Running(p.now) => \A x \in c.scope : Safe(p, f, c, h, x)

(***************************************************************************)
(* The invariant.                                                          *)
(***************************************************************************)
CurrentGood == Good(paths, EntryOf(Home(scopes, Len(scopes))), Here, Excuses)

\* The runs kept for the end of scopes[i].
ScopeGood(i) ==
  LET s == scopes[i]
      b == bodies[i + 1]
      c == EntryOf(i + 1)
      f == EntryOf(Home(scopes, i - 1)) IN
  /\ Good(s.entry, f, c, Excuses)
  /\ s.kind = "if" =>
       Good(s.done, f, [c EXCEPT !.said = @ \cup ToSet(b.backup)], Excuses)
  /\ s.kind \in LoopKinds =>
       Good(s.done, c, [c EXCEPT !.said = b.atBreak], Excuses) /\ Good(s.again, c, c, Excuses)

ScopesGood == \A i \in DOMAIN scopes : ScopeGood(i)

Scope == [kind : BodyKinds \ {"function"}, begin : Nat, prevLoop : Nat, entry : SUBSET Path,
          done : SUBSET Path, again : SUBSET Path]

Shape ==
  /\ scopes \in Seq(Scope) /\ inElse \in Seq(BOOLEAN) /\ size \in Nat /\ returned \in BOOLEAN
  /\ {declared, overDropped, selfAssigned} \subseteq SUBSET Var
  /\ Len(scopes) = Len(inElse)
  /\ IF InFunction THEN Len(bodies) = Len(scopes) + 1 ELSE scopes = <<>> /\ jobs = <<>>
  /\ \A i \in DOMAIN scopes : bodies[i + 1].kind = scopes[i].kind /\ scopes[i].begin <= Len(jobs)
  /\ \A i \in DOMAIN scopes : \A j \in 1 .. i : scopes[j].begin <= scopes[i].begin
  /\ IsInjective(jobs) /\ InScope \subseteq declared

\* No run goes on behind a jump.
Jumped ==
  /\ returned \/ ~destroyScope => \A p \in paths : ~Running(p.now)
  /\ InFunction /\ returned => ~destroyScope

\* The jobs that are older than bodies[l].
FirstJob(sc, l) == IF l = 1 THEN 0 ELSE sc[l - 1].begin

\* loop_job_begin_index never lies above the jobs of the innermost loop.
LoopBegins ==
  /\ loopBegin <= FirstJob(scopes, Home(scopes, Len(scopes)))
  /\ \A i \in DOMAIN scopes :
        scopes[i].kind \in LoopKinds => scopes[i].prevLoop <= FirstJob(scopes, Home(scopes, i - 1))

OpenBodies == 2 .. Len(bodies)

\* Only what a reversed vector::erase brought back is listed before it exists.
ListDeclared ==
  \A x \in Var \ declared :
    x \in ToSet(moved) \/ (\E j \in OpenBodies : x \in bodies[j].known \cup ToSet(bodies[j].backup))
      => x \in conditional \cup maybeLive

Twice(s, x) == \E i, j \in DOMAIN s : i # j /\ s[i] = x /\ s[j] = x

\* A variable that is, or will be, on the list twice is known to be.
Doubles ==
  \A x \in Var :
    \/ Twice(moved, x)
    \/ \E j \in OpenBodies :
         Twice(bodies[j].backup, x) \/ x \in bodies[j].known \cap ToSet(bodies[j].backup)
    => x \in conditional \cup maybeLive

Retaken(x, n) == x \in forgotten /\ (bodies[n].kind \in LoopKinds => x \in maybeLive)

\* What was on the list when a body was entered is still there, below the
\* begin of every body since, or an assignment took it off.
KnownKept ==
  \A n \in OpenBodies : bodies[n].kind # "block" =>
    \A x \in bodies[n].known :
      \/ Retaken(x, n)
      \/ \E i \in DOMAIN moved : moved[i] = x /\ \A j \in n .. Len(bodies) : i <= bodies[j].begin

IInv == /\ CheckTypeOK /\ EmitTypeOK /\ Shape /\ Jumped /\ LoopBegins
        /\ ListDeclared /\ Doubles /\ KnownKept
        /\ CurrentGood /\ ScopesGood
===============================================================================
