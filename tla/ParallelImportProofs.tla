------------------------- MODULE ParallelImportProofs -------------------------
(***************************************************************************)
(* Files are handed out once, and the importer that is not told too early  *)
(* goes on with all of them: ParallelImport for every number of build.lab  *)
(* files, every graph of imports and every number of threads.              *)
(***************************************************************************)
EXTENDS ParallelImport, TLAPS, SequenceTheorems, FiniteSetTheorems

\* x is about to hand out the file its loop is at.
Handing(b, x) == pc[b][x] \in {"count", "push"}

\* The tasks that are counted and have not counted down: those there are, and those
\* that are about to be pushed.
Outstanding(b) ==
    {f \in File : pc[b][f] \notin {"idle", "fulfil", "done"}}
        \cup {f \in File : \E x \in Importer : pc[b][x] = "push" /\ f = Target(b, x)}

\* Only the importer waits, and it is not a task.
Roles(b) ==
    /\ \A f \in File : pc[b][f] # "wait"
    /\ pc[b][Lab] \notin {"queued", "parse", "end", "fulfil"}

\* A file is entered by one of those that import it, who hands it out.
HandedOnce(b) ==
    /\ \A x \in Importer : Handing(b, x) =>
          /\ idx[b][x] <= Len(Imports[x])
          /\ Target(b, x) \in cache[b] /\ pc[b][Target(b, x)] = "idle"
    /\ \A x, y \in Importer :
          Handing(b, x) /\ Handing(b, y) /\ Target(b, x) = Target(b, y) => x = y
    /\ \A f \in File : pc[b][f] # "idle" => f \in cache[b]
    /\ \A f \in cache[b] :
          pc[b][f] # "idle" \/ \E x \in Importer : Handing(b, x) /\ Target(b, x) = f

\* The pool was given each task there is, or was, once.
HandedRight(b) == \A f \in File : handed[b][f] = IF pc[b][f] = "idle" THEN 0 ELSE 1

\* The counter is right, and nothing is outstanding behind a counter that fell to
\* zero and not too early.
CounterRight(b) ==
    /\ IsFiniteSet(Outstanding(b)) /\ outstanding[b] = Cardinality(Outstanding(b))
    /\ Fallen(b) /\ ~early[b] => Outstanding(b) = {}

\* One task fulfils the promise, unless a task was counted too early.
FulfilOnce(b) ==
    ~early[b] => \A f \in File : pc[b][f] = "fulfil" =>
                    ~promised[b] /\ \A g \in File : pc[b][g] = "fulfil" => g = f

\* What has been looked at is in the cache, and nothing that cannot be reached.
LookedAt(b) ==
    /\ \A x \in Importer : \A i \in 1 .. Len(Imports[x]) :
          i < idx[b][x] => Imports[x][i] \in cache[b]
    /\ pc[b][Lab] \in {"wait", "done"} => idx[b][Lab] > Len(Imports[Lab])
    /\ \A f \in File \ Unreadable : pc[b][f] \in {"end", "fulfil", "done"} => idx[b][f] > Len(Imports[f])
    /\ cache[b] \subseteq Reachable

\* A file has been parsed or has made an error by the time its task ends.
ParsedOrError(b) ==
    /\ parsed[b] = {f \in File \ Unreadable :
                       pc[b][f] \in {"look", "count", "push", "end", "fulfil", "done"}}
    /\ \A f \in Unreadable : pc[b][f] \notin {"look", "count", "push"}
    /\ hasErrors[b] <=> \E f \in Unreadable : pc[b][f] \in {"end", "fulfil", "done"}

\* The importer has its verdict from what is known at the end.
VerdictAtEnd(b) ==
    verdict[b] # "none" =>
        /\ promised[b] /\ pc[b][Lab] = "done"
        /\ ~early[b] => (verdict[b] = "failed" <=> hasErrors[b])

\* The queue holds the tasks that wait for a thread, each once.
QueueOfTasks ==
    /\ \A k \in 1 .. Len(queue) : pc[queue[k][1]][queue[k][2]] = "queued"
    /\ \A j, k \in 1 .. Len(queue) : queue[j] = queue[k] => j = k
    /\ \A b \in Build, f \in File :
          pc[b][f] = "queued" => \E k \in 1 .. Len(queue) : queue[k] = <<b, f>>

\* The invariant of the import of one build.lab.
BuildInv(b) ==
    /\ Roles(b) /\ HandedOnce(b) /\ HandedRight(b) /\ CounterRight(b) /\ FulfilOnce(b)
    /\ LookedAt(b) /\ ParsedOrError(b) /\ VerdictAtEnd(b)

\* The inductive invariant: each import by itself, and the queue they share.
IInv == TypeOK /\ QueueOfTasks /\ \A b \in Build : BuildInv(b)


-----------------------------------------------------------------------------
\* Lemmas about the steps and the data.

\* Nothing of the import of c changes.
Same(c) ==
    /\ pc'[c] = pc[c] /\ idx'[c] = idx[c] /\ cache'[c] = cache[c]
    /\ outstanding'[c] = outstanding[c] /\ promised'[c] = promised[c]
    /\ hasErrors'[c] = hasErrors[c] /\ parsed'[c] = parsed[c]
    /\ verdict'[c] = verdict[c] /\ handed'[c] = handed[c] /\ early'[c] = early[c]

\* An import is not touched by what another build.lab's tasks do.
LEMMA SameKeeps == ASSUME NEW c \in Build, Same(c), BuildInv(c) PROVE BuildInv(c)'
<1>1. Outstanding(c)' = Outstanding(c)
    BY DEF Same, Outstanding, Target
<1>2. Roles(c)' /\ HandedOnce(c)'
    BY DEF Same, BuildInv, Roles, HandedOnce, Handing, Target
<1>3. CounterRight(c)' /\ LookedAt(c)'
    BY <1>1 DEF Same, BuildInv, CounterRight, Fallen, LookedAt
<1>4. ParsedOrError(c)' /\ VerdictAtEnd(c)'
    BY DEF Same, BuildInv, ParsedOrError, VerdictAtEnd
<1>5. HandedRight(c)' /\ FulfilOnce(c)'
    BY DEF Same, BuildInv, HandedRight, FulfilOnce
<1> QED
    BY <1>2, <1>3, <1>4, <1>5 DEF BuildInv

\* A step of the import of b.
LEMMA StepOf ==
    ASSUME IInv, NEW b \in Build, TypeOK', QueueOfTasks', BuildInv(b)',
           \A c \in Build : c # b => Same(c)
    PROVE  IInv'
<1>1. ASSUME NEW c \in Build PROVE BuildInv(c)'
    BY SameKeeps DEF IInv
<1> QED
    BY <1>1 DEF IInv

\* The task of x, or the importer, goes to p; the others stay where they are.
LEMMA GoMoves ==
    ASSUME TypeOK, NEW b \in Build, NEW x \in Importer,
           NEW p \in Working \cup {"idle", "queued", "wait", "done"}, Go(b, x, p)
    PROVE  /\ pc' \in [Build -> [Importer -> Working \cup {"idle", "queued", "wait", "done"}]]
           /\ pc'[b][x] = p
           /\ \A y \in Importer : y # x => pc'[b][y] = pc[b][y]
           /\ \A c \in Build : c # b => pc'[c] = pc[c]
<1> DEFINE P == Working \cup {"idle", "queued", "wait", "done"}
<1>1. pc \in [Build -> [Importer -> P]]
    BY DEF TypeOK
<1>2. pc' = [pc EXCEPT ![b] = [pc[b] EXCEPT ![x] = p]]
    BY DEF Go
<1> HIDE DEF P
<1>3. p \in P
    BY DEF P
<1>4. [pc[b] EXCEPT ![x] = p] \in [Importer -> P]
    BY <1>1, <1>3
<1> QED
    BY <1>1, <1>2, <1>4 DEF P

\* The import that x's loop is at is a file.
LEMMA TargetIsFile ==
    ASSUME TypeOK, NEW b \in Build, NEW x \in Importer, idx[b][x] <= Len(Imports[x])
    PROVE  /\ idx[b][x] \in 1 .. Len(Imports[x])
           /\ Target(b, x) \in File
           /\ Target(b, x) = Imports[x][idx[b][x]]
<1>1. idx[b][x] \in Nat \ {0}
    BY DEF TypeOK
<1>2. Imports[x] \in Seq(File) /\ Len(Imports[x]) \in Nat
    BY ConstantsAssumption, LenProperties
<1>3. idx[b][x] \in 1 .. Len(Imports[x])
    BY <1>1, <1>2
<1> QED
    BY <1>2, <1>3, ElementOfSeq DEF Target

\* A loop moves to the next import.
LEMMA NextImport ==
    ASSUME TypeOK, NEW b \in Build, NEW x \in Importer,
           idx' = [idx EXCEPT ![b][x] = @ + 1]
    PROVE  /\ idx' \in [Build -> [Importer -> Nat \ {0}]]
           /\ idx[b][x] \in Nat /\ idx'[b][x] = idx[b][x] + 1
           /\ \A y \in Importer : y # x => idx'[b][y] = idx[b][y]
           /\ \A c \in Build : c # b => idx'[c] = idx[c]
<1> DEFINE n == idx[b][x] + 1
<1>1. idx \in [Build -> [Importer -> Nat \ {0}]]
    BY DEF TypeOK
<1>2. idx' = [idx EXCEPT ![b] = [idx[b] EXCEPT ![x] = n]]
    OBVIOUS
<1>3. idx[b] \in [Importer -> Nat \ {0}] /\ idx[b][x] \in Nat /\ n \in Nat \ {0}
    BY <1>1
<1> HIDE DEF n
<1>4. [idx[b] EXCEPT ![x] = n] \in [Importer -> Nat \ {0}]
    BY <1>3
<1>5. /\ idx' \in [Build -> [Importer -> Nat \ {0}]]
      /\ idx'[b][x] = n
      /\ \A y \in Importer : y # x => idx'[b][y] = idx[b][y]
      /\ \A c \in Build : c # b => idx'[c] = idx[c]
    BY <1>1, <1>2, <1>3, <1>4
<1> QED
    BY <1>3, <1>5 DEF n

\* What build.lab imports can be reached, and what a readable file that can be
\* reached imports.
LEMMA ReachableClosed ==
    /\ \A i \in 1 .. Len(Imports[Lab]) : Imports[Lab][i] \in Reachable
    /\ \A g \in Reachable \ Unreadable :
          \A i \in 1 .. Len(Imports[g]) : Imports[g][i] \in Reachable
<1>1. \A x \in Importer : \A i \in 1 .. Len(Imports[x]) : Imports[x][i] \in File
    BY ConstantsAssumption, ElementOfSeq DEF Importer
<1>2. ASSUME NEW i \in 1 .. Len(Imports[Lab]) PROVE Imports[Lab][i] \in Reachable
    BY <1>1, <1>2 DEF Reachable, Importer
<1>3. ASSUME NEW g \in Reachable \ Unreadable, NEW i \in 1 .. Len(Imports[g])
      PROVE  Imports[g][i] \in Reachable
  <2>1. g \in File /\ Imports[g][i] \in File
      BY <1>1, <1>3 DEF Reachable, Importer
  <2>2. ASSUME NEW S \in SUBSET File,
               \A j \in 1 .. Len(Imports[Lab]) : Imports[Lab][j] \in S,
               \A h \in S \ Unreadable : \A j \in 1 .. Len(Imports[h]) : Imports[h][j] \in S
        PROVE  Imports[g][i] \in S
    <3>1. g \in S
        BY <2>2, <1>3 DEF Reachable
    <3> QED
        BY <3>1, <2>2, <1>3
  <2> QED
      BY <2>1, <2>2 DEF Reachable
<1> QED
    BY <1>2, <1>3

\* And nothing that is not in a set that is closed like that.
LEMMA ReachableLeast ==
    ASSUME NEW S \in SUBSET File,
           \A i \in 1 .. Len(Imports[Lab]) : Imports[Lab][i] \in S,
           \A g \in S \ Unreadable : \A i \in 1 .. Len(Imports[g]) : Imports[g][i] \in S
    PROVE  Reachable \subseteq S
    BY DEF Reachable

\* The tasks that wait for a thread are the same.
LEMMA QueueKept ==
    ASSUME TypeOK, QueueOfTasks, UNCHANGED queue, NEW b \in Build,
           \A f \in File : pc'[b][f] = "queued" <=> pc[b][f] = "queued",
           \A c \in Build : c # b => pc'[c] = pc[c]
    PROVE  QueueOfTasks'
<1>1. \A k \in 1 .. Len(queue) : queue[k] \in Build \X File
    BY ElementOfSeq DEF TypeOK
<1>2. \A c \in Build, f \in File : pc'[c][f] = "queued" <=> pc[c][f] = "queued"
    OBVIOUS
<1> QED
    BY <1>1, <1>2 DEF QueueOfTasks

\* What has been parsed and what failed is as it was.
LEMMA ParsedKept ==
    ASSUME NEW b \in Build, ParsedOrError(b), UNCHANGED <<parsed, hasErrors>>,
           \A f \in File :
              \A S \in {{"look", "count", "push"}, {"end", "fulfil", "done"}} : pc'[b][f] \in S <=> pc[b][f] \in S
    PROVE  ParsedOrError(b)'
<1>1. \A f \in File : /\ pc'[b][f] \in {"look", "count", "push"} <=> pc[b][f] \in {"look", "count", "push"}
                      /\ pc'[b][f] \in {"end", "fulfil", "done"} <=> pc[b][f] \in {"end", "fulfil", "done"}
    OBVIOUS
<1>2. \A f \in File : pc'[b][f] \in {"look", "count", "push", "end", "fulfil", "done"}
                      <=> pc[b][f] \in {"look", "count", "push", "end", "fulfil", "done"}
    BY <1>1
<1>3. {f \in File \ Unreadable : pc'[b][f] \in {"look", "count", "push", "end", "fulfil", "done"}}
      = {f \in File \ Unreadable : pc[b][f] \in {"look", "count", "push", "end", "fulfil", "done"}}
    BY <1>2
<1> QED
    BY <1>1, <1>3, ConstantsAssumption DEF ParsedOrError

\* No task begins, so none is given to the pool.
LEMMA HandedKept ==
    ASSUME NEW b \in Build, HandedRight(b), UNCHANGED handed,
           \A f \in File : pc'[b][f] = "idle" <=> pc[b][f] = "idle"
    PROVE  HandedRight(b)'
    BY DEF HandedRight

\* The tasks about to fulfil the promise are the same.
LEMMA FulfilKept ==
    ASSUME NEW b \in Build, FulfilOnce(b), UNCHANGED promised, early[b] => early'[b],
           \A f \in File : pc'[b][f] = "fulfil" <=> pc[b][f] = "fulfil"
    PROVE  FulfilOnce(b)' /\ (Fallen(b)' <=> Fallen(b))
    BY DEF FulfilOnce, Fallen

-----------------------------------------------------------------------------
\* Nobody has handed anything out.
LEMMA InitIInv == Init => IInv
<1> SUFFICES ASSUME Init PROVE IInv
    OBVIOUS
<1>1. TypeOK
    BY DEF Init, TypeOK, Importer
<1>2. Len(queue) = 0
    BY DEF Init
<1>3. QueueOfTasks
    BY <1>2 DEF Init, QueueOfTasks, Importer
<1>4. ASSUME NEW b \in Build PROVE BuildInv(b)
  <2>1. /\ \A x \in Importer : pc[b][x] = "idle" /\ idx[b][x] = 1
        /\ cache[b] = {} /\ outstanding[b] = 0 /\ ~promised[b] /\ ~hasErrors[b]
        /\ parsed[b] = {} /\ verdict[b] = "none" /\ \A f \in File : handed[b][f] = 0
      BY DEF Init
  <2>2. Outstanding(b) = {} /\ File \subseteq Importer /\ Lab \in Importer
      BY <2>1 DEF Outstanding, Importer
  <2>3. CounterRight(b)
      BY <2>1, <2>2, FS_EmptySet DEF CounterRight
  <2>4. LookedAt(b)
      BY <2>1, <2>2 DEF LookedAt
  <2>5. Roles(b) /\ HandedOnce(b)
      BY <2>1, <2>2 DEF Roles, HandedOnce, Handing
  <2>7. HandedRight(b) /\ FulfilOnce(b)
      BY <2>1, <2>2 DEF HandedRight, FulfilOnce
  <2>6. ParsedOrError(b)
    <3>1. \A f \in File : pc[b][f] = "idle"
        BY <2>1, <2>2
    <3>2. {f \in File \ Unreadable :
              pc[b][f] \in {"look", "count", "push", "end", "fulfil", "done"}} = {}
        BY <3>1
    <3> QED
        BY <3>1, <3>2, <2>1, ConstantsAssumption DEF ParsedOrError
  <2> QED
      BY <2>1, <2>3, <2>4, <2>5, <2>6, <2>7 DEF BuildInv, VerdictAtEnd
<1> QED
    BY <1>1, <1>3, <1>4 DEF IInv

-----------------------------------------------------------------------------
\* import_chemical_files_recursive.

\* The loop skips a file that the processor knows.
LEMMA SkipIInv ==
    ASSUME IInv, NEW b \in Build, NEW x \in Importer, LookUp(b, x), Target(b, x) \in cache[b]
    PROVE  IInv'
<1> USE DEF IInv
<1>1. /\ pc[b][x] = "look" /\ idx[b][x] <= Len(Imports[x])
      /\ idx' = [idx EXCEPT ![b][x] = @ + 1]
      /\ UNCHANGED <<queue, pc, cache, outstanding, promised, hasErrors, parsed, verdict, handed, early>>
    BY DEF LookUp, AtImport, state
<1>2. /\ idx' \in [Build -> [Importer -> Nat \ {0}]]
      /\ idx[b][x] \in Nat /\ idx'[b][x] = idx[b][x] + 1
      /\ \A y \in Importer : y # x => idx'[b][y] = idx[b][y]
      /\ \A c \in Build : c # b => idx'[c] = idx[c]
    BY <1>1, NextImport
<1>3. TypeOK'
    BY <1>1, <1>2 DEF TypeOK
<1>4. QueueOfTasks'
    BY <1>1 DEF QueueOfTasks
<1>5. File \subseteq Importer /\ Lab \in Importer
    BY DEF Importer
<1>6. \A y \in Importer : Handing(b, y) => y # x
    BY <1>1 DEF Handing
<1>7. \A y \in Importer : Handing(b, y) => Target(b, y)' = Target(b, y)
    BY <1>2, <1>6 DEF Target
<1>8. Roles(b)' /\ HandedOnce(b)'
  <2>1. \A y \in Importer : Handing(b, y)' <=> Handing(b, y)
      BY <1>1 DEF Handing
  <2> QED
      BY <2>1, <1>1, <1>2, <1>6, <1>7 DEF BuildInv, Roles, HandedOnce
<1>13. HandedRight(b)' /\ FulfilOnce(b)' /\ (Fallen(b)' <=> Fallen(b))
    BY <1>1, HandedKept, FulfilKept DEF BuildInv
<1>9. CounterRight(b)'
  <2>1. Outstanding(b)' = Outstanding(b)
      BY <1>1, <1>7 DEF Outstanding, Handing
  <2> QED
      BY <2>1, <1>1, <1>13 DEF BuildInv, CounterRight
<1>10. LookedAt(b)'
  <2>1. \A y \in Importer : \A i \in 1 .. Len(Imports[y]) :
            i < idx'[b][y] => i < idx[b][y] \/ (y = x /\ i = idx[b][x])
      BY <1>2
  <2>2. Imports[x][idx[b][x]] \in cache[b]
      BY DEF Target
  <2>3. \A y \in Importer : \A i \in 1 .. Len(Imports[y]) :
            i < idx'[b][y] => Imports[y][i] \in cache[b]
      BY <2>1, <2>2 DEF BuildInv, LookedAt
  <2> QED
      BY <2>3, <1>1, <1>2, <1>5 DEF BuildInv, LookedAt
<1>11. ParsedOrError(b)' /\ VerdictAtEnd(b)'
    BY <1>1 DEF BuildInv, ParsedOrError, VerdictAtEnd
<1>12. \A c \in Build : c # b => Same(c)
    BY <1>1, <1>2 DEF Same
<1> QED
    BY <1>3, <1>4, <1>8, <1>9, <1>10, <1>11, <1>12, <1>13, StepOf DEF BuildInv

\* Or enters it, and is about to hand it out.
LEMMA EnterIInv ==
    ASSUME IInv, NEW b \in Build, NEW x \in Importer, LookUp(b, x), Target(b, x) \notin cache[b]
    PROVE  IInv'
<1> USE DEF IInv
<1> DEFINE t == Target(b, x)
<1>1. /\ pc[b][x] = "look" /\ idx[b][x] <= Len(Imports[x])
      /\ cache' = [cache EXCEPT ![b] = @ \cup {t}]
      /\ Go(b, x, "count")
      /\ UNCHANGED <<queue, idx, outstanding, promised, hasErrors, parsed, verdict, handed, early>>
    BY DEF LookUp, AtImport, state
<1>2. /\ idx[b][x] \in 1 .. Len(Imports[x]) /\ t \in File /\ t = Imports[x][idx[b][x]]
    BY <1>1, TargetIsFile
<1>3. /\ pc' \in [Build -> [Importer -> Working \cup {"idle", "queued", "wait", "done"}]]
      /\ pc'[b][x] = "count"
      /\ \A y \in Importer : y # x => pc'[b][y] = pc[b][y]
      /\ \A c \in Build : c # b => pc'[c] = pc[c]
    BY <1>1, GoMoves DEF Working
<1>4. cache'[b] = cache[b] \cup {t} /\ \A c \in Build : c # b => cache'[c] = cache[c]
    BY <1>1 DEF TypeOK
<1>5. File \subseteq Importer /\ Lab \in Importer /\ Lab \notin File
    BY ConstantsAssumption DEF Importer
<1>6. TypeOK'
    BY <1>1, <1>2, <1>3 DEF TypeOK
<1>7. QueueOfTasks'
    BY <1>1, <1>3, <1>5, QueueKept
<1>8. \A y \in Importer : Target(b, y)' = Target(b, y)
    BY <1>1 DEF Target
<1>9. t \notin cache[b]
    OBVIOUS
<1> HIDE DEF t
<1>10. pc[b][t] = "idle" /\ t # x
    BY <1>1, <1>2, <1>9 DEF BuildInv, HandedOnce
<1>11. \A y \in Importer : Handing(b, y)' <=> Handing(b, y) \/ y = x
    BY <1>3 DEF Handing
<1>12. \A y \in Importer : Handing(b, y) => Target(b, y) # t
    BY <1>9 DEF BuildInv, HandedOnce
<1>13. Target(b, x) = t
    BY DEF t
<1>14. Roles(b)'
    BY <1>1, <1>3, <1>5 DEF BuildInv, Roles
<1>15. HandedOnce(b)'
  <2>1. ASSUME NEW y \in Importer, Handing(b, y)'
        PROVE  /\ idx[b][y] <= Len(Imports[y])
               /\ Target(b, y) \in cache'[b] /\ pc'[b][Target(b, y)] = "idle"
    <3>1. CASE y = x
        BY <3>1, <1>1, <1>2, <1>3, <1>4, <1>5, <1>10, <1>13
    <3>2. CASE y # x
      <4>1. /\ idx[b][y] <= Len(Imports[y])
            /\ Target(b, y) \in cache[b] /\ pc[b][Target(b, y)] = "idle"
          BY <2>1, <3>2, <1>11 DEF BuildInv, HandedOnce
      <4>2. Target(b, y) \in File
          BY <4>1, TargetIsFile
      <4> QED
          BY <4>1, <4>2, <1>1, <1>3, <1>4, <1>5
    <3> QED
        BY <3>1, <3>2
  <2>2. \A y, z \in Importer :
            Handing(b, y)' /\ Handing(b, z)' /\ Target(b, y) = Target(b, z) => y = z
      BY <1>11, <1>12, <1>13 DEF BuildInv, HandedOnce
  <2>3. \A f \in File : pc'[b][f] # "idle" => f \in cache'[b]
      BY <1>1, <1>3, <1>4, <1>5 DEF BuildInv, HandedOnce
  <2>4. \A f \in cache'[b] :
            pc'[b][f] # "idle" \/ \E y \in Importer : Handing(b, y)' /\ Target(b, y) = f
    <3>1. ASSUME NEW f \in cache[b]
          PROVE  pc'[b][f] # "idle" \/ \E y \in Importer : Handing(b, y)' /\ Target(b, y) = f
      <4>1. f \in Importer
          BY <3>1, <1>5 DEF TypeOK
      <4>2. CASE pc[b][f] # "idle"
          BY <4>1, <4>2, <1>3
      <4>3. CASE pc[b][f] = "idle"
          BY <4>3, <3>1, <1>11 DEF BuildInv, HandedOnce
      <4> QED
          BY <4>2, <4>3
    <3> QED
        BY <3>1, <1>4, <1>11, <1>13
  <2> QED
      BY <2>1, <2>2, <2>3, <2>4, <1>1, <1>8 DEF HandedOnce
<1>21. HandedRight(b)' /\ FulfilOnce(b)' /\ (Fallen(b)' <=> Fallen(b))
  <2>1. \A f \in File : /\ pc'[b][f] = "idle" <=> pc[b][f] = "idle"
                        /\ pc'[b][f] = "fulfil" <=> pc[b][f] = "fulfil"
      BY <1>1, <1>3, <1>5
  <2> QED
      BY <2>1, <1>1, HandedKept, FulfilKept DEF BuildInv
<1>16. CounterRight(b)'
  <2>1. Outstanding(b)' = Outstanding(b)
    <3>1. \A f \in File : pc'[b][f] \notin {"idle", "fulfil", "done"} <=> pc[b][f] \notin {"idle", "fulfil", "done"}
        BY <1>1, <1>3, <1>5
    <3>2. \A y \in Importer : pc'[b][y] = "push" <=> pc[b][y] = "push"
        BY <1>1, <1>3
    <3> QED
        BY <3>1, <3>2, <1>8 DEF Outstanding
  <2> QED
      BY <2>1, <1>1, <1>21 DEF BuildInv, CounterRight
<1>17. LookedAt(b)'
  <2>1. t \in Reachable
    <3>1. CASE x = Lab
        BY <3>1, <1>2, ReachableClosed
    <3>2. CASE x # Lab
      <4>1. x \in File
          BY <3>2 DEF Importer
      <4>2. x \in Reachable \ Unreadable
          BY <4>1, <1>1 DEF BuildInv, HandedOnce, LookedAt, ParsedOrError
      <4> QED
          BY <4>2, <1>2, ReachableClosed
    <3> QED
        BY <3>1, <3>2
  <2>2. \A f \in File \ Unreadable : pc'[b][f] \in {"end", "fulfil", "done"} => idx[b][f] > Len(Imports[f])
      BY <1>3, <1>5 DEF BuildInv, LookedAt
  <2>3. pc'[b][Lab] \in {"wait", "done"} => idx[b][Lab] > Len(Imports[Lab])
      BY <1>3, <1>5 DEF BuildInv, LookedAt
  <2> QED
      BY <2>1, <2>2, <2>3, <1>1, <1>4 DEF BuildInv, LookedAt
<1>18. ParsedOrError(b)'
  <2>1. \A f \in File :
           \A S \in {{"look", "count", "push"}, {"end", "fulfil", "done"}} : pc'[b][f] \in S <=> pc[b][f] \in S
      BY <1>1, <1>3, <1>5
  <2> QED
      BY <2>1, <1>1, ParsedKept DEF BuildInv
<1>19. VerdictAtEnd(b)'
    BY <1>1, <1>3, <1>5 DEF BuildInv, VerdictAtEnd
<1>20. \A c \in Build : c # b => Same(c)
    BY <1>1, <1>3, <1>4 DEF Same
<1> QED
    BY <1>6, <1>7, <1>14, <1>15, <1>16, <1>17, <1>18, <1>19, <1>20, <1>21, StepOf DEF BuildInv

\* pushed_task.
LEMMA CountIInv ==
    ASSUME IInv, NEW b \in Build, NEW x \in Importer, Count(b, x)
    PROVE  IInv'
<1> USE DEF IInv
<1> DEFINE t == Target(b, x)
<1>1. /\ pc[b][x] = "count" /\ Go(b, x, "push")
      /\ outstanding' = [outstanding EXCEPT ![b] = @ + 1]
      /\ early' = [early EXCEPT ![b] = @ \/ Fallen(b)]
      /\ UNCHANGED <<queue, idx, cache, promised, hasErrors, parsed, verdict, handed>>
    BY DEF Count
<1>2. Handing(b, x)
    BY <1>1 DEF Handing
<1>3. idx[b][x] <= Len(Imports[x]) /\ t \in cache[b] /\ pc[b][t] = "idle"
    BY <1>2 DEF BuildInv, HandedOnce
<1>4. t \in File /\ t # x
    BY <1>1, <1>3, TargetIsFile
<1>5. /\ pc' \in [Build -> [Importer -> Working \cup {"idle", "queued", "wait", "done"}]]
      /\ pc'[b][x] = "push"
      /\ \A y \in Importer : y # x => pc'[b][y] = pc[b][y]
      /\ \A c \in Build : c # b => pc'[c] = pc[c]
    BY <1>1, GoMoves DEF Working
<1>6. File \subseteq Importer /\ Lab \in Importer /\ Lab \notin File
    BY ConstantsAssumption DEF Importer
<1>7. /\ outstanding'[b] = outstanding[b] + 1 /\ outstanding[b] \in Int
      /\ early'[b] = (early[b] \/ Fallen(b))
      /\ \A c \in Build : c # b => outstanding'[c] = outstanding[c] /\ early'[c] = early[c]
    BY <1>1 DEF TypeOK
<1>8. TypeOK'
  <2>1. outstanding' \in [Build -> Int]
      BY <1>1, <1>7 DEF TypeOK
  <2>2. early' \in [Build -> BOOLEAN]
    <3>1. (early[b] \/ Fallen(b)) \in BOOLEAN
        BY DEF TypeOK, Fallen
    <3> QED
        BY <3>1, <1>1 DEF TypeOK
  <2> QED
      BY <2>1, <2>2, <1>1, <1>5 DEF TypeOK
<1>9. QueueOfTasks'
    BY <1>1, <1>5, <1>6, QueueKept
<1>10. \A y \in Importer : Target(b, y)' = Target(b, y)
    BY <1>1 DEF Target
<1>11. Target(b, x) = t
    OBVIOUS
<1> HIDE DEF t
<1>12. \A y \in Importer : Handing(b, y)' <=> Handing(b, y)
    BY <1>1, <1>5 DEF Handing
<1>13. Roles(b)'
    BY <1>1, <1>5, <1>6 DEF BuildInv, Roles
<1>14. \A f \in File : pc'[b][f] = "idle" <=> pc[b][f] = "idle"
    BY <1>1, <1>5, <1>6
<1>15. HandedOnce(b)'
  <2>1. \A y \in Importer : Handing(b, y) => Target(b, y) \in File
      BY TargetIsFile DEF BuildInv, HandedOnce
  <2>2. \A y \in Importer : Handing(b, y)' =>
            /\ idx'[b][y] <= Len(Imports[y])
            /\ Target(b, y)' \in cache'[b] /\ pc'[b][Target(b, y)'] = "idle"
      BY <2>1, <1>1, <1>10, <1>12, <1>14 DEF BuildInv, HandedOnce
  <2>3. \A y, z \in Importer :
            Handing(b, y)' /\ Handing(b, z)' /\ Target(b, y)' = Target(b, z)' => y = z
      BY <1>10, <1>12 DEF BuildInv, HandedOnce
  <2>4. \A f \in File : pc'[b][f] # "idle" => f \in cache'[b]
      BY <1>1, <1>14 DEF BuildInv, HandedOnce
  <2>5. \A f \in cache'[b] :
            pc'[b][f] # "idle" \/ \E y \in Importer : Handing(b, y)' /\ Target(b, y)' = f
    <3>1. ASSUME NEW f \in cache[b]
          PROVE  f \in File
                 /\ (pc[b][f] # "idle" \/ \E y \in Importer : Handing(b, y) /\ Target(b, y) = f)
        BY DEF BuildInv, HandedOnce, TypeOK
    <3> QED
        BY <3>1, <1>1, <1>10, <1>12, <1>14
  <2> QED
      BY <2>2, <2>3, <2>4, <2>5 DEF HandedOnce
<1>21. HandedRight(b)' /\ FulfilOnce(b)' /\ (Fallen(b)' <=> Fallen(b))
  <2>1. \A f \in File : pc'[b][f] = "fulfil" <=> pc[b][f] = "fulfil"
      BY <1>1, <1>5, <1>6
  <2> QED
      BY <2>1, <1>1, <1>7, <1>14, HandedKept, FulfilKept DEF BuildInv
<1>16. CounterRight(b)'
  <2>1. Outstanding(b)' = Outstanding(b) \cup {t}
    <3>1. \A f \in File : pc'[b][f] \notin {"idle", "fulfil", "done"} <=> pc[b][f] \notin {"idle", "fulfil", "done"}
        BY <1>1, <1>5, <1>6
    <3>2. \A y \in Importer : pc'[b][y] = "push" <=> pc[b][y] = "push" \/ y = x
        BY <1>1, <1>5
    <3> QED
        BY <3>1, <3>2, <1>4, <1>10, <1>11 DEF Outstanding
  <2>2. t \notin Outstanding(b)
    <3>1. ASSUME NEW y \in Importer, pc[b][y] = "push", Target(b, y) = t PROVE FALSE
      <4>1. y = x
          BY <3>1, <1>2, <1>11 DEF BuildInv, HandedOnce, Handing
      <4> QED
          BY <4>1, <3>1, <1>1
    <3> QED
        BY <3>1, <1>3 DEF Outstanding
  <2>3. IsFiniteSet(Outstanding(b)) /\ outstanding[b] = Cardinality(Outstanding(b))
      BY DEF BuildInv, CounterRight
  <2>4. IsFiniteSet(Outstanding(b)') /\ outstanding'[b] = Cardinality(Outstanding(b)')
      BY <2>1, <2>2, <2>3, <1>7, FS_AddElement
  <2>5. ~(Fallen(b)' /\ ~early'[b])
      BY <1>7, <1>21
  <2> QED
      BY <2>4, <2>5 DEF CounterRight
<1>17. LookedAt(b)'
  <2>1. \A f \in File \ Unreadable : pc'[b][f] \in {"end", "fulfil", "done"} => idx[b][f] > Len(Imports[f])
      BY <1>5, <1>6 DEF BuildInv, LookedAt
  <2>2. pc'[b][Lab] \in {"wait", "done"} => idx[b][Lab] > Len(Imports[Lab])
      BY <1>5, <1>6 DEF BuildInv, LookedAt
  <2> QED
      BY <2>1, <2>2, <1>1 DEF BuildInv, LookedAt
<1>18. ParsedOrError(b)'
  <2>1. \A f \in File :
           \A S \in {{"look", "count", "push"}, {"end", "fulfil", "done"}} : pc'[b][f] \in S <=> pc[b][f] \in S
      BY <1>1, <1>5, <1>6
  <2> QED
      BY <2>1, <1>1, ParsedKept DEF BuildInv
<1>19. VerdictAtEnd(b)'
    BY <1>1, <1>5, <1>6, <1>7 DEF BuildInv, VerdictAtEnd
<1>20. \A c \in Build : c # b => Same(c)
    BY <1>1, <1>5, <1>7 DEF Same
<1> QED
    BY <1>8, <1>9, <1>13, <1>15, <1>16, <1>17, <1>18, <1>19, <1>20, <1>21, StepOf DEF BuildInv

\* A task joins the queue at its end.
LEMMA AppendQueue ==
    ASSUME NEW s \in Seq(Build \X File), NEW e \in Build \X File, NEW r, r = Append(s, e)
    PROVE  /\ r \in Seq(Build \X File) /\ Len(s) \in Nat /\ Len(r) = Len(s) + 1
           /\ r[Len(r)] = e
           /\ \A k \in 1 .. Len(s) : r[k] = s[k] /\ s[k] \in Build \X File
    BY AppendProperties, LenProperties, ElementOfSeq

\* And leaves it at its front.
LEMMA TailQueue ==
    ASSUME NEW s \in Seq(Build \X File), s # <<>>, NEW r, r = Tail(s)
    PROVE  /\ r \in Seq(Build \X File) /\ Len(s) \in Nat \ {0} /\ Len(r) = Len(s) - 1
           /\ Head(s) = s[1]
           /\ \A k \in 1 .. Len(s) : s[k] \in Build \X File
           /\ \A k \in 1 .. Len(r) : r[k] = s[k + 1]
    BY HeadTailProperties, LenProperties, EmptySeq, ElementOfSeq

\* pool.push.
LEMMA PushIInv ==
    ASSUME IInv, NEW b \in Build, NEW x \in Importer, Push(b, x)
    PROVE  IInv'
<1> USE DEF IInv
<1> DEFINE t == Target(b, x)
<1>1. /\ pc[b][x] = "push"
      /\ queue' = Append(queue, <<b, t>>)
      /\ pc' = [pc EXCEPT ![b][x] = "look", ![b][t] = "queued"]
      /\ idx' = [idx EXCEPT ![b][x] = @ + 1]
      /\ handed' = [handed EXCEPT ![b][t] = @ + 1]
      /\ UNCHANGED <<cache, outstanding, promised, hasErrors, parsed, verdict, early>>
    BY DEF Push, state
<1>2. Handing(b, x)
    BY <1>1 DEF Handing
<1>3. idx[b][x] <= Len(Imports[x]) /\ t \in cache[b] /\ pc[b][t] = "idle"
    BY <1>2 DEF BuildInv, HandedOnce
<1>4. t \in File /\ t # x /\ idx[b][x] \in 1 .. Len(Imports[x]) /\ Imports[x][idx[b][x]] = t
    BY <1>1, <1>3, TargetIsFile
<1>5. File \subseteq Importer /\ Lab \in Importer /\ Lab \notin File
    BY ConstantsAssumption DEF Importer
<1>6. Target(b, x) = t
    OBVIOUS
<1> HIDE DEF t
<1>7. /\ pc' \in [Build -> [Importer -> Working \cup {"idle", "queued", "wait", "done"}]]
      /\ pc'[b][x] = "look" /\ pc'[b][t] = "queued"
      /\ \A y \in Importer : y # x /\ y # t => pc'[b][y] = pc[b][y]
      /\ \A c \in Build : c # b => pc'[c] = pc[c]
  <2> DEFINE P == Working \cup {"idle", "queued", "wait", "done"}
  <2>1. pc \in [Build -> [Importer -> P]] /\ "look" \in P /\ "queued" \in P
      BY DEF TypeOK, Working
  <2>2. pc' = [pc EXCEPT ![b] = [[pc[b] EXCEPT ![x] = "look"] EXCEPT ![t] = "queued"]]
      BY <1>1, <2>1
  <2> HIDE DEF P
  <2>3. t \in Importer
      BY <1>4, <1>5
  <2>4. [[pc[b] EXCEPT ![x] = "look"] EXCEPT ![t] = "queued"] \in [Importer -> P]
      BY <2>1, <2>3
  <2> QED
      BY <1>4, <2>1, <2>2, <2>3, <2>4 DEF P
<1>8. /\ idx' \in [Build -> [Importer -> Nat \ {0}]]
      /\ idx[b][x] \in Nat /\ idx'[b][x] = idx[b][x] + 1
      /\ \A y \in Importer : y # x => idx'[b][y] = idx[b][y]
      /\ \A c \in Build : c # b => idx'[c] = idx[c]
    BY <1>1, NextImport
<1>9. /\ queue' \in Seq(Build \X File) /\ Len(queue) \in Nat /\ Len(queue') = Len(queue) + 1
      /\ queue'[Len(queue')] = <<b, t>>
      /\ \A k \in 1 .. Len(queue) : queue'[k] = queue[k] /\ queue[k] \in Build \X File
  <2>1. queue \in Seq(Build \X File) /\ <<b, t>> \in Build \X File
      BY <1>4 DEF TypeOK
  <2>2. queue' = Append(queue, <<b, t>>)
      BY <1>1
  <2> QED
      BY <2>1, <2>2, AppendQueue
<1>22. /\ handed' \in [Build -> [File -> Nat]]
       /\ handed'[b][t] = handed[b][t] + 1 /\ handed[b][t] \in Nat
       /\ \A f \in File : f # t => handed'[b][f] = handed[b][f]
       /\ \A c \in Build : c # b => handed'[c] = handed[c]
    BY <1>1, <1>4 DEF TypeOK
<1>10. TypeOK'
    BY <1>1, <1>7, <1>8, <1>9, <1>22 DEF TypeOK
<1>11. QueueOfTasks'
  <2>1. \A k \in 1 .. Len(queue') : k \in 1 .. Len(queue) \/ k = Len(queue')
      BY <1>9
  <2>2. \A c \in Build, f \in File :
            pc'[c][f] = "queued" <=> pc[c][f] = "queued" \/ (c = b /\ f = t)
      BY <1>1, <1>4, <1>5, <1>7
  <2>3. \A k \in 1 .. Len(queue) : queue[k] # <<b, t>>
      BY <1>3, <1>9 DEF QueueOfTasks
  <2>4. \A k \in 1 .. Len(queue') : pc'[queue'[k][1]][queue'[k][2]] = "queued"
    <3>1. \A k \in 1 .. Len(queue) : pc'[queue[k][1]][queue[k][2]] = "queued"
        BY <2>2, <1>9 DEF QueueOfTasks
    <3>2. pc'[queue'[Len(queue')][1]][queue'[Len(queue')][2]] = "queued"
        BY <1>7, <1>9
    <3> QED
        BY <3>1, <3>2, <2>1, <1>9
  <2>5. \A j, k \in 1 .. Len(queue') : queue'[j] = queue'[k] => j = k
      BY <2>1, <2>3, <1>9 DEF QueueOfTasks
  <2>6. ASSUME NEW c \in Build, NEW f \in File, pc'[c][f] = "queued"
        PROVE  \E k \in 1 .. Len(queue') : queue'[k] = <<c, f>>
    <3>1. CASE pc[c][f] = "queued"
      <4>1. PICK k \in 1 .. Len(queue) : queue[k] = <<c, f>>
          BY <3>1 DEF QueueOfTasks
      <4> QED
          BY <4>1, <1>9
    <3>2. CASE c = b /\ f = t
        BY <3>2, <1>9
    <3> QED
        BY <3>1, <3>2, <2>6, <2>2
  <2> QED
      BY <2>4, <2>5, <2>6 DEF QueueOfTasks
<1>12. \A y \in Importer : Handing(b, y)' <=> Handing(b, y) /\ y # x
    BY <1>3, <1>7 DEF Handing
<1>13. \A y \in Importer : y # x => Target(b, y)' = Target(b, y)
    BY <1>8 DEF Target
<1>14. \A y \in Importer : Handing(b, y) /\ y # x => Target(b, y) # t
    BY <1>2, <1>6 DEF BuildInv, HandedOnce
<1>15. Roles(b)'
    BY <1>1, <1>4, <1>5, <1>7 DEF BuildInv, Roles
<1>16. HandedOnce(b)'
  <2>1. ASSUME NEW y \in Importer, Handing(b, y)'
        PROVE  /\ idx'[b][y] <= Len(Imports[y])
               /\ Target(b, y)' \in cache'[b] /\ pc'[b][Target(b, y)'] = "idle"
    <3>1. Handing(b, y) /\ y # x /\ Target(b, y)' = Target(b, y) /\ Target(b, y) # t
        BY <2>1, <1>12, <1>13, <1>14
    <3>2. /\ idx[b][y] <= Len(Imports[y])
          /\ Target(b, y) \in cache[b] /\ pc[b][Target(b, y)] = "idle"
        BY <3>1 DEF BuildInv, HandedOnce
    <3>3. Target(b, y) \in File
        BY <3>2, TargetIsFile
    <3> QED
        BY <3>1, <3>2, <3>3, <1>1, <1>5, <1>7, <1>8
  <2>2. \A y, z \in Importer :
            Handing(b, y)' /\ Handing(b, z)' /\ Target(b, y)' = Target(b, z)' => y = z
      BY <1>12, <1>13 DEF BuildInv, HandedOnce
  <2>3. \A f \in File : pc'[b][f] # "idle" => f \in cache'[b]
      BY <1>1, <1>3, <1>5, <1>7 DEF BuildInv, HandedOnce
  <2>4. \A f \in cache'[b] :
            pc'[b][f] # "idle" \/ \E y \in Importer : Handing(b, y)' /\ Target(b, y)' = f
    <3>1. ASSUME NEW f \in cache[b]
          PROVE  f \in File
                 /\ (pc[b][f] # "idle" \/ \E y \in Importer : Handing(b, y) /\ Target(b, y) = f)
        BY DEF BuildInv, HandedOnce, TypeOK
    <3>2. ASSUME NEW f \in cache[b]
          PROVE pc'[b][f] # "idle" \/ \E y \in Importer : Handing(b, y)' /\ Target(b, y)' = f
      <4>1. CASE f = t \/ f = x
          BY <4>1, <1>7
      <4>2. CASE f # t /\ f # x /\ pc[b][f] # "idle"
          BY <4>2, <3>1, <1>5, <1>7
      <4>3. CASE f # t /\ pc[b][f] = "idle"
        <5>1. PICK y \in Importer : Handing(b, y) /\ Target(b, y) = f
            BY <4>3, <3>1
        <5>2. y # x
            BY <5>1, <4>3, <1>6
        <5> QED
            BY <5>1, <5>2, <1>12, <1>13
      <4> QED
          BY <4>1, <4>2, <4>3
    <3> QED
        BY <3>2, <1>1
  <2> QED
      BY <2>1, <2>2, <2>3, <2>4 DEF HandedOnce
<1>23. HandedRight(b)'
  <2>1. \A f \in File : pc'[b][f] = "idle" <=> pc[b][f] = "idle" /\ f # t
      BY <1>1, <1>4, <1>5, <1>7
  <2> QED
      BY <2>1, <1>3, <1>4, <1>22 DEF BuildInv, HandedRight
<1>24. FulfilOnce(b)' /\ (Fallen(b)' <=> Fallen(b))
  <2>1. \A f \in File : pc'[b][f] = "fulfil" <=> pc[b][f] = "fulfil"
      BY <1>1, <1>3, <1>5, <1>7
  <2> QED
      BY <2>1, <1>1, FulfilKept DEF BuildInv
<1>17. CounterRight(b)'
  <2>1. Outstanding(b)' = Outstanding(b)
    <3>1. \A f \in File : pc'[b][f] \notin {"idle", "fulfil", "done"}
                          <=> pc[b][f] \notin {"idle", "fulfil", "done"} \/ f = t
        BY <1>1, <1>5, <1>7
    <3>2. \A y \in Importer : pc'[b][y] = "push" <=> pc[b][y] = "push" /\ y # x
        BY <1>3, <1>7
    <3>3. \A f \in File : (\E y \in Importer : pc'[b][y] = "push" /\ f = Target(b, y)')
                          => (\E y \in Importer : pc[b][y] = "push" /\ f = Target(b, y))
        BY <3>2, <1>13
    <3>4. \A f \in File : (\E y \in Importer : pc[b][y] = "push" /\ f = Target(b, y))
                          => f = t \/ (\E y \in Importer : pc'[b][y] = "push" /\ f = Target(b, y)')
        BY <3>2, <1>6, <1>13
    <3>5. \E y \in Importer : pc[b][y] = "push" /\ t = Target(b, y)
        BY <1>1, <1>6
    <3> QED
        BY <3>1, <3>3, <3>4, <3>5 DEF Outstanding
  <2> QED
      BY <2>1, <1>1, <1>24 DEF BuildInv, CounterRight
<1>18. LookedAt(b)'
  <2>1. \A y \in Importer : \A i \in 1 .. Len(Imports[y]) :
            i < idx'[b][y] => i < idx[b][y] \/ (y = x /\ i = idx[b][x])
      BY <1>8
  <2>2. \A y \in Importer : \A i \in 1 .. Len(Imports[y]) :
            i < idx'[b][y] => Imports[y][i] \in cache[b]
      BY <2>1, <1>3, <1>4 DEF BuildInv, LookedAt
  <2>3. \A f \in File \ Unreadable : pc'[b][f] \in {"end", "fulfil", "done"} => idx'[b][f] > Len(Imports[f])
      BY <1>5, <1>7, <1>8 DEF BuildInv, LookedAt
  <2>4. pc'[b][Lab] \in {"wait", "done"} => idx'[b][Lab] > Len(Imports[Lab])
      BY <1>4, <1>5, <1>7, <1>8 DEF BuildInv, LookedAt
  <2> QED
      BY <2>2, <2>3, <2>4, <1>1 DEF BuildInv, LookedAt
<1>19. ParsedOrError(b)'
  <2>1. \A f \in File :
           \A S \in {{"look", "count", "push"}, {"end", "fulfil", "done"}} : pc'[b][f] \in S <=> pc[b][f] \in S
      BY <1>1, <1>3, <1>5, <1>7
  <2> QED
      BY <2>1, <1>1, ParsedKept DEF BuildInv
<1>20. VerdictAtEnd(b)'
    BY <1>1, <1>4, <1>5, <1>7 DEF BuildInv, VerdictAtEnd
<1>21. \A c \in Build : c # b => Same(c)
    BY <1>1, <1>7, <1>8, <1>22 DEF Same
<1> QED
    BY <1>10, <1>11, <1>15, <1>16, <1>17, <1>18, <1>19, <1>20, <1>21, <1>23, <1>24, StepOf DEF BuildInv

-----------------------------------------------------------------------------
\* Steps that hand nothing out: x moves on, from and to somewhere else.
Quiet(b, x, p) ==
    /\ pc[b][x] \notin {"count", "push", "done"} /\ p \notin {"idle", "count", "push"}
    /\ x \in File => pc[b][x] # "idle"
    /\ pc[b][x] = "fulfil" => p = "done"
    /\ pc' \in [Build -> [Importer -> Working \cup {"idle", "queued", "wait", "done"}]]
    /\ pc'[b][x] = p
    /\ \A y \in Importer : y # x => pc'[b][y] = pc[b][y]
    /\ \A c \in Build : c # b => pc'[c] = pc[c]
    /\ UNCHANGED <<idx, cache>>

\* They leave what is handed out, and to whom, as it is.
LEMMA QuietKeeps ==
    ASSUME IInv, NEW b \in Build, NEW x \in Importer, NEW p, Quiet(b, x, p)
    PROVE  /\ HandedOnce(b)' /\ (UNCHANGED handed => HandedRight(b)')
           /\ Outstanding(b)' = IF p \in {"fulfil", "done"} THEN Outstanding(b) \ {x} ELSE Outstanding(b)
<1> USE DEF IInv
<1>1. File \subseteq Importer /\ Lab \in Importer /\ Lab \notin File
    BY ConstantsAssumption DEF Importer
<1>2. \A y \in Importer : /\ Handing(b, y)' <=> Handing(b, y)
                          /\ pc'[b][y] = "push" <=> pc[b][y] = "push"
                          /\ Target(b, y)' = Target(b, y)
    BY DEF Quiet, Handing, Target
<1>3. \A f \in File : pc'[b][f] = "idle" <=> pc[b][f] = "idle"
    BY <1>1 DEF Quiet
<1>4. \A y \in Importer : Handing(b, y) =>
          /\ idx[b][y] <= Len(Imports[y]) /\ Target(b, y) \in cache[b]
          /\ Target(b, y) \in File /\ pc[b][Target(b, y)] = "idle"
    BY TargetIsFile DEF BuildInv, HandedOnce
<1>5. HandedOnce(b)'
  <2>1. \A y \in Importer : Handing(b, y)' =>
            /\ idx'[b][y] <= Len(Imports[y])
            /\ Target(b, y)' \in cache'[b] /\ pc'[b][Target(b, y)'] = "idle"
      BY <1>2, <1>3, <1>4 DEF Quiet
  <2>2. \A y, z \in Importer :
            Handing(b, y)' /\ Handing(b, z)' /\ Target(b, y)' = Target(b, z)' => y = z
      BY <1>2 DEF BuildInv, HandedOnce
  <2>3. \A f \in File : pc'[b][f] # "idle" => f \in cache'[b]
      BY <1>3 DEF BuildInv, HandedOnce, Quiet
  <2>4. ASSUME NEW f \in cache[b]
        PROVE  pc'[b][f] # "idle" \/ \E y \in Importer : Handing(b, y)' /\ Target(b, y)' = f
    <3>1. f \in File
          /\ (pc[b][f] # "idle" \/ \E y \in Importer : Handing(b, y) /\ Target(b, y) = f)
        BY DEF BuildInv, HandedOnce, TypeOK
    <3> QED
        BY <3>1, <1>2, <1>3
  <2> QED
      BY <2>1, <2>2, <2>3, <2>4 DEF HandedOnce, Quiet
<1>6. \A f \in File : pc'[b][f] \notin {"idle", "fulfil", "done"}
          <=> \/ pc[b][f] \notin {"idle", "fulfil", "done"} /\ ~(p \in {"fulfil", "done"} /\ f = x)
              \/ f = x /\ p \notin {"fulfil", "done"}
    BY <1>1 DEF Quiet
<1>7. \A f \in File : (\E y \in Importer : pc'[b][y] = "push" /\ f = Target(b, y)')
                      <=> (\E y \in Importer : pc[b][y] = "push" /\ f = Target(b, y))
    BY <1>2
<1>8. ASSUME NEW y \in Importer, pc[b][y] = "push", x \in File PROVE Target(b, y) # x
    BY <1>4, <1>8 DEF Handing, Quiet
<1>9. \A f \in File :
          f \in Outstanding(b)' <=> f \in Outstanding(b) /\ ~(p \in {"fulfil", "done"} /\ f = x)
  <2> SUFFICES ASSUME NEW f \in File
               PROVE  f \in Outstanding(b)'
                          <=> f \in Outstanding(b) /\ ~(p \in {"fulfil", "done"} /\ f = x)
      OBVIOUS
  <2> DEFINE T == \E y \in Importer : pc[b][y] = "push" /\ f = Target(b, y)
  <2>1. f \in Outstanding(b)' <=> pc'[b][f] \notin {"idle", "fulfil", "done"} \/ T
      BY <1>7 DEF Outstanding
  <2>2. f \in Outstanding(b) <=> pc[b][f] \notin {"idle", "fulfil", "done"} \/ T
      BY DEF Outstanding
  <2>3. f = x => ~T
      BY <1>8
  <2> HIDE DEF T
  <2>4. f = x /\ p \notin {"fulfil", "done"} => pc[b][f] \notin {"idle", "fulfil", "done"}
      BY DEF Quiet
  <2> QED
      BY <2>1, <2>2, <2>3, <2>4, <1>6
<1>10. Outstanding(b) \subseteq File /\ Outstanding(b)' \subseteq File
    BY DEF Outstanding
<1> QED
    BY <1>3, <1>5, <1>9, <1>10, HandedKept DEF BuildInv

\* A quiet step at one place, apart from the counter and the verdict.
LEMMA QuietIInv ==
    ASSUME IInv, NEW b \in Build, NEW x \in Importer, NEW p, Quiet(b, x, p),
           p \notin {"fulfil", "done"},
           UNCHANGED <<outstanding, promised, verdict, handed, early>>,
           TypeOK', QueueOfTasks', Roles(b)', LookedAt(b)', ParsedOrError(b)',
           verdict[b] # "none" => UNCHANGED hasErrors \/ (promised[b] => early[b]),
           \A c \in Build : c # b => parsed'[c] = parsed[c] /\ hasErrors'[c] = hasErrors[c]
    PROVE  IInv'
<1>1. HandedOnce(b)' /\ HandedRight(b)' /\ Outstanding(b)' = Outstanding(b)
    BY QuietKeeps
<1>5. FulfilOnce(b)' /\ (Fallen(b)' <=> Fallen(b))
  <2>1. \A f \in File : pc'[b][f] = "fulfil" <=> pc[b][f] = "fulfil"
      BY DEF Quiet, Importer
  <2> QED
      BY <2>1, FulfilKept DEF IInv, BuildInv
<1>2. CounterRight(b)'
    BY <1>1, <1>5 DEF IInv, BuildInv, CounterRight
<1>3. VerdictAtEnd(b)'
  <2>1. Lab \in Importer /\ (x = Lab => pc[b][Lab] # "done")
      BY DEF Importer, Quiet
  <2> QED
      BY <2>1 DEF IInv, BuildInv, VerdictAtEnd, Quiet
<1>4. \A c \in Build : c # b => Same(c)
    BY DEF Same, Quiet
<1> QED
    BY <1>1, <1>2, <1>3, <1>4, <1>5, StepOf DEF BuildInv

\* The loop is over.
LEMMA EndLoopIInv ==
    ASSUME IInv, NEW b \in Build, NEW x \in Importer, EndLoop(b, x)
    PROVE  IInv'
<1> USE DEF IInv
<1> DEFINE p == IF x = Lab THEN "wait" ELSE "end"
<1>1. /\ pc[b][x] = "look" /\ ~(idx[b][x] <= Len(Imports[x]))
      /\ Go(b, x, p)
      /\ UNCHANGED <<queue, idx, cache, outstanding, promised, hasErrors, parsed, verdict, handed, early>>
    BY DEF EndLoop, AtImport, state
<1>2. idx[b][x] > Len(Imports[x])
  <2>1. idx[b][x] \in Nat /\ Len(Imports[x]) \in Nat
      BY ConstantsAssumption, LenProperties DEF TypeOK
  <2> QED
      BY <2>1, <1>1
<1>3. p \in {"wait", "end"} /\ (x = Lab <=> p = "wait")
    OBVIOUS
<1> HIDE DEF p
<1>4. Quiet(b, x, p)
    BY <1>1, <1>3, GoMoves DEF Quiet, Working
<1>5. File \subseteq Importer /\ Lab \in Importer /\ Lab \notin File
    BY ConstantsAssumption DEF Importer
<1>6. TypeOK'
    BY <1>1, <1>4 DEF TypeOK, Quiet
<1>7. QueueOfTasks'
    BY <1>1, <1>3, <1>4, <1>5, QueueKept DEF Quiet
<1>8. Roles(b)'
    BY <1>3, <1>4, <1>5 DEF BuildInv, Roles, Quiet
<1>9. LookedAt(b)'
    BY <1>1, <1>2, <1>3, <1>4, <1>5 DEF BuildInv, LookedAt, Quiet
<1>10. ParsedOrError(b)'
  <2>1. x \in Unreadable => FALSE
      BY <1>1, ConstantsAssumption DEF BuildInv, ParsedOrError
  <2>2. \A f \in File : pc'[b][f] \in {"look", "count", "push", "end", "fulfil", "done"}
                        <=> pc[b][f] \in {"look", "count", "push", "end", "fulfil", "done"}
      BY <1>1, <1>3, <1>4, <1>5 DEF Quiet
  <2>3. \A f \in Unreadable : f \in File /\ f \in Importer /\ pc'[b][f] = pc[b][f]
      BY <2>1, <1>4, <1>5, ConstantsAssumption DEF Quiet
  <2>4. {f \in File \ Unreadable : pc'[b][f] \in {"look", "count", "push", "end", "fulfil", "done"}}
        = {f \in File \ Unreadable : pc[b][f] \in {"look", "count", "push", "end", "fulfil", "done"}}
      BY <2>2
  <2> QED
      BY <2>3, <2>4, <1>1 DEF BuildInv, ParsedOrError
<1> QED
    BY <1>1, <1>3, <1>4, <1>6, <1>7, <1>8, <1>9, <1>10, QuietIInv

\* The importer starts.
LEMMA StartIInv ==
    ASSUME IInv, NEW b \in Build, Start(b)
    PROVE  IInv'
<1> USE DEF IInv
<1>1. /\ pc[b][Lab] = "idle" /\ Go(b, Lab, "look")
      /\ UNCHANGED <<queue, idx, cache, outstanding, promised, hasErrors, parsed, verdict, handed, early>>
    BY DEF Start, state
<1>2. File \subseteq Importer /\ Lab \in Importer /\ Lab \notin File
    BY ConstantsAssumption DEF Importer
<1>3. Quiet(b, Lab, "look")
    BY <1>1, <1>2, GoMoves DEF Quiet, Working
<1>4. TypeOK'
    BY <1>1, <1>3 DEF TypeOK, Quiet
<1>5. \A f \in File : pc'[b][f] = pc[b][f]
    BY <1>2, <1>3 DEF Quiet
<1>6. QueueOfTasks'
    BY <1>1, <1>3, <1>5, QueueKept DEF Quiet
<1>7. Roles(b)'
    BY <1>3, <1>5 DEF BuildInv, Roles, Quiet
<1>8. LookedAt(b)'
    BY <1>1, <1>3, <1>5 DEF BuildInv, LookedAt, Quiet
<1>9. ParsedOrError(b)'
    BY <1>1, <1>5, ParsedKept DEF BuildInv
<1> QED
    BY <1>1, <1>2, <1>3, <1>4, <1>6, <1>7, <1>8, <1>9, QuietIInv

\* import_chemical_file_recursive.
LEMMA ParseIInv ==
    ASSUME IInv, NEW b \in Build, NEW f \in File, Parse(b, f)
    PROVE  IInv'
<1> USE DEF IInv
<1> DEFINE p == IF f \in Unreadable THEN "end" ELSE "look"
<1>1. /\ pc[b][f] = "parse" /\ Go(b, f, p)
      /\ hasErrors' = IF f \in Unreadable THEN [hasErrors EXCEPT ![b] = TRUE] ELSE hasErrors
      /\ parsed' = IF f \in Unreadable THEN parsed ELSE [parsed EXCEPT ![b] = @ \cup {f}]
      /\ UNCHANGED <<queue, idx, cache, outstanding, promised, verdict, handed, early>>
    BY DEF Parse
<1>2. p \in {"end", "look"} /\ (f \in Unreadable <=> p = "end")
    OBVIOUS
<1> HIDE DEF p
<1>3. File \subseteq Importer /\ Lab \in Importer /\ Lab \notin File
    BY ConstantsAssumption DEF Importer
<1>4. Quiet(b, f, p)
    BY <1>1, <1>2, <1>3, GoMoves DEF Quiet, Working
<1>5. /\ hasErrors'[b] = (hasErrors[b] \/ f \in Unreadable)
      /\ parsed'[b] = IF f \in Unreadable THEN parsed[b] ELSE parsed[b] \cup {f}
      /\ \A c \in Build : c # b => hasErrors'[c] = hasErrors[c] /\ parsed'[c] = parsed[c]
      /\ hasErrors' \in [Build -> BOOLEAN] /\ parsed' \in [Build -> SUBSET File]
  <2>1. CASE f \in Unreadable
      BY <2>1, <1>1 DEF TypeOK
  <2>2. CASE f \notin Unreadable
      BY <2>2, <1>1 DEF TypeOK
  <2> QED
      BY <2>1, <2>2
<1>6. TypeOK'
    BY <1>1, <1>4, <1>5 DEF TypeOK, Quiet
<1>7. QueueOfTasks'
    BY <1>1, <1>2, <1>3, <1>4, QueueKept DEF Quiet
<1>8. Roles(b)'
    BY <1>2, <1>3, <1>4 DEF BuildInv, Roles, Quiet
<1>9. LookedAt(b)'
    BY <1>1, <1>2, <1>3, <1>4 DEF BuildInv, LookedAt, Quiet
<1>10. ParsedOrError(b)'
  <2>1. \A g \in File : g # f => g \in Importer /\ pc'[b][g] = pc[b][g]
      BY <1>3, <1>4 DEF Quiet
  <2>2. pc'[b][f] = p
      BY <1>4 DEF Quiet
  <2> DEFINE R == {g \in File \ Unreadable : pc[b][g] \in {"look", "count", "push", "end", "fulfil", "done"}}
             Rn == {g \in File \ Unreadable : pc'[b][g] \in {"look", "count", "push", "end", "fulfil", "done"}}
  <2>3. parsed[b] = R
      BY DEF BuildInv, ParsedOrError
  <2>4. Rn = IF f \in Unreadable THEN R ELSE R \cup {f}
    <3>1. \A g \in File \ Unreadable : g \in Rn <=> g \in R \/ g = f
        BY <2>1, <2>2, <1>2
    <3> QED
        BY <3>1
  <2>5. parsed'[b] = Rn
      BY <2>3, <2>4, <1>5
  <2>6. \A g \in Unreadable : pc'[b][g] \notin {"look", "count", "push"}
      BY <2>1, <2>2, <1>2, ConstantsAssumption DEF BuildInv, ParsedOrError
  <2>7. hasErrors'[b] <=> \E g \in Unreadable : pc'[b][g] \in {"end", "fulfil", "done"}
    <3>1. hasErrors[b] <=> \E g \in Unreadable : pc[b][g] \in {"end", "fulfil", "done"}
        BY DEF BuildInv, ParsedOrError
    <3> QED
        BY <3>1, <2>1, <2>2, <1>1, <1>2, <1>5, ConstantsAssumption
  <2> QED
      BY <2>5, <2>6, <2>7 DEF ParsedOrError
<1>11. promised[b] => early[b]
  <2>1. f \in Outstanding(b)
      BY <1>1 DEF Outstanding
  <2> QED
      BY <2>1 DEF BuildInv, CounterRight, Fallen, TypeOK
<1>12. p \notin {"fulfil", "done"} /\ f \in Importer
    BY <1>2, <1>3
<1> QED
    BY <1>1, <1>4, <1>5, <1>6, <1>7, <1>8, <1>9, <1>10, <1>11, <1>12, QuietIInv

\* A thread of the pool takes the first task.
LEMMA TakeTaskIInv == ASSUME IInv, TakeTask PROVE IInv'
<1> USE DEF IInv
<1>1. /\ queue' \in Seq(Build \X File) /\ Len(queue) \in Nat \ {0}
      /\ Len(queue') = Len(queue) - 1 /\ Head(queue) = queue[1]
      /\ \A k \in 1 .. Len(queue) : queue[k] \in Build \X File
      /\ \A k \in 1 .. Len(queue') : queue'[k] = queue[k + 1]
    BY TailQueue DEF TakeTask, TypeOK
<1>2. PICK b \in Build, f \in File : queue[1] = <<b, f>>
    BY <1>1
<1>3. 1 \in 1 .. Len(queue)
    BY <1>1
<1>4. pc[b][f] = "queued"
    BY <1>2, <1>3 DEF QueueOfTasks
<1>5. /\ Go(b, f, "parse")
      /\ UNCHANGED <<idx, cache, outstanding, promised, hasErrors, parsed, verdict, handed, early>>
    BY <1>1, <1>2 DEF TakeTask, state
<1>6. File \subseteq Importer /\ Lab \in Importer /\ Lab \notin File
    BY ConstantsAssumption DEF Importer
<1>7. Quiet(b, f, "parse")
    BY <1>4, <1>6, <1>5, GoMoves DEF Quiet, Working
<1>8. TypeOK'
    BY <1>1, <1>5, <1>7 DEF TypeOK, Quiet
<1>9. QueueOfTasks'
  <2>1. \A k \in 1 .. Len(queue') : k + 1 \in 1 .. Len(queue) /\ k + 1 # 1
      BY <1>1
  <2>2. \A k \in 1 .. Len(queue') : queue'[k] \in Build \X File /\ queue'[k] # <<b, f>>
      BY <2>1, <1>1, <1>2, <1>3 DEF QueueOfTasks
  <2>3. \A c \in Build, g \in File : <<c, g>> # <<b, f>> => pc'[c][g] = pc[c][g]
      BY <1>6, <1>7 DEF Quiet
  <2>4. ASSUME NEW k \in 1 .. Len(queue') PROVE pc'[queue'[k][1]][queue'[k][2]] = "queued"
    <3>1. queue'[k][1] \in Build /\ queue'[k][2] \in File
          /\ <<queue'[k][1], queue'[k][2]>> # <<b, f>>
        BY <2>2
    <3>2. pc[queue[k + 1][1]][queue[k + 1][2]] = "queued" /\ queue'[k] = queue[k + 1]
        BY <2>1, <1>1 DEF QueueOfTasks
    <3> QED
        BY <3>1, <3>2, <2>3
  <2>5. ASSUME NEW j \in 1 .. Len(queue'), NEW k \in 1 .. Len(queue'), queue'[j] = queue'[k]
        PROVE  j = k
    <3>1. queue[j + 1] = queue[k + 1]
        BY <2>5, <1>1
    <3>2. j + 1 = k + 1
        BY <3>1, <2>1 DEF QueueOfTasks
    <3> QED
        BY <3>2, <1>1
  <2>6. ASSUME NEW c \in Build, NEW g \in File, pc'[c][g] = "queued"
        PROVE  \E k \in 1 .. Len(queue') : queue'[k] = <<c, g>>
    <3>1. <<c, g>> # <<b, f>> /\ pc[c][g] = "queued"
      <4>1. pc'[b][f] = "parse"
          BY <1>7 DEF Quiet
      <4> QED
          BY <4>1, <2>3, <2>6
    <3>2. PICK k \in 1 .. Len(queue) : queue[k] = <<c, g>>
        BY <3>1 DEF QueueOfTasks
    <3>3. k # 1
        BY <3>1, <3>2, <1>2
    <3>4. k - 1 \in 1 .. Len(queue') /\ queue'[k - 1] = queue[k]
        BY <3>3, <1>1
    <3> QED
        BY <3>2, <3>4
  <2> QED
      BY <2>4, <2>5, <2>6 DEF QueueOfTasks
<1>10. Roles(b)'
    BY <1>6, <1>7 DEF BuildInv, Roles, Quiet
<1>11. LookedAt(b)'
    BY <1>5, <1>4, <1>6, <1>7 DEF BuildInv, LookedAt, Quiet
<1>12. ParsedOrError(b)'
  <2>1. \A g \in File :
           \A S \in {{"look", "count", "push"}, {"end", "fulfil", "done"}} : pc'[b][g] \in S <=> pc[b][g] \in S
      BY <1>3, <1>4, <1>6, <1>7 DEF Quiet
  <2> QED
      BY <2>1, <1>5, ParsedKept DEF BuildInv
<1>13. f \in Importer
    BY <1>6
<1> QED
    BY <1>5, <1>7, <1>8, <1>9, <1>10, <1>11, <1>12, <1>13, QuietIInv

\* done_task counts down, and goes on to the promise with a counter of zero.
LEMMA DoneTaskIInv ==
    ASSUME IInv, NEW b \in Build, NEW f \in File, DoneTask(b, f)
    PROVE  IInv'
<1> USE DEF IInv
<1> DEFINE p == IF outstanding[b] = 1 THEN "fulfil" ELSE "done"
<1>1. /\ pc[b][f] = "end" /\ Go(b, f, p)
      /\ outstanding' = [outstanding EXCEPT ![b] = @ - 1]
      /\ UNCHANGED <<queue, idx, cache, promised, hasErrors, parsed, verdict, handed, early>>
    BY DEF DoneTask
<1>2. File \subseteq Importer /\ Lab \in Importer /\ Lab \notin File /\ f # Lab
    BY ConstantsAssumption DEF Importer
<1>15. p \in {"fulfil", "done"} /\ (p = "fulfil" <=> outstanding[b] = 1)
    OBVIOUS
<1> HIDE DEF p
<1>3. Quiet(b, f, p)
    BY <1>1, <1>2, <1>15, GoMoves DEF Quiet, Working
<1>4. /\ outstanding'[b] = outstanding[b] - 1 /\ outstanding[b] \in Int
      /\ \A c \in Build : c # b => outstanding'[c] = outstanding[c]
      /\ outstanding' \in [Build -> Int]
    BY <1>1 DEF TypeOK
<1>5. TypeOK'
    BY <1>1, <1>3, <1>4 DEF TypeOK, Quiet
<1>16. \A g \in File : g \in Importer /\ pc'[b][g] = IF g = f THEN p ELSE pc[b][g]
    BY <1>2, <1>3 DEF Quiet
<1>6. QueueOfTasks'
  <2>1. \A g \in File : pc'[b][g] = "queued" <=> pc[b][g] = "queued"
      BY <1>1, <1>15, <1>16
  <2> QED
      BY <2>1, <1>1, <1>3, QueueKept DEF Quiet
<1>7. Roles(b)'
    BY <1>2, <1>3, <1>15, <1>16 DEF BuildInv, Roles, Quiet
<1>8. HandedOnce(b)' /\ HandedRight(b)' /\ Outstanding(b)' = Outstanding(b) \ {f}
    BY <1>1, <1>2, <1>3, <1>15, QuietKeeps
<1>9. f \in Outstanding(b)
    BY <1>1 DEF Outstanding
<1>17. Fallen(b) => early[b]
    BY <1>9 DEF BuildInv, CounterRight, TypeOK
<1>10. CounterRight(b)'
  <2>1. IsFiniteSet(Outstanding(b)) /\ outstanding[b] = Cardinality(Outstanding(b))
      BY DEF BuildInv, CounterRight
  <2>2. IsFiniteSet(Outstanding(b)') /\ outstanding'[b] = Cardinality(Outstanding(b)')
      BY <2>1, <1>4, <1>8, <1>9, FS_RemoveElement
  <2>3. Fallen(b)' => Fallen(b) \/ outstanding[b] = 1
      BY <1>1, <1>15, <1>16 DEF Fallen
  <2>4. outstanding[b] = 1 => Outstanding(b)' = {}
    <3> SUFFICES ASSUME outstanding[b] = 1 PROVE Outstanding(b)' = {}
        OBVIOUS
    <3>1. PICK g : Outstanding(b) = {g}
        BY <2>1, FS_Singleton
    <3> QED
        BY <3>1, <1>8, <1>9
  <2> QED
      BY <2>2, <2>3, <2>4, <1>1, <1>17 DEF CounterRight
<1>18. FulfilOnce(b)'
  <2> SUFFICES ASSUME ~early[b], NEW g \in File, pc'[b][g] = "fulfil"
               PROVE  ~promised[b] /\ \A h \in File : pc'[b][h] = "fulfil" => h = g
      BY <1>1 DEF FulfilOnce
  <2>1. ~promised[b] /\ \A h \in File : pc[b][h] # "fulfil"
      BY <1>17 DEF Fallen
  <2> QED
      BY <2>1, <1>16
<1>11. LookedAt(b)'
  <2>1. \A g \in File \ Unreadable : pc'[b][g] \in {"end", "fulfil", "done"} => idx'[b][g] > Len(Imports[g])
      BY <1>1, <1>16 DEF BuildInv, LookedAt
  <2>2. pc'[b][Lab] \in {"wait", "done"} => idx'[b][Lab] > Len(Imports[Lab])
      BY <1>1, <1>2, <1>3 DEF BuildInv, LookedAt, Quiet
  <2> QED
      BY <2>1, <2>2, <1>1 DEF BuildInv, LookedAt
<1>12. ParsedOrError(b)'
  <2>1. \A g \in File :
           \A S \in {{"look", "count", "push"}, {"end", "fulfil", "done"}} : pc'[b][g] \in S <=> pc[b][g] \in S
      BY <1>1, <1>15, <1>16
  <2> QED
      BY <2>1, <1>1, ParsedKept DEF BuildInv
<1>13. VerdictAtEnd(b)'
    BY <1>1, <1>2, <1>3 DEF BuildInv, VerdictAtEnd, Quiet
<1>14. \A c \in Build : c # b => Same(c)
    BY <1>1, <1>3, <1>4 DEF Same, Quiet
<1> QED
    BY <1>5, <1>6, <1>7, <1>8, <1>10, <1>11, <1>12, <1>13, <1>14, <1>18, StepOf DEF BuildInv

\* And fulfils it.
LEMMA FulfilIInv ==
    ASSUME IInv, NEW b \in Build, NEW f \in File, Fulfil(b, f)
    PROVE  IInv'
<1> USE DEF IInv
<1>1. /\ pc[b][f] = "fulfil" /\ Go(b, f, "done")
      /\ promised' = [promised EXCEPT ![b] = TRUE]
      /\ UNCHANGED <<queue, idx, cache, outstanding, hasErrors, parsed, verdict, handed, early>>
    BY DEF Fulfil
<1>2. File \subseteq Importer /\ Lab \in Importer /\ Lab \notin File /\ f # Lab
    BY ConstantsAssumption DEF Importer
<1>3. Quiet(b, f, "done")
    BY <1>1, <1>2, GoMoves DEF Quiet, Working
<1>4. /\ promised'[b] = TRUE /\ promised' \in [Build -> BOOLEAN]
      /\ \A c \in Build : c # b => promised'[c] = promised[c]
    BY <1>1 DEF TypeOK
<1>5. TypeOK'
    BY <1>1, <1>3, <1>4 DEF TypeOK, Quiet
<1>6. \A g \in File : g \in Importer /\ pc'[b][g] = IF g = f THEN "done" ELSE pc[b][g]
    BY <1>2, <1>3 DEF Quiet
<1>7. QueueOfTasks'
  <2>1. \A g \in File : pc'[b][g] = "queued" <=> pc[b][g] = "queued"
      BY <1>1, <1>6
  <2> QED
      BY <2>1, <1>1, <1>3, QueueKept DEF Quiet
<1>8. Roles(b)'
    BY <1>2, <1>3, <1>6 DEF BuildInv, Roles, Quiet
<1>9. HandedOnce(b)' /\ HandedRight(b)' /\ Outstanding(b)' = Outstanding(b) \ {f}
    BY <1>1, <1>2, <1>3, QuietKeeps
<1>10. Fallen(b)
    BY <1>1 DEF Fallen
<1>11. f \notin Outstanding(b)
  <2>1. \A y \in Importer : pc[b][y] = "push" => pc[b][Target(b, y)] = "idle"
      BY DEF BuildInv, HandedOnce, Handing
  <2> QED
      BY <2>1, <1>1 DEF Outstanding
<1>12. CounterRight(b)'
  <2>1. Outstanding(b)' = Outstanding(b)
      BY <1>9, <1>11
  <2> QED
      BY <2>1, <1>1, <1>10 DEF BuildInv, CounterRight
<1>13. FulfilOnce(b)'
  <2>1. ~early[b] => \A g \in File : pc'[b][g] # "fulfil"
      BY <1>1, <1>6 DEF BuildInv, FulfilOnce
  <2> QED
      BY <2>1, <1>1 DEF FulfilOnce
<1>14. LookedAt(b)'
  <2>1. \A g \in File \ Unreadable : pc'[b][g] \in {"end", "fulfil", "done"} => idx'[b][g] > Len(Imports[g])
      BY <1>1, <1>6 DEF BuildInv, LookedAt
  <2>2. pc'[b][Lab] \in {"wait", "done"} => idx'[b][Lab] > Len(Imports[Lab])
      BY <1>1, <1>2, <1>3 DEF BuildInv, LookedAt, Quiet
  <2> QED
      BY <2>1, <2>2, <1>1 DEF BuildInv, LookedAt
<1>15. ParsedOrError(b)'
  <2>1. \A g \in File :
           \A S \in {{"look", "count", "push"}, {"end", "fulfil", "done"}} : pc'[b][g] \in S <=> pc[b][g] \in S
      BY <1>1, <1>6
  <2> QED
      BY <2>1, <1>1, ParsedKept DEF BuildInv
<1>16. VerdictAtEnd(b)'
    BY <1>1, <1>2, <1>3, <1>4 DEF BuildInv, VerdictAtEnd, Quiet
<1>17. \A c \in Build : c # b => Same(c)
    BY <1>1, <1>3, <1>4 DEF Same, Quiet
<1> QED
    BY <1>5, <1>7, <1>8, <1>9, <1>12, <1>13, <1>14, <1>15, <1>16, <1>17, StepOf DEF BuildInv

\* fut.wait() returns.
LEMMA ReturnIInv ==
    ASSUME IInv, NEW b \in Build, Return(b)
    PROVE  IInv'
<1> USE DEF IInv
<1>1. /\ pc[b][Lab] = "wait" /\ promised[b] /\ Go(b, Lab, "done")
      /\ verdict' = [verdict EXCEPT ![b] = IF hasErrors[b] THEN "failed" ELSE "ok"]
      /\ UNCHANGED <<queue, idx, cache, outstanding, promised, hasErrors, parsed, handed, early>>
    BY DEF Return, state
<1>2. File \subseteq Importer /\ Lab \in Importer /\ Lab \notin File
    BY ConstantsAssumption DEF Importer
<1>3. Quiet(b, Lab, "done")
    BY <1>1, <1>2, GoMoves DEF Quiet, Working
<1>4. /\ verdict' \in [Build -> {"none", "ok", "failed"}]
      /\ verdict'[b] \in {"ok", "failed"} /\ (verdict'[b] = "failed" <=> hasErrors[b])
      /\ \A c \in Build : c # b => verdict'[c] = verdict[c]
  <2> DEFINE v == IF hasErrors[b] THEN "failed" ELSE "ok"
  <2>1. v \in {"ok", "failed"} /\ (v = "failed" <=> hasErrors[b])
      OBVIOUS
  <2>2. verdict' = [verdict EXCEPT ![b] = v]
      BY <1>1
  <2> HIDE DEF v
  <2> QED
      BY <2>1, <2>2 DEF TypeOK
<1>5. TypeOK'
    BY <1>1, <1>3, <1>4 DEF TypeOK, Quiet
<1>6. \A f \in File : pc'[b][f] = pc[b][f]
    BY <1>2, <1>3 DEF Quiet
<1>7. QueueOfTasks'
    BY <1>1, <1>3, <1>6, QueueKept DEF Quiet
<1>8. Roles(b)'
    BY <1>3, <1>6 DEF BuildInv, Roles, Quiet
<1>9. HandedOnce(b)' /\ HandedRight(b)' /\ Outstanding(b)' = Outstanding(b)
  <2>1. Outstanding(b) \ {Lab} = Outstanding(b)
      BY <1>2 DEF Outstanding
  <2> QED
      BY <2>1, <1>1, <1>2, <1>3, QuietKeeps
<1>15. FulfilOnce(b)' /\ (Fallen(b)' <=> Fallen(b))
    BY <1>1, <1>6, FulfilKept DEF BuildInv
<1>10. CounterRight(b)'
    BY <1>1, <1>9, <1>15 DEF BuildInv, CounterRight
<1>11. LookedAt(b)'
    BY <1>1, <1>3, <1>6 DEF BuildInv, LookedAt, Quiet
<1>12. ParsedOrError(b)'
    BY <1>1, <1>6, ParsedKept DEF BuildInv
<1>13. VerdictAtEnd(b)'
    BY <1>1, <1>3, <1>4 DEF VerdictAtEnd, Quiet
<1>14. \A c \in Build : c # b => Same(c)
    BY <1>1, <1>3, <1>4 DEF Same, Quiet
<1> QED
    BY <1>5, <1>7, <1>8, <1>9, <1>10, <1>11, <1>12, <1>13, <1>14, <1>15, StepOf DEF BuildInv

-----------------------------------------------------------------------------
\* Every step preserves the invariant.
LEMMA StepIInv == IInv /\ [Next]_vars => IInv'
<1> SUFFICES ASSUME IInv, [Next]_vars PROVE IInv'
    OBVIOUS
<1>1. ASSUME NEW b \in Build, NEW x \in Importer, ImporterStep(b, x) PROVE IInv'
    BY <1>1, SkipIInv, EnterIInv, CountIInv, PushIInv, EndLoopIInv DEF ImporterStep
<1>2. ASSUME NEW b \in Build, NEW f \in File, TaskStep(b, f) PROVE IInv'
    BY <1>2, ParseIInv, DoneTaskIInv, FulfilIInv DEF TaskStep
<1>3. ASSUME NEW b \in Build, Start(b) \/ Return(b) PROVE IInv'
    BY <1>3, StartIInv, ReturnIInv
<1>4. CASE TakeTask
    BY <1>4, TakeTaskIInv
<1>5. CASE UNCHANGED vars
  <2>1. UNCHANGED <<queue, pc, idx, cache, outstanding, promised, hasErrors, parsed, verdict, handed, early>>
      BY <1>5 DEF vars, state
  <2>2. TypeOK' /\ QueueOfTasks'
      BY <2>1 DEF IInv, TypeOK, QueueOfTasks
  <2>3. \A b \in Build : BuildInv(b)'
      BY <2>1, SameKeeps DEF IInv, Same
  <2> QED
      BY <2>2, <2>3 DEF IInv
<1> QED
    BY <1>1, <1>2, <1>3, <1>4, <1>5 DEF Next

\* IInv is an invariant: the theorem the others come from.
THEOREM Invariance == Spec => []IInv
    BY InitIInv, StepIInv, PTL DEF Spec

\* Every reachable state has the declared types.
THEOREM TypeCorrect == Spec => []TypeOK
<1>1. IInv => TypeOK
    BY DEF IInv
<1> QED
    BY <1>1, Invariance, PTL

\* Over the whole import the pool gets a file once, however many files import it at
\* a time, and however early its first task has ended.
THEOREM PushedOnceHolds == Spec => []PushedOnce
<1>1. IInv => PushedOnce
    BY DEF IInv, BuildInv, HandedRight, PushedOnce
<1> QED
    BY <1>1, Invariance, PTL

\* fut.wait() waits for every file that can be reached, and has_errors says whether
\* one of them could not be read, unless the promise had its value early.
THEOREM CompleteUnlessEarlyHolds == Spec => []CompleteUnlessEarly
<1>1. ASSUME IInv PROVE CompleteUnlessEarly
  <2> SUFFICES ASSUME NEW b \in Build, verdict[b] # "none", ~early[b]
               PROVE  /\ ~Left(b)
                      /\ parsed[b] = Reachable \ Unreadable
                      /\ verdict[b] = "ok" <=> Reachable \cap Unreadable = {}
      BY DEF CompleteUnlessEarly
  <2> USE <1>1 DEF IInv
  <2>1. promised[b] /\ pc[b][Lab] = "done" /\ (verdict[b] = "failed" <=> hasErrors[b])
      BY DEF BuildInv, VerdictAtEnd
  <2>2. Outstanding(b) = {}
      BY <2>1 DEF BuildInv, CounterRight, Fallen
  <2>3. \A f \in File : pc[b][f] \in {"idle", "done"}
    <3>1. \A f \in File : pc[b][f] \in {"idle", "fulfil", "done"}
        BY <2>2 DEF Outstanding
    <3>2. \A f \in File : pc[b][f] # "fulfil"
        BY <2>1 DEF BuildInv, FulfilOnce
    <3> QED
        BY <3>1, <3>2
  <2>4. \A x \in Importer : ~Handing(b, x)
      BY <2>1, <2>3 DEF Importer, Handing
  <2>5. \A f \in File : f \in cache[b] <=> pc[b][f] = "done"
      BY <2>3, <2>4 DEF BuildInv, HandedOnce
  <2>6. File \subseteq Importer /\ Lab \in Importer /\ cache[b] \subseteq File
      BY DEF Importer, TypeOK
  <2>7. \A i \in 1 .. Len(Imports[Lab]) : Imports[Lab][i] \in cache[b]
    <3> SUFFICES ASSUME NEW i \in 1 .. Len(Imports[Lab]) PROVE Imports[Lab][i] \in cache[b]
        OBVIOUS
    <3>1. idx[b][Lab] > Len(Imports[Lab]) /\ idx[b][Lab] \in Nat /\ Len(Imports[Lab]) \in Nat
        BY <2>1, <2>6, ConstantsAssumption, LenProperties DEF BuildInv, LookedAt, TypeOK
    <3>2. i < idx[b][Lab]
        BY <3>1
    <3> QED
        BY <3>2, <2>6 DEF BuildInv, LookedAt
  <2>8. ASSUME NEW g \in cache[b] \ Unreadable, NEW i \in 1 .. Len(Imports[g])
        PROVE  Imports[g][i] \in cache[b]
    <3>1. g \in File \ Unreadable /\ g \in Importer /\ pc[b][g] = "done"
        BY <2>5, <2>6
    <3>2. idx[b][g] > Len(Imports[g]) /\ idx[b][g] \in Nat /\ Len(Imports[g]) \in Nat
        BY <3>1, ConstantsAssumption, LenProperties DEF BuildInv, LookedAt, TypeOK
    <3>3. i < idx[b][g]
        BY <3>2
    <3> QED
        BY <3>1, <3>3 DEF BuildInv, LookedAt
  <2>9. cache[b] = Reachable
    <3>1. Reachable \subseteq cache[b]
        BY <2>6, <2>7, <2>8, ReachableLeast
    <3> QED
        BY <3>1 DEF BuildInv, LookedAt
  <2>10. ~Left(b)
      BY <2>3 DEF Left
  <2>11. parsed[b] = Reachable \ Unreadable
    <3>1. parsed[b] = {f \in File \ Unreadable :
                          pc[b][f] \in {"look", "count", "push", "end", "fulfil", "done"}}
        BY DEF BuildInv, ParsedOrError
    <3> QED
        BY <3>1, <2>3, <2>5, <2>6, <2>9
  <2>12. hasErrors[b] <=> Reachable \cap Unreadable # {}
    <3>1. hasErrors[b] <=> \E f \in Unreadable : pc[b][f] \in {"end", "fulfil", "done"}
        BY DEF BuildInv, ParsedOrError
    <3> QED
        BY <3>1, <2>3, <2>5, <2>9, ConstantsAssumption
  <2>13. verdict[b] \in {"ok", "failed"}
      BY DEF TypeOK
  <2> QED
      BY <2>1, <2>10, <2>11, <2>12, <2>13
<1> QED
    BY <1>1, Invariance, PTL
================================================================================
