--------------------------- MODULE ImportGraphProofs ---------------------------
(***************************************************************************)
(* The two searches of ImportGraph are right for every set of files, every *)
(* graph and every set of roots.                                           *)
(***************************************************************************)
EXTENDS ImportGraph, TLAPS, FiniteSetTheorems, SequenceTheorems

\* Neither f nor anything it leads to is on a cycle.
Safe(f) == f \notin Imported(f) /\ \A g \in Imported(f) : g \notin Imported(g)

\* The files that lead to no cycle.
SafeFiles == {f \in File : Safe(f)}

\* What a call is.
CallType == [file : File, left : SUBSET File, end : Nat]

\* The active calls are a path through the graph that starts at a root.
Path(calls) ==
    \A k \in DOMAIN calls :
        /\ calls[k].left \subseteq imports[calls[k].file]
        /\ calls[k].file \in Searched
        /\ \A j \in 1 .. k - 1 : calls[k].file \in Imported(calls[j].file)

\* The shared list begins with the callers of each active call, and no file has
\* two calls.
Callers(calls, list) ==
    \A k \in DOMAIN calls :
        /\ calls[k].end = k - 1 /\ k - 1 <= Len(list)
        /\ \A j \in 1 .. k - 1 :
              list[j] = calls[j].file /\ calls[j].file # calls[k].file

\* What has been looked at is in S, apart from what a call is active for.
Covered(calls, rest, S) ==
    /\ \A k \in DOMAIN calls : \A g \in imports[calls[k].file] \ calls[k].left :
          g \in S \/ (k < Len(calls) /\ g = calls[k + 1].file)
    /\ \A r \in roots \ rest : r \in S \/ (calls # <<>> /\ r = calls[1].file)

\* While no cycle has been found, the files that are done with lead to none;
\* and what is done with in the second search has been entered.
Explored ==
    /\ phase = "check" /\ ~cyclic => Covered(stack, rootsLeft, SafeFiles)
    /\ phase = "flatten" => Covered(stack, rootsLeft, ToSet(order))

\* The verdict so far.
VerdictTrue ==
    /\ cyclic => \E f \in Searched : f \in Imported(f)
    /\ phase = "refused" => cyclic
    /\ phase \in {"flatten", "done"} => ~cyclic /\ \A f \in Searched : f \notin Imported(f)

\* Every file of files is behind its imports, and is there once.
Sorted(files) ==
    /\ IsInjective(files)
    /\ \A n \in DOMAIN files : imports[files[n]] \subseteq {files[k] : k \in 1 .. n - 1}

\* The order so far.
OrderSorted == Sorted(order) /\ ToSet(order) \subseteq Searched

\* Where the searches begin and end.
PhasesInOrder ==
    /\ phase \in {"check", "refused"} => order = <<>>
    /\ phase \in {"refused", "done"} => stack = <<>>
    /\ phase = "done" => roots \subseteq ToSet(order)

\* The inductive invariant of both searches.
IInv ==
    /\ TypeOK
    /\ Path(stack)
    /\ phase = "check" => Callers(stack, parents)
    /\ Explored /\ VerdictTrue
    /\ OrderSorted /\ PhasesInOrder
-----------------------------------------------------------------------------
\* The graph.

\* Least(start) holds start, is closed under imports, and is the smallest such set.
LEMMA LeastFacts ==
    ASSUME imports \in [File -> SUBSET File], NEW start \in SUBSET File
    PROVE  /\ start \subseteq Least(start) /\ Least(start) \subseteq File
           /\ \A f \in Least(start) : imports[f] \subseteq Least(start)
           /\ \A S \in SUBSET File : start \subseteq S /\ Closed(S) => Least(start) \subseteq S
<1>1. start \subseteq Least(start) /\ Least(start) \subseteq File
  BY DEF Least
<1>2. ASSUME NEW f \in Least(start), NEW g \in imports[f]
      PROVE  g \in Least(start)
  <2>1. f \in File /\ g \in File
    BY <1>1
  <2>2. ASSUME NEW S \in SUBSET File, start \subseteq S, Closed(S)
        PROVE  g \in S
    BY <2>2 DEF Closed, Least
  <2>. QED
    BY <2>1, <2>2 DEF Least
<1>. QED
  BY <1>1, <1>2 DEF Least

\* What a file imports it leads to, and so it does to what that imports.
LEMMA ImportedFacts ==
    ASSUME imports \in [File -> SUBSET File], NEW f \in File
    PROVE  /\ imports[f] \subseteq Imported(f) /\ Imported(f) \subseteq File
           /\ \A g \in Imported(f) : imports[g] \subseteq Imported(f)
           /\ \A S \in SUBSET File : imports[f] \subseteq S /\ Closed(S) => Imported(f) \subseteq S
BY LeastFacts DEF Imported

\* The files that are searched are the roots and what they lead to.
LEMMA SearchedFacts ==
    ASSUME imports \in [File -> SUBSET File], roots \in SUBSET File
    PROVE  /\ roots \subseteq Searched /\ Searched \subseteq File
           /\ \A f \in Searched : imports[f] \subseteq Searched
           /\ \A S \in SUBSET File : roots \subseteq S /\ Closed(S) => Searched \subseteq S
BY LeastFacts DEF Searched

\* The files in S and what they lead to.
From(S) == {h \in File : \E g \in S : h = g \/ h \in Imported(g)}

\* From(S) is closed under imports.
LEMMA FromClosed ==
    ASSUME imports \in [File -> SUBSET File], NEW S \in SUBSET File
    PROVE  S \subseteq From(S) /\ From(S) \in SUBSET File /\ Closed(From(S))
<1>1. ASSUME NEW f \in From(S), NEW i \in imports[f]
      PROVE  i \in From(S)
  <2>1. PICK g \in S : f = g \/ f \in Imported(g)
    BY <1>1 DEF From
  <2>2. i \in Imported(g)
    BY <2>1, ImportedFacts
  <2>. QED
    BY <2>2, ImportedFacts DEF From
<1>. QED
  BY <1>1 DEF From, Closed

\* A file all of whose imports lead to no cycle leads to none.
LEMMA SafeByImports ==
    ASSUME imports \in [File -> SUBSET File], NEW f \in File,
           imports[f] \subseteq SafeFiles
    PROVE  f \in SafeFiles
<1>1. Imported(f) \subseteq From(imports[f])
  BY FromClosed, ImportedFacts
<1>2. ASSUME NEW h \in From(imports[f])
      PROVE  h \notin Imported(h)
  BY <1>2 DEF From, SafeFiles, Safe
<1>3. f \notin Imported(f)
  BY <1>1, <1>2
<1>. QED
  BY <1>1, <1>2, <1>3 DEF SafeFiles, Safe

\* If the roots lead to no cycle there is none among the files searched.
LEMMA SafeByRoots ==
    ASSUME imports \in [File -> SUBSET File], roots \subseteq SafeFiles
    PROVE  \A f \in Searched : f \notin Imported(f)
<1>1. roots \in SUBSET File
  BY DEF SafeFiles
<1>2. Searched \subseteq From(roots)
  BY <1>1, FromClosed, SearchedFacts
<1>3. ASSUME NEW h \in From(roots)
      PROVE  h \notin Imported(h)
  BY <1>3 DEF From, SafeFiles, Safe
<1>. QED
  BY <1>2, <1>3

\* No step changes the graph, nor what is said of it.
LEMMA GraphUnchanged ==
    ASSUME UNCHANGED graph
    PROVE  /\ Searched' = Searched /\ SafeFiles' = SafeFiles
           /\ \A f \in File : Imported(f)' = Imported(f)
<1>1. imports' = imports /\ roots' = roots
  BY DEF graph
<1>2. ASSUME NEW S \in SUBSET File
      PROVE  Closed(S)' = Closed(S)
  BY <1>1 DEF Closed
<1>3. \A f \in File : Imported(f)' = Imported(f)
  BY <1>1, <1>2 DEF Imported, Least
<1>4. Searched' = Searched
  BY <1>1, <1>2 DEF Searched, Least
<1>6. ASSUME NEW f \in File
      PROVE  Safe(f)' = Safe(f)
  <2>1. Imported(f) \subseteq File
    BY DEF Imported, Least
  <2>. QED
    BY <1>3, <2>1 DEF Safe
<1>. QED
  BY <1>3, <1>4, <1>6 DEF SafeFiles

-----------------------------------------------------------------------------
\* What the steps do to the calls.

\* The calls are numbered, and each has a file, what is left, and an end.
LEMMA CallsFacts ==
    ASSUME NEW calls \in Seq(CallType)
    PROVE  /\ Len(calls) \in Nat /\ DOMAIN calls = 1 .. Len(calls)
           /\ \A k \in 1 .. Len(calls) : /\ calls[k] \in CallType
                                         /\ calls[k].file \in File
                                         /\ calls[k].left \subseteq File
                                         /\ calls[k].end \in Nat
<1>1. Len(calls) \in Nat /\ DOMAIN calls = 1 .. Len(calls)
  BY LenProperties
<1>2. ASSUME NEW k \in 1 .. Len(calls)
      PROVE  calls[k] \in CallType
  BY ElementOfSeq
<1>. QED
  BY <1>1, <1>2 DEF CallType

\* A new call is one.
LEMMA CallFacts ==
    ASSUME imports \in [File -> SUBSET File], NEW f \in File, NEW e \in Nat
    PROVE  /\ Call(f, e) \in CallType
           /\ Call(f, e).file = f /\ Call(f, e).left = imports[f] /\ Call(f, e).end = e
BY DEF Call, CallType

\* The innermost call has looked at i.
After(calls, i) == [calls EXCEPT ![Len(calls)].left = @ \ {i}]

\* Only the innermost call changes, and of it only what is left.
LEMMA AfterFacts ==
    ASSUME NEW calls \in Seq(CallType), calls # <<>>, NEW i \in File
    PROVE  /\ After(calls, i) \in Seq(CallType)
           /\ Len(After(calls, i)) = Len(calls)
           /\ \A k \in 1 .. Len(calls) :
                 /\ After(calls, i)[k].file = calls[k].file
                 /\ After(calls, i)[k].end = calls[k].end
                 /\ After(calls, i)[k].left = IF k = Len(calls) THEN calls[k].left \ {i}
                                              ELSE calls[k].left
<1>. DEFINE n == Len(calls)
            top == [calls[n] EXCEPT !.left = @ \ {i}]
<1>1. n \in 1 .. n /\ calls[n] \in CallType
  BY CallsFacts, EmptySeq
<1>2. /\ top \in CallType
      /\ top.file = calls[n].file /\ top.end = calls[n].end /\ top.left = calls[n].left \ {i}
  BY <1>1 DEF CallType
<1>3. After(calls, i) = [calls EXCEPT ![n] = top]
  BY DEF After
<1>. HIDE DEF top
<1>4. /\ After(calls, i) \in Seq(CallType) /\ Len(After(calls, i)) = n
      /\ \A k \in 1 .. n : After(calls, i)[k] = IF k = n THEN top ELSE calls[k]
  BY <1>1, <1>2, <1>3, ExceptSeq
<1>. HIDE DEF n
<1>. QED
  BY <1>2, <1>4 DEF n

\* pushed is calls, of which the innermost has looked at i, and then c.
Pushed(pushed, calls, i, c) ==
    /\ pushed \in Seq(CallType)
    /\ Len(pushed) = Len(calls) + 1
    /\ pushed[Len(calls) + 1] = c
    /\ \A k \in 1 .. Len(calls) :
          /\ pushed[k].file = calls[k].file
          /\ pushed[k].end = calls[k].end
          /\ pushed[k].left = IF k = Len(calls) THEN calls[k].left \ {i} ELSE calls[k].left

\* The calls behind a push.
LEMMA PushFacts ==
    ASSUME NEW calls \in Seq(CallType), calls # <<>>, NEW i \in File, NEW c \in CallType,
           NEW pushed, pushed = Append(After(calls, i), c)
    PROVE  Pushed(pushed, calls, i, c)
<1>. DEFINE after == After(calls, i)
<1>1. /\ after \in Seq(CallType) /\ Len(after) = Len(calls) /\ Len(calls) \in Nat
      /\ \A k \in 1 .. Len(calls) :
                 /\ after[k].file = calls[k].file
                 /\ after[k].end = calls[k].end
                 /\ after[k].left = IF k = Len(calls) THEN calls[k].left \ {i}
                                     ELSE calls[k].left
  BY AfterFacts, CallsFacts
<1>. HIDE DEF after
<1>2. /\ pushed \in Seq(CallType) /\ Len(pushed) = Len(calls) + 1
      /\ pushed[Len(calls) + 1] = c
      /\ \A k \in 1 .. Len(calls) : pushed[k] = after[k]
  BY <1>1, AppendProperties DEF after
<1>. QED
  BY <1>1, <1>2 DEF Pushed

\* The calls behind a return.
LEMMA PopFacts ==
    ASSUME NEW calls \in Seq(CallType), calls # <<>>,
           NEW popped, popped = SubSeq(calls, 1, Len(calls) - 1)
    PROVE  /\ popped \in Seq(CallType)
           /\ Len(popped) = Len(calls) - 1
           /\ \A k \in 1 .. Len(calls) - 1 : popped[k] = calls[k]
<1>1. Len(calls) \in Nat \ {0}
  BY CallsFacts, EmptySeq
<1>. DEFINE n == Len(calls) - 1
<1>2. n \in Nat /\ \A k \in 1 .. n : calls[k] \in CallType
  BY <1>1, CallsFacts
<1>. HIDE DEF n
<1>3. /\ popped \in Seq(CallType) /\ Len(popped) = IF 1 <= n THEN n - 1 + 1 ELSE 0
      /\ \A k \in 1 .. n - 1 + 1 : popped[k] = calls[1 + k - 1]
  BY <1>2, SubSeqProperties DEF n
<1>4. Len(popped) = n /\ \A k \in 1 .. n : popped[k] = calls[k]
  BY <1>2, <1>3
<1>. QED
  BY <1>3, <1>4 DEF n

\* A search begins at a root.
LEMMA PathStart ==
    ASSUME imports \in [File -> SUBSET File], roots \in SUBSET File, NEW r \in roots
    PROVE  Path(<<Call(r, 0)>>)
<1>1. r \in Searched /\ Call(r, 0).file = r /\ Call(r, 0).left = imports[r]
  BY CallFacts, SearchedFacts
<1>. QED
  BY <1>1 DEF Path

\* An import that was looked at leaves the calls a path.
LEMMA PathSkip ==
    ASSUME NEW calls \in Seq(CallType), calls # <<>>, Path(calls), NEW i \in File
    PROVE  Path(After(calls, i))
<1>. DEFINE after == After(calls, i)
<1>1. /\ after \in Seq(CallType) /\ Len(after) = Len(calls)
      /\ \A k \in 1 .. Len(calls) :
            /\ after[k].file = calls[k].file
            /\ after[k].left = IF k = Len(calls) THEN calls[k].left \ {i} ELSE calls[k].left
  BY AfterFacts
<1>. HIDE DEF after
<1>2. Len(calls) \in Nat /\ DOMAIN calls = 1 .. Len(calls) /\ DOMAIN after = 1 .. Len(calls)
  BY <1>1, CallsFacts
<1>3. \A k \in 1 .. Len(calls) : after[k].left \subseteq calls[k].left
  BY <1>1
<1>4. ASSUME NEW k \in 1 .. Len(calls)
      PROVE  /\ after[k].left \subseteq imports[after[k].file]
             /\ after[k].file \in Searched
             /\ \A j \in 1 .. k - 1 : after[k].file \in Imported(after[j].file)
  <2>1. /\ calls[k].left \subseteq imports[calls[k].file]
        /\ calls[k].file \in Searched
        /\ \A j \in 1 .. k - 1 : calls[k].file \in Imported(calls[j].file)
    BY <1>2 DEF Path
  <2>2. \A j \in 1 .. k - 1 : j \in 1 .. Len(calls)
    BY <1>2
  <2>. QED
    BY <2>1, <2>2, <1>1, <1>3
<1>5. Path(after)
  BY <1>2, <1>4 DEF Path
<1>. QED
  BY <1>5 DEF after

\* A call for an import prolongs the path.
LEMMA PathPush ==
    ASSUME imports \in [File -> SUBSET File], roots \in SUBSET File,
           NEW calls \in Seq(CallType), calls # <<>>, Path(calls),
           NEW i \in File, i \in calls[Len(calls)].left,
           NEW c \in CallType, c.file = i, c.left = imports[i],
           NEW pushed, pushed = Append(After(calls, i), c)
    PROVE  Path(pushed)
<1>. DEFINE n == Len(calls)
<1>1. /\ n \in Nat \ {0} /\ n \in 1 .. n /\ DOMAIN calls = 1 .. n
      /\ \A j \in 1 .. n : calls[j].file \in File
  BY CallsFacts, EmptySeq
<1>2. i \in imports[calls[n].file] /\ calls[n].file \in Searched
  BY <1>1 DEF Path
<1>. HIDE DEF n
<1>3. i \in Searched
  BY <1>2, SearchedFacts
<1>4. ASSUME NEW j \in 1 .. n
      PROVE  i \in Imported(calls[j].file)
  <2>1. CASE j = n
    BY <2>1, <1>1, <1>2, ImportedFacts
  <2>2. CASE j \in 1 .. n - 1
    <3>1. calls[n].file \in Imported(calls[j].file)
      BY <1>1, <2>2 DEF Path
    <3>. QED
      BY <3>1, <1>1, <1>2, ImportedFacts
  <2>. QED
    BY <1>1, <2>1, <2>2
<1>5. /\ pushed \in Seq(CallType) /\ Len(pushed) = n + 1 /\ pushed[n + 1] = c
      /\ \A k \in 1 .. n : /\ pushed[k].file = calls[k].file
                           /\ pushed[k].left \subseteq calls[k].left
  <2>1. Pushed(pushed, calls, i, c)
    BY PushFacts
  <2>. QED
    BY <2>1 DEF Pushed, n
<1>6. DOMAIN pushed = 1 .. n + 1
  BY <1>5, CallsFacts
<1>7. ASSUME NEW k \in 1 .. n + 1
      PROVE  /\ pushed[k].left \subseteq imports[pushed[k].file]
             /\ pushed[k].file \in Searched
             /\ \A j \in 1 .. k - 1 : pushed[k].file \in Imported(pushed[j].file)
  <2>1. CASE k = n + 1
    <3>1. pushed[k].file = i /\ pushed[k].left = imports[i]
      BY <2>1, <1>5
    <3>2. ASSUME NEW j \in 1 .. k - 1
          PROVE  i \in Imported(pushed[j].file)
      <4>1. j \in 1 .. n
        BY <2>1, <1>1
      <4>. QED
        BY <4>1, <1>4, <1>5
    <3>. QED
      BY <3>1, <3>2, <1>3
  <2>2. CASE k \in 1 .. n
    <3>1. /\ calls[k].left \subseteq imports[calls[k].file]
          /\ calls[k].file \in Searched
          /\ \A j \in 1 .. k - 1 : calls[k].file \in Imported(calls[j].file)
      BY <2>2, <1>1 DEF Path
    <3>2. \A j \in 1 .. k - 1 : j \in 1 .. n
      BY <2>2, <1>1
    <3>. QED
      BY <2>2, <3>1, <3>2, <1>5
  <2>3. k = n + 1 \/ k \in 1 .. n
    BY <1>1
  <2>. QED
    BY <2>1, <2>2, <2>3
<1>. QED
  BY <1>6, <1>7 DEF Path

\* A return shortens it.
LEMMA PathReturn ==
    ASSUME NEW calls \in Seq(CallType), calls # <<>>, Path(calls),
           NEW popped, popped = SubSeq(calls, 1, Len(calls) - 1)
    PROVE  Path(popped)
<1>1. /\ Len(calls) \in Nat /\ DOMAIN calls = 1 .. Len(calls)
      /\ DOMAIN popped = 1 .. Len(calls) - 1
      /\ \A k \in 1 .. Len(calls) - 1 : popped[k] = calls[k]
  BY PopFacts, CallsFacts
<1>. QED
  BY <1>1 DEF Path

\* The callers of a call that is the only one are none.
LEMMA CallersStart ==
    ASSUME imports \in [File -> SUBSET File], NEW f \in File
    PROVE  Callers(<<Call(f, 0)>>, <<>>)
BY CallFacts DEF Callers

\* A call for a file that is not among the callers, nor the caller, is again one
\* for a file of its own, and its callers are the chain it is given.
LEMMA CallersPush ==
    ASSUME NEW calls \in Seq(CallType), calls # <<>>,
           NEW list \in Seq(File), Callers(calls, list),
           NEW i \in File, i # calls[Len(calls)].file,
           NEW chain, chain = SubSeq(list, 1, calls[Len(calls)].end),
           \A j \in 1 .. Len(chain) : chain[j] # i,
           NEW c \in CallType, c.file = i, c.end = Len(chain) + 1,
           NEW pushed, pushed = Append(After(calls, i), c)
    PROVE  Callers(pushed, Append(chain, calls[Len(calls)].file))
<1>. DEFINE n == Len(calls)
            g == calls[n].file
            list2 == Append(chain, g)
<1>1. /\ n \in Nat \ {0} /\ DOMAIN calls = 1 .. n /\ g \in File
      /\ \A k \in 1 .. n : calls[k].file \in File
  BY CallsFacts, EmptySeq
<1>2. /\ pushed \in Seq(CallType) /\ Len(pushed) = n + 1 /\ pushed[n + 1] = c
      /\ \A k \in 1 .. n : pushed[k].file = calls[k].file /\ pushed[k].end = calls[k].end
  <2>1. Pushed(pushed, calls, i, c)
    BY PushFacts
  <2>. QED
    BY <2>1 DEF Pushed
<1>3. DOMAIN pushed = 1 .. n + 1
  BY <1>2, CallsFacts
<1>. HIDE DEF n
<1>4. calls[n].end = n - 1 /\ n - 1 <= Len(list)
  BY <1>1 DEF Callers
<1>5. chain \in Seq(File) /\ Len(chain) = n - 1 /\ \A j \in 1 .. n - 1 : chain[j] = list[j]
  BY <1>1, <1>4 DEF n
<1>. HIDE DEF g
<1>6. /\ list2 \in Seq(File) /\ Len(list2) = n /\ list2[n] = g
      /\ \A j \in 1 .. n - 1 : list2[j] = list[j]
  BY <1>1, <1>5
<1>. HIDE DEF list2
<1>7. \A j \in 1 .. n : list2[j] = calls[j].file /\ list2[j] # i
  <2>1. ASSUME NEW j \in 1 .. n - 1
        PROVE  list2[j] = calls[j].file /\ list2[j] # i
    <3>1. n \in DOMAIN calls /\ j \in 1 .. Len(chain)
      BY <1>1, <1>5
    <3>2. list[j] = calls[j].file
      BY <3>1 DEF Callers
    <3>. QED
      BY <3>1, <3>2, <1>5, <1>6
  <2>2. list2[n] = calls[n].file /\ list2[n] # i
    BY <1>6 DEF g, n
  <2>. QED
    BY <1>1, <2>1, <2>2
<1>8. ASSUME NEW k \in 1 .. n + 1
      PROVE  /\ pushed[k].end = k - 1 /\ k - 1 <= Len(list2)
             /\ \A j \in 1 .. k - 1 :
                   list2[j] = pushed[j].file /\ pushed[j].file # pushed[k].file
  <2>1. \A j \in 1 .. n : pushed[j].file = calls[j].file /\ pushed[j].end = calls[j].end
    BY <1>2
  <2>2. CASE k = n + 1
    <3>1. pushed[k].file = i /\ pushed[k].end = k - 1 /\ k - 1 = n
      BY <2>2, <1>1, <1>2, <1>5 DEF n
    <3>2. ASSUME NEW j \in 1 .. k - 1
          PROVE  list2[j] = pushed[j].file /\ pushed[j].file # pushed[k].file
      <4>1. j \in 1 .. n
        BY <3>1
      <4>. QED
        <5>1. pushed[j].file = calls[j].file /\ list2[j] = calls[j].file /\ list2[j] # i
          BY <4>1, <2>1, <1>7
        <5>. QED
          BY <5>1, <3>1
    <3>. QED
      BY <3>1, <3>2, <1>1, <1>6
  <2>3. CASE k \in 1 .. n
    <3>1. /\ calls[k].end = k - 1
          /\ \A j \in 1 .. k - 1 : calls[j].file # calls[k].file
      BY <2>3, <1>1 DEF Callers
    <3>2. k - 1 <= n /\ \A j \in 1 .. k - 1 : j \in 1 .. n
      BY <2>3, <1>1
    <3>. QED
      BY <2>3, <3>1, <3>2, <2>1, <1>6, <1>7
  <2>4. k = n + 1 \/ k \in 1 .. n
    BY <1>1
  <2>. QED
    BY <2>2, <2>3, <2>4
<1>9. Callers(pushed, list2)
  BY <1>3, <1>8 DEF Callers
<1>. QED
  BY <1>9 DEF list2, g, n

\* A return leaves the callers of the others alone.
LEMMA CallersReturn ==
    ASSUME NEW calls \in Seq(CallType), calls # <<>>,
           NEW list \in Seq(File), Callers(calls, list),
           NEW popped, popped = SubSeq(calls, 1, Len(calls) - 1)
    PROVE  Callers(popped, list)
<1>1. /\ Len(calls) \in Nat /\ DOMAIN calls = 1 .. Len(calls)
      /\ DOMAIN popped = 1 .. Len(calls) - 1
      /\ \A k \in 1 .. Len(calls) - 1 : popped[k] = calls[k]
  BY PopFacts, CallsFacts
<1>. QED
  BY <1>1 DEF Callers

\* A root that is called for needs no cover.
LEMMA CoveredStart ==
    ASSUME imports \in [File -> SUBSET File], NEW S, NEW rest, NEW r \in File,
           Covered(<<>>, rest, S)
    PROVE  Covered(<<Call(r, 0)>>, rest \ {r}, S)
<1>. DEFINE calls == <<Call(r, 0)>>
<1>1. calls[1].file = r /\ calls[1].left = imports[r]
  BY CallFacts
<1>. QED
  BY <1>1 DEF Covered

\* Nor does an import that is called for.
LEMMA CoveredPush ==
    ASSUME NEW calls \in Seq(CallType), calls # <<>>, NEW S, NEW rest,
           Covered(calls, rest, S),
           NEW i \in File, NEW c \in CallType, c.file = i, c.left = imports[i],
           NEW pushed, pushed = Append(After(calls, i), c)
    PROVE  Covered(pushed, rest, S)
<1>. DEFINE n == Len(calls)
<1>1. n \in Nat \ {0} /\ DOMAIN calls = 1 .. n
  BY CallsFacts, EmptySeq
<1>2. /\ pushed \in Seq(CallType) /\ Len(pushed) = n + 1 /\ pushed[n + 1] = c
      /\ \A k \in 1 .. n :
            /\ pushed[k].file = calls[k].file
            /\ pushed[k].left = IF k = n THEN calls[k].left \ {i} ELSE calls[k].left
  <2>1. Pushed(pushed, calls, i, c)
    BY PushFacts
  <2>. QED
    BY <2>1 DEF Pushed
<1>3. DOMAIN pushed = 1 .. n + 1
  BY <1>2, CallsFacts
<1>. HIDE DEF n
<1>5. ASSUME NEW k \in 1 .. n + 1, NEW g \in imports[pushed[k].file] \ pushed[k].left
      PROVE  g \in S \/ (k < n + 1 /\ g = pushed[k + 1].file)
  <2>1. k # n + 1
    BY <1>2, <1>5
  <2>2. k \in 1 .. n
    BY <2>1, <1>1
  <2>5. k = n \/ k \in 1 .. n - 1
    BY <2>2, <1>1
  <2>3. CASE k = n
    <3>1. g = i \/ g \in imports[calls[n].file] \ calls[n].left
      BY <2>3, <1>2, <1>5, <2>2
    <3>2. g \in imports[calls[n].file] \ calls[n].left => g \in S
      BY <1>1 DEF Covered, n
    <3>. QED
      BY <3>1, <3>2, <2>3, <1>2, <1>1
  <2>4. CASE k \in 1 .. n - 1
    <3>1. g \in imports[calls[k].file] \ calls[k].left
      <4>1. k # n /\ k \in 1 .. n
        BY <2>4, <1>1
      <4>. QED
        BY <4>1, <1>2, <1>5
    <3>2. g \in S \/ g = calls[k + 1].file
      BY <3>1, <2>2, <1>1 DEF Covered
    <3>3. k + 1 \in 1 .. n /\ k < n + 1
      BY <2>4, <1>1
    <3>. QED
      BY <3>2, <3>3, <1>2
  <2>. QED
    BY <2>3, <2>4, <2>5
<1>6. ASSUME NEW r \in roots \ rest
      PROVE  r \in S \/ r = pushed[1].file
  <2>1. r \in S \/ r = calls[1].file
    BY DEF Covered
  <2>2. 1 \in 1 .. n
    BY <1>1
  <2>. QED
    BY <2>1, <2>2, <1>2
<1>7. pushed # <<>>
  BY <1>1, <1>2, EmptySeq
<1>. QED
  BY <1>2, <1>3, <1>5, <1>6, <1>7 DEF Covered

\* When a call returns, its file takes the place of the call.
LEMMA CoveredReturn ==
    ASSUME NEW calls \in Seq(CallType), calls # <<>>, NEW S, NEW T, NEW rest,
           Covered(calls, rest, S), S \subseteq T, calls[Len(calls)].file \in T,
           NEW popped, popped = SubSeq(calls, 1, Len(calls) - 1)
    PROVE  Covered(popped, rest, T)
<1>. DEFINE n == Len(calls)
<1>1. /\ n \in Nat \ {0} /\ DOMAIN calls = 1 .. n
      /\ Len(popped) = n - 1 /\ popped \in Seq(CallType)
      /\ \A k \in 1 .. n - 1 : popped[k] = calls[k]
  BY PopFacts, CallsFacts, EmptySeq
<1>2. DOMAIN popped = 1 .. n - 1
  BY <1>1, CallsFacts
<1>. HIDE DEF n
<1>3. ASSUME NEW k \in 1 .. n - 1, NEW g \in imports[popped[k].file] \ popped[k].left
      PROVE  g \in T \/ (k < n - 1 /\ g = popped[k + 1].file)
  <2>1. g \in imports[calls[k].file] \ calls[k].left /\ k \in 1 .. n
    BY <1>1, <1>3
  <2>2. g \in S \/ g = calls[k + 1].file
    BY <2>1, <1>1 DEF Covered
  <2>3. CASE k = n - 1
    <3>1. calls[k + 1].file \in T
      BY <2>3, <1>1 DEF n
    <3>. QED
      BY <2>2, <3>1
  <2>4. CASE k < n - 1
    <3>1. k + 1 \in 1 .. n - 1
      BY <2>4, <1>1
    <3>. QED
      BY <2>2, <2>4, <3>1, <1>1
  <2>. QED
    BY <2>3, <2>4, <1>1
<1>4. ASSUME NEW r \in roots \ rest
      PROVE  r \in T \/ (popped # <<>> /\ r = popped[1].file)
  <2>1. r \in S \/ r = calls[1].file
    BY DEF Covered
  <2>2. CASE n = 1
    BY <2>1, <2>2 DEF n
  <2>3. CASE n # 1
    <3>1. 1 \in 1 .. n - 1 /\ popped # <<>>
      <4>1. 1 \in 1 .. n - 1 /\ Len(popped) # 0
        BY <2>3, <1>1
      <4>. QED
        BY <4>1, <1>1, EmptySeq
    <3>. QED
      BY <2>1, <3>1, <1>1
  <2>. QED
    BY <2>2, <2>3
<1>. QED
  BY <1>1, <1>2, <1>3, <1>4 DEF Covered

-----------------------------------------------------------------------------
\* The steps.

\* What is said of the calls, the verdict and the order is said of the same
\* graph before and behind a step.
LEMMA Frame ==
    ASSUME TypeOK, UNCHANGED graph, stack' \in Seq(CallType)
    PROVE  /\ Path(stack') => Path(stack)'
           /\ Covered(stack', rootsLeft', SafeFiles) => Covered(stack, rootsLeft, SafeFiles)'
           /\ Covered(stack', rootsLeft', ToSet(order'))
                => Covered(stack, rootsLeft, ToSet(order))'
           /\ UNCHANGED <<phase, cyclic>> /\ VerdictTrue => VerdictTrue'
           /\ UNCHANGED order /\ OrderSorted => OrderSorted'
<1>1. imports' = imports /\ roots' = roots
  BY DEF graph
<1>2. /\ Searched' = Searched /\ SafeFiles' = SafeFiles
      /\ \A f \in File : Imported(f)' = Imported(f)
  BY GraphUnchanged
<1>3. Searched \subseteq File
  BY SearchedFacts DEF TypeOK
<1>4. DOMAIN stack' = 1 .. Len(stack') /\ \A k \in 1 .. Len(stack') : stack'[k].file \in File
  BY CallsFacts
<1>5. ASSUME Path(stack')
      PROVE  Path(stack)'
  <2>1. ASSUME NEW k \in 1 .. Len(stack'), NEW j \in 1 .. k - 1
        PROVE  stack'[k].file \in Imported(stack[j].file)'
    <3>1. j \in 1 .. Len(stack') /\ stack'[j].file \in File
      BY <1>4
    <3>2. stack'[k].file \in Imported(stack'[j].file)
      BY <1>4, <1>5 DEF Path
    <3>. QED
      BY <3>1, <3>2, <1>1, <1>2 DEF Imported, Least, Closed
  <2>. QED
    BY <2>1, <1>1, <1>2, <1>4, <1>5 DEF Path
<1>6. Covered(stack', rootsLeft', SafeFiles) => Covered(stack, rootsLeft, SafeFiles)'
  BY <1>1, <1>2 DEF Covered
<1>7. Covered(stack', rootsLeft', ToSet(order')) => Covered(stack, rootsLeft, ToSet(order))'
  BY <1>1 DEF Covered, ToSet
<1>8. UNCHANGED <<phase, cyclic>> /\ VerdictTrue => VerdictTrue'
  BY <1>2, <1>3 DEF VerdictTrue
<1>9. UNCHANGED order /\ OrderSorted => OrderSorted'
  BY <1>1, <1>2 DEF OrderSorted, Sorted, ToSet, IsInjective
<1>. QED
  BY <1>5, <1>6, <1>7, <1>8, <1>9

\* The invariant holds when the check begins.
LEMMA InitIInv == Init => IInv
<1>. SUFFICES ASSUME Init PROVE IInv
  OBVIOUS
<1>. USE DEF Init
<1>1. TypeOK
  BY EmptySeq DEF TypeOK
<1>2. Path(stack) /\ Callers(stack, parents)
  BY DEF Path, Callers
<1>3. Explored
  BY DEF Explored, Covered
<1>4. VerdictTrue
  BY DEF VerdictTrue
<1>5. OrderSorted
  BY DEF OrderSorted, Sorted, IsInjective, ToSet
<1>6. PhasesInOrder
  BY DEF PhasesInOrder
<1>. QED
  BY <1>1, <1>2, <1>3, <1>4, <1>5, <1>6 DEF IInv

\* check_imports_for_cycles is called for a root.
LEMMA CheckRootIInv ==
    ASSUME IInv, NEW r \in rootsLeft, CheckRoot(r)
    PROVE  IInv'
<1>. USE DEF CheckRoot
<1>1. /\ TypeOK /\ Path(stack) /\ Explored /\ VerdictTrue /\ OrderSorted /\ PhasesInOrder
      /\ UNCHANGED graph
  BY DEF IInv
<1>2. r \in roots /\ r \in File /\ imports \in [File -> SUBSET File] /\ roots \in SUBSET File
  BY <1>1 DEF TypeOK
<1>3. Call(r, 0) \in CallType /\ stack' \in Seq(CallType)
  BY <1>2, CallFacts
<1>4. TypeOK'
  BY <1>1, <1>2, <1>3, EmptySeq DEF TypeOK, CallType, graph
<1>5. Path(stack)'
  BY <1>1, <1>2, <1>3, PathStart, Frame
<1>6. Callers(stack, parents)'
  <2>1. Callers(stack', parents')
    BY <1>2, CallersStart
  <2>. QED
    BY <2>1 DEF Callers
<1>7. Explored'
  <2>1. ASSUME ~cyclic
        PROVE  Covered(stack', rootsLeft', SafeFiles)
    BY <1>1, <1>2, <2>1, CoveredStart DEF Explored
  <2>. QED
    BY <1>1, <1>3, <2>1, Frame DEF Explored
<1>8. VerdictTrue' /\ OrderSorted'
  BY <1>1, <1>3, Frame
<1>9. PhasesInOrder'
  BY <1>1 DEF PhasesInOrder
<1>. QED
  BY <1>4, <1>5, <1>6, <1>7, <1>8, <1>9 DEF IInv

\* A file that imports itself is on a cycle.
LEMMA CheckDirectIInv ==
    ASSUME IInv, CheckDirect
    PROVE  IInv'
<1>. USE DEF CheckDirect
<1>. DEFINE n == Len(stack)
            f == stack[n].file
<1>1. /\ TypeOK /\ Path(stack) /\ Callers(stack, parents) /\ Explored /\ VerdictTrue
      /\ OrderSorted /\ PhasesInOrder /\ UNCHANGED graph
  BY DEF IInv
<1>2. /\ imports \in [File -> SUBSET File] /\ roots \in SUBSET File
      /\ stack \in Seq(CallType) /\ stack # <<>>
  BY <1>1 DEF TypeOK, CallType
<1>3. n \in 1 .. n /\ f \in File /\ DOMAIN stack = 1 .. n
  BY <1>2, CallsFacts, EmptySeq
<1>4. f \in Searched /\ f \in Imported(f)
  <2>1. f \in Searched /\ f \in imports[f]
    BY <1>1, <1>3 DEF Path, Top
  <2>. QED
    BY <2>1, <1>2, <1>3, ImportedFacts
<1>5. stack' = After(stack, f)
  BY DEF Looked, After, Top
<1>6. stack' \in Seq(CallType) /\ Path(stack') /\ Len(stack') = n
      /\ \A k \in 1 .. n : stack'[k].file = stack[k].file /\ stack'[k].end = stack[k].end
  <2>. DEFINE after == After(stack, f)
  <2>. HIDE DEF n, f
  <2>1. /\ after \in Seq(CallType) /\ Len(after) = Len(stack)
        /\ \A k \in 1 .. Len(stack) :
              after[k].file = stack[k].file /\ after[k].end = stack[k].end
    BY <1>2, <1>3, AfterFacts
  <2>2. Path(after)
    BY <1>1, <1>2, <1>3, PathSkip
  <2>. HIDE DEF after
  <2>. QED
    BY <2>1, <2>2, <1>5 DEF n, after
<1>7. TypeOK'
  BY <1>1, <1>6 DEF TypeOK, CallType, graph
<1>8. Path(stack)' /\ OrderSorted'
  BY <1>1, <1>6, Frame
<1>9. Callers(stack, parents)'
  <2>1. DOMAIN stack' = 1 .. n
    BY <1>6, CallsFacts
  <2>. QED
    BY <2>1, <1>1, <1>3, <1>6 DEF Callers
<1>10. Explored' /\ PhasesInOrder'
  BY <1>1 DEF Explored, PhasesInOrder
<1>11. VerdictTrue'
  BY <1>1, <1>3, <1>4, GraphUnchanged DEF VerdictTrue
<1>. QED
  BY <1>7, <1>8, <1>9, <1>10, <1>11 DEF IInv

\* What a call in the check finds: the callers are the chain, and an import that
\* is among them closes a cycle.
LEMMA ChainFacts ==
    ASSUME TypeOK, Path(stack), Callers(stack, parents), stack # <<>>,
           NEW i \in Top.left
    PROVE  LET n == Len(stack)
               chain == Trimmed(Top.end)
           IN  /\ n \in Nat \ {0} /\ Top \in CallType /\ i \in File
               /\ Top.end = n - 1 /\ n - 1 <= Len(parents)
               /\ chain \in Seq(File) /\ Len(chain) = n - 1
               /\ \A j \in 1 .. n - 1 : chain[j] = parents[j] /\ chain[j] = stack[j].file
               /\ Contains(chain, i) => \E f \in Searched : f \in Imported(f)
<1>. DEFINE n == Len(stack)
            chain == SubSeq(parents, 1, n - 1)
            g == stack[n].file
<1>1. /\ imports \in [File -> SUBSET File] /\ roots \in SUBSET File
      /\ stack \in Seq(CallType) /\ parents \in Seq(File)
  BY DEF TypeOK, CallType
<1>2. /\ n \in Nat \ {0} /\ DOMAIN stack = 1 .. n /\ n \in 1 .. n /\ Top \in CallType
      /\ \A k \in 1 .. n : stack[k].file \in File
  BY <1>1, CallsFacts, EmptySeq DEF Top
<1>3. Top.end = n - 1 /\ n - 1 <= Len(parents) /\ Trimmed(Top.end) = chain
  BY <1>2 DEF Callers, Top, Trimmed
<1>. HIDE DEF n
<1>4. /\ chain \in Seq(File) /\ Len(chain) = n - 1
      /\ \A j \in 1 .. n - 1 : chain[j] = parents[j]
  BY <1>1, <1>2, <1>3
<1>5. \A j \in 1 .. n - 1 : chain[j] = stack[j].file
  BY <1>2, <1>4 DEF Callers
<1>. HIDE DEF chain
<1>6. i \in imports[g] /\ g \in Searched /\ i \in File /\ g \in File
  <2>1. Top = stack[n]
    BY DEF Top, n
  <2>. QED
    BY <2>1, <1>1, <1>2 DEF Path
<1>7. ASSUME Contains(chain, i)
      PROVE  \E f \in Searched : f \in Imported(f)
  <2>1. PICK j \in 1 .. n - 1 : i = stack[j].file
    BY <1>4, <1>5, <1>7 DEF Contains
  <2>2. g \in Imported(i)
    BY <2>1, <1>2 DEF Path
  <2>3. i \in Imported(i) /\ i \in Searched
    BY <2>2, <1>1, <1>6, ImportedFacts, SearchedFacts
  <2>. QED
    BY <2>3
<1>. QED
  BY <1>2, <1>3, <1>4, <1>5, <1>6, <1>7 DEF n

\* check_imports_for_cycles comes to an import.
LEMMA CheckImportIInv ==
    ASSUME IInv, stack # <<>>, NEW i \in Top.left, CheckImport(i)
    PROVE  IInv'
<1>. DEFINE n == Len(stack)
            g == stack[n].file
            chain == Trimmed(Top.end)
            after == After(stack, i)
            c == Call(i, Len(chain) + 1)
<1>1. /\ TypeOK /\ Path(stack) /\ Callers(stack, parents) /\ Explored /\ VerdictTrue
      /\ OrderSorted /\ PhasesInOrder /\ UNCHANGED graph
      /\ phase = "check" /\ UNCHANGED <<phase, rootsLeft, order>>
      /\ cyclic' = (cyclic \/ Contains(chain, i)) /\ i # g
      /\ parents' = Append(chain, g)
      /\ stack' = after \o (IF ~Contains(chain, i) THEN <<c>> ELSE <<>>)
  BY DEF IInv, CheckImport, Follow, Looked, After, Top, graph
<1>2. /\ imports \in [File -> SUBSET File] /\ roots \in SUBSET File
      /\ stack \in Seq(CallType) /\ cyclic \in BOOLEAN
  BY <1>1 DEF TypeOK, CallType
<1>3. /\ n \in Nat \ {0} /\ Top \in CallType /\ i \in File
      /\ Top.end = n - 1 /\ n - 1 <= Len(parents)
      /\ chain \in Seq(File) /\ Len(chain) = n - 1
      /\ \A j \in 1 .. n - 1 : chain[j] = parents[j] /\ chain[j] = stack[j].file
      /\ Contains(chain, i) => \E f \in Searched : f \in Imported(f)
  BY <1>1, ChainFacts
<1>4. /\ DOMAIN stack = 1 .. n /\ n \in 1 .. n /\ g \in File /\ Top = stack[n]
      /\ chain = SubSeq(parents, 1, stack[n].end)
  BY <1>2, <1>3, CallsFacts DEF Top, Trimmed
<1>5. c \in CallType /\ c.file = i /\ c.left = imports[i] /\ c.end = Len(chain) + 1
  BY <1>2, <1>3, CallFacts
<1>6. /\ after \in Seq(CallType) /\ Len(after) = n /\ Path(after)
      /\ \A k \in 1 .. n : after[k].file = stack[k].file /\ after[k].end = stack[k].end
  <2>. HIDE DEF chain, c, g
  <2>1. /\ after \in Seq(CallType) /\ Len(after) = Len(stack)
        /\ \A k \in 1 .. Len(stack) :
              after[k].file = stack[k].file /\ after[k].end = stack[k].end
    BY <1>1, <1>2, <1>3, AfterFacts
  <2>2. Path(after)
    BY <1>1, <1>2, <1>3, PathSkip
  <2>. HIDE DEF after
  <2>. QED
    BY <2>1, <2>2
<1>. HIDE DEF n, chain, c, g, after
<1>7. /\ parents' \in Seq(File) /\ Len(parents') = n /\ parents'[n] = g
      /\ \A j \in 1 .. n - 1 : parents'[j] = chain[j]
  BY <1>1, <1>3, <1>4
<1>8. /\ stack' \in Seq(CallType) /\ Path(stack') /\ Callers(stack', parents')
      /\ ~cyclic' => Covered(stack', rootsLeft', SafeFiles)
  <2>1. CASE ~Contains(chain, i)
    <3>1. stack' = Append(after, c)
      BY <2>1, <1>1, <1>5, <1>6, AppendIsConcat
    <3>2. stack' \in Seq(CallType)
      BY <3>1, <1>5, <1>6, AppendProperties
    <3>3. Path(stack')
      BY <3>1, <1>1, <1>2, <1>3, <1>4, <1>5, PathPush DEF after, n
    <3>4. \A j \in 1 .. Len(chain) : chain[j] # i
      BY <2>1 DEF Contains
    <3>5. Callers(stack', parents')
      BY <3>1, <3>4, <1>1, <1>2, <1>3, <1>4, <1>5, CallersPush DEF after, n, g, TypeOK
    <3>6. ASSUME ~cyclic'
          PROVE  Covered(stack', rootsLeft', SafeFiles)
      BY <3>1, <3>6, <1>1, <1>2, <1>3, <1>5, CoveredPush DEF after, Explored
    <3>. QED
      BY <3>2, <3>3, <3>5, <3>6
  <2>2. CASE Contains(chain, i)
    <3>1. stack' = after
      BY <2>2, <1>1, <1>6, ConcatEmptySeq
    <3>2. DOMAIN stack' = 1 .. n
      BY <3>1, <1>6, CallsFacts
    <3>3. Callers(stack', parents')
      <4>1. ASSUME NEW k \in 1 .. n
            PROVE  /\ stack'[k].end = k - 1 /\ k - 1 <= Len(parents')
                   /\ \A j \in 1 .. k - 1 : parents'[j] = stack'[j].file
                                            /\ stack'[j].file # stack'[k].file
        <5>1. stack[k].end = k - 1 /\ \A j \in 1 .. k - 1 : stack[j].file # stack[k].file
          BY <1>1, <1>4 DEF Callers
        <5>2. \A j \in 1 .. k - 1 : j \in 1 .. n - 1 /\ j \in 1 .. n
          BY <1>3
        <5>3. stack'[k].file = stack[k].file /\ stack'[k].end = stack[k].end
          BY <3>1, <1>6
        <5>4. ASSUME NEW j \in 1 .. k - 1
              PROVE  parents'[j] = stack'[j].file /\ stack'[j].file # stack'[k].file
          <6>1. stack'[j].file = stack[j].file
            BY <5>2, <3>1, <1>6
          <6>2. parents'[j] = stack[j].file
            BY <5>2, <1>3, <1>7
          <6>. QED
            BY <6>1, <6>2, <5>1, <5>3
        <5>5. k - 1 <= Len(parents')
          BY <1>3, <1>7
        <5>. QED
          BY <5>1, <5>3, <5>4, <5>5
      <4>. QED
        BY <3>2, <4>1 DEF Callers
    <3>. QED
      BY <2>2, <3>1, <3>3, <1>1, <1>6
  <2>. QED
    BY <2>1, <2>2
<1>9. TypeOK'
  BY <1>1, <1>2, <1>7, <1>8 DEF TypeOK, CallType, graph
<1>10. Path(stack)' /\ OrderSorted'
  BY <1>1, <1>8, Frame
<1>11. Callers(stack, parents)'
  BY <1>8 DEF Callers
<1>12. Explored'
  BY <1>1, <1>8, Frame DEF Explored
<1>13. VerdictTrue'
  <2>1. Searched' = Searched /\ Searched \subseteq File
        /\ \A f \in File : Imported(f)' = Imported(f)
    BY <1>1, <1>2, GraphUnchanged, SearchedFacts
  <2>2. cyclic' => \E f \in Searched : f \in Imported(f)
    BY <1>1, <1>3 DEF VerdictTrue
  <2>. QED
    BY <2>1, <2>2, <1>1 DEF VerdictTrue
<1>14. PhasesInOrder'
  BY <1>1 DEF PhasesInOrder
<1>. QED
  BY <1>9, <1>10, <1>11, <1>12, <1>13, <1>14 DEF IInv

\* The calls behind a return are a path, with callers as before.
LEMMA ReturnFacts ==
    ASSUME TypeOK, Path(stack), stack # <<>>
    PROVE  /\ stack \in Seq(CallType) /\ Pop \in Seq(CallType) /\ Path(Pop)
           /\ Top.file \in File /\ Top.file \in Searched
           /\ Callers(stack, parents) => Callers(Pop, parents)
           /\ \A S, T : /\ Covered(stack, rootsLeft, S) /\ S \subseteq T /\ Top.file \in T
                        => Covered(Pop, rootsLeft, T)
           /\ \A S : Covered(stack, rootsLeft, S) /\ Top.left = {} => imports[Top.file] \subseteq S
<1>1. stack \in Seq(CallType) /\ parents \in Seq(File)
  BY DEF TypeOK, CallType
<1>2. /\ Len(stack) \in Nat \ {0} /\ Len(stack) \in DOMAIN stack
      /\ Top = stack[Len(stack)] /\ Top.file \in File
  BY <1>1, CallsFacts, EmptySeq DEF Top
<1>3. Pop \in Seq(CallType) /\ Path(Pop)
  BY <1>1, PopFacts, PathReturn DEF Pop
<1>4. Callers(stack, parents) => Callers(Pop, parents)
  BY <1>1, CallersReturn DEF Pop
<1>5. ASSUME NEW S, NEW T, Covered(stack, rootsLeft, S), S \subseteq T, Top.file \in T
      PROVE  Covered(Pop, rootsLeft, T)
  BY <1>1, <1>2, <1>5, CoveredReturn DEF Pop
<1>6. ASSUME NEW S, Covered(stack, rootsLeft, S), Top.left = {}
      PROVE  imports[Top.file] \subseteq S
  BY <1>2, <1>6 DEF Covered
<1>. QED
  BY <1>1, <1>2, <1>3, <1>4, <1>5, <1>6 DEF Path

\* check_imports_for_cycles returns.
LEMMA CheckReturnIInv ==
    ASSUME IInv, CheckReturn
    PROVE  IInv'
<1>1. /\ TypeOK /\ Path(stack) /\ Callers(stack, parents) /\ Explored /\ VerdictTrue
      /\ OrderSorted /\ PhasesInOrder /\ UNCHANGED graph
      /\ stack # <<>> /\ Top.left = {} /\ stack' = Pop
      /\ phase = "check" /\ UNCHANGED <<phase, rootsLeft, parents, cyclic, order>>
  BY DEF IInv, CheckReturn, graph
<1>2. stack' \in Seq(CallType) /\ Path(stack') /\ Callers(stack', parents)
  BY <1>1, ReturnFacts
<1>3. ASSUME ~cyclic
      PROVE  Covered(stack', rootsLeft', SafeFiles)
  <2>1. Covered(stack, rootsLeft, SafeFiles)
    BY <1>1, <1>3 DEF Explored
  <2>2. imports[Top.file] \subseteq SafeFiles /\ Top.file \in File
    BY <2>1, <1>1, ReturnFacts
  <2>3. Top.file \in SafeFiles
    BY <2>2, <1>1, SafeByImports DEF TypeOK
  <2>. QED
    BY <2>1, <2>3, <1>1, ReturnFacts
<1>4. TypeOK'
  BY <1>1, <1>2 DEF TypeOK, CallType, graph
<1>5. Path(stack)' /\ OrderSorted' /\ VerdictTrue'
  BY <1>1, <1>2, Frame
<1>6. Callers(stack, parents)'
  BY <1>1, <1>2 DEF Callers
<1>7. Explored'
  BY <1>1, <1>2, <1>3, Frame DEF Explored
<1>8. PhasesInOrder'
  BY <1>1 DEF PhasesInOrder
<1>. QED
  BY <1>4, <1>5, <1>6, <1>7, <1>8 DEF IInv

\* The check ends, with the verdict.
LEMMA CheckEndIInv ==
    ASSUME IInv, CheckEnd
    PROVE  IInv'
<1>1. /\ TypeOK /\ Path(stack) /\ Explored /\ VerdictTrue /\ OrderSorted /\ PhasesInOrder
      /\ UNCHANGED graph /\ stack = <<>> /\ rootsLeft = {} /\ rootsLeft' = roots
      /\ phase = "check" /\ phase' = (IF cyclic THEN "refused" ELSE "flatten")
      /\ UNCHANGED <<stack, parents, cyclic, order>>
  BY DEF IInv, CheckEnd, graph
<1>2. /\ imports \in [File -> SUBSET File] /\ roots \in SUBSET File
      /\ imports' = imports /\ roots' = roots /\ cyclic \in BOOLEAN
  BY <1>1 DEF TypeOK, graph
<1>3. TypeOK' /\ PhasesInOrder'
  BY <1>1, <1>2 DEF TypeOK, PhasesInOrder
<1>4. stack' \in Seq(CallType)
  BY <1>1, EmptySeq
<1>5. Path(stack)' /\ Explored' /\ (phase' = "check" => Callers(stack, parents)')
  BY <1>1, <1>2 DEF Path, Explored, Covered
<1>6. OrderSorted'
  BY <1>1, <1>4, Frame
<1>7. VerdictTrue'
  <2>1. Searched' = Searched /\ Searched \subseteq File
        /\ \A f \in File : Imported(f)' = Imported(f)
    BY <1>1, <1>2, GraphUnchanged, SearchedFacts
  <2>2. ASSUME ~cyclic
        PROVE  \A f \in Searched : f \notin Imported(f)
    <3>1. roots \subseteq SafeFiles
      BY <1>1, <2>2 DEF Explored, Covered
    <3>. QED
      BY <3>1, <1>2, SafeByRoots
  <2>. QED
    BY <2>1, <2>2, <1>1, <1>2 DEF VerdictTrue
<1>. QED
  BY <1>3, <1>5, <1>6, <1>7 DEF IInv

\* recursive_dedupe is called for a root.
LEMMA FlattenRootIInv ==
    ASSUME IInv, NEW r \in rootsLeft, FlattenRoot(r)
    PROVE  IInv'
<1>1. /\ TypeOK /\ Path(stack) /\ Explored /\ VerdictTrue /\ OrderSorted /\ PhasesInOrder
      /\ UNCHANGED graph /\ stack = <<>> /\ stack' = <<Call(r, 0)>> /\ rootsLeft' = rootsLeft \ {r}
      /\ phase = "flatten" /\ UNCHANGED <<phase, parents, cyclic, order>>
  BY DEF IInv, FlattenRoot, graph
<1>2. r \in roots /\ r \in File /\ imports \in [File -> SUBSET File] /\ roots \in SUBSET File
  BY <1>1 DEF TypeOK
<1>3. Call(r, 0) \in CallType /\ stack' \in Seq(CallType)
  BY <1>1, <1>2, CallFacts
<1>4. TypeOK'
  BY <1>1, <1>2, <1>3 DEF TypeOK, CallType, graph
<1>5. Path(stack') /\ Covered(stack', rootsLeft', ToSet(order'))
  BY <1>1, <1>2, PathStart, CoveredStart DEF Explored
<1>6. Path(stack)' /\ OrderSorted' /\ VerdictTrue' /\ Explored'
  BY <1>1, <1>3, <1>5, Frame DEF Explored
<1>7. PhasesInOrder'
  BY <1>1 DEF PhasesInOrder
<1>. QED
  BY <1>1, <1>4, <1>6, <1>7 DEF IInv

\* recursive_dedupe is called for an import.
LEMMA FlattenImportIInv ==
    ASSUME IInv, stack # <<>>, NEW i \in Top.left, FlattenImport(i)
    PROVE  IInv'
<1>. DEFINE c == Call(i, 0)
<1>1. /\ TypeOK /\ Path(stack) /\ Explored /\ VerdictTrue /\ OrderSorted /\ PhasesInOrder
      /\ UNCHANGED graph /\ stack' = Append(After(stack, i), c)
      /\ phase = "flatten" /\ UNCHANGED <<phase, rootsLeft, parents, cyclic, order>>
  BY DEF IInv, FlattenImport, graph, Looked, After
<1>2. /\ imports \in [File -> SUBSET File] /\ roots \in SUBSET File /\ stack \in Seq(CallType)
  BY <1>1 DEF TypeOK, CallType
<1>3. i \in File /\ i \in stack[Len(stack)].left
  BY <1>2, CallsFacts, EmptySeq DEF Top
<1>4. c \in CallType /\ c.file = i /\ c.left = imports[i]
  BY <1>2, <1>3, CallFacts
<1>. HIDE DEF c
<1>5. Pushed(stack', stack, i, c)
  BY <1>1, <1>2, <1>3, <1>4, PushFacts
<1>6. stack' \in Seq(CallType)
  BY <1>5 DEF Pushed
<1>7. Path(stack')
  BY <1>1, <1>2, <1>3, <1>4, PathPush
<1>8. Covered(stack', rootsLeft', ToSet(order'))
  <2>1. Covered(stack, rootsLeft, ToSet(order))
    BY <1>1 DEF Explored
  <2>. QED
    BY <2>1, <1>1, <1>2, <1>3, <1>4, CoveredPush
<1>9. TypeOK'
  BY <1>1, <1>6 DEF TypeOK, CallType, graph
<1>10. Path(stack)' /\ OrderSorted' /\ VerdictTrue' /\ Explored'
  BY <1>1, <1>6, <1>7, <1>8, Frame DEF Explored
<1>11. PhasesInOrder'
  BY <1>1 DEF PhasesInOrder
<1>. QED
  BY <1>1, <1>9, <1>10, <1>11 DEF IInv

\* A file is entered once and behind its imports.
LEMMA EnterFacts ==
    ASSUME order \in Seq(File), OrderSorted, NEW f \in Searched, Searched \subseteq File,
           imports[f] \subseteq ToSet(order), NEW entered, entered = Enter(f)
    PROVE  /\ entered \in Seq(File)
           /\ ToSet(entered) = ToSet(order) \cup {f}
           /\ Sorted(entered)
<1>1. Len(order) \in Nat /\ DOMAIN order = 1 .. Len(order)
  BY LenProperties
<1>2. CASE Contains(order, f)
  <2>1. entered = order /\ f \in ToSet(order)
    BY <1>1, <1>2 DEF Enter, Contains, ToSet
  <2>. QED
    BY <2>1 DEF OrderSorted
<1>3. CASE ~Contains(order, f)
  <2>. DEFINE m == Len(order)
  <2>1. /\ entered \in Seq(File) /\ Len(entered) = m + 1 /\ entered[m + 1] = f
        /\ \A k \in 1 .. m : entered[k] = order[k]
    BY <1>1, <1>3, AppendProperties DEF Enter
  <2>2. DOMAIN entered = 1 .. m + 1
    BY <2>1, LenProperties
  <2>3. \A k \in 1 .. m : order[k] # f
    BY <1>3 DEF Contains
  <2>. HIDE DEF m
  <2>4. m \in Nat /\ DOMAIN order = 1 .. m
    BY <1>1 DEF m
  <2>5. ToSet(entered) = ToSet(order) \cup {f}
    <3>1. \A k \in 1 .. m + 1 : k \in 1 .. m \/ k = m + 1
      BY <2>4
    <3>. QED
      BY <3>1, <2>1, <2>2, <2>4 DEF ToSet
  <2>6. IsInjective(entered)
    <3>1. ASSUME NEW a \in 1 .. m + 1, NEW b \in 1 .. m + 1, entered[a] = entered[b]
          PROVE  a = b
      <4>1. CASE a \in 1 .. m /\ b \in 1 .. m
        BY <4>1, <3>1, <2>1, <2>4 DEF OrderSorted, Sorted, IsInjective
      <4>2. CASE a = m + 1 \/ b = m + 1
        <5>1. ASSUME NEW k \in 1 .. m + 1, entered[k] = f
              PROVE  k = m + 1
          BY <5>1, <2>1, <2>3, <2>4
        <5>. QED
          BY <5>1, <4>2, <3>1, <2>1
      <4>. QED
        BY <4>1, <4>2, <2>4
    <3>. QED
      BY <3>1, <2>2 DEF IsInjective
  <2>7. ASSUME NEW n \in 1 .. m + 1
        PROVE  imports[entered[n]] \subseteq {entered[k] : k \in 1 .. n - 1}
    <3>1. CASE n \in 1 .. m
      <4>1. imports[order[n]] \subseteq {order[k] : k \in 1 .. n - 1}
        BY <3>1, <2>4 DEF OrderSorted, Sorted
      <4>2. \A k \in 1 .. n - 1 : k \in 1 .. m
        BY <3>1, <2>4
      <4>. QED
        BY <4>1, <4>2, <3>1, <2>1
    <3>2. CASE n = m + 1
      <4>1. n - 1 = m
        BY <3>2, <2>4
      <4>2. ToSet(order) \subseteq {entered[k] : k \in 1 .. m}
        BY <2>1, <2>4 DEF ToSet
      <4>. QED
        BY <4>1, <4>2, <3>2, <2>1
    <3>. QED
      BY <3>1, <3>2, <2>4
  <2>. QED
    BY <2>1, <2>2, <2>5, <2>6, <2>7 DEF Sorted
<1>. QED
  BY <1>2, <1>3

\* recursive_dedupe enters its file and returns.
LEMMA FlattenReturnIInv ==
    ASSUME IInv, FlattenReturn
    PROVE  IInv'
<1>1. /\ TypeOK /\ Path(stack) /\ Explored /\ VerdictTrue /\ OrderSorted /\ PhasesInOrder
      /\ UNCHANGED graph /\ stack # <<>> /\ Top.left = {} /\ stack' = Pop
      /\ order' = Enter(Top.file)
      /\ phase = "flatten" /\ UNCHANGED <<phase, rootsLeft, parents, cyclic>>
  BY DEF IInv, FlattenReturn, graph
<1>2. /\ imports \in [File -> SUBSET File] /\ roots \in SUBSET File /\ order \in Seq(File)
      /\ imports' = imports /\ roots' = roots
  BY <1>1 DEF TypeOK, graph
<1>3. stack' \in Seq(CallType) /\ Path(stack') /\ Top.file \in File /\ Top.file \in Searched
  BY <1>1, ReturnFacts
<1>4. Covered(stack, rootsLeft, ToSet(order))
  BY <1>1 DEF Explored
<1>5. imports[Top.file] \subseteq ToSet(order)
  BY <1>1, <1>4, ReturnFacts
<1>6. /\ order' \in Seq(File)
      /\ ToSet(order') = ToSet(order) \cup {Top.file}
      /\ Sorted(order')
  BY <1>1, <1>2, <1>3, <1>5, SearchedFacts, EnterFacts
<1>7. Covered(stack', rootsLeft', ToSet(order'))
  BY <1>1, <1>4, <1>6, ReturnFacts
<1>8. TypeOK'
  BY <1>1, <1>2, <1>3, <1>6 DEF TypeOK, CallType
<1>9. Path(stack)' /\ VerdictTrue' /\ Explored'
  BY <1>1, <1>3, <1>7, Frame DEF Explored
<1>10. OrderSorted'
  <2>1. Searched' = Searched /\ ToSet(order') \subseteq Searched
    BY <1>1, <1>3, <1>6, GraphUnchanged DEF OrderSorted
  <2>. QED
    BY <2>1, <1>2, <1>6 DEF OrderSorted, Sorted, IsInjective, ToSet
<1>11. PhasesInOrder'
  BY <1>1 DEF PhasesInOrder
<1>. QED
  BY <1>1, <1>8, <1>9, <1>10, <1>11 DEF IInv

\* flatten ends.
LEMMA FlattenEndIInv ==
    ASSUME IInv, FlattenEnd
    PROVE  IInv'
<1>1. /\ TypeOK /\ Path(stack) /\ Explored /\ VerdictTrue /\ OrderSorted /\ PhasesInOrder
      /\ UNCHANGED graph /\ stack = <<>> /\ rootsLeft = {}
      /\ phase = "flatten" /\ phase' = "done"
      /\ UNCHANGED <<rootsLeft, stack, parents, cyclic, order>>
  BY DEF IInv, FlattenEnd, graph
<1>2. imports' = imports /\ roots' = roots /\ stack' \in Seq(CallType)
  BY <1>1, EmptySeq DEF graph
<1>3. TypeOK' /\ Explored'
  BY <1>1, <1>2 DEF TypeOK, Explored
<1>4. Path(stack)'
  BY <1>1 DEF Path
<1>5. OrderSorted'
  BY <1>1, <1>2, Frame
<1>6. VerdictTrue'
  BY <1>1, GraphUnchanged, SearchedFacts DEF VerdictTrue, TypeOK
<1>7. PhasesInOrder'
  BY <1>1, <1>2 DEF PhasesInOrder, Explored, Covered, ToSet
<1>. QED
  BY <1>1, <1>3, <1>4, <1>5, <1>6, <1>7 DEF IInv

\* Every step preserves the invariant.
LEMMA StepIInv == IInv /\ [Next]_vars => IInv'
<1>. SUFFICES ASSUME IInv, [Next]_vars PROVE IInv'
  OBVIOUS
<1>1. ASSUME NEW r \in rootsLeft, CheckRoot(r) PROVE IInv'
  BY <1>1, CheckRootIInv
<1>2. ASSUME NEW r \in rootsLeft, FlattenRoot(r) PROVE IInv'
  BY <1>2, FlattenRootIInv
<1>3. ASSUME stack # <<>>, NEW i \in Top.left, CheckImport(i) PROVE IInv'
  BY <1>3, CheckImportIInv
<1>4. ASSUME stack # <<>>, NEW i \in Top.left, FlattenImport(i) PROVE IInv'
  BY <1>4, FlattenImportIInv
<1>5. CASE CheckDirect
  BY <1>5, CheckDirectIInv
<1>6. CASE CheckReturn
  BY <1>6, CheckReturnIInv
<1>7. CASE CheckEnd
  BY <1>7, CheckEndIInv
<1>8. CASE FlattenReturn
  BY <1>8, FlattenReturnIInv
<1>9. CASE FlattenEnd
  BY <1>9, FlattenEndIInv
<1>10. CASE UNCHANGED vars
  <2>1. /\ UNCHANGED graph /\ UNCHANGED <<phase, rootsLeft, stack, parents, cyclic, order>>
        /\ imports' = imports /\ roots' = roots
    BY <1>10 DEF vars, graph
  <2>2. TypeOK' /\ PhasesInOrder'
    BY <2>1 DEF IInv, TypeOK, PhasesInOrder, ToSet
  <2>3. stack' \in Seq(CallType)
    BY <2>1 DEF IInv, TypeOK, CallType
  <2>4. Path(stack)' /\ OrderSorted' /\ VerdictTrue' /\ Explored'
    BY <2>1, <2>3, Frame DEF IInv, Explored
  <2>5. (phase = "check" => Callers(stack, parents))'
    BY <2>1 DEF IInv, Callers
  <2>. QED
    BY <2>2, <2>4, <2>5 DEF IInv
<1>. QED
  BY <1>1, <1>2, <1>3, <1>4, <1>5, <1>6, <1>7, <1>8, <1>9, <1>10 DEF Next

-----------------------------------------------------------------------------
\* The theorems.

\* The invariant holds in every state of both searches.
THEOREM Inductive == Spec => []IInv
<1>. QED
  BY InitIInv, StepIInv, PTL DEF Spec

\* check_imports_for_cycles refuses a graph exactly if what is searched holds a
\* cycle, although its calls share and trim one list.
THEOREM CyclesAreFound == Spec => []CyclesFound
<1>1. IInv => CyclesFound
  BY DEF IInv, VerdictTrue, CyclesFound, TypeOK
<1>. QED
  BY <1>1, Inductive, PTL

\* Neither search nests deeper than there are files: in the check because no
\* file has two calls, in flatten because the check found no cycle.
THEOREM DepthIsBounded == Spec => []DepthBounded
<1>1. ASSUME IInv PROVE DepthBounded
  <2>. DEFINE n == Len(stack)
              file == [k \in 1 .. n |-> stack[k].file]
  <2>1. stack \in Seq(CallType) /\ imports \in [File -> SUBSET File]
    BY <1>1 DEF IInv, TypeOK, CallType
  <2>2. /\ n \in Nat /\ DOMAIN stack = 1 .. n
        /\ \A k \in 1 .. n : stack[k].file \in File
    BY <2>1, CallsFacts
  <2>. HIDE DEF n
  <2>3. ASSUME NEW k \in 1 .. n, NEW j \in 1 .. k - 1
        PROVE  stack[j].file # stack[k].file
    <3>1. CASE phase = "check"
      BY <1>1, <2>2, <3>1 DEF IInv, Callers
    <3>2. CASE phase = "flatten"
      <4>1. stack[k].file \in Imported(stack[j].file) /\ stack[k].file \in Searched
        BY <1>1, <2>2 DEF IInv, Path
      <4>2. stack[k].file \notin Imported(stack[k].file)
        BY <1>1, <3>2, <4>1 DEF IInv, VerdictTrue
      <4>. QED
        BY <4>1, <4>2
    <3>3. CASE phase \in {"refused", "done"}
      BY <1>1, <3>3, <2>2 DEF IInv, PhasesInOrder, n
    <3>. QED
      BY <1>1, <3>1, <3>2, <3>3 DEF IInv, TypeOK
  <2>4. file \in Injection(1 .. n, File)
    <3>1. ASSUME NEW a \in 1 .. n, NEW b \in 1 .. n, stack[a].file = stack[b].file
          PROVE  a = b
      <4>1. ~(a \in 1 .. b - 1) /\ ~(b \in 1 .. a - 1)
        BY <3>1, <2>3
      <4>. QED
        BY <4>1, <2>2
    <3>. QED
      BY <3>1, <2>2 DEF Injection, IsInjective
  <2>. HIDE DEF file
  <2>5. Cardinality(1 .. n) <= Cardinality(File)
    BY <2>4, FS_Injection, ConstantsAssumption
  <2>6. Cardinality(1 .. n) = n
    BY <2>2, FS_Interval
  <2>. QED
    BY <2>5, <2>6 DEF DepthBounded, n
<1>. QED
  BY <1>1, Inductive, PTL

\* flatten puts every file behind all it imports, enters it once, and in the end
\* has entered all that is searched and nothing else.
THEOREM IndependentComeFirst == Spec => []IndependentFirst
<1>1. ASSUME IInv PROVE IndependentFirst
  <2>1. /\ imports \in [File -> SUBSET File] /\ roots \in SUBSET File /\ OrderSorted
        /\ order \in Seq(File)
    BY <1>1 DEF IInv, TypeOK
  <2>2. ASSUME phase = "done"
        PROVE  Searched \subseteq ToSet(order)
    <3>1. roots \subseteq ToSet(order)
      BY <1>1, <2>2 DEF IInv, PhasesInOrder
    <3>2. DOMAIN order = 1 .. Len(order) /\ Len(order) \in Nat
      BY <2>1, LenProperties
    <3>3. ToSet(order) \in SUBSET File
      BY <2>1, <3>2, ElementOfSeq DEF ToSet
    <3>4. Closed(ToSet(order))
      <4>1. ASSUME NEW n \in DOMAIN order
            PROVE  imports[order[n]] \subseteq ToSet(order)
        <5>1. \A k \in 1 .. n - 1 : k \in DOMAIN order
          BY <3>2
        <5>. QED
          BY <5>1, <2>1 DEF OrderSorted, Sorted, ToSet
      <4>. QED
        BY <4>1 DEF Closed, ToSet
    <3>. QED
      BY <3>1, <3>3, <3>4, <2>1, SearchedFacts
  <2>. QED
    BY <2>1, <2>2 DEF OrderSorted, Sorted, IndependentFirst
<1>. QED
  BY <1>1, Inductive, PTL

================================================================================
