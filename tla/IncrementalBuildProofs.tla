------------------------ MODULE IncrementalBuildProofs ------------------------
(***************************************************************************)
(* Type correctness and soundness of the incremental build, for every set  *)
(* of modules, dependency graph, layout, output mode and bound.            *)
(***************************************************************************)
EXTENDS IncrementalBuildInv, TLAPS

-----------------------------------------------------------------------------
\* The dependency graph.

\* A module is among those it depends on, and so are the dependencies of each
\* of them (recursive_dedupe visits them before the module).
LEMMA ClosureFacts ==
    ASSUME NEW m \in Module
    PROVE  /\ m \in Closure(m)
           /\ Closure(m) \subseteq Module
           /\ \A d \in Closure(m) : Deps[d] \subseteq Closure(m)
<1>1. m \in Closure(m) /\ Closure(m) \subseteq Module
  BY DEF Closure
<1>2. ASSUME NEW d \in Closure(m), NEW e \in Deps[d]
      PROVE  e \in Closure(m)
  <2>1. d \in Module /\ e \in Module
    BY <1>1, ConstantsAssumption
  <2>2. ASSUME NEW S \in SUBSET Module,
               m \in S, \A x \in S : Deps[x] \subseteq S
        PROVE  e \in S
    BY <2>2 DEF Closure
  <2>. QED
    BY <2>1, <2>2 DEF Closure
<1>. QED
  BY <1>1, <1>2

\* The closure is the smallest set that holds m and is closed downwards.
LEMMA ClosureLeast ==
    ASSUME NEW m \in Module, NEW S \in SUBSET Module,
           m \in S, \A x \in S : Deps[x] \subseteq S
    PROVE  Closure(m) \subseteq S
BY DEF Closure

\* What a dependency of m depends on, m depends on.
LEMMA ClosureTransitive ==
    ASSUME NEW m \in Module, NEW d \in Closure(m)
    PROVE  Closure(d) \subseteq Closure(m)
<1>1. d \in Module /\ Closure(m) \in SUBSET Module
  BY ClosureFacts
<1>2. \A x \in Closure(m) : Deps[x] \subseteq Closure(m)
  BY ClosureFacts
<1>. QED
  BY <1>1, <1>2, ClosureLeast

\* What the text of a module is made from is closed in the same way.
LEMMA SourcesFacts ==
    ASSUME NEW m \in Module
    PROVE  /\ m \in Sources(m)
           /\ Sources(m) \subseteq Module
           /\ Sources(m) \subseteq Closure(m)
           /\ \A d \in Sources(m) : Sources(d) \subseteq Sources(m)
           /\ m \in Chem => Sources(m) \subseteq Chem
           /\ m \notin Chem => Sources(m) = {m} /\ Kind[m] = "c"
<1>1. m \in Closure(m) /\ Closure(m) \subseteq Module
  BY ClosureFacts
<1>2. Kind[m] \in {"chem", "c"}
  BY ConstantsAssumption
<1>3. CASE m \in Chem
  <2>1. Sources(m) = Closure(m) \cap Chem
    BY <1>3 DEF Sources, Chem
  <2>2. ASSUME NEW d \in Sources(m)
        PROVE  Sources(d) \subseteq Sources(m)
    <3>1. d \in Closure(m) /\ d \in Chem
      BY <2>1
    <3>2. Sources(d) = Closure(d) \cap Chem
      BY <3>1 DEF Sources, Chem
    <3>. QED
      BY <3>1, <3>2, <2>1, ClosureTransitive
  <2>. QED
    BY <1>1, <1>3, <2>1, <2>2
<1>4. CASE m \notin Chem
  BY <1>1, <1>2, <1>4 DEF Sources, Chem
<1>. QED
  BY <1>3, <1>4

\* Order keeps what a module depends on before it.
LEMMA OrderClosed ==
    ASSUME NEW i \in 1..Len(Order)
    PROVE  /\ Order[i] \in Module
           /\ Closure(Order[i]) \subseteq {Order[j] : j \in 1..i}
<1>1. Len(Order) \in Nat /\ \A j \in 1..Len(Order) : Order[j] \in Module
  BY OrderAssumption
<1>. DEFINE S == {Order[j] : j \in 1..i}
<1>2. S \in SUBSET Module /\ Order[i] \in S
  BY <1>1
<1>3. ASSUME NEW x \in S
      PROVE  Deps[x] \subseteq S
  <2>1. PICK j \in 1..i : x = Order[j]
    OBVIOUS
  <2>2. j \in 1..Len(Order)
    BY <1>1
  <2>3. Deps[x] \subseteq {Order[k] : k \in 1..(j - 1)}
    BY <2>1, <2>2, OrderAssumption
  <2>. QED
    BY <2>3, <1>1
<1>. QED
  BY <1>1, <1>2, <1>3, ClosureLeast

\* The modules behind position p, the one at p, and the ones still ahead.
Behind(p) == {Order[i] : i \in 1..(p - 1)}

\* Order lists every module once, behind the modules its text is made from
\* (flatten_dedupe_sorted): at each position the modules behind it are closed.
LEMMA BehindFacts ==
    /\ Behind(1) = {}
    /\ Behind(Len(Order) + 1) = Module
    /\ \A p \in 1..(Len(Order) + 1) :
          /\ Behind(p) \subseteq Module
          /\ \A n \in Behind(p) : Sources(n) \subseteq Behind(p)
    /\ \A p \in 1..Len(Order) :
          /\ Order[p] \in Module \ Behind(p)
          /\ Behind(p + 1) = Behind(p) \cup {Order[p]}
          /\ Sources(Order[p]) \subseteq Behind(p) \cup {Order[p]}
<1>1. Len(Order) \in Nat /\ \A j \in 1..Len(Order) : Order[j] \in Module
  BY OrderAssumption
<1>2. Behind(1) = {}
  BY DEF Behind
<1>3. Behind(Len(Order) + 1) = Module
  BY <1>1, OrderAssumption DEF Behind
<1>4. ASSUME NEW p \in 1..(Len(Order) + 1)
      PROVE  /\ Behind(p) \subseteq Module
             /\ \A n \in Behind(p) : Sources(n) \subseteq Behind(p)
  <2>1. Behind(p) \subseteq Module
    BY <1>1 DEF Behind
  <2>2. ASSUME NEW n \in Behind(p)
        PROVE  Sources(n) \subseteq Behind(p)
    <3>1. PICK i \in 1..(p - 1) : n = Order[i]
      BY DEF Behind
    <3>2. i \in 1..Len(Order)
      BY <1>1
    <3>3. Closure(n) \subseteq {Order[j] : j \in 1..i}
      BY <3>1, <3>2, OrderClosed
    <3>4. {Order[j] : j \in 1..i} \subseteq Behind(p)
      BY <1>1 DEF Behind
    <3>. QED
      BY <3>3, <3>4, <2>1, SourcesFacts
  <2>. QED
    BY <2>1, <2>2
<1>5. ASSUME NEW p \in 1..Len(Order)
      PROVE  /\ Order[p] \in Module \ Behind(p)
             /\ Behind(p + 1) = Behind(p) \cup {Order[p]}
             /\ Sources(Order[p]) \subseteq Behind(p) \cup {Order[p]}
  <2>1. Order[p] \in Module \ Behind(p)
    <3>1. ASSUME NEW i \in 1..(p - 1), Order[i] = Order[p] PROVE FALSE
      <4>1. i \in 1..Len(Order) /\ i # p
        BY <1>1
      <4>. QED
        BY <3>1, <4>1, OrderAssumption
    <3>. QED
      BY <1>1, <3>1 DEF Behind
  <2>2. Behind(p + 1) = Behind(p) \cup {Order[p]}
    BY <1>1 DEF Behind
  <2>3. {Order[j] : j \in 1..p} = Behind(p + 1)
    BY <1>1 DEF Behind
  <2>. QED
    BY <2>1, <2>2, <2>3, OrderClosed, SourcesFacts
<1>. QED
  BY <1>2, <1>3, <1>4, <1>5

-----------------------------------------------------------------------------
\* The position of the build.

\* The modules the loop has left behind and the one it is at.
LEMMA CurFacts ==
    ASSUME TypeOK
    PROVE  /\ Done \subseteq Module
           /\ \A n \in Done : Sources(n) \subseteq Done
           /\ pos \in 1..Len(Order) => /\ Cur \in Module \ Done
                                       /\ Sources(Cur) \subseteq Done \cup {Cur}
           /\ pos = 1 => Done = {}
           /\ pos = Len(Order) + 1 => Done = Module
BY BehindFacts DEF TypeOK, Done, Cur, Behind

\* Advance goes to the next module, or past the last one out of the loop.
LEMMA AdvanceFacts ==
    ASSUME TypeOK, pos \in 1..Len(Order), Advance
    PROVE  /\ pos' \in 1..(Len(Order) + 1)
           /\ Done' = Done \cup {Cur}
           /\ phase' \in {"import", "job", "link"}
           /\ phase' = "import" => pos' \in 1..Len(Order)
           /\ phase' # "import" => pos' = Len(Order) + 1 /\ Done' = Module
           /\ phase' = "job" => layout # "llvm"
<1>1. Len(Order) \in Nat
  BY OrderAssumption
<1>2. pos' = pos + 1
  BY DEF Advance
<1>3. Done = Behind(pos) /\ Done' = Behind(pos + 1) /\ Cur = Order[pos]
  BY <1>2 DEF Done, Behind, Cur
<1>4. phase' # "import" => pos' = Len(Order) + 1
  BY <1>1, <1>2 DEF Advance
<1>5. phase' # "import" => Done' = Module
  BY <1>2, <1>3, <1>4, BehindFacts
<1>. QED
  BY <1>1, <1>2, <1>3, <1>4, <1>5, BehindFacts DEF Advance

\* What is written to the cache files are origins.
LEMMA OriginsFacts ==
    ASSUME TypeOK, NEW m \in Module
    PROVE  /\ Text(m) \in Origins
           /\ {<<m, src[m], outMode>>} \in Origins
           /\ Torn(m) \in Origins
           /\ NoFile \in Origins
           /\ {t \in unit : t[1] \in Sources(m)} \in Origins
<1>1. Sources(m) \subseteq Module
  BY SourcesFacts
<1>2. Version \subseteq 0..MaxVersion /\ 0 \in 0..MaxVersion
  BY ConstantsAssumption DEF Version
<1>3. outMode \in OutModes /\ unit \in Origins
      /\ (\A d \in Module : parsed[d] \in 0..MaxVersion /\ src[d] \in 0..MaxVersion)
  BY <1>2 DEF TypeOK
<1>4. Text(m) \in Origins
  BY <1>1, <1>3 DEF Origins, Text
<1>5. {<<m, src[m], outMode>>} \in Origins /\ Torn(m) \in Origins
  BY <1>2, <1>3 DEF Origins, Torn
<1>6. NoFile \in Origins /\ {t \in unit : t[1] \in Sources(m)} \in Origins
  BY <1>3 DEF Origins, NoFile
<1>. QED
  BY <1>4, <1>5, <1>6

-----------------------------------------------------------------------------
\* Type correctness.

\* No build runs at first, and every variable has its type.
LEMMA InitType == Init => TypeOK /\ PhaseInv
<1>. SUFFICES ASSUME Init PROVE TypeOK /\ PhaseInv
  OBVIOUS
<1>1. Len(Order) \in Nat /\ 1 \in Version /\ 0 \in 0..MaxVersion
  BY OrderAssumption, ConstantsAssumption DEF Version
<1>2. NoFile \in Origins
  BY DEF Origins, NoFile
<1>3. TypeOK
  <2>1. jobObject \in [exists : BOOLEAN, made : Origins]
    BY <1>2 DEF Init
  <2>2. pos \in 1..(Len(Order) + 1)
    BY <1>1 DEF Init
  <2>3. /\ src \in [Module -> Version]
        /\ stamp \in [Module -> (Version \X OutModes) \cup {NoStamp}]
        /\ partial \in [Module -> Origins]
        /\ header \in [Module -> Origins]
        /\ object \in [Module -> Origins]
    BY <1>1, <1>2 DEF Init
  <2>. QED
    BY <1>1, <1>2, <2>1, <2>2, <2>3 DEF Init, TypeOK
<1>4. PhaseInv
  BY DEF Init, PhaseInv, AtModule
<1>. QED
  BY <1>3, <1>4

\* The state a build starts from again has the right types.
LEMMA DropType ==
    ASSUME DropProgress
    PROVE  /\ pos' \in 1..(Len(Order) + 1)
           /\ hasChanged' \in [Module -> {"unknown", "changed", "unchanged"}]
           /\ parsed' \in [Module -> 0..MaxVersion]
           /\ unit' \in Origins
           /\ restamped' \subseteq Module
<1>1. Len(Order) \in Nat /\ 0 \in 0..MaxVersion /\ NoFile \in Origins
  BY OrderAssumption, ConstantsAssumption DEF Origins, NoFile
<1>. QED
  BY <1>1 DEF DropProgress

\* What is linked, and a job object cut off by a kill, are sets of origins.
LEMMA LinkedType ==
    ASSUME TypeOK
    PROVE  Linked \in Origins /\ TornWhole \in Origins
<1>1. \A m \in Module : object[m] \in Origins /\ Torn(m) \in Origins
  BY OriginsFacts DEF TypeOK
<1>2. jobObject.made \in Origins
  BY DEF TypeOK
<1>. QED
  BY <1>1, <1>2 DEF Linked, Origins, TornWhole

\* Whatever a build that fails leaves of the executable is a set of origins.
LEMMA FailureType ==
    ASSUME TypeOK, EndFailed
    PROVE  exe' \in Origins
<1>1. exe \in Origins /\ NoFile \in Origins
  BY DEF TypeOK, Origins, NoFile
<1>. QED
  BY <1>1, LinkedType DEF EndFailed, AfterFailure

\* Every step keeps the types and the places a build can be in.
LEMMA NextType == TypeOK /\ PhaseInv /\ [Next]_vars => TypeOK' /\ PhaseInv'
<1>. SUFFICES ASSUME TypeOK, PhaseInv, [Next]_vars
              PROVE  TypeOK' /\ PhaseInv'
  OBVIOUS
<1>a. Len(Order) \in Nat /\ CachingChoices \subseteq BOOLEAN
  BY OrderAssumption, ConstantsAssumption
<1>b. AtModule => /\ Cur \in Module /\ Text(Cur) \in Origins /\ Torn(Cur) \in Origins
                  /\ {<<Cur, src[Cur], outMode>>} \in Origins
                  /\ {t \in unit : t[1] \in Sources(Cur)} \in Origins
                  /\ pos \in 1..Len(Order)
                  /\ src[Cur] \in Version /\ outMode \in OutModes
                  /\ src[Cur] \in 0..MaxVersion
                  /\ partial[Cur] \in Origins /\ header[Cur] \in Origins
  <2>. SUFFICES ASSUME AtModule
                PROVE  /\ Cur \in Module /\ Text(Cur) \in Origins /\ Torn(Cur) \in Origins
                       /\ {<<Cur, src[Cur], outMode>>} \in Origins
                       /\ {t \in unit : t[1] \in Sources(Cur)} \in Origins
                       /\ pos \in 1..Len(Order)
                       /\ src[Cur] \in Version /\ outMode \in OutModes
                       /\ src[Cur] \in 0..MaxVersion
                       /\ partial[Cur] \in Origins /\ header[Cur] \in Origins
    OBVIOUS
  <2>1. pos \in 1..Len(Order)
    BY DEF PhaseInv
  <2>2. Cur \in Module
    BY <2>1, CurFacts
  <2>3. src[Cur] \in Version /\ src[Cur] \in 0..MaxVersion
    BY <2>2, ConstantsAssumption DEF TypeOK, Version
  <2>. QED
    BY <2>1, <2>2, <2>3, OriginsFacts DEF TypeOK
<1>c. NoFile \in Origins /\ NoStamp \in (Version \X OutModes) \cup {NoStamp}
  BY DEF Origins, NoFile
<1>d. \A A, B \in Origins : A \cup B \in Origins
  BY DEF Origins
<1>1. ASSUME NEW l \in Layouts, NEW o \in OutModes, NEW c \in CachingChoices,
             BeginBuild(l, o, c)
      PROVE  TypeOK' /\ PhaseInv'
  <2>1. TypeOK'
    BY <1>1, <1>a DEF TypeOK, BeginBuild, Verdict, disk
  <2>2. PhaseInv'
    BY <1>1, <1>a, ConstantsAssumption DEF TypeOK, PhaseInv, AtModule, BeginBuild, disk
  <2>. QED
    BY <2>1, <2>2
<1>2. ASSUME CompileCFile
      PROVE  TypeOK' /\ PhaseInv'
  <2>a. AtModule
    BY <1>2 DEF AtModule, CompileCFile
  <2>1. TypeOK'
    BY <1>2, <2>a, <1>a, <1>b, <1>c, <1>d, AdvanceFacts DEF TypeOK, CompileCFile, choice
  <2>2. PhaseInv'
    BY <1>2, <2>a, <1>a, <1>b, AdvanceFacts DEF TypeOK, PhaseInv, AtModule, Cur, Done, CompileCFile, choice
  <2>. QED
    BY <2>1, <2>2
<1>3. ASSUME SkipCFile
      PROVE  TypeOK' /\ PhaseInv'
  <2>a. AtModule
    BY <1>3 DEF AtModule, SkipCFile
  <2>1. TypeOK'
    BY <1>3, <2>a, <1>a, <1>b, <1>c, <1>d, AdvanceFacts DEF TypeOK, SkipCFile, choice, disk
  <2>2. PhaseInv'
    BY <1>3, <2>a, <1>a, <1>b, AdvanceFacts DEF TypeOK, PhaseInv, AtModule, Cur, Done, SkipCFile, choice, disk
  <2>. QED
    BY <2>1, <2>2
<1>4. ASSUME ImportModule
      PROVE  TypeOK' /\ PhaseInv'
  <2>a. AtModule
    BY <1>4 DEF AtModule, ImportModule
  <2>1. TypeOK'
    BY <1>4, <2>a, <1>a, <1>b, <1>c, <1>d, AdvanceFacts DEF TypeOK, ImportModule, choice, disk, Chem
  <2>2. PhaseInv'
    BY <1>4, <2>a, <1>a, <1>b, AdvanceFacts DEF TypeOK, PhaseInv, AtModule, Cur, Done, ImportModule, choice, disk, Chem
  <2>. QED
    BY <2>1, <2>2
<1>5. ASSUME ReuseModule
      PROVE  TypeOK' /\ PhaseInv'
  <2>a. AtModule
    BY <1>5 DEF AtModule, ReuseModule
  <2>1. TypeOK'
    BY <1>5, <2>a, <1>a, <1>b, <1>c, <1>d, AdvanceFacts DEF TypeOK, ReuseModule, choice, disk
  <2>2. PhaseInv'
    BY <1>5, <2>a, <1>a, <1>b, AdvanceFacts DEF TypeOK, PhaseInv, AtModule, Cur, Done, ReuseModule, choice, disk
  <2>. QED
    BY <2>1, <2>2
<1>6. ASSUME TranslateModule
      PROVE  TypeOK' /\ PhaseInv'
  <2>a. AtModule
    BY <1>6 DEF AtModule, TranslateModule
  <2>1. TypeOK'
    BY <1>6, <2>a, <1>a, <1>b, <1>c, <1>d, AdvanceFacts DEF TypeOK, TranslateModule, choice
  <2>2. PhaseInv'
    BY <1>6, <2>a, <1>a, <1>b, AdvanceFacts DEF TypeOK, PhaseInv, AtModule, Cur, Done, TranslateModule, choice
  <2>. QED
    BY <2>1, <2>2
<1>7. ASSUME SaveTimestamp
      PROVE  TypeOK' /\ PhaseInv'
  <2>a. AtModule
    BY <1>7 DEF AtModule, SaveTimestamp
  <2>1. TypeOK'
    BY <1>7, <2>a, <1>a, <1>b, <1>c, <1>d, AdvanceFacts DEF TypeOK, SaveTimestamp, choice
  <2>2. PhaseInv'
    BY <1>7, <2>a, <1>a, <1>b, AdvanceFacts DEF TypeOK, PhaseInv, AtModule, Cur, Done, SaveTimestamp, choice
  <2>. QED
    BY <2>1, <2>2
<1>8. ASSUME CompileModule
      PROVE  TypeOK' /\ PhaseInv'
  <2>a. AtModule
    BY <1>8 DEF AtModule, CompileModule
  <2>1. TypeOK'
    BY <1>8, <2>a, <1>a, <1>b, <1>c, <1>d, AdvanceFacts DEF TypeOK, CompileModule, choice
  <2>2. PhaseInv'
    BY <1>8, <2>a, <1>a, <1>b, AdvanceFacts DEF TypeOK, PhaseInv, AtModule, Cur, Done, CompileModule, choice
  <2>. QED
    BY <2>1, <2>2
<1>9. ASSUME CompileJob
      PROVE  TypeOK' /\ PhaseInv'
  <2>1. TypeOK'
    BY <1>9, <1>a, <1>b, <1>c DEF TypeOK, CompileJob, choice, progress
  <2>2. PhaseInv'
    BY <1>9, <1>a DEF Done, TypeOK, PhaseInv, AtModule, CompileJob, choice, progress
  <2>. QED
    BY <2>1, <2>2
<1>10. ASSUME LinkJob
      PROVE  TypeOK' /\ PhaseInv'
  <2>1. TypeOK'
    BY <1>10, <1>b, <1>c, DropType, LinkedType DEF TypeOK, LinkJob, choice, disk
  <2>2. PhaseInv'
    BY <1>10, <1>a DEF TypeOK, PhaseInv, AtModule, LinkJob, choice, disk, DropProgress
  <2>. QED
    BY <2>1, <2>2
<1>11. ASSUME Abort
      PROVE  TypeOK' /\ PhaseInv'
  <2>1. TypeOK'
    BY <1>11, <1>b, <1>c, DropType, LinkedType, FailureType DEF TypeOK, Abort, choice, disk, EndFailed
  <2>2. PhaseInv'
    BY <1>11, <1>a DEF TypeOK, PhaseInv, AtModule, Abort, choice, disk, EndFailed, DropProgress
  <2>. QED
    BY <2>1, <2>2
<1>12. ASSUME CrashWritingModule
      PROVE  TypeOK' /\ PhaseInv'
  <2>1. TypeOK'
    <3>1. Cur \in Module /\ Torn(Cur) \in Origins
      BY <1>12, <1>b DEF CrashWritingModule, WritesPartial, WritesHeader, WritesObject, AtModule
    <3>2. /\ partial' \in [Module -> Origins]
          /\ header' \in [Module -> Origins]
          /\ object' \in [Module -> Origins]
      BY <1>12, <3>1 DEF TypeOK, CrashWritingModule
    <3>3. disturbed' \in BOOLEAN
      BY <1>12 DEF CrashWritingModule
    <3>. QED
      BY <1>12, <3>2, <3>3, DropType, FailureType DEF TypeOK, CrashWritingModule, choice, EndFailed
  <2>2. PhaseInv'
    BY <1>12, <1>a DEF TypeOK, PhaseInv, AtModule, CrashWritingModule, choice, EndFailed, DropProgress, WritesPartial, WritesHeader, WritesObject, AtModule
  <2>. QED
    BY <2>1, <2>2
<1>13. ASSUME CrashSavingTimestamp
      PROVE  TypeOK' /\ PhaseInv'
  <2>1. TypeOK'
    BY <1>13, <1>b, <1>c, DropType, LinkedType, FailureType DEF TypeOK, CrashSavingTimestamp, choice, EndFailed, AtModule
  <2>2. PhaseInv'
    BY <1>13, <1>a DEF TypeOK, PhaseInv, AtModule, CrashSavingTimestamp, choice, EndFailed, DropProgress, AtModule
  <2>. QED
    BY <2>1, <2>2
<1>14. ASSUME CrashWritingJob
      PROVE  TypeOK' /\ PhaseInv'
  <2>1. TypeOK'
    BY <1>14, <1>b, <1>c, DropType, LinkedType, FailureType DEF TypeOK, CrashWritingJob, choice, EndFailed
  <2>2. PhaseInv'
    BY <1>14, <1>a DEF TypeOK, PhaseInv, AtModule, CrashWritingJob, choice, EndFailed, DropProgress
  <2>. QED
    BY <2>1, <2>2
<1>15. ASSUME NEW m \in Module, Edit(m)
      PROVE  TypeOK' /\ PhaseInv'
  <2>1. TypeOK'
    BY <1>15, ConstantsAssumption DEF TypeOK, Edit, Version, choice, progress, disk
  <2>2. PhaseInv'
    BY <1>15 DEF PhaseInv, AtModule, Cur, Done, Edit, choice, progress, disk
  <2>. QED
    BY <2>1, <2>2
<1>16. ASSUME NEW m \in Module, RemoveModuleDir(m)
      PROVE  TypeOK' /\ PhaseInv'
  <2>1. TypeOK'
    BY <1>16, <1>c DEF TypeOK, RemoveModuleDir, choice, progress
  <2>2. PhaseInv'
    BY <1>16 DEF PhaseInv, AtModule, Cur, Done, RemoveModuleDir, choice, progress
  <2>. QED
    BY <2>1, <2>2
<1>17. ASSUME RemoveBuildDir
      PROVE  TypeOK' /\ PhaseInv'
  <2>1. TypeOK'
    BY <1>17, <1>c DEF TypeOK, RemoveBuildDir, choice, progress
  <2>2. PhaseInv'
    BY <1>17 DEF PhaseInv, AtModule, Cur, Done, RemoveBuildDir, choice, progress
  <2>. QED
    BY <2>1, <2>2
<1>18. CASE UNCHANGED vars
  BY <1>18 DEF vars, disk, choice, progress, TypeOK, PhaseInv, AtModule, Cur, Done
<1>. QED
  BY <1>1, <1>2, <1>3, <1>4, <1>5, <1>6, <1>7, <1>8, <1>9, <1>10, <1>11, <1>12, <1>13, <1>14, <1>15, <1>16, <1>17, <1>18 DEF Next, BuildStep, Failure

\* Every reachable state has its types, and the build is where its phase says
\* it is (TypeOK over all actions of process_job_tcc and process_job_gen).
THEOREM TypeCorrect == Spec => []TypeOK
<1>1. Init => TypeOK /\ PhaseInv
  BY InitType
<1>2. TypeOK /\ PhaseInv /\ [Next]_vars => TypeOK' /\ PhaseInv'
  BY NextType
<1>. QED
  BY <1>1, <1>2, PTL DEF Spec

-----------------------------------------------------------------------------
\* Versions.

\* Importing and stamping are the only steps that write versions into the state,
\* and both write the current one.
LEMMA NextVersion ==
    ASSUME TypeOK, PhaseInv, VersionInv, [Next]_vars, PhaseInv'
    PROVE  VersionInv'
<1>. USE DEF VersionInv
<1>a. \A m \in Module : src[m] \in Nat /\ parsed[m] \in Nat
  BY ConstantsAssumption DEF TypeOK, Version
<1>b. AtModule => Cur \in Module
  BY CurFacts DEF PhaseInv
<1>c. AtModule /\ Advance => Imported' = Chem \cap (Done \cup {Cur})
  <2>. SUFFICES ASSUME AtModule, Advance PROVE Imported' = Chem \cap (Done \cup {Cur})
    OBVIOUS
  <2>1. Done' = Done \cup {Cur} /\ phase' \in {"import", "job", "link"}
    BY AdvanceFacts DEF PhaseInv
  <2>. QED
    BY <2>1 DEF Imported, PastImport
<1>d. NoStamp \notin Version \X OutModes
  BY DEF NoStamp
<1>1. ASSUME NEW l \in Layouts, NEW o \in OutModes, NEW c \in CachingChoices,
             BeginBuild(l, o, c)
      PROVE  VersionInv'
  <2>1. Imported' = {} /\ UNCHANGED <<src, stamp, parsed>>
    BY <1>1, CurFacts DEF BeginBuild, Imported, PastImport, disk, PhaseInv, Done
  <2>2. phase' \notin {"stamp", "translate"}
    BY <1>1 DEF BeginBuild
  <2>. QED
    BY <2>1, <2>2
<1>2. CASE CompileCFile
  <2>1. AtModule
    BY <1>2 DEF CompileCFile, AtModule
  <2>2. Imported' \subseteq Imported
    BY <1>2, <2>1, <1>c, CurFacts DEF CompileCFile, Imported, PastImport, Done, Cur, Chem
  <2>3. Cur' \notin Chem \/ phase' \notin {"stamp", "translate"}
    BY <1>2, <2>1, AdvanceFacts DEF CompileCFile, PhaseInv, Cur, Chem
  <2>. QED
    BY <1>2, <2>2, <2>3 DEF CompileCFile
<1>3. CASE SkipCFile
  <2>1. AtModule
    BY <1>3 DEF SkipCFile, AtModule
  <2>2. Imported' \subseteq Imported
    BY <1>3, <2>1, <1>c DEF SkipCFile, Imported, PastImport, Done, Cur, Chem
  <2>3. phase' \notin {"stamp", "translate"}
    BY <1>3, <2>1, AdvanceFacts DEF SkipCFile, PhaseInv
  <2>. QED
    BY <1>3, <2>2, <2>3 DEF SkipCFile, disk
<1>4. CASE ImportModule
  <2>1. Cur \in Module
    BY <1>4, <1>b DEF ImportModule, AtModule
  <2>2. Imported' \subseteq Imported \cup {Cur}
    BY <1>4 DEF ImportModule, Imported, PastImport, Done, Cur
  <2>3. parsed' = [parsed EXCEPT ![Cur] = src[Cur]]
        /\ UNCHANGED <<src, stamp, edited, disturbed, pos>>
    BY <1>4 DEF ImportModule, disk
  <2>4. Cur' = Cur
    BY <2>3 DEF Cur
  <2>5. parsed'[Cur] = src[Cur] /\ \A m \in Module \ {Cur} : parsed'[m] = parsed[m]
    BY <2>1, <2>3 DEF TypeOK
  <2>. QED
    BY <2>1, <2>2, <2>3, <2>4, <2>5, <1>a
<1>5. CASE ReuseModule \/ TranslateModule \/ SaveTimestamp \/ CompileModule
  <2>1. AtModule
    BY <1>5 DEF ReuseModule, TranslateModule, SaveTimestamp, CompileModule, AtModule
  <2>2. Imported' \subseteq Imported
    <3>1. CASE phase \in {"translate", "stamp", "compile"} /\ Advance
      BY <3>1, <2>1, <1>c DEF Imported, PastImport
    <3>2. CASE phase \in {"translate", "stamp", "compile"} /\ UNCHANGED pos
      BY <3>2 DEF Imported, PastImport, Done, Cur
    <3>. QED
      BY <1>5, <3>1, <3>2 DEF ReuseModule, TranslateModule, SaveTimestamp, CompileModule
  <2>3. UNCHANGED <<src, parsed, edited, disturbed>>
    BY <1>5 DEF ReuseModule, TranslateModule, SaveTimestamp, CompileModule
  <2>4. CASE SaveTimestamp
    <3>1. stamp' = [stamp EXCEPT ![Cur] = <<src[Cur], outMode>>] /\ Cur \in Module
      BY <2>4, <2>1, <1>b DEF SaveTimestamp
    <3>2. Cur \in Chem => Cur \in Imported
      BY <2>4 DEF SaveTimestamp, Imported, PastImport
    <3>3. ~disturbed /\ Cur \in Chem => parsed[Cur] = src[Cur]
      BY <2>4 DEF SaveTimestamp, PhaseInv
    <3>4. \A m \in Module \ {Cur} : stamp'[m] = stamp[m]
      BY <3>1 DEF TypeOK
    <3>5. stamp'[Cur] = <<src[Cur], outMode>>
      BY <3>1 DEF TypeOK
    <3>6. \A m \in Module : stamp'[m] # NoStamp => stamp'[m][1] <= src[m]
      BY <3>1, <3>4, <3>5, <1>a
    <3>7. ~disturbed => \A m \in Imported : stamp'[m] # NoStamp => stamp'[m][1] <= parsed[m]
      BY <3>1, <3>3, <3>4, <3>5, <1>a DEF Imported, Chem
    <3>8. phase' \notin {"stamp", "translate"}
      BY <2>4, <2>1, AdvanceFacts DEF SaveTimestamp, PhaseInv
    <3>. QED
      BY <3>6, <3>7, <3>8, <2>2, <2>3
  <2>5. CASE ~SaveTimestamp
    <3>1. UNCHANGED <<stamp, caching>>
      BY <1>5, <2>5 DEF ReuseModule, TranslateModule, CompileModule, disk, choice
    <3>2. phase' \notin {"stamp", "translate"} \/ (TranslateModule /\ UNCHANGED pos /\ phase' = "stamp")
      BY <1>5, <2>1, <2>5, AdvanceFacts DEF ReuseModule, TranslateModule, CompileModule, PhaseInv
    <3>3. TranslateModule => phase = "translate" /\ ~CacheHit
      BY DEF TranslateModule
    <3>. QED
      BY <3>1, <3>2, <3>3, <2>2, <2>3 DEF Cur
  <2>. QED
    BY <2>4, <2>5
<1>6. CASE CompileJob
  <2>1. Imported' \subseteq Imported
    BY <1>6 DEF CompileJob, progress, Imported, PastImport, Done
  <2>. QED
    BY <1>6, <2>1 DEF CompileJob, progress
<1>7. ASSUME phase' = "idle", DropProgress, UNCHANGED src,
             \A m \in Module : stamp'[m] \in {stamp[m], NoStamp}
      PROVE  VersionInv'
  <2>1. Imported' = {}
    BY <1>7, OrderAssumption DEF DropProgress, Imported, PastImport, Done
  <2>. QED
    BY <1>7, <2>1, <1>a DEF DropProgress
<1>8. CASE LinkJob
  BY <1>8, <1>7 DEF LinkJob, disk
<1>9. CASE Failure
  <2>1. UNCHANGED stamp \/ (stamp' = [stamp EXCEPT ![Cur] = NoStamp])
    BY <1>9 DEF Failure, Abort, CrashWritingModule, CrashSavingTimestamp, CrashWritingJob, disk
  <2>2. phase' = "idle" /\ DropProgress /\ UNCHANGED src
    BY <1>9 DEF Failure, Abort, CrashWritingModule, CrashSavingTimestamp, CrashWritingJob, EndFailed
  <2>3. \A m \in Module : stamp'[m] \in {stamp[m], NoStamp}
    BY <2>1 DEF TypeOK
  <2>. QED
    BY <2>2, <2>3, <1>7
<1>10. ASSUME NEW m \in Module, Edit(m)
       PROVE  VersionInv'
  <2>1. /\ \A n \in Module : src'[n] \in Nat /\ src[n] <= src'[n]
        /\ UNCHANGED <<stamp, parsed, pos, phase>>
        /\ disturbed => disturbed'
        /\ edited'
    BY <1>10, <1>a DEF Edit, TypeOK, disk, progress
  <2>2. Imported' = Imported
    BY <2>1 DEF Imported, PastImport, Done, Cur
  <2>3. ASSUME NEW n \in Module, stamp[n] # NoStamp
        PROVE  stamp[n][1] \in Nat
    BY <2>3, ConstantsAssumption DEF TypeOK, Version
  <2>4. Imported \subseteq Module
    BY DEF Imported, Chem
  <2>5. ASSUME NEW n \in Module PROVE parsed[n] <= src'[n]
    BY <2>1, <1>a
  <2>6. ASSUME NEW n \in Module, stamp[n] # NoStamp PROVE stamp[n][1] <= src'[n]
    BY <2>1, <2>3, <2>6, <1>a
  <2>7. ~disturbed' /\ caching' /\ (phase' = "stamp" \/ (phase' = "translate" /\ ~CacheHit'))
        => (Cur' \in Chem => parsed'[Cur'] = src'[Cur'])
    <3>1. SUFFICES ASSUME ~disturbed', caching', Cur' \in Chem,
                          phase' = "stamp" \/ (phase' = "translate" /\ ~CacheHit')
                   PROVE  parsed'[Cur'] = src'[Cur']
      OBVIOUS
    <3>2. Cur' = Cur /\ (CacheHit' <=> CacheHit) /\ caching' = caching
      BY <1>10 DEF Edit, Cur, CacheHit, Present, Kept, disk, progress, choice
    <3>3. phase = "stamp" \/ (phase = "translate" /\ ~CacheHit)
      BY <2>1, <3>1, <3>2
    <3>4. ~disturbed /\ m # Cur
      BY <1>10, <3>1, <3>2, <3>3 DEF Edit, EditMissed
    <3>5. src'[Cur] = src[Cur]
      BY <1>10, <3>4, <3>1, <3>2 DEF Edit, TypeOK, Chem
    <3>. QED
      BY <2>1, <3>1, <3>2, <3>3, <3>4, <3>5
  <2>. QED
    BY <2>1, <2>2, <2>4, <2>5, <2>6, <2>7
<1>11. ASSUME phase = "idle", phase' = "idle", UNCHANGED <<src, parsed, pos>>,
              \A m \in Module : stamp'[m] \in {stamp[m], NoStamp}
       PROVE  VersionInv'
  <2>1. Imported' = {}
    BY <1>11, OrderAssumption DEF PhaseInv, Imported, PastImport, Done
  <2>. QED
    BY <1>11, <2>1
<1>12. ASSUME NEW m \in Module, RemoveModuleDir(m)
       PROVE  VersionInv'
  <2>1. phase = "idle" /\ phase' = "idle" /\ UNCHANGED <<src, parsed, pos>>
    BY <1>12 DEF RemoveModuleDir, progress
  <2>2. \A n \in Module : stamp'[n] \in {stamp[n], NoStamp}
    BY <1>12 DEF RemoveModuleDir, TypeOK
  <2>. QED
    BY <2>1, <2>2, <1>11
<1>13. CASE RemoveBuildDir
  <2>1. phase = "idle" /\ phase' = "idle" /\ UNCHANGED <<src, parsed, pos>>
    BY <1>13 DEF RemoveBuildDir, progress
  <2>2. \A n \in Module : stamp'[n] \in {stamp[n], NoStamp}
    BY <1>13 DEF RemoveBuildDir
  <2>. QED
    BY <2>1, <2>2, <1>11
<1>14. CASE UNCHANGED vars
  BY <1>14 DEF vars, disk, progress, choice, Imported, PastImport, Done, Cur,
               CacheHit, Present, Kept
<1>. QED
  BY <1>1, <1>2, <1>3, <1>4, <1>5, <1>6, <1>8, <1>9, <1>10, <1>12, <1>13, <1>14
     DEF Next, BuildStep

-----------------------------------------------------------------------------
\* Soundness of the cache files.

\* A step after which no timestamp of d's vouches for more than it did.
Weaker(d) ==
    \A o \in OutModes : StampValid(o, d)' => StampValid(o, d) /\ src'[d] = src[d]

\* Files that a step leaves alone stay sound when it makes no timestamp below
\* them compare equal that did not.
LEMMA KeepSound ==
    ASSUME NEW m \in Module, \A d \in Sources(m) : Weaker(d)
    PROVE  /\ KeptSound(m) /\ Kept(layout, m)' = Kept(layout, m) => KeptSound(m)'
           /\ HeaderSound(m) /\ header'[m] = header[m] => HeaderSound(m)'
<1>1. ASSUME NEW o \in OutModes, Vouched(o, m)'
      PROVE  Vouched(o, m) /\ Fresh(o, m)' = Fresh(o, m)
  BY <1>1 DEF Vouched, Weaker, Fresh
<1>. QED
  BY <1>1 DEF KeptSound, HeaderSound, Present

\* So does the job's object file.
LEMMA KeepJobSound ==
    ASSUME JobSound, jobObject' = jobObject, \A d \in Module : Weaker(d)
    PROVE  JobSound'
<1>1. Chem \subseteq Module
  BY DEF Chem
<1>. SUFFICES ASSUME NEW o \in OutModes, jobObject'.exists,
                     \A m \in Chem : StampValid(o, m)'
              PROVE  jobObject'.made = {<<m, src'[m], o>> : m \in Chem}
  BY DEF JobSound
<1>2. \A m \in Chem : StampValid(o, m) /\ src'[m] = src[m]
  BY <1>1 DEF Weaker
<1>. QED
  BY <1>2 DEF JobSound

\* Timestamps that are kept or removed, and edits, only weaken.
LEMMA WeakerSame ==
    ASSUME NEW d \in Module, src'[d] = src[d],
           stamp'[d] = stamp[d] \/ stamp'[d] = NoStamp
    PROVE  Weaker(d)
BY DEF Weaker, StampValid, NoStamp

\* An edit makes no timestamp compare equal: none is from the future.
LEMMA WeakerEdit ==
    ASSUME TypeOK, VersionInv, NEW d \in Module, src'[d] = src[d] + 1, stamp' = stamp
    PROVE  Weaker(d)
<1>1. src[d] \in Nat
  BY ConstantsAssumption DEF TypeOK, Version
<1>2. ASSUME NEW o \in OutModes, stamp[d] = <<src[d] + 1, o>> PROVE FALSE
  <2>1. stamp[d] # NoStamp /\ stamp[d][1] = src[d] + 1
    BY <1>2 DEF NoStamp
  <2>. QED
    BY <1>1, <2>1 DEF VersionInv
<1>. QED
  BY <1>2 DEF Weaker, StampValid

\* What a build reads into memory is what valid timestamps vouch for.
LEMMA VouchedParsed ==
    ASSUME TypeOK, VersionInv, ~disturbed, NEW d \in Imported, NEW o \in OutModes,
           StampValid(o, d)
    PROVE  parsed[d] = src[d]
<1>1. d \in Module
  BY DEF Imported, Chem
<1>2. src[d] \in Nat /\ parsed[d] \in Nat
  BY <1>1, ConstantsAssumption DEF TypeOK, Version
<1>3. stamp[d] # NoStamp /\ stamp[d][1] = src[d]
  BY DEF StampValid, NoStamp
<1>. QED
  BY <1>1, <1>2, <1>3 DEF VersionInv

\* The text of the current module, with respect to the timestamps.
LEMMA TextFacts ==
    ASSUME TypeOK, PhaseInv, VersionInv, PastImport, Cur \in Chem, ~disturbed
    PROVE  /\ Sources(Cur) \subseteq Imported
           /\ \A o \in OutModes : Vouched(o, Cur) => Text(Cur) = Fresh(outMode, Cur)
           /\ ~edited => Text(Cur) = Fresh(outMode, Cur)
           /\ Honest(Text(Cur))
           /\ \A t \in Text(Cur) : /\ t[1] \in Sources(Cur)
                                   /\ t[3] = outMode
                                   /\ ~edited => t[2] = src[t[1]]
                                   /\ t[1] = Cur => t[2] = parsed[Cur]
           /\ \E t \in Text(Cur) : t[1] = Cur
<1>1. AtModule /\ pos \in 1..Len(Order)
  BY DEF AtModule, PastImport, PhaseInv
<1>2. Cur \in Module /\ Sources(Cur) \subseteq Done \cup {Cur}
  BY <1>1, CurFacts
<1>3. Cur \in Sources(Cur) /\ Sources(Cur) \subseteq Chem
  BY <1>2, SourcesFacts
<1>4. Sources(Cur) \subseteq Imported
  BY <1>2, <1>3 DEF Imported
<1>5. ASSUME NEW o \in OutModes, Vouched(o, Cur)
      PROVE  Text(Cur) = Fresh(outMode, Cur)
  <2>1. \A d \in Sources(Cur) : parsed[d] = src[d]
    BY <1>4, <1>5, VouchedParsed DEF Vouched
  <2>. QED
    BY <2>1 DEF Text, Fresh
<1>6. ASSUME ~edited
      PROVE  \A d \in Sources(Cur) : parsed[d] = src[d]
  BY <1>4, <1>6 DEF VersionInv
<1>7. ~edited => Text(Cur) = Fresh(outMode, Cur)
  BY <1>6 DEF Text, Fresh
<1>8. ASSUME NEW d \in Sources(Cur), stamp[d] # NoStamp, stamp[d][1] = src[d]
      PROVE  parsed[d] = src[d]
  <2>1. d \in Module /\ d \in Imported
    BY <1>4 DEF Imported, Chem
  <2>2. src[d] \in Nat /\ parsed[d] \in Nat
    BY <2>1, ConstantsAssumption DEF TypeOK, Version
  <2>. QED
    BY <1>8, <2>1, <2>2 DEF VersionInv
<1>9. Honest(Text(Cur))
  BY <1>8 DEF Honest, Text
<1>10. \A t \in Text(Cur) : /\ t[1] \in Sources(Cur)
                            /\ t[3] = outMode
                            /\ ~edited => t[2] = src[t[1]]
                            /\ t[1] = Cur => t[2] = parsed[Cur]
  BY <1>6 DEF Text
<1>11. \E t \in Text(Cur) : t[1] = Cur
  <2>1. <<Cur, parsed[Cur], outMode>> \in Text(Cur)
    BY <1>3 DEF Text
  <2>. QED
    BY <2>1
<1>. QED
  BY <1>4, <1>5, <1>7, <1>9, <1>10, <1>11

\* The files of a module found unchanged.
LEMMA UnchangedFacts ==
    ASSUME TypeOK, UnchangedInv, phase # "idle", ~disturbed,
           NEW m \in Module, hasChanged[m] = "unchanged"
    PROVE  /\ KeptSound(m) /\ HeaderSound(m)
           /\ stamp[m] # NoStamp /\ stamp[m][2] = outMode
           /\ Present(layout, m)
           /\ ~edited => Kept(layout, m) = Fresh(outMode, m)
<1>1. Sources(m) \subseteq Closure(m) /\ m \in Sources(m) /\ m \in Closure(m)
  BY SourcesFacts
<1>2. /\ \A d \in Closure(m) : /\ stamp[d] # NoStamp /\ stamp[d][2] = outMode
                               /\ ~edited => stamp[d][1] = src[d]
      /\ Kept(layout, m) = FromStamps(m)
      /\ header[m] # NoFile => header[m] = FromStamps(m)
  BY DEF UnchangedInv
<1>3. ASSUME NEW o \in OutModes, Vouched(o, m)
      PROVE  FromStamps(m) = Fresh(o, m)
  <2>1. \A d \in Sources(m) : stamp[d] = <<src[d], o>>
    BY <1>3 DEF Vouched, StampValid
  <2>2. o = outMode /\ \A d \in Sources(m) : stamp[d][1] = src[d]
    BY <1>1, <1>2, <2>1
  <2>. QED
    BY <2>2 DEF FromStamps, Fresh
<1>4. ~edited => FromStamps(m) = Fresh(outMode, m)
  BY <1>1, <1>2 DEF FromStamps, Fresh
<1>5. FromStamps(m) # NoFile
  BY <1>1 DEF FromStamps, NoFile
<1>. QED
  BY <1>1, <1>2, <1>3, <1>4, <1>5 DEF KeptSound, HeaderSound, Present

\* A link of fresh files is what a clean build gives.
LinkedFresh ==
    /\ \A m \in Module : layout # "single" \/ m \notin Chem
                             => object[m] = Fresh(outMode, m)
    /\ layout = "single" => jobObject.made = {<<m, src[m], outMode>> : m \in Chem}

\* If each object is fresh, the executable is the clean one.
LEMMA LinkedClean == LinkedFresh => Linked = CleanOutput
<1>. SUFFICES ASSUME LinkedFresh PROVE Linked = CleanOutput
  OBVIOUS
<1>. USE DEF LinkedFresh
<1>1. \A m \in Module : Sources(m) \subseteq Module /\ m \in Sources(m)
  BY SourcesFacts
<1>2. \A m \in Module \ Chem : Sources(m) = {m}
  BY SourcesFacts
<1>3. Chem \subseteq Module
  BY DEF Chem
<1>4. CASE layout = "single"
  <2>1. ASSUME NEW m \in Module \ Chem
        PROVE  object[m] = {<<m, src[m], outMode>>}
    <3>1. object[m] = {<<d, src[d], outMode>> : d \in {m}}
      BY <1>2 DEF Fresh
    <3>. QED
      BY <3>1
  <2>2. Linked = {<<m, src[m], outMode>> : m \in Chem}
                    \cup UNION {object[m] : m \in Module \ Chem}
    BY <1>4 DEF Linked
  <2>. QED
    BY <1>3, <2>1, <2>2 DEF CleanOutput
<1>5. CASE layout # "single"
  <2>1. Linked = UNION {Fresh(outMode, m) : m \in Module}
    BY <1>5 DEF Linked
  <2>. QED
    BY <1>1, <2>1 DEF CleanOutput, Fresh
<1>. QED
  BY <1>4, <1>5

\* The same, of the state after a step.
LEMMA LinkedCleanNext == LinkedFresh' => (Linked = CleanOutput)'
<1>1. LinkedFresh => Linked = CleanOutput
  BY LinkedClean
<1>. QED
  BY <1>1, PTL

-----------------------------------------------------------------------------
\* Steps that end in an idle state, or start in one.

\* Nothing is claimed of a cache that may lie.
LEMMA DisturbedCache == disturbed' => CacheInv'
BY DEF CacheInv, LayoutInv, UnchangedInv, ModeInv, FilesInv, CurrentInv, UnitInv,
       LinkInv, SoundUnlessDisturbed

\* Between builds, the cache invariant says that every cached file is sound.
LEMMA IdleFiles ==
    ASSUME IInv, phase = "idle", ~disturbed
    PROVE  /\ \A m \in Module : KeptSound(m) /\ HeaderSound(m)
           /\ layout = "single" => JobSound
<1>1. restamped = {}
  BY DEF IInv, PhaseInv
<1>. QED
  BY <1>1 DEF IInv, CacheInv, FilesInv

\* Between builds the cache invariant is the soundness of the files.
LEMMA IdleCache ==
    ASSUME phase' = "idle", LayoutInv', SoundUnlessDisturbed', Done' \subseteq Module,
           ~disturbed' => /\ \A m \in Module : KeptSound(m)' /\ HeaderSound(m)'
                          /\ layout' = "single" => JobSound'
    PROVE  CacheInv'
BY DEF CacheInv, UnchangedInv, ModeInv, FilesInv, CurrentInv, UnitInv, LinkInv

\* A module without files has nothing unsound.
LEMMA NoFilesSound ==
    ASSUME NEW m \in Module, partial[m] = NoFile, header[m] = NoFile, object[m] = NoFile
    PROVE  KeptSound(m) /\ HeaderSound(m)
BY DEF KeptSound, HeaderSound, Present, Kept

\* The cache is empty before the first build.
LEMMA InitCache == Init => CacheInv
<1>. SUFFICES ASSUME Init PROVE CacheInv
  OBVIOUS
<1>1. phase = "idle" /\ layout = "none" /\ status = "none" /\ restamped = {}
      /\ jobObject = [exists |-> FALSE, made |-> NoFile]
  BY DEF Init
<1>2. \A m \in Module : partial[m] = NoFile /\ header[m] = NoFile /\ object[m] = NoFile
  BY DEF Init
<1>3. Done = {}
  BY DEF Init, Done
<1>4. LayoutInv
  BY <1>1, <1>2 DEF LayoutInv
<1>5. FilesInv
  BY <1>1, <1>2, <1>3, NoFilesSound DEF FilesInv
<1>. QED
  BY <1>1, <1>4, <1>5 DEF CacheInv, UnchangedInv, ModeInv, CurrentInv, UnitInv,
                           LinkInv, SoundUnlessDisturbed

\* What the change check finds unchanged is unchanged all the way down.
LEMMA VerdictFacts ==
    ASSUME NEW l, NEW o, NEW c, NEW m \in Module,
           Verdict(l, o, c)[m] = "unchanged"
    PROVE  /\ c
           /\ \A d \in Closure(m) : /\ Verdict(l, o, c)[d] = "unchanged"
                                    /\ Present(l, d)
                                    /\ StampValid(o, d)
<1>1. c /\ m \in Visited(l) /\ Present(l, m) /\ ~Changed(l, o, m)
  BY DEF Verdict
<1>2. \A d \in Closure(m) : Present(l, d) /\ StampValid(o, d)
  BY <1>1 DEF Changed
<1>3. Closure(m) \subseteq Module /\ m \in Closure(m)
      /\ \A d \in Closure(m) : Deps[d] \subseteq Closure(m)
  BY ClosureFacts
<1>. DEFINE S == Visited(l) \cap Closure(m)
<1>4. ASSUME NEW x \in S PROVE Deps[x] \subseteq S
  <2>1. Present(l, x) /\ x \in Visited(l) /\ x \in Module /\ Deps[x] \subseteq Closure(m)
    BY <1>2, <1>3
  <2>2. Deps[x] \subseteq Module
    BY <2>1, <1>3
  <2>3. ASSUME NEW d \in Deps[x], NEW T \in SUBSET Module, Roots \subseteq T,
               \A y \in T : Present(l, y) => Deps[y] \subseteq T
        PROVE  d \in T
    BY <2>1, <2>3 DEF Visited
  <2>4. Deps[x] \subseteq Visited(l)
    BY <2>2, <2>3 DEF Visited
  <2>. QED
    BY <2>1, <2>4
<1>5. S \in SUBSET Module /\ m \in S
  BY <1>1, <1>3
<1>6. Closure(m) \subseteq S
  BY <1>4, <1>5, ClosureLeast
<1>7. ASSUME NEW d \in Closure(m)
      PROVE  Verdict(l, o, c)[d] = "unchanged"
  <2>1. d \in Module /\ d \in Visited(l) /\ Present(l, d)
    BY <1>2, <1>3, <1>6
  <2>2. Closure(d) \subseteq Closure(m)
    BY ClosureTransitive
  <2>3. ~Changed(l, o, d)
    BY <1>2, <2>2 DEF Changed
  <2>. QED
    BY <1>1, <2>1, <2>3 DEF Verdict
<1>. QED
  BY <1>1, <1>2, <1>7

\* When the change check finds nothing, every module has its kept file and a
\* timestamp that compares equal.
LEMMA NoneChanged ==
    ASSUME NEW l, NEW o, NEW c, ~AnyChanged(l, o, c)
    PROVE  c /\ \A m \in Module : Present(l, m) /\ StampValid(o, m)
<1>1. ASSUME NEW m \in Module PROVE Present(l, m) /\ StampValid(o, m)
  <2>1. PICK r \in Roots : m \in Closure(r)
    BY RootsAssumption
  <2>. QED
    BY <2>1 DEF AnyChanged, Changed
<1>. QED
  BY <1>1 DEF AnyChanged

-----------------------------------------------------------------------------
\* The beginning of a build.

\* BeginBuild: the change check gives each module a verdict its timestamps and
\* kept files bear out, and an early return links fresh objects.
LEMMA BeginCache ==
    ASSUME IInv, NEW l \in Layouts, NEW o \in OutModes, NEW c \in CachingChoices,
           BeginBuild(l, o, c), TypeOK', PhaseInv'
    PROVE  CacheInv'
<1>. SUFFICES ASSUME ~disturbed' PROVE CacheInv'
  BY DisturbedCache
<1>1. /\ phase = "idle" /\ layout' = l /\ outMode' = o /\ caching' = c
      /\ hasChanged' = Verdict(l, o, c)
      /\ status' = "running"
      /\ ~edited'
      /\ ~disturbed /\ ~Confuses(l, o, c)
      /\ UNCHANGED <<src, stamp, partial, header, object, jobObject, exe, pos, parsed,
                     unit, restamped>>
  BY DEF BeginBuild, disk
<1>2. pos = 1 /\ restamped = {} /\ unit = {} /\ Done = {} /\ Done' = {}
  BY <1>1, CurFacts DEF IInv, PhaseInv, Done, NoFile
<1>3. phase' \in {"import", "job", "link"} /\ l \in {"single", "multi", "llvm"}
  BY <1>1, ConstantsAssumption DEF BeginBuild
<1>4. layout = l \/ /\ layout = "none"
                    /\ \A m \in Module : partial[m] = NoFile /\ header[m] = NoFile
                                         /\ object[m] = NoFile
                    /\ ~jobObject.exists
  BY <1>1 DEF IInv, CacheInv, LayoutInv, Confuses
<1>5. LayoutInv'
  BY <1>1, <1>3, <1>4 DEF IInv, CacheInv, LayoutInv
<1>6. ASSUME NEW m \in Module PROVE KeptSound(m)' /\ HeaderSound(m)'
  <2>1. KeptSound(m) /\ HeaderSound(m)
    BY <1>1, IdleFiles
  <2>2. HeaderSound(m)'
    BY <1>1, <2>1 DEF HeaderSound, Vouched, StampValid, Fresh
  <2>3. CASE layout = l
    BY <1>1, <2>1, <2>2, <2>3 DEF KeptSound, Present, Kept, Vouched, StampValid, Fresh
  <2>4. CASE layout # l
    BY <1>1, <1>4, <2>2, <2>4 DEF KeptSound, Present, Kept
  <2>. QED
    BY <2>3, <2>4
<1>7. layout' = "single" => JobSound'
  <2>1. CASE layout = l
    BY <1>1, <2>1, IdleFiles DEF JobSound, StampValid
  <2>2. CASE layout # l
    BY <1>1, <1>4, <2>2 DEF JobSound
  <2>. QED
    BY <2>1, <2>2
<1>8. FilesInv'
  BY <1>6, <1>7, <1>2 DEF FilesInv
<1>9. UnchangedInv'
  <2>. SUFFICES ASSUME NEW m \in Module, Verdict(l, o, c)[m] = "unchanged"
                PROVE  /\ caching'
                       /\ \A d \in Closure(m) :
                             /\ hasChanged'[d] = "unchanged"
                             /\ stamp'[d] # NoStamp /\ stamp'[d][2] = outMode'
                             /\ ~edited' => stamp'[d][1] = src'[d]
                       /\ Kept(layout, m)' = FromStamps(m)'
                       /\ header'[m] # NoFile => header'[m] = FromStamps(m)'
    BY <1>1, <1>3 DEF UnchangedInv
  <2>1. c /\ \A d \in Closure(m) : /\ Verdict(l, o, c)[d] = "unchanged"
                                   /\ Present(l, d)
                                   /\ StampValid(o, d)
    BY VerdictFacts
  <2>2. ASSUME NEW d \in Closure(m)
        PROVE  /\ hasChanged'[d] = "unchanged"
               /\ stamp'[d] # NoStamp /\ stamp'[d][2] = outMode'
               /\ stamp'[d][1] = src'[d]
    <3>1. stamp[d] = <<src[d], o>>
      BY <2>1 DEF StampValid
    <3>2. stamp[d] # NoStamp /\ stamp[d][1] = src[d] /\ stamp[d][2] = o
      BY <3>1 DEF NoStamp
    <3>. QED
      BY <1>1, <2>1, <3>2
  <2>3. Sources(m) \subseteq Closure(m) /\ m \in Closure(m)
    BY SourcesFacts
  <2>4. Vouched(o, m)' /\ FromStamps(m)' = Fresh(o, m)'
    <3>1. \A d \in Sources(m) : stamp'[d] = <<src'[d], o>> /\ stamp'[d][1] = src'[d]
      BY <1>1, <2>1, <2>2, <2>3 DEF StampValid
    <3>. QED
      BY <1>1, <3>1 DEF Vouched, StampValid, FromStamps, Fresh
  <2>5. Present(layout, m)'
    BY <1>1, <2>1, <2>3 DEF Present, Kept
  <2>. QED
    BY <1>1, <1>6, <2>1, <2>2, <2>4, <2>5 DEF KeptSound, HeaderSound
<1>10. ModeInv'
  BY <1>1, <1>2, <1>3 DEF ModeInv, Confuses
<1>11. CurrentInv' /\ UnitInv'
  BY <1>1, <1>2, <1>3 DEF CurrentInv, UnitInv, Honest
<1>12. LinkInv'
  <2>1. ASSUME phase' = "link" PROVE Linked' = CleanOutput'
    <3>1. CASE Len(Order) = 0
      <4>1. Module = {} /\ Chem = {}
        BY <3>1, OrderAssumption DEF Chem
      <4>2. jobObject'.made = {} \/ layout' # "single"
        BY <1>1, <2>1, <3>1, <4>1, <1>7, NoneChanged DEF BeginBuild, JobSound
      <4>. QED
        BY <4>1, <4>2 DEF Linked, CleanOutput
    <3>2. CASE Len(Order) # 0
      <4>1. ~AnyChanged(l, o, c) /\ (l = "llvm" \/ (l = "single" /\ jobObject.exists))
        BY <2>1, <3>2 DEF BeginBuild
      <4>2. \A m \in Module : Present(l, m) /\ StampValid(o, m)
        BY <4>1, NoneChanged
      <4>3. ASSUME NEW m \in Module PROVE Kept(layout, m)' = Fresh(o, m)'
        <5>1. Sources(m) \subseteq Module
          BY SourcesFacts
        <5>2. Vouched(o, m)' /\ Present(layout, m)'
          BY <1>1, <4>2, <5>1 DEF Vouched, StampValid, Present, Kept
        <5>. QED
          BY <1>6, <5>2 DEF KeptSound
      <4>4. \A m \in Module : layout' # "single" \/ m \notin Chem
                                 => object'[m] = Fresh(outMode, m)'
        BY <1>1, <4>3 DEF Kept
      <4>5. layout' = "single" =>
               jobObject'.made = {<<m, src'[m], outMode'>> : m \in Chem}
        <5>1. Chem \subseteq Module
          BY DEF Chem
        <5>. QED
          BY <1>1, <1>7, <4>1, <4>2, <5>1 DEF JobSound, StampValid
      <4>. QED
        BY <4>4, <4>5, LinkedCleanNext DEF LinkedFresh
    <3>. QED
      BY <3>1, <3>2
  <2>. QED
    BY <1>2, <2>1 DEF LinkInv
<1>. QED
  BY <1>1, <1>5, <1>8, <1>9, <1>10, <1>11, <1>12 DEF CacheInv, SoundUnlessDisturbed

-----------------------------------------------------------------------------
\* The end of a build.

\* Away from the module being processed, a build that has not renewed
\* timestamps ahead of its files leaves every file sound.
LEMMA FailSound ==
    ASSUME IInv, phase # "idle", ~disturbed, ~StampsAhead
    PROVE  /\ \A m \in Module : (phase = "stamp" /\ m = Cur)
                                \/ (KeptSound(m) /\ HeaderSound(m))
           /\ layout = "single" => JobSound
<1>1. FilesInv
  BY DEF IInv, CacheInv
<1>2. ASSUME NEW m \in Module \ Done PROVE restamped \cap Sources(m) = {}
  BY <1>2 DEF StampsAhead
<1>3. layout = "single" /\ phase # "link" => restamped \cap Chem = {}
  BY DEF StampsAhead
<1>. QED
  BY <1>1, <1>2, <1>3 DEF FilesInv

\* Neither does it leave the files of that module unsound, unless their
\* timestamp is of another mode.
LEMMA StampSound ==
    ASSUME IInv, phase = "stamp", ~disturbed, ~StampsAhead, ~StampOfOtherMode
    PROVE  KeptSound(Cur) /\ HeaderSound(Cur)
<1>a. TypeOK /\ PhaseInv /\ VersionInv /\ LayoutInv /\ CurrentInv
  BY DEF IInv, CacheInv
<1>1. pos \in 1..Len(Order) /\ PastImport
  BY <1>a DEF PhaseInv, AtModule, PastImport
<1>2. Cur \in Module \ Done /\ Cur \in Sources(Cur)
  BY <1>a, <1>1, CurFacts, SourcesFacts
<1>3. restamped \cap Sources(Cur) = {}
  BY <1>2 DEF StampsAhead
<1>4. ASSUME NEW o \in OutModes, Vouched(o, Cur) PROVE o = outMode
  BY <1>2, <1>4 DEF StampOfOtherMode, Vouched
<1>5. layout \in {"single", "multi", "llvm"}
  BY <1>a, ConstantsAssumption DEF TypeOK, PhaseInv
<1>6. CASE Cur \in Chem
  <2>1. \A o \in OutModes : Vouched(o, Cur) => Text(Cur) = Fresh(o, Cur)
    BY <1>a, <1>1, <1>4, <1>6, TextFacts
  <2>2. CASE layout = "single"
    <3>1. partial[Cur] = Text(Cur) /\ header[Cur] = NoFile
      BY <1>a, <1>2, <1>6, <2>2 DEF CurrentInv, LayoutInv
    <3>. QED
      BY <1>6, <2>1, <2>2, <3>1 DEF KeptSound, HeaderSound, Kept
  <2>3. CASE layout = "llvm"
    <3>1. object[Cur] = Text(Cur) /\ header[Cur] = NoFile
      BY <1>a, <1>2, <1>6, <2>3 DEF CurrentInv, LayoutInv
    <3>. QED
      BY <2>1, <2>3, <3>1 DEF KeptSound, HeaderSound, Kept
  <2>4. CASE layout = "multi"
    <3>1. header[Cur] = Text(Cur) /\ KeptSound(Cur)
      BY <1>a, <1>3, <1>6, <2>4 DEF CurrentInv
    <3>. QED
      BY <2>1, <3>1 DEF HeaderSound
  <2>. QED
    BY <1>5, <2>2, <2>3, <2>4
<1>7. CASE Cur \notin Chem
  <2>1. object[Cur] = {<<Cur, src[Cur], outMode>>} /\ header[Cur] = NoFile
    BY <1>a, <1>2, <1>7 DEF CurrentInv, LayoutInv
  <2>2. Fresh(outMode, Cur) = {<<Cur, src[Cur], outMode>>}
    <3>1. Sources(Cur) = {Cur}
      BY <1>2, <1>7, SourcesFacts
    <3>2. Fresh(outMode, Cur) = {<<d, src[d], outMode>> : d \in {Cur}}
      BY <3>1 DEF Fresh
    <3>. QED
      BY <3>2
  <2>. QED
    BY <1>4, <1>7, <2>1, <2>2 DEF KeptSound, HeaderSound, Kept
<1>. QED
  BY <1>6, <1>7

\* A build that has ended is at no module.
LEMMA DoneDropped == DropProgress => Done' = {} /\ restamped' = {}
BY DEF DropProgress, Done

\* A failed build leaves the cache as sound as its files are.
LEMMA FailedCache ==
    ASSUME IInv, phase # "idle", EndFailed,
           LayoutInv',
           ~disturbed' => /\ \A m \in Module : KeptSound(m)' /\ HeaderSound(m)'
                          /\ layout' = "single" => JobSound'
    PROVE  CacheInv'
BY DoneDropped, IdleCache DEF EndFailed, SoundUnlessDisturbed

\* Abort outside the windows that disturbed names leaves sound files.
LEMMA AbortCache ==
    ASSUME IInv, Abort
    PROVE  CacheInv'
<1>. SUFFICES ASSUME ~disturbed' PROVE CacheInv'
  BY DisturbedCache
<1>1. /\ phase # "idle" /\ ~disturbed /\ ~StampsAhead /\ ~StampOfOtherMode /\ EndFailed
      /\ UNCHANGED <<src, stamp, partial, header, object, jobObject, layout>>
  BY DEF Abort, EndFailed, disk, choice
<1>2. \A m \in Module : KeptSound(m) /\ HeaderSound(m)
  BY <1>1, FailSound, StampSound
<1>3. layout = "single" => JobSound
  BY <1>1, FailSound
<1>4. LayoutInv'
  BY <1>1 DEF IInv, CacheInv, LayoutInv
<1>5. \A d \in Module : Weaker(d)
  BY <1>1, WeakerSame
<1>6. ASSUME NEW m \in Module PROVE KeptSound(m)' /\ HeaderSound(m)'
  <2>1. Sources(m) \subseteq Module
    BY SourcesFacts
  <2>2. Kept(layout, m)' = Kept(layout, m)
    BY <1>1 DEF Kept
  <2>. QED
    BY <1>1, <1>2, <1>5, <2>1, <2>2, KeepSound
<1>7. layout' = "single" => JobSound'
  BY <1>1, <1>3, <1>5, KeepJobSound
<1>. QED
  BY <1>1, <1>4, <1>6, <1>7, FailedCache

\* A torn file of a module is one no timestamp vouches for, outside those windows.
LEMMA CrashWritingModuleCache ==
    ASSUME IInv, CrashWritingModule
    PROVE  CacheInv'
<1>. SUFFICES ASSUME ~disturbed' PROVE CacheInv'
  BY DisturbedCache
<1>a. TypeOK /\ PhaseInv /\ LayoutInv
  BY DEF IInv, CacheInv
<1>1. /\ ~disturbed /\ ~StampsAhead /\ EndFailed
      /\ \A o \in OutModes : ~StampValid(o, Cur)
      /\ UNCHANGED <<src, stamp, jobObject, layout>>
  BY DEF CrashWritingModule, EndFailed, choice
<1>2. phase \in {"import", "translate", "compile"} /\ AtModule
  BY DEF CrashWritingModule, WritesPartial, WritesHeader, WritesObject, AtModule
<1>3. Cur \in Module
  BY <1>a, <1>2, CurFacts DEF PhaseInv
<1>4. /\ partial' \in {partial, [partial EXCEPT ![Cur] = Torn(Cur)]}
      /\ header' \in {header, [header EXCEPT ![Cur] = Torn(Cur)]}
      /\ object' \in {object, [object EXCEPT ![Cur] = Torn(Cur)]}
      /\ partial' # partial => layout = "single"
      /\ header' # header => layout = "multi" /\ Cur \in Chem
  BY <1>a DEF CrashWritingModule, WritesPartial, WritesHeader, PhaseInv
<1>5. \A m \in Module \ {Cur} :
         partial'[m] = partial[m] /\ header'[m] = header[m] /\ object'[m] = object[m]
  BY <1>a, <1>4 DEF TypeOK
<1>6. LayoutInv'
  <2>1. layout # "none"
    BY <1>a, <1>2 DEF PhaseInv
  <2>. QED
    BY <1>a, <1>1, <1>4, <1>5, <2>1 DEF LayoutInv
<1>7. \A d \in Module : Weaker(d)
  BY <1>1, WeakerSame
<1>8. ASSUME NEW m \in Module PROVE KeptSound(m)' /\ HeaderSound(m)'
  <2>1. Sources(m) \subseteq Module /\ m \in Sources(m)
    BY SourcesFacts
  <2>2. CASE m = Cur
    <3>1. \A o \in OutModes : ~Vouched(o, m)'
      BY <1>1, <2>1, <2>2 DEF Vouched, StampValid
    <3>. QED
      BY <3>1 DEF KeptSound, HeaderSound
  <2>3. CASE m # Cur
    <3>1. KeptSound(m) /\ HeaderSound(m)
      BY <1>1, <1>2, FailSound
    <3>2. Kept(layout, m)' = Kept(layout, m) /\ header'[m] = header[m]
      BY <1>1, <1>5, <2>3 DEF Kept
    <3>. QED
      BY <1>7, <2>1, <3>1, <3>2, KeepSound
  <2>. QED
    BY <2>2, <2>3
<1>9. layout' = "single" => JobSound'
  BY <1>1, <1>2, <1>7, FailSound, KeepJobSound
<1>. QED
  BY <1>1, <1>2, <1>6, <1>8, <1>9, FailedCache

\* A torn timestamp vouches for nothing.
LEMMA CrashSavingTimestampCache ==
    ASSUME IInv, CrashSavingTimestamp
    PROVE  CacheInv'
<1>. SUFFICES ASSUME ~disturbed' PROVE CacheInv'
  BY DisturbedCache
<1>a. TypeOK /\ PhaseInv /\ LayoutInv
  BY DEF IInv, CacheInv
<1>1. /\ phase = "stamp" /\ ~disturbed /\ ~StampsAhead /\ EndFailed
      /\ stamp' = [stamp EXCEPT ![Cur] = NoStamp]
      /\ UNCHANGED <<src, partial, header, object, jobObject, layout>>
  BY DEF CrashSavingTimestamp, EndFailed, choice
<1>2. Cur \in Module
  BY <1>a, <1>1, CurFacts DEF PhaseInv, AtModule
<1>3. stamp'[Cur] = NoStamp /\ \A m \in Module \ {Cur} : stamp'[m] = stamp[m]
  BY <1>a, <1>1, <1>2 DEF TypeOK
<1>4. LayoutInv'
  BY <1>a, <1>1 DEF LayoutInv
<1>5. \A d \in Module : Weaker(d)
  BY <1>1, <1>3, WeakerSame
<1>6. ASSUME NEW m \in Module PROVE KeptSound(m)' /\ HeaderSound(m)'
  <2>1. Sources(m) \subseteq Module /\ m \in Sources(m)
    BY SourcesFacts
  <2>2. CASE m = Cur
    <3>1. \A o \in OutModes : ~Vouched(o, m)'
      BY <1>3, <2>1, <2>2 DEF Vouched, StampValid, NoStamp
    <3>. QED
      BY <3>1 DEF KeptSound, HeaderSound
  <2>3. CASE m # Cur
    <3>1. KeptSound(m) /\ HeaderSound(m)
      BY <1>1, <2>3, FailSound
    <3>2. Kept(layout, m)' = Kept(layout, m) /\ header'[m] = header[m]
      BY <1>1 DEF Kept
    <3>. QED
      BY <1>5, <2>1, <3>1, <3>2, KeepSound
  <2>. QED
    BY <2>2, <2>3
<1>7. layout' = "single" => JobSound'
  BY <1>1, <1>5, FailSound, KeepJobSound
<1>. QED
  BY <1>1, <1>4, <1>6, <1>7, FailedCache

\* A torn job object is linked in no other layout than a single file build.
LEMMA CrashWritingJobCache ==
    ASSUME IInv, CrashWritingJob
    PROVE  CacheInv'
<1>. SUFFICES ASSUME ~disturbed' PROVE CacheInv'
  BY DisturbedCache
<1>a. PhaseInv /\ LayoutInv
  BY DEF IInv, CacheInv
<1>1. /\ phase = "job" /\ ~disturbed /\ ~StampsAhead /\ EndFailed /\ layout # "single"
      /\ UNCHANGED <<src, stamp, partial, header, object, layout>>
  BY DEF CrashWritingJob, EndFailed, choice
<1>2. LayoutInv'
  BY <1>a, <1>1 DEF LayoutInv, PhaseInv
<1>3. \A d \in Module : Weaker(d)
  BY <1>1, WeakerSame
<1>4. ASSUME NEW m \in Module PROVE KeptSound(m)' /\ HeaderSound(m)'
  <2>1. Sources(m) \subseteq Module
    BY SourcesFacts
  <2>2. Kept(layout, m)' = Kept(layout, m)
    BY <1>1 DEF Kept
  <2>3. KeptSound(m) /\ HeaderSound(m)
    BY <1>1, FailSound
  <2>. QED
    BY <1>1, <1>3, <2>1, <2>2, <2>3, KeepSound
<1>. QED
  BY <1>1, <1>2, <1>4, FailedCache

\* The end of a build that succeeds.
LEMMA LinkJobCache ==
    ASSUME IInv, LinkJob
    PROVE  CacheInv'
<1>. SUFFICES ASSUME ~disturbed' PROVE CacheInv'
  BY DisturbedCache
<1>a. TypeOK /\ PhaseInv /\ LayoutInv /\ FilesInv /\ LinkInv
  BY DEF IInv, CacheInv
<1>1. /\ phase = "link" /\ phase' = "idle" /\ ~disturbed /\ DropProgress
      /\ exe' = Linked /\ status' = "success"
      /\ UNCHANGED <<src, stamp, partial, header, object, jobObject, layout, outMode, edited>>
  BY DEF LinkJob, disk, choice
<1>2. \A m \in Module : KeptSound(m) /\ HeaderSound(m)
  BY <1>a, <1>1, CurFacts DEF FilesInv, PhaseInv
<1>3. layout = "single" => JobSound
  BY <1>a, <1>1 DEF FilesInv
<1>4. LayoutInv'
  BY <1>a, <1>1 DEF LayoutInv
<1>5. \A d \in Module : Weaker(d)
  BY <1>1, WeakerSame
<1>6. ASSUME NEW m \in Module PROVE KeptSound(m)' /\ HeaderSound(m)'
  <2>1. Sources(m) \subseteq Module
    BY SourcesFacts
  <2>2. Kept(layout, m)' = Kept(layout, m)
    BY <1>1 DEF Kept
  <2>. QED
    BY <1>1, <1>2, <1>5, <2>1, <2>2, KeepSound
<1>7. layout' = "single" => JobSound'
  BY <1>1, <1>3, <1>5, KeepJobSound
<1>8. SoundUnlessDisturbed'
  <2>1. ~edited => Linked = CleanOutput
    BY <1>a, <1>1 DEF LinkInv
  <2>. QED
    BY <1>1, <2>1 DEF SoundUnlessDisturbed, CleanOutput
<1>. QED
  BY <1>1, <1>4, <1>6, <1>7, <1>8, DoneDropped, IdleCache

-----------------------------------------------------------------------------
\* The programmer's steps.

\* Edit outdates the timestamp of the file's module, so no claim about it or what
\* is above it is left to hold.
LEMMA EditCache ==
    ASSUME IInv, NEW e \in Module, Edit(e)
    PROVE  CacheInv'
<1>. SUFFICES ASSUME ~disturbed' PROVE CacheInv'
  BY DisturbedCache
<1>a. TypeOK /\ PhaseInv /\ VersionInv /\ LayoutInv /\ UnchangedInv /\ ModeInv
      /\ FilesInv /\ CurrentInv /\ UnitInv
  BY DEF IInv, CacheInv
<1>1. /\ src' = [src EXCEPT ![e] = @ + 1] /\ edited' = TRUE /\ ~disturbed
      /\ UNCHANGED <<stamp, partial, header, object, jobObject, phase, layout, outMode,
                     caching, pos, hasChanged, parsed, unit, restamped, status>>
      /\ phase = "idle" \/ ~EditMissed(e)
  BY DEF Edit, disk, choice, progress
<1>2. src'[e] = src[e] + 1 /\ \A m \in Module \ {e} : src'[m] = src[m]
  BY <1>a, <1>1 DEF TypeOK
<1>3. ASSUME NEW d \in Module PROVE Weaker(d)
  <2>1. CASE d = e
    BY <1>a, <1>1, <1>2, <2>1, WeakerEdit
  <2>2. CASE d # e
    BY <1>1, <1>2, <2>2, WeakerSame
  <2>. QED
    BY <2>1, <2>2
<1>4. Done' = Done /\ Cur' = Cur /\ Done \subseteq Module
  BY <1>a, <1>1, CurFacts DEF Done, Cur
<1>5. ASSUME NEW m \in Module
      PROVE  /\ KeptSound(m) => KeptSound(m)'
             /\ HeaderSound(m) => HeaderSound(m)'
  <2>1. Sources(m) \subseteq Module
    BY SourcesFacts
  <2>2. Kept(layout, m)' = Kept(layout, m)
    BY <1>1 DEF Kept
  <2>. QED
    BY <1>1, <1>3, <2>1, <2>2, KeepSound
<1>6. LayoutInv'
  BY <1>a, <1>1 DEF LayoutInv
<1>7. UnchangedInv'
  BY <1>a, <1>1, <1>4 DEF UnchangedInv, Kept, FromStamps
<1>8. ModeInv'
  BY <1>a, <1>1, <1>4 DEF ModeInv
<1>9. FilesInv'
  <2>1. JobSound => JobSound'
    BY <1>1, <1>3, KeepJobSound
  <2>2. \A m \in Done : KeptSound(m)' /\ HeaderSound(m)'
    BY <1>a, <1>1, <1>4, <1>5 DEF FilesInv
  <2>3. ASSUME NEW m \in Module \ Done
        PROVE  \/ restamped \cap Sources(m) # {}
               \/ phase = "stamp" /\ m = Cur
               \/ KeptSound(m)' /\ HeaderSound(m)'
    BY <1>a, <1>1, <1>5 DEF FilesInv
  <2>4. layout' = "single" /\ (phase' = "link" \/ restamped' \cap Chem = {}) => JobSound'
    BY <1>a, <1>1, <2>1 DEF FilesInv
  <2>. QED
    BY <1>1, <1>4, <2>2, <2>3, <2>4 DEF FilesInv
<1>10. CurrentInv'
  <2>1. AtModule => Cur \in Module
    BY <1>a, CurFacts DEF PhaseInv
  <2>2. Text(Cur)' = Text(Cur)
    BY <1>1, <1>4 DEF Text
  <2>3. phase = "stamp" => Cur # e
    BY <1>a, <1>1 DEF EditMissed, PhaseInv
  <2>4. phase \in {"stamp", "compile"} => /\ KeptSound(Cur) => KeptSound(Cur)'
                                          /\ HeaderSound(Cur) => HeaderSound(Cur)'
    BY <1>4, <1>5, <2>1 DEF AtModule
  <2>5. phase' = "stamp" /\ Cur' \in Chem =>
              /\ layout' = "single" => partial'[Cur'] = Text(Cur)'
              /\ layout' = "llvm" => object'[Cur'] = Text(Cur)'
              /\ layout' = "multi" =>
                    /\ header'[Cur'] = Text(Cur)'
                    /\ restamped' \cap Sources(Cur') # {} \/ KeptSound(Cur)'
    BY <1>a, <1>1, <1>4, <2>2, <2>4 DEF CurrentInv
  <2>6. phase' = "stamp" /\ Cur' \notin Chem =>
              object'[Cur'] = {<<Cur', src'[Cur'], outMode'>>}
    BY <1>a, <1>1, <1>2, <1>4, <2>1, <2>3 DEF CurrentInv, AtModule
  <2>7. phase' = "compile" => HeaderSound(Cur)'
    BY <1>a, <1>1, <1>4, <2>4 DEF CurrentInv
  <2>. QED
    BY <2>5, <2>6, <2>7 DEF CurrentInv
<1>11. UnitInv'
  <2>. SUFFICES ASSUME phase # "idle", phase # "link", layout # "llvm"
                PROVE  UnitInv'
    BY <1>1 DEF UnitInv
  <2>1. Honest(unit)'
    <3>. SUFFICES ASSUME NEW t \in unit, stamp[t[1]] # NoStamp, stamp[t[1]][1] = src'[t[1]]
                  PROVE  t[2] = src'[t[1]]
      BY <1>1 DEF Honest
    <3>1. t[1] \in Module
      BY <1>a, <1>1 DEF UnitInv, Chem
    <3>2. src[e] \in Nat
      BY <1>a, ConstantsAssumption DEF TypeOK, Version
    <3>3. t[1] # e
      BY <1>a, <1>2, <3>1, <3>2 DEF VersionInv
    <3>. QED
      BY <1>a, <1>1, <1>2, <3>1, <3>3 DEF UnitInv, Honest
  <2>. QED
    BY <1>a, <1>1, <1>4, <2>1 DEF UnitInv
<1>. QED
  BY <1>1, <1>6, <1>7, <1>8, <1>9, <1>10, <1>11
     DEF CacheInv, LinkInv, SoundUnlessDisturbed

\* RemoveModuleDir: without its timestamp the module is compiled again.
LEMMA RemoveModuleDirCache ==
    ASSUME IInv, NEW r \in Module, RemoveModuleDir(r)
    PROVE  CacheInv'
<1>. SUFFICES ASSUME ~disturbed' PROVE CacheInv'
  BY DisturbedCache
<1>a. TypeOK /\ PhaseInv /\ LayoutInv
  BY DEF IInv, CacheInv
<1>1. /\ phase = "idle" /\ phase' = "idle" /\ ~disturbed /\ edited'
      /\ UNCHANGED <<src, jobObject, layout, pos>>
  BY DEF RemoveModuleDir, choice, progress
<1>2. \A m \in Module : /\ stamp'[m] = IF m = r THEN NoStamp ELSE stamp[m]
                        /\ partial'[m] = IF m = r THEN NoFile ELSE partial[m]
                        /\ header'[m] = IF m = r THEN NoFile ELSE header[m]
                        /\ object'[m] = IF m = r THEN NoFile ELSE object[m]
  BY <1>a DEF RemoveModuleDir, TypeOK
<1>3. \A d \in Module : Weaker(d)
  BY <1>1, <1>2, WeakerSame
<1>4. ASSUME NEW m \in Module PROVE KeptSound(m)' /\ HeaderSound(m)'
  <2>1. CASE m = r
    BY <1>2, <2>1 DEF KeptSound, HeaderSound, Present, Kept
  <2>2. CASE m # r
    <3>1. Sources(m) \subseteq Module
      BY SourcesFacts
    <3>2. Kept(layout, m)' = Kept(layout, m) /\ header'[m] = header[m]
      BY <1>1, <1>2, <2>2 DEF Kept
    <3>. QED
      BY <1>1, <1>3, <3>1, <3>2, IdleFiles, KeepSound
  <2>. QED
    BY <2>1, <2>2
<1>5. layout' = "single" => JobSound'
  BY <1>1, <1>3, IdleFiles, KeepJobSound
<1>6. LayoutInv'
  BY <1>a, <1>1, <1>2 DEF LayoutInv
<1>7. Done' \subseteq Module /\ SoundUnlessDisturbed'
  BY <1>a, <1>1, CurFacts DEF Done, SoundUnlessDisturbed
<1>. QED
  BY <1>1, <1>4, <1>5, <1>6, <1>7, IdleCache

\* RemoveBuildDir leaves an empty cache.
LEMMA RemoveBuildDirCache ==
    ASSUME IInv, RemoveBuildDir
    PROVE  CacheInv'
<1>1. /\ phase' = "idle" /\ layout' = "none" /\ status' = "none" /\ pos' = pos
      /\ jobObject' = [exists |-> FALSE, made |-> NoFile]
      /\ \A m \in Module : /\ partial'[m] = NoFile /\ header'[m] = NoFile
                           /\ object'[m] = NoFile
  BY DEF RemoveBuildDir, progress
<1>2. \A m \in Module : KeptSound(m)' /\ HeaderSound(m)'
  BY <1>1 DEF KeptSound, HeaderSound, Present, Kept
<1>3. LayoutInv' /\ SoundUnlessDisturbed'
  BY <1>1 DEF LayoutInv, SoundUnlessDisturbed
<1>4. Done' \subseteq Module
  BY <1>1, CurFacts DEF IInv, Done
<1>. QED
  BY <1>1, <1>2, <1>3, <1>4, IdleCache

-----------------------------------------------------------------------------
\* The steps of a build.

\* A step of the loop that leaves timestamps alone, and all files but those of
\* the current module.
LEMMA FilesStep ==
    ASSUME IInv, ~disturbed, phase # "link", NEW n \in Module, n = Cur,
           Done' = Done \/ Done' = Done \cup {n},
           phase' = "link" => layout = "llvm",
           UNCHANGED <<src, stamp, restamped, layout, jobObject>>,
           \A m \in Module \ {n} : Kept(layout, m)' = Kept(layout, m)
                                   /\ header'[m] = header[m],
           \/ KeptSound(n)' /\ HeaderSound(n)'
           \/ n \notin Done' /\ phase' = "stamp" /\ Cur' = n
    PROVE  FilesInv'
<1>a. TypeOK /\ FilesInv
  BY DEF IInv, CacheInv
<1>1. \A d \in Module : Weaker(d)
  BY WeakerSame
<1>2. ASSUME NEW m \in Module, m # n
      PROVE  KeptSound(m) /\ HeaderSound(m) => KeptSound(m)' /\ HeaderSound(m)'
  <2>1. Sources(m) \subseteq Module
    BY SourcesFacts
  <2>. QED
    BY <1>1, <1>2, <2>1, KeepSound
<1>3. \A m \in Done : KeptSound(m) /\ HeaderSound(m)
  BY <1>a DEF FilesInv
<1>4. ASSUME NEW m \in Module \ Done, m # n
      PROVE  restamped \cap Sources(m) # {} \/ (KeptSound(m) /\ HeaderSound(m))
  BY <1>a, <1>4 DEF FilesInv
<1>5. Done \subseteq Module
  BY <1>a, CurFacts
<1>6. ASSUME NEW m \in Done' PROVE KeptSound(m)' /\ HeaderSound(m)'
  <2>1. CASE m = n
    BY <2>1
  <2>2. CASE m # n
    BY <1>2, <1>3, <1>5, <2>2
  <2>. QED
    BY <2>1, <2>2
<1>7. ASSUME NEW m \in Module \ Done'
      PROVE  \/ restamped' \cap Sources(m) # {}
             \/ phase' = "stamp" /\ m = Cur'
             \/ KeptSound(m)' /\ HeaderSound(m)'
  BY <1>2, <1>4
<1>8. layout' = "single" /\ (phase' = "link" \/ restamped' \cap Chem = {}) => JobSound'
  <2>1. JobSound => JobSound'
    BY <1>1, KeepJobSound
  <2>. QED
    BY <1>a, <2>1 DEF FilesInv
<1>. QED
  BY <1>6, <1>7, <1>8 DEF FilesInv

\* A build step that reaches the link step has made everything it links.
LEMMA LinkStep ==
    ASSUME ~edited' /\ ~disturbed' =>
               \A m \in Done' : layout' # "single" \/ m \notin Chem
                                    => object'[m] = Fresh(outMode, m)',
           phase' = "link" => layout' = "llvm" /\ Done' = Module
    PROVE  LinkInv'
<1>1. ASSUME phase' = "link", ~edited', ~disturbed' PROVE Linked' = CleanOutput'
  <2>1. LinkedFresh'
    BY <1>1 DEF LinkedFresh
  <2>. QED
    BY <2>1, LinkedCleanNext
<1>. QED
  BY <1>1 DEF LinkInv

\* SkipCFile: the object of an unchanged C file is the fresh one.
LEMMA SkipCFileCache ==
    ASSUME IInv, SkipCFile
    PROVE  CacheInv'
<1>. SUFFICES ASSUME ~disturbed' PROVE CacheInv'
  BY DisturbedCache
<1>a. TypeOK /\ PhaseInv /\ LayoutInv /\ UnchangedInv /\ ModeInv /\ FilesInv /\ UnitInv
      /\ LinkInv
  BY DEF IInv, CacheInv
<1>1. /\ phase = "import" /\ Kind[Cur] = "c" /\ hasChanged[Cur] = "unchanged"
      /\ ~disturbed /\ Advance
      /\ UNCHANGED <<src, stamp, partial, header, object, jobObject, layout, outMode,
                     caching, hasChanged, parsed, unit, restamped, status, edited>>
  BY DEF SkipCFile, disk, choice
<1>2. pos \in 1..Len(Order) /\ status = "running"
  BY <1>a, <1>1 DEF PhaseInv, AtModule
<1>3. PICK n \in Module : n = Cur
  BY <1>a, <1>2, CurFacts
<1>4. /\ Done' = Done \cup {n} /\ phase' \in {"import", "job", "link"}
      /\ phase' = "link" => layout = "llvm" /\ Done' = Module
  BY <1>a, <1>1, <1>2, <1>3, AdvanceFacts DEF Advance
<1>5. n \notin Chem
  BY <1>1, <1>3 DEF Chem
<1>6. LayoutInv' /\ UnchangedInv'
  BY <1>a, <1>1, <1>4 DEF LayoutInv, UnchangedInv, Kept, FromStamps
<1>7. /\ KeptSound(n) /\ HeaderSound(n) /\ stamp[n] # NoStamp /\ stamp[n][2] = outMode
      /\ ~edited => object[n] = Fresh(outMode, n)
  BY <1>a, <1>1, <1>3, <1>5, UnchangedFacts DEF Kept
<1>8. FilesInv'
  <2>1. \A d \in Module : Weaker(d)
    BY <1>1, WeakerSame
  <2>2. \A m \in Module : Kept(layout, m)' = Kept(layout, m)
    BY <1>1 DEF Kept
  <2>3. KeptSound(n)' /\ HeaderSound(n)'
    BY <1>1, <1>7, <2>1, <2>2, SourcesFacts, KeepSound
  <2>. QED
    BY <1>1, <1>3, <1>4, <2>2, <2>3, FilesStep
<1>9. ModeInv'
  BY <1>a, <1>1, <1>4, <1>7 DEF ModeInv
<1>10. CurrentInv' /\ UnitInv'
  BY <1>a, <1>1, <1>4, <1>5 DEF CurrentInv, UnitInv, Honest
<1>11. LinkInv'
  <2>1. ASSUME ~edited, NEW m \in Done', layout # "single" \/ m \notin Chem
        PROVE  object[m] = Fresh(outMode, m)
    BY <1>a, <1>1, <1>4, <1>7, <2>1 DEF LinkInv
  <2>. QED
    BY <1>1, <1>4, <2>1, LinkStep DEF Fresh
<1>. QED
  BY <1>1, <1>2, <1>6, <1>8, <1>9, <1>10, <1>11 DEF CacheInv, SoundUnlessDisturbed

\* CompileCFile makes the object from the file as it is.
LEMMA CompileCFileCache ==
    ASSUME IInv, CompileCFile
    PROVE  CacheInv'
<1>. SUFFICES ASSUME ~disturbed' PROVE CacheInv'
  BY DisturbedCache
<1>a. TypeOK /\ PhaseInv /\ LayoutInv /\ UnchangedInv /\ ModeInv /\ FilesInv /\ UnitInv
      /\ LinkInv
  BY DEF IInv, CacheInv
<1>1. /\ phase = "import" /\ Kind[Cur] = "c" /\ hasChanged[Cur] # "unchanged"
      /\ ~disturbed
      /\ object' = [object EXCEPT ![Cur] = {<<Cur, src[Cur], outMode>>}]
      /\ IF caching THEN phase' = "stamp" /\ UNCHANGED pos ELSE Advance
      /\ UNCHANGED <<src, stamp, partial, header, jobObject, layout, outMode,
                     caching, hasChanged, parsed, unit, restamped, status, edited>>
  BY DEF CompileCFile, choice
<1>2. pos \in 1..Len(Order) /\ status = "running" /\ layout # "none"
  BY <1>a, <1>1 DEF PhaseInv, AtModule
<1>3. PICK n \in Module : n = Cur
  BY <1>a, <1>2, CurFacts
<1>4. /\ caching => phase' = "stamp" /\ Done' = Done /\ Cur' = Cur
      /\ ~caching => /\ Done' = Done \cup {n}
                     /\ phase' \in {"import", "job", "link"}
                     /\ phase' = "link" => layout = "llvm" /\ Done' = Module
  BY <1>a, <1>1, <1>2, <1>3, AdvanceFacts DEF Advance, Done, Cur
<1>5. n \notin Chem /\ n \notin Done /\ Sources(n) = {n}
  BY <1>a, <1>1, <1>2, <1>3, CurFacts, SourcesFacts DEF Chem
<1>6. object'[n] = {<<n, src[n], outMode>>}
      /\ \A m \in Module \ {n} : object'[m] = object[m]
  BY <1>a, <1>1, <1>3 DEF TypeOK
<1>7. object'[n] = Fresh(outMode, n)
  <2>1. Fresh(outMode, n) = {<<d, src[d], outMode>> : d \in {n}}
    BY <1>5 DEF Fresh
  <2>. QED
    BY <1>6, <2>1
<1>8. LayoutInv'
  BY <1>a, <1>1, <1>2 DEF LayoutInv
<1>9. \A m \in Module \ {n} : Kept(layout, m)' = Kept(layout, m)
  BY <1>1, <1>6 DEF Kept
<1>10. UnchangedInv'
  <2>1. \A m \in Module : hasChanged[m] = "unchanged" => m # n
    BY <1>1, <1>3
  <2>2. \A m \in Module : FromStamps(m)' = FromStamps(m)
    BY <1>1 DEF FromStamps
  <2>3. phase' = "stamp" => hasChanged'[Cur'] # "unchanged"
    BY <1>1, <1>4
  <2>4. phase' # "compile"
    BY <1>4
  <2>. QED
    BY <1>a, <1>1, <1>9, <2>1, <2>2, <2>3, <2>4 DEF UnchangedInv
<1>11. ModeInv'
  BY <1>a, <1>1, <1>4 DEF ModeInv
<1>12. FilesInv'
  <2>1. ASSUME ~caching PROVE KeptSound(n)' /\ HeaderSound(n)'
    <3>1. header'[n] = NoFile
      BY <1>a, <1>1, <1>5 DEF LayoutInv
    <3>2. ASSUME NEW o \in OutModes, Vouched(o, n)' PROVE o = outMode
      <4>1. stamp[n] = <<src[n], o>>
        BY <1>1, <1>5, <3>2 DEF Vouched, StampValid
      <4>2. stamp[n] # NoStamp /\ stamp[n][2] = o
        BY <4>1 DEF NoStamp
      <4>. QED
        BY <1>a, <1>1, <2>1, <4>2 DEF ModeInv
    <3>3. Kept(layout, n)' = Fresh(outMode, n)'
      BY <1>1, <1>5, <1>7 DEF Kept, Fresh
    <3>. QED
      BY <1>1, <3>1, <3>2, <3>3 DEF KeptSound, HeaderSound
  <2>. QED
    BY <1>1, <1>3, <1>4, <1>5, <1>9, <2>1, FilesStep
<1>13. CurrentInv'
  BY <1>1, <1>3, <1>4, <1>5, <1>6 DEF CurrentInv
<1>14. UnitInv'
  BY <1>a, <1>1, <1>3, <1>4, <1>5 DEF UnitInv, Honest
<1>15. LinkInv'
  <2>1. ASSUME ~edited, NEW m \in Done', layout # "single" \/ m \notin Chem
        PROVE  object'[m] = Fresh(outMode, m)
    <3>1. CASE m = n
      BY <1>7, <3>1
    <3>2. CASE m # n
      <4>1. m \in Done /\ m \in Module
        BY <1>a, <1>4, <3>2, CurFacts
      <4>. QED
        BY <1>a, <1>1, <1>6, <2>1, <3>2, <4>1 DEF LinkInv
    <3>. QED
      BY <3>1, <3>2
  <2>. QED
    BY <1>1, <1>4, <2>1, LinkStep DEF Fresh
<1>. QED
  BY <1>1, <1>2, <1>8, <1>10, <1>11, <1>12, <1>13, <1>14, <1>15
     DEF CacheInv, SoundUnlessDisturbed

\* ImportModule reads files and writes none.
LEMMA ImportModuleCache ==
    ASSUME IInv, ImportModule
    PROVE  CacheInv'
<1>. SUFFICES ASSUME ~disturbed' PROVE CacheInv'
  BY DisturbedCache
<1>a. TypeOK /\ PhaseInv /\ LayoutInv /\ UnchangedInv /\ ModeInv /\ FilesInv /\ UnitInv
      /\ LinkInv
  BY DEF IInv, CacheInv
<1>1. /\ phase = "import" /\ phase' = "translate" /\ ~disturbed
      /\ UNCHANGED <<src, stamp, partial, header, object, jobObject, layout, outMode,
                     caching, pos, hasChanged, unit, restamped, status, edited>>
  BY DEF ImportModule, disk, choice
<1>2. pos \in 1..Len(Order) /\ status = "running"
  BY <1>a, <1>1 DEF PhaseInv, AtModule
<1>3. PICK n \in Module : n = Cur
  BY <1>a, <1>2, CurFacts
<1>4. Done' = Done /\ Cur' = Cur /\ n \notin Done
  BY <1>a, <1>1, <1>2, <1>3, CurFacts DEF Done, Cur
<1>5. LayoutInv' /\ UnchangedInv' /\ ModeInv'
  BY <1>a, <1>1, <1>4 DEF LayoutInv, UnchangedInv, ModeInv, Kept, FromStamps
<1>6. FilesInv'
  <2>1. \A d \in Module : Weaker(d)
    BY <1>1, WeakerSame
  <2>2. \A m \in Module : Kept(layout, m)' = Kept(layout, m)
    BY <1>1 DEF Kept
  <2>3. ASSUME NEW m \in Module, KeptSound(m) /\ HeaderSound(m)
        PROVE  KeptSound(m)' /\ HeaderSound(m)'
    <3>1. Sources(m) \subseteq Module
      BY SourcesFacts
    <3>. QED
      BY <1>1, <2>1, <2>2, <2>3, <3>1, KeepSound
  <2>4. JobSound => JobSound'
    BY <1>1, <2>1, KeepJobSound
  <2>5. Done \subseteq Module
    BY <1>a, CurFacts
  <2>6. \A m \in Done' : KeptSound(m)' /\ HeaderSound(m)'
    BY <1>a, <1>1, <1>4, <2>3, <2>5 DEF FilesInv
  <2>7. \A m \in Module \ Done' : \/ restamped' \cap Sources(m) # {}
                                  \/ KeptSound(m)' /\ HeaderSound(m)'
    BY <1>a, <1>1, <1>4, <2>3 DEF FilesInv
  <2>8. layout' = "single" /\ (phase' = "link" \/ restamped' \cap Chem = {}) => JobSound'
    BY <1>a, <1>1, <2>4 DEF FilesInv
  <2>. QED
    BY <2>6, <2>7, <2>8 DEF FilesInv
<1>7. CurrentInv' /\ UnitInv'
  BY <1>a, <1>1, <1>4 DEF CurrentInv, UnitInv, Honest
<1>8. LinkInv'
  BY <1>a, <1>1, <1>4 DEF LinkInv, Fresh
<1>. QED
  BY <1>1, <1>2, <1>5, <1>6, <1>7, <1>8 DEF CacheInv, SoundUnlessDisturbed

\* What a step adds to the writer.
Adds(T, n) ==
    /\ \A t \in T : /\ t[1] \in Sources(n)
                    /\ t[3] = outMode
                    /\ ~edited => t[2] = src[t[1]]
    /\ Honest(T)
    /\ \E t \in T : t[1] = n

\* The writer after a step that adds the current module's text to it.
LEMMA UnitStep ==
    ASSUME IInv, ~disturbed, AtModule, phase \notin {"stamp", "compile"},
           layout # "llvm", NEW n \in Chem, n = Cur,
           NEW T, Adds(T, n), unit' = unit \cup T,
           UNCHANGED <<src, stamp, outMode, edited>>,
           Done' = Done \cup {n} \/ (Done' = Done /\ Cur' = n
                                        /\ phase' \in {"stamp", "compile"}),
           phase' \in {"stamp", "compile"} =>
               Done' = Done /\ Cur' = n /\ \A t \in T : t[1] = n => t[2] = parsed'[n]
    PROVE  UnitInv'
<1>1. TypeOK /\ PhaseInv /\ UnitInv
  BY DEF IInv, CacheInv
<1>2. pos \in 1..Len(Order) /\ phase \notin {"idle", "link"}
  BY <1>1 DEF PhaseInv, AtModule
<1>3. n \in Module \ Done /\ Sources(n) \subseteq Done \cup {n}
  BY <1>1, <1>2, CurFacts
<1>4. Sources(n) \subseteq Chem
  BY <1>3, SourcesFacts
<1>5. /\ \A t \in unit : /\ t[1] \in Chem /\ t[1] \in Done
                         /\ t[3] = outMode
                         /\ ~edited => t[2] = src[t[1]]
      /\ Honest(unit)
      /\ \A m \in Chem : m \in Done => \E t \in unit : t[1] = m
  BY <1>1, <1>2 DEF UnitInv
<1>6. ASSUME NEW t \in unit'
      PROVE  /\ t[1] \in Chem
             /\ t[1] \in Done \cup {n}
             /\ t[3] = outMode'
             /\ ~edited' => t[2] = src'[t[1]]
  <2>1. CASE t \in unit
    BY <1>5, <2>1
  <2>2. CASE t \in T
    BY <1>3, <1>4, <2>2 DEF Adds
  <2>. QED
    BY <2>1, <2>2
<1>7. Honest(unit)'
  BY <1>5 DEF Adds, Honest
<1>8. ASSUME NEW m \in Chem, m \in Done \cup {n}
      PROVE  \E t \in unit' : t[1] = m
  BY <1>5, <1>8 DEF Adds
<1>9. \A x : (x \in Done' \/ (phase' \in {"stamp", "compile"} /\ x = Cur'))
               <=> x \in Done \cup {n}
  OBVIOUS
<1>10. phase' \in {"stamp", "compile"} =>
          \A t \in unit' : t[1] = Cur' => t[2] = parsed'[Cur']
  <2>. SUFFICES ASSUME phase' \in {"stamp", "compile"}, NEW t \in unit', t[1] = n
                PROVE  t[2] = parsed'[n]
    OBVIOUS
  <2>. QED
    BY <1>3, <1>5
<1>. QED
  BY <1>6, <1>7, <1>8, <1>9, <1>10 DEF UnitInv

\* ReuseModule: what an unchanged module adds to the C text is what translating
\* it again would.
LEMMA ReuseModuleCache ==
    ASSUME IInv, ReuseModule
    PROVE  CacheInv'
<1>. SUFFICES ASSUME ~disturbed' PROVE CacheInv'
  BY DisturbedCache
<1>a. TypeOK /\ PhaseInv /\ VersionInv /\ LayoutInv /\ UnchangedInv /\ ModeInv
      /\ FilesInv /\ UnitInv /\ LinkInv
  BY DEF IInv, CacheInv
<1>1. /\ phase = "translate" /\ CacheHit /\ ~disturbed /\ Advance
      /\ hasChanged[Cur] = "unchanged"
      /\ UNCHANGED <<src, stamp, partial, header, object, jobObject, layout, outMode,
                     caching, hasChanged, parsed, restamped, status, edited>>
  BY DEF ReuseModule, CacheHit, disk, choice
<1>2. pos \in 1..Len(Order) /\ status = "running" /\ Cur \in Chem
      /\ layout \in {"single", "multi", "llvm"}
  BY <1>a, <1>1, ConstantsAssumption DEF PhaseInv, AtModule, TypeOK
<1>3. PICK n \in Module : n = Cur
  BY <1>a, <1>2, CurFacts
<1>4. /\ Done' = Done \cup {n} /\ phase' \in {"import", "job", "link"}
      /\ phase' = "link" => layout = "llvm" /\ Done' = Module
  BY <1>a, <1>1, <1>2, <1>3, AdvanceFacts DEF Advance
<1>5. LayoutInv' /\ UnchangedInv'
  BY <1>a, <1>1, <1>4 DEF LayoutInv, UnchangedInv, Kept, FromStamps
<1>6. /\ KeptSound(n) /\ HeaderSound(n) /\ stamp[n] # NoStamp /\ stamp[n][2] = outMode
      /\ ~edited => Kept(layout, n) = Fresh(outMode, n)
  BY <1>a, <1>1, <1>3, UnchangedFacts
<1>7. FilesInv'
  <2>1. \A d \in Module : Weaker(d)
    BY <1>1, WeakerSame
  <2>2. \A m \in Module : Kept(layout, m)' = Kept(layout, m)
    BY <1>1 DEF Kept
  <2>3. KeptSound(n)' /\ HeaderSound(n)'
    BY <1>1, <1>6, <2>1, <2>2, SourcesFacts, KeepSound
  <2>. QED
    BY <1>1, <1>3, <1>4, <2>2, <2>3, FilesStep
<1>8. ModeInv'
  BY <1>a, <1>1, <1>4, <1>6 DEF ModeInv
<1>9. CurrentInv'
  BY <1>4 DEF CurrentInv
<1>10. UnitInv'
  <2>1. CASE layout = "llvm"
    BY <1>1, <2>1 DEF UnitInv
  <2>2. CASE layout # "llvm"
    <3>1. Adds(FromStamps(n), n)
      <4>1. n \in Sources(n) /\ Sources(n) \subseteq Closure(n)
        BY SourcesFacts
      <4>2. \A d \in Sources(n) : ~edited => stamp[d][1] = src[d]
        BY <1>a, <1>1, <1>3, <4>1 DEF UnchangedInv
      <4>3. <<n, stamp[n][1], outMode>> \in FromStamps(n)
        BY <4>1 DEF FromStamps
      <4>4. Honest(FromStamps(n))
        BY DEF Honest, FromStamps
      <4>5. \A t \in FromStamps(n) : /\ t[1] \in Sources(n)
                                     /\ t[3] = outMode
                                     /\ ~edited => t[2] = src[t[1]]
        BY <4>2 DEF FromStamps
      <4>. QED
        BY <4>3, <4>4, <4>5 DEF Adds
    <3>2. Adds(Text(n), n)
      <4>1. PastImport
        BY <1>1 DEF PastImport
      <4>. QED
        BY <1>a, <1>1, <1>2, <1>3, <4>1, TextFacts DEF Adds
    <3>3. PICK T : Adds(T, n) /\ unit' = unit \cup T
      <4>1. layout = "single" => partial[n] = FromStamps(n)
        BY <1>a, <1>1, <1>2, <1>3 DEF UnchangedInv, Kept
      <4>2. header[n] # NoFile => header[n] = FromStamps(n)
        BY <1>a, <1>1, <1>3 DEF UnchangedInv
      <4>3. unit' = unit \cup FromStamps(n) \/ unit' = unit \cup Text(n)
        BY <1>2, <1>3, <2>2, <4>1, <4>2 DEF ReuseModule
      <4>. QED
        BY <3>1, <3>2, <4>3
    <3>4. AtModule
      BY <1>1 DEF AtModule
    <3>. QED
      BY <1>1, <1>2, <1>3, <1>4, <2>2, <3>3, <3>4, UnitStep
  <2>. QED
    BY <2>1, <2>2
<1>11. LinkInv'
  <2>1. ASSUME ~edited, NEW m \in Done', layout # "single" \/ m \notin Chem
        PROVE  object[m] = Fresh(outMode, m)
    <3>1. CASE m \in Done
      BY <1>a, <1>1, <2>1, <3>1 DEF LinkInv
    <3>2. CASE m = n
      <4>1. layout # "single"
        BY <1>2, <1>3, <2>1, <3>2
      <4>. QED
        BY <1>6, <2>1, <3>2, <4>1 DEF Kept
    <3>. QED
      BY <1>4, <3>1, <3>2
  <2>. QED
    BY <1>1, <1>4, <2>1, LinkStep DEF Fresh
<1>. QED
  BY <1>1, <1>2, <1>5, <1>7, <1>8, <1>9, <1>10, <1>11
     DEF CacheInv, SoundUnlessDisturbed

\* TranslateModule: the kept file it writes is the text of the syntax trees, until
\* SaveTimestamp vouches for it.
LEMMA TranslateModuleCache ==
    ASSUME IInv, TranslateModule
    PROVE  CacheInv'
<1>. SUFFICES ASSUME ~disturbed' PROVE CacheInv'
  BY DisturbedCache
<1>a. TypeOK /\ PhaseInv /\ VersionInv /\ LayoutInv /\ UnchangedInv /\ ModeInv
      /\ FilesInv /\ UnitInv /\ LinkInv
  BY DEF IInv, CacheInv
<1>1. /\ phase = "translate" /\ ~CacheHit /\ ~disturbed
      /\ UNCHANGED <<src, stamp, jobObject, layout, outMode, caching, hasChanged,
                     parsed, restamped, status, edited>>
  BY DEF TranslateModule, choice
<1>2. /\ pos \in 1..Len(Order) /\ status = "running" /\ Cur \in Chem
      /\ layout \in {"single", "multi", "llvm"} /\ caching \in BOOLEAN
      /\ PastImport /\ AtModule
  BY <1>a, <1>1, ConstantsAssumption DEF PhaseInv, AtModule, PastImport, TypeOK
<1>3. PICK n \in Module : n = Cur
  BY <1>a, <1>2, CurFacts
<1>4. n \in Chem /\ n \in Module \ Done /\ n \in Sources(n)
  BY <1>a, <1>2, <1>3, CurFacts, SourcesFacts
<1>5. /\ Adds(Text(n), n)
      /\ \A o \in OutModes : Vouched(o, n) => Text(n) = Fresh(outMode, n)
      /\ ~edited => Text(n) = Fresh(outMode, n)
      /\ \A t \in Text(n) : t[1] = n => t[2] = parsed[n]
  BY <1>a, <1>1, <1>2, <1>3, TextFacts DEF Adds
<1>6. Text(n)' = Text(n)
  BY <1>1 DEF Text
<1>7. hasChanged[n] # "unchanged"
  <2>. SUFFICES ASSUME hasChanged[n] = "unchanged" PROVE FALSE
    OBVIOUS
  <2>1. Present(layout, n)
    BY <1>a, <1>1, UnchangedFacts
  <2>. QED
    BY <1>1, <1>3, <2>1 DEF CacheHit
\* Where the build goes, and which file it writes.
<1>8. \/ caching /\ phase' = "stamp" /\ Done' = Done /\ Cur' = n
      \/ ~caching /\ layout = "multi" /\ phase' = "compile" /\ Done' = Done /\ Cur' = n
      \/ /\ ~caching /\ layout # "multi" /\ Done' = Done \cup {n}
         /\ phase' \in {"import", "job", "link"}
         /\ phase' = "link" => layout = "llvm" /\ Done' = Module
  <2>1. CASE caching
    BY <1>3, <2>1 DEF TranslateModule, Done, Cur
  <2>2. CASE ~caching /\ layout = "multi"
    BY <1>3, <2>2 DEF TranslateModule, Done, Cur
  <2>3. CASE ~caching /\ layout # "multi"
    <3>1. Advance
      BY <2>3 DEF TranslateModule
    <3>. QED
      BY <1>a, <1>2, <1>3, <2>3, <3>1, AdvanceFacts DEF Advance
  <2>. QED
    BY <1>2, <2>1, <2>2, <2>3
<1>9. /\ partial' = IF layout = "single" /\ caching
                    THEN [partial EXCEPT ![n] = Text(n)] ELSE partial
      /\ header' = IF layout = "multi" /\ caching
                   THEN [header EXCEPT ![n] = Text(n)] ELSE header
      /\ object' = IF layout = "llvm"
                   THEN [object EXCEPT ![n] = Text(n)] ELSE object
  BY <1>3 DEF TranslateModule
<1>10. \A m \in Module \ {n} : /\ partial'[m] = partial[m] /\ header'[m] = header[m]
                               /\ object'[m] = object[m]
  BY <1>a, <1>9 DEF TypeOK
<1>11. /\ layout = "single" /\ caching => partial'[n] = Text(n)
       /\ layout = "multi" /\ caching => header'[n] = Text(n)
       /\ layout = "llvm" => object'[n] = Text(n)
  BY <1>a, <1>9 DEF TypeOK
<1>12. LayoutInv'
  BY <1>a, <1>1, <1>2, <1>4, <1>9, <1>10 DEF LayoutInv
<1>13. \A m \in Module \ {n} : Kept(layout, m)' = Kept(layout, m)
  BY <1>1, <1>10 DEF Kept
<1>14. UnchangedInv'
  <2>1. \A m \in Module : hasChanged[m] = "unchanged" => m # n
    BY <1>7
  <2>2. \A m \in Module : FromStamps(m)' = FromStamps(m)
    BY <1>1 DEF FromStamps
  <2>3. phase' \in {"stamp", "compile"} => hasChanged'[Cur'] # "unchanged"
    BY <1>1, <1>7, <1>8
  <2>. QED
    BY <1>a, <1>1, <1>10, <1>13, <2>1, <2>2, <2>3 DEF UnchangedInv
<1>15. ModeInv'
  BY <1>a, <1>1, <1>8 DEF ModeInv
\* The files of the current module that this step leaves alone are as they were.
<1>16. restamped \cap Sources(n) # {} \/ (KeptSound(n) /\ HeaderSound(n))
  BY <1>a, <1>1, <1>4 DEF FilesInv
<1>17. ~caching => restamped = {}
  BY <1>a DEF PhaseInv
<1>18. \A d \in Module : Weaker(d)
  BY <1>1, WeakerSame
<1>19. /\ KeptSound(n) /\ Kept(layout, n)' = Kept(layout, n) => KeptSound(n)'
       /\ HeaderSound(n) /\ header'[n] = header[n] => HeaderSound(n)'
  BY <1>18, SourcesFacts, KeepSound
<1>20. ASSUME ~caching PROVE KeptSound(n)' /\ HeaderSound(n)'
  <2>1. KeptSound(n) /\ HeaderSound(n) /\ header'[n] = header[n]
    BY <1>9, <1>16, <1>17, <1>20
  <2>2. CASE layout # "llvm"
    <3>1. Kept(layout, n)' = Kept(layout, n)
      BY <1>1, <1>9, <1>20, <2>2 DEF Kept
    <3>. QED
      BY <1>19, <2>1, <3>1
  <2>3. CASE layout = "llvm"
    <3>1. ASSUME NEW o \in OutModes, Vouched(o, n)'
          PROVE  o = outMode /\ Text(n) = Fresh(outMode, n)
      <4>1. stamp[n] = <<src[n], o>> /\ Vouched(o, n)
        BY <1>1, <1>4, <3>1 DEF Vouched, StampValid
      <4>2. stamp[n] # NoStamp /\ stamp[n][2] = o
        BY <4>1 DEF NoStamp
      <4>. QED
        BY <1>a, <1>1, <1>5, <1>20, <4>1, <4>2 DEF ModeInv
    <3>2. Kept(layout, n)' = Text(n)
      BY <1>1, <1>11, <2>3 DEF Kept
    <3>3. Fresh(outMode, n)' = Fresh(outMode, n)
      BY <1>1 DEF Fresh
    <3>4. KeptSound(n)'
      BY <1>1, <3>1, <3>2, <3>3 DEF KeptSound
    <3>. QED
      BY <1>19, <2>1, <3>4
  <2>. QED
    BY <2>2, <2>3
<1>21. FilesInv'
  BY <1>1, <1>3, <1>4, <1>8, <1>10, <1>13, <1>20, FilesStep
<1>22. CurrentInv'
  <2>1. CASE caching
    <3>1. layout = "multi" => restamped' \cap Sources(n) # {} \/ KeptSound(n)'
      <4>1. layout = "multi" => Kept(layout, n)' = Kept(layout, n)
        BY <1>1, <1>9 DEF Kept
      <4>. QED
        BY <1>1, <1>16, <1>19, <4>1
    <3>. QED
      BY <1>1, <1>4, <1>6, <1>8, <1>11, <2>1, <3>1 DEF CurrentInv
  <2>2. CASE ~caching
    BY <1>8, <1>20, <2>2 DEF CurrentInv
  <2>. QED
    BY <1>2, <2>1, <2>2
<1>23. UnitInv'
  <2>1. CASE layout = "llvm"
    BY <1>1, <2>1 DEF UnitInv
  <2>2. CASE layout # "llvm"
    <3>1. unit' = unit \cup Text(n)
      BY <1>3, <2>2 DEF TranslateModule
    <3>2. phase' \in {"stamp", "compile"} =>
             \A t \in Text(n) : t[1] = n => t[2] = parsed'[n]
      BY <1>1, <1>5
    <3>. QED
      BY <1>1, <1>2, <1>3, <1>4, <1>5, <1>8, <2>2, <3>1, <3>2, UnitStep
  <2>. QED
    BY <2>1, <2>2
<1>24. LinkInv'
  <2>1. ASSUME ~edited, NEW m \in Done', layout # "single" \/ m \notin Chem
        PROVE  object'[m] = Fresh(outMode, m)
    <3>1. CASE m = n
      BY <1>4, <1>5, <1>8, <1>11, <1>2, <2>1, <3>1
    <3>2. CASE m # n
      <4>1. m \in Done /\ m \in Module
        BY <1>a, <1>8, <3>2, CurFacts
      <4>. QED
        BY <1>a, <1>1, <1>10, <2>1, <3>2, <4>1 DEF LinkInv
    <3>. QED
      BY <3>1, <3>2
  <2>2. \A m \in Module : Fresh(outMode, m)' = Fresh(outMode, m)
    BY <1>1 DEF Fresh
  <2>3. Done' \subseteq Module
    BY <1>a, <1>8, CurFacts
  <2>. QED
    BY <1>1, <1>8, <2>1, <2>2, <2>3, LinkStep
<1>. QED
  BY <1>1, <1>2, <1>12, <1>14, <1>15, <1>21, <1>22, <1>23, <1>24
     DEF CacheInv, SoundUnlessDisturbed

\* SaveTimestamp: the file the timestamp now vouches for was made from the files
\* as they are, and modules ahead see the restamp.
LEMMA SaveTimestampCache ==
    ASSUME IInv, SaveTimestamp, TypeOK', VersionInv'
    PROVE  CacheInv'
<1>. SUFFICES ASSUME ~disturbed' PROVE CacheInv'
  BY DisturbedCache
<1>a. TypeOK /\ PhaseInv /\ VersionInv /\ LayoutInv /\ UnchangedInv /\ ModeInv
      /\ FilesInv /\ CurrentInv /\ UnitInv /\ LinkInv
  BY DEF IInv, CacheInv
<1>1. /\ phase = "stamp" /\ caching /\ ~disturbed
      /\ UNCHANGED <<src, partial, header, object, jobObject, layout, outMode, caching,
                     hasChanged, parsed, unit, status, edited>>
  BY <1>a DEF SaveTimestamp, PhaseInv, choice
<1>2. /\ pos \in 1..Len(Order) /\ status = "running"
      /\ layout \in {"single", "multi", "llvm"} /\ PastImport /\ AtModule
  BY <1>a, <1>1, ConstantsAssumption DEF PhaseInv, AtModule, PastImport, TypeOK
<1>3. PICK n \in Module : n = Cur
  BY <1>a, <1>2, CurFacts
<1>4. /\ n \in Module \ Done /\ n \in Sources(n) /\ Sources(n) \subseteq Module
      /\ n \notin Chem => Sources(n) = {n}
      /\ n \in Chem => Sources(n) \subseteq Chem /\ Sources(n) \subseteq Imported
      /\ \A m \in Done : Sources(m) \subseteq Done
      /\ Done \subseteq Module
  BY <1>a, <1>1, <1>2, <1>3, CurFacts, SourcesFacts, TextFacts
<1>5. /\ stamp'[n] = <<src[n], outMode>>
      /\ stamp'[n] # NoStamp /\ stamp'[n][1] = src[n] /\ stamp'[n][2] = outMode
      /\ \A m \in Module \ {n} : stamp'[m] = stamp[m]
      /\ restamped' = restamped \cup {n}
  <2>1. stamp' = [stamp EXCEPT ![n] = <<src[n], outMode>>] /\ restamped' = restamped \cup {n}
    BY <1>3 DEF SaveTimestamp
  <2>2. stamp'[n] = <<src[n], outMode>> /\ \A m \in Module \ {n} : stamp'[m] = stamp[m]
    BY <1>a, <2>1 DEF TypeOK
  <2>. QED
    BY <2>1, <2>2 DEF NoStamp
<1>6. \/ layout = "multi" /\ n \in Chem /\ phase' = "compile" /\ Done' = Done /\ Cur' = n
      \/ /\ layout # "multi" \/ n \notin Chem
         /\ Done' = Done \cup {n}
         /\ phase' \in {"import", "job", "link"}
         /\ phase' = "link" => layout = "llvm" /\ Done' = Module
  <2>1. CASE layout = "multi" /\ n \in Chem
    BY <1>3, <2>1 DEF SaveTimestamp, Done, Cur
  <2>2. CASE ~(layout = "multi" /\ n \in Chem)
    <3>1. Advance
      BY <1>3, <2>2 DEF SaveTimestamp
    <3>. QED
      BY <1>a, <1>2, <1>3, <2>2, <3>1, AdvanceFacts DEF Advance
  <2>. QED
    BY <2>1, <2>2
<1>7. hasChanged[n] # "unchanged"
  BY <1>a, <1>1, <1>3 DEF UnchangedInv
<1>8. LayoutInv'
  BY <1>a, <1>1 DEF LayoutInv
<1>9. UnchangedInv'
  <2>1. ASSUME NEW m \in Module, hasChanged[m] = "unchanged"
        PROVE  /\ caching'
               /\ \A d \in Closure(m) :
                     /\ hasChanged'[d] = "unchanged"
                     /\ stamp'[d] # NoStamp /\ stamp'[d][2] = outMode'
                     /\ ~edited' => stamp'[d][1] = src'[d]
               /\ Kept(layout, m)' = FromStamps(m)'
               /\ header'[m] # NoFile => header'[m] = FromStamps(m)'
    <3>1. /\ caching
          /\ \A d \in Closure(m) :
                /\ hasChanged[d] = "unchanged"
                /\ stamp[d] # NoStamp /\ stamp[d][2] = outMode
                /\ ~edited => stamp[d][1] = src[d]
          /\ Kept(layout, m) = FromStamps(m)
          /\ header[m] # NoFile => header[m] = FromStamps(m)
      BY <1>a, <1>1, <2>1 DEF UnchangedInv
    <3>2. Closure(m) \subseteq Module /\ Sources(m) \subseteq Closure(m)
      BY ClosureFacts, SourcesFacts
    <3>3. \A d \in Closure(m) : d # n /\ stamp'[d] = stamp[d]
      BY <1>5, <1>7, <3>1, <3>2
    <3>4. FromStamps(m)' = FromStamps(m) /\ Kept(layout, m)' = Kept(layout, m)
      BY <1>1, <3>2, <3>3 DEF FromStamps, Kept
    <3>. QED
      BY <1>1, <3>1, <3>3, <3>4
  <2>2. phase' \in {"stamp", "compile"} => hasChanged'[Cur'] # "unchanged"
    BY <1>1, <1>6, <1>7
  <2>. QED
    BY <1>1, <2>1, <2>2 DEF UnchangedInv
<1>10. ModeInv'
  <2>1. restamped \subseteq Module
    BY <1>a DEF TypeOK
  <2>2. \A m \in Done' : stamp'[m] # NoStamp /\ stamp'[m][2] = outMode'
    <3>1. \A m \in Done : stamp[m] # NoStamp /\ stamp[m][2] = outMode
      BY <1>a, <1>1 DEF ModeInv
    <3>2. \A m \in Done : stamp'[m] = stamp[m]
      BY <1>4, <1>5
    <3>3. ASSUME NEW m \in Done'
          PROVE  stamp'[m] # NoStamp /\ stamp'[m][2] = outMode
      <4>1. CASE m = n
        BY <1>5, <4>1
      <4>2. CASE m # n
        BY <1>6, <3>1, <3>2, <4>2
      <4>. QED
        BY <4>1, <4>2
    <3>. QED
      BY <1>1, <3>3
  <2>3. \A m \in restamped' : stamp'[m] # NoStamp /\ stamp'[m][2] = outMode'
    BY <1>a, <1>1, <1>4, <1>5, <2>1 DEF ModeInv
  <2>4. phase' = "compile" => Cur' \in restamped'
    BY <1>5, <1>6
  <2>. QED
    BY <1>1, <2>2, <2>3, <2>4 DEF ModeInv
\* What the new timestamp vouches for is what was translated.
<1>11. ASSUME NEW o \in OutModes, Vouched(o, n)' PROVE o = outMode
  BY <1>4, <1>5, <1>11 DEF Vouched, StampValid
<1>12. ASSUME n \in Chem, NEW o \in OutModes, Vouched(o, n)'
       PROVE  Text(n) = Fresh(o, n)'
  <2>1. ASSUME NEW d \in Sources(n) PROVE parsed[d] = src[d]
    <3>1. d \in Module /\ d \in Imported
      BY <1>4, <1>12
    <3>2. CASE d = n
      <4>1. phase = "stamp" /\ Cur \in Chem /\ ~disturbed /\ caching
        BY <1>1, <1>3, <1>12
      <4>. QED
        BY <1>a, <1>3, <3>2, <4>1 DEF VersionInv
    <3>3. CASE d # n
      <4>1. StampValid(o, d)
        BY <1>1, <1>5, <1>12, <3>1, <3>3 DEF Vouched, StampValid
      <4>. QED
        BY <1>a, <1>1, <3>1, <4>1, VouchedParsed
    <3>. QED
      BY <3>2, <3>3
  <2>2. o = outMode
    BY <1>11, <1>12
  <2>. QED
    BY <1>1, <2>1, <2>2 DEF Text, Fresh
<1>13. n \in Chem => /\ layout = "single" => partial[n] = Text(n) /\ header[n] = NoFile
                     /\ layout = "llvm" => object[n] = Text(n) /\ header[n] = NoFile
                     /\ layout = "multi" => header[n] = Text(n)
  BY <1>a, <1>1, <1>3 DEF CurrentInv, LayoutInv
<1>14. HeaderSound(n)'
  <2>1. CASE n \in Chem
    BY <1>1, <1>2, <1>12, <1>13, <2>1 DEF HeaderSound
  <2>2. CASE n \notin Chem
    <3>1. header'[n] = NoFile
      BY <1>a, <1>1, <1>4, <2>2 DEF LayoutInv
    <3>. QED
      BY <3>1 DEF HeaderSound
  <2>. QED
    BY <2>1, <2>2
<1>15. n \notin Chem => object[n] = Fresh(outMode, n)
  <2>. SUFFICES ASSUME n \notin Chem PROVE object[n] = Fresh(outMode, n)
    OBVIOUS
  <2>1. object[n] = {<<n, src[n], outMode>>}
    BY <1>a, <1>1, <1>3 DEF CurrentInv
  <2>2. Fresh(outMode, n) = {<<d, src[d], outMode>> : d \in {n}}
    BY <1>4 DEF Fresh
  <2>. QED
    BY <2>1, <2>2
<1>16. layout # "multi" \/ n \notin Chem => KeptSound(n)'
  <2>1. CASE n \in Chem /\ layout # "multi"
    <3>1. Kept(layout, n)' = Text(n)
      BY <1>1, <1>2, <1>13, <2>1 DEF Kept
    <3>. QED
      BY <1>12, <2>1, <3>1 DEF KeptSound
  <2>2. CASE n \notin Chem
    <3>1. Kept(layout, n)' = Fresh(outMode, n)'
      BY <1>1, <1>15, <2>2 DEF Kept, Fresh
    <3>. QED
      BY <1>1, <1>11, <3>1 DEF KeptSound
  <2>. QED
    BY <2>1, <2>2
\* A module whose text does not hold the current one is as sound as it was.
<1>17. ASSUME NEW m \in Module, n \notin Sources(m), KeptSound(m), HeaderSound(m)
       PROVE  KeptSound(m)' /\ HeaderSound(m)'
  <2>1. Sources(m) \subseteq Module
    BY SourcesFacts
  <2>2. \A d \in Sources(m) : Weaker(d)
    BY <1>1, <1>5, <1>17, <2>1, WeakerSame
  <2>3. Kept(layout, m)' = Kept(layout, m)
    BY <1>1 DEF Kept
  <2>. QED
    BY <1>1, <1>17, <2>2, <2>3, KeepSound
<1>18. FilesInv'
  <2>1. ASSUME NEW m \in Done' PROVE KeptSound(m)' /\ HeaderSound(m)'
    <3>1. CASE m = n
      BY <1>4, <1>6, <1>14, <1>16, <3>1
    <3>2. CASE m # n
      <4>1. m \in Done /\ m \in Module /\ n \notin Sources(m)
        BY <1>4, <1>6, <3>2
      <4>2. KeptSound(m) /\ HeaderSound(m)
        BY <1>a, <1>1, <4>1 DEF FilesInv
      <4>. QED
        BY <1>17, <4>1, <4>2
    <3>. QED
      BY <3>1, <3>2
  <2>2. ASSUME NEW m \in Module \ Done'
        PROVE  \/ restamped' \cap Sources(m) # {}
               \/ phase' = "stamp" /\ m = Cur'
               \/ KeptSound(m)' /\ HeaderSound(m)'
    <3>1. CASE n \in Sources(m)
      BY <1>5, <3>1
    <3>2. CASE n \notin Sources(m)
      <4>1. m # n /\ m \in Module \ Done
        BY <1>4, <1>6, <3>2
      <4>2. restamped \cap Sources(m) # {} \/ (KeptSound(m) /\ HeaderSound(m))
        BY <1>a, <1>1, <1>3, <4>1 DEF FilesInv
      <4>. QED
        BY <1>5, <1>17, <3>2, <4>1, <4>2
    <3>. QED
      BY <3>1, <3>2
  <2>3. layout' = "single" /\ (phase' = "link" \/ restamped' \cap Chem = {}) => JobSound'
    <3>. SUFFICES ASSUME layout = "single", restamped' \cap Chem = {} PROVE JobSound'
      BY <1>1, <1>6
    <3>1. n \notin Chem /\ restamped \cap Chem = {}
      BY <1>5
    <3>2. JobSound
      BY <1>a, <1>1, <3>1 DEF FilesInv
    <3>3. \A d \in Chem : stamp'[d] = stamp[d]
      BY <1>5, <3>1 DEF Chem
    <3>. QED
      BY <1>1, <3>2, <3>3 DEF JobSound, StampValid
  <2>. QED
    BY <2>1, <2>2, <2>3 DEF FilesInv
<1>19. CurrentInv'
  BY <1>6, <1>14 DEF CurrentInv
<1>20. UnitInv'
  <2>. SUFFICES ASSUME layout # "llvm" PROVE UnitInv'
    BY <1>1 DEF UnitInv
  <2>1. /\ \A t \in unit : /\ t[1] \in Chem
                           /\ t[1] \in Done \cup {n}
                           /\ t[3] = outMode
                           /\ ~edited => t[2] = src[t[1]]
                           /\ t[1] = n => t[2] = parsed[n]
        /\ Honest(unit)
        /\ \A m \in Chem : m \in Done \cup {n} => \E t \in unit : t[1] = m
    BY <1>a, <1>1, <1>3 DEF UnitInv
  <2>2. Honest(unit)'
    <3>. SUFFICES ASSUME NEW t \in unit,
                         stamp'[t[1]] # NoStamp /\ stamp'[t[1]][1] = src[t[1]]
                  PROVE  t[2] = src[t[1]]
      BY <1>1 DEF Honest
    <3>1. t[1] \in Chem /\ t[1] \in Module
      BY <2>1 DEF Chem
    <3>2. CASE t[1] = n
      <4>1. phase = "stamp" /\ Cur \in Chem /\ ~disturbed /\ caching
        BY <1>1, <1>3, <3>1, <3>2
      <4>2. parsed[n] = src[n]
        BY <1>a, <1>3, <4>1 DEF VersionInv
      <4>. QED
        BY <2>1, <3>2, <4>2
    <3>3. CASE t[1] # n
      BY <1>5, <2>1, <3>1, <3>3 DEF Honest
    <3>. QED
      BY <3>2, <3>3
  <2>3. \A x \in Chem : (x \in Done' \/ (phase' \in {"stamp", "compile"} /\ x = Cur'))
                           <=> x \in Done \cup {n}
    BY <1>6
  <2>4. phase' \in {"stamp", "compile"} =>
           \A t \in unit' : t[1] = Cur' => t[2] = parsed'[Cur']
    BY <1>1, <1>6, <2>1
  <2>. QED
    BY <1>1, <2>1, <2>2, <2>3, <2>4 DEF UnitInv
<1>21. LinkInv'
  <2>1. ASSUME ~edited, NEW m \in Done', layout # "single" \/ m \notin Chem
        PROVE  object'[m] = Fresh(outMode, m)
    <3>1. CASE m \in Done
      BY <1>a, <1>1, <2>1, <3>1 DEF LinkInv
    <3>2. CASE m \notin Done
      <4>1. m = n /\ (layout # "multi" \/ n \notin Chem)
        BY <1>6, <3>2
      <4>2. CASE n \notin Chem
        BY <1>1, <1>15, <4>1, <4>2
      <4>3. CASE n \in Chem
        <5>1. object[n] = Text(n)
          BY <1>2, <1>13, <2>1, <4>1, <4>3
        <5>2. Text(n) = Fresh(outMode, n)
          BY <1>a, <1>1, <1>2, <1>3, <2>1, <4>3, TextFacts
        <5>. QED
          BY <1>1, <4>1, <5>1, <5>2
      <4>. QED
        BY <4>2, <4>3
    <3>. QED
      BY <3>1, <3>2
  <2>2. \A m \in Module : Fresh(outMode, m)' = Fresh(outMode, m)
    BY <1>1 DEF Fresh
  <2>3. Done' \subseteq Module
    BY <1>4, <1>6
  <2>. QED
    BY <1>1, <1>6, <2>1, <2>2, <2>3, LinkStep
<1>. QED
  BY <1>1, <1>2, <1>8, <1>9, <1>10, <1>18, <1>19, <1>20, <1>21
     DEF CacheInv, SoundUnlessDisturbed

\* CompileModule: the object of a multi file build holds the module and the
\* declarations of the modules below it, all current.
LEMMA CompileModuleCache ==
    ASSUME IInv, CompileModule
    PROVE  CacheInv'
<1>. SUFFICES ASSUME ~disturbed' PROVE CacheInv'
  BY DisturbedCache
<1>a. TypeOK /\ PhaseInv /\ LayoutInv /\ UnchangedInv /\ ModeInv
      /\ FilesInv /\ CurrentInv /\ UnitInv /\ LinkInv
  BY DEF IInv, CacheInv
<1>1. /\ phase = "compile" /\ layout = "multi" /\ Cur \in Chem /\ Advance /\ ~disturbed
      /\ UNCHANGED <<src, stamp, partial, header, jobObject, layout, outMode, caching,
                     hasChanged, parsed, unit, restamped, status, edited>>
  BY <1>a DEF CompileModule, PhaseInv, choice
<1>2. pos \in 1..Len(Order) /\ status = "running" /\ AtModule
  BY <1>a, <1>1 DEF PhaseInv, AtModule
<1>3. PICK n \in Module : n = Cur
  BY <1>a, <1>2, CurFacts
<1>4. /\ n \in Chem /\ n \in Module \ Done /\ n \in Sources(n)
      /\ Sources(n) \subseteq Chem /\ Sources(n) \subseteq Done \cup {n}
      /\ Done \subseteq Module
  BY <1>a, <1>1, <1>2, <1>3, CurFacts, SourcesFacts
<1>5. Done' = Done \cup {n} /\ phase' \in {"import", "job"}
  BY <1>a, <1>1, <1>2, <1>3, AdvanceFacts DEF Advance
<1>. DEFINE O == {t \in unit : t[1] \in Sources(n)}
<1>6. object'[n] = O /\ \A m \in Module \ {n} : object'[m] = object[m]
  <2>1. object' = [object EXCEPT ![n] = O]
    BY <1>3 DEF CompileModule
  <2>. QED
    BY <1>a, <2>1 DEF TypeOK
<1>7. /\ \A t \in unit : t[3] = outMode /\ (~edited => t[2] = src[t[1]])
      /\ Honest(unit)
      /\ \A m \in Chem : m \in Done \cup {n} => \E t \in unit : t[1] = m
  BY <1>a, <1>1, <1>3 DEF UnitInv
<1>8. \A t \in unit : t = <<t[1], t[2], t[3]>>
  BY <1>a DEF TypeOK, Origins
\* The object is what a clean build makes, when its versions are.
<1>9. ASSUME \A t \in O : t[2] = src[t[1]]
      PROVE  O = Fresh(outMode, n)
  <2>1. ASSUME NEW t \in O PROVE t \in Fresh(outMode, n)
    <3>1. t = <<t[1], src[t[1]], outMode>> /\ t[1] \in Sources(n)
      BY <1>7, <1>8, <1>9
    <3>. QED
      BY <3>1 DEF Fresh
  <2>2. ASSUME NEW d \in Sources(n) PROVE <<d, src[d], outMode>> \in O
    <3>1. PICK t \in unit : t[1] = d
      BY <1>4, <1>7
    <3>2. t \in O
      BY <3>1
    <3>3. t = <<d, src[d], outMode>>
      BY <1>7, <1>8, <1>9, <3>1, <3>2
    <3>. QED
      BY <3>2, <3>3
  <2>. QED
    BY <2>1, <2>2 DEF Fresh
<1>10. LayoutInv'
  BY <1>a, <1>1 DEF LayoutInv
<1>11. \A m \in Module \ {n} : Kept(layout, m)' = Kept(layout, m)
  BY <1>1, <1>6 DEF Kept
<1>12. UnchangedInv'
  <2>1. \A m \in Module : hasChanged[m] = "unchanged" => m # n
    BY <1>a, <1>1, <1>3 DEF UnchangedInv
  <2>2. \A m \in Module : FromStamps(m)' = FromStamps(m)
    BY <1>1 DEF FromStamps
  <2>. QED
    BY <1>a, <1>1, <1>5, <1>11, <2>1, <2>2 DEF UnchangedInv
<1>13. ModeInv'
  BY <1>a, <1>1, <1>3, <1>5 DEF ModeInv
<1>14. KeptSound(n)'
  <2>. SUFFICES ASSUME NEW o \in OutModes, Vouched(o, n)'
                PROVE  Kept(layout, n)' = Fresh(o, n)'
    BY DEF KeptSound
  <2>1. \A d \in Sources(n) : stamp[d] = <<src[d], o>>
    BY <1>1 DEF Vouched, StampValid
  <2>2. \A d \in Sources(n) : stamp[d] # NoStamp /\ stamp[d][1] = src[d] /\ stamp[d][2] = o
    BY <2>1 DEF NoStamp
  <2>3. o = outMode
    BY <1>a, <1>1, <1>3, <1>4, <2>2 DEF ModeInv, TypeOK
  <2>4. \A t \in O : t[2] = src[t[1]]
    BY <1>7, <2>2 DEF Honest
  <2>5. Kept(layout, n)' = O
    BY <1>1, <1>6 DEF Kept
  <2>. QED
    BY <1>1, <1>9, <2>3, <2>4, <2>5 DEF Fresh
<1>15. HeaderSound(n)'
  <2>1. HeaderSound(n) /\ Sources(n) \subseteq Module
    BY <1>a, <1>1, <1>3, SourcesFacts DEF CurrentInv
  <2>2. \A d \in Module : Weaker(d)
    BY <1>1, WeakerSame
  <2>. QED
    BY <1>1, <2>1, <2>2, KeepSound
<1>16. FilesInv'
  BY <1>1, <1>3, <1>5, <1>11, <1>14, <1>15, FilesStep
<1>17. CurrentInv' /\ UnitInv'
  BY <1>a, <1>1, <1>3, <1>5 DEF CurrentInv, UnitInv, Honest
<1>18. LinkInv'
  <2>1. ASSUME ~edited, NEW m \in Done'
        PROVE  object'[m] = Fresh(outMode, m)
    <3>1. CASE m = n
      BY <1>6, <1>7, <1>9, <2>1, <3>1
    <3>2. CASE m # n
      BY <1>a, <1>1, <1>4, <1>5, <1>6, <2>1, <3>2 DEF LinkInv
    <3>. QED
      BY <3>1, <3>2
  <2>. QED
    BY <1>1, <1>5, <2>1, LinkStep DEF Fresh
<1>. QED
  BY <1>1, <1>2, <1>10, <1>12, <1>13, <1>16, <1>17, <1>18
     DEF CacheInv, SoundUnlessDisturbed

\* CompileJob: the job's object is made of the text of every chemical module.
LEMMA CompileJobCache ==
    ASSUME IInv, CompileJob
    PROVE  CacheInv'
<1>. SUFFICES ASSUME ~disturbed' PROVE CacheInv'
  BY DisturbedCache
<1>a. TypeOK /\ PhaseInv /\ LayoutInv /\ UnchangedInv /\ ModeInv
      /\ FilesInv /\ UnitInv /\ LinkInv
  BY DEF IInv, CacheInv
<1>1. /\ phase = "job" /\ phase' = "link" /\ ~disturbed
      /\ layout = "single" => jobObject'.made = unit
      /\ UNCHANGED <<src, stamp, partial, header, object, layout, outMode, caching, pos,
                     hasChanged, parsed, unit, restamped, status, edited>>
  BY DEF CompileJob, choice, progress
<1>2. pos = Len(Order) + 1 /\ layout # "llvm" /\ layout # "none" /\ status = "running"
  BY <1>a, <1>1 DEF PhaseInv
<1>3. Done = Module /\ Done' = Module /\ Chem \subseteq Module
  BY <1>a, <1>1, <1>2, CurFacts DEF Done, Chem
<1>4. /\ \A t \in unit : /\ t[1] \in Chem
                         /\ t[3] = outMode /\ (~edited => t[2] = src[t[1]])
      /\ Honest(unit)
      /\ \A m \in Chem : \E t \in unit : t[1] = m
  BY <1>a, <1>1, <1>2, <1>3 DEF UnitInv
<1>5. \A t \in unit : t = <<t[1], t[2], t[3]>>
  BY <1>a DEF TypeOK, Origins
<1>6. ASSUME \A t \in unit : t[2] = src[t[1]]
      PROVE  unit = {<<m, src[m], outMode>> : m \in Chem}
  <2>1. ASSUME NEW t \in unit PROVE t \in {<<m, src[m], outMode>> : m \in Chem}
    <3>1. t = <<t[1], src[t[1]], outMode>> /\ t[1] \in Chem
      BY <1>4, <1>5, <1>6
    <3>. QED
      BY <3>1
  <2>2. ASSUME NEW m \in Chem PROVE <<m, src[m], outMode>> \in unit
    <3>1. PICK t \in unit : t[1] = m
      BY <1>4
    <3>2. t = <<m, src[m], outMode>>
      BY <1>4, <1>5, <1>6, <3>1
    <3>. QED
      BY <3>2
  <2>. QED
    BY <2>1, <2>2
<1>7. LayoutInv'
  BY <1>a, <1>1, <1>2 DEF LayoutInv
<1>8. UnchangedInv' /\ ModeInv' /\ CurrentInv' /\ UnitInv'
  BY <1>a, <1>1, <1>3 DEF UnchangedInv, ModeInv, CurrentInv, UnitInv, Kept, FromStamps
<1>9. FilesInv'
  <2>1. ASSUME NEW m \in Module PROVE KeptSound(m)' /\ HeaderSound(m)'
    <3>1. Sources(m) \subseteq Module
      BY SourcesFacts
    <3>2. \A d \in Sources(m) : Weaker(d)
      BY <1>1, <3>1, WeakerSame
    <3>3. KeptSound(m) /\ HeaderSound(m)
      BY <1>a, <1>1, <1>3 DEF FilesInv
    <3>4. Kept(layout, m)' = Kept(layout, m)
      BY <1>1 DEF Kept
    <3>. QED
      BY <1>1, <3>2, <3>3, <3>4, KeepSound
  <2>2. ASSUME layout = "single" PROVE JobSound'
    <3>. SUFFICES ASSUME NEW o \in OutModes, \A m \in Chem : StampValid(o, m)'
                  PROVE  jobObject'.made = {<<m, src'[m], o>> : m \in Chem}
      BY DEF JobSound
    <3>1. \A m \in Chem : stamp[m] = <<src[m], o>>
      BY <1>1 DEF StampValid
    <3>2. \A m \in Chem : stamp[m] # NoStamp /\ stamp[m][1] = src[m] /\ stamp[m][2] = o
      BY <3>1 DEF NoStamp
    <3>3. \A m \in Chem : o = outMode
      BY <1>a, <1>1, <1>3, <3>2 DEF ModeInv, TypeOK
    <3>4. \A t \in unit : t[2] = src[t[1]]
      BY <1>4, <3>2 DEF Honest
    <3>5. unit = {<<m, src[m], outMode>> : m \in Chem}
      BY <1>6, <3>4
    <3>6. unit = {<<m, src[m], o>> : m \in Chem}
      BY <3>3, <3>5
    <3>. QED
      BY <1>1, <2>2, <3>6
  <2>. QED
    BY <1>1, <1>3, <2>1, <2>2 DEF FilesInv
<1>10. LinkInv'
  <2>1. ASSUME ~edited PROVE LinkedFresh'
    <3>1. layout = "single" => jobObject'.made = {<<m, src[m], outMode>> : m \in Chem}
      BY <1>1, <1>4, <1>6, <2>1
    <3>2. \A m \in Module : layout # "single" \/ m \notin Chem
                               => object[m] = Fresh(outMode, m)
      BY <1>a, <1>1, <1>3, <2>1 DEF LinkInv
    <3>. QED
      BY <1>1, <3>1, <3>2 DEF LinkedFresh, Fresh
  <2>2. ~edited' => (Linked = CleanOutput)'
    BY <1>1, <2>1, LinkedCleanNext
  <2>3. ASSUME ~edited', NEW m \in Done', layout' # "single" \/ m \notin Chem
        PROVE  object'[m] = Fresh(outMode, m)'
    BY <1>1, <1>3, <2>1, <2>3 DEF LinkedFresh
  <2>. QED
    BY <2>2, <2>3 DEF LinkInv
<1>. QED
  BY <1>1, <1>2, <1>7, <1>8, <1>9, <1>10 DEF CacheInv, SoundUnlessDisturbed

\* A step that changes no variable.
LEMMA StutterCache ==
    ASSUME IInv, UNCHANGED vars
    PROVE  CacheInv'
<1>1. CacheInv /\ UNCHANGED <<src, stamp, partial, header, object, jobObject, exe, phase,
                              layout, outMode, caching, pos, hasChanged, parsed, unit,
                              status, restamped, edited, disturbed>>
  BY DEF IInv, vars, disk, choice, progress
<1>2. Done' = Done /\ Cur' = Cur /\ Text(Cur)' = Text(Cur)
      /\ \A m : FromStamps(m)' = FromStamps(m) /\ (KeptSound(m)' <=> KeptSound(m))
                /\ (HeaderSound(m)' <=> HeaderSound(m))
                /\ Kept(layout, m)' = Kept(layout, m) /\ Fresh(outMode, m)' = Fresh(outMode, m)
  BY <1>1 DEF Done, Cur, Text, FromStamps, KeptSound, HeaderSound, Kept, Present,
              Vouched, StampValid, Fresh
<1>3. (JobSound' <=> JobSound) /\ (Honest(unit)' <=> Honest(unit))
      /\ Linked' = Linked /\ CleanOutput' = CleanOutput
  BY <1>1 DEF JobSound, Honest, Linked, CleanOutput, StampValid
<1>. QED
  BY <1>1, <1>2, <1>3 DEF CacheInv, LayoutInv, UnchangedInv, ModeInv, FilesInv,
     CurrentInv, UnitInv, LinkInv, SoundUnlessDisturbed

-----------------------------------------------------------------------------
\* The theorems.

\* Nothing has been stamped or read before the first build.
LEMMA InitVersion == Init => VersionInv
<1>. SUFFICES ASSUME Init PROVE VersionInv
  OBVIOUS
<1>1. /\ \A m \in Module : src[m] = 1 /\ stamp[m] = NoStamp /\ parsed[m] = 0
      /\ phase = "idle" /\ pos = 1
  BY DEF Init
<1>2. Imported = {}
  BY <1>1 DEF Imported, Done, PastImport
<1>. QED
  BY <1>1, <1>2 DEF VersionInv

\* Every step of builds, failures and the programmer keeps the cache invariant.
LEMMA NextCache ==
    ASSUME IInv, [Next]_vars, TypeOK', PhaseInv', VersionInv'
    PROVE  CacheInv'
<1>1. CASE \E l \in Layouts, o \in OutModes, c \in CachingChoices : BeginBuild(l, o, c)
  BY <1>1, BeginCache
<1>2. CASE CompileCFile
  BY <1>2, CompileCFileCache
<1>3. CASE SkipCFile
  BY <1>3, SkipCFileCache
<1>4. CASE ImportModule
  BY <1>4, ImportModuleCache
<1>5. CASE ReuseModule
  BY <1>5, ReuseModuleCache
<1>6. CASE TranslateModule
  BY <1>6, TranslateModuleCache
<1>7. CASE SaveTimestamp
  BY <1>7, SaveTimestampCache
<1>8. CASE CompileModule
  BY <1>8, CompileModuleCache
<1>9. CASE CompileJob
  BY <1>9, CompileJobCache
<1>10. CASE LinkJob
  BY <1>10, LinkJobCache
<1>11. CASE Abort
  BY <1>11, AbortCache
<1>12. CASE CrashWritingModule
  BY <1>12, CrashWritingModuleCache
<1>13. CASE CrashSavingTimestamp
  BY <1>13, CrashSavingTimestampCache
<1>14. CASE CrashWritingJob
  BY <1>14, CrashWritingJobCache
<1>15. CASE \E m \in Module : Edit(m) \/ RemoveModuleDir(m)
  BY <1>15, EditCache, RemoveModuleDirCache
<1>16. CASE RemoveBuildDir
  BY <1>16, RemoveBuildDirCache
<1>17. CASE UNCHANGED vars
  BY <1>17, StutterCache
<1>. QED
  BY <1>1, <1>2, <1>3, <1>4, <1>5, <1>6, <1>7, <1>8, <1>9, <1>10, <1>11, <1>12,
     <1>13, <1>14, <1>15, <1>16, <1>17 DEF Next, BuildStep, Failure

\* The cache invariant holds in every state of every run: each cached file is
\* what its timestamps make a build believe it is.
THEOREM Inductive == Spec => []IInv
<1>1. Init => IInv
  BY InitType, InitVersion, InitCache DEF IInv
<1>2. IInv /\ [Next]_vars => IInv'
  <2>. SUFFICES ASSUME IInv, [Next]_vars PROVE IInv'
    OBVIOUS
  <2>1. TypeOK /\ PhaseInv /\ VersionInv
    BY DEF IInv
  <2>2. TypeOK' /\ PhaseInv'
    BY <2>1, NextType
  <2>3. VersionInv'
    BY <2>1, <2>2, NextVersion
  <2>4. CacheInv'
    BY <2>2, <2>3, NextCache
  <2>. QED
    BY <2>2, <2>3, <2>4 DEF IInv
<1>. QED
  BY <1>1, <1>2, PTL DEF Spec

\* A build that reports success has linked what a clean build would have, for
\* every graph of modules, every number of modes and every history of edits and
\* failures outside the windows that disturbed names.
THEOREM Sound == Spec => []SoundUnlessDisturbed
<1>1. IInv => SoundUnlessDisturbed
  BY DEF IInv, CacheInv
<1>. QED
  BY <1>1, Inductive, PTL

\* A module found unchanged, with unchanged dependencies, may be skipped: its
\* kept file is what translating it again would give.
THEOREM CacheIsSound == Spec => []CacheSound
<1>1. IInv => CacheSound
  <2>. SUFFICES ASSUME IInv, phase = "idle", ~disturbed,
                       NEW o \in OutModes, NEW m \in Module, Present(layout, m),
                       \A d \in Closure(m) : StampValid(o, d)
                PROVE  Kept(layout, m) = Fresh(o, m)
    BY DEF CacheSound
  <2>1. Vouched(o, m)
    BY SourcesFacts DEF Vouched
  <2>2. KeptSound(m)
    BY IdleFiles
  <2>. QED
    BY <2>1, <2>2 DEF KeptSound
<1>. QED
  BY <1>1, Inductive, PTL

\* The incremental build implements the clean one: with its cache hidden, each
\* step of a build, a failure or the programmer is a step CleanBuild allows.
THEOREM Implements == Spec => ImplementsCleanBuild
<1>1. Init => Clean!Init
  BY DEF Init, Clean!Init, NoFile
<1>2. IInv /\ TypeOK' /\ [Next]_vars => [Clean!Next]_Clean!vars
  <2>. SUFFICES ASSUME IInv, TypeOK', [Next]_vars PROVE [Clean!Next]_Clean!vars
    OBVIOUS
  <2> DEFINE seen == IF phase = "link" THEN "linking" ELSE status
  <2>a. status = "running" <=> phase # "idle"
    BY DEF IInv, PhaseInv
  <2>b. seen \in Clean!Unfinished <=> phase # "idle"
    BY <2>a DEF Clean!Unfinished, IInv, TypeOK
  <2>c. exe' \in Clean!Executables
    BY DEF TypeOK, Origins, Clean!Executables
  <2>1. CASE \E l \in Layouts, o \in OutModes, c \in CachingChoices : BeginBuild(l, o, c)
    <3>1. /\ phase = "idle" /\ status' = "running"
          /\ outMode' \in OutModes /\ edited' = FALSE /\ (disturbed => disturbed')
          /\ UNCHANGED <<src, exe>>
      BY <2>1 DEF BeginBuild
    <3>2. seen' \in Clean!Unfinished
      BY <3>1 DEF Clean!Unfinished
    <3>3. Clean!Begin
      BY <2>b, <3>1, <3>2 DEF Clean!Begin, Clean!TrustMayGo
    <3>. QED
      BY <3>3 DEF Clean!Next
  <2>2. CASE BuildStep /\ ~LinkJob
    <3>1. /\ phase \notin {"idle", "link"} /\ phase' # "idle"
          /\ UNCHANGED <<src, exe, outMode, status, edited, disturbed>>
      BY <2>2 DEF BuildStep, CompileCFile, SkipCFile, ImportModule, ReuseModule,
         TranslateModule, SaveTimestamp, CompileModule, CompileJob, Advance, choice
    <3>2. CASE phase' = "link"
      <4>1. Clean!StartLink
        BY <2>a, <3>1, <3>2 DEF Clean!StartLink, Clean!TrustMayGo
      <4>. QED
        BY <4>1 DEF Clean!Next
    <3>3. CASE phase' # "link"
      BY <3>1, <3>3 DEF Clean!vars
    <3>. QED
      BY <3>2, <3>3
  <2>3. CASE LinkJob
    <3>1. /\ phase = "link" /\ exe' = Linked /\ status' = "success" /\ phase' = "idle"
          /\ UNCHANGED <<src, outMode, edited, disturbed>>
      BY <2>3 DEF LinkJob, choice
    <3>2. ~disturbed /\ ~edited => Linked = CleanOutput
      BY <3>1 DEF IInv, CacheInv, LinkInv
    <3>3. Clean!Succeed
      BY <2>c, <3>1, <3>2 DEF Clean!Succeed, CleanOutput, Clean!CleanOutput
    <3>. QED
      BY <3>3 DEF Clean!Next
  <2>4. CASE Failure
    <3>1. phase # "idle" /\ EndFailed /\ (disturbed => disturbed')
      BY <2>4 DEF Failure, Abort, CrashWritingModule, CrashSavingTimestamp,
         CrashWritingJob, WritesPartial, WritesHeader, WritesObject
    <3>2. /\ phase' = "idle" /\ status' = "failed"
          /\ phase # "link" => exe' = exe
          /\ UNCHANGED <<src, outMode, edited>>
      BY <3>1 DEF EndFailed, AfterFailure, choice
    <3>3. exe' \in (IF seen = "linking" THEN Clean!Executables ELSE {exe})
      BY <2>a, <2>c, <3>1, <3>2
    <3>4. Clean!Fail
      BY <2>b, <3>1, <3>2, <3>3 DEF Clean!Fail, Clean!TrustMayGo
    <3>. QED
      BY <3>4 DEF Clean!Next
  <2>5. CASE \E m \in Module : Edit(m) \/ RemoveModuleDir(m)
    <3>a. PICK m \in Module : Edit(m) \/ RemoveModuleDir(m)
      BY <2>5
    <3>b. src' = src \/ src' = [src EXCEPT ![m] = @ + 1]
      BY <3>a DEF Edit, RemoveModuleDir
    <3>c. /\ edited' = TRUE
          /\ disturbed => disturbed'
          /\ UNCHANGED <<exe, outMode, status, phase>>
      <4>1. CASE Edit(m)
        BY <4>1, Zenon DEF Edit, choice
      <4>2. CASE RemoveModuleDir(m)
        BY <4>2, Zenon DEF RemoveModuleDir, choice
      <4>. QED
        BY <3>a, <4>1, <4>2
    <3>d. src' = src \/ \E k \in Module : src' = [src EXCEPT ![k] = @ + 1]
      BY ONLY <3>b, m \in Module, Zenon
    <3>1. Clean!Touch
      BY <3>c, <3>d, Zenon DEF Clean!Touch, Clean!TrustMayGo
    <3>. QED
      BY <3>1 DEF Clean!Next
  <2>6. CASE RemoveBuildDir
    <3>1. /\ phase = "idle" /\ phase' = "idle" /\ status' = "none"
          /\ exe' = {} /\ disturbed' = FALSE
          /\ UNCHANGED <<src, outMode, edited>>
      BY <2>6 DEF RemoveBuildDir, NoFile
    <3>2. Clean!ForgetAll
      BY <2>b, <3>1 DEF Clean!ForgetAll
    <3>. QED
      BY <3>2 DEF Clean!Next
  <2>7. CASE UNCHANGED vars
    BY <2>7 DEF vars, choice, Clean!vars
  <2>. QED
    BY <2>1, <2>2, <2>3, <2>4, <2>5, <2>6, <2>7 DEF Next
<1>3. IInv => TypeOK
  BY DEF IInv
<1>. QED
  BY <1>1, <1>2, <1>3, Inductive, PTL DEF Spec, ImplementsCleanBuild, Clean!Spec

-----------------------------------------------------------------------------
\* A second build.

\* m has a kept file, and a timestamp that compares equal.
Ready(m) == Present(layout, m) /\ StampValid(outMode, m)

\* While the files stay what they were when the build began: what was found
\* unchanged is ready and stays so, what the loop has left behind is, and so is
\* everything when the job links.  Before its timestamp is saved, a module has its
\* kept file, or its C text is in the writer.
ReadyInv ==
    caching /\ ~edited =>
        /\ phase # "idle" => \A m \in Module : hasChanged[m] = "unchanged" => Ready(m)
        /\ \A m \in Done : Ready(m)
        /\ phase = "link" \/ (phase = "idle" /\ status = "success") =>
              \A m \in Module : Ready(m)
        /\ phase = "stamp" /\ ~(layout = "multi" /\ Cur \in Chem) => Present(layout, Cur)
        /\ phase = "compile" => StampValid(outMode, Cur)
        /\ phase \in {"stamp", "compile"} /\ layout = "multi" /\ Cur \in Chem =>
              \E t \in unit : t[1] = Cur

\* A step of a build under way by which no module stops being ready.
KeepsReady ==
    /\ phase # "idle" /\ caching /\ ~edited
    /\ UNCHANGED <<src, choice, edited, hasChanged>>
    /\ \A m \in Module : Ready(m) => Ready(m)'

\* What was ready for the loop is so afterwards.
LEMMA ReadyKept ==
    ASSUME TypeOK, KeepsReady, ReadyInv
    PROVE  /\ \A m \in Module : hasChanged'[m] = "unchanged" => Ready(m)'
           /\ \A m \in Done : Ready(m)'
           /\ phase = "link" => \A m \in Module : Ready(m)'
<1>1. Done \subseteq Module
  BY CurFacts
<1>. QED
  BY <1>1 DEF ReadyInv, KeepsReady

\* The loop goes on to the next module when the present one is ready.
LEMMA ReadyAdvance ==
    ASSUME TypeOK, ReadyInv, pos \in 1..Len(Order), Advance, KeepsReady,
           NEW n \in Module, n = Cur, Ready(n)'
    PROVE  ReadyInv'
<1>1. /\ Done' = Done \cup {n} /\ phase' \in {"import", "job", "link"}
      /\ phase' # "import" => Done' = Module
  BY AdvanceFacts
<1>2. /\ \A m \in Module : hasChanged'[m] = "unchanged" => Ready(m)'
      /\ \A m \in Done : Ready(m)'
  BY ReadyKept
<1>3. /\ \A m \in Done' : Ready(m)'
      /\ phase' = "link" => \A m \in Module : Ready(m)'
  BY <1>1, <1>2
<1>. QED
  BY <1>1, <1>2, <1>3 DEF ReadyInv

\* A step of the present module that stays at it.
LEMMA ReadyStay ==
    ASSUME TypeOK, ReadyInv, KeepsReady, UNCHANGED pos,
           phase' \in {"translate", "stamp", "compile"},
           NEW n \in Module, n = Cur,
           phase' = "stamp" /\ ~(layout = "multi" /\ n \in Chem) => Present(layout, n)',
           phase' = "compile" => StampValid(outMode, n)',
           phase' \in {"stamp", "compile"} /\ layout = "multi" /\ n \in Chem =>
              \E t \in unit' : t[1] = n
    PROVE  ReadyInv'
<1>1. Done' = Done /\ Cur' = n /\ layout' = layout /\ outMode' = outMode
  BY DEF Done, Cur, KeepsReady, choice
<1>2. /\ \A m \in Module : hasChanged'[m] = "unchanged" => Ready(m)'
      /\ \A m \in Done : Ready(m)'
  BY ReadyKept
<1>3. phase' = "stamp" /\ ~(layout' = "multi" /\ Cur' \in Chem) => Present(layout, Cur)'
  BY <1>1 DEF Present, Kept
<1>4. phase' = "compile" => StampValid(outMode, Cur)'
  BY <1>1 DEF StampValid
<1>. QED
  BY <1>1, <1>2, <1>3, <1>4 DEF ReadyInv

\* Modules whose files on disk are what they were are as ready as they were.
LEMMA SameReady ==
    ASSUME UNCHANGED <<src, stamp, partial, object, choice>>, NEW m \in Module
    PROVE  Ready(m)' <=> Ready(m)
BY DEF Ready, Present, Kept, StampValid, choice

\* Steps of a build that caches and during which nothing is edited: a C file, or
\* a module that is not translated.
LEMMA SkippedReady ==
    ASSUME IInv, ReadyInv, caching, ~edited,
           CompileCFile \/ SkipCFile \/ ImportModule \/ ReuseModule
    PROVE  ReadyInv'
<1>1. TypeOK /\ PhaseInv
  BY DEF IInv
<1>2. AtModule /\ phase # "idle"
  BY DEF CompileCFile, SkipCFile, ImportModule, ReuseModule, AtModule
<1>3. PICK n \in Module : n = Cur
  BY <1>1, <1>2, CurFacts DEF PhaseInv
<1>4. pos \in 1..Len(Order)
  BY <1>1, <1>2 DEF PhaseInv
<1>5. CASE CompileCFile
  <2>1. /\ n \notin Chem
        /\ object' = [object EXCEPT ![n] = {<<n, src[n], outMode>>}]
        /\ phase' = "stamp"
        /\ UNCHANGED <<pos, src, stamp, partial, choice, hasChanged, edited>>
    BY <1>3, <1>5 DEF CompileCFile, Chem
  <2>2. /\ object'[n] # NoFile
        /\ \A m \in Module : m # n => object'[m] = object[m]
    BY <1>1, <1>3, <2>1 DEF TypeOK, NoFile
  <2>3. Present(layout, n)'
    BY <2>1, <2>2 DEF Present, Kept, choice
  <2>4. \A m \in Module : Ready(m) => Ready(m)'
    BY <2>1, <2>2, <2>3 DEF Ready, Present, Kept, StampValid, choice
  <2>5. KeepsReady
    BY <1>2, <2>1, <2>4 DEF KeepsReady
  <2>. QED
    BY <1>1, <1>3, <2>1, <2>3, <2>5, ReadyStay
<1>6. CASE SkipCFile \/ ReuseModule
  <2>1. /\ Advance /\ hasChanged[n] = "unchanged"
        /\ UNCHANGED <<src, disk, choice, hasChanged, edited>>
    BY <1>3, <1>6 DEF SkipCFile, ReuseModule, CacheHit
  <2>2. \A m \in Module : Ready(m)' <=> Ready(m)
    BY <2>1, SameReady DEF disk
  <2>3. Ready(n)
    BY <1>2, <2>1 DEF ReadyInv
  <2>4. KeepsReady
    BY <1>2, <2>1, <2>2 DEF KeepsReady
  <2>. QED
    BY <1>1, <1>3, <1>4, <2>1, <2>2, <2>3, <2>4, ReadyAdvance
<1>7. CASE ImportModule
  <2>1. /\ phase' = "translate"
        /\ UNCHANGED <<pos, src, disk, choice, hasChanged, edited>>
    BY <1>7 DEF ImportModule
  <2>2. \A m \in Module : Ready(m)' <=> Ready(m)
    BY <2>1, SameReady DEF disk
  <2>3. KeepsReady
    BY <1>2, <2>1, <2>2 DEF KeepsReady
  <2>. QED
    BY <1>1, <1>3, <2>1, <2>3, ReadyStay
<1>. QED
  BY <1>5, <1>6, <1>7

\* A translation: the kept file, or the C text, holds something of the module.
LEMMA TranslatedReady ==
    ASSUME IInv, ReadyInv, caching, ~edited, TranslateModule
    PROVE  ReadyInv'
<1>1. TypeOK /\ PhaseInv
  BY DEF IInv
<1>2. phase = "translate" /\ AtModule
  BY DEF TranslateModule, AtModule
<1>3. PICK n \in Module : n = Cur /\ n \in Chem
  BY <1>1, <1>2, CurFacts DEF PhaseInv
<1>4. <<n, parsed[n], outMode>> \in Text(n) /\ Text(n) # NoFile
  <2>1. n \in Sources(n)
    BY SourcesFacts
  <2>2. <<n, parsed[n], outMode>> \in Text(n)
    BY <2>1 DEF Text
  <2>. QED
    BY <2>2 DEF NoFile
<1>5. layout \in {"single", "multi", "llvm"}
  BY <1>1, <1>2, ConstantsAssumption DEF TypeOK, PhaseInv
<1>6. /\ phase' = "stamp"
      /\ UNCHANGED <<pos, src, stamp, choice, hasChanged, edited>>
      /\ unit' = IF layout = "llvm" THEN unit ELSE unit \cup Text(n)
      /\ partial' = IF layout = "single" THEN [partial EXCEPT ![n] = Text(n)] ELSE partial
      /\ object' = IF layout = "llvm" THEN [object EXCEPT ![n] = Text(n)] ELSE object
  BY <1>3 DEF TranslateModule
<1>7. /\ layout = "single" => partial'[n] # NoFile
      /\ layout = "llvm" => object'[n] # NoFile
      /\ \A m \in Module : m # n => partial'[m] = partial[m] /\ object'[m] = object[m]
  BY <1>1, <1>3, <1>4, <1>6 DEF TypeOK
<1>8. layout # "multi" => Present(layout, n)'
  BY <1>3, <1>5, <1>6, <1>7 DEF Present, Kept, choice
<1>9. \A m \in Module : Ready(m) => Ready(m)'
  <2>1. ASSUME NEW m \in Module, Ready(m) PROVE Ready(m)'
    <3>1. StampValid(outMode, m)'
      BY <1>6, <2>1 DEF Ready, StampValid, choice
    <3>2. CASE layout = "multi"
      BY <1>6, <2>1, <3>1, <3>2 DEF Ready, Present, Kept, choice
    <3>3. CASE layout # "multi" /\ m = n
      BY <1>8, <3>1, <3>3 DEF Ready
    <3>4. CASE m # n
      BY <1>6, <1>7, <2>1, <3>1, <3>4 DEF Ready, Present, Kept, choice
    <3>. QED
      BY <3>2, <3>3, <3>4
  <2>. QED
    BY <2>1
<1>10. layout = "multi" => \E t \in unit' : t[1] = n
  <2>1. <<n, parsed[n], outMode>>[1] = n
    OBVIOUS
  <2>. QED
    BY <1>4, <1>6, <2>1
<1>11. KeepsReady
  BY <1>2, <1>6, <1>9 DEF KeepsReady
<1>. QED
  BY <1>1, <1>3, <1>6, <1>8, <1>10, <1>11, ReadyStay

\* The timestamp is saved of a module that has what it vouches for.
LEMMA StampedReady ==
    ASSUME IInv, ReadyInv, caching, ~edited, SaveTimestamp
    PROVE  ReadyInv'
<1>1. TypeOK /\ PhaseInv
  BY DEF IInv
<1>2. phase = "stamp" /\ AtModule
  BY DEF SaveTimestamp, AtModule
<1>3. PICK n \in Module : n = Cur
  BY <1>1, <1>2, CurFacts DEF PhaseInv
<1>4. /\ stamp' = [stamp EXCEPT ![n] = <<src[n], outMode>>]
      /\ UNCHANGED <<src, partial, object, choice, hasChanged, unit, edited>>
  BY <1>3 DEF SaveTimestamp
<1>5. /\ StampValid(outMode, n)'
      /\ \A m \in Module : m # n => stamp'[m] = stamp[m]
  BY <1>1, <1>4 DEF TypeOK, StampValid, choice
<1>6. \A m \in Module : Present(layout, m)' <=> Present(layout, m)
  BY <1>4 DEF Present, Kept, choice
<1>7. \A m \in Module : Ready(m) => Ready(m)'
  BY <1>4, <1>5, <1>6 DEF Ready, StampValid, choice
<1>8. KeepsReady
  BY <1>2, <1>4, <1>7 DEF KeepsReady
<1>9. CASE layout = "multi" /\ n \in Chem
  <2>1. phase' = "compile" /\ pos' = pos
    BY <1>3, <1>9 DEF SaveTimestamp
  <2>2. \E t \in unit' : t[1] = n
    BY <1>2, <1>3, <1>4, <1>9 DEF ReadyInv
  <2>. QED
    BY <1>1, <1>3, <1>5, <1>8, <2>1, <2>2, ReadyStay
<1>10. CASE ~(layout = "multi" /\ n \in Chem)
  <2>1. Advance
    BY <1>3, <1>10 DEF SaveTimestamp
  <2>2. Ready(n)'
    BY <1>2, <1>3, <1>5, <1>6, <1>10 DEF Ready, ReadyInv
  <2>. QED
    BY <1>1, <1>2, <1>3, <1>8, <2>1, <2>2, ReadyAdvance DEF PhaseInv
<1>. QED
  BY <1>9, <1>10

\* The object of a multi file build is compiled under a timestamp that is there.
LEMMA CompiledReady ==
    ASSUME IInv, ReadyInv, caching, ~edited, CompileModule
    PROVE  ReadyInv'
<1>1. TypeOK /\ PhaseInv
  BY DEF IInv
<1>2. phase = "compile" /\ AtModule
  BY DEF CompileModule, AtModule
<1>3. PICK n \in Module : n = Cur /\ n \in Chem
  BY <1>1, <1>2, CurFacts DEF PhaseInv
<1>4. layout = "multi" /\ pos \in 1..Len(Order)
  BY <1>1, <1>2 DEF PhaseInv
<1>5. /\ object' = [object EXCEPT ![n] = {t \in unit : t[1] \in Sources(n)}]
      /\ UNCHANGED <<src, stamp, partial, choice, hasChanged, edited>>
  BY <1>3 DEF CompileModule
<1>6. /\ object'[n] = {t \in unit : t[1] \in Sources(n)}
      /\ \A m \in Module : m # n => object'[m] = object[m]
  BY <1>1, <1>5 DEF TypeOK
<1>7. object'[n] # NoFile
  <2>1. \E t \in unit : t[1] = n
    BY <1>2, <1>3, <1>4 DEF ReadyInv
  <2>. QED
    BY <1>6, <2>1, SourcesFacts DEF NoFile
<1>8. Ready(n)'
  <2>1. StampValid(outMode, n)'
    BY <1>2, <1>3, <1>5 DEF ReadyInv, StampValid, choice
  <2>2. Present(layout, n)'
    BY <1>4, <1>5, <1>7 DEF Present, Kept, choice
  <2>. QED
    BY <2>1, <2>2 DEF Ready
<1>9. \A m \in Module : Ready(m) => Ready(m)'
  BY <1>5, <1>6, <1>8 DEF Ready, Present, Kept, StampValid, choice
<1>10. KeepsReady /\ Advance
  BY <1>2, <1>5, <1>9 DEF KeepsReady, CompileModule
<1>. QED
  BY <1>1, <1>3, <1>4, <1>8, <1>10, ReadyAdvance

\* The job's object and the link change no module's files.
LEMMA LinkedReady ==
    ASSUME IInv, ReadyInv, caching, ~edited, CompileJob \/ LinkJob
    PROVE  ReadyInv'
<1>1. TypeOK /\ PhaseInv
  BY DEF IInv
<1>2. UNCHANGED <<src, stamp, partial, object, choice>>
  BY DEF CompileJob, LinkJob, disk
<1>3. \A m \in Module : Ready(m)' <=> Ready(m)
  BY <1>2, SameReady
<1>4. CASE CompileJob
  <2>1. /\ phase = "job" /\ phase' = "link"
        /\ UNCHANGED <<pos, hasChanged>>
    BY <1>4 DEF CompileJob, progress
  <2>2. Done = Module /\ Done' = Done
    BY <1>1, <2>1, CurFacts DEF PhaseInv, Done
  <2>. QED
    BY <1>3, <2>1, <2>2 DEF ReadyInv
<1>5. CASE LinkJob
  <2>1. phase = "link" /\ phase' = "idle" /\ Done' = {}
    BY <1>5, DoneDropped DEF LinkJob
  <2>2. \A m \in Module : Ready(m)
    BY <2>1 DEF ReadyInv
  <2>. QED
    BY <1>3, <2>1, <2>2 DEF ReadyInv
<1>. QED
  BY <1>4, <1>5

\* Verdicts of the change check are borne out, and an early return is taken when
\* everything is ready.
LEMMA BeginReady ==
    ASSUME IInv, NEW l \in Layouts, NEW o \in OutModes, NEW c \in CachingChoices,
           BeginBuild(l, o, c)
    PROVE  ReadyInv'
<1>1. TypeOK /\ PhaseInv
  BY DEF IInv
<1>2. /\ layout' = l /\ outMode' = o /\ hasChanged' = Verdict(l, o, c)
      /\ phase = "idle" /\ phase' \in {"link", "job", "import"}
      /\ phase' = "link" => ~AnyChanged(l, o, c) \/ Len(Order) = 0
      /\ UNCHANGED <<src, disk, pos>>
  BY DEF BeginBuild
<1>3. Done' = {}
  BY <1>1, <1>2, CurFacts DEF PhaseInv, Done
<1>4. \A m \in Module : Present(l, m) /\ StampValid(o, m) => Ready(m)'
  BY <1>2 DEF Ready, Present, Kept, StampValid, disk
<1>5. \A m \in Module : hasChanged'[m] = "unchanged" => Ready(m)'
  BY <1>2, <1>4, VerdictFacts, ClosureFacts
<1>6. phase' = "link" => \A m \in Module : Ready(m)'
  <2>1. CASE Len(Order) = 0
    BY <2>1, OrderAssumption
  <2>2. CASE ~AnyChanged(l, o, c)
    BY <1>4, <2>2, NoneChanged
  <2>. QED
    BY <1>2, <2>1, <2>2
<1>. QED
  BY <1>2, <1>3, <1>5, <1>6 DEF ReadyInv

\* Every step keeps the modules ready.
LEMMA NextReady == IInv /\ ReadyInv /\ [Next]_vars => ReadyInv'
<1>. SUFFICES ASSUME IInv, ReadyInv, [Next]_vars PROVE ReadyInv'
  OBVIOUS
<1>a. TypeOK /\ PhaseInv
  BY DEF IInv
<1>1. CASE \E l \in Layouts, o \in OutModes, c \in CachingChoices : BeginBuild(l, o, c)
  BY <1>1, BeginReady
<1>2. CASE BuildStep
  <2>1. CASE caching /\ ~edited
    BY <1>2, <2>1, SkippedReady, TranslatedReady, StampedReady, CompiledReady, LinkedReady
       DEF BuildStep
  <2>2. CASE ~(caching /\ ~edited)
    <3>1. caching' = caching /\ edited' = edited
      BY <1>2 DEF BuildStep, CompileCFile, SkipCFile, ImportModule, ReuseModule,
         TranslateModule, SaveTimestamp, CompileModule, CompileJob, LinkJob, choice
    <3>. QED
      BY <2>2, <3>1 DEF ReadyInv
  <2>. QED
    BY <2>1, <2>2
<1>3. CASE Failure
  <2>1. phase' = "idle" /\ status' = "failed" /\ DropProgress
    BY <1>3 DEF Failure, Abort, CrashWritingModule, CrashSavingTimestamp, CrashWritingJob,
       EndFailed
  <2>. QED
    BY <2>1, DoneDropped DEF ReadyInv
<1>4. CASE \E m \in Module : Edit(m) \/ RemoveModuleDir(m)
  <2>1. edited' = TRUE
    BY <1>4 DEF Edit, RemoveModuleDir
  <2>. QED
    BY <2>1 DEF ReadyInv
<1>5. CASE RemoveBuildDir
  <2>1. phase' = "idle" /\ status' = "none" /\ pos' = 1
    BY <1>a, <1>5 DEF RemoveBuildDir, PhaseInv, progress
  <2>2. Done' = {}
    BY <2>1 DEF Done
  <2>. QED
    BY <2>1, <2>2 DEF ReadyInv
<1>6. CASE UNCHANGED vars
  <2>1. /\ UNCHANGED <<src, stamp, partial, object, choice>>
        /\ UNCHANGED <<phase, status, pos, hasChanged, unit, edited, caching, layout, outMode>>
    BY <1>6 DEF vars, disk, choice, progress
  <2>. QED
    BY <2>1 DEF ReadyInv, Ready, Present, Kept, StampValid, Done, Cur
<1>. QED
  BY <1>1, <1>2, <1>3, <1>4, <1>5, <1>6 DEF Next

\* After a build with caching that reports success, the same build again finds
\* every kept file and every timestamp in place, through whatever failures, kills
\* and edits the cache has gone before.  It holds of a disturbed cache, too: that
\* one is stale without being found changed.
THEOREM NothingChangedHolds == Spec => []NothingChangedAfterSuccess
<1>1. Init => ReadyInv
  <2>1. ASSUME Init PROVE phase = "idle" /\ status = "none" /\ Done = {}
    BY <2>1 DEF Init, Done
  <2>. QED
    BY <2>1 DEF ReadyInv
<1>2. IInv /\ ReadyInv => NothingChangedAfterSuccess
  <2>. SUFFICES ASSUME IInv, ReadyInv, phase = "idle", status = "success", caching, ~edited
                PROVE  ~AnyChanged(layout, outMode, caching)
    BY DEF NothingChangedAfterSuccess
  <2>1. \A m \in Module : Ready(m)
    BY DEF ReadyInv
  <2>2. ASSUME NEW r \in Roots PROVE ~Changed(layout, outMode, r)
    <3>1. r \in Module
      BY ConstantsAssumption
    <3>. QED
      BY <2>1, <3>1, ClosureFacts DEF Changed, Ready
  <2>. QED
    BY <2>2 DEF AnyChanged
<1>. QED
  BY <1>1, <1>2, NextReady, Inductive, PTL DEF Spec
=============================================================================
