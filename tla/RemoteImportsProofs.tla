-------------------------- MODULE RemoteImportsProofs --------------------------
(***************************************************************************)
(* Every request for a remote import is answered, from a whole clone of    *)
(* the newest version: RemoteImports for every set of imports,             *)
(* repositories, requests and threads, outside the windows the code leaves *)
(* open.                                                                   *)
(***************************************************************************)
EXTENDS RemoteImports, TLAPS, SequenceTheorems

\* The repositories that have directories on disk.
Repos == {Repo[i] : i \in Import}

\* The task of i has claimed its directory.
Holds(i) == pc[i] \in {"exists", "clone", "ask", "lookup", "make", "append",
                       "publish", "serve", "end"}

\* built_module has been set.
Given(i) == pc[i] \in {"serve", "end", "ok"}

\* The requesters have been gone through.
Served(i) == pc[i] \in {"end", "ok"}

\* remote_imports has what was asked for, each once, and the waves take it in order.
OrderInv ==
    /\ \A i \in Import : version[i] # 0 <=> \E n \in 1 .. Len(order) : order[n] = i
    /\ \A m, n \in 1 .. Len(order) : order[m] = order[n] => m = n
    /\ processed <= Len(order)
    /\ \A n \in 1 .. Len(order) : n > processed <=> pc[order[n]] = "none"
    /\ \A i \in Import : pc[i] # "none" => version[i] # 0
    /\ \A r \in Requester, i \in Import : wanted[r][i] # 0 => version[i] # 0

\* No task is at work outside a wave, and the job goes on after good ones only.
JobInv ==
    /\ job = "asking" => \A i \in Import : pc[i] = "none"
    /\ job \in {"idle", "success"} => \A i \in Import : pc[i] \in {"none", "ok"}
    /\ job = "success" => processed = Len(order)

\* A directory is claimed by one task, and what is in it before its end.
DirsInv ==
    /\ \A i \in Import :
          /\ pc[i] \notin {"none", "queued"} => dir[i] # 0
          /\ Holds(i) => Where(i) \in downloading
          /\ pc[i] = "clone" => InDir(i) < 0
          /\ pc[i] = "ask" => InDir(i) # 0
          /\ pc[i] \in {"lookup", "make", "append", "publish"} => InDir(i) > 0
    /\ \A i, j \in Import : Holds(i) /\ Holds(j) /\ Where(i) = Where(j) => i = j
    /\ \A r \in Repos, v \in Version :
          disk[r][v] < 0 =>
              \E j \in Import : pc[j] \in {"clone", "failed"} /\ Where(j) = <<r, v>>

\* A request is among the dependencies, or among the requesters that are yet to
\* be gone through.
Counted(r, i) ==
    wanted[r][i] = IF Served(i) THEN deps[r][i] ELSE deps[r][i] + requesters[i][r]

\* built_module is set between the build and the serving, and every request counts.
ServedInv ==
    /\ \A i \in Import : built[i] # 0 => Given(i)
    /\ \A i \in Import \ hidden : Given(i) => built[i] # 0
    /\ \A i \in Import \ hidden, r \in Requester \ torn : Counted(r, i)

\* The version of an import is the newest in time, and so is what is on disk
\* under that name.
Newest(i) ==
    /\ version[i] # 0 => version[i] \in inTime[i]
    /\ \A v \in inTime[i] : v <= version[i]
    /\ pc[i] \notin {"none", "queued"} => dir[i] = version[i]
    /\ built[i] # 0 => built[i] = version[i]
    /\ \A v \in Version : disk[Repo[i]][v] \in {0, v, -v}

\* No import of i's repository was changed during its download.
Steady(i) == \A j \in switched : Repo[j] # Repo[i]

\* What is newest stays so, but for repositories with an import that was replaced.
NewestInv == \A i \in Import : Steady(i) => Newest(i)

\* One module builds l.
Making(i, l) == pc[i] = "make" /\ NextLocal(i) = l

\* All who use l use the instance in built_files.
LocalInv(l) ==
    /\ \A i \in Import : uses[i][l] # None => uses[i][l] = builtFiles[l]
    /\ \A i \in Import : Making(i, l) => builtFiles[l] = None
    /\ \A i, j \in Import : Making(i, l) /\ Making(j, l) => i = j

\* Local modules, but for those that two threads have built at a time.
LocalsInv ==
    /\ \A i \in Import : pc[i] \in {"make", "append"} => idx[i] <= Len(Uses[i])
    /\ \A l \in Local \ doubled : LocalInv(l)

\* The inductive invariant.
IInv ==
    /\ TypeOK
    /\ OrderInv
    /\ JobInv
    /\ DirsInv
    /\ ServedInv
    /\ NewestInv
    /\ LocalsInv

-----------------------------------------------------------------------------
\* Lemmas about the steps.

\* The task of i goes to p; the others stay where they are.
LEMMA GoMoves ==
    ASSUME TypeOK, NEW i \in Import, NEW p,
           p \in {"queued", "claim", "exists", "clone", "ask", "lookup", "make", "append",
                  "publish", "serve", "end", "ok", "failed"},
           Go(i, p)
    PROVE  /\ pc' \in [Import -> {"none", "queued", "claim", "exists", "clone", "ask",
                                 "lookup", "make", "append", "publish", "serve", "end",
                                 "ok", "failed"}]
           /\ pc'[i] = p
           /\ \A j \in Import : j # i => pc'[j] = pc[j]
    BY DEF TypeOK, Go

\* A loop over a build file moves on.
LEMMA NextIdx ==
    ASSUME TypeOK, NEW i \in Import, idx' = [idx EXCEPT ![i] = @ + 1]
    PROVE  /\ idx' \in [Import -> Nat \ {0}]
           /\ idx[i] \in Nat /\ idx'[i] = idx[i] + 1
           /\ \A j \in Import : j # i => idx'[j] = idx[j]
<1>1. idx[i] \in Nat /\ idx[i] + 1 \in Nat \ {0}
    BY DEF TypeOK
<1> QED
    BY <1>1 DEF TypeOK

\* An import joins remote_imports at its end.
LEMMA AppendOrder ==
    ASSUME NEW s \in Seq(Import), NEW i \in Import, NEW r, r = Append(s, i)
    PROVE  /\ r \in Seq(Import) /\ Len(s) \in Nat /\ Len(r) = Len(s) + 1
           /\ r[Len(r)] = i
           /\ \A k \in 1 .. Len(s) : r[k] = s[k] /\ s[k] \in Import
    BY AppendProperties, LenProperties, ElementOfSeq

\* What a request may be.
LEMMA RequestTypes ==
    /\ \A n \in 1 .. Len(Roots) : Roots[n] \in Import \X Version
    /\ \A i \in Import : \A n \in 1 .. Len(Wants[i]) : Wants[i][n] \in Import \X Version
    /\ \A i \in Import : Len(Wants[i]) \in Nat /\ Len(Uses[i]) \in Nat
    /\ \A i \in Import : \A n \in 1 .. Len(Uses[i]) : Uses[i][n] \in Local
    /\ Len(Roots) \in Nat
    BY ConstantsAssumption, ElementOfSeq, LenProperties

\* The list of imports and the waves are as they were.
LEMMA OrderKept ==
    ASSUME TypeOK, OrderInv, UNCHANGED <<order, version, processed, wanted>>,
           \A i \in Import : pc'[i] = "none" <=> pc[i] = "none"
    PROVE  OrderInv'
<1>1. \A n \in 1 .. Len(order) : order[n] \in Import
    BY ElementOfSeq DEF TypeOK
<1> QED
    BY <1>1 DEF OrderInv

\* While a task is at work the job is in a wave, or has failed.
LEMMA JobKept ==
    ASSUME JobInv, UNCHANGED job, NEW i \in Import, pc[i] \notin {"none", "ok"}
    PROVE  JobInv'
    BY DEF JobInv

\* Nobody asks or is served.
LEMMA ServedKept ==
    ASSUME ServedInv, UNCHANGED <<built, hidden, torn, deps, requesters, wanted>>,
           \A j \in Import : (Given(j)' <=> Given(j)) /\ (Served(j)' <=> Served(j))
    PROVE  ServedInv'
<1>1. \A j \in Import, r \in Requester : Counted(r, j)' <=> Counted(r, j)
    BY DEF Counted
<1> QED
    BY <1>1 DEF ServedInv

\* No version changes, in the list or on disk.
LEMMA NewestKept ==
    ASSUME NewestInv, UNCHANGED <<version, inTime, built, disk, switched>>,
           \A j \in Import : pc'[j] \notin {"none", "queued"} =>
               pc[j] \notin {"none", "queued"} /\ dir'[j] = dir[j]
    PROVE  NewestInv'
    BY DEF NewestInv, Newest, Steady

\* No local module is looked up or built.
LEMMA LocalsKept ==
    ASSUME LocalsInv, UNCHANGED <<uses, builtFiles, doubled>>,
           \A j \in Import : pc'[j] \in {"make", "append"} => pc'[j] = pc[j] /\ idx'[j] = idx[j]
    PROVE  LocalsInv'
<1>1. \A j \in Import : pc'[j] \in {"make", "append"} => idx'[j] <= Len(Uses[j])
    BY DEF LocalsInv
<1>2. \A j \in Import, l \in Local : Making(j, l)' => Making(j, l)
    BY DEF Making, NextLocal
<1>3. ASSUME NEW l \in Local \ doubled PROVE LocalInv(l)'
    BY <1>2 DEF LocalsInv, LocalInv
<1> QED
    BY <1>1, <1>3 DEF LocalsInv

\* A task at p has claimed its directory.
Claimed == {"exists", "clone", "ask", "lookup", "make", "append", "publish", "serve", "end"}

\* The contents of a directory.
OnDisk(d) == disk[d[1]][d[2]]

\* A task that has been taken has a directory.
LEMMA HasDir ==
    ASSUME TypeOK, DirsInv, NEW j \in Import, pc[j] \notin {"none", "queued"}
    PROVE  Repo[j] \in Repos /\ dir[j] \in Version /\ Where(j) = <<Repo[j], dir[j]>>
<1>1. dir[j] \in 0 .. MaxVersion /\ dir[j] # 0
    BY DEF DirsInv, TypeOK
<1>2. dir[j] \in Version
    BY <1>1, ConstantsAssumption DEF Version
<1> QED
    BY <1>2 DEF Repos, Where

\* A step of a task on the directory it has claimed, or claims.
LEMMA DirsStep ==
    ASSUME TypeOK, DirsInv, NEW i \in Import, NEW p,
           p \in Claimed \cup {"ok", "failed"}, pc'[i] = p,
           \A j \in Import : j # i => pc'[j] = pc[j],
           UNCHANGED dir, pc[i] \notin {"none", "queued"},
           \A r \in Repos, v \in Version : <<r, v>> # Where(i) => disk'[r][v] = disk[r][v],
           Holds(i) \/ (Where(i) \notin downloading /\ disk' = disk),
           \A j \in Import : j # i /\ Holds(j) => Where(j) \in downloading',
           p \in Claimed => Where(i) \in downloading',
           p = "clone" => InDir(i)' < 0,
           p = "ask" => InDir(i)' # 0,
           p \in {"lookup", "make", "append", "publish"} => InDir(i)' > 0,
           InDir(i)' < 0 => \/ p \in {"clone", "failed"}
                            \/ \E j \in Import : /\ j # i /\ pc[j] \in {"clone", "failed"}
                                                 /\ Where(j) = Where(i)
    PROVE  DirsInv'
<1>1. \A j \in Import : Where(j)' = Where(j) /\ (Holds(j) <=> pc[j] \in Claimed)
                        /\ (Holds(j)' <=> pc'[j] \in Claimed)
    BY DEF Where, Holds, Claimed
<1>2. \A j \in Import : j # i /\ Holds(j) => Where(j) # Where(i)
    BY DEF DirsInv
<1>3. \A j \in Import : pc[j] \notin {"none", "queued"} =>
          Repo[j] \in Repos /\ dir[j] \in Version /\ Where(j) = <<Repo[j], dir[j]>>
    BY HasDir
<1>4. \A j \in Import : j # i /\ Holds(j) => InDir(j)' = InDir(j)
    BY <1>2, <1>3 DEF InDir, Holds
<1>5. \A j \in Import :
          /\ pc'[j] \notin {"none", "queued"} => dir'[j] # 0
          /\ Holds(j)' => Where(j)' \in downloading'
          /\ pc'[j] = "clone" => InDir(j)' < 0
          /\ pc'[j] = "ask" => InDir(j)' # 0
          /\ pc'[j] \in {"lookup", "make", "append", "publish"} => InDir(j)' > 0
  <2> SUFFICES ASSUME NEW j \in Import
               PROVE  /\ pc'[j] \notin {"none", "queued"} => dir'[j] # 0
                      /\ Holds(j)' => Where(j)' \in downloading'
                      /\ pc'[j] = "clone" => InDir(j)' < 0
                      /\ pc'[j] = "ask" => InDir(j)' # 0
                      /\ pc'[j] \in {"lookup", "make", "append", "publish"} => InDir(j)' > 0
      OBVIOUS
  <2>1. CASE j = i
      BY <2>1, <1>1 DEF DirsInv
  <2>2. CASE j # i
      BY <2>2, <1>1, <1>4 DEF DirsInv, Holds
  <2> QED
      BY <2>1, <2>2
<1>6. \A j, k \in Import : Holds(j)' /\ Holds(k)' /\ Where(j)' = Where(k)' => j = k
  <2>1. \A j \in Import : j # i /\ Holds(j)' => Holds(j)
      BY <1>1
  <2> QED
      BY <2>1, <1>1, <1>2 DEF DirsInv
<1>7. ASSUME NEW r \in Repos, NEW v \in Version, disk'[r][v] < 0
      PROVE  \E j \in Import : pc'[j] \in {"clone", "failed"} /\ Where(j)' = <<r, v>>
  <2>1. CASE <<r, v>> # Where(i)
    <3>1. PICK j \in Import : pc[j] \in {"clone", "failed"} /\ Where(j) = <<r, v>>
        BY <2>1, <1>7 DEF DirsInv
    <3> QED
        BY <3>1, <2>1, <1>1
  <2>2. CASE <<r, v>> = Where(i)
    <3>1. InDir(i)' < 0
        BY <2>2, <1>7 DEF InDir, Where
    <3> QED
        BY <3>1, <2>2, <1>1
  <2> QED
      BY <2>1, <2>2
<1> QED
    BY <1>5, <1>6, <1>7 DEF DirsInv

\* The clone of i changes what is in its directory, to w.
LEMMA DiskWrite ==
    ASSUME TypeOK, DirsInv, NEW i \in Import, Holds(i), NEW w \in -MaxVersion .. MaxVersion,
           disk' = [disk EXCEPT ![Repo[i]][dir[i]] = w], UNCHANGED dir
    PROVE  /\ disk' \in [Repos -> [Version -> -MaxVersion .. MaxVersion]]
           /\ InDir(i)' = w
           /\ \A r \in Repos, v \in Version : <<r, v>> # Where(i) => disk'[r][v] = disk[r][v]
<1> DEFINE R == -MaxVersion .. MaxVersion
           c == Repo[i]
           d == dir[i]
<1>1. c \in Repos /\ d \in Version
    BY HasDir DEF Holds
<1>2. disk \in [Repos -> [Version -> R]]
    BY DEF TypeOK, Repos
<1>3. disk' = [disk EXCEPT ![c] = [disk[c] EXCEPT ![d] = w]] /\ w \in R
    OBVIOUS
<1>4. Where(i) = <<c, d>> /\ InDir(i)' = disk'[c][d]
    BY DEF Where, InDir
<1> HIDE DEF R, c, d
<1>5. [disk[c] EXCEPT ![d] = w] \in [Version -> R]
    BY <1>1, <1>2, <1>3
<1>6. disk' \in [Repos -> [Version -> R]] /\ disk'[c][d] = w
    BY <1>1, <1>2, <1>3, <1>5
<1>7. \A r \in Repos, v \in Version : <<r, v>> # <<c, d>> => disk'[r][v] = disk[r][v]
    BY <1>1, <1>2, <1>3
<1> QED
    BY <1>4, <1>6, <1>7 DEF R

-----------------------------------------------------------------------------
\* Nothing has been asked for.
LEMMA InitIInv == Init => IInv
<1> SUFFICES ASSUME Init PROVE IInv
    OBVIOUS
<1>1. Job \in Requester /\ MaxVersion \in Nat \ {0} /\ 0 \in -MaxVersion .. MaxVersion
    BY ConstantsAssumption DEF Requester
<1>2. TypeOK
    BY <1>1 DEF Init, TypeOK
<1>3. Len(order) = 0 /\ processed = 0
    BY DEF Init
<1>4. OrderInv
    BY <1>3 DEF Init, OrderInv
<1>5. JobInv
    BY DEF Init, JobInv
<1>6. \A r \in Repos, v \in Version : disk[r][v] = 0
    BY DEF Init, Repos
<1>7. DirsInv
  <2>1. \A i \in Import : pc[i] = "none" /\ ~Holds(i)
      BY DEF Init, Holds
  <2>2. \A r \in Repos, v \in Version : ~(disk[r][v] < 0)
      BY <1>6
  <2> QED
      BY <2>1, <2>2 DEF DirsInv
<1>8. ServedInv
    BY DEF Init, ServedInv, Counted, Given, Served
<1>9. NewestInv
  <2> SUFFICES ASSUME NEW i \in Import PROVE Newest(i)
      BY DEF NewestInv
  <2>1. \A v \in Version : disk[Repo[i]][v] = 0
      BY <1>6 DEF Repos
  <2> QED
      BY <2>1 DEF Init, Newest
<1>10. LocalsInv
    BY DEF Init, LocalsInv, LocalInv, Making
<1> QED
    BY <1>2, <1>4, <1>5, <1>7, <1>8, <1>9, <1>10 DEF IInv

-----------------------------------------------------------------------------
\* add_remote_import.

\* What a request changes has its types.
LEMMA AskTypes ==
    ASSUME TypeOK, NEW r \in Requester, NEW i \in Import, NEW v \in Version,
           AddRemoteImport(r, i, v)
    PROVE  /\ order' \in Seq(Import)
           /\ version' \in [Import -> 0 .. MaxVersion]
           /\ requesters' \in [Import -> [Requester -> Nat]]
           /\ deps' \in [Requester -> [Import -> Nat]]
           /\ wanted' \in [Requester -> [Import -> Nat]]
           /\ inTime' \in [Import -> SUBSET Version]
           /\ switched' \subseteq Import
<1>1. order' \in Seq(Import)
    BY AppendOrder DEF AddRemoteImport, TypeOK
<1>2. version' \in [Import -> 0 .. MaxVersion]
  <2>1. v \in 0 .. MaxVersion /\ version[i] \in 0 .. MaxVersion
      BY ConstantsAssumption DEF Version, TypeOK
  <2>2. (IF v > version[i] THEN v ELSE version[i]) \in 0 .. MaxVersion
      BY <2>1
  <2> QED
      BY <2>2 DEF AddRemoteImport, TypeOK
<1>3. requesters' \in [Import -> [Requester -> Nat]]
  <2>1. requesters[i] \in [Requester -> Nat] /\ requesters[i][r] + 1 \in Nat
      BY DEF TypeOK
  <2>2. [requesters[i] EXCEPT ![r] = @ + 1] \in [Requester -> Nat]
      BY <2>1
  <2> QED
      BY <2>2 DEF AddRemoteImport, TypeOK
<1>4. deps' \in [Requester -> [Import -> Nat]]
  <2>1. deps[r] \in [Import -> Nat] /\ deps[r][i] + 1 \in Nat
      BY DEF TypeOK
  <2>2. [deps[r] EXCEPT ![i] = @ + 1] \in [Import -> Nat]
      BY <2>1
  <2> QED
      BY <2>2 DEF AddRemoteImport, TypeOK
<1>5. wanted' \in [Requester -> [Import -> Nat]]
  <2>1. wanted[r] \in [Import -> Nat] /\ wanted[r][i] + 1 \in Nat
      BY DEF TypeOK
  <2>2. [wanted[r] EXCEPT ![i] = @ + 1] \in [Import -> Nat]
      BY <2>1
  <2> QED
      BY <2>2 DEF AddRemoteImport, TypeOK
<1>6. inTime' \in [Import -> SUBSET Version]
    BY DEF AddRemoteImport, TypeOK
<1>7. switched' \subseteq Import
    BY DEF AddRemoteImport, TypeOK
<1> QED
    BY <1>1, <1>2, <1>3, <1>4, <1>5, <1>6, <1>7

\* What a request of r for version v of i changes.
Asked(r, i, v) ==
    /\ built[i] = 0 => /\ version'[i] = IF v > version[i] THEN v ELSE version[i]
                       /\ requesters'[i][r] = requesters[i][r] + 1
                       /\ deps' = deps
                       /\ switched' = IF v > version[i] /\ pc[i] \notin {"none", "queued"}
                                      THEN switched \cup {i} ELSE switched
    /\ built[i] # 0 => /\ deps'[r][i] = deps[r][i] + 1
                       /\ UNCHANGED <<version, requesters, switched>>
    /\ \A j \in Import : j # i => version'[j] = version[j] /\ inTime'[j] = inTime[j]
    /\ inTime'[i] = IF pc[i] \in {"none", "queued", "claim", "exists"}
                    THEN inTime[i] \cup {v} ELSE inTime[i]
    /\ wanted'[r][i] = wanted[r][i] + 1
    /\ \A s \in Requester, j \in Import : <<s, j>> # <<r, i>> =>
           /\ requesters'[j][s] = requesters[j][s]
           /\ deps'[s][j] = deps[s][j] /\ wanted'[s][j] = wanted[s][j]
    /\ UNCHANGED built

\* add_remote_import does that.
LEMMA AskEffect ==
    ASSUME TypeOK, NEW r \in Requester, NEW i \in Import, NEW v \in Version,
           AddRemoteImport(r, i, v)
    PROVE  Asked(r, i, v)
<1> USE DEF Asked
<1>1. /\ version \in [Import -> 0 .. MaxVersion] /\ inTime \in [Import -> SUBSET Version]
      /\ requesters \in [Import -> [Requester -> Nat]]
      /\ deps \in [Requester -> [Import -> Nat]] /\ wanted \in [Requester -> [Import -> Nat]]
    BY DEF TypeOK
<1>2. CASE built[i] = 0
    BY <1>1, <1>2 DEF AddRemoteImport
<1>3. CASE built[i] # 0
    BY <1>1, <1>3 DEF AddRemoteImport
<1> QED
    BY <1>2, <1>3

\* A request keeps the list of imports in order.
LEMMA AskOrder ==
    ASSUME TypeOK, OrderInv, ServedInv, NEW r \in Requester, NEW i \in Import, NEW v \in Version,
           AddRemoteImport(r, i, v), UNCHANGED processed,
           \A j \in Import : pc'[j] = "none" <=> pc[j] = "none"
    PROVE  OrderInv'
<1>0. Asked(r, i, v)
    BY AskEffect
<1>1. v # 0 /\ v > 0 /\ version[i] \in Nat /\ v \in Nat
    BY ConstantsAssumption DEF Version, TypeOK
<1>2. version'[i] # 0 /\ \A j \in Import : j # i => version'[j] = version[j]
  <2>1. \A j \in Import : j # i => version'[j] = version[j]
      BY <1>0 DEF Asked
  <2>2. CASE built[i] = 0
      BY <2>2, <1>0, <1>1 DEF Asked
  <2>3. CASE built[i] # 0
    <3>1. version[i] # 0
        BY <2>3 DEF ServedInv, Given, OrderInv
    <3> QED
        BY <2>3, <3>1, <1>0 DEF Asked
  <2> QED
      BY <2>1, <2>2, <2>3
<1>3. \A s \in Requester, j \in Import : wanted'[s][j] # 0 => wanted[s][j] # 0 \/ j = i
    BY <1>0 DEF Asked
<1>4. \A s \in Requester, j \in Import : wanted'[s][j] # 0 => version'[j] # 0
    BY <1>2, <1>3 DEF OrderInv
<1>5. CASE version[i] = 0
  <2>1. /\ Len(order) \in Nat /\ Len(order') = Len(order) + 1 /\ order'[Len(order')] = i
        /\ \A k \in 1 .. Len(order) : order'[k] = order[k] /\ order[k] \in Import
      BY <1>5, AppendOrder DEF AddRemoteImport, TypeOK
  <2>2. \A k \in 1 .. Len(order') : k \in 1 .. Len(order) \/ k = Len(order')
      BY <2>1
  <2>3. pc[i] = "none" /\ \A k \in 1 .. Len(order) : order[k] # i
      BY <1>5 DEF OrderInv
  <2>4. ASSUME NEW j \in Import
        PROVE  version'[j] # 0 <=> \E n \in 1 .. Len(order') : order'[n] = j
    <3>1. CASE j = i
        BY <3>1, <2>1, <1>2
    <3>2. CASE j # i
        BY <3>2, <2>1, <2>2, <1>2 DEF OrderInv
    <3> QED
        BY <3>1, <3>2
  <2>5. \A m, n \in 1 .. Len(order') : order'[m] = order'[n] => m = n
      BY <2>1, <2>2, <2>3 DEF OrderInv
  <2>6. processed \in Nat /\ processed <= Len(order) /\ processed' = processed
      BY DEF OrderInv, TypeOK
  <2>7. ASSUME NEW n \in 1 .. Len(order')
        PROVE  n > processed' <=> pc'[order'[n]] = "none"
    <3>1. CASE n \in 1 .. Len(order)
        BY <3>1, <2>1 DEF OrderInv
    <3>2. CASE n = Len(order')
        BY <3>2, <2>1, <2>3, <2>6
    <3> QED
        BY <3>1, <3>2, <2>2
  <2> QED
      BY <2>1, <2>4, <2>5, <2>6, <2>7, <1>2, <1>4 DEF OrderInv
<1>6. CASE version[i] # 0
  <2>1. order' = order
      BY <1>6 DEF AddRemoteImport
  <2>2. \A n \in 1 .. Len(order) : order[n] \in Import
      BY ElementOfSeq DEF TypeOK
  <2>3. \A j \in Import : version'[j] # 0 <=> version[j] # 0
      BY <1>2, <1>6
  <2> QED
      BY <2>1, <2>2, <2>3, <1>4 DEF OrderInv
<1> QED
    BY <1>5, <1>6

\* And the versions newest in time, or i is among those that were changed.
LEMMA AskNewest ==
    ASSUME TypeOK, NewestInv, ServedInv,
           NEW r \in Requester, NEW i \in Import, NEW v \in Version,
           AddRemoteImport(r, i, v), UNCHANGED <<dir, disk>>,
           \A j \in Import : pc'[j] \in {"none", "queued"} <=> pc[j] \in {"none", "queued"}
    PROVE  NewestInv'
<1>0. Asked(r, i, v)
    BY AskEffect
<1>1. \A j \in Import : Steady(j)' => Steady(j)
    BY DEF Steady, AddRemoteImport
<1>2. ASSUME NEW j \in Import, Steady(j)' PROVE Newest(j)'
  <2>1. Newest(j)
      BY <1>1, <1>2 DEF NewestInv
  <2>2. CASE j # i
      BY <2>1, <2>2, <1>0 DEF Asked, Newest
  <2>3. CASE j = i
    <3> USE <2>3
    <3>1. i \notin switched'
        BY <1>2 DEF Steady
    <3>2. v \in Nat /\ v # 0 /\ version[i] \in Nat /\ inTime[i] \subseteq Version
          /\ \A w \in Version : w \in Nat
        BY ConstantsAssumption DEF Version, TypeOK
    <3>3. CASE built[i] # 0
      <4>1. version'[i] = version[i] /\ built'[i] = built[i] /\ inTime'[i] = inTime[i]
          BY <3>3, <1>0 DEF Asked, ServedInv, Given
      <4> QED
          BY <4>1, <2>1 DEF Newest
    <3>4. CASE built[i] = 0
      <4>1. version'[i] = (IF v > version[i] THEN v ELSE version[i]) /\ built'[i] = 0
          BY <3>4, <1>0 DEF Asked
      <4>2. v > version[i] => pc[i] \in {"none", "queued"}
          BY <3>1, <3>4, <1>0 DEF Asked
      <4>3. inTime'[i] = IF pc[i] \in {"none", "queued", "claim", "exists"}
                         THEN inTime[i] \cup {v} ELSE inTime[i]
          BY <1>0 DEF Asked
      <4>4. version'[i] \in inTime'[i]
        <5>1. CASE v > version[i]
            BY <5>1, <4>1, <4>2, <4>3
        <5>2. CASE ~(v > version[i])
            BY <5>2, <4>1, <4>3, <3>2, <2>1 DEF Newest
        <5> QED
            BY <5>1, <5>2
      <4>5. \A w \in inTime'[i] : w <= version'[i]
        <5>1. version'[i] \in Nat /\ version'[i] >= version[i] /\ version'[i] >= v
            BY <4>1, <3>2
        <5>2. \A w \in inTime[i] : w <= version[i] /\ w \in Nat
            BY <3>2, <2>1 DEF Newest
        <5>3. \A w \in inTime'[i] : w \in inTime[i] \/ w = v
            BY <4>3
        <5>4. \A w \in inTime[i] : w <= version'[i]
            BY <5>1, <5>2, <3>2
        <5> QED
            BY <5>1, <5>3, <5>4, <3>2
      <4>6. pc'[i] \notin {"none", "queued"} => dir'[i] = version'[i]
          BY <4>1, <4>2, <2>1 DEF Newest
      <4> QED
          BY <4>1, <4>4, <4>5, <4>6, <2>1 DEF Newest
    <3> QED
        BY <3>3, <3>4
  <2> QED
      BY <2>2, <2>3
<1> QED
    BY <1>2 DEF NewestInv

\* A request is counted, and answered at once when there is an answer.
LEMMA AskServed ==
    ASSUME TypeOK, ServedInv, NEW r \in Requester, NEW i \in Import, NEW v \in Version,
           AddRemoteImport(r, i, v), hidden \subseteq hidden', UNCHANGED torn,
           \A j \in Import \ hidden' : pc'[j] = pc[j],
           \A j \in hidden' : Given(j) => Given(j)'
    PROVE  ServedInv'
<1>0. Asked(r, i, v)
    BY AskEffect
<1>1. ASSUME NEW j \in Import \ hidden', NEW s \in Requester \ torn PROVE Counted(s, j)'
  <2>1. Counted(s, j) /\ (Served(j)' <=> Served(j))
      BY DEF ServedInv, Served
  <2>2. /\ wanted[s][j] \in Nat /\ deps[s][j] \in Nat /\ requesters[j][s] \in Nat
      BY DEF TypeOK
  <2>3. CASE <<s, j>> # <<r, i>>
    <3>1. requesters'[j][s] = requesters[j][s] /\ deps'[s][j] = deps[s][j]
          /\ wanted'[s][j] = wanted[s][j]
        BY <2>3, <1>0 DEF Asked
    <3> QED
        BY <3>1, <2>1 DEF Counted
  <2>4. CASE s = r /\ j = i
    <3> USE <2>4
    <3>1. wanted'[r][i] = wanted[r][i] + 1
        BY <1>0 DEF Asked
    <3>2. CASE built[i] = 0
      <4>1. requesters'[i][r] = requesters[i][r] + 1 /\ deps' = deps
          BY <3>2, <1>0 DEF Asked
      <4>2. ~Served(i)
          BY <3>2 DEF ServedInv, Served, Given
      <4> QED
          BY <4>1, <4>2, <3>1, <2>1, <2>2 DEF Counted
    <3>3. CASE built[i] # 0
      <4>1. deps'[r][i] = deps[r][i] + 1 /\ requesters' = requesters
          BY <3>3, <1>0 DEF Asked
      <4> QED
          BY <4>1, <3>1, <2>1, <2>2 DEF Counted
    <3> QED
        BY <3>2, <3>3
  <2> QED
      BY <2>3, <2>4
<1>2. built' = built
    BY <1>0 DEF Asked
<1>3. \A j \in Import : built'[j] # 0 => Given(j)'
    BY <1>2 DEF ServedInv, Given
<1>4. \A j \in Import \ hidden' : Given(j)' => built'[j] # 0
    BY <1>2 DEF ServedInv, Given
<1> QED
    BY <1>1, <1>3, <1>4 DEF ServedInv

-----------------------------------------------------------------------------
\* The main thread.

\* fetch_job_dependency.
LEMMA AskForRootIInv == ASSUME IInv, AskForRoot PROVE IInv'
<1> USE DEF IInv
<1>1. asked \in Nat /\ asked + 1 \in 1 .. Len(Roots) /\ asked' = asked + 1 /\ job = "asking"
    BY RequestTypes DEF AskForRoot, TypeOK
<1> DEFINE i == Roots[asked + 1][1]
           v == Roots[asked + 1][2]
<1>2. i \in Import /\ v \in Version
    BY <1>1, RequestTypes
<1>3. Job \in Requester
    BY DEF Requester
<1>4. AddRemoteImport(Job, i, v)
      /\ UNCHANGED <<processed, job, pc, idx, dir, downloading, disk, builtFiles, uses,
                     hidden, torn, doubled>>
    BY DEF AskForRoot, tasks, files
<1>5. PICK k \in Import, w \in Version : AddRemoteImport(Job, k, w)
    BY <1>2, <1>4
<1>6. TypeOK'
  <2>1. /\ order' \in Seq(Import)
        /\ version' \in [Import -> 0 .. MaxVersion]
        /\ requesters' \in [Import -> [Requester -> Nat]]
        /\ deps' \in [Requester -> [Import -> Nat]]
        /\ wanted' \in [Requester -> [Import -> Nat]]
        /\ inTime' \in [Import -> SUBSET Version]
        /\ switched' \subseteq Import
      BY <1>3, <1>5, AskTypes
  <2>2. built' = built
      BY <1>5 DEF AddRemoteImport
  <2>3. asked' \in Nat
      BY <1>1
  <2>4. UNCHANGED <<processed, job, pc, idx, dir, downloading, disk, builtFiles, uses,
                    hidden, torn, doubled>>
      BY <1>4
  <2> QED
      BY <2>1, <2>2, <2>3, <2>4 DEF TypeOK
<1>7. OrderInv'
    BY <1>3, <1>4, <1>5, AskOrder
<1>8. JobInv'
    BY <1>1, <1>4 DEF JobInv
<1>9. DirsInv'
    BY <1>4 DEF DirsInv, Holds, Where, InDir
<1>10. ServedInv'
    BY <1>3, <1>4, <1>5, AskServed DEF Given
<1>11. NewestInv'
    BY <1>3, <1>4, <1>5, AskNewest
<1>12. LocalsInv'
    BY <1>4, LocalsKept
<1> QED
    BY <1>6, <1>7, <1>8, <1>9, <1>10, <1>11, <1>12

\* process_job_tcc goes on to process_remote_imports.
LEMMA RunJobIInv == ASSUME IInv, RunJob PROVE IInv'
<1> USE DEF IInv
<1>1. /\ job = "asking" /\ job' = "idle"
      /\ UNCHANGED <<order, version, requesters, built, processed, asked, pc, idx, dir,
                     downloading, disk, deps, builtFiles, uses, wanted, inTime, switched,
                     hidden, torn, doubled>>
    BY DEF RunJob, shared, tasks, files, modules, observed
<1>2. TypeOK' /\ OrderInv'
    BY <1>1 DEF TypeOK, OrderInv
<1>3. JobInv'
    BY <1>1 DEF JobInv
<1>4. DirsInv'
    BY <1>1 DEF DirsInv, Holds, Where, InDir
<1>5. ServedInv'
    BY <1>1, ServedKept DEF Given, Served
<1>6. NewestInv' /\ LocalsInv'
    BY <1>1, NewestKept, LocalsKept
<1> QED
    BY <1>2, <1>3, <1>4, <1>5, <1>6

\* The wave is made of imports whose tasks have not been made.
LEMMA WaveIsNew == ASSUME TypeOK, OrderInv, NEW i \in Wave PROVE i \in Import /\ pc[i] = "none"
<1>1. PICK n \in (processed + 1) .. Len(order) : order[n] = i
    BY DEF Wave
<1>2. n \in 1 .. Len(order) /\ n > processed
    BY <1>1, LenProperties DEF TypeOK
<1> QED
    BY <1>1, <1>2, ElementOfSeq DEF OrderInv, TypeOK

\* A wave begins.
LEMMA BeginWaveIInv == ASSUME IInv, BeginWave PROVE IInv'
<1> USE DEF IInv
<1>1. /\ pc' = [i \in Import |-> IF i \in Wave THEN "queued" ELSE pc[i]]
      /\ processed' = Len(order) /\ job' = "wave"
      /\ UNCHANGED <<order, version, requesters, built, asked, idx, dir, downloading, disk,
                     deps, builtFiles, uses, wanted, inTime, switched, hidden, torn, doubled>>
    BY DEF BeginWave, shared, files, modules, observed
<1>2. \A i \in Import : \/ pc'[i] = pc[i] /\ i \notin Wave
                        \/ pc[i] = "none" /\ pc'[i] = "queued" /\ i \in Wave
    BY <1>1, WaveIsNew
<1>3. Len(order) \in Nat /\ \A n \in 1 .. Len(order) : order[n] \in Import
    BY LenProperties, ElementOfSeq DEF TypeOK
<1>4. TypeOK'
  <2>1. pc' \in [Import -> {"none", "queued", "claim", "exists", "clone", "ask", "lookup",
                           "make", "append", "publish", "serve", "end", "ok", "failed"}]
      BY <1>1 DEF TypeOK
  <2> QED
      BY <2>1, <1>1, <1>3 DEF TypeOK
<1>5. OrderInv'
  <2>1. ASSUME NEW n \in 1 .. Len(order) PROVE pc'[order[n]] # "none"
    <3>1. CASE n > processed
      <4>1. order[n] \in Wave
          BY <3>1, <1>3 DEF Wave, TypeOK
      <4> QED
          BY <4>1, <1>2, <1>3
    <3>2. CASE ~(n > processed)
        BY <3>2, <1>2, <1>3 DEF OrderInv
    <3> QED
        BY <3>1, <3>2
  <2>2. \A i \in Import : pc'[i] # "none" => version[i] # 0
    <3>1. \A i \in Wave : \E n \in 1 .. Len(order) : order[n] = i
        BY <1>3 DEF Wave, TypeOK
    <3> QED
        BY <3>1, <1>2 DEF OrderInv
  <2> QED
      BY <2>1, <2>2, <1>1, <1>3 DEF OrderInv
<1>6. JobInv'
    BY <1>1 DEF JobInv
<1>7. DirsInv'
  <2>1. \A i \in Import : \A p \in {"claim", "exists", "clone", "ask", "lookup", "make",
             "append", "publish", "serve", "end", "ok", "failed"} : pc'[i] = p <=> pc[i] = p
      BY <1>2
  <2>2. \A i \in Import : /\ Holds(i)' <=> Holds(i)
                          /\ Where(i)' = Where(i) /\ InDir(i)' = InDir(i)
      BY <2>1, <1>1 DEF Holds, Where, InDir
  <2>3. \A i \in Import : pc'[i] \notin {"none", "queued"} => pc[i] \notin {"none", "queued"}
      BY <1>2
  <2> QED
      BY <2>1, <2>2, <2>3, <1>1 DEF DirsInv
<1>8. ServedInv'
    BY <1>1, <1>2, ServedKept DEF Given, Served
<1>9. NewestInv' /\ LocalsInv'
    BY <1>1, <1>2, NewestKept, LocalsKept
<1> QED
    BY <1>4, <1>5, <1>6, <1>7, <1>8, <1>9

\* Or ends, or there is none to come.
LEMMA EndIInv == ASSUME IInv, EndWave \/ EndImports PROVE IInv'
<1> USE DEF IInv
<1>1. /\ job' \in {"idle", "failed", "success"}
      /\ UNCHANGED <<order, version, requesters, built, processed, asked, pc, idx, dir,
                     downloading, disk, deps, builtFiles, uses, wanted, inTime, switched,
                     hidden, torn, doubled>>
    BY DEF EndWave, EndImports, shared, tasks, files, modules, observed
<1>2. TypeOK' /\ OrderInv'
    BY <1>1 DEF TypeOK, OrderInv
<1>3. JobInv'
  <2>1. CASE EndWave
      BY <2>1, <1>1 DEF JobInv, EndWave, Finished
  <2>2. CASE EndImports
    <3>1. processed \in Nat /\ Len(order) \in Nat /\ processed <= Len(order)
        BY LenProperties DEF TypeOK, OrderInv
    <3>2. ~(processed + 1 <= Len(order))
      <4>1. processed + 1 <= Len(order) => order[processed + 1] \in Wave
          BY <3>1 DEF Wave
      <4> QED
          BY <4>1, <2>2 DEF EndImports
    <3>3. processed = Len(order)
        BY <3>1, <3>2
    <3> QED
        BY <2>2, <3>3, <1>1 DEF JobInv, EndImports
  <2> QED
      BY <2>1, <2>2
<1>4. DirsInv'
    BY <1>1 DEF DirsInv, Holds, Where, InDir
<1>5. ServedInv'
    BY <1>1, ServedKept DEF Given, Served
<1>6. NewestInv' /\ LocalsInv'
    BY <1>1, NewestKept, LocalsKept
<1> QED
    BY <1>2, <1>3, <1>4, <1>5, <1>6

-----------------------------------------------------------------------------
\* download_remote_import.

\* A free thread takes the task.
LEMMA TakeTaskIInv == ASSUME IInv, NEW i \in Import, TakeTask(i) PROVE IInv'
<1> USE DEF IInv
<1>1. /\ pc[i] = "queued" /\ dir' = [dir EXCEPT ![i] = version[i]] /\ Go(i, "claim")
      /\ UNCHANGED <<order, version, requesters, built, processed, job, asked, idx,
                     downloading, disk, deps, builtFiles, uses, wanted, inTime, switched,
                     hidden, torn, doubled>>
    BY DEF TakeTask, shared, files, modules, observed
<1>2. /\ pc' \in [Import -> {"none", "queued", "claim", "exists", "clone", "ask", "lookup",
                            "make", "append", "publish", "serve", "end", "ok", "failed"}]
      /\ pc'[i] = "claim" /\ \A j \in Import : j # i => pc'[j] = pc[j]
    BY <1>1, GoMoves
<1>3. /\ dir' \in [Import -> 0 .. MaxVersion] /\ dir'[i] = version[i]
      /\ \A j \in Import : j # i => dir'[j] = dir[j]
    BY <1>1 DEF TypeOK
<1>4. TypeOK'
    BY <1>1, <1>2, <1>3 DEF TypeOK
<1>5. OrderInv' /\ JobInv'
    BY <1>1, <1>2, OrderKept, JobKept
<1>6. DirsInv'
  <2>1. version[i] # 0
      BY <1>1 DEF OrderInv
  <2>2. \A j \in Import : j # i => Where(j)' = Where(j) /\ InDir(j)' = InDir(j)
      BY <1>1, <1>3 DEF Where, InDir
  <2>3. \A j \in Import : (Holds(j)' <=> Holds(j)) /\ (Holds(j) => j # i)
      BY <1>1, <1>2 DEF Holds
  <2>4. \A j \in Import :
            /\ pc'[j] \notin {"none", "queued"} => dir'[j] # 0
            /\ Holds(j)' => Where(j)' \in downloading'
            /\ pc'[j] = "clone" => InDir(j)' < 0
            /\ pc'[j] = "ask" => InDir(j)' # 0
            /\ pc'[j] \in {"lookup", "make", "append", "publish"} => InDir(j)' > 0
    <3> SUFFICES ASSUME NEW j \in Import
                 PROVE  /\ pc'[j] \notin {"none", "queued"} => dir'[j] # 0
                        /\ Holds(j)' => Where(j)' \in downloading'
                        /\ pc'[j] = "clone" => InDir(j)' < 0
                        /\ pc'[j] = "ask" => InDir(j)' # 0
                        /\ pc'[j] \in {"lookup", "make", "append", "publish"} => InDir(j)' > 0
        OBVIOUS
    <3>1. CASE j = i
        BY <3>1, <2>1, <2>3, <1>2, <1>3
    <3>2. CASE j # i
        BY <3>2, <2>2, <2>3, <1>1, <1>2, <1>3 DEF DirsInv
    <3> QED
        BY <3>1, <3>2
  <2>5. \A j, k \in Import : Holds(j)' /\ Holds(k)' /\ Where(j)' = Where(k)' => j = k
      BY <2>2, <2>3 DEF DirsInv
  <2>6. ASSUME NEW r \in Repos, NEW v \in Version, disk'[r][v] < 0
        PROVE  \E j \in Import : pc'[j] \in {"clone", "failed"} /\ Where(j)' = <<r, v>>
    <3>1. PICK j \in Import : pc[j] \in {"clone", "failed"} /\ Where(j) = <<r, v>>
        BY <2>6, <1>1 DEF DirsInv
    <3> QED
        BY <3>1, <2>2, <1>1, <1>2
  <2> QED
      BY <2>4, <2>5, <2>6 DEF DirsInv
<1>7. ServedInv'
    BY <1>1, <1>2, ServedKept DEF Given, Served
<1>8. NewestInv'
  <2>1. \A j \in Import : Steady(j)' <=> Steady(j)
      BY <1>1 DEF Steady
  <2> QED
      BY <2>1, <1>1, <1>2, <1>3 DEF NewestInv, Newest
<1>9. LocalsInv'
    BY <1>1, <1>2, LocalsKept
<1> QED
    BY <1>4, <1>5, <1>6, <1>7, <1>8, <1>9

\* A step of i's task on the directories, apart from those.
LEMMA FilesIInv ==
    ASSUME IInv, NEW i \in Import, NEW p \in {"exists", "clone", "ask", "ok", "failed"},
           pc[i] \in {"claim", "exists", "clone", "ask", "end"}, Go(i, p),
           p = "ok" <=> pc[i] = "end",
           UNCHANGED <<order, version, requesters, built, processed, job, asked, idx, dir,
                       deps, builtFiles, uses, wanted, inTime, switched, hidden, torn, doubled>>,
           downloading' \subseteq Repos \X Version,
           disk' \in [Repos -> [Version -> -MaxVersion .. MaxVersion]],
           DirsInv', NewestInv'
    PROVE  IInv'
<1> USE DEF IInv
<1>1. /\ pc' \in [Import -> {"none", "queued", "claim", "exists", "clone", "ask", "lookup",
                            "make", "append", "publish", "serve", "end", "ok", "failed"}]
      /\ pc'[i] = p /\ \A j \in Import : j # i => pc'[j] = pc[j]
    BY GoMoves
<1>2. TypeOK'
    BY <1>1 DEF TypeOK, Repos
<1>3. OrderInv' /\ JobInv'
    BY <1>1, OrderKept, JobKept
<1>4. ServedInv'
    BY <1>1, ServedKept DEF Given, Served
<1>5. LocalsInv'
    BY <1>1, LocalsKept
<1> QED
    BY <1>2, <1>3, <1>4, <1>5

\* Its directory is free, and claimed.
LEMMA ClaimIInv == ASSUME IInv, NEW i \in Import, Claim(i) PROVE IInv'
<1> USE DEF IInv
<1>1. /\ pc[i] = "claim" /\ Where(i) \notin downloading
      /\ downloading' = downloading \cup {Where(i)} /\ Go(i, "exists")
      /\ UNCHANGED <<order, version, requesters, built, processed, job, asked, idx, dir, disk,
                     deps, builtFiles, uses, wanted, inTime, switched, hidden, torn, doubled>>
    BY DEF Claim, shared, modules, observed
<1>2. pc'[i] = "exists" /\ \A j \in Import : j # i => pc'[j] = pc[j]
    BY <1>1, GoMoves
<1>3. Where(i) \in Repos \X Version
    BY <1>1, HasDir
<1>4. InDir(i)' = InDir(i) /\ ~Holds(i)
    BY <1>1 DEF InDir, Holds
<1>5. InDir(i) < 0 => \E j \in Import : /\ j # i /\ pc[j] \in {"clone", "failed"}
                                        /\ Where(j) = Where(i)
  <2>1. ASSUME InDir(i) < 0
        PROVE  \E j \in Import : pc[j] \in {"clone", "failed"} /\ Where(j) = Where(i)
      BY <2>1, <1>1, HasDir DEF DirsInv, InDir
  <2> QED
      BY <2>1, <1>1
<1>6. DirsInv'
    BY <1>1, <1>2, <1>4, <1>5, DirsStep DEF DirsInv, Claimed
<1>7. NewestInv'
    BY <1>1, <1>2, NewestKept
<1> QED
    BY <1>1, <1>3, <1>6, <1>7, FilesIInv DEF TypeOK, Repos

\* What is in it is taken for a clone, or a clone is begun.
LEMMA LookAtDirIInv == ASSUME IInv, NEW i \in Import, LookAtDir(i) PROVE IInv'
<1> USE DEF IInv
<1>1. /\ pc[i] = "exists"
      /\ UNCHANGED <<order, version, requesters, built, processed, job, asked, idx, dir,
                     downloading, deps, builtFiles, uses, wanted, inTime, switched, hidden,
                     torn, doubled>>
    BY DEF LookAtDir, shared, modules, observed
<1>2. /\ Holds(i) /\ Where(i) \in downloading
      /\ \A j \in Import : Holds(j) => Where(j) \in downloading
    BY <1>1 DEF DirsInv, Holds
<1>3. downloading \subseteq Repos \X Version /\ "exists" \in Claimed /\ "ask" \in Claimed
      /\ "clone" \in Claimed
    BY DEF TypeOK, Repos, Claimed
<1>4. CASE InDir(i) # 0
  <2>1. Go(i, "ask") /\ disk' = disk
      BY <1>4 DEF LookAtDir
  <2>2. pc'[i] = "ask" /\ \A j \in Import : j # i => pc'[j] = pc[j]
      BY <2>1, GoMoves
  <2>3. InDir(i)' = InDir(i)
      BY <2>1, <1>1 DEF InDir
  <2>4. InDir(i) < 0 => \E j \in Import : /\ j # i /\ pc[j] \in {"clone", "failed"}
                                          /\ Where(j) = Where(i)
    <3>1. ASSUME InDir(i) < 0
          PROVE  \E j \in Import : pc[j] \in {"clone", "failed"} /\ Where(j) = Where(i)
        BY <3>1, <1>1, HasDir DEF DirsInv, InDir
    <3> QED
        BY <3>1, <1>1
  <2>5. DirsInv'
      BY <1>1, <1>2, <1>3, <1>4, <2>1, <2>2, <2>3, <2>4, DirsStep
  <2>6. NewestInv'
      BY <1>1, <2>1, <2>2, NewestKept
  <2> QED
      BY <1>1, <1>3, <2>1, <2>5, <2>6, FilesIInv DEF TypeOK, Repos
<1>5. CASE InDir(i) = 0
  <2>1. Go(i, "clone") /\ disk' = [disk EXCEPT ![Repo[i]][dir[i]] = -version[i]]
      BY <1>5 DEF LookAtDir
  <2>2. pc'[i] = "clone" /\ \A j \in Import : j # i => pc'[j] = pc[j]
      BY <2>1, GoMoves
  <2>3. version[i] # 0 /\ version[i] \in 0 .. MaxVersion
      BY <1>1 DEF OrderInv, TypeOK
  <2>4. -version[i] \in -MaxVersion .. MaxVersion /\ -version[i] < 0
      BY <2>3, ConstantsAssumption
  <2>5. /\ disk' \in [Repos -> [Version -> -MaxVersion .. MaxVersion]]
        /\ InDir(i)' = -version[i]
        /\ \A r \in Repos, v \in Version : <<r, v>> # Where(i) => disk'[r][v] = disk[r][v]
      BY <1>1, <1>2, <2>1, <2>4, DiskWrite
  <2>6. DirsInv'
      BY <1>1, <1>2, <1>3, <2>2, <2>4, <2>5, DirsStep
  <2>7. NewestInv'
    <3> SUFFICES ASSUME NEW j \in Import, Steady(j)' PROVE Newest(j)'
        BY DEF NewestInv
    <3>1. Newest(j)
        BY <1>1 DEF NewestInv, Steady
    <3>2. \A v \in Version : disk'[Repo[j]][v] \in {0, v, -v}
      <4> SUFFICES ASSUME NEW v \in Version PROVE disk'[Repo[j]][v] \in {0, v, -v}
          OBVIOUS
      <4>1. CASE <<Repo[j], v>> # Where(i)
          BY <4>1, <2>5, <3>1 DEF Newest, Repos
      <4>2. CASE <<Repo[j], v>> = Where(i)
        <5>1. Repo[j] = Repo[i] /\ v = dir[i] /\ disk'[Repo[j]][v] = -version[i]
            BY <4>2, <2>5, <1>1 DEF Where, InDir
        <5>2. Steady(i)
            BY <5>1, <1>1 DEF Steady
        <5>3. dir[i] = version[i]
            BY <5>2, <1>1 DEF NewestInv, Newest
        <5> QED
            BY <5>1, <5>3
      <4> QED
          BY <4>1, <4>2
    <3> QED
        BY <3>1, <3>2, <1>1, <2>2 DEF Newest
  <2> QED
      BY <1>1, <1>3, <2>1, <2>5, <2>6, <2>7, FilesIInv
<1> QED
    BY <1>4, <1>5

\* The clone is whole.
LEMMA CloneIInv == ASSUME IInv, NEW i \in Import, Clone(i) PROVE IInv'
<1> USE DEF IInv
<1>1. /\ pc[i] = "clone" /\ Go(i, "ask")
      /\ disk' = [disk EXCEPT ![Repo[i]][dir[i]] = -@]
      /\ UNCHANGED <<order, version, requesters, built, processed, job, asked, idx, dir,
                     downloading, deps, builtFiles, uses, wanted, inTime, switched, hidden,
                     torn, doubled>>
    BY DEF Clone, shared, modules, observed
<1>2. /\ Holds(i) /\ InDir(i) < 0
      /\ \A j \in Import : Holds(j) => Where(j) \in downloading
    BY <1>1 DEF DirsInv, Holds
<1>3. Repo[i] \in Repos /\ dir[i] \in Version
    BY <1>1, HasDir
<1>4. disk[Repo[i]][dir[i]] \in -MaxVersion .. MaxVersion /\ MaxVersion \in Nat
  <2>1. disk \in [Repos -> [Version -> -MaxVersion .. MaxVersion]]
      BY DEF TypeOK, Repos
  <2> QED
      BY <2>1, <1>3, ConstantsAssumption
<1>5. PICK w \in -MaxVersion .. MaxVersion : w = -disk[Repo[i]][dir[i]] /\ w > 0
    BY <1>2, <1>4 DEF InDir
<1>6. disk' = [disk EXCEPT ![Repo[i]][dir[i]] = w]
    BY <1>1, <1>5
<1>7. /\ disk' \in [Repos -> [Version -> -MaxVersion .. MaxVersion]]
      /\ InDir(i)' = w
      /\ \A r \in Repos, v \in Version : <<r, v>> # Where(i) => disk'[r][v] = disk[r][v]
    BY <1>1, <1>2, <1>6, DiskWrite
<1>8. pc'[i] = "ask" /\ \A j \in Import : j # i => pc'[j] = pc[j]
    BY <1>1, GoMoves
<1>9. w # 0 /\ ~(w < 0)
    BY <1>4, <1>5
<1>10. DirsInv'
    BY <1>1, <1>2, <1>7, <1>8, <1>9, DirsStep DEF Claimed
<1>11. NewestInv'
  <2> SUFFICES ASSUME NEW j \in Import, Steady(j)' PROVE Newest(j)'
      BY DEF NewestInv
  <2>1. Newest(j)
      BY <1>1 DEF NewestInv, Steady
  <2>2. ASSUME NEW v \in Version PROVE disk'[Repo[j]][v] \in {0, v, -v}
    <3>1. CASE <<Repo[j], v>> # Where(i)
        BY <3>1, <1>7, <2>1 DEF Newest, Repos
    <3>2. CASE <<Repo[j], v>> = Where(i)
      <4>1. Repo[j] = Repo[i] /\ v = dir[i] /\ disk'[Repo[j]][v] = w
          BY <3>2, <1>1, <1>7 DEF Where, InDir
      <4>2. disk[Repo[j]][v] \in {0, v, -v} /\ w = -disk[Repo[j]][v] /\ v \in Int
          BY <4>1, <2>1, <1>5 DEF Newest, Version
      <4> QED
          BY <4>1, <4>2
    <3> QED
        BY <3>1, <3>2
  <2> QED
      BY <2>1, <2>2, <1>1, <1>8 DEF Newest
<1>12. downloading' \subseteq Repos \X Version
    BY <1>1 DEF TypeOK, Repos
<1> QED
    BY <1>1, <1>7, <1>10, <1>11, <1>12, FilesIInv

\* The task gives the directory up, with what is in it.
LEMMA LeaveDir ==
    ASSUME IInv, NEW i \in Import, Holds(i), NEW p \in {"ok", "failed"}, Go(i, p),
           p = "ok" => pc[i] = "end", UNCHANGED <<dir, disk>>,
           downloading' = downloading \ {Where(i)}
    PROVE  DirsInv'
<1> USE DEF IInv
<1>1. pc'[i] = p /\ \A j \in Import : j # i => pc'[j] = pc[j]
    BY GoMoves
<1>2. \A j \in Import : j # i /\ Holds(j) => Where(j) \in downloading'
    BY DEF DirsInv
<1>3. InDir(i)' = InDir(i) /\ pc[i] \notin {"none", "queued", "failed"}
    BY DEF InDir, Holds
<1>4. p = "ok" /\ InDir(i) < 0 =>
          \E j \in Import : /\ j # i /\ pc[j] \in {"clone", "failed"} /\ Where(j) = Where(i)
  <2>1. ASSUME p = "ok", InDir(i) < 0
        PROVE  \E j \in Import : pc[j] \in {"clone", "failed"} /\ Where(j) = Where(i)
      BY <2>1, <1>3, HasDir DEF DirsInv, InDir
  <2> QED
      BY <2>1
<1>5. p \notin Claimed /\ p \notin {"clone", "ask", "lookup", "make", "append", "publish"}
    BY DEF Claimed
<1> QED
    BY <1>1, <1>2, <1>3, <1>4, <1>5, DirsStep

\* git fails, or the build file is no good.
LEMMA FailIInv == ASSUME IInv, NEW i \in Import, Fail(i) PROVE IInv'
<1> USE DEF IInv
<1>1. /\ pc[i] \in {"clone", "ask"} /\ Go(i, "failed")
      /\ downloading' = downloading \ {Where(i)}
      /\ UNCHANGED <<order, version, requesters, built, processed, job, asked, idx, dir,
                     deps, builtFiles, uses, wanted, inTime, switched, hidden, torn, doubled>>
    BY DEF Fail, shared, modules, observed
<1>2. Holds(i)
    BY <1>1 DEF Holds
<1>3. pc'[i] = "failed" /\ \A j \in Import : j # i => pc'[j] = pc[j]
    BY <1>1, GoMoves
<1>4. downloading' \subseteq Repos \X Version
    BY <1>1 DEF TypeOK, Repos
<1>5. CASE disk' = disk
  <2>1. DirsInv'
      BY <1>1, <1>2, <1>5, LeaveDir
  <2>2. NewestInv'
      BY <1>1, <1>3, <1>5, NewestKept
  <2> QED
      BY <1>1, <1>4, <1>5, <2>1, <2>2, FilesIInv DEF TypeOK, Repos
<1>6. CASE pc[i] = "clone" /\ disk' = [disk EXCEPT ![Repo[i]][dir[i]] = 0]
  <2>1. 0 \in -MaxVersion .. MaxVersion
      BY ConstantsAssumption
  <2>2. /\ disk' \in [Repos -> [Version -> -MaxVersion .. MaxVersion]]
        /\ InDir(i)' = 0
        /\ \A r \in Repos, v \in Version : <<r, v>> # Where(i) => disk'[r][v] = disk[r][v]
      BY <1>1, <1>2, <1>6, <2>1, DiskWrite
  <2>3. \A j \in Import : j # i /\ Holds(j) => Where(j) \in downloading'
      BY <1>1, <1>2 DEF DirsInv
  <2>4. DirsInv'
      BY <1>1, <1>2, <1>3, <2>2, <2>3, DirsStep DEF Claimed
  <2>5. NewestInv'
    <3> SUFFICES ASSUME NEW j \in Import, Steady(j)' PROVE Newest(j)'
        BY DEF NewestInv
    <3>1. Newest(j)
        BY <1>1 DEF NewestInv, Steady
    <3>2. ASSUME NEW v \in Version PROVE disk'[Repo[j]][v] \in {0, v, -v}
      <4>1. CASE <<Repo[j], v>> # Where(i)
          BY <4>1, <2>2, <3>1 DEF Newest, Repos
      <4>2. CASE <<Repo[j], v>> = Where(i)
          BY <4>2, <1>1, <2>2 DEF Where, InDir
      <4> QED
          BY <4>1, <4>2
    <3> QED
        BY <3>1, <3>2, <1>1, <1>3 DEF Newest
  <2> QED
      BY <1>1, <1>4, <2>2, <2>4, <2>5, FilesIInv
<1> QED
    BY <1>5, <1>6 DEF Fail

\* There is no build file.
LEMMA NoBuildFileIInv == ASSUME IInv, NEW i \in Import, NoBuildFile(i) PROVE IInv'
<1> USE DEF IInv
<1>1. /\ pc[i] = "ask" /\ Go(i, "failed")
      /\ downloading' = downloading \ {Where(i)}
      /\ UNCHANGED <<order, version, requesters, built, processed, job, asked, idx, dir, disk,
                     deps, builtFiles, uses, wanted, inTime, switched, hidden, torn, doubled>>
    BY DEF NoBuildFile, shared, modules, observed
<1>2. pc'[i] = "failed" /\ \A j \in Import : j # i => pc'[j] = pc[j]
    BY <1>1, GoMoves
<1>3. DirsInv'
    BY <1>1, LeaveDir DEF Holds
<1>4. NewestInv'
    BY <1>1, <1>2, NewestKept
<1> QED
    BY <1>1, <1>3, <1>4, FilesIInv DEF TypeOK, Repos

\* DownloadGuard goes out of scope.
LEMMA ReleaseIInv == ASSUME IInv, NEW i \in Import, Release(i) PROVE IInv'
<1> USE DEF IInv
<1>1. /\ pc[i] = "end" /\ Go(i, "ok")
      /\ downloading' = downloading \ {Where(i)}
      /\ UNCHANGED <<order, version, requesters, built, processed, job, asked, idx, dir, disk,
                     deps, builtFiles, uses, wanted, inTime, switched, hidden, torn, doubled>>
    BY DEF Release, shared, modules, observed
<1>2. pc'[i] = "ok" /\ \A j \in Import : j # i => pc'[j] = pc[j]
    BY <1>1, GoMoves
<1>3. DirsInv'
    BY <1>1, LeaveDir DEF Holds
<1>4. NewestInv'
    BY <1>1, <1>2, NewestKept
<1> QED
    BY <1>1, <1>3, <1>4, FilesIInv DEF TypeOK, Repos

-----------------------------------------------------------------------------
\* create_module_for_dependency.

\* The directory stays the task's while it builds the module and gives it away.
LEMMA InsideDirs ==
    ASSUME TypeOK, DirsInv, NEW i \in Import,
           NEW p \in {"lookup", "make", "append", "publish", "serve", "end"},
           pc[i] \in {"ask", "lookup", "make", "append", "publish", "serve"}, Go(i, p),
           UNCHANGED <<dir, downloading, disk>>, InDir(i) > 0 \/ p = "end"
    PROVE  DirsInv'
<1>1. pc'[i] = p /\ \A j \in Import : j # i => pc'[j] = pc[j]
    BY GoMoves
<1>2. Holds(i) /\ pc[i] \notin {"none", "queued", "clone", "failed"} /\ p \in Claimed
    BY DEF Holds, Claimed
<1>3. InDir(i)' = InDir(i)
    BY DEF InDir
<1>4. InDir(i) < 0 => \E j \in Import : /\ j # i /\ pc[j] \in {"clone", "failed"}
                                        /\ Where(j) = Where(i)
  <2>1. ASSUME InDir(i) < 0
        PROVE  \E j \in Import : pc[j] \in {"clone", "failed"} /\ Where(j) = Where(i)
      BY <2>1, <1>2, HasDir DEF DirsInv, InDir
  <2> QED
      BY <2>1, <1>2
<1>5. \A j \in Import : Holds(j) => Where(j) \in downloading'
    BY DEF DirsInv
<1> QED
    BY <1>1, <1>2, <1>3, <1>4, <1>5, DirsStep

\* So nothing of the rest is lost by such a step, when it keeps what was asked for.
LEMMA InsideIInv ==
    ASSUME IInv, NEW i \in Import,
           NEW p \in {"lookup", "make", "append", "publish", "serve", "end"},
           pc[i] \in {"ask", "lookup", "make", "append", "publish", "serve"}, Go(i, p),
           UNCHANGED <<order, version, processed, job, dir, downloading, disk, wanted>>,
           InDir(i) > 0 \/ p = "end",
           TypeOK', ServedInv', NewestInv', LocalsInv'
    PROVE  IInv'
<1> USE DEF IInv
<1>1. pc'[i] = p /\ \A j \in Import : j # i => pc'[j] = pc[j]
    BY GoMoves
<1>2. OrderInv' /\ JobInv'
    BY <1>1, OrderKept, JobKept
<1>3. DirsInv'
    BY InsideDirs
<1> QED
    BY <1>2, <1>3

\* What builds a module before it is published: the loop's state, and nothing that
\* the other imports see.
LEMMA LoopIInv ==
    ASSUME IInv, NEW i \in Import, NEW p \in {"lookup", "make", "append", "publish"},
           pc[i] \in {"ask", "lookup", "make", "append"}, InDir(i) > 0, Go(i, p),
           UNCHANGED <<order, version, requesters, built, processed, job, asked, dir,
                       downloading, disk, deps, wanted, inTime, switched, hidden, torn>>,
           idx' \in [Import -> Nat \ {0}],
           builtFiles' \in [Local -> Import \cup {None}],
           uses' \in [Import -> [Local -> Import \cup {None}]],
           doubled' \subseteq Local,
           LocalsInv'
    PROVE  IInv'
<1> USE DEF IInv
<1>1. /\ pc' \in [Import -> {"none", "queued", "claim", "exists", "clone", "ask", "lookup",
                            "make", "append", "publish", "serve", "end", "ok", "failed"}]
      /\ pc'[i] = p /\ \A j \in Import : j # i => pc'[j] = pc[j]
    BY GoMoves
<1>2. TypeOK'
    BY <1>1 DEF TypeOK
<1>3. ServedInv'
    BY <1>1, ServedKept DEF Given, Served
<1>4. NewestInv'
    BY <1>1, NewestKept
<1> QED
    BY <1>2, <1>3, <1>4, InsideIInv

\* In the directory of a module that is being built there is a whole clone.
LEMMA WholeInside ==
    ASSUME IInv, NEW i \in Import, pc[i] \in {"lookup", "make", "append", "publish"}
    PROVE  InDir(i) > 0
    BY DEF IInv, DirsInv

\* The build file has been gone through, and the local modules are next.
LEMMA AskedForAllIInv == ASSUME IInv, NEW i \in Import, AskedForAll(i) PROVE IInv'
<1> USE DEF IInv
<1>1. /\ pc[i] = "ask" /\ InDir(i) > 0 /\ idx' = [idx EXCEPT ![i] = 1] /\ Go(i, "lookup")
      /\ UNCHANGED <<order, version, requesters, built, processed, job, asked, dir,
                     downloading, disk, deps, builtFiles, uses, wanted, inTime, switched,
                     hidden, torn, doubled>>
    BY DEF AskedForAll, shared, files, modules, observed
<1>2. pc'[i] = "lookup" /\ \A j \in Import : j # i => pc'[j] = pc[j]
    BY <1>1, GoMoves
<1>3. idx' \in [Import -> Nat \ {0}] /\ \A j \in Import : j # i => idx'[j] = idx[j]
    BY <1>1 DEF TypeOK
<1>4. LocalsInv'
    BY <1>1, <1>2, <1>3, LocalsKept
<1> QED
    BY <1>1, <1>3, <1>4, LoopIInv DEF TypeOK

\* A local module is among the dependencies.
LEMMA AppendLocalIInv == ASSUME IInv, NEW i \in Import, AppendLocal(i) PROVE IInv'
<1> USE DEF IInv
<1>1. /\ pc[i] = "append" /\ idx' = [idx EXCEPT ![i] = @ + 1] /\ Go(i, "lookup")
      /\ UNCHANGED <<order, version, requesters, built, processed, job, asked, dir,
                     downloading, disk, deps, builtFiles, uses, wanted, inTime, switched,
                     hidden, torn, doubled>>
    BY DEF AppendLocal, shared, files, modules, observed
<1>2. pc'[i] = "lookup" /\ \A j \in Import : j # i => pc'[j] = pc[j]
    BY <1>1, GoMoves
<1>3. idx' \in [Import -> Nat \ {0}] /\ \A j \in Import : j # i => idx'[j] = idx[j]
    BY <1>1, NextIdx
<1>4. LocalsInv'
    BY <1>1, <1>2, <1>3, LocalsKept
<1> QED
    BY <1>1, <1>3, <1>4, WholeInside, LoopIInv DEF TypeOK

\* The module is built.
LEMMA ModuleBuiltIInv == ASSUME IInv, NEW i \in Import, ModuleBuilt(i) PROVE IInv'
<1> USE DEF IInv
<1>1. /\ pc[i] = "lookup" /\ Go(i, "publish")
      /\ UNCHANGED <<order, version, requesters, built, processed, job, asked, idx, dir,
                     downloading, disk, deps, builtFiles, uses, wanted, inTime, switched,
                     hidden, torn, doubled>>
    BY DEF ModuleBuilt, shared, files, modules, observed
<1>2. pc'[i] = "publish" /\ \A j \in Import : j # i => pc'[j] = pc[j]
    BY <1>1, GoMoves
<1>3. LocalsInv'
    BY <1>1, <1>2, LocalsKept
<1> QED
    BY <1>1, <1>3, WholeInside, LoopIInv DEF TypeOK

\* The local module that i's loop is at.
LEMMA NextLocalType ==
    ASSUME TypeOK, NEW i \in Import, idx[i] <= Len(Uses[i])
    PROVE  NextLocal(i) \in Local
<1>1. idx[i] \in Nat \ {0} /\ Len(Uses[i]) \in Nat
    BY RequestTypes DEF TypeOK
<1>2. idx[i] \in 1 .. Len(Uses[i])
    BY <1>1
<1> QED
    BY <1>2, RequestTypes DEF NextLocal

\* A local module is looked up.
LEMMA LookUpLocalIInv == ASSUME IInv, NEW i \in Import, LookUpLocal(i) PROVE IInv'
<1> USE DEF IInv
<1>1. /\ pc[i] = "lookup" /\ idx[i] <= Len(Uses[i])
      /\ UNCHANGED <<order, version, requesters, built, processed, job, asked, idx, dir,
                     downloading, disk, deps, builtFiles, wanted, inTime, switched, hidden, torn>>
    BY DEF LookUpLocal, shared, files
<1>2. PICK l \in Local : l = NextLocal(i)
    BY <1>1, NextLocalType
<1>3. \A j \in Import : NextLocal(j)' = NextLocal(j)
    BY <1>1 DEF NextLocal
<1>4. CASE builtFiles[l] # None
  <2>1. uses' = [uses EXCEPT ![i][l] = builtFiles[l]] /\ Go(i, "append") /\ doubled' = doubled
      BY <1>2, <1>4 DEF LookUpLocal
  <2>2. pc'[i] = "append" /\ \A j \in Import : j # i => pc'[j] = pc[j]
      BY <2>1, GoMoves
  <2>3. /\ uses' \in [Import -> [Local -> Import \cup {None}]]
        /\ uses'[i][l] = builtFiles[l]
        /\ \A j \in Import, m \in Local : <<j, m>> # <<i, l>> => uses'[j][m] = uses[j][m]
    <3> DEFINE I == Import \cup {None}
               b == builtFiles[l]
    <3>1. uses \in [Import -> [Local -> I]] /\ b \in I
        BY DEF TypeOK
    <3>2. uses' = [uses EXCEPT ![i] = [uses[i] EXCEPT ![l] = b]]
        BY <2>1
    <3> HIDE DEF I, b
    <3>3. [uses[i] EXCEPT ![l] = b] \in [Local -> I]
        BY <3>1
    <3> QED
        BY <3>1, <3>2, <3>3 DEF I, b
  <2>4. \A j \in Import, m \in Local : Making(j, m)' <=> Making(j, m)
      BY <1>1, <1>3, <2>2 DEF Making
  <2>5. ASSUME NEW m \in Local \ doubled PROVE LocalInv(m)'
    <3>1. LocalInv(m)
        BY DEF LocalsInv
    <3>2. \A j \in Import : uses'[j][m] # None => uses'[j][m] = builtFiles[m]
        BY <3>1, <2>3 DEF LocalInv
    <3> QED
        BY <3>1, <3>2, <2>4, <1>1 DEF LocalInv
  <2>6. LocalsInv'
      BY <2>1, <2>2, <2>5, <1>1 DEF LocalsInv
  <2> QED
      BY <1>1, <2>1, <2>3, <2>6, WholeInside, LoopIInv DEF TypeOK
<1>5. CASE builtFiles[l] = None
  <2>1. /\ uses' = uses /\ Go(i, "make")
        /\ doubled' = IF \E j \in Import : pc[j] = "make" /\ NextLocal(j) = l
                      THEN doubled \cup {l} ELSE doubled
      BY <1>2, <1>5 DEF LookUpLocal
  <2>2. pc'[i] = "make" /\ \A j \in Import : j # i => pc'[j] = pc[j]
      BY <2>1, GoMoves
  <2>3. \A j \in Import, m \in Local : Making(j, m)' <=> Making(j, m) \/ (j = i /\ m = l)
      BY <1>1, <1>2, <1>3, <2>2 DEF Making
  <2>4. doubled' \subseteq Local /\ doubled \subseteq doubled'
      BY <2>1 DEF TypeOK
  <2>5. ASSUME NEW m \in Local \ doubled' PROVE LocalInv(m)'
    <3>1. LocalInv(m)
        BY <2>4 DEF LocalsInv
    <3>2. m = l => \A j \in Import : ~Making(j, m)
        BY <2>1, <2>5 DEF Making
    <3>3. \A j \in Import : Making(j, m)' => builtFiles[m] = None
        BY <3>1, <2>3, <1>5 DEF LocalInv
    <3>4. \A j, k \in Import : Making(j, m)' /\ Making(k, m)' => j = k
        BY <3>1, <3>2, <2>3 DEF LocalInv
    <3> QED
        BY <3>1, <3>3, <3>4, <2>1, <1>1 DEF LocalInv
  <2>6. LocalsInv'
      BY <2>2, <2>5, <1>1 DEF LocalsInv
  <2> QED
      BY <1>1, <2>1, <2>4, <2>6, WholeInside, LoopIInv DEF TypeOK
<1> QED
    BY <1>4, <1>5

\* Or built, and entered in built_files.
LEMMA BuildLocalIInv == ASSUME IInv, NEW i \in Import, BuildLocal(i) PROVE IInv'
<1> USE DEF IInv
<1>1. /\ pc[i] = "make" /\ Go(i, "append")
      /\ builtFiles' = [builtFiles EXCEPT ![NextLocal(i)] = IF @ = None THEN i ELSE @]
      /\ uses' = [uses EXCEPT ![i][NextLocal(i)] = i]
      /\ UNCHANGED <<order, version, requesters, built, processed, job, asked, idx, dir,
                     downloading, disk, deps, wanted, inTime, switched, hidden, torn, doubled>>
    BY DEF BuildLocal, shared, files, observed
<1>2. PICK l \in Local : l = NextLocal(i)
    BY <1>1, NextLocalType DEF LocalsInv
<1>3. pc'[i] = "append" /\ \A j \in Import : j # i => pc'[j] = pc[j]
    BY <1>1, GoMoves
<1>4. /\ builtFiles' \in [Local -> Import \cup {None}]
      /\ builtFiles[l] = None => builtFiles'[l] = i
      /\ \A m \in Local : m # l => builtFiles'[m] = builtFiles[m]
  <2>1. (IF builtFiles[l] = None THEN i ELSE builtFiles[l]) \in Import \cup {None}
      BY DEF TypeOK
  <2> QED
      BY <2>1, <1>1, <1>2 DEF TypeOK
<1>5. /\ uses' \in [Import -> [Local -> Import \cup {None}]]
      /\ uses'[i][l] = i
      /\ \A j \in Import, m \in Local : <<j, m>> # <<i, l>> => uses'[j][m] = uses[j][m]
  <2> DEFINE I == Import \cup {None}
  <2>1. uses \in [Import -> [Local -> I]] /\ i \in I
      BY DEF TypeOK
  <2>2. uses' = [uses EXCEPT ![i] = [uses[i] EXCEPT ![l] = i]]
      BY <1>1, <1>2
  <2> HIDE DEF I
  <2>3. [uses[i] EXCEPT ![l] = i] \in [Local -> I]
      BY <2>1
  <2> QED
      BY <2>1, <2>2, <2>3 DEF I
<1>6. \A j \in Import, m \in Local : Making(j, m)' <=> Making(j, m) /\ j # i
    BY <1>1, <1>3 DEF Making, NextLocal
<1>7. Making(i, l)
    BY <1>1, <1>2 DEF Making
<1>8. ASSUME NEW m \in Local \ doubled PROVE LocalInv(m)'
  <2>1. LocalInv(m)
      BY DEF LocalsInv
  <2>2. CASE m # l
    <3>1. builtFiles'[m] = builtFiles[m] /\ \A j \in Import : uses'[j][m] = uses[j][m]
        BY <2>2, <1>4, <1>5
    <3> QED
        BY <3>1, <2>1, <1>6 DEF LocalInv
  <2>3. CASE m = l
    <3>1. builtFiles[l] = None
        BY <2>1, <2>3, <1>7 DEF LocalInv
    <3>2. \A j \in Import : uses[j][l] = None
        BY <2>1, <2>3, <3>1 DEF LocalInv
    <3>3. \A j \in Import : uses'[j][l] # None => uses'[j][l] = builtFiles'[l]
        BY <3>1, <3>2, <1>4, <1>5
    <3>4. \A j \in Import : ~Making(j, l)'
        BY <2>1, <2>3, <1>6, <1>7 DEF LocalInv
    <3> QED
        BY <2>3, <3>3, <3>4 DEF LocalInv
  <2> QED
      BY <2>2, <2>3
<1>9. LocalsInv'
    BY <1>1, <1>3, <1>8 DEF LocalsInv
<1> QED
    BY <1>1, <1>4, <1>5, <1>9, WholeInside, LoopIInv DEF TypeOK

\* The build file of i asks for an import.
LEMMA AskForImportIInv == ASSUME IInv, NEW i \in Import, AskForImport(i) PROVE IInv'
<1> USE DEF IInv
<1>1. idx[i] \in 1 .. Len(Wants[i])
    BY RequestTypes DEF AskForImport, TypeOK
<1>2. PICK k \in Import, v \in Version : Wants[i][idx[i]] = <<k, v>>
    BY <1>1, RequestTypes
<1>3. /\ pc[i] = "ask" /\ AddRemoteImport(i, k, v) /\ idx' = [idx EXCEPT ![i] = @ + 1]
      /\ UNCHANGED <<processed, job, asked, pc, dir, downloading, disk, builtFiles, uses,
                     hidden, torn, doubled>>
    BY <1>2 DEF AskForImport, files
<1>4. i \in Requester
    BY DEF Requester
<1>5. idx' \in [Import -> Nat \ {0}] /\ \A j \in Import : j # i => idx'[j] = idx[j]
    BY <1>3, NextIdx
<1>6. TypeOK'
  <2>1. /\ order' \in Seq(Import)
        /\ version' \in [Import -> 0 .. MaxVersion]
        /\ requesters' \in [Import -> [Requester -> Nat]]
        /\ deps' \in [Requester -> [Import -> Nat]]
        /\ wanted' \in [Requester -> [Import -> Nat]]
        /\ inTime' \in [Import -> SUBSET Version]
        /\ switched' \subseteq Import
      BY <1>3, <1>4, AskTypes
  <2>2. built' = built
      BY <1>3 DEF AddRemoteImport
  <2> QED
      BY <2>1, <2>2, <1>3, <1>5 DEF TypeOK
<1>7. OrderInv'
    BY <1>3, <1>4, AskOrder
<1>8. JobInv'
    BY <1>3, JobKept
<1>9. DirsInv'
    BY <1>3 DEF DirsInv, Holds, Where, InDir
<1>10. ServedInv'
    BY <1>3, <1>4, AskServed DEF Given
<1>11. NewestInv'
    BY <1>3, <1>4, AskNewest
<1>12. LocalsInv'
    BY <1>3, <1>5, LocalsKept
<1> QED
    BY <1>6, <1>7, <1>8, <1>9, <1>10, <1>11, <1>12

\* Or for one whose built_module is being set, and loses it.
LEMMA AskWhilePublishedIInv ==
    ASSUME IInv, NEW i \in Import, AskWhilePublished(i) PROVE IInv'
<1> USE DEF IInv
<1>1. idx[i] \in 1 .. Len(Wants[i])
    BY RequestTypes DEF AskWhilePublished, TypeOK
<1>2. PICK k \in Import, v \in Version : Wants[i][idx[i]] = <<k, v>>
    BY <1>1, RequestTypes
<1>3. /\ pc[i] = "ask" /\ pc[k] = "publish" /\ AddRemoteImport(i, k, v) /\ Go(k, "serve")
      /\ idx' = [idx EXCEPT ![i] = @ + 1] /\ hidden' = hidden \cup {k}
      /\ UNCHANGED <<processed, job, asked, dir, downloading, disk, builtFiles, uses, torn, doubled>>
    BY <1>2 DEF AskWhilePublished, files
<1>4. i \in Requester
    BY DEF Requester
<1>5. idx' \in [Import -> Nat \ {0}] /\ \A j \in Import : j # i => idx'[j] = idx[j]
    BY <1>3, NextIdx
<1>6. /\ pc' \in [Import -> {"none", "queued", "claim", "exists", "clone", "ask", "lookup",
                            "make", "append", "publish", "serve", "end", "ok", "failed"}]
      /\ pc'[k] = "serve" /\ \A j \in Import : j # k => pc'[j] = pc[j]
    BY <1>3, GoMoves
<1>7. TypeOK'
  <2>1. /\ order' \in Seq(Import)
        /\ version' \in [Import -> 0 .. MaxVersion]
        /\ requesters' \in [Import -> [Requester -> Nat]]
        /\ deps' \in [Requester -> [Import -> Nat]]
        /\ wanted' \in [Requester -> [Import -> Nat]]
        /\ inTime' \in [Import -> SUBSET Version]
        /\ switched' \subseteq Import
      BY <1>3, <1>4, AskTypes
  <2>2. built' = built
      BY <1>3 DEF AddRemoteImport
  <2> QED
      BY <2>1, <2>2, <1>3, <1>5, <1>6 DEF TypeOK
<1>8. OrderInv'
    BY <1>3, <1>4, <1>6, AskOrder
<1>9. JobInv'
    BY <1>3, JobKept
<1>10. DirsInv'
    BY <1>3, WholeInside, InsideDirs
<1>11. ServedInv'
  <2>1. /\ hidden \subseteq hidden' /\ hidden' \subseteq Import
        /\ \A j \in Import \ hidden' : pc'[j] = pc[j]
      BY <1>3, <1>6 DEF TypeOK
  <2>2. \A j \in hidden' : Given(j) => Given(j)'
      BY <2>1, <1>3, <1>6 DEF Given
  <2> QED
      BY <2>1, <2>2, <1>3, <1>4, AskServed
<1>12. NewestInv'
    BY <1>3, <1>4, <1>6, AskNewest
<1>13. LocalsInv'
    BY <1>3, <1>5, <1>6, LocalsKept
<1> QED
    BY <1>7, <1>8, <1>9, <1>10, <1>11, <1>12, <1>13

\* built_module is set.
LEMMA PublishIInv == ASSUME IInv, NEW i \in Import, Publish(i) PROVE IInv'
<1> USE DEF IInv
<1>1. /\ pc[i] = "publish" /\ built' = [built EXCEPT ![i] = InDir(i)] /\ Go(i, "serve")
      /\ UNCHANGED <<order, version, requesters, processed, job, asked, idx, dir, downloading,
                     disk, deps, builtFiles, uses, wanted, inTime, switched, hidden, torn, doubled>>
    BY DEF Publish, files, modules, observed
<1>2. InDir(i) > 0
    BY <1>1, WholeInside
<1>3. InDir(i) \in 0 .. MaxVersion /\ InDir(i) # 0
  <2>1. Repo[i] \in Repos /\ dir[i] \in Version
      BY <1>1, HasDir
  <2>2. disk \in [Repos -> [Version -> -MaxVersion .. MaxVersion]]
      BY DEF TypeOK, Repos
  <2>3. InDir(i) \in -MaxVersion .. MaxVersion
      BY <2>1, <2>2 DEF InDir
  <2> QED
      BY <2>3, <1>2, ConstantsAssumption
<1>4. /\ pc' \in [Import -> {"none", "queued", "claim", "exists", "clone", "ask", "lookup",
                            "make", "append", "publish", "serve", "end", "ok", "failed"}]
      /\ pc'[i] = "serve" /\ \A j \in Import : j # i => pc'[j] = pc[j]
    BY <1>1, GoMoves
<1>5. /\ built' \in [Import -> 0 .. MaxVersion] /\ built'[i] = InDir(i)
      /\ \A j \in Import : j # i => built'[j] = built[j]
    BY <1>1, <1>3 DEF TypeOK
<1>6. TypeOK'
    BY <1>1, <1>4, <1>5 DEF TypeOK
<1>7. ServedInv'
  <2>1. \A j \in Import : Served(j)' <=> Served(j)
      BY <1>1, <1>4 DEF Served
  <2>2. \A j \in Import, r \in Requester : Counted(r, j)' <=> Counted(r, j)
      BY <2>1, <1>1 DEF Counted
  <2> QED
      BY <2>2, <1>1, <1>3, <1>4, <1>5 DEF ServedInv, Given
<1>8. NewestInv'
  <2> SUFFICES ASSUME NEW j \in Import, Steady(j)' PROVE Newest(j)'
      BY DEF NewestInv
  <2>1. Newest(j)
      BY <1>1 DEF NewestInv, Steady
  <2>2. j = i => InDir(i) = version[i]
    <3> SUFFICES ASSUME j = i PROVE InDir(i) = version[i]
        OBVIOUS
    <3>1. dir[i] = version[i] /\ dir[i] \in Version
        BY <2>1, <1>1, HasDir DEF Newest
    <3>2. InDir(i) \in {0, dir[i], -dir[i]} /\ dir[i] \in Nat
        BY <2>1, <3>1 DEF Newest, InDir, Version
    <3> QED
        BY <3>1, <3>2, <1>2
  <2> QED
      BY <2>1, <2>2, <1>1, <1>4, <1>5 DEF Newest
<1>9. LocalsInv'
    BY <1>1, <1>4, LocalsKept
<1> QED
    BY <1>1, <1>2, <1>6, <1>7, <1>8, <1>9, InsideIInv

\* All requesters get the module.
LEMMA ServeIInv == ASSUME IInv, NEW i \in Import, Serve(i) PROVE IInv'
<1> USE DEF IInv
<1>1. /\ pc[i] = "serve" /\ Go(i, "end") /\ torn' = torn \cup Torn(i)
      /\ UNCHANGED <<order, version, requesters, built, processed, job, asked, idx, dir,
                     downloading, disk, builtFiles, uses, wanted, inTime, switched, hidden, doubled>>
    BY DEF Serve, shared, files
<1>2. PICK lost \in SUBSET Torn(i) :
          deps' = [r \in Requester |->
                      IF r \in lost THEN deps[r]
                      ELSE [deps[r] EXCEPT ![i] = @ + requesters[i][r]]]
    BY DEF Serve
<1>3. /\ pc' \in [Import -> {"none", "queued", "claim", "exists", "clone", "ask", "lookup",
                            "make", "append", "publish", "serve", "end", "ok", "failed"}]
      /\ pc'[i] = "end" /\ \A j \in Import : j # i => pc'[j] = pc[j]
    BY <1>1, GoMoves
<1>4. ASSUME NEW r \in Requester
      PROVE  /\ deps[r] \in [Import -> Nat] /\ deps[r][i] \in Nat /\ requesters[i][r] \in Nat
             /\ deps'[r] \in [Import -> Nat]
             /\ r \notin lost => deps'[r][i] = deps[r][i] + requesters[i][r]
             /\ \A j \in Import : j # i => deps'[r][j] = deps[r][j]
  <2>1. deps[r] \in [Import -> Nat] /\ deps[r][i] \in Nat /\ requesters[i][r] \in Nat
      BY DEF TypeOK
  <2>2. deps'[r] = IF r \in lost THEN deps[r] ELSE [deps[r] EXCEPT ![i] = @ + requesters[i][r]]
      BY <1>2
  <2>3. deps[r][i] + requesters[i][r] \in Nat
      BY <2>1
  <2>4. CASE r \in lost
      BY <2>1, <2>2, <2>4
  <2>5. CASE r \notin lost
      BY <2>1, <2>2, <2>3, <2>5
  <2> QED
      BY <2>1, <2>4, <2>5
<1>5. deps' \in [Requester -> [Import -> Nat]]
    BY <1>2, <1>4
<1>6. Torn(i) \subseteq Import
    BY DEF Torn, Appending
<1>7. TypeOK'
    BY <1>1, <1>3, <1>5, <1>6 DEF TypeOK
<1>8. ServedInv'
  <2>1. ASSUME NEW j \in Import \ hidden, NEW r \in Requester \ torn' PROVE Counted(r, j)'
    <3>1. Counted(r, j) /\ r \notin lost
        BY <1>1, <1>2 DEF ServedInv
    <3>2. CASE j = i
        BY <3>1, <3>2, <1>1, <1>3, <1>4 DEF Counted, Served
    <3>3. CASE j # i
        BY <3>1, <3>3, <1>1, <1>3, <1>4 DEF Counted, Served
    <3> QED
        BY <3>2, <3>3
  <2>2. \A j \in Import : Given(j)' <=> Given(j)
      BY <1>1, <1>3 DEF Given
  <2> QED
      BY <2>1, <2>2, <1>1 DEF ServedInv
<1>9. NewestInv'
    BY <1>1, <1>3, NewestKept
<1>10. LocalsInv'
    BY <1>1, <1>3, LocalsKept
<1> QED
    BY <1>1, <1>7, <1>8, <1>9, <1>10, InsideIInv

-----------------------------------------------------------------------------
\* Every step preserves the invariant.
LEMMA StepIInv == IInv /\ [Next]_vars => IInv'
<1> SUFFICES ASSUME IInv, [Next]_vars PROVE IInv'
    OBVIOUS
<1>1. CASE Main
    BY <1>1, AskForRootIInv, RunJobIInv, BeginWaveIInv, EndIInv DEF Main
<1>2. ASSUME NEW i \in Import, Task(i) PROVE IInv'
    BY <1>2, TakeTaskIInv, ClaimIInv, LookAtDirIInv, CloneIInv, NoBuildFileIInv,
       AskForImportIInv, AskWhilePublishedIInv, AskedForAllIInv, LookUpLocalIInv,
       BuildLocalIInv, AppendLocalIInv, ModuleBuiltIInv, PublishIInv, ServeIInv, ReleaseIInv
    DEF Task
<1>3. ASSUME NEW i \in Import, Fail(i) PROVE IInv'
    BY <1>3, FailIInv
<1>4. CASE UNCHANGED vars
  <2> USE DEF IInv
  <2>1. UNCHANGED <<order, version, requesters, built, processed, job, asked, pc, idx, dir,
                    downloading, disk, deps, builtFiles, uses, wanted, inTime, switched,
                    hidden, torn, doubled>>
      BY <1>4 DEF vars, shared, tasks, files, modules, observed
  <2>2. TypeOK' /\ OrderInv' /\ JobInv'
      BY <2>1 DEF TypeOK, OrderInv, JobInv
  <2>3. DirsInv'
      BY <2>1 DEF DirsInv, Holds, Where, InDir
  <2>4. ServedInv'
      BY <2>1, ServedKept DEF Given, Served
  <2>5. NewestInv' /\ LocalsInv'
      BY <2>1, NewestKept, LocalsKept
  <2> QED
      BY <2>2, <2>3, <2>4, <2>5
<1> QED
    BY <1>1, <1>2, <1>3, <1>4 DEF Next

\* IInv is an invariant: the theorem the others come from.
THEOREM Invariance == Spec => []IInv
    BY InitIInv, StepIInv, PTL DEF Spec

\* Every reachable state has the declared types.
THEOREM TypeCorrect == Spec => []TypeOK
<1>1. IInv => TypeOK
    BY DEF IInv
<1> QED
    BY <1>1, Invariance, PTL

\* A job that succeeds has given every requester what it asked for, as often as it
\* asked, except where two threads wrote a vector or built_module was lost.
THEOREM RequestsServedHolds == Spec => []RequestsServed
<1>1. ASSUME IInv PROVE RequestsServed
  <2> SUFFICES ASSUME job = "success", NEW r \in Requester \ torn, NEW i \in Import \ hidden
               PROVE  deps[r][i] = wanted[r][i]
      BY DEF RequestsServed
  <2> USE <1>1 DEF IInv
  <2>1. Counted(r, i) /\ pc[i] \in {"none", "ok"} /\ processed = Len(order)
      BY DEF ServedInv, JobInv
  <2>2. deps[r][i] \in Nat /\ requesters[i][r] \in Nat
      BY DEF TypeOK
  <2>3. CASE pc[i] = "ok"
      BY <2>1, <2>3 DEF Counted, Served
  <2>4. CASE pc[i] = "none"
    <3>1. \A n \in 1 .. Len(order) : order[n] # i
      <4>1. \A n \in 1 .. Len(order) : ~(n > processed)
          BY <2>1, LenProperties DEF TypeOK
      <4> QED
          BY <4>1, <2>4 DEF OrderInv
    <3>2. wanted[r][i] = 0
        BY <3>1 DEF OrderInv
    <3> QED
        BY <3>2, <2>1, <2>2, <2>4 DEF Counted, Served
  <2> QED
      BY <2>1, <2>3, <2>4
<1> QED
    BY <1>1, Invariance, PTL

\* A module is built from a whole clone, or the job is failing over that directory.
THEOREM WholeClonesHolds == Spec => []WholeClones
<1>1. ASSUME IInv PROVE WholeClones
  <2> SUFFICES ASSUME NEW i \in Import,
                      pc[i] \in {"ask", "lookup", "make", "append", "publish"},
                      ~(InDir(i) > 0)
               PROVE  \E j \in Import : pc[j] = "failed" /\ Where(j) = Where(i)
      BY DEF WholeClones
  <2> USE <1>1 DEF IInv
  <2>1. pc[i] = "ask" /\ InDir(i) # 0
      BY DEF DirsInv
  <2>2. Repo[i] \in Repos /\ dir[i] \in Version /\ Where(i) = <<Repo[i], dir[i]>>
      BY <2>1, HasDir
  <2>3. InDir(i) < 0
    <3>1. disk \in [Repos -> [Version -> -MaxVersion .. MaxVersion]]
        BY DEF TypeOK, Repos
    <3>2. InDir(i) \in -MaxVersion .. MaxVersion
        BY <2>2, <3>1 DEF InDir
    <3> QED
        BY <2>1, <3>2, ConstantsAssumption
  <2>4. PICK j \in Import : pc[j] \in {"clone", "failed"} /\ Where(j) = Where(i)
      BY <2>2, <2>3 DEF DirsInv, InDir
  <2>5. pc[j] # "clone"
      BY <2>1, <2>4 DEF DirsInv, Holds
  <2> QED
      BY <2>4, <2>5
<1> QED
    BY <1>1, Invariance, PTL

\* An import is built from the newest version that was asked for before its clone.
THEOREM NewestInTimeHolds == Spec => []NewestInTime
<1>1. ASSUME IInv PROVE NewestInTime
  <2> SUFFICES ASSUME NEW i \in Import, built[i] # 0, Steady(i)
               PROVE  built[i] \in inTime[i] /\ \A v \in inTime[i] : v <= built[i]
      BY DEF NewestInTime, Steady
  <2>1. Newest(i)
      BY <1>1 DEF IInv, NewestInv
  <2> QED
      BY <2>1 DEF Newest
<1> QED
    BY <1>1, Invariance, PTL

\* Two instances of a local module are in use only when two threads built it at a time.
THEOREM DoubledOnlyByRaceHolds == Spec => []DoubledOnlyByRace
<1>1. ASSUME IInv PROVE DoubledOnlyByRace
  <2> SUFFICES ASSUME NEW i \in Import, NEW j \in Import, NEW l \in Local \ doubled,
                      {uses[i][l], uses[j][l]} \subseteq Import
               PROVE  uses[i][l] = uses[j][l]
      BY DEF DoubledOnlyByRace
  <2>1. uses[i][l] # None /\ uses[j][l] # None
      BY ConstantsAssumption
  <2> QED
      BY <2>1, <1>1 DEF IInv, LocalsInv, LocalInv
<1> QED
    BY <1>1, Invariance, PTL
================================================================================
