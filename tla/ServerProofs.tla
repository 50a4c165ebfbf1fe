----------------------------- MODULE ServerProofs -----------------------------
(***************************************************************************)
(* What holds of the language server, for every value of the constants: of *)
(* the builds it starts in child processes (ChildBuild), and of the trees  *)
(* and tokens a request relies on (Workspace).                             *)
(***************************************************************************)
EXTENDS ChildBuild, Workspace, TLAPS, SequenceTheorems

-----------------------------------------------------------------------------
(* Builds in child processes: ChildBuild                                   *)

\* The server has a handle of childDone.
HasHandle == {"waiting", "timedout", "heard", "collecting", "cleanup"}

\* The child of l starts with the launch, and the server has a childDone from
\* "waiting" on; only on POSIX are names unlinked before they are created, and
\* does a launch give up.
Started(l) ==
  /\ parent[l] = "idle" <=> child[l] = "none"
  /\ parent[l] = "idle" => shm[l] = "none" /\ done[l] = "none" /\ posted[l] = {}
  /\ parent[l] \in {"idle", "launched", "unlinked", "aborting"} => mine[l] = "none"
  /\ parent[l] \in HasHandle \cup {"read", "filling"} => mine[l] # "none"
  /\ parent[l] \in {"unlinked", "aborting"} => Posix
  /\ child[l] \in {"sizing", "unlinking"} => Posix
  /\ parent[l] = "returned" /\ mine[l] = "none" => ~Alive(l)

\* The server kills the child it did not hear, and that one only.
KillsUnheard(l) ==
  /\ parent[l] \in {"idle", "launched", "unlinked", "waiting", "heard", "collecting"} =>
        ~killed[l] /\ reason[l] = "none"
  /\ parent[l] = "timedout" => killed[l] /\ reason[l] = "TIMEOUT"
  /\ parent[l] \in {"cleanup", "read", "filling", "returned"} /\ mine[l] # "none" =>
        \/ reason[l] = "TIMEOUT" /\ killed[l]
        \/ reason[l] = "SUCCESS" /\ ~killed[l] /\ payload[l] = "whole" /\ child[l] = "exited"
  /\ child[l] = "dead" => killed[l]

\* The child is let go by the server that has read its answer.
AckAfterAnswer(l) ==
  /\ parent[l] \in {"idle", "launched", "unlinked", "aborting", "waiting", "timedout", "heard"} =>
        ~ack[l].posted /\ child[l] \notin {"leaving", "exited"}
  /\ ~Posix /\ parent[l] \in {"launched", "waiting", "heard", "collecting"} => ack[l].named
  /\ parent[l] \in {"read", "filling", "returned"} => ~ack[l].named

\* On POSIX the two sides have a childDone each: the server hears nobody.
PosixDeaf(l) ==
  Posix => /\ mine[l] \in {"none", "server's"} /\ posted[l] \subseteq {"child's"}
           /\ parent[l] \notin {"heard", "collecting"}
           /\ reason[l] \notin {"SUCCESS", "CRASH"}

\* On Windows, where they share it, what is posted is of a child that has
\* written its answer, and it stays there until the child ends.
HeardIsThere(l) ==
  ~Posix =>
    /\ child[l] \in {"naming", "opening", "waiting", "leaving"} => shm[l] = "whole"
    /\ posted[l] # {} =>
          child[l] \in {"opening", "waiting", "leaving", "failed", "exited", "dead"}
    /\ posted[l] # {} /\ parent[l] \in {"launched", "waiting"} => child[l] # "failed"
    /\ parent[l] = "heard" => child[l] \in {"opening", "waiting"}
    /\ parent[l] = "collecting" =>
          child[l] \in {"opening", "waiting", "leaving", "exited"} /\ payload[l] = "whole"

\* Names that lead to something: on Windows an object goes with its last handle,
\* on POSIX the server takes the names away when the child has ended.
NamesHeld(l) ==
  /\ ~Posix /\ ~Alive(l) => shm[l] = "none" /\ (parent[l] \notin HasHandle => done[l] = "none")
  /\ Posix /\ parent[l] \in {"cleanup", "read", "filling", "returned"} => ~Alive(l)
  /\ Posix /\ parent[l] \in {"read", "filling", "returned"} /\ mine[l] # "none" =>
        shm[l] = "none" /\ done[l] = "none"

\* The invariant of one launch.
LaunchInv(l) ==
  /\ Started(l) /\ KillsUnheard(l) /\ AckAfterAnswer(l)
  /\ PosixDeaf(l) /\ HeardIsThere(l) /\ NamesHeld(l)

\* While launches have not overlapped, the context is of one build, or empty
\* between the clearing and the filling.
ContextInv ==
  /\ \A l \in Launch : status[l] # "none" => parent[l] = "returned"
  /\ ~overlapped =>
       /\ \A l, m \in UnderWay : l = m
       /\ (\E l \in Launch : parent[l] = "filling") => context = {}
       /\ (\A l \in Launch : parent[l] # "filling") =>
            \/ context = {"before"}
            \/ \E l \in Launch : status[l] = "built" /\ context = {l}
            \/ context = {} /\ \E l \in Launch : status[l] = "threw"

\* The inductive invariant: every launch by itself, and the context they share.
IInv ==
  /\ TypeOK
  /\ \A l \in Launch : LaunchInv(l)
  /\ ContextInv

-----------------------------------------------------------------------------
\* Nothing of m's changes.
Same(m) ==
  /\ parent'[m] = parent[m] /\ child'[m] = child[m] /\ killed'[m] = killed[m]
  /\ shm'[m] = shm[m] /\ done'[m] = done[m] /\ mine'[m] = mine[m]
  /\ posted'[m] = posted[m] /\ ack'[m] = ack[m] /\ payload'[m] = payload[m]
  /\ reason'[m] = reason[m]

\* A step of l leaves the other launches alone.
OnlyOf(l) == UNCHANGED platform /\ \A m \in Launch : m # l => Same(m)

\* What is not touched keeps its invariant.
LEMMA SameKeeps ==
  ASSUME NEW m \in Launch, LaunchInv(m), Same(m), UNCHANGED platform PROVE LaunchInv(m)'
  BY DEF LaunchInv, Same, Started, KillsUnheard, AckAfterAnswer, PosixDeaf, HeardIsThere,
         NamesHeld, Alive, Posix

\* One of the two marks of parentAck is set or cleared.
LEMMA AckMarked ==
  ASSUME NEW f \in [Launch -> [named : BOOLEAN, posted : BOOLEAN]],
         NEW l \in Launch, NEW b \in BOOLEAN
  PROVE  /\ [f EXCEPT ![l].named = b] \in [Launch -> [named : BOOLEAN, posted : BOOLEAN]]
         /\ [f EXCEPT ![l].posted = b] \in [Launch -> [named : BOOLEAN, posted : BOOLEAN]]
  OBVIOUS

\* The server creates parentAck and launches the child.
LEMMA StartLaunch ==
  ASSUME TypeOK, NEW l \in Launch, LaunchInv(l), Start(l)
  PROVE  TypeOK' /\ OnlyOf(l) /\ LaunchInv(l)'
<1>1. TypeOK'
  <2>1. ack' \in [Launch -> [named : BOOLEAN, posted : BOOLEAN]]
      BY AckMarked DEF TypeOK, Start
  <2> QED
      BY <2>1 DEF TypeOK, Start, Parent, ParentStates, ChildStates
<1>2. OnlyOf(l)
    BY DEF OnlyOf, Same, Start, Parent
<1>3. Started(l)'
    BY DEF TypeOK, LaunchInv, Started, HasHandle, Start, Parent
<1>4. KillsUnheard(l)'
    BY DEF LaunchInv, KillsUnheard, Start, Parent
<1>5. AckAfterAnswer(l)'
    BY DEF TypeOK, LaunchInv, AckAfterAnswer, Start, Parent
<1>6. PosixDeaf(l)'
    BY DEF LaunchInv, PosixDeaf, Posix, Start, Parent
<1>7. HeardIsThere(l)'
    BY DEF LaunchInv, Started, HeardIsThere, Start, Parent
<1>8. NamesHeld(l)'
    BY DEF LaunchInv, HasHandle, NamesHeld, Alive, Posix, Start, Parent
<1> QED
    BY <1>1, <1>2, <1>3, <1>4, <1>5, <1>6, <1>7, <1>8 DEF LaunchInv

\* sem_unlink in the server.
LEMMA UnlinkDoneLaunch ==
  ASSUME TypeOK, NEW l \in Launch, LaunchInv(l), UnlinkDone(l)
  PROVE  TypeOK' /\ OnlyOf(l) /\ LaunchInv(l)'
<1>1. TypeOK'
    BY DEF TypeOK, UnlinkDone, Parent, ParentStates
<1>2. OnlyOf(l)
    BY DEF OnlyOf, Same, UnlinkDone, Parent
<1>3. Started(l)'
    BY DEF LaunchInv, Started, HasHandle, Posix, UnlinkDone, Parent
<1>4. KillsUnheard(l)'
    BY DEF LaunchInv, KillsUnheard, UnlinkDone, Parent
<1>5. AckAfterAnswer(l)'
    BY DEF LaunchInv, AckAfterAnswer, Posix, UnlinkDone, Parent
<1>6. PosixDeaf(l)'
    BY DEF LaunchInv, PosixDeaf, UnlinkDone, Parent
<1>7. HeardIsThere(l)'
    BY DEF HeardIsThere, Posix, UnlinkDone
<1>8. NamesHeld(l)'
    BY DEF NamesHeld, Posix, UnlinkDone, Parent
<1> QED
    BY <1>1, <1>2, <1>3, <1>4, <1>5, <1>6, <1>7, <1>8 DEF LaunchInv

\* childDone is created, or opened, by the server.
LEMMA CreateDoneLaunch ==
  ASSUME TypeOK, NEW l \in Launch, LaunchInv(l), CreateDone(l)
  PROVE  TypeOK' /\ OnlyOf(l) /\ LaunchInv(l)'
<1>1. TypeOK'
    BY DEF TypeOK, CreateDone, Parent, CreateOrOpen, ParentStates, Contents
<1>2. OnlyOf(l)
    BY DEF TypeOK, OnlyOf, Same, CreateDone, Parent
<1>3. Started(l)'
    BY DEF TypeOK, LaunchInv, Started, Posix, CreateDone, Parent, CreateOrOpen
<1>4. KillsUnheard(l)'
    BY DEF TypeOK, LaunchInv, KillsUnheard, CreateDone, Parent
<1>5. AckAfterAnswer(l)'
    BY DEF TypeOK, LaunchInv, AckAfterAnswer, Posix, CreateDone, Parent
<1>6. PosixDeaf(l)'
    BY DEF TypeOK, LaunchInv, PosixDeaf, Posix, CreateDone, Parent, CreateOrOpen
<1>7. HeardIsThere(l)'
    BY DEF TypeOK, LaunchInv, HeardIsThere, Posix, CreateDone, Parent
<1>8. NamesHeld(l)'
    BY DEF TypeOK, LaunchInv, HasHandle, NamesHeld, Alive, Posix, CreateDone, Parent
<1> QED
    BY <1>1, <1>2, <1>3, <1>4, <1>5, <1>6, <1>7, <1>8 DEF LaunchInv

\* The child was quicker to create childDone: the server kills it.
LEMMA CreateDoneFailsLaunch ==
  ASSUME TypeOK, NEW l \in Launch, LaunchInv(l), CreateDoneFails(l)
  PROVE  TypeOK' /\ OnlyOf(l) /\ LaunchInv(l)'
<1>1. TypeOK'
    BY DEF TypeOK, CreateDoneFails, Parent, ParentStates
<1>2. OnlyOf(l)
    BY DEF OnlyOf, Same, CreateDoneFails, Parent
<1>3. Started(l)'
    BY DEF LaunchInv, Started, HasHandle, Posix, CreateDoneFails, Parent
<1>4. KillsUnheard(l)'
    BY DEF TypeOK, KillsUnheard, CreateDoneFails, Parent
<1>5. AckAfterAnswer(l)'
    BY DEF LaunchInv, AckAfterAnswer, CreateDoneFails, Parent
<1>6. PosixDeaf(l)'
    BY DEF LaunchInv, PosixDeaf, CreateDoneFails, Parent
<1>7. HeardIsThere(l)'
    BY DEF HeardIsThere, Posix, CreateDoneFails
<1>8. NamesHeld(l)'
    BY DEF NamesHeld, Posix, CreateDoneFails, Parent
<1> QED
    BY <1>1, <1>2, <1>3, <1>4, <1>5, <1>6, <1>7, <1>8 DEF LaunchInv

\* And returns when it has ended.
LEMMA AbortLaunch ==
  ASSUME TypeOK, NEW l \in Launch, LaunchInv(l), Abort(l)
  PROVE  TypeOK' /\ OnlyOf(l) /\ LaunchInv(l)'
<1>1. TypeOK'
  <2>1. ack' \in [Launch -> [named : BOOLEAN, posted : BOOLEAN]]
      BY AckMarked DEF TypeOK, Abort
  <2> QED
      BY <2>1 DEF TypeOK, Abort, Parent, ParentStates
<1>2. OnlyOf(l)
    BY DEF OnlyOf, Same, Abort, Parent
<1>3. Started(l)'
    BY DEF LaunchInv, Started, HasHandle, Alive, Posix, Abort, Parent
<1>4. KillsUnheard(l)'
    BY DEF LaunchInv, Started, KillsUnheard, Abort, Parent
<1>5. AckAfterAnswer(l)'
    BY DEF TypeOK, AckAfterAnswer, Abort, Parent
<1>6. PosixDeaf(l)'
    BY DEF LaunchInv, PosixDeaf, Posix, Abort, Parent
<1>7. HeardIsThere(l)'
    BY DEF LaunchInv, HeardIsThere, Posix, Abort, Parent
<1>8. NamesHeld(l)'
    BY DEF LaunchInv, Started, NamesHeld, Alive, Posix, Abort, Parent
<1> QED
    BY <1>1, <1>2, <1>3, <1>4, <1>5, <1>6, <1>7, <1>8 DEF LaunchInv

\* The wait for childDone ends.
LEMMA HearChildLaunch ==
  ASSUME TypeOK, NEW l \in Launch, LaunchInv(l), HearChild(l)
  PROVE  TypeOK' /\ OnlyOf(l) /\ LaunchInv(l)'
<1>1. TypeOK'
    BY DEF TypeOK, HearChild, Parent, ParentStates
<1>2. OnlyOf(l)
    BY DEF OnlyOf, Same, HearChild, Parent
<1>3. Started(l)'
    BY DEF LaunchInv, Started, HasHandle, Posix, HearChild, Parent
<1>4. KillsUnheard(l)'
    BY DEF LaunchInv, KillsUnheard, HearChild, Parent
<1>5. AckAfterAnswer(l)'
    BY DEF LaunchInv, AckAfterAnswer, Posix, HearChild, Parent
<1>6. PosixDeaf(l)'
    BY DEF LaunchInv, PosixDeaf, Posix, HearChild
<1>7. HeardIsThere(l)'
    BY DEF LaunchInv, HeardIsThere, KillsUnheard, AckAfterAnswer, Posix, HearChild, Parent
<1>8. NamesHeld(l)'
    BY DEF LaunchInv, HasHandle, NamesHeld, Alive, Posix, HearChild, Parent
<1> QED
    BY <1>1, <1>2, <1>3, <1>4, <1>5, <1>6, <1>7, <1>8 DEF LaunchInv

\* Ten seconds are over: the child is killed.
LEMMA TimeOutLaunch ==
  ASSUME TypeOK, NEW l \in Launch, LaunchInv(l), TimeOut(l)
  PROVE  TypeOK' /\ OnlyOf(l) /\ LaunchInv(l)'
<1>1. TypeOK'
    BY DEF TypeOK, TimeOut, Parent, ParentStates
<1>2. OnlyOf(l)
    BY DEF OnlyOf, Same, TimeOut, Parent
<1>3. Started(l)'
    BY DEF LaunchInv, Started, HasHandle, Posix, TimeOut, Parent
<1>4. KillsUnheard(l)'
    BY DEF TypeOK, KillsUnheard, TimeOut, Parent
<1>5. AckAfterAnswer(l)'
    BY DEF LaunchInv, AckAfterAnswer, Posix, TimeOut, Parent
<1>6. PosixDeaf(l)'
    BY DEF LaunchInv, PosixDeaf, Posix, TimeOut, Parent
<1>7. HeardIsThere(l)'
    BY DEF LaunchInv, HeardIsThere, Posix, TimeOut, Parent
<1>8. NamesHeld(l)'
    BY DEF LaunchInv, HasHandle, NamesHeld, Alive, Posix, TimeOut, Parent
<1> QED
    BY <1>1, <1>2, <1>3, <1>4, <1>5, <1>6, <1>7, <1>8 DEF LaunchInv

\* parent_read_shared_memory after a time-out.
LEMMA ReadAfterTimeOutLaunch ==
  ASSUME TypeOK, NEW l \in Launch, LaunchInv(l), ReadAfterTimeOut(l)
  PROVE  TypeOK' /\ OnlyOf(l) /\ LaunchInv(l)'
<1>1. TypeOK'
  <2>1. ack' \in [Launch -> [named : BOOLEAN, posted : BOOLEAN]]
      BY AckMarked DEF TypeOK, ReadAfterTimeOut
  <2> QED
      BY <2>1 DEF TypeOK, ReadAfterTimeOut, Parent, ReadShm, WhatIsRead, BusError, ParentStates
<1>2. OnlyOf(l)
    BY DEF OnlyOf, Same, ReadAfterTimeOut, Parent, ReadShm
<1>3. Started(l)'
    BY DEF LaunchInv, Started, HasHandle, Posix, ReadAfterTimeOut, Parent, ReadShm
<1>4. KillsUnheard(l)'
    BY DEF LaunchInv, KillsUnheard, ReadAfterTimeOut, Parent, ReadShm
<1>5. AckAfterAnswer(l)'
    BY DEF TypeOK, AckAfterAnswer, ReadAfterTimeOut, Parent
<1>6. PosixDeaf(l)'
    BY DEF LaunchInv, PosixDeaf, Posix, ReadAfterTimeOut, Parent, ReadShm
<1>7. HeardIsThere(l)'
    BY DEF LaunchInv, HeardIsThere, Posix, ReadAfterTimeOut, Parent, ReadShm
<1>8. NamesHeld(l)'
    BY DEF LaunchInv, HasHandle, NamesHeld, Alive, Posix, ReadAfterTimeOut, Parent, ReadShm
<1> QED
    BY <1>1, <1>2, <1>3, <1>4, <1>5, <1>6, <1>7, <1>8 DEF LaunchInv

\* parent_read_shared_memory after childDone.
LEMMA ReadAnswerLaunch ==
  ASSUME TypeOK, NEW l \in Launch, LaunchInv(l), ReadAnswer(l)
  PROVE  TypeOK' /\ OnlyOf(l) /\ LaunchInv(l)'
<1>1. TypeOK'
  <2>1. ack' \in [Launch -> [named : BOOLEAN, posted : BOOLEAN]]
      BY AckMarked DEF TypeOK, ReadAnswer
  <2> QED
      BY <2>1 DEF TypeOK, ReadAnswer, Parent, ReadShm, WhatIsRead, BusError, ParentStates
<1>2. OnlyOf(l)
    BY DEF OnlyOf, Same, ReadAnswer, Parent, ReadShm
<1>3. Started(l)'
    BY DEF LaunchInv, Started, HasHandle, Posix, ReadAnswer, Parent, ReadShm
<1>4. KillsUnheard(l)'
    BY DEF LaunchInv, KillsUnheard, ReadAnswer, Parent, ReadShm
<1>5. AckAfterAnswer(l)'
    BY DEF TypeOK, LaunchInv, AckAfterAnswer, Posix, ReadAnswer, Parent, ReadShm
<1>6. PosixDeaf(l)'
    BY DEF LaunchInv, PosixDeaf, Posix, ReadAnswer, Parent, ReadShm
<1>7. HeardIsThere(l)'
    BY DEF TypeOK, LaunchInv, HeardIsThere, Posix, ReadAnswer, Parent, ReadShm, WhatIsRead
<1>8. NamesHeld(l)'
    BY DEF LaunchInv, HasHandle, NamesHeld, Alive, Posix, ReadAnswer, Parent, ReadShm
<1> QED
    BY <1>1, <1>2, <1>3, <1>4, <1>5, <1>6, <1>7, <1>8 DEF LaunchInv

\* waitpid or WaitForSingleObject on the child.
LEMMA CollectChildLaunch ==
  ASSUME TypeOK, NEW l \in Launch, LaunchInv(l), CollectChild(l)
  PROVE  TypeOK' /\ OnlyOf(l) /\ LaunchInv(l)'
<1>1. TypeOK'
    BY DEF TypeOK, CollectChild, Parent, ParentStates
<1>2. OnlyOf(l)
    BY DEF OnlyOf, Same, CollectChild, Parent
<1>3. Started(l)'
    BY DEF LaunchInv, Started, HasHandle, Posix, CollectChild, Parent
<1>4. KillsUnheard(l)'
    BY DEF TypeOK, LaunchInv, PosixDeaf, HeardIsThere, KillsUnheard, Alive, CollectChild, Parent
<1>5. AckAfterAnswer(l)'
    BY DEF LaunchInv, AckAfterAnswer, Posix, CollectChild, Parent
<1>6. PosixDeaf(l)'
    BY DEF LaunchInv, PosixDeaf, Posix, CollectChild, Parent
<1>7. HeardIsThere(l)'
    BY DEF LaunchInv, HeardIsThere, Posix, CollectChild, Parent
<1>8. NamesHeld(l)'
    BY DEF LaunchInv, HasHandle, NamesHeld, Alive, Posix, CollectChild, Parent
<1> QED
    BY <1>1, <1>2, <1>3, <1>4, <1>5, <1>6, <1>7, <1>8 DEF LaunchInv

\* The names go, or the handles.
LEMMA CleanUpLaunch ==
  ASSUME TypeOK, NEW l \in Launch, LaunchInv(l), CleanUp(l)
  PROVE  TypeOK' /\ OnlyOf(l) /\ LaunchInv(l)'
<1>1. TypeOK'
  <2>1. ack' \in [Launch -> [named : BOOLEAN, posted : BOOLEAN]]
      BY AckMarked DEF TypeOK, CleanUp
  <2> QED
      BY <2>1 DEF TypeOK, CleanUp, Parent, ParentStates, Contents
<1>2. OnlyOf(l)
    BY DEF OnlyOf, Same, CleanUp, Parent
<1>3. Started(l)'
    BY DEF LaunchInv, Started, HasHandle, Posix, CleanUp, Parent
<1>4. KillsUnheard(l)'
    BY DEF LaunchInv, KillsUnheard, CleanUp, Parent
<1>5. AckAfterAnswer(l)'
    BY DEF TypeOK, AckAfterAnswer, CleanUp, Parent
<1>6. PosixDeaf(l)'
    BY DEF LaunchInv, PosixDeaf, Posix, CleanUp, Parent
<1>7. HeardIsThere(l)'
    BY DEF LaunchInv, HeardIsThere, Posix, CleanUp, Parent
<1>8. NamesHeld(l)'
    BY DEF TypeOK, LaunchInv, NamesHeld, Alive, Posix, CleanUp, Parent
<1> QED
    BY <1>1, <1>2, <1>3, <1>4, <1>5, <1>6, <1>7, <1>8 DEF LaunchInv

\* The context is cleared.
LEMMA ClearContextLaunch ==
  ASSUME TypeOK, NEW l \in Launch, LaunchInv(l), ClearContext(l)
  PROVE  TypeOK' /\ OnlyOf(l) /\ LaunchInv(l)'
<1>1. TypeOK'
    BY DEF TypeOK, ClearContext, Parent, ParentStates
<1>2. OnlyOf(l)
    BY DEF OnlyOf, Same, ClearContext, Parent
<1>3. Started(l)'
    BY DEF LaunchInv, Started, Posix, ClearContext, Parent
<1>4. KillsUnheard(l)'
    BY DEF LaunchInv, KillsUnheard, ClearContext, Parent
<1>5. AckAfterAnswer(l)'
    BY DEF LaunchInv, AckAfterAnswer, ClearContext, Parent
<1>6. PosixDeaf(l)'
    BY DEF LaunchInv, PosixDeaf, Posix, ClearContext, Parent
<1>7. HeardIsThere(l)'
    BY DEF LaunchInv, HeardIsThere, Posix, ClearContext, Parent
<1>8. NamesHeld(l)'
    BY DEF LaunchInv, HasHandle, NamesHeld, Alive, Posix, ClearContext, Parent
<1> QED
    BY <1>1, <1>2, <1>3, <1>4, <1>5, <1>6, <1>7, <1>8 DEF LaunchInv

\* labBuildContext_fromJson.
LEMMA FillContextLaunch ==
  ASSUME TypeOK, NEW l \in Launch, LaunchInv(l), FillContext(l)
  PROVE  TypeOK' /\ OnlyOf(l) /\ LaunchInv(l)'
<1>1. TypeOK'
    BY DEF TypeOK, FillContext, Parent, ParentStates, ChildStates, Contents
<1>2. OnlyOf(l)
    BY DEF OnlyOf, Same, FillContext, Parent
<1>3. Started(l)'
    BY DEF LaunchInv, Started, Posix, FillContext, Parent
<1>4. KillsUnheard(l)'
    BY DEF LaunchInv, KillsUnheard, FillContext, Parent
<1>5. AckAfterAnswer(l)'
    BY DEF LaunchInv, AckAfterAnswer, FillContext, Parent
<1>6. PosixDeaf(l)'
    BY DEF LaunchInv, PosixDeaf, Posix, FillContext, Parent
<1>7. HeardIsThere(l)'
    BY DEF LaunchInv, HeardIsThere, Posix, FillContext, Parent
<1>8. NamesHeld(l)'
    BY DEF LaunchInv, HasHandle, NamesHeld, Alive, Posix, FillContext, Parent
<1> QED
    BY <1>1, <1>2, <1>3, <1>4, <1>5, <1>6, <1>7, <1>8 DEF LaunchInv

\* The child creates the shared memory.
LEMMA CreateShmLaunch ==
  ASSUME TypeOK, NEW l \in Launch, LaunchInv(l), CreateShm(l)
  PROVE  TypeOK' /\ OnlyOf(l) /\ LaunchInv(l)'
<1>1. TypeOK'
    BY DEF TypeOK, CreateShm, Child, ChildStates, Contents
<1>2. OnlyOf(l)
    BY DEF OnlyOf, Same, CreateShm, Child
<1>3. Started(l)'
    BY DEF LaunchInv, Started, Alive, Posix, CreateShm, Child
<1>4. KillsUnheard(l)'
    BY DEF LaunchInv, KillsUnheard, CreateShm, Child
<1>5. AckAfterAnswer(l)'
    BY DEF LaunchInv, AckAfterAnswer, Posix, CreateShm, Child
<1>6. PosixDeaf(l)'
    BY DEF LaunchInv, PosixDeaf, Posix, CreateShm, Child
<1>7. HeardIsThere(l)'
    BY DEF LaunchInv, HeardIsThere, Posix, CreateShm, Child
<1>8. NamesHeld(l)'
    BY DEF LaunchInv, NamesHeld, Alive, Posix, CreateShm, Child
<1> QED
    BY <1>1, <1>2, <1>3, <1>4, <1>5, <1>6, <1>7, <1>8 DEF LaunchInv

\* ftruncate.
LEMMA SizeShmLaunch ==
  ASSUME TypeOK, NEW l \in Launch, LaunchInv(l), SizeShm(l)
  PROVE  TypeOK' /\ OnlyOf(l) /\ LaunchInv(l)'
<1>1. TypeOK'
    BY DEF TypeOK, SizeShm, Child, ChildStates, Contents
<1>2. OnlyOf(l)
    BY DEF OnlyOf, Same, SizeShm, Child
<1>3. Started(l)'
    BY DEF LaunchInv, Started, Alive, Posix, SizeShm, Child
<1>4. KillsUnheard(l)'
    BY DEF LaunchInv, KillsUnheard, SizeShm, Child
<1>5. AckAfterAnswer(l)'
    BY DEF LaunchInv, AckAfterAnswer, Posix, SizeShm, Child
<1>6. PosixDeaf(l)'
    BY DEF LaunchInv, PosixDeaf, Posix, SizeShm, Child
<1>7. HeardIsThere(l)'
    BY DEF LaunchInv, HeardIsThere, Posix, SizeShm, Child
<1>8. NamesHeld(l)'
    BY DEF LaunchInv, NamesHeld, Alive, Posix, SizeShm, Child
<1> QED
    BY <1>1, <1>2, <1>3, <1>4, <1>5, <1>6, <1>7, <1>8 DEF LaunchInv

\* The child writes the header.
LEMMA WriteHeaderLaunch ==
  ASSUME TypeOK, NEW l \in Launch, LaunchInv(l), WriteHeader(l)
  PROVE  TypeOK' /\ OnlyOf(l) /\ LaunchInv(l)'
<1>1. TypeOK'
    BY DEF TypeOK, WriteHeader, Child, ChildStates, Contents
<1>2. OnlyOf(l)
    BY DEF OnlyOf, Same, WriteHeader, Child
<1>3. Started(l)'
    BY DEF LaunchInv, Started, Alive, Posix, WriteHeader, Child
<1>4. KillsUnheard(l)'
    BY DEF LaunchInv, KillsUnheard, WriteHeader, Child
<1>5. AckAfterAnswer(l)'
    BY DEF LaunchInv, AckAfterAnswer, Posix, WriteHeader, Child
<1>6. PosixDeaf(l)'
    BY DEF LaunchInv, PosixDeaf, Posix, WriteHeader, Child
<1>7. HeardIsThere(l)'
    BY DEF LaunchInv, HeardIsThere, Posix, WriteHeader, Child
<1>8. NamesHeld(l)'
    BY DEF LaunchInv, NamesHeld, Alive, Posix, WriteHeader, Child
<1> QED
    BY <1>1, <1>2, <1>3, <1>4, <1>5, <1>6, <1>7, <1>8 DEF LaunchInv

\* And the payload.
LEMMA WritePayloadLaunch ==
  ASSUME TypeOK, NEW l \in Launch, LaunchInv(l), WritePayload(l)
  PROVE  TypeOK' /\ OnlyOf(l) /\ LaunchInv(l)'
<1>1. TypeOK'
    BY DEF TypeOK, WritePayload, Child, ChildStates, Contents
<1>2. OnlyOf(l)
    BY DEF OnlyOf, Same, WritePayload, Child
<1>3. Started(l)'
    BY DEF LaunchInv, Started, Alive, Posix, WritePayload, Child
<1>4. KillsUnheard(l)'
    BY DEF LaunchInv, KillsUnheard, WritePayload, Child
<1>5. AckAfterAnswer(l)'
    BY DEF LaunchInv, AckAfterAnswer, Posix, WritePayload, Child
<1>6. PosixDeaf(l)'
    BY DEF LaunchInv, PosixDeaf, Posix, WritePayload, Child
<1>7. HeardIsThere(l)'
    BY DEF TypeOK, LaunchInv, HeardIsThere, Posix, WritePayload, Child
<1>8. NamesHeld(l)'
    BY DEF LaunchInv, NamesHeld, Alive, Posix, WritePayload, Child
<1> QED
    BY <1>1, <1>2, <1>3, <1>4, <1>5, <1>6, <1>7, <1>8 DEF LaunchInv

\* sem_unlink in the child.
LEMMA ChildUnlinksDoneLaunch ==
  ASSUME TypeOK, NEW l \in Launch, LaunchInv(l), ChildUnlinksDone(l)
  PROVE  TypeOK' /\ OnlyOf(l) /\ LaunchInv(l)'
<1>1. TypeOK'
    BY DEF TypeOK, ChildUnlinksDone, Child, ChildStates
<1>2. OnlyOf(l)
    BY DEF OnlyOf, Same, ChildUnlinksDone, Child
<1>3. Started(l)'
    BY DEF LaunchInv, Started, Alive, Posix, ChildUnlinksDone, Child
<1>4. KillsUnheard(l)'
    BY DEF LaunchInv, KillsUnheard, ChildUnlinksDone, Child
<1>5. AckAfterAnswer(l)'
    BY DEF LaunchInv, AckAfterAnswer, Posix, ChildUnlinksDone, Child
<1>6. PosixDeaf(l)'
    BY DEF LaunchInv, PosixDeaf, Posix, ChildUnlinksDone, Child
<1>7. HeardIsThere(l)'
    BY DEF LaunchInv, Started, HeardIsThere, Posix, ChildUnlinksDone, Child
<1>8. NamesHeld(l)'
    BY DEF LaunchInv, NamesHeld, Alive, Posix, ChildUnlinksDone, Child
<1> QED
    BY <1>1, <1>2, <1>3, <1>4, <1>5, <1>6, <1>7, <1>8 DEF LaunchInv

\* childDone is created, or opened, and posted by the child.
LEMMA PostDoneLaunch ==
  ASSUME TypeOK, NEW l \in Launch, LaunchInv(l), PostDone(l)
  PROVE  TypeOK' /\ OnlyOf(l) /\ LaunchInv(l)'
<1>1. TypeOK'
    BY DEF TypeOK, PostDone, Child, ChildsDone, CreateOrOpen, ChildStates
<1>2. OnlyOf(l)
    BY DEF OnlyOf, Same, PostDone, Child
<1>3. Started(l)'
    BY DEF LaunchInv, Started, Alive, Posix, PostDone, Child
<1>4. KillsUnheard(l)'
    BY DEF LaunchInv, KillsUnheard, PostDone, Child
<1>5. AckAfterAnswer(l)'
    BY DEF LaunchInv, AckAfterAnswer, Posix, PostDone, Child
<1>6. PosixDeaf(l)'
    BY DEF LaunchInv, PosixDeaf, Posix, PostDone, Child, ChildsDone
<1>7. HeardIsThere(l)'
    BY DEF TypeOK, LaunchInv, HeardIsThere, Posix, PostDone, Child
<1>8. NamesHeld(l)'
    BY DEF LaunchInv, NamesHeld, Alive, Posix, PostDone, Child
<1> QED
    BY <1>1, <1>2, <1>3, <1>4, <1>5, <1>6, <1>7, <1>8 DEF LaunchInv

\* The server was quicker to create childDone.
LEMMA PostDoneFailsLaunch ==
  ASSUME TypeOK, NEW l \in Launch, LaunchInv(l), PostDoneFails(l)
  PROVE  TypeOK' /\ OnlyOf(l) /\ LaunchInv(l)'
<1>1. TypeOK'
    BY DEF TypeOK, PostDoneFails, Child, ChildStates
<1>2. OnlyOf(l)
    BY DEF OnlyOf, Same, PostDoneFails, Child
<1>3. Started(l)'
    BY DEF LaunchInv, Started, Alive, Posix, PostDoneFails, Child
<1>4. KillsUnheard(l)'
    BY DEF LaunchInv, KillsUnheard, PostDoneFails, Child
<1>5. AckAfterAnswer(l)'
    BY DEF LaunchInv, AckAfterAnswer, Posix, PostDoneFails, Child
<1>6. PosixDeaf(l)'
    BY DEF LaunchInv, PosixDeaf, PostDoneFails, Child
<1>7. HeardIsThere(l)'
    BY DEF HeardIsThere, Posix, PostDoneFails, Child
<1>8. NamesHeld(l)'
    BY DEF LaunchInv, NamesHeld, Alive, Posix, PostDoneFails, Child
<1> QED
    BY <1>1, <1>2, <1>3, <1>4, <1>5, <1>6, <1>7, <1>8 DEF LaunchInv

\* The child opens parentAck.
LEMMA OpenAckLaunch ==
  ASSUME TypeOK, NEW l \in Launch, LaunchInv(l), OpenAck(l)
  PROVE  TypeOK' /\ OnlyOf(l) /\ LaunchInv(l)'
<1>1. TypeOK'
    BY DEF TypeOK, OpenAck, Child, Released, ParentStates, ChildStates, Contents
<1>2. OnlyOf(l)
    BY DEF TypeOK, OnlyOf, Same, OpenAck, Child, Released
<1>3. Started(l)'
    BY DEF LaunchInv, Started, Alive, Posix, OpenAck, Child
<1>4. KillsUnheard(l)'
    BY DEF LaunchInv, KillsUnheard, OpenAck, Child
<1>5. AckAfterAnswer(l)'
    BY DEF LaunchInv, AckAfterAnswer, Posix, OpenAck, Child
<1>6. PosixDeaf(l)'
    BY DEF LaunchInv, PosixDeaf, Posix, OpenAck, Child
<1>7. HeardIsThere(l)'
    BY DEF TypeOK, LaunchInv, HeardIsThere, AckAfterAnswer, Posix, OpenAck, Child
<1>8. NamesHeld(l)'
    BY DEF TypeOK, LaunchInv, HasHandle, NamesHeld, Alive, Posix, OpenAck, Child, Released
<1> QED
    BY <1>1, <1>2, <1>3, <1>4, <1>5, <1>6, <1>7, <1>8 DEF LaunchInv

\* The child is let go.
LEMMA HearAckLaunch ==
  ASSUME TypeOK, NEW l \in Launch, LaunchInv(l), HearAck(l)
  PROVE  TypeOK' /\ OnlyOf(l) /\ LaunchInv(l)'
<1>1. TypeOK'
  <2>1. ack' \in [Launch -> [named : BOOLEAN, posted : BOOLEAN]]
      BY AckMarked DEF TypeOK, HearAck
  <2> QED
      BY <2>1 DEF TypeOK, HearAck, Child, ChildStates
<1>2. OnlyOf(l)
    BY DEF OnlyOf, Same, HearAck, Child
<1>3. Started(l)'
    BY DEF LaunchInv, Started, Alive, Posix, HearAck, Child
<1>4. KillsUnheard(l)'
    BY DEF LaunchInv, KillsUnheard, HearAck, Child
<1>5. AckAfterAnswer(l)'
    BY DEF LaunchInv, AckAfterAnswer, Posix, HearAck, Child
<1>6. PosixDeaf(l)'
    BY DEF LaunchInv, PosixDeaf, Posix, HearAck, Child
<1>7. HeardIsThere(l)'
    BY DEF LaunchInv, HeardIsThere, AckAfterAnswer, Posix, HearAck, Child
<1>8. NamesHeld(l)'
    BY DEF LaunchInv, NamesHeld, Alive, Posix, HearAck, Child
<1> QED
    BY <1>1, <1>2, <1>3, <1>4, <1>5, <1>6, <1>7, <1>8 DEF LaunchInv

\* The child exits.
LEMMA LeaveLaunch ==
  ASSUME TypeOK, NEW l \in Launch, LaunchInv(l), Leave(l)
  PROVE  TypeOK' /\ OnlyOf(l) /\ LaunchInv(l)'
<1>1. TypeOK'
  <2>1. ack' \in [Launch -> [named : BOOLEAN, posted : BOOLEAN]]
    <3>1. CASE Posix
      <4>1. ack' = [ack EXCEPT ![l].named = FALSE]
          BY <3>1 DEF Leave
      <4> QED
          BY <4>1, AckMarked DEF TypeOK
    <3>2. CASE ~Posix
        BY <3>2 DEF TypeOK, Leave
    <3> QED
        BY <3>1, <3>2
  <2>2. /\ shm' \in [Launch -> Contents]
        /\ done' \in [Launch -> {"none", "server's", "child's"}]
    <3>1. CASE Posix
        BY <3>1 DEF TypeOK, Leave, Contents
    <3>2. CASE ~Posix
        BY <3>2 DEF TypeOK, Leave, Released, Contents
    <3> QED
        BY <3>1, <3>2
  <2> QED
      BY <2>1, <2>2 DEF TypeOK, Leave, Child, ChildStates
<1>2. OnlyOf(l)
    BY DEF TypeOK, OnlyOf, Same, Leave, Child, Released
<1>3. Started(l)'
    BY DEF LaunchInv, Started, Alive, Posix, Leave, Child
<1>4. KillsUnheard(l)'
    BY DEF LaunchInv, KillsUnheard, Leave, Child
<1>5. AckAfterAnswer(l)'
    BY DEF TypeOK, LaunchInv, AckAfterAnswer, Posix, Leave, Child
<1>6. PosixDeaf(l)'
    BY DEF LaunchInv, PosixDeaf, Posix, Leave, Child
<1>7. HeardIsThere(l)'
    BY DEF TypeOK, LaunchInv, HeardIsThere, Posix, Leave, Child
<1>8. NamesHeld(l)'
    BY DEF TypeOK, HasHandle, NamesHeld, Alive, Leave, Child, Released
<1> QED
    BY <1>1, <1>2, <1>3, <1>4, <1>5, <1>6, <1>7, <1>8 DEF LaunchInv

\* A killed child dies.
LEMMA DieLaunch ==
  ASSUME TypeOK, NEW l \in Launch, LaunchInv(l), Die(l)
  PROVE  TypeOK' /\ OnlyOf(l) /\ LaunchInv(l)'
<1>1. TypeOK'
    BY DEF TypeOK, Die, Child, Released, ChildStates, Contents
<1>2. OnlyOf(l)
    BY DEF OnlyOf, Same, Die, Child, Released
<1>3. Started(l)'
    BY DEF LaunchInv, Started, Alive, Posix, Die, Child
<1>4. KillsUnheard(l)'
    BY DEF LaunchInv, KillsUnheard, Die, Child
<1>5. AckAfterAnswer(l)'
    BY DEF LaunchInv, AckAfterAnswer, Posix, Die, Child
<1>6. PosixDeaf(l)'
    BY DEF LaunchInv, PosixDeaf, Posix, Die, Child
<1>7. HeardIsThere(l)'
    BY DEF TypeOK, LaunchInv, HeardIsThere, KillsUnheard, Die, Child
<1>8. NamesHeld(l)'
    BY DEF TypeOK, LaunchInv, HasHandle, NamesHeld, Posix, Die, Child, Released
<1> QED
    BY <1>1, <1>2, <1>3, <1>4, <1>5, <1>6, <1>7, <1>8 DEF LaunchInv

\* compile_lab ends.
LEMMA CompileLaunch ==
  ASSUME TypeOK, NEW l \in Launch, LaunchInv(l), NEW ok \in BOOLEAN, Compile(l, ok)
  PROVE  TypeOK' /\ OnlyOf(l) /\ LaunchInv(l)'
<1>1. TypeOK'
    BY DEF TypeOK, Compile, Child, Released, ChildStates, Contents
<1>2. OnlyOf(l)
    BY DEF TypeOK, OnlyOf, Same, Compile, Child, Released
<1>3. Started(l)'
    BY DEF LaunchInv, Started, Alive, Posix, Compile, Child
<1>4. KillsUnheard(l)'
    BY DEF LaunchInv, KillsUnheard, Compile, Child
<1>5. AckAfterAnswer(l)'
    BY DEF LaunchInv, AckAfterAnswer, Posix, Compile, Child
<1>6. PosixDeaf(l)'
    BY DEF LaunchInv, PosixDeaf, Posix, Compile, Child
<1>7. HeardIsThere(l)'
    BY DEF LaunchInv, HeardIsThere, Posix, Compile, Child
<1>8. NamesHeld(l)'
    BY DEF TypeOK, LaunchInv, HasHandle, NamesHeld, Alive, Posix, Compile, Child, Released
<1> QED
    BY <1>1, <1>2, <1>3, <1>4, <1>5, <1>6, <1>7, <1>8 DEF LaunchInv

-----------------------------------------------------------------------------
\* The steps that touch neither the server's place in a launch nor the context.
LEMMA ContextUntouched ==
  ASSUME ContextInv, UNCHANGED <<parent, status, context, overlapped>>
  PROVE  ContextInv'
  BY DEF ContextInv, UnderWay

\* The steps of the server that stay within a launch, or end it without an
\* answer.
LEMMA ContextKept ==
  ASSUME TypeOK, ContextInv, NEW l \in Launch, NEW to,
         parent[l] \notin {"idle", "returned", "filling"}, to \notin {"idle", "filling"},
         parent' = [parent EXCEPT ![l] = to],
         \/ UNCHANGED status
         \/ to = "returned" /\ status' = [status EXCEPT ![l] = "failed"],
         UNCHANGED <<context, overlapped>>
  PROVE  ContextInv'
<1>1. /\ parent'[l] = to
      /\ \A m \in Launch : m # l => parent'[m] = parent[m] /\ status'[m] = status[m]
    BY DEF TypeOK
<1>2. status[l] = "none" /\ status'[l] \in {"none", "failed"}
    BY DEF TypeOK, ContextInv
<1>3. \A m \in Launch : status'[m] # "none" => parent'[m] = "returned"
    BY <1>1, <1>2 DEF ContextInv, TypeOK
<1>4. UnderWay' \subseteq UnderWay
    BY <1>1 DEF UnderWay
<1>5. \A m \in Launch : parent'[m] = "filling" <=> parent[m] = "filling"
    BY <1>1
<1>6. \A m \in Launch : \A s \in {"built", "threw"} : status[m] = s => status'[m] = s
    BY <1>1, <1>2
<1> QED
    BY <1>3, <1>4, <1>5, <1>6 DEF ContextInv

\* A launch begins; if another is under way they overlap from here on.
LEMMA StartContext ==
  ASSUME TypeOK, ContextInv, NEW l \in Launch, Start(l) PROVE ContextInv'
<1>1. /\ parent[l] = "idle" /\ parent'[l] = "launched"
      /\ \A m \in Launch : m # l => parent'[m] = parent[m]
      /\ overlapped' = (overlapped \/ UnderWay # {})
      /\ UNCHANGED <<status, context>>
    BY DEF Start, Parent, TypeOK
<1>2. \A m \in Launch : status'[m] # "none" => parent'[m] = "returned"
    BY <1>1 DEF ContextInv
<1>3. ASSUME ~overlapped'
       PROVE  /\ \A k, m \in UnderWay' : k = m
              /\ \A m \in Launch : parent[m] # "filling" /\ parent'[m] # "filling"
  <2>1. UnderWay = {}
      BY <1>1, <1>3
  <2> QED
      BY <2>1, <1>1 DEF UnderWay
<1> QED
    BY <1>1, <1>2, <1>3 DEF ContextInv

\* The context is cleared by the only launch that is under way.
LEMMA ClearContextContext ==
  ASSUME TypeOK, ContextInv, NEW l \in Launch, ClearContext(l) PROVE ContextInv'
<1>1. /\ parent[l] = "read" /\ parent'[l] = "filling" /\ context' = {}
      /\ \A m \in Launch : m # l => parent'[m] = parent[m]
      /\ UNCHANGED <<status, overlapped>>
    BY DEF ClearContext, Parent, TypeOK
<1>2. UnderWay' = UnderWay
    BY <1>1 DEF UnderWay
<1> QED
    BY <1>1, <1>2 DEF ContextInv

\* And filled by it.
LEMMA FillContextContext ==
  ASSUME TypeOK, ContextInv, NEW l \in Launch, FillContext(l) PROVE ContextInv'
<1> DEFINE s == IF payload[l] = "whole" THEN "built" ELSE "threw"
<1>1. /\ parent[l] = "filling" /\ parent'[l] = "returned" /\ status'[l] = s
      /\ \A m \in Launch : m # l => parent'[m] = parent[m] /\ status'[m] = status[m]
      /\ context' = IF s = "built" THEN context \cup {l} ELSE context
      /\ UNCHANGED overlapped
    BY DEF FillContext, Parent, TypeOK
<1>2. s \in {"built", "threw"}
    OBVIOUS
<1> HIDE DEF s
<1>3. \A m \in Launch : status'[m] # "none" => parent'[m] = "returned"
    BY <1>1 DEF ContextInv
<1>4. UnderWay' \subseteq UnderWay
    BY <1>1 DEF UnderWay
<1>5. ASSUME ~overlapped' PROVE context = {} /\ \A m \in Launch : parent'[m] # "filling"
  <2>1. \A m \in UnderWay : m = l
      BY <1>1, <1>5 DEF ContextInv, UnderWay
  <2> QED
      BY <2>1, <1>1, <1>5 DEF ContextInv, UnderWay
<1> QED
    BY <1>1, <1>2, <1>3, <1>4, <1>5 DEF ContextInv

-----------------------------------------------------------------------------
\* A step of l, put together.
LEMMA StepOf ==
  ASSUME IInv, NEW l \in Launch, TypeOK', OnlyOf(l), LaunchInv(l)', ContextInv'
  PROVE  IInv'
<1>1. ASSUME NEW m \in Launch PROVE LaunchInv(m)'
  <2>1. CASE m = l
      BY <2>1
  <2>2. CASE m # l
      BY <2>2, SameKeeps DEF IInv, OnlyOf
  <2> QED
      BY <2>1, <2>2
<1> QED
    BY <1>1 DEF IInv

\* The steps of the server.
LEMMA ParentIInv ==
  ASSUME IInv, NEW l \in Launch, Start(l) \/ ParentStep(l) PROVE IInv'
<1> USE DEF IInv
<1>1. CASE Start(l)
    BY <1>1, StartLaunch, StartContext, StepOf
<1>2. CASE ClearContext(l)
    BY <1>2, ClearContextLaunch, ClearContextContext, StepOf
<1>3. CASE FillContext(l)
    BY <1>3, FillContextLaunch, FillContextContext, StepOf
<1>4. CASE Abort(l)
  <2>1. ContextInv'
      BY <1>4, ContextKept DEF Abort, Parent
  <2> QED
      BY <2>1, <1>4, AbortLaunch, StepOf
<1>5. CASE CleanUp(l)
  <2>1. ContextInv'
      BY <1>5, ContextKept DEF CleanUp, Parent
  <2> QED
      BY <2>1, <1>5, CleanUpLaunch, StepOf
<1>6. CASE UnlinkDone(l)
  <2>1. ContextInv'
      BY <1>6, ContextKept DEF UnlinkDone, Parent
  <2> QED
      BY <2>1, <1>6, UnlinkDoneLaunch, StepOf
<1>7. CASE CreateDone(l)
  <2>1. ContextInv'
      BY <1>7, ContextKept DEF CreateDone, Parent
  <2> QED
      BY <2>1, <1>7, CreateDoneLaunch, StepOf
<1>8. CASE CreateDoneFails(l)
  <2>1. ContextInv'
      BY <1>8, ContextKept DEF CreateDoneFails, Parent
  <2> QED
      BY <2>1, <1>8, CreateDoneFailsLaunch, StepOf
<1>9. CASE HearChild(l)
  <2>1. ContextInv'
      BY <1>9, ContextKept DEF HearChild, Parent
  <2> QED
      BY <2>1, <1>9, HearChildLaunch, StepOf
<1>10. CASE TimeOut(l)
  <2>1. ContextInv'
      BY <1>10, ContextKept DEF TimeOut, Parent
  <2> QED
      BY <2>1, <1>10, TimeOutLaunch, StepOf
<1>11. CASE ReadAfterTimeOut(l)
  <2>1. ContextInv'
      BY <1>11, ContextKept DEF ReadAfterTimeOut, ReadShm, Parent
  <2> QED
      BY <2>1, <1>11, ReadAfterTimeOutLaunch, StepOf
<1>12. CASE ReadAnswer(l)
  <2>1. ContextInv'
      BY <1>12, ContextKept DEF ReadAnswer, ReadShm, Parent
  <2> QED
      BY <2>1, <1>12, ReadAnswerLaunch, StepOf
<1>13. CASE CollectChild(l)
  <2>1. ContextInv'
      BY <1>13, ContextKept DEF CollectChild, Parent
  <2> QED
      BY <2>1, <1>13, CollectChildLaunch, StepOf
<1> QED
    BY <1>1, <1>2, <1>3, <1>4, <1>5, <1>6, <1>7, <1>8, <1>9, <1>10, <1>11, <1>12,
       <1>13 DEF ParentStep

\* The steps of the child.
LEMMA ChildIInv ==
  ASSUME IInv, NEW l \in Launch,
         ChildStep(l) \/ Die(l) \/ \E ok \in BOOLEAN : Compile(l, ok)
  PROVE  IInv'
<1> USE DEF IInv
<1>1. UNCHANGED <<parent, status, context, overlapped>>
    BY DEF ChildStep, CreateShm, SizeShm, WriteHeader, WritePayload, ChildUnlinksDone,
           PostDone, PostDoneFails, OpenAck, HearAck, Leave, Die, Compile, Child
<1>2. ContextInv'
    BY <1>1, ContextUntouched
<1>3. TypeOK' /\ OnlyOf(l) /\ LaunchInv(l)'
    BY CreateShmLaunch, SizeShmLaunch, WriteHeaderLaunch, WritePayloadLaunch,
       ChildUnlinksDoneLaunch, PostDoneLaunch, PostDoneFailsLaunch, OpenAckLaunch,
       HearAckLaunch, LeaveLaunch, DieLaunch, CompileLaunch DEF ChildStep
<1> QED
    BY <1>2, <1>3, StepOf

\* The server before its first launch.
LEMMA InitIInv == Init => IInv
<1> SUFFICES ASSUME Init PROVE IInv
    OBVIOUS
<1>1. TypeOK
    BY PlatformsAssumption DEF Init, TypeOK, ParentStates, ChildStates, Contents
<1>2. \A l \in Launch : LaunchInv(l)
    BY DEF Init, LaunchInv, Started, KillsUnheard, AckAfterAnswer, PosixDeaf, HeardIsThere,
           NamesHeld, Alive, HasHandle
<1>3. ContextInv
    BY DEF Init, ContextInv, UnderWay
<1> QED
    BY <1>1, <1>2, <1>3 DEF IInv

\* Every step of the server and of the children.
LEMMA StepIInv == IInv /\ [Next]_vars => IInv'
<1> SUFFICES ASSUME IInv, [Next]_vars PROVE IInv'
    OBVIOUS
<1>1. CASE Next
    BY <1>1, ParentIInv, ChildIInv DEF Next
<1>2. CASE UNCHANGED vars
  <2>1. TypeOK'
      BY <1>2 DEF vars, IInv, TypeOK
  <2>2. \A l \in Launch : LaunchInv(l)'
      BY <1>2, SameKeeps DEF vars, IInv, Same
  <2>3. ContextInv'
      BY <1>2, ContextUntouched DEF vars, IInv
  <2> QED
      BY <2>1, <2>2, <2>3 DEF IInv
<1> QED
    BY <1>1, <1>2

\* The inductive invariant holds in every state of the launches.
THEOREM Invariance == Spec => []IInv
    BY InitIInv, StepIInv, PTL DEF Spec

-----------------------------------------------------------------------------
\* The two processes, the named objects and the context have their types.
THEOREM TypeCorrect == Spec => []TypeOK
    BY Invariance, PTL DEF IInv

\* A launch that has waited ends in a time-out and a killed child, or with the
\* whole answer of a child that ended by itself.
LEMMA IInvHeardMeansWhole == IInv => HeardMeansWhole
    BY DEF IInv, LaunchInv, KillsUnheard, HeardMeansWhole

\* A child that is heard has written its whole answer (get_child_build_payload,
\* child_create_and_write_shm), whenever the child and the server were where.
THEOREM HeardMeansWholeHolds == Spec => []HeardMeansWhole
    BY Invariance, IInvHeardMeansWhole, PTL

\* What holds the names is gone when the launch has returned and the child ended.
LEMMA IInvNothingLeft == IInv => NothingLeft
<1> SUFFICES ASSUME IInv, NEW l \in Launch, Returned(l), mine[l] # "none", ~Alive(l)
             PROVE  shm[l] = "none" /\ done[l] = "none" /\ ~ack[l].named
    BY DEF NothingLeft
<1> QED
    BY DEF IInv, LaunchInv, NamesHeld, AckAfterAnswer, Returned, HasHandle

\* A launch that got as far as waiting leaves no named object behind.
THEOREM NothingLeftHolds == Spec => []NothingLeft
    BY Invariance, IInvNothingLeft, PTL

\* A launch returns after its child, or after having killed it.
LEMMA IInvNoChildLeft == IInv => NoChildLeft
<1> SUFFICES ASSUME IInv, NEW l \in Launch, Returned(l), Alive(l) PROVE killed[l]
    BY DEF NoChildLeft
<1> QED
    BY DEF IInv, LaunchInv, Started, KillsUnheard, Returned, Alive

\* No child that runs and was not killed outlives its launch.
THEOREM NoChildLeftHolds == Spec => []NoChildLeft
    BY Invariance, IInvNoChildLeft, PTL

\* Launches one after the other leave the context of one build (launch_child_build
\* and labBuildContext_fromJson).
THEOREM ContextOfOneBuildHolds == Spec => []ContextOfOneBuild
<1>1. IInv => ContextOfOneBuild
    BY DEF IInv, ContextInv, ContextOfOneBuild
<1> QED
    BY <1>1, Invariance, PTL

\* On POSIX no child is ever heard.
HeardOnWindowsOnly ==
  Posix => \A l \in Launch : parent[l] # "heard" /\ reason[l] \notin {"SUCCESS", "CRASH"}

\* Both sides unlink childDone before they create it, so on POSIX the server
\* waits on a semaphore of its own: every launch that waits times out.
THEOREM HeardOnWindowsOnlyHolds == Spec => []HeardOnWindowsOnly
<1>1. IInv => HeardOnWindowsOnly
    BY DEF IInv, LaunchInv, PosixDeaf, HeardOnWindowsOnly
<1> QED
    BY <1>1, Invariance, PTL

-----------------------------------------------------------------------------
-----------------------------------------------------------------------------
(* The trees and the tokens between two messages: Workspace                *)

\* Links to what was freed are only in a file that was left out, or that a request
\* would have linked again first.
DeadIsDirty ==
    \A f \in File : own[f] = "dead" \/ through[f] = "dead" => f \in absorbed \/ ShouldProcess(f)

\* The inductive invariant: the properties are a part of it.
WorkspaceInv == WorkspaceTypeOK /\ DeadIsDirty /\ TokensLinked /\ SiblingsLive /\ DependenciesLive

-----------------------------------------------------------------------------
(* The cache of tokens                                                     *)

\* r is s with f at its front, each file at most once.
Front1(s, f, r) ==
    /\ r \in Seq(File) /\ IsInjective(r) /\ f \in ToSet(r)
    /\ ToSet(r) \subseteq ToSet(s) \cup {f}

\* What is in a sequence.
LEMMA InSeq ==
    ASSUME NEW s \in Seq(File)
    PROVE  /\ Len(s) \in Nat /\ DOMAIN s = 1 .. Len(s)
           /\ \A i \in 1 .. Len(s) : s[i] \in File /\ s[i] \in ToSet(s)
           /\ \A f : f \in ToSet(s) <=> \E i \in 1 .. Len(s) : s[i] = f
           /\ \A f : Contains(s, f) <=> f \in ToSet(s)
           /\ IsInjective(s) <=> \A i, j \in 1 .. Len(s) : s[i] = s[j] => i = j
<1>1. Len(s) \in Nat /\ DOMAIN s = 1 .. Len(s) /\ \A i \in 1 .. Len(s) : s[i] \in File
    BY LenProperties, ElementOfSeq
<1> QED
    BY <1>1 DEF ToSet, Contains, IsInjective

\* Two lists, one behind the other.
LEMMA Joined ==
    ASSUME NEW s \in Seq(File), NEW t \in Seq(File), NEW r, r = s \o t
    PROVE  /\ r \in Seq(File) /\ Len(r) = Len(s) + Len(t) /\ DOMAIN r = 1 .. Len(r)
           /\ \A k \in 1 .. Len(s) + Len(t) : r[k] = IF k <= Len(s) THEN s[k] ELSE t[k - Len(s)]
    BY ConcatProperties, LenProperties

\* A part of a list.
LEMMA Part ==
    ASSUME NEW s \in Seq(File), NEW m \in 1 .. Len(s) + 1, NEW n \in 0 .. Len(s), m <= n + 1,
           NEW r, r = SubSeq(s, m, n)
    PROVE  /\ r \in Seq(File) /\ Len(r) = n - m + 1 /\ DOMAIN r = 1 .. Len(r)
           /\ \A k \in 1 .. n - m + 1 : r[k] = s[m + k - 1]
<1>1. Len(s) \in Nat /\ m \in Int /\ n \in Int
    BY InSeq
<1>2. \A k \in m .. n : s[k] \in File
    BY <1>1, InSeq
<1>3. r \in Seq(File) /\ Len(r) = (IF m <= n THEN n - m + 1 ELSE 0)
      /\ \A k \in 1 .. n - m + 1 : r[k] = s[m + k - 1]
    BY <1>1, <1>2, SubSeqProperties
<1>4. Len(r) = n - m + 1
    BY <1>1, <1>3
<1> QED
    BY <1>3, <1>4, LenProperties

\* A file that is there is moved to the front (LRUCache::touch).
LEMMA MovedToFront ==
    ASSUME NEW s \in Seq(File), IsInjective(s), NEW i \in 1 .. Len(s), NEW r,
           r = <<s[i]>> \o RemoveAt(s, i)
    PROVE  Front1(s, s[i], r) /\ Len(r) = Len(s) /\ ToSet(r) = ToSet(s)
<1> DEFINE a == SubSeq(s, 1, i - 1)
           b == SubSeq(s, i + 1, Len(s))
<1>1. Len(s) \in Nat /\ \A k \in 1 .. Len(s) : s[k] \in File
    BY InSeq
<1>2. a \in Seq(File) /\ Len(a) = i - 1 /\ \A k \in 1 .. i - 1 : a[k] = s[k]
    BY <1>1, Part
<1>3. b \in Seq(File) /\ Len(b) = Len(s) - i /\ \A k \in 1 .. Len(s) - i : b[k] = s[k + i]
    BY <1>1, Part
<1> DEFINE c == a \o b
<1>4. /\ c \in Seq(File) /\ Len(c) = Len(s) - 1
      /\ \A k \in 1 .. Len(s) - 1 : c[k] = IF k < i THEN s[k] ELSE s[k + 1]
  <2> HIDE DEF a, b
  <2>1. /\ c \in Seq(File) /\ Len(c) = Len(a) + Len(b)
        /\ \A k \in 1 .. Len(a) + Len(b) : c[k] = IF k <= Len(a) THEN a[k] ELSE b[k - Len(a)]
      BY <1>2, <1>3, Joined
  <2> HIDE DEF c
  <2>2. Len(a) + Len(b) = Len(s) - 1
      BY <1>1, <1>2, <1>3
  <2>3. ASSUME NEW k \in 1 .. Len(s) - 1 PROVE c[k] = IF k < i THEN s[k] ELSE s[k + 1]
    <3>1. CASE k < i
        BY <3>1, <2>1, <2>2, <1>1, <1>2
    <3>2. CASE ~(k < i)
      <4>1. k - (i - 1) \in 1 .. Len(s) - i /\ (k - (i - 1)) + i = k + 1 /\ ~(k <= i - 1)
          BY <3>2, <1>1
      <4>2. c[k] = b[k - (i - 1)]
          BY <4>1, <2>1, <2>2, <1>2
      <4> QED
          BY <3>2, <4>1, <4>2, <1>3
    <3> QED
        BY <3>1, <3>2
  <2> QED
      BY <2>1, <2>2, <2>3
<1>5. r = <<s[i]>> \o c
    BY DEF RemoveAt
<1> HIDE DEF a, b, c
<1>6. /\ r \in Seq(File) /\ Len(r) = Len(s) /\ DOMAIN r = 1 .. Len(s)
      /\ r[1] = s[i]
      /\ \A k \in 2 .. Len(s) : r[k] = IF k <= i THEN s[k - 1] ELSE s[k]
  <2> DEFINE f == <<s[i]>>
  <2>1. f \in Seq(File) /\ Len(f) = 1 /\ f[1] = s[i]
      BY <1>1
  <2> HIDE DEF f
  <2>2. /\ r \in Seq(File) /\ Len(r) = Len(f) + Len(c) /\ DOMAIN r = 1 .. Len(r)
        /\ \A k \in 1 .. Len(f) + Len(c) : r[k] = IF k <= Len(f) THEN f[k] ELSE c[k - Len(f)]
      BY <1>4, <1>5, <2>1, Joined DEF f
  <2>3. Len(f) + Len(c) = Len(s) /\ 1 \in 1 .. Len(s)
      BY <1>1, <1>4, <2>1
  <2>4. ASSUME NEW k \in 2 .. Len(s) PROVE r[k] = IF k <= i THEN s[k - 1] ELSE s[k]
    <3>1. k - 1 \in 1 .. Len(s) - 1 /\ (k - 1 < i <=> k <= i) /\ (k - 1) + 1 = k /\ ~(k <= 1)
        BY <1>1
    <3>2. r[k] = c[k - 1]
        BY <1>1, <2>1, <2>2, <2>3, <3>1
    <3> QED
        BY <3>1, <3>2, <1>4
  <2> QED
      BY <2>1, <2>2, <2>3, <2>4
<1>7. \A j, k \in 1 .. Len(s) : s[j] = s[k] => j = k
    BY InSeq
<1>8. DOMAIN s = 1 .. Len(s)
    BY InSeq
<1>9. \A k \in 1 .. Len(s) : k = 1 \/ (k \in 2 .. Len(s) /\ k - 1 \in 1 .. Len(s))
    BY <1>1
<1>10. IsInjective(r)
  <2>1. ASSUME NEW j \in 1 .. Len(s), NEW k \in 1 .. Len(s), r[j] = r[k], j < k PROVE FALSE
    <3>1. k \in 2 .. Len(s) /\ r[k] = IF k <= i THEN s[k - 1] ELSE s[k]
        BY <2>1, <1>1, <1>6, <1>9
    <3>2. CASE j = 1
      <4> DEFINE n == IF k <= i THEN k - 1 ELSE k
      <4>1. n \in 1 .. Len(s) /\ n # i
          BY <3>1, <1>1
      <4>2. s[i] = s[n]
          BY <3>1, <3>2, <2>1, <1>6
      <4> QED
          BY <4>1, <4>2, <1>1, <1>7
    <3>3. CASE j # 1
      <4> DEFINE p == IF j <= i THEN j - 1 ELSE j
                 n == IF k <= i THEN k - 1 ELSE k
      <4>1. p \in 1 .. Len(s) /\ n \in 1 .. Len(s) /\ p < n
          BY <3>1, <3>3, <2>1, <1>1
      <4>2. r[j] = s[p] /\ r[k] = s[n]
          BY <3>1, <3>3, <1>6, <1>9
      <4> HIDE DEF p, n
      <4>3. p = n
          BY <4>1, <4>2, <2>1, <1>7
      <4> QED
          BY <4>1, <4>3, <1>1
    <3> QED
        BY <3>2, <3>3
  <2>2. ASSUME NEW j \in 1 .. Len(s), NEW k \in 1 .. Len(s), r[j] = r[k] PROVE j = k
    <3>1. j < k \/ k < j \/ j = k
        BY <1>1
    <3> QED
        BY <3>1, <2>1, <2>2
  <2> QED
      BY <2>2, <1>6 DEF IsInjective
<1>11. ToSet(r) \subseteq ToSet(s)
  <2>1. \A k \in 1 .. Len(s) : \E j \in 1 .. Len(s) : r[k] = s[j]
      BY <1>6, <1>9
  <2>2. ToSet(r) = {r[k] : k \in 1 .. Len(s)} /\ ToSet(s) = {s[k] : k \in 1 .. Len(s)}
      BY <1>6, <1>8 DEF ToSet
  <2> QED
      BY <2>1, <2>2
<1>12. ToSet(s) \subseteq ToSet(r)
  <2>1. ASSUME NEW k \in 1 .. Len(s) PROVE \E j \in 1 .. Len(s) : r[j] = s[k]
    <3>1. CASE k = i
        BY <3>1, <1>1, <1>6, <1>9
    <3>2. CASE k < i
      <4>1. k + 1 \in 2 .. Len(s) /\ k + 1 <= i /\ (k + 1) - 1 = k
          BY <3>2, <1>1
      <4>2. r[k + 1] = s[k] /\ k + 1 \in 1 .. Len(s)
          BY <4>1, <1>1, <1>6
      <4> QED
          BY <4>2
    <3>3. CASE k > i
      <4>1. k \in 2 .. Len(s) /\ ~(k <= i)
          BY <3>3, <1>1
      <4>2. r[k] = s[k]
          BY <4>1, <1>6
      <4> QED
          BY <4>2
    <3>4. k = i \/ k < i \/ k > i
        BY <1>1
    <3> QED
        BY <3>1, <3>2, <3>3, <3>4
  <2>2. ToSet(r) = {r[k] : k \in 1 .. Len(s)} /\ ToSet(s) = {s[k] : k \in 1 .. Len(s)}
      BY <1>6, <1>8 DEF ToSet
  <2> QED
      BY <2>1, <2>2
<1>13. s[i] \in ToSet(s)
    BY InSeq
<1> QED
    BY <1>6, <1>10, <1>11, <1>12, <1>13 DEF Front1

\* A file that is not there comes to the front.
LEMMA PutInFront ==
    ASSUME NEW s \in Seq(File), IsInjective(s), NEW f \in File, f \notin ToSet(s), NEW r,
           r = <<f>> \o s
    PROVE  Front1(s, f, r) /\ Len(r) = Len(s) + 1
<1>1. Len(s) \in Nat /\ \A k \in 1 .. Len(s) : s[k] \in File /\ s[k] \in ToSet(s) /\ s[k] # f
    BY InSeq
<1>2. /\ r \in Seq(File) /\ Len(r) = Len(s) + 1 /\ DOMAIN r = 1 .. Len(r) /\ r[1] = f
      /\ \A k \in 2 .. Len(s) + 1 : r[k] = s[k - 1]
    BY <1>1, Joined
<1>3. \A j, k \in 1 .. Len(s) : s[j] = s[k] => j = k
    BY InSeq
<1>4. \A k \in 1 .. Len(r) : k = 1 \/ k \in 2 .. Len(s) + 1
    BY <1>1, <1>2
<1>5. \A k \in 2 .. Len(s) + 1 : k - 1 \in 1 .. Len(s)
    BY <1>1
<1>6. IsInjective(r)
  <2>1. ASSUME NEW j \in 1 .. Len(r), NEW k \in 1 .. Len(r), r[j] = r[k] PROVE j = k
    <3>1. CASE j = 1 \/ k = 1
        BY <3>1, <2>1, <1>1, <1>2, <1>4, <1>5
    <3>2. CASE j # 1 /\ k # 1
      <4>1. j - 1 = k - 1
          BY <3>2, <2>1, <1>2, <1>3, <1>4, <1>5
      <4> QED
          BY <4>1, <1>1, <1>2
    <3> QED
        BY <3>1, <3>2
  <2> QED
      BY <2>1, <1>2 DEF IsInjective
<1>7. f \in ToSet(r)
    BY <1>1, <1>2 DEF ToSet
<1>8. ToSet(r) \subseteq ToSet(s) \cup {f}
  <2>1. \A k \in 1 .. Len(r) : r[k] = f \/ r[k] \in ToSet(s)
      BY <1>1, <1>2, <1>4, <1>5
  <2> QED
      BY <2>1, <1>2 DEF ToSet
<1> QED
    BY <1>2, <1>6, <1>7, <1>8 DEF Front1

\* The last one is dropped.
LEMMA LastDropped ==
    ASSUME NEW s \in Seq(File), IsInjective(s), Len(s) # 0, NEW r, r = Front(s)
    PROVE  /\ r \in Seq(File) /\ IsInjective(r) /\ Len(r) = Len(s) - 1
           /\ ToSet(r) \subseteq ToSet(s)
<1>1. Len(s) \in Nat \ {0} /\ \A k \in 1 .. Len(s) : s[k] \in File
    BY InSeq
<1>2. /\ r \in Seq(File) /\ Len(r) = Len(s) - 1 /\ DOMAIN r = 1 .. Len(r)
      /\ \A k \in 1 .. Len(s) - 1 : r[k] = s[k]
  <2> DEFINE m == 1
             n == Len(s) - 1
  <2>1. m \in 1 .. Len(s) + 1 /\ n \in 0 .. Len(s) /\ m <= n + 1
      BY <1>1
  <2>2. r = SubSeq(s, m, n)
      BY DEF Front
  <2>3. m = 1 /\ n - m + 1 = Len(s) - 1 /\ \A k \in 1 .. Len(s) - 1 : m + k - 1 = k
      BY <1>1
  <2> HIDE DEF m, n
  <2>4. /\ r \in Seq(File) /\ Len(r) = n - m + 1 /\ DOMAIN r = 1 .. Len(r)
        /\ \A k \in 1 .. n - m + 1 : r[k] = s[m + k - 1]
      BY <2>1, <2>2, Part
  <2> QED
      BY <2>3, <2>4
<1>3. DOMAIN s = 1 .. Len(s) /\ \A j \in 1 .. Len(r) : j \in 1 .. Len(s)
    BY <1>1, <1>2, InSeq
<1>4. IsInjective(r)
    BY <1>2, <1>3 DEF IsInjective
<1>5. ToSet(r) \subseteq ToSet(s)
    BY <1>2, <1>3 DEF ToSet
<1> QED
    BY <1>2, <1>4, <1>5

\* get keeps the files that are cached (LRUCache::get).
LEMMA TouchKeeps ==
    ASSUME WorkspaceTypeOK, NEW f \in File, Contains(tokenCache, f)
    PROVE  /\ Front1(tokenCache, f, Touch(f))
           /\ Len(Touch(f)) = Len(tokenCache) /\ ToSet(Touch(f)) = ToSet(tokenCache)
<1>1. tokenCache \in Seq(File) /\ IsInjective(tokenCache)
    BY DEF WorkspaceTypeOK
<1>2. Place(f) \in 1 .. Len(tokenCache) /\ tokenCache[Place(f)] = f
    BY <1>1, InSeq DEF Place, Contains
<1>3. Touch(f) = <<f>> \o RemoveAt(tokenCache, Place(f))
    BY DEF Touch
<1> HIDE DEF Place
<1> QED
    BY <1>1, <1>2, <1>3, MovedToFront

\* put: the file is cached, the others at most, and never more than Capacity
\* (LRUCache::put).
LEMMA PutKeeps ==
    ASSUME WorkspaceTypeOK, NEW f \in File
    PROVE  Front1(tokenCache, f, Put(f)) /\ Len(Put(f)) <= Capacity
<1>1. /\ tokenCache \in Seq(File) /\ IsInjective(tokenCache) /\ Len(tokenCache) <= Capacity
      /\ Capacity \in Nat \ {0} /\ Len(tokenCache) \in Nat
    BY ConstantsAssumption, InSeq DEF WorkspaceTypeOK
<1>2. CASE Contains(tokenCache, f)
    BY <1>1, <1>2, TouchKeeps DEF Put
<1>3. CASE ~Contains(tokenCache, f)
  <2> DEFINE s == IF Len(tokenCache) = Capacity THEN Front(tokenCache) ELSE tokenCache
  <2>1. /\ s \in Seq(File) /\ IsInjective(s) /\ Len(s) < Capacity /\ Len(s) \in Nat
        /\ ToSet(s) \subseteq ToSet(tokenCache)
    <3>1. CASE Len(tokenCache) = Capacity
        BY <3>1, <1>1, LastDropped
    <3>2. CASE Len(tokenCache) # Capacity
        BY <3>2, <1>1
    <3> QED
        BY <3>1, <3>2
  <2>2. f \notin ToSet(s)
      BY <2>1, <1>1, <1>3, InSeq
  <2>3. Put(f) = <<f>> \o s
      BY <1>3 DEF Put
  <2> HIDE DEF s
  <2>4. Front1(s, f, Put(f)) /\ Len(Put(f)) = Len(s) + 1
      BY <2>1, <2>2, <2>3, PutInFront
  <2> QED
      BY <2>1, <2>4, <1>1 DEF Front1
<1> QED
    BY <1>2, <1>3

-----------------------------------------------------------------------------
(* Processing a file                                                       *)

\* What sym_res_mod_deps_seq links are dependencies.
LEMMA ToResolveDeps ==
    ASSUME NEW m \in Module
    PROVE  ToResolve(m) \subseteq DepsOf(m) /\ DepsOf(m) \subseteq Module /\ m \notin DepsOf(m)
<1>1. FlatDeps[m] \in Seq(Module) /\ m \notin DepsOf(m)
    BY ConstantsAssumption
<1>2. DOMAIN FlatDeps[m] = 1 .. Len(FlatDeps[m])
    BY <1>1, LenProperties
<1>3. \A i \in DOMAIN FlatDeps[m] : FlatDeps[m][i] \in Module
    BY <1>1, <1>2, ElementOfSeq
<1>4. DepsOf(m) = {FlatDeps[m][i] : i \in DOMAIN FlatDeps[m]}
    BY DEF DepsOf, ToSet
<1>5. ToResolve(m) \subseteq DepsOf(m)
    BY <1>4 DEF ToResolve
<1> QED
    BY <1>1, <1>3, <1>4, <1>5

\* process_file keeps the types.
LEMMA ProcessWholeTypes ==
    ASSUME WorkspaceTypeOK, broken' \subseteq File, NEW f \in File, NEW c \in BOOLEAN, NEW d \in BOOLEAN,
           ProcessWhole(f, c, d), served' \in File \cup {NoFile}
    PROVE  WorkspaceTypeOK'
<1> DEFINE m == ModuleOf[f]
           ms == ToResolve(m)
           parse == Reparse(f, c, d)
           cleared == ms \cup (IF ResolveSiblings(f) THEN {m} ELSE {})
           hit == cleared \cup (IF parse THEN {m} ELSE {})
           lost == UNION {mapsOn[x] : x \in cleared}
           loses == IF parse THEN {m} \cap Mapped ELSE {}
           v == IF Dependencies[m] \cap outdated' = {} THEN "live" ELSE "misled"
<1>1. m \in Module /\ ms \subseteq DepsOf(m) /\ DepsOf(m) \subseteq Module /\ m \notin ms
    BY ToResolveDeps, ConstantsAssumption
<1>2. /\ dirtyFiles' = [g \in Module |-> IF g \in ms THEN {}
                                         ELSE IF parse /\ g = m THEN {f}
                                         ELSE dirtyFiles[g]]
      /\ dirtyModules' = (dirtyModules \ ms) \cup (IF parse THEN {m} ELSE {})
      /\ prepared' = prepared \cup {m} \cup DepsOf(m)
      /\ resolved' = resolved \cup ms
    BY DEF ProcessWhole
<1>14. outdated' = outdated \cup lost \cup loses
    BY DEF ProcessWhole
<1>3. /\ mapsOn' = [x \in Module |-> mapsOn[x] \cup MapsMade(m, ms, x)]
      /\ own' = [g \in File |-> IF g = f THEN "live"
                                ELSE IF ModuleOf[g] \in hit THEN Freed(own[g])
                                ELSE own[g]]
      /\ through' = [g \in File |-> IF g = f THEN v
                                    ELSE IF DepsOf(ModuleOf[g]) \cap hit # {} THEN Freed(through[g])
                                    ELSE through[g]]
    BY DEF ProcessWhole
<1>4. f \in FilesOf(m)
    BY DEF FilesOf
<1>5. parse \in BOOLEAN /\ cleared \subseteq Module /\ v \in {"live", "misled"}
    BY <1>1 DEF Reparse
<1>6. \A x \in Module : MapsMade(m, ms, x) \subseteq Module
    BY ConstantsAssumption DEF MapsMade
<1>15. lost \subseteq Mapped /\ loses \subseteq Mapped
    BY <1>5 DEF Mapped
<1> HIDE DEF m, ms, parse, cleared, hit, lost, loses, v
<1>7. dirtyFiles' \in [Module -> SUBSET File] /\ \A g \in Module : dirtyFiles'[g] \subseteq FilesOf(g)
    BY <1>2, <1>4 DEF WorkspaceTypeOK
<1>8. dirtyModules' = {g \in Module : dirtyFiles'[g] # {}}
  <2>1. \A g \in Module : dirtyFiles'[g] # {} <=> (g \notin ms /\ ((parse /\ g = m) \/ dirtyFiles[g] # {}))
      BY <1>2
  <2>2. dirtyModules = {g \in Module : dirtyFiles[g] # {}}
      BY DEF WorkspaceTypeOK
  <2>3. CASE parse
      BY <2>1, <2>2, <2>3, <1>1, <1>2
  <2>4. CASE ~parse
      BY <2>1, <2>2, <2>4, <1>1, <1>2
  <2> QED
      BY <2>3, <2>4
<1>9. prepared' \subseteq Module /\ resolved' \subseteq prepared'
    BY <1>1, <1>2 DEF WorkspaceTypeOK
<1>10. /\ own' \in [File -> Links \ {"misled"}] /\ through' \in [File -> Links]
       /\ \A g \in File : own'[g] = "none" <=> through'[g] = "none"
  <2>1. \A l : (Freed(l) = "none" <=> l = "none")
               /\ (l \in Links => Freed(l) \in Links)
               /\ (l \in Links \ {"misled"} => Freed(l) \in Links \ {"misled"})
      BY DEF Freed, Links
  <2>2. own' \in [File -> Links \ {"misled"}]
      BY <2>1, <1>3 DEF WorkspaceTypeOK, Links
  <2>3. through' \in [File -> Links]
      BY <2>1, <1>3, <1>5 DEF WorkspaceTypeOK, Links
  <2>4. ASSUME NEW g \in File PROVE own'[g] = "none" <=> through'[g] = "none"
    <3>1. own[g] = "none" <=> through[g] = "none"
        BY DEF WorkspaceTypeOK
    <3>2. own'[g] = "none" <=> g # f /\ own[g] = "none"
        BY <2>1, <1>3
    <3>3. through'[g] = "none" <=> g # f /\ through[g] = "none"
        BY <2>1, <1>3, <1>5
    <3> QED
        BY <3>1, <3>2, <3>3
  <2> QED
      BY <2>2, <2>3, <2>4
<1>11. mapsOn' \in [Module -> SUBSET Module] /\ outdated' \subseteq Mapped'
  <2>1. \A x \in Module : mapsOn[x] \subseteq mapsOn'[x] /\ mapsOn'[x] \subseteq Module
      BY <1>3, <1>6 DEF WorkspaceTypeOK
  <2>2. mapsOn' \in [Module -> SUBSET Module]
      BY <2>1, <1>3
  <2>3. Mapped \subseteq Mapped'
      BY <2>1 DEF Mapped
  <2>4. outdated' \subseteq Mapped
      BY <1>14, <1>15 DEF WorkspaceTypeOK
  <2> QED
      BY <2>2, <2>3, <2>4
<1>12. /\ tokenCache' \in Seq(File) /\ IsInjective(tokenCache') /\ Len(tokenCache') <= Capacity
       /\ linked' \subseteq ToSet(tokenCache')
    BY PutKeeps DEF ProcessWhole, PutTokens, Front1
<1>13. absorbed' \subseteq File
    BY DEF ProcessWhole, FilesIn, WorkspaceTypeOK
<1> QED
    BY <1>7, <1>8, <1>9, <1>10, <1>11, <1>12, <1>13 DEF WorkspaceTypeOK

\* The file's own links are good afterwards, and a file that loses something it is
\* linked to is left out, or is in a module that is dirty or depends on one.
LEMMA ProcessWholeTrees ==
    ASSUME WorkspaceTypeOK, DeadIsDirty, NEW f \in File, NEW c \in BOOLEAN, NEW d \in BOOLEAN,
           ProcessWhole(f, c, d), Reparse(f, c, d)
    PROVE  DeadIsDirty' /\ own'[f] = "live" /\ through'[f] \in {"live", "misled"}
<1> DEFINE m == ModuleOf[f]
           ms == ToResolve(m)
           hit == ms \cup (IF ResolveSiblings(f) THEN {m} ELSE {}) \cup {m}
           v == IF Dependencies[m] \cap outdated' = {} THEN "live" ELSE "misled"
<1>1. m \in Module /\ ms \subseteq DepsOf(m) /\ DepsOf(m) \subseteq Module /\ m \notin DepsOf(m)
    BY ToResolveDeps, ConstantsAssumption
<1>2. /\ \A n \in Module : dirtyFiles'[n] = IF n \in ms THEN {} ELSE IF n = m THEN {f} ELSE dirtyFiles[n]
      /\ dirtyModules' = (dirtyModules \ ms) \cup {m}
      /\ absorbed' = (absorbed \cup {g \in FilesIn(Bypassed(m, ms)) : own[g] # "none"}) \ {f}
    BY DEF ProcessWhole
<1>3. \A g \in File : /\ own'[g] = IF g = f THEN "live"
                                   ELSE IF ModuleOf[g] \in hit THEN Freed(own[g])
                                   ELSE own[g]
                      /\ through'[g] = IF g = f THEN v
                                       ELSE IF DepsOf(ModuleOf[g]) \cap hit # {} THEN Freed(through[g])
                                       ELSE through[g]
    BY DEF ProcessWhole
<1>4. \A g \in File : ModuleOf[g] \in Module
    BY ConstantsAssumption
<1>5. \A n : n \in hit <=> n \in ms \/ n = m
    OBVIOUS
<1>6. \A g \in File : g \in FilesIn(Bypassed(m, ms))
          <=> /\ ModuleOf[g] # m /\ m \notin DepsOf(ModuleOf[g])
              /\ ModuleOf[g] \in ms \/ DepsOf(ModuleOf[g]) \cap ms # {}
    BY <1>4 DEF FilesIn, Bypassed
<1>7. v \in {"live", "misled"} /\ m = ModuleOf[f]
    OBVIOUS
<1> HIDE DEF m, ms, hit, v
<1>8. ASSUME NEW g \in File, own'[g] = "dead" \/ through'[g] = "dead"
      PROVE  g \in absorbed' \/ ShouldProcess(g)'
  <2> DEFINE n == ModuleOf[g]
  <2>1. g # f /\ own[g] # "none" /\ n \in Module
    <3>1. own[g] = "none" <=> through[g] = "none"
        BY DEF WorkspaceTypeOK
    <3> QED
        BY <3>1, <1>3, <1>4, <1>7, <1>8 DEF Freed
  <2>2. CASE n = m
    <3>1. dirtyFiles'[n] = {f}
        BY <2>2, <1>1, <1>2
    <3> QED
        BY <3>1, <2>1 DEF ShouldProcess, DirtyBesides, OwnFileOnly
  <2>3. CASE m \in DepsOf(n)
      BY <2>3, <1>2 DEF ShouldProcess
  <2>4. CASE n # m /\ m \notin DepsOf(n) /\ (n \in ms \/ DepsOf(n) \cap ms # {})
      BY <2>4, <2>1, <1>2, <1>6
  <2>5. CASE n # m /\ m \notin DepsOf(n) /\ n \notin ms /\ DepsOf(n) \cap ms = {}
    <3>1. n \notin hit /\ DepsOf(n) \cap hit = {}
        BY <2>5, <1>5
    <3>2. own[g] = "dead" \/ through[g] = "dead"
        BY <3>1, <2>1, <1>3, <1>8
    <3>3. g \in absorbed \/ ShouldProcess(g)
        BY <3>2 DEF DeadIsDirty
    <3>4. dirtyFiles'[n] = dirtyFiles[n] /\ dirtyModules' \cap DepsOf(n) = dirtyModules \cap DepsOf(n)
        BY <2>1, <2>5, <1>2
    <3>5. ShouldProcess(g)' <=> ShouldProcess(g)
        BY <3>4 DEF ShouldProcess, DirtyBesides, OwnFileOnly
    <3> QED
        BY <3>3, <3>5, <2>1, <1>2
  <2> QED
      BY <2>2, <2>3, <2>4, <2>5
<1> QED
    BY <1>3, <1>7, <1>8 DEF DeadIsDirty

\* The tokens that process_file caches point into the tree that is parsed from
\* them; the others stay as they are.
LEMMA ProcessFileTokens ==
    ASSUME WorkspaceTypeOK, TokensLinked, NEW f \in File, NEW c \in BOOLEAN, NEW d \in BOOLEAN,
           ProcessFile(f, c, d), Reparse(f, c, d), broken' \ {f} = broken \ {f}
    PROVE  TokensLinked'
<1>1. tokenCache' = Put(f) /\ ToSet(tokenCache') \subseteq ToSet(tokenCache) \cup {f} /\ f \in ToSet(tokenCache')
    BY PutKeeps DEF ProcessFile, ProcessBroken, ProcessWhole, PutTokens, Front1
<1>2. linked' = ((linked \ {f}) \cup (IF f \in broken' THEN {} ELSE {f})) \cap ToSet(tokenCache')
    BY DEF ProcessFile, ProcessBroken, ProcessWhole, PutTokens
<1> SUFFICES ASSUME NEW g \in ToSet(tokenCache'), g \notin broken' PROVE g \in linked'
    BY DEF TokensLinked
<1>3. CASE g = f
    BY <1>1, <1>2, <1>3
<1>4. CASE g # f
  <2>1. g \in ToSet(tokenCache) /\ g \notin broken
      BY <1>1, <1>4
  <2> QED
      BY <2>1, <1>2, <1>4 DEF TokensLinked
<1> QED
    BY <1>3, <1>4

\* process_file, with a text that lexes or not: afterwards either the file is
\* broken or its links are good.
LEMMA ProcessFileKeeps ==
    ASSUME WorkspaceInv, NEW f \in File, NEW c \in BOOLEAN, NEW d \in BOOLEAN,
           ProcessFile(f, c, d), Reparse(f, c, d),
           broken' \subseteq File, broken' \ {f} = broken \ {f}, served' \in {f, NoFile}
    PROVE  WorkspaceInv'
<1>1. CASE f \in broken'
  <2>1. /\ UNCHANGED <<prepared, resolved, dirtyFiles, dirtyModules, own, through, mapsOn, outdated, absorbed>>
        /\ PutTokens(f, FALSE)
      BY <1>1 DEF ProcessFile, ProcessBroken, moduleVars, treeVars
  <2>2. /\ tokenCache' \in Seq(File) /\ IsInjective(tokenCache') /\ Len(tokenCache') <= Capacity
        /\ linked' \subseteq ToSet(tokenCache')
      BY <2>1, PutKeeps DEF PutTokens, Front1, WorkspaceInv
  <2>3. WorkspaceTypeOK'
      BY <2>1, <2>2 DEF WorkspaceInv, WorkspaceTypeOK, Mapped
  <2>4. DeadIsDirty'
      BY <2>1 DEF WorkspaceInv, DeadIsDirty, ShouldProcess, DirtyBesides, OwnFileOnly
  <2>5. TokensLinked'
      BY ProcessFileTokens DEF WorkspaceInv
  <2>6. SiblingsLive' /\ DependenciesLive'
      BY <1>1, ConstantsAssumption DEF SiblingsLive, DependenciesLive, Answered
  <2> QED
      BY <2>3, <2>4, <2>5, <2>6 DEF WorkspaceInv
<1>2. CASE f \notin broken'
  <2>1. ProcessWhole(f, c, d)
      BY <1>2 DEF ProcessFile
  <2>2. WorkspaceTypeOK'
      BY <2>1, ProcessWholeTypes DEF WorkspaceInv
  <2>3. DeadIsDirty' /\ own'[f] = "live" /\ through'[f] \in {"live", "misled"}
      BY <2>1, ProcessWholeTrees DEF WorkspaceInv
  <2>4. TokensLinked'
      BY ProcessFileTokens DEF WorkspaceInv
  <2>5. SiblingsLive' /\ DependenciesLive'
      BY <2>3, ConstantsAssumption DEF SiblingsLive, DependenciesLive, Answered
  <2> QED
      BY <2>2, <2>3, <2>4, <2>5 DEF WorkspaceInv
<1> QED
    BY <1>1, <1>2

\* didChange and didOpen.
LEMMA ChangeIInv == ASSUME WorkspaceInv, NEW f \in File, Change(f) \/ Open(f) PROVE WorkspaceInv'
<1>1. CASE Change(f)
  <2>1. broken' \subseteq File /\ broken' \ {f} = broken \ {f}
      BY <1>1 DEF Change, WorkspaceInv, WorkspaceTypeOK
  <2>2. ProcessFile(f, TRUE, FALSE) /\ Reparse(f, TRUE, FALSE) /\ served' = NoFile
      BY <1>1 DEF Change, Reparse
  <2> QED
      BY <2>1, <2>2, ProcessFileKeeps
<1>2. CASE Open(f)
  <2>1. broken' \subseteq File /\ broken' \ {f} = broken \ {f}
      BY <1>2 DEF Open, WorkspaceInv, WorkspaceTypeOK
  <2>2. ProcessFile(f, FALSE, FALSE) /\ Reparse(f, FALSE, FALSE) /\ served' = NoFile
      BY <1>2 DEF Open, Reparse
  <2> QED
      BY <2>1, <2>2, ProcessFileKeeps
<1> QED
    BY <1>1, <1>2

\* A request that should_process_file sends through process_file first.
LEMMA RequestDirtyIInv == ASSUME WorkspaceInv, NEW f \in File, RequestDirty(f) PROVE WorkspaceInv'
<1>1. broken' \subseteq File /\ broken' \ {f} = broken \ {f}
    BY DEF RequestDirty, WorkspaceInv, WorkspaceTypeOK
<1>2. ProcessFile(f, FALSE, TRUE) /\ Reparse(f, FALSE, TRUE) /\ served' = f
    BY DEF RequestDirty, Reparse
<1> QED
    BY <1>1, <1>2, ProcessFileKeeps

\* A request that is answered from what is there: neither the file's module nor
\* one it depends on is dirty because of another file.
LEMMA RequestCleanIInv == ASSUME WorkspaceInv, NEW f \in File, RequestClean(f) PROVE WorkspaceInv'
<1> USE DEF WorkspaceInv
<1>1. /\ UNCHANGED <<broken, prepared, resolved, dirtyFiles, dirtyModules, own, through, mapsOn, outdated,
                     linked, absorbed>>
      /\ served' = f /\ tokenCache' = Touch(f)
      /\ ~ShouldProcess(f)
    BY DEF RequestClean, moduleVars, treeVars
<1>2. /\ tokenCache' \in Seq(File) /\ IsInjective(tokenCache') /\ Len(tokenCache') <= Capacity
      /\ ToSet(tokenCache') = ToSet(tokenCache)
  <2>1. CASE Contains(tokenCache, f)
      BY <2>1, <1>1, TouchKeeps DEF Front1, WorkspaceTypeOK
  <2>2. CASE ~Contains(tokenCache, f)
      BY <2>2, <1>1 DEF Touch, WorkspaceTypeOK
  <2> QED
      BY <2>1, <2>2
<1>3. WorkspaceTypeOK'
    BY <1>1, <1>2 DEF WorkspaceTypeOK, Mapped
<1>4. DeadIsDirty'
    BY <1>1 DEF DeadIsDirty, ShouldProcess, DirtyBesides, OwnFileOnly
<1>5. TokensLinked'
    BY <1>1, <1>2 DEF TokensLinked
<1>6. f \in absorbed \/ (own[f] # "dead" /\ through[f] # "dead")
    BY <1>1 DEF DeadIsDirty
<1>7. SiblingsLive'
    BY <1>1, <1>6 DEF SiblingsLive, Answered, WorkspaceTypeOK, Links
<1>8. DependenciesLive'
    BY <1>1, <1>6 DEF DependenciesLive, Answered, WorkspaceTypeOK, Links
<1> QED
    BY <1>3, <1>4, <1>5, <1>7, <1>8

-----------------------------------------------------------------------------
\* The server before the first message.
LEMMA WorkspaceInvInit == WorkspaceInit => WorkspaceInv
<1> SUFFICES ASSUME WorkspaceInit PROVE WorkspaceInv
    OBVIOUS
<1>1. /\ tokenCache \in Seq(File) /\ Len(tokenCache) = 0 /\ DOMAIN tokenCache = {}
      /\ ToSet(tokenCache) = {} /\ IsInjective(tokenCache)
    BY DEF WorkspaceInit, ToSet, IsInjective
<1>2. WorkspaceTypeOK
    BY <1>1, ConstantsAssumption DEF WorkspaceInit, WorkspaceTypeOK, Links, Mapped
<1>3. DeadIsDirty
    BY DEF WorkspaceInit, DeadIsDirty
<1>4. TokensLinked /\ SiblingsLive /\ DependenciesLive
    BY <1>1, ConstantsAssumption DEF WorkspaceInit, TokensLinked, SiblingsLive, DependenciesLive, Answered
<1> QED
    BY <1>2, <1>3, <1>4 DEF WorkspaceInv

\* Every message of the editor.
LEMMA WorkspaceInvStep == WorkspaceInv /\ [WorkspaceNext]_workspaceVars => WorkspaceInv'
<1> SUFFICES ASSUME WorkspaceInv, [WorkspaceNext]_workspaceVars PROVE WorkspaceInv'
    OBVIOUS
<1>1. CASE WorkspaceNext
    BY <1>1, ChangeIInv, RequestDirtyIInv, RequestCleanIInv DEF WorkspaceNext
<1>2. CASE UNCHANGED workspaceVars
  <2>1. UNCHANGED <<broken, prepared, resolved, dirtyFiles, dirtyModules, own, through, mapsOn, outdated,
                    tokenCache, linked, served, absorbed>>
      BY <1>2 DEF workspaceVars, moduleVars, treeVars, tokenVars
  <2>2. WorkspaceTypeOK' /\ TokensLinked'
      BY <2>1 DEF WorkspaceInv, WorkspaceTypeOK, TokensLinked, Mapped
  <2>3. DeadIsDirty'
      BY <2>1 DEF WorkspaceInv, DeadIsDirty, ShouldProcess, DirtyBesides, OwnFileOnly
  <2>4. SiblingsLive' /\ DependenciesLive'
      BY <2>1 DEF WorkspaceInv, SiblingsLive, DependenciesLive, Answered
  <2> QED
      BY <2>2, <2>3, <2>4 DEF WorkspaceInv
<1> QED
    BY <1>1, <1>2

\* The inductive invariant holds between any two messages.
THEOREM WorkspaceInvariance == WorkspaceSpec => []WorkspaceInv
    BY WorkspaceInvInit, WorkspaceInvStep, PTL DEF WorkspaceSpec

-----------------------------------------------------------------------------
\* The modules, the trees and the cache have their types: the cache never holds
\* a file twice or more files than its capacity (LRUCache).
THEOREM WorkspaceTypeCorrect == WorkspaceSpec => []WorkspaceTypeOK
    BY WorkspaceInvariance, PTL DEF WorkspaceInv

\* Whatever was edited, opened and asked for before, a request does not walk from
\* a function into a freed tree next to it, or to what was on its module's
\* allocator, but in files left out when a module was declared clean on the way of
\* another (should_process_file, process_file).
THEOREM SiblingsLiveHolds == WorkspaceSpec => []SiblingsLive
    BY WorkspaceInvariance, PTL DEF WorkspaceInv

\* Nor into what was freed since in a module it depends on, with any depth and any
\* sharing of dependencies (should_process_file, sym_res_mod_deps_seq).
THEOREM DependenciesLiveHolds == WorkspaceSpec => []DependenciesLive
    BY WorkspaceInvariance, PTL DEF WorkspaceInv

\* Cached tokens of a file that lexes point into its present tree.
THEOREM TokensLinkedHolds == WorkspaceSpec => []TokensLinked
    BY WorkspaceInvariance, PTL DEF WorkspaceInv
================================================================================
