----------------------------- MODULE ChildBuild ------------------------------
(***************************************************************************)
(* The language server builds chemical.mod and build.lab in child          *)
(* processes: get_child_build_payload and launch_child_build in the        *)
(* server, child_create_and_write_shm in the child, and the named objects  *)
(* between them: a shared memory, a semaphore (an event on Windows) with   *)
(* which the child says it is done, and one with which the server lets it  *)
(* go.  Every launch has names of its own; launches may overlap and share  *)
(* the server's context.                                                   *)
(***************************************************************************)
EXTENDS Naturals, FiniteSets

CONSTANTS Launch,      \* the builds the server launches
          Platforms    \* the two halves of the source's #ifdef _WIN32

ASSUME PlatformsAssumption == Platforms \subseteq {"posix", "windows"}

VARIABLES
  platform,
  parent,      \* where the server is in each launch
  child,       \* where the child of each launch is
  killed,      \* the server has killed the child
  shm,         \* what the name of the shared memory leads to
  done,        \* whose childDone object the name leads to, or "none"
  mine,        \* whose childDone object the server's handle is of
  posted,      \* the childDone objects that were posted
  ack,         \* parentAck: its name is there, it was posted
  payload,     \* what the server read
  reason,      \* ChildReason
  status,      \* how the launch ended
  context,     \* the builds context_information is made of
  crashed,     \* the server died of a SIGBUS
  overlapped   \* history: two launches were under way at once

vars == <<platform, parent, child, killed, shm, done, mine, posted, ack, payload,
          reason, status, context, crashed, overlapped>>

ParentStates == {"idle", "launched", "unlinked", "aborting", "waiting", "timedout",
                 "heard", "collecting", "cleanup", "read", "filling", "returned"}

ChildStates == {"none", "compiling", "creating", "sizing", "header", "payload",
                "unlinking", "naming", "opening", "waiting", "leaving",
                "failed", "exited", "dead"}

Contents == {"none", "empty", "zeroed", "header", "whole"}

TypeOK ==
  /\ platform \in Platforms
  /\ parent \in [Launch -> ParentStates]
  /\ child \in [Launch -> ChildStates]
  /\ killed \in [Launch -> BOOLEAN]
  /\ shm \in [Launch -> Contents]
  /\ {done, mine} \subseteq [Launch -> {"none", "server's", "child's"}]
  /\ posted \in [Launch -> SUBSET {"server's", "child's"}]
  /\ ack \in [Launch -> [named : BOOLEAN, posted : BOOLEAN]]
  /\ payload \in [Launch -> {"none", "torn", "whole"}]
  /\ reason \in [Launch -> {"none", "SUCCESS", "CRASH", "TIMEOUT"}]
  /\ status \in [Launch -> {"none", "built", "failed", "threw"}]
  /\ context \subseteq Launch \cup {"before"}
  /\ crashed \in BOOLEAN /\ overlapped \in BOOLEAN

Init ==
  /\ platform \in Platforms
  /\ parent = [l \in Launch |-> "idle"] /\ child = [l \in Launch |-> "none"]
  /\ killed = [l \in Launch |-> FALSE]
  /\ shm = [l \in Launch |-> "none"] /\ done = [l \in Launch |-> "none"]
  /\ mine = [l \in Launch |-> "none"] /\ posted = [l \in Launch |-> {}]
  /\ ack = [l \in Launch |-> [named |-> FALSE, posted |-> FALSE]]
  /\ payload = [l \in Launch |-> "none"] /\ reason = [l \in Launch |-> "none"]
  /\ status = [l \in Launch |-> "none"]
  /\ context = {"before"} /\ crashed = FALSE /\ overlapped = FALSE

Posix == platform = "posix"

UnderWay == {l \in Launch : parent[l] \notin {"idle", "returned"}}

\* The child's process is there and runs.
Alive(l) == child[l] \notin {"none", "exited", "failed", "dead"}

(***************************************************************************)
(* The server.                                                             *)
(***************************************************************************)
Parent(l, from, to) ==
  /\ ~crashed
  /\ parent[l] = from
  /\ parent' = [parent EXCEPT ![l] = to]

\* parentAck is created, the child is launched.
Start(l) ==
  /\ Parent(l, "idle", "launched")
  /\ ack' = [ack EXCEPT ![l].named = TRUE]
  /\ child' = [child EXCEPT ![l] = "compiling"]
  /\ overlapped' = (overlapped \/ UnderWay # {})
  /\ UNCHANGED <<platform, killed, shm, done, mine, posted, payload, reason, status,
                 context, crashed>>

\* POSIX: sem_unlink(childDone), in case it existed.
UnlinkDone(l) ==
  /\ Posix
  /\ Parent(l, "launched", "unlinked")
  /\ done' = [done EXCEPT ![l] = "none"]
  /\ UNCHANGED <<platform, child, killed, shm, mine, posted, ack, payload, reason,
                 status, context, crashed, overlapped>>

\* CreateEventW opens the object when it is there already.
CreateOrOpen(l, who) == IF done[l] = "none" THEN who ELSE done[l]

CreateDone(l) ==
  /\ IF Posix THEN done[l] = "none" /\ Parent(l, "unlinked", "waiting")
     ELSE Parent(l, "launched", "waiting")
  /\ done' = [done EXCEPT ![l] = CreateOrOpen(l, "server's")]
  /\ mine' = [mine EXCEPT ![l] = CreateOrOpen(l, "server's")]
  /\ UNCHANGED <<platform, child, killed, shm, posted, ack, payload, reason, status,
                 context, crashed, overlapped>>

\* POSIX: O_EXCL, and the child has created childDone since it was unlinked.
CreateDoneFails(l) ==
  /\ Posix /\ done[l] # "none"
  /\ Parent(l, "unlinked", "aborting")
  /\ killed' = [killed EXCEPT ![l] = TRUE]
  /\ UNCHANGED <<platform, child, shm, done, mine, posted, ack, payload, reason,
                 status, context, crashed, overlapped>>

\* waitpid returned: parentAck goes, childDone and the shared memory stay.
Abort(l) ==
  /\ ~Alive(l)
  /\ Parent(l, "aborting", "returned")
  /\ ack' = [ack EXCEPT ![l].named = FALSE]
  /\ status' = [status EXCEPT ![l] = "failed"]
  /\ UNCHANGED <<platform, child, killed, shm, done, mine, posted, payload, reason,
                 context, crashed, overlapped>>

HearChild(l) ==
  /\ mine[l] \in posted[l]
  /\ Parent(l, "waiting", "heard")
  /\ posted' = [posted EXCEPT ![l] = @ \ {mine[l]}]
  /\ UNCHANGED <<platform, child, killed, shm, done, mine, ack, payload, reason,
                 status, context, crashed, overlapped>>

\* Mutant: the child is not killed.
TimeOutNoKill(l) ==
  /\ mine[l] \notin posted[l]
  /\ Parent(l, "waiting", "timedout")
  /\ reason' = [reason EXCEPT ![l] = "TIMEOUT"]
  /\ UNCHANGED <<platform, child, killed, shm, done, mine, posted, ack, payload, status,
                 context, crashed, overlapped>>

\* Ten seconds are over; the child may be anywhere.
TimeOut(l) ==
  /\ mine[l] \notin posted[l]
  /\ Parent(l, "waiting", "timedout")
  /\ killed' = [killed EXCEPT ![l] = TRUE]
  /\ reason' = [reason EXCEPT ![l] = "TIMEOUT"]
  /\ UNCHANGED <<platform, child, shm, done, mine, posted, ack, payload, status,
                 context, crashed, overlapped>>

\* parent_read_shared_memory: the header says how many bytes to take.
WhatIsRead(l) ==
  CASE shm[l] = "whole"  -> "whole"
    [] shm[l] = "header" -> "torn"
    [] OTHER             -> "none"

\* A mapping of a file without a byte can be made and not be read.
BusError(l) == shm[l] = "empty"

\* On Windows reading the mapping also posts parentAck.
ReadShm(l) ==
  /\ payload' = [payload EXCEPT ![l] = WhatIsRead(l)]
  /\ crashed' = BusError(l)
  /\ UNCHANGED <<platform, child, killed, shm, done, mine, posted, status, context,
                 overlapped>>

ReadAfterTimeOut(l) ==
  /\ Posix => ~Alive(l)
  /\ Parent(l, "timedout", "cleanup")
  /\ ReadShm(l)
  /\ ack' = [ack EXCEPT ![l].posted = @ \/ (~Posix /\ shm[l] # "none")]
  /\ UNCHANGED reason

\* Mutant: parentAck is not posted.
ReadNoAck(l) ==
  /\ Parent(l, "heard", "collecting")
  /\ ReadShm(l)
  /\ UNCHANGED <<ack, reason>>

ReadAnswer(l) ==
  /\ Parent(l, "heard", "collecting")
  /\ ReadShm(l)
  /\ ack' = [ack EXCEPT ![l].posted = @ \/ Posix \/ shm[l] # "none"]
  /\ UNCHANGED reason

\* Mutant: the child's exit is not waited for.
CollectAtOnce(l) ==
  /\ Parent(l, "collecting", "cleanup")
  /\ reason' = [reason EXCEPT ![l] = IF child[l] = "exited" THEN "SUCCESS" ELSE "CRASH"]
  /\ UNCHANGED <<platform, child, killed, shm, done, mine, posted, ack, payload,
                 status, context, crashed, overlapped>>

\* waitpid, or WaitForSingleObject without a timeout, on the child's process.
CollectChild(l) ==
  /\ ~Alive(l)
  /\ Parent(l, "collecting", "cleanup")
  /\ reason' = [reason EXCEPT ![l] = IF child[l] = "exited" THEN "SUCCESS" ELSE "CRASH"]
  /\ UNCHANGED <<platform, child, killed, shm, done, mine, posted, ack, payload,
                 status, context, crashed, overlapped>>

\* Mutant: the shared memory is not unlinked.
CleanUpNoShm(l) ==
  /\ Parent(l, "cleanup", IF payload[l] = "none" THEN "returned" ELSE "read")
  /\ ack' = [ack EXCEPT ![l].named = FALSE]
  /\ done' = IF Posix \/ ~Alive(l) THEN [done EXCEPT ![l] = "none"] ELSE done
  /\ status' = IF payload[l] = "none" THEN [status EXCEPT ![l] = "failed"] ELSE status
  /\ UNCHANGED <<platform, child, killed, shm, mine, posted, payload, reason, context,
                 crashed, overlapped>>

\* The names go (POSIX), or the server's handles are closed (Windows, where an
\* object goes with its last handle and the child may hold some).
CleanUp(l) ==
  /\ Parent(l, "cleanup", IF payload[l] = "none" THEN "returned" ELSE "read")
  /\ ack' = [ack EXCEPT ![l].named = FALSE]
  /\ done' = IF Posix \/ ~Alive(l) THEN [done EXCEPT ![l] = "none"] ELSE done
  /\ shm' = IF Posix THEN [shm EXCEPT ![l] = "none"] ELSE shm
  /\ status' = IF payload[l] = "none" THEN [status EXCEPT ![l] = "failed"] ELSE status
  /\ UNCHANGED <<platform, child, killed, mine, posted, payload, reason, context,
                 crashed, overlapped>>

\* Mutant: the context keeps what was in it.
KeepContext(l) ==
  /\ Parent(l, "read", "filling")
  /\ UNCHANGED <<platform, child, killed, shm, done, mine, posted, ack, payload,
                 reason, status, context, crashed, overlapped>>

\* launch_child_build clears the context before it parses the payload.
ClearContext(l) ==
  /\ Parent(l, "read", "filling")
  /\ context' = {}
  /\ UNCHANGED <<platform, child, killed, shm, done, mine, posted, ack, payload,
                 reason, status, crashed, overlapped>>

\* labBuildContext_fromJson; json::parse throws at a torn payload.
FillContext(l) ==
  /\ Parent(l, "filling", "returned")
  /\ IF payload[l] = "whole"
     THEN /\ context' = context \cup {l}
          /\ status' = [status EXCEPT ![l] = "built"]
     ELSE /\ status' = [status EXCEPT ![l] = "threw"]
          /\ UNCHANGED context
  /\ UNCHANGED <<platform, child, killed, shm, done, mine, posted, ack, payload,
                 reason, crashed, overlapped>>

ParentStep(l) ==
  \/ UnlinkDone(l) \/ CreateDone(l) \/ CreateDoneFails(l) \/ Abort(l)
  \/ HearChild(l) \/ TimeOut(l) \/ ReadAfterTimeOut(l) \/ ReadAnswer(l)
  \/ CollectChild(l) \/ CleanUp(l) \/ ClearContext(l) \/ FillContext(l)

(***************************************************************************)
(* The child.                                                              *)
(***************************************************************************)
Child(l, from, to) ==
  /\ child[l] = from
  /\ child' = [child EXCEPT ![l] = to]
  /\ UNCHANGED <<platform, parent, killed, mine, payload, reason, status, context,
                 crashed, overlapped>>

\* What is left of the child's objects when its process ends: on POSIX all of
\* them, on Windows what the server has a handle of, too.
Released(l) ==
  /\ shm' = IF Posix THEN shm ELSE [shm EXCEPT ![l] = "none"]
  /\ done' = IF Posix \/ parent[l] \in {"waiting", "timedout", "heard", "collecting",
                                      "cleanup"}
             THEN done ELSE [done EXCEPT ![l] = "none"]

\* compile_lab, which may take any time, fails or gives the payload.
Compile(l, ok) ==
  /\ Child(l, "compiling", IF ok THEN "creating" ELSE "failed")
  /\ IF ok THEN UNCHANGED <<shm, done>> ELSE Released(l)
  /\ UNCHANGED <<posted, ack>>

\* shm_unlink and shm_open; a mapping made by CreateFileMappingW has its size.
CreateShm(l) ==
  /\ Child(l, "creating", IF Posix THEN "sizing" ELSE "header")
  /\ shm' = [shm EXCEPT ![l] = IF Posix THEN "empty" ELSE "zeroed"]
  /\ UNCHANGED <<done, posted, ack>>

SizeShm(l) ==
  /\ Child(l, "sizing", "header")
  /\ shm' = [shm EXCEPT ![l] = "zeroed"]
  /\ UNCHANGED <<done, posted, ack>>

WriteHeader(l) ==
  /\ Child(l, "header", "payload")
  /\ shm' = [shm EXCEPT ![l] = "header"]
  /\ UNCHANGED <<done, posted, ack>>

WritePayload(l) ==
  /\ Child(l, "payload", IF Posix THEN "unlinking" ELSE "naming")
  /\ shm' = [shm EXCEPT ![l] = "whole"]
  /\ UNCHANGED <<done, posted, ack>>

\* POSIX: sem_unlink(childDone), before it is created.
ChildUnlinksDone(l) ==
  /\ Child(l, "unlinking", "naming")
  /\ done' = [done EXCEPT ![l] = "none"]
  /\ UNCHANGED <<shm, posted, ack>>

\* Which childDone the child gets a handle of.
ChildsDone(l) == IF Posix THEN "child's" ELSE CreateOrOpen(l, "child's")

\* childDone is created and posted.
PostDone(l) ==
  /\ Posix => done[l] = "none"
  /\ Child(l, "naming", "opening")
  /\ done' = [done EXCEPT ![l] = ChildsDone(l)]
  /\ posted' = [posted EXCEPT ![l] = @ \cup {ChildsDone(l)}]
  /\ UNCHANGED <<shm, ack>>

\* POSIX: O_EXCL, and the server has created childDone since it was unlinked.
PostDoneFails(l) ==
  /\ Posix /\ done[l] # "none"
  /\ Child(l, "naming", "failed")
  /\ UNCHANGED <<shm, done, posted, ack>>

OpenAck(l) ==
  /\ Child(l, "opening", IF ack[l].named THEN "waiting" ELSE "failed")
  /\ IF ack[l].named THEN UNCHANGED <<shm, done>> ELSE Released(l)
  /\ UNCHANGED <<posted, ack>>

HearAck(l) ==
  /\ ack[l].posted
  /\ Child(l, "waiting", "leaving")
  /\ ack' = [ack EXCEPT ![l].posted = FALSE]
  /\ UNCHANGED <<shm, done, posted>>

\* The child unlinks all three names, or closes its handles, and exits with 0.
Leave(l) ==
  /\ Child(l, "leaving", "exited")
  /\ IF Posix
     THEN /\ shm' = [shm EXCEPT ![l] = "none"] /\ done' = [done EXCEPT ![l] = "none"]
          /\ ack' = [ack EXCEPT ![l].named = FALSE]
     ELSE Released(l) /\ UNCHANGED ack
  /\ UNCHANGED posted

\* A signal or TerminateProcess takes effect some time after it was asked for.
Die(l) ==
  /\ killed[l] /\ Alive(l)
  /\ Child(l, child[l], "dead")
  /\ Released(l)
  /\ UNCHANGED <<posted, ack>>

ChildStep(l) ==
  \/ CreateShm(l) \/ SizeShm(l) \/ WriteHeader(l) \/ WritePayload(l)
  \/ ChildUnlinksDone(l) \/ PostDone(l) \/ PostDoneFails(l) \/ OpenAck(l)
  \/ HearAck(l) \/ Leave(l)

Next ==
  \E l \in Launch :
    \/ Start(l) \/ ParentStep(l)
    \/ ChildStep(l) \/ Die(l)
    \/ \E ok \in BOOLEAN : Compile(l, ok)

Spec == Init /\ [][Next]_vars

\* The server and the child run when they can; how long a build takes, and
\* whether it ends, is open.
Fairness ==
  \A l \in Launch :
    /\ WF_vars(ParentStep(l)) /\ WF_vars(ChildStep(l)) /\ WF_vars(Die(l))

FairSpec == Spec /\ Fairness

Returned(l) == parent[l] = "returned"

\* A child that is heard has written its whole answer and ends well by itself.
HeardMeansWhole ==
  \A l \in Launch :
    parent[l] \in {"cleanup", "read", "filling", "returned"} /\ mine[l] # "none"
      => \/ reason[l] = "TIMEOUT"
         \/ reason[l] = "SUCCESS" /\ payload[l] = "whole" /\ ~killed[l]

\* A launch that got as far as waiting leaves no name behind, once its child is
\* gone, whatever the child had got to when it was killed.  One that gave up
\* before (CreateDoneFails) leaves childDone and the shared memory.
NothingLeft ==
  \A l \in Launch :
    Returned(l) /\ mine[l] # "none" /\ ~Alive(l)
      => shm[l] = "none" /\ done[l] = "none" /\ ~ack[l].named

\* No launch returns with a child that runs and was not killed.
NoChildLeft == \A l \in Launch : Returned(l) /\ Alive(l) => killed[l]

\* Launches that do not overlap leave the context of one build: of the one
\* before, or of a child's whole answer; a torn answer leaves it empty.
ContextOfOneBuild ==
  ~overlapped /\ (\A l \in Launch : parent[l] # "filling") =>
    \/ context = {"before"}
    \/ \E l \in Launch : status[l] = "built" /\ context = {l}
    \/ context = {} /\ \E l \in Launch : status[l] = "threw"

\* Every launch returns and every child ends, a build that hangs included,
\* unless reading a shared memory without a byte kills the server.
LaunchEnds ==
  \A l \in Launch : parent[l] = "launched" ~> crashed \/ (Returned(l) /\ ~Alive(l))

\* Contradicted: a child that has posted childDone and waits to be let go is not
\* timed out.
AnswerHeard ==
  [][\A l \in Launch :
       parent[l] = "waiting" /\ parent'[l] = "timedout" => child[l] # "waiting"]_vars
==============================================================================
