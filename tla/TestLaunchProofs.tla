--------------------------- MODULE TestLaunchProofs ---------------------------
(***************************************************************************)
(* Who is blamed and what is left behind in TestLaunch, for every set of   *)
(* tests, every number of threads and every number of tries.               *)
(***************************************************************************)
EXTENDS TestLaunch, TLAPS

\* Where the thread of t is fits what has become of t's process.
ProcessAtPhase(t) ==
    /\ phase[t] \in {"queued", "open"} => child[t] = "none"
    /\ phase[t] \in {"start", "returned", "done"} => child[t] \in {"none", "reaped"}
    /\ phase[t] \in {"spawned", "top", "check"} => child[t] \in {"run", "exiting", "zombie"}
    /\ phase[t] \in {"close", "wait"} => child[t] # "none"

\* A process that runs holds the child's end of its socket; the runner holds it
\* until it has closed it.
RunningHolds(t) ==
    /\ child[t] = "run" => t \in holders[t]
    /\ phase[t] = "open" => Parent \in holders[t]

\* What the runner may blame t for has happened in one of t's processes.
EvidenceIsOwn(t) ==
    /\ message[t] => everFailed[t]
    /\ status[t] = "bad" /\ t \notin PassOnCrash => everFailed[t]
    /\ failed[t] => everFailed[t]

\* A failure is on its way to the runner, or is known, or is in the exit status.
FailureNotLost(t) ==
    /\ phase[t] = "open" => ~broken[t]
    /\ broken[t] =>
          \/ message[t] \/ failed[t]
          \/ child[t] # "run" /\ status[t] = "bad" /\ t \notin PassOnCrash

\* The read loop is left with the failure known, with the process reaped, or
\* with nothing more to come.
LoopLeft(t) ==
    phase[t] \in {"close", "wait"} =>
        failed[t] \/ child[t] = "reaped" \/ (child[t] # "run" /\ ~message[t])

\* How often t has been launched, and may be.
TriesCounted(t) ==
    /\ left[t] = Retry[t] - launches[t]
                 + (IF phase[t] \in {"queued", "start", "done"} THEN 0 ELSE 1)
    /\ phase[t] = "queued" => launches[t] = 0
    /\ phase[t] = "start" => launches[t] = 0 \/ launches[t] + 1 < Retry[t]
    /\ launches[t] <= 1 \/ launches[t] < Retry[t]

\* The invariant of one test.
TestInv(t) ==
    /\ ProcessAtPhase(t) /\ RunningHolds(t) /\ EvidenceIsOwn(t)
    /\ FailureNotLost(t) /\ LoopLeft(t) /\ TriesCounted(t)

\* The inductive invariant.
IInv == TypeOK /\ \A t \in Test : TestInv(t)

-----------------------------------------------------------------------------
\* What a step of t leaves of the state of another test u.
SameButHolders(u) ==
    /\ phase'[u] = phase[u] /\ left'[u] = left[u] /\ launches'[u] = launches[u]
    /\ timedOut'[u] = timedOut[u] /\ failed'[u] = failed[u] /\ child'[u] = child[u]
    /\ status'[u] = status[u] /\ message'[u] = message[u]
    /\ broken'[u] = broken[u] /\ everFailed'[u] = everFailed[u]

\* Processes of t come and go as holders of other sockets, u's own do not.
OnlyOf(t) ==
    \A u \in Test : u # t =>
        SameButHolders(u) /\ \A p \in {u, Parent} : p \in holders'[u] <=> p \in holders[u]

\* The other tests keep their invariant.
LEMMA OthersKeep ==
    ASSUME NEW t \in Test, OnlyOf(t), NEW u \in Test, u # t, TestInv(u) PROVE TestInv(u)'
    BY DEF OnlyOf, SameButHolders, TestInv, ProcessAtPhase, RunningHolds, EvidenceIsOwn,
           FailureNotLost, LoopLeft, TriesCounted

\* The pool hands t's job to a thread.
LEMMA TakeInv ==
    ASSUME TypeOK, NEW t \in Test, TestInv(t), Take(t) PROVE TypeOK' /\ OnlyOf(t) /\ TestInv(t)'
<1>1. TypeOK'
    BY DEF TypeOK, Take, Go, process, observed, Phases
<1>2. OnlyOf(t)
    BY ConstantsAssumption DEF OnlyOf, SameButHolders, Take, Go, process, observed
<1>3. ProcessAtPhase(t)'
    BY DEF TestInv, ProcessAtPhase, Take, Go, process
<1>4. RunningHolds(t)'
    BY ConstantsAssumption DEF TestInv, RunningHolds, Take, Go, process
<1>5. EvidenceIsOwn(t)'
    BY DEF TestInv, EvidenceIsOwn, Take, process, observed
<1>6. FailureNotLost(t)'
    BY DEF TestInv, FailureNotLost, Take, Go, process, observed
<1>7. LoopLeft(t)'
    BY DEF LoopLeft, Take, Go
<1>8. TriesCounted(t)'
    BY ConstantsAssumption DEF TestInv, TriesCounted, Take, Go
<1> QED
    BY <1>1, <1>2, <1>3, <1>4, <1>5, <1>6, <1>7, <1>8 DEF TestInv

\* launch_test up to the socket pair.
LEMMA OpenSocketInv ==
    ASSUME TypeOK, NEW t \in Test, TestInv(t), OpenSocket(t)
    PROVE  TypeOK' /\ OnlyOf(t) /\ TestInv(t)'
<1>1. TypeOK'
    BY DEF TypeOK, OpenSocket, Go, Phases
<1>2. OnlyOf(t)
    BY ConstantsAssumption DEF TypeOK, OnlyOf, SameButHolders, OpenSocket, Go
<1>3. ProcessAtPhase(t)'
    BY DEF TypeOK, ProcessAtPhase, OpenSocket, Go
<1>4. RunningHolds(t)'
    BY ConstantsAssumption DEF TypeOK, RunningHolds, OpenSocket, Go
<1>5. EvidenceIsOwn(t)'
    BY DEF TestInv, EvidenceIsOwn, OpenSocket
<1>6. FailureNotLost(t)'
    BY DEF TypeOK, FailureNotLost, OpenSocket
<1>7. LoopLeft(t)'
    BY DEF TypeOK, LoopLeft, OpenSocket
<1>8. TriesCounted(t)'
  <2>1. /\ phase[t] = "start" /\ phase'[t] \in {"open", "returned"}
        /\ launches'[t] = launches[t] + 1 /\ left'[t] = left[t]
      BY DEF TypeOK, OpenSocket, Go
  <2>2. launches[t] \in Nat /\ left[t] \in Int /\ Retry[t] \in Nat
      BY ConstantsAssumption DEF TypeOK
  <2> QED
      BY <2>1, <2>2 DEF TestInv, TriesCounted
<1> QED
    BY <1>1, <1>2, <1>3, <1>4, <1>5, <1>6, <1>7, <1>8 DEF TestInv

\* posix_spawn.
LEMMA SpawnInv ==
    ASSUME TypeOK, NEW t \in Test, TestInv(t), Spawn(t)
    PROVE  TypeOK' /\ OnlyOf(t) /\ TestInv(t)'
<1>1. TypeOK'
    BY DEF TypeOK, Spawn, Go, observed, Phases
<1>2. OnlyOf(t)
    BY ConstantsAssumption DEF TypeOK, OnlyOf, SameButHolders, Spawn, Go, observed
<1>3. ProcessAtPhase(t)'
    BY DEF TypeOK, TestInv, ProcessAtPhase, Spawn, Go
<1>4. RunningHolds(t)'
    BY ConstantsAssumption DEF TypeOK, TestInv, RunningHolds, Spawn, Go
<1>5. EvidenceIsOwn(t)'
    BY DEF TestInv, EvidenceIsOwn, Spawn, observed
<1>6. FailureNotLost(t)'
    BY DEF TestInv, FailureNotLost, Spawn, observed
<1>7. LoopLeft(t)'
    BY DEF TypeOK, LoopLeft, Spawn, Go
<1>8. TriesCounted(t)'
    BY ConstantsAssumption DEF TypeOK, TestInv, TriesCounted, Spawn, Go
<1> QED
    BY <1>1, <1>2, <1>3, <1>4, <1>5, <1>6, <1>7, <1>8 DEF TestInv

\* The runner closes the child's end.
LEMMA CloseChildEndInv ==
    ASSUME TypeOK, NEW t \in Test, TestInv(t), CloseChildEnd(t)
    PROVE  TypeOK' /\ OnlyOf(t) /\ TestInv(t)'
<1>1. TypeOK'
    BY DEF TypeOK, CloseChildEnd, Go, observed, Phases
<1>2. OnlyOf(t)
    BY ConstantsAssumption DEF OnlyOf, SameButHolders, CloseChildEnd, Go, observed
<1>3. ProcessAtPhase(t)'
    BY DEF TestInv, ProcessAtPhase, CloseChildEnd, Go
<1>4. RunningHolds(t)'
    BY ConstantsAssumption DEF TestInv, RunningHolds, CloseChildEnd, Go
<1>5. EvidenceIsOwn(t)'
    BY DEF TestInv, EvidenceIsOwn, CloseChildEnd, observed
<1>6. FailureNotLost(t)'
    BY DEF TestInv, FailureNotLost, CloseChildEnd, Go, observed
<1>7. LoopLeft(t)'
    BY DEF LoopLeft, CloseChildEnd, Go
<1>8. TriesCounted(t)'
    BY ConstantsAssumption DEF TestInv, TriesCounted, CloseChildEnd, Go
<1> QED
    BY <1>1, <1>2, <1>3, <1>4, <1>5, <1>6, <1>7, <1>8 DEF TestInv

\* The time of t is over: its process is killed.
LEMMA TimeOutInv ==
    ASSUME TypeOK, NEW t \in Test, TestInv(t), TimeOut(t)
    PROVE  TypeOK' /\ OnlyOf(t) /\ TestInv(t)'
<1>1. TypeOK'
    BY DEF TypeOK, TimeOut, Go, Fail, Phases
<1>2. OnlyOf(t)
    BY ConstantsAssumption DEF TypeOK, OnlyOf, SameButHolders, TimeOut, Go, Fail
<1>3. ProcessAtPhase(t)'
    BY DEF TypeOK, TestInv, ProcessAtPhase, TimeOut, Go
<1>4. RunningHolds(t)'
    BY ConstantsAssumption DEF TypeOK, RunningHolds, TimeOut, Go
<1>5. EvidenceIsOwn(t)'
    BY DEF TypeOK, EvidenceIsOwn, TimeOut
<1>6. FailureNotLost(t)'
    BY DEF TestInv, FailureNotLost, TimeOut, Go, Fail
<1>7. LoopLeft(t)'
    BY DEF TypeOK, LoopLeft, TimeOut, Fail
<1>8. TriesCounted(t)'
    BY ConstantsAssumption DEF TestInv, TriesCounted, TimeOut, Go
<1> QED
    BY <1>1, <1>2, <1>3, <1>4, <1>5, <1>6, <1>7, <1>8 DEF TestInv

\* A message is read and processed.
LEMMA ReadMessageInv ==
    ASSUME TypeOK, NEW t \in Test, TestInv(t), ReadMessage(t)
    PROVE  TypeOK' /\ OnlyOf(t) /\ TestInv(t)'
<1>1. TypeOK'
    BY DEF TypeOK, ReadMessage, Fail, thread, observed
<1>2. OnlyOf(t)
    BY ConstantsAssumption DEF OnlyOf, SameButHolders, ReadMessage, Fail, thread, observed
<1>3. ProcessAtPhase(t)'
    BY DEF TestInv, ProcessAtPhase, ReadMessage, thread
<1>4. RunningHolds(t)'
    BY ConstantsAssumption DEF TestInv, RunningHolds, ReadMessage, thread
<1>5. EvidenceIsOwn(t)'
    BY DEF TestInv, EvidenceIsOwn, ReadMessage, observed
<1>6. FailureNotLost(t)'
    BY DEF TypeOK, FailureNotLost, ReadMessage, Fail, thread
<1>7. LoopLeft(t)'
    BY DEF LoopLeft, ReadMessage, thread
<1>8. TriesCounted(t)'
    BY ConstantsAssumption DEF TestInv, TriesCounted, ReadMessage, thread
<1> QED
    BY <1>1, <1>2, <1>3, <1>4, <1>5, <1>6, <1>7, <1>8 DEF TestInv

\* The end of the messages.
LEMMA ReadEndInv ==
    ASSUME TypeOK, NEW t \in Test, TestInv(t), ReadEnd(t)
    PROVE  TypeOK' /\ OnlyOf(t) /\ TestInv(t)'
<1>1. TypeOK'
    BY DEF TypeOK, ReadEnd, Go, process, observed, Phases
<1>2. OnlyOf(t)
    BY ConstantsAssumption DEF OnlyOf, SameButHolders, ReadEnd, Go, process, observed
<1>3. ProcessAtPhase(t)'
    BY DEF TestInv, ProcessAtPhase, ReadEnd, Go, process
<1>4. RunningHolds(t)'
    BY ConstantsAssumption DEF TestInv, RunningHolds, ReadEnd, Go, process
<1>5. EvidenceIsOwn(t)'
    BY DEF TestInv, EvidenceIsOwn, ReadEnd, process, observed
<1>6. FailureNotLost(t)'
    BY DEF TestInv, FailureNotLost, ReadEnd, Go, process, observed
<1>7. LoopLeft(t)'
    BY DEF TestInv, LoopLeft, RunningHolds, ReadEnd, process
<1>8. TriesCounted(t)'
    BY ConstantsAssumption DEF TestInv, TriesCounted, ReadEnd, Go
<1> QED
    BY <1>1, <1>2, <1>3, <1>4, <1>5, <1>6, <1>7, <1>8 DEF TestInv

\* 100 ms without a message.
LEMMA PollNothingInv ==
    ASSUME TypeOK, NEW t \in Test, TestInv(t), PollNothing(t)
    PROVE  TypeOK' /\ OnlyOf(t) /\ TestInv(t)'
<1>1. TypeOK'
    BY DEF TypeOK, PollNothing, Go, process, observed, Phases
<1>2. OnlyOf(t)
    BY ConstantsAssumption DEF OnlyOf, SameButHolders, PollNothing, Go, process, observed
<1>3. ProcessAtPhase(t)'
    BY DEF TestInv, ProcessAtPhase, PollNothing, Go, process
<1>4. RunningHolds(t)'
    BY ConstantsAssumption DEF TestInv, RunningHolds, PollNothing, Go, process
<1>5. EvidenceIsOwn(t)'
    BY DEF TestInv, EvidenceIsOwn, PollNothing, process, observed
<1>6. FailureNotLost(t)'
    BY DEF TestInv, FailureNotLost, PollNothing, Go, process, observed
<1>7. LoopLeft(t)'
    BY DEF LoopLeft, PollNothing, Go
<1>8. TriesCounted(t)'
    BY ConstantsAssumption DEF TestInv, TriesCounted, PollNothing, Go
<1> QED
    BY <1>1, <1>2, <1>3, <1>4, <1>5, <1>6, <1>7, <1>8 DEF TestInv

\* waitpid with WNOHANG.
LEMMA CheckAliveInv ==
    ASSUME TypeOK, NEW t \in Test, TestInv(t), CheckAlive(t)
    PROVE  TypeOK' /\ OnlyOf(t) /\ TestInv(t)'
<1>1. TypeOK'
    BY DEF TypeOK, CheckAlive, Go, observed, Phases
<1>2. OnlyOf(t)
    BY ConstantsAssumption DEF TypeOK, OnlyOf, SameButHolders, CheckAlive, Go, observed
<1>3. ProcessAtPhase(t)'
    BY DEF TypeOK, TestInv, ProcessAtPhase, CheckAlive, Go
<1>4. RunningHolds(t)'
    BY ConstantsAssumption DEF TypeOK, TestInv, RunningHolds, CheckAlive, Go
<1>5. EvidenceIsOwn(t)'
    BY DEF TestInv, EvidenceIsOwn, CheckAlive, observed
<1>6. FailureNotLost(t)'
    BY DEF TypeOK, TestInv, FailureNotLost, CheckAlive, Go, observed
<1>7. LoopLeft(t)'
    BY DEF TypeOK, LoopLeft, CheckAlive, Go
<1>8. TriesCounted(t)'
    BY ConstantsAssumption DEF TypeOK, TestInv, TriesCounted, CheckAlive, Go
<1> QED
    BY <1>1, <1>2, <1>3, <1>4, <1>5, <1>6, <1>7, <1>8 DEF TestInv

\* The runner's end is closed.
LEMMA CloseSocketInv ==
    ASSUME TypeOK, NEW t \in Test, TestInv(t), CloseSocket(t)
    PROVE  TypeOK' /\ OnlyOf(t) /\ TestInv(t)'
<1>1. TypeOK'
    BY DEF TypeOK, CloseSocket, Go, process, observed, Phases
<1>2. OnlyOf(t)
    BY ConstantsAssumption DEF OnlyOf, SameButHolders, CloseSocket, Go, process, observed
<1>3. ProcessAtPhase(t)'
    BY DEF TestInv, ProcessAtPhase, CloseSocket, Go, process
<1>4. RunningHolds(t)'
    BY ConstantsAssumption DEF TestInv, RunningHolds, CloseSocket, Go, process
<1>5. EvidenceIsOwn(t)'
    BY DEF TestInv, EvidenceIsOwn, CloseSocket, process, observed
<1>6. FailureNotLost(t)'
    BY DEF TestInv, FailureNotLost, CloseSocket, Go, process, observed
<1>7. LoopLeft(t)'
    BY DEF TestInv, LoopLeft, CloseSocket, process
<1>8. TriesCounted(t)'
    BY ConstantsAssumption DEF TestInv, TriesCounted, CloseSocket, Go
<1> QED
    BY <1>1, <1>2, <1>3, <1>4, <1>5, <1>6, <1>7, <1>8 DEF TestInv

\* waitpid that blocks.
LEMMA WaitForProcessInv ==
    ASSUME TypeOK, NEW t \in Test, TestInv(t), WaitForProcess(t)
    PROVE  TypeOK' /\ OnlyOf(t) /\ TestInv(t)'
<1>1. TypeOK'
  <2>1. failed' \in [Test -> BOOLEAN]
      BY DEF TypeOK, WaitForProcess, Fail
  <2> QED
      BY <2>1 DEF TypeOK, WaitForProcess, Go, Phases, observed
<1>2. OnlyOf(t)
    BY ConstantsAssumption DEF TypeOK, OnlyOf, SameButHolders, WaitForProcess, Go, Fail, observed
<1>3. ProcessAtPhase(t)'
    BY DEF TypeOK, ProcessAtPhase, WaitForProcess, Go
<1>4. RunningHolds(t)'
    BY ConstantsAssumption DEF RunningHolds, WaitForProcess, Go
<1>5. EvidenceIsOwn(t)'
    BY DEF TestInv, EvidenceIsOwn, WaitForProcess, observed
<1>6. FailureNotLost(t)'
    BY DEF TestInv, FailureNotLost, WaitForProcess, Go, observed
<1>7. LoopLeft(t)'
    BY DEF TypeOK, LoopLeft, WaitForProcess
<1>8. TriesCounted(t)'
    BY ConstantsAssumption DEF TestInv, TriesCounted, WaitForProcess, Go
<1> QED
    BY <1>1, <1>2, <1>3, <1>4, <1>5, <1>6, <1>7, <1>8 DEF TestInv

\* launch_test_with_retries between two launches.
LEMMA NextTryInv ==
    ASSUME TypeOK, NEW t \in Test, TestInv(t), NextTry(t)
    PROVE  TypeOK' /\ OnlyOf(t) /\ TestInv(t)'
<1>1. TypeOK'
    BY DEF TypeOK, NextTry, Go, process, observed, Phases
<1>2. OnlyOf(t)
    BY ConstantsAssumption DEF OnlyOf, SameButHolders, NextTry, Go, process, observed
<1>3. ProcessAtPhase(t)'
    BY DEF TestInv, ProcessAtPhase, NextTry, Go, process
<1>4. RunningHolds(t)'
    BY ConstantsAssumption DEF TestInv, RunningHolds, NextTry, Go, process
<1>5. EvidenceIsOwn(t)'
    BY DEF TestInv, EvidenceIsOwn, NextTry, process, observed
<1>6. FailureNotLost(t)'
    BY DEF TestInv, FailureNotLost, NextTry, Go, process, observed
<1>7. LoopLeft(t)'
    BY DEF LoopLeft, NextTry, Go
<1>8. TriesCounted(t)'
  <2>1. /\ phase[t] = "returned" /\ launches'[t] = launches[t] /\ left'[t] = left[t] - 1
        /\ phase'[t] = IF left[t] - 1 > 1 /\ failed[t] THEN "start" ELSE "done"
      BY DEF TypeOK, NextTry, Go
  <2>2. launches[t] \in Nat /\ left[t] \in Int /\ Retry[t] \in Nat
      BY ConstantsAssumption DEF TypeOK
  <2> QED
      BY <2>1, <2>2 DEF TestInv, TriesCounted
<1> QED
    BY <1>1, <1>2, <1>3, <1>4, <1>5, <1>6, <1>7, <1>8 DEF TestInv

\* An expectation fails in t's process.
LEMMA ReportErrorInv ==
    ASSUME TypeOK, NEW t \in Test, TestInv(t), ReportError(t)
    PROVE  TypeOK' /\ OnlyOf(t) /\ TestInv(t)'
<1>1. TypeOK'
    BY DEF TypeOK, ReportError, thread
<1>2. OnlyOf(t)
    BY ConstantsAssumption DEF OnlyOf, SameButHolders, ReportError, thread
<1>3. ProcessAtPhase(t)'
    BY DEF TestInv, ProcessAtPhase, ReportError, thread
<1>4. RunningHolds(t)'
    BY ConstantsAssumption DEF TestInv, RunningHolds, ReportError, thread
<1>5. EvidenceIsOwn(t)'
    BY DEF TypeOK, EvidenceIsOwn, ReportError
<1>6. FailureNotLost(t)'
    BY DEF TypeOK, TestInv, FailureNotLost, ProcessAtPhase, ReportError, thread
<1>7. LoopLeft(t)'
    BY DEF TestInv, LoopLeft, ReportError, thread
<1>8. TriesCounted(t)'
    BY ConstantsAssumption DEF TestInv, TriesCounted, ReportError, thread
<1> QED
    BY <1>1, <1>2, <1>3, <1>4, <1>5, <1>6, <1>7, <1>8 DEF TestInv

\* t's process ends.
LEMMA ExitInv ==
    ASSUME TypeOK, NEW t \in Test, TestInv(t), Exit(t) PROVE TypeOK' /\ OnlyOf(t) /\ TestInv(t)'
<1>1. TypeOK'
    BY DEF TypeOK, Exit, thread
<1>2. OnlyOf(t)
    BY ConstantsAssumption DEF OnlyOf, SameButHolders, Exit, thread
<1>3. ProcessAtPhase(t)'
    BY DEF TestInv, ProcessAtPhase, Exit, thread
<1>4. RunningHolds(t)'
    BY ConstantsAssumption DEF TypeOK, TestInv, RunningHolds, Exit, thread
<1>5. EvidenceIsOwn(t)'
    BY DEF TypeOK, TestInv, EvidenceIsOwn, Exit
<1>6. FailureNotLost(t)'
    BY DEF TypeOK, TestInv, FailureNotLost, ProcessAtPhase, Exit, thread
<1>7. LoopLeft(t)'
    BY DEF TestInv, LoopLeft, Exit, thread
<1>8. TriesCounted(t)'
    BY ConstantsAssumption DEF TestInv, TriesCounted, Exit, thread
<1> QED
    BY <1>1, <1>2, <1>3, <1>4, <1>5, <1>6, <1>7, <1>8 DEF TestInv

\* And can be waited for.
LEMMA BecomeZombieInv ==
    ASSUME TypeOK, NEW t \in Test, TestInv(t), BecomeZombie(t)
    PROVE  TypeOK' /\ OnlyOf(t) /\ TestInv(t)'
<1>1. TypeOK'
    BY DEF TypeOK, BecomeZombie, thread, observed
<1>2. OnlyOf(t)
    BY ConstantsAssumption DEF OnlyOf, SameButHolders, BecomeZombie, thread, observed
<1>3. ProcessAtPhase(t)'
    BY DEF TestInv, ProcessAtPhase, BecomeZombie, thread
<1>4. RunningHolds(t)'
    BY ConstantsAssumption DEF TestInv, RunningHolds, BecomeZombie, thread
<1>5. EvidenceIsOwn(t)'
    BY DEF TestInv, EvidenceIsOwn, BecomeZombie, observed
<1>6. FailureNotLost(t)'
    BY DEF TestInv, FailureNotLost, BecomeZombie, thread, observed
<1>7. LoopLeft(t)'
    BY DEF TestInv, LoopLeft, BecomeZombie, thread
<1>8. TriesCounted(t)'
    BY ConstantsAssumption DEF TestInv, TriesCounted, BecomeZombie, thread
<1> QED
    BY <1>1, <1>2, <1>3, <1>4, <1>5, <1>6, <1>7, <1>8 DEF TestInv

-----------------------------------------------------------------------------
\* Before run_tests.
LEMMA InitIInv == Init => IInv
<1> SUFFICES ASSUME Init PROVE IInv
    OBVIOUS
<1>1. TypeOK
    BY ConstantsAssumption DEF Init, TypeOK, Phases
<1>2. \A t \in Test : TestInv(t)
    BY ConstantsAssumption DEF Init, TestInv, ProcessAtPhase, RunningHolds, EvidenceIsOwn,
       FailureNotLost, LoopLeft, TriesCounted
<1> QED
    BY <1>1, <1>2 DEF IInv

\* Every step of the runner's threads and of the tests' processes.
LEMMA StepIInv == IInv /\ [Next]_vars => IInv'
<1> SUFFICES ASSUME IInv, [Next]_vars PROVE IInv'
    OBVIOUS
<1> USE DEF IInv
<1>1. ASSUME NEW t \in Test,
             \/ LaunchStep(t) \/ TimeOut(t)
             \/ ReportError(t) \/ Exit(t) \/ BecomeZombie(t)
      PROVE  IInv'
  <2>1. TypeOK' /\ OnlyOf(t) /\ TestInv(t)'
      BY <1>1, TakeInv, OpenSocketInv, SpawnInv, CloseChildEndInv, TimeOutInv,
         ReadMessageInv, ReadEndInv, PollNothingInv, CheckAliveInv, CloseSocketInv,
         WaitForProcessInv, NextTryInv, ReportErrorInv, ExitInv, BecomeZombieInv
         DEF LaunchStep
  <2>2. \A u \in Test : TestInv(u)'
      BY <2>1, OthersKeep
  <2> QED
      BY <2>1, <2>2
<1>2. CASE UNCHANGED vars
  <2>1. TypeOK'
      BY <1>2 DEF vars, thread, process, observed, TypeOK
  <2>2. \A u \in Test : TestInv(u)'
      BY <1>2 DEF vars, thread, process, observed, TestInv, ProcessAtPhase, RunningHolds,
         EvidenceIsOwn, FailureNotLost, LoopLeft, TriesCounted
  <2> QED
      BY <2>1, <2>2
<1> QED
    BY <1>1, <1>2 DEF Next

\* The inductive invariant holds in every state of a run of the tests.
THEOREM Invariance == Spec => []IInv
    BY InitIInv, StepIInv, PTL DEF Spec

-----------------------------------------------------------------------------
\* The threads, the processes and their sockets have their types.
THEOREM TypeCorrect == Spec => []TypeOK
    BY Invariance, PTL DEF IInv

\* No test is reported as failed for what the process of another one did: with
\* inherited descriptors and threads in any order, has_failed has its reason in
\* a process of the same test (launch_test).
THEOREM BlameIsDeservedHolds == Spec => []BlameIsDeserved
<1>1. IInv => BlameIsDeserved
    BY DEF IInv, TestInv, EvidenceIsOwn, BlameIsDeserved
<1> QED
    BY <1>1, Invariance, PTL

\* When waitpid is reached with a process that is not reaped, its failure has
\* been read or is in its status: no message is left behind in the socket.
THEOREM FailureKnownAtEndHolds == Spec => []FailureKnownAtEnd
<1>1. IInv => FailureKnownAtEnd
    BY DEF IInv, TestInv, FailureNotLost, LoopLeft, FailureKnownAtEnd
<1> QED
    BY <1>1, Invariance, PTL

\* launch_test returns, by whichever way, with its process reaped or never made.
THEOREM NoProcessLeftHolds == Spec => []NoProcessLeft
<1>1. IInv => NoProcessLeft
    BY DEF IInv, TestInv, ProcessAtPhase, NoProcessLeft
<1> QED
    BY <1>1, Invariance, PTL

\* kill never gets the pid of a process that CheckAlive has reaped.
THEOREM KillsOwnProcessHolds == Spec => []KillsOwnProcess
<1>1. IInv => KillsOwnProcess
    BY DEF IInv, TestInv, ProcessAtPhase, KillsOwnProcess
<1> QED
    BY <1>1, Invariance, PTL

\* How often a test is launched at most.
TriesBounded ==
    \A t \in Test : launches[t] <= IF Retry[t] > 2 THEN Retry[t] - 1 ELSE 1

\* launch_test_with_retries counts down before it compares with 1: a test with
\* @test.retry(n) is launched n - 1 times at most, and one with n <= 2 once.
THEOREM TriesBoundedHolds == Spec => []TriesBounded
<1>1. IInv => TriesBounded
    BY ConstantsAssumption DEF IInv, TypeOK, TestInv, TriesCounted, TriesBounded
<1> QED
    BY <1>1, Invariance, PTL
================================================================================
