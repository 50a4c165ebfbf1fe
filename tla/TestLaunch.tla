------------------------------ MODULE TestLaunch ------------------------------
(***************************************************************************)
(* The test runner: launch_test_with_retries on the threads of a pool      *)
(* (lang/libs/test/src/runner.ch) and launch_test for POSIX systems        *)
(* (lang/libs/test/posix/launch.ch).                                       *)
(*                                                                         *)
(* Each test runs in a process of its own, which reports failed            *)
(* expectations over a socket pair and crashes through its exit status.    *)
(* The socket's ends are inherited by every process spawned while they are *)
(* open in the parent, and the end of the messages is seen when the last   *)
(* holder of the child's end has gone.                                     *)
(***************************************************************************)
EXTENDS Integers, FiniteSets

CONSTANTS
    Test,           \* the tests
    Threads,        \* worker threads of the pool
    Retry,          \* Retry[t]: the argument of @test.retry, 0 without one
    PassOnCrash,    \* the tests annotated @test.pass_on_crash
    SpawnMayFail,   \* may socketpair or posix_spawn fail?
    Parent          \* the runner's own process

ASSUME ConstantsAssumption ==
    /\ Threads \in Nat \ {0}
    /\ Retry \in [Test -> Nat]
    /\ PassOnCrash \subseteq Test
    /\ SpawnMayFail \in BOOLEAN
    /\ Parent \notin Test

VARIABLES
    phase,      \* phase[t]: where the thread that launches t is
    left,       \* left[t]: tries
    launches,   \* launches[t]: launches so far
    timedOut,   \* timed_out
    failed,     \* TestFunctionState.has_failed
    child,      \* child[t]: "none", "run", "exiting", "zombie" or "reaped"
    status,     \* its exit status, "ok" or "bad"
    message,    \* an error log is in t's socket, not yet read
    holders,    \* the processes that hold the child's end of t's socket
    \* The next two only observe.
    broken,     \* the last launch's process failed
    everFailed  \* some launch's process failed, or was out of time

thread == <<phase, left, launches, timedOut>>
process == <<child, status, message, holders>>
observed == <<broken, everFailed>>
vars == <<thread, failed, process, observed>>

Phases == {"queued", "start", "open", "spawned", "top", "check", "close", "wait",
           "lost", "returned", "done"}

TypeOK ==
    /\ phase \in [Test -> Phases]
    /\ left \in [Test -> Int]
    /\ launches \in [Test -> Nat]
    /\ child \in [Test -> {"none", "run", "exiting", "zombie", "reaped"}]
    /\ status \in [Test -> {"ok", "bad"}]
    /\ holders \in [Test -> SUBSET (Test \cup {Parent})]
    /\ {timedOut, failed, message, broken, everFailed} \subseteq [Test -> BOOLEAN]

Init ==
    /\ phase = [t \in Test |-> "queued"]
    /\ left = Retry
    /\ launches = [t \in Test |-> 0]
    /\ timedOut = [t \in Test |-> FALSE]
    /\ failed = [t \in Test |-> FALSE]
    /\ child = [t \in Test |-> "none"]
    /\ status = [t \in Test |-> "ok"]
    /\ message = [t \in Test |-> FALSE]
    /\ holders = [t \in Test |-> {}]
    /\ broken = [t \in Test |-> FALSE]
    /\ everFailed = [t \in Test |-> FALSE]

Go(t, p) == phase' = [phase EXCEPT ![t] = p]
Fail(t) == failed' = [failed EXCEPT ![t] = TRUE]

-----------------------------------------------------------------------------
\* The thread that launches t.

\* The pool hands t's job to a free thread (run_tests).
Take(t) ==
    /\ phase[t] = "queued"
    /\ Cardinality({u \in Test : phase[u] \notin {"queued", "done"}}) < Threads
    /\ Go(t, "start")
    /\ UNCHANGED <<left, launches, timedOut, failed, process, observed>>

\* launch_test up to the socket pair.  The state's locals start afresh, has_failed
\* keeps the value it has.
OpenSocket(t) ==
    /\ phase[t] = "start"
    /\ launches' = [launches EXCEPT ![t] = @ + 1]
    /\ timedOut' = [timedOut EXCEPT ![t] = FALSE]
    /\ child' = [child EXCEPT ![t] = "none"]
    /\ message' = [message EXCEPT ![t] = FALSE]
    /\ broken' = [broken EXCEPT ![t] = FALSE]
    /\ \/ /\ Go(t, "open")
          /\ holders' = [holders EXCEPT ![t] = {Parent}]
       \/ /\ SpawnMayFail
          /\ Go(t, "returned")
          /\ holders' = [holders EXCEPT ![t] = {}]
    /\ UNCHANGED <<left, failed, status, everFailed>>

\* posix_spawn: the new process gets a copy of every descriptor that is open in
\* the runner, sockets of other tests included; only its own sv[0] is closed in
\* it.
Spawn(t) ==
    /\ phase[t] = "open"
    /\ \/ /\ child' = [child EXCEPT ![t] = "run"]
          /\ holders' = [u \in Test |-> IF Parent \in holders[u]
                                        THEN holders[u] \cup {t} ELSE holders[u]]
          /\ Go(t, "spawned")
       \/ /\ SpawnMayFail
          /\ holders' = [holders EXCEPT ![t] = @ \ {Parent}]
          /\ Go(t, "returned")
          /\ UNCHANGED child
    /\ UNCHANGED <<left, launches, timedOut, failed, status, message, observed>>

\* close(sv[1])
CloseChildEnd(t) ==
    /\ phase[t] = "spawned"
    /\ holders' = [holders EXCEPT ![t] = @ \ {Parent}]
    /\ Go(t, "top")
    /\ UNCHANGED <<left, launches, timedOut, failed, child, status, message, observed>>

\* Mutant: the process is given up and not killed.
TimeOutNoKill(t) ==
    /\ phase[t] = "top"
    /\ timedOut' = [timedOut EXCEPT ![t] = TRUE]
    /\ Fail(t)
    /\ everFailed' = [everFailed EXCEPT ![t] = TRUE]
    /\ Go(t, "close")
    /\ UNCHANGED <<left, launches, process, broken>>

\* The top of the read loop, when the time is over.
TimeOut(t) ==
    /\ phase[t] = "top"
    /\ timedOut' = [timedOut EXCEPT ![t] = TRUE]
    /\ Fail(t)
    /\ everFailed' = [everFailed EXCEPT ![t] = TRUE]
    /\ Go(t, "close")
    \* kill(pid, SIGKILL)
    /\ IF child[t] = "run"
       THEN /\ child' = [child EXCEPT ![t] = "exiting"]
            /\ status' = [status EXCEPT ![t] = "bad"]
            /\ holders' = [u \in Test |-> holders[u] \ {t}]
       ELSE UNCHANGED <<child, status, holders>>
    /\ UNCHANGED <<left, launches, message, broken>>

\* poll has data: the message is read and processed.
ReadMessage(t) ==
    /\ phase[t] = "top"
    /\ message[t]
    /\ message' = [message EXCEPT ![t] = FALSE]
    /\ Fail(t)
    /\ UNCHANGED <<thread, child, status, holders, observed>>

\* Mutant: a hang-up of the other side ends the loop, messages or not.
ReadEndFirst(t) ==
    /\ phase[t] = "top"
    /\ holders[t] = {}
    /\ Go(t, "close")
    /\ UNCHANGED <<left, launches, timedOut, failed, process, observed>>

\* poll has the end of the messages: read_exact returns 0.
ReadEnd(t) ==
    /\ phase[t] = "top"
    /\ ~message[t] /\ holders[t] = {}
    /\ Go(t, "close")
    /\ UNCHANGED <<left, launches, timedOut, failed, process, observed>>

\* poll has nothing for 100 ms.
PollNothing(t) ==
    /\ phase[t] = "top"
    /\ ~message[t] /\ holders[t] # {}
    /\ Go(t, "check")
    /\ UNCHANGED <<left, launches, timedOut, failed, process, observed>>

\* Mutant: the loop goes on after the process has been reaped.
CheckAliveGoOn(t) ==
    /\ phase[t] = "check"
    /\ child' = IF child[t] = "zombie" THEN [child EXCEPT ![t] = "reaped"] ELSE child
    /\ Go(t, "top")
    /\ UNCHANGED <<left, launches, timedOut, failed, status, message, holders, observed>>

\* waitpid(WNOHANG): a process that has ended is reaped here, and its status is
\* not looked at.
CheckAlive(t) ==
    /\ phase[t] = "check"
    /\ IF child[t] = "zombie"
       THEN Go(t, "close") /\ child' = [child EXCEPT ![t] = "reaped"]
       ELSE Go(t, "top") /\ UNCHANGED child
    /\ UNCHANGED <<left, launches, timedOut, failed, status, message, holders, observed>>

\* close(parent_fd), and on to the blocking waitpid.
CloseSocket(t) ==
    /\ phase[t] = "close"
    /\ Go(t, "wait")
    /\ UNCHANGED <<left, launches, timedOut, failed, process, observed>>

\* Mutant: a process killed for its time is not waited for.
WaitForProcessInTime(t) ==
    /\ phase[t] = "wait"
    /\ child[t] \in {"zombie", "reaped"} \/ timedOut[t]
    /\ child' = IF timedOut[t] THEN child ELSE [child EXCEPT ![t] = "reaped"]
    /\ IF /\ child[t] = "zombie" /\ ~timedOut[t]
          /\ status[t] = "bad" /\ t \notin PassOnCrash
       THEN Fail(t) ELSE UNCHANGED failed
    /\ Go(t, "returned")
    /\ UNCHANGED <<left, launches, timedOut, status, message, holders, observed>>

\* Mutant: the status of whichever process has ended is taken for t's.
WaitForAnyProcess(t) ==
    /\ phase[t] = "wait"
    /\ \E u \in Test :
          /\ child[u] = "zombie" \/ (u = t /\ child[t] = "reaped")
          /\ child' = [child EXCEPT ![u] = "reaped"]
          /\ IF /\ child[u] = "zombie" /\ ~timedOut[t]
                /\ status[u] = "bad" /\ t \notin PassOnCrash
             THEN Fail(t) ELSE UNCHANGED failed
    /\ Go(t, "returned")
    /\ UNCHANGED <<left, launches, timedOut, status, message, holders, observed>>

\* waitpid for t's process, which fails at once when CheckAlive has reaped it.
WaitForProcess(t) ==
    /\ phase[t] = "wait"
    /\ child[t] \in {"zombie", "reaped"}
    /\ child' = [child EXCEPT ![t] = "reaped"]
    /\ IF /\ child[t] = "zombie" /\ ~timedOut[t]
          /\ status[t] = "bad" /\ t \notin PassOnCrash
       THEN Fail(t) ELSE UNCHANGED failed
    /\ Go(t, "returned")
    /\ UNCHANGED <<left, launches, timedOut, status, message, holders, observed>>

\* launch_test_with_retries between two launches.
NextTry(t) ==
    /\ phase[t] = "returned"
    /\ left' = [left EXCEPT ![t] = @ - 1]
    /\ Go(t, IF left[t] - 1 > 1 /\ failed[t] THEN "start" ELSE "done")
    /\ UNCHANGED <<launches, timedOut, failed, process, observed>>

-----------------------------------------------------------------------------
\* The process of t.

\* An expectation fails: TestEnvImpl::send_message with an error log.
ReportError(t) ==
    /\ child[t] = "run"
    /\ ~broken[t]
    /\ message' = [message EXCEPT ![t] = TRUE]
    /\ broken' = [broken EXCEPT ![t] = TRUE]
    /\ everFailed' = [everFailed EXCEPT ![t] = TRUE]
    /\ UNCHANGED <<thread, failed, child, status, holders>>

\* The process ends, at the end of the test or in a crash: first its descriptors
\* are closed, then its parent can wait for it.
Exit(t) ==
    /\ child[t] = "run"
    /\ child' = [child EXCEPT ![t] = "exiting"]
    /\ holders' = [u \in Test |-> holders[u] \ {t}]
    /\ \E s \in {"ok", "bad"} :
          /\ status' = [status EXCEPT ![t] = s]
          /\ LET crash == s = "bad" /\ t \notin PassOnCrash
             IN  /\ broken' = [broken EXCEPT ![t] = @ \/ crash]
                 /\ everFailed' = [everFailed EXCEPT ![t] = @ \/ crash]
    /\ UNCHANGED <<thread, failed, message>>

BecomeZombie(t) ==
    /\ child[t] = "exiting"
    /\ child' = [child EXCEPT ![t] = "zombie"]
    /\ UNCHANGED <<thread, failed, status, message, holders, observed>>

-----------------------------------------------------------------------------

LaunchStep(t) ==
    \/ Take(t) \/ OpenSocket(t) \/ Spawn(t) \/ CloseChildEnd(t)
    \/ ReadMessage(t) \/ ReadEnd(t) \/ PollNothing(t) \/ CheckAlive(t)
    \/ CloseSocket(t) \/ WaitForProcess(t) \/ NextTry(t)

AllDone == \A t \in Test : phase[t] = "done"

Next ==
    \/ \E t \in Test : LaunchStep(t) \/ TimeOut(t)
    \/ \E t \in Test : ReportError(t) \/ Exit(t) \/ BecomeZombie(t)
    \/ AllDone /\ UNCHANGED vars

\* Threads are scheduled, the system completes the end of a process, and time
\* passes: a loop that comes to its top again and again finds its time over.
\* A test itself may hang.
Fairness ==
    \A t \in Test :
        /\ WF_vars(LaunchStep(t))
        /\ SF_vars(TimeOut(t))
        /\ WF_vars(BecomeZombie(t))

Spec == Init /\ [][Next]_vars /\ Fairness

-----------------------------------------------------------------------------
\* Properties.

\* A test is reported as failed only if one of its own processes failed or ran
\* out of time, whatever the processes of the other tests did meanwhile.
BlameIsDeserved == \A t \in Test : failed[t] => everFailed[t]

\* The failure of a process that CheckAlive has not reaped is known when its
\* status is: every message is read before the end of the messages is, and what
\* an earlier launch left in has_failed is not lost.
FailureKnownAtEnd ==
    \A t \in Test :
        phase[t] = "wait" /\ broken[t] /\ child[t] = "zombie"
            => failed[t] \/ (status[t] = "bad" /\ t \notin PassOnCrash)

\* When launch_test returns, no process of its test is left, running or zombie.
NoProcessLeft ==
    \A t \in Test : phase[t] \in {"returned", "done"} => child[t] \in {"none", "reaped"}

\* The pid that a time out would kill is still that of the test's process.
KillsOwnProcess == \A t \in Test : phase[t] = "top" => child[t] # "reaped"

\* Every launch ends, though tests may hang: none waits for ever in waitpid, or
\* for the end of messages that another test's process holds back.
LaunchesEnd == <>AllDone
=============================================================================
