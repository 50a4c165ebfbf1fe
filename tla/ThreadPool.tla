------------------------------ MODULE ThreadPool ------------------------------
(***************************************************************************)
(* std.concurrent: create_pool, PoolData, Promise and Future               *)
(* (lang/libs/std/src/concurrency/threadpool.ch).                          *)
(*                                                                         *)
(* Worker threads take tasks from a queue guarded by the pool's mutex and  *)
(* condition variable.  A task submitted with a future shares a heap       *)
(* allocated promise with it; the two sides agree under the promise's own  *)
(* mutex which of them frees it.  What happens between the lock and the    *)
(* unlock of one mutex is one step here; what the code does outside the    *)
(* mutex (reading the value, deleting the promise, running the task) is a  *)
(* step of its own.                                                        *)
(***************************************************************************)
EXTENDS Naturals, Sequences, FiniteSets

CONSTANTS
    Worker,     \* the pool's threads
    Task,       \* the tasks that are submitted, each once
    Valued,     \* those submitted with submit, which get a future
    Client,     \* Client stands for the threads outside the pool
    Parent      \* Parent[t]: the task that submits t, or Client

\* create_pool refuses a pool of no threads.
ASSUME ConstantsAssumption ==
    /\ Worker # {}
    /\ Client \notin Task
    /\ Valued \subseteq Task
    /\ Parent \in [Task -> Task \cup {Client}]

VARIABLES
    q,          \* PoolData.q
    run,        \* PoolData.run
    workers,    \* how far PoolData::delete has come with its threads
    wstate,     \* wstate[w]: where a worker is in worker_main
    wtask,      \* wtask[w]: the task it has taken
    task,       \* task[t]: "none", "queued", "running", "done"
    mem,        \* mem[t]: t's promise: "none", "live" or "freed"
    ready,      \* Promise.ready
    dropped,    \* Promise.future_dropped
    future      \* future[t]: where the owner of t's future is

pool == <<q, run, workers>>
promise == <<mem, ready, dropped>>
vars == <<pool, wstate, wtask, task, promise, future>>

Owner == Task \cup {Client}

TypeOK ==
    /\ q \in Seq(Task)
    /\ run \in BOOLEAN
    /\ workers \in {"working", "joining", "joined"}
    /\ wstate \in [Worker -> {"lock", "wait", "run", "set", "free", "exit"}]
    /\ wtask \in [Worker -> Owner]
    /\ task \in [Task -> {"none", "queued", "running", "done"}]
    /\ mem \in [Task -> {"none", "live", "freed"}]
    /\ ready \in [Task -> BOOLEAN]
    /\ dropped \in [Task -> BOOLEAN]
    /\ future \in [Task -> {"none", "held", "get", "wait", "take", "got",
                            "delete", "dropped"}]

Children(t) == {c \in Task : Parent[c] = t}

\* t's future has been consumed by its owner, or there is none.
Consumed(t) == IF t \in Valued THEN future[t] \in {"got", "dropped"}
               ELSE task[t] # "none"

Init ==
    /\ q = <<>>
    /\ run = TRUE
    /\ workers = "working"
    /\ wstate = [w \in Worker |-> "lock"]
    /\ wtask = [w \in Worker |-> Client]
    /\ task = [t \in Task |-> "none"]
    /\ mem = [t \in Task |-> "none"]
    /\ ready = [t \in Task |-> FALSE]
    /\ dropped = [t \in Task |-> FALSE]
    /\ future = [t \in Task |-> "none"]

-----------------------------------------------------------------------------
\* Submitting.

\* Clients submit before they delete the pool, a task while it runs.
MaySubmit(t) ==
    /\ task[t] = "none"
    /\ IF Parent[t] = Client THEN run
       ELSE \E w \in Worker : wstate[w] = "run" /\ wtask[w] = Parent[t]

\* notify_one: one waiting worker, if there is one, goes back to the lock.
NotifyOne ==
    IF \E w \in Worker : wstate[w] = "wait"
    THEN \E w \in Worker :
            wstate[w] = "wait" /\ wstate' = [wstate EXCEPT ![w] = "lock"]
    ELSE UNCHANGED wstate

\* Mutant: nobody is told.
SubmitSilently(t) ==
    /\ MaySubmit(t)
    /\ q' = Append(q, t)
    /\ task' = [task EXCEPT ![t] = "queued"]
    /\ IF t \in Valued
       THEN mem' = [mem EXCEPT ![t] = "live"] /\ future' = [future EXCEPT ![t] = "held"]
       ELSE UNCHANGED <<mem, future>>
    /\ UNCHANGED <<run, workers, wstate, wtask, ready, dropped>>

\* submit and submit_void.
Submit(t) ==
    /\ MaySubmit(t)
    /\ q' = Append(q, t)
    /\ task' = [task EXCEPT ![t] = "queued"]
    /\ IF t \in Valued
       THEN mem' = [mem EXCEPT ![t] = "live"] /\ future' = [future EXCEPT ![t] = "held"]
       ELSE UNCHANGED <<mem, future>>
    /\ NotifyOne
    /\ UNCHANGED <<run, workers, wtask, ready, dropped>>

-----------------------------------------------------------------------------
\* worker_main.

\* Mutant: a worker that sees run = false leaves whatever is queued.
LockPoolNoDrain(w) ==
    /\ wstate[w] = "lock"
    /\ \/ /\ q # <<>> /\ run
          /\ wtask' = [wtask EXCEPT ![w] = Head(q)]
          /\ wstate' = [wstate EXCEPT ![w] = "run"]
          /\ task' = [task EXCEPT ![Head(q)] = "running"]
          /\ q' = Tail(q)
       \/ /\ q = <<>> /\ run
          /\ wstate' = [wstate EXCEPT ![w] = "wait"]
          /\ UNCHANGED <<q, wtask, task>>
       \/ /\ ~run
          /\ wstate' = [wstate EXCEPT ![w] = "exit"]
          /\ UNCHANGED <<q, wtask, task>>
    /\ UNCHANGED <<run, workers, promise, future>>

\* Under the pool's mutex: take the first task, wait for one, or leave the loop
\* when the pool is going away and nothing is queued.
LockPool(w) ==
    /\ wstate[w] = "lock"
    /\ \/ /\ q # <<>>
          /\ wtask' = [wtask EXCEPT ![w] = Head(q)]
          /\ wstate' = [wstate EXCEPT ![w] = "run"]
          /\ task' = [task EXCEPT ![Head(q)] = "running"]
          /\ q' = Tail(q)
       \/ /\ q = <<>> /\ run
          /\ wstate' = [wstate EXCEPT ![w] = "wait"]
          /\ UNCHANGED <<q, wtask, task>>
       \/ /\ q = <<>> /\ ~run
          /\ wstate' = [wstate EXCEPT ![w] = "exit"]
          /\ UNCHANGED <<q, wtask, task>>
    /\ UNCHANGED <<run, workers, promise, future>>

\* A condition variable may wake a waiter that was not notified.
WakeSpuriously(w) ==
    /\ wstate[w] = "wait"
    /\ wstate' = [wstate EXCEPT ![w] = "lock"]
    /\ UNCHANGED <<pool, wtask, task, promise, future>>

\* The task's function returns: what it submitted, and the futures it kept, are
\* dealt with by then.
Finish(w) ==
    /\ wstate[w] = "run"
    /\ \A c \in Children(wtask[w]) : Consumed(c)
    /\ task' = [task EXCEPT ![wtask[w]] = "done"]
    /\ IF wtask[w] \in Valued
       THEN wstate' = [wstate EXCEPT ![w] = "set"] /\ UNCHANGED wtask
       ELSE /\ wstate' = [wstate EXCEPT ![w] = "lock"]
            /\ wtask' = [wtask EXCEPT ![w] = Client]
    /\ UNCHANGED <<pool, promise, future>>

\* notify_all on the promise's condition variable: the owner of the future is
\* its only waiter.
Notified(t) == IF future[t] = "wait" THEN [future EXCEPT ![t] = "get"] ELSE future

\* Mutant: the worker does not ask whether the future was dropped.
SetPromiseNeverFree(w) ==
    /\ wstate[w] = "set"
    /\ ready' = [ready EXCEPT ![wtask[w]] = TRUE]
    /\ future' = Notified(wtask[w])
    /\ wstate' = [wstate EXCEPT ![w] = "lock"]
    /\ wtask' = [wtask EXCEPT ![w] = Client]
    /\ UNCHANGED <<pool, task, mem, dropped>>

\* The end of the task that submit queued, under the promise's mutex.
SetPromise(w) ==
    /\ wstate[w] = "set"
    /\ LET t == wtask[w]
       IN  /\ ready' = [ready EXCEPT ![t] = TRUE]
           /\ future' = Notified(t)
           /\ IF dropped[t]
              THEN wstate' = [wstate EXCEPT ![w] = "free"] /\ UNCHANGED wtask
              ELSE /\ wstate' = [wstate EXCEPT ![w] = "lock"]
                   /\ wtask' = [wtask EXCEPT ![w] = Client]
    /\ UNCHANGED <<pool, task, mem, dropped>>

\* should_free: the future was dropped before the value was there.
FreeByWorker(w) ==
    /\ wstate[w] = "free"
    /\ mem' = [mem EXCEPT ![wtask[w]] = "freed"]
    /\ wstate' = [wstate EXCEPT ![w] = "lock"]
    /\ wtask' = [wtask EXCEPT ![w] = Client]
    /\ UNCHANGED <<pool, task, ready, dropped, future>>

-----------------------------------------------------------------------------
\* The owner of a future.

\* Future::get is called.
CallGet(t) ==
    /\ future[t] = "held"
    /\ future' = [future EXCEPT ![t] = "get"]
    /\ UNCHANGED <<pool, wstate, wtask, task, promise>>

\* Mutant: what a wake-up promises is not checked, and get does not look at ready.
LockInGetTrusting(t) ==
    /\ future[t] = "get"
    /\ dropped' = [dropped EXCEPT ![t] = TRUE]
    /\ future' = [future EXCEPT ![t] = "take"]
    /\ UNCHANGED <<pool, wstate, wtask, task, mem, ready>>

\* Under the promise's mutex: wait for ready, or claim the promise.
LockInGet(t) ==
    /\ future[t] = "get"
    /\ IF ready[t]
       THEN /\ dropped' = [dropped EXCEPT ![t] = TRUE]
            /\ future' = [future EXCEPT ![t] = "take"]
       ELSE /\ future' = [future EXCEPT ![t] = "wait"]
            /\ UNCHANGED dropped
    /\ UNCHANGED <<pool, wstate, wtask, task, mem, ready>>

WakeGetSpuriously(t) ==
    /\ future[t] = "wait"
    /\ future' = [future EXCEPT ![t] = "get"]
    /\ UNCHANGED <<pool, wstate, wtask, task, promise>>

\* Outside the mutex: move the value out, delete the promise.
Take(t) ==
    /\ future[t] = "take"
    /\ mem' = [mem EXCEPT ![t] = "freed"]
    /\ future' = [future EXCEPT ![t] = "got"]
    /\ UNCHANGED <<pool, wstate, wtask, task, ready, dropped>>

\* Mutant: the destructor of a future always frees the promise.
DropAndFree(t) ==
    /\ future[t] = "held"
    /\ dropped' = [dropped EXCEPT ![t] = TRUE]
    /\ future' = [future EXCEPT ![t] = "delete"]
    /\ UNCHANGED <<pool, wstate, wtask, task, mem, ready>>

\* Future::delete under the promise's mutex: leave the promise to the worker
\* when the value is not there yet.
Drop(t) ==
    /\ future[t] = "held"
    /\ dropped' = [dropped EXCEPT ![t] = TRUE]
    /\ future' = [future EXCEPT ![t] = IF ready[t] THEN "delete" ELSE "dropped"]
    /\ UNCHANGED <<pool, wstate, wtask, task, mem, ready>>

\* And its delete outside the mutex.
FreeByOwner(t) ==
    /\ future[t] = "delete"
    /\ mem' = [mem EXCEPT ![t] = "freed"]
    /\ future' = [future EXCEPT ![t] = "dropped"]
    /\ UNCHANGED <<pool, wstate, wtask, task, ready, dropped>>

-----------------------------------------------------------------------------
\* PoolData::delete.

\* Mutant: only one worker is told.
StopNotifyOne ==
    /\ workers = "working"
    /\ run' = FALSE
    /\ workers' = "joining"
    /\ NotifyOne
    /\ UNCHANGED <<q, wtask, task, promise, future>>

\* Under the pool's mutex: run is false from here on, every worker is told.
Stop ==
    /\ workers = "working"
    /\ run' = FALSE
    /\ workers' = "joining"
    /\ wstate' = [w \in Worker |-> IF wstate[w] = "wait" THEN "lock" ELSE wstate[w]]
    /\ UNCHANGED <<q, wtask, task, promise, future>>

\* join_native has returned for every thread, and the queue is cleared.
Join ==
    /\ workers = "joining"
    /\ \A w \in Worker : wstate[w] = "exit"
    /\ workers' = "joined"
    /\ q' = <<>>
    /\ UNCHANGED <<run, wstate, wtask, task, promise, future>>

\* Everything has been freed: the program stops here.
Ended ==
    /\ workers = "joined"
    /\ \A t \in Valued : future[t] \in {"none", "got", "dropped"}

WorkerStep(w) == LockPool(w) \/ Finish(w) \/ SetPromise(w) \/ FreeByWorker(w)
OwnerStep(t) == LockInGet(t) \/ Take(t) \/ FreeByOwner(t)

Next ==
    \/ \E t \in Task : Submit(t)
    \/ \E w \in Worker : WorkerStep(w) \/ WakeSpuriously(w)
    \/ \E t \in Valued : CallGet(t) \/ Drop(t) \/ WakeGetSpuriously(t) \/ OwnerStep(t)
    \/ Stop
    \/ Join
    \/ Ended /\ UNCHANGED vars

\* Threads are scheduled; a task that runs submits its children and deals with
\* their futures (CallGet or Drop, as it likes).  Spurious wake-ups, and what
\* clients do, are not promised.
Fairness ==
    /\ \A w \in Worker : WF_vars(WorkerStep(w))
    /\ \A t \in Valued : WF_vars(OwnerStep(t))
    /\ \A t \in Task : Parent[t] # Client => WF_vars(Submit(t) \/ CallGet(t) \/ Drop(t))
    /\ WF_vars(Join)

Spec == Init /\ [][Next]_vars /\ Fairness

-----------------------------------------------------------------------------
\* Properties.

\* Neither side touches a promise the other has freed: whoever is about to lock
\* its mutex, to read its value or to delete it finds it alive (Future::get,
\* Future::delete and the end of submit's task).
NoUseAfterFree ==
    \A t \in Valued :
        (\/ future[t] \in {"held", "get", "wait", "take", "delete"}
         \/ \E w \in Worker : wtask[w] = t /\ wstate[w] \in {"run", "set", "free"})
            => mem[t] = "live"

\* Nothing leaks: once the workers are joined and a future is consumed, its
\* promise has been freed.
PromiseFreed ==
    workers = "joined" =>
        \A t \in Valued : future[t] \in {"got", "dropped"} => mem[t] = "freed"

\* What test_destruction_waits asks: when the pool's destructor returns, each
\* task that was submitted has been run, those submitted by tasks included.
DestructionWaits ==
    workers = "joined" => \A t \in Task : task[t] \in {"none", "done"}

\* The one way in which the pool can stand still: tasks are queued, and each
\* worker has left or runs a task that waits in Future::get for one of them.
AllWorkersWait ==
    /\ q # <<>>
    /\ \A w \in Worker :
          \/ wstate[w] = "exit"
          \/ /\ wstate[w] = "run"
             /\ \E c \in Children(wtask[w]) :
                   c \in Valued /\ future[c] \in {"get", "wait"} /\ task[c] = "queued"

\* Future::get returns, unless all workers wait: no wake-up is lost between a
\* submit, a worker, and the owner of the future.
GetReturns ==
    \A t \in Valued : future[t] = "get" ~> (future[t] = "got" \/ AllWorkersWait)

\* PoolData::delete returns, unless all workers wait.
DeleteReturns == workers = "joining" ~> (workers = "joined" \/ AllWorkersWait)

\* What is left of the owner's place when the promise's mutex is hidden: between
\* the calls, get has not returned yet and delete has done all that can be seen.
Seen(place) ==
    CASE place \in {"get", "wait", "take"} -> "held"
      [] place = "delete"                 -> "dropped"
      [] OTHER                            -> place
Handle == [t \in Task |-> Seen(future[t])]

\* The pool implements one without threads: every task that is submitted is run
\* once, in the order of submission, a future gives its value once and after
\* that, and the destructor returns behind all of them.
Tasks == INSTANCE TaskPool WITH waiting <- q, future <- Handle, stage <- workers
ImplementsTaskPool == Tasks!Spec
=============================================================================
