--------------------------- MODULE ThreadPoolProofs ---------------------------
(***************************************************************************)
(* Nothing is used after it is freed, nothing leaks and no task is lost in *)
(* ThreadPool, for every set of threads and every tree of tasks.           *)
(***************************************************************************)
EXTENDS ThreadPool, TLAPS, SequenceTheorems

\* w is somewhere between taking a task and asking for the next.
Busy(w) == wstate[w] \in {"run", "set", "free"}

\* A worker has a task exactly while it is busy, and no two have the same.
OneWorkerEach ==
    /\ \A w \in Worker : wtask[w] = Client <=> ~Busy(w)
    /\ \A v, w \in Worker : Busy(v) /\ wtask[v] = wtask[w] => v = w

\* What a worker is doing is what its task is at.
WorkerOfTask ==
    /\ \A w \in Worker :
          /\ wstate[w] = "run" => task[wtask[w]] = "running"
          /\ wstate[w] \in {"set", "free"} =>
                wtask[w] \in Valued /\ task[wtask[w]] = "done"
    /\ \A t \in Task : task[t] = "running" =>
          \E w \in Worker : wtask[w] = t /\ wstate[w] = "run"

\* The queue holds the tasks that wait for a worker, each once.
QueueOfTasks ==
    /\ \A k \in 1 .. Len(q) : task[q[k]] = "queued"
    /\ \A j, k \in 1 .. Len(q) : q[j] = q[k] => j = k
    /\ \A t \in Task : task[t] = "queued" => \E k \in 1 .. Len(q) : q[k] = t

\* A task with a future starts with both sides unset, and its promise is set by
\* the worker that ran it, once.
ReadyAfterRun ==
    /\ \A t \in Valued :
          /\ task[t] = "none" <=> future[t] = "none"
          /\ ready[t] => task[t] = "done"
          /\ task[t] = "done" /\ ~ready[t] =>
                \E w \in Worker : wtask[w] = t /\ wstate[w] = "set"
    /\ \A w \in Worker : wstate[w] = "set" => ~ready[wtask[w]]

\* Which side frees the promise: the owner once it has seen the value, the
\* worker when it was told before it set the value.
OneSideFrees ==
    /\ \A t \in Valued :
          /\ future[t] \in {"held", "get", "wait"} => ~dropped[t] /\ mem[t] = "live"
          /\ future[t] \in {"take", "delete"} => ready[t] /\ mem[t] = "live"
          /\ future[t] = "got" => ready[t] /\ mem[t] = "freed"
          /\ future[t] = "dropped" /\ ~ready[t] => dropped[t] /\ mem[t] = "live"
          /\ future[t] = "dropped" /\ ready[t] =>
                \/ mem[t] = "freed"
                \/ \E w \in Worker : wtask[w] = t /\ wstate[w] = "free"
          /\ future[t] = "none" => ~dropped[t]
    /\ \A w \in Worker : wstate[w] = "free" =>
          /\ future[wtask[w]] = "dropped" /\ ready[wtask[w]]
          /\ mem[wtask[w]] = "live"

\* Workers leave only a pool that is going away, and somebody is left while
\* anything is queued.
LastWorkerDrains ==
    /\ run <=> workers = "working"
    /\ \A w \in Worker : wstate[w] = "exit" => ~run
    /\ q # <<>> => \E w \in Worker : wstate[w] # "exit"
    /\ workers = "joined" => \A w \in Worker : wstate[w] = "exit"

\* The inductive invariant: who has each task, and whose each promise is.
IInv ==
    /\ TypeOK
    /\ OneWorkerEach
    /\ WorkerOfTask
    /\ QueueOfTasks
    /\ ReadyAfterRun
    /\ OneSideFrees
    /\ LastWorkerDrains

-----------------------------------------------------------------------------
\* create_pool.
LEMMA InitIInv == Init => IInv
<1> SUFFICES ASSUME Init PROVE IInv
    OBVIOUS
<1>1. TypeOK
    BY DEF Init, TypeOK, Owner
<1>2. Len(q) = 0
    BY DEF Init
<1>3. OneWorkerEach /\ WorkerOfTask
    BY DEF Init, OneWorkerEach, WorkerOfTask, Busy
<1>4. QueueOfTasks
    BY <1>2 DEF Init, QueueOfTasks
<1>5. ReadyAfterRun /\ OneSideFrees
    BY ConstantsAssumption DEF Init, ReadyAfterRun, OneSideFrees
<1>6. LastWorkerDrains
    BY DEF Init, LastWorkerDrains
<1> QED
    BY <1>1, <1>3, <1>4, <1>5, <1>6 DEF IInv

\* Some waiting workers are back at the lock, and nothing else about them.
Woken ==
    /\ wstate' \in [Worker -> {"lock", "wait", "run", "set", "free", "exit"}]
    /\ \A w \in Worker : wstate'[w] = wstate[w] \/ (wstate[w] = "wait" /\ wstate'[w] = "lock")

\* notify_one wakes a waiting worker, or nobody.
LEMMA NotifyOneWakes == ASSUME TypeOK, NotifyOne PROVE Woken
    BY DEF TypeOK, NotifyOne, Woken

\* What a worker does is not changed by waking one.
LEMMA WokenKeeps ==
    ASSUME TypeOK, Woken, UNCHANGED wtask
    PROVE  /\ OneWorkerEach => OneWorkerEach'
           /\ \A w \in Worker : \A s \in {"run", "set", "free", "exit"} :
                  wstate'[w] = s <=> wstate[w] = s
<1>1. \A w \in Worker : \A s \in {"run", "set", "free", "exit"} : wstate'[w] = s <=> wstate[w] = s
    BY DEF Woken
<1>2. \A w \in Worker : Busy(w)' <=> Busy(w)
    BY <1>1 DEF Busy
<1> QED
    BY <1>1, <1>2 DEF OneWorkerEach

\* A task joins the queue at its end.
LEMMA AppendQueue ==
    ASSUME NEW s \in Seq(Task), NEW t \in Task, NEW r, r = Append(s, t)
    PROVE  /\ r \in Seq(Task) /\ Len(s) \in Nat /\ Len(r) = Len(s) + 1
           /\ r # <<>> /\ r[Len(r)] = t
           /\ \A k \in 1 .. Len(s) : r[k] = s[k]
    BY AppendProperties, LenProperties

\* And leaves it at its front.
LEMMA TailQueue ==
    ASSUME NEW s \in Seq(Task), s # <<>>, NEW r, r = Tail(s)
    PROVE  /\ r \in Seq(Task) /\ Len(s) \in Nat \ {0} /\ Len(r) = Len(s) - 1
           /\ Head(s) = s[1] /\ s[1] \in Task
           /\ \A k \in 1 .. Len(r) : r[k] = s[k + 1]
    BY HeadTailProperties, LenProperties, EmptySeq

\* submit and submit_void.
LEMMA SubmitIInv == ASSUME IInv, NEW t \in Task, Submit(t) PROVE IInv'
<1> USE DEF IInv
<1>1. Woken
    BY NotifyOneWakes DEF Submit
<1>2. TypeOK'
  <2>1. q' \in Seq(Task)
      BY AppendQueue DEF Submit, TypeOK
  <2>2. /\ mem' \in [Task -> {"none", "live", "freed"}]
        /\ future' \in [Task -> {"none", "held", "get", "wait", "take", "got",
                                "delete", "dropped"}]
      BY DEF Submit, TypeOK
  <2> QED
      BY <1>1, <2>1, <2>2 DEF Submit, Woken, TypeOK
<1>3. OneWorkerEach'
    BY <1>1, WokenKeeps DEF Submit
<1>4. /\ UNCHANGED wtask
      /\ \A w \in Worker : \A s \in {"run", "set", "free", "exit"} : wstate'[w] = s <=> wstate[w] = s
    BY <1>1, WokenKeeps DEF Submit
<1>5. task[t] = "none" /\ task' = [task EXCEPT ![t] = "queued"]
    BY DEF Submit, MaySubmit
<1>6. \A w \in Worker : Busy(w) => wtask[w] # t /\ wtask[w] \in Task
  <2> SUFFICES ASSUME NEW w \in Worker, Busy(w) PROVE wtask[w] # t /\ wtask[w] \in Task
      OBVIOUS
  <2> QED
      BY <1>5 DEF WorkerOfTask, OneWorkerEach, Busy, TypeOK, Owner
<1>7. WorkerOfTask'
    BY <1>4, <1>5, <1>6 DEF WorkerOfTask, Busy, TypeOK
<1>8. QueueOfTasks'
  <2>1. /\ q \in Seq(Task) /\ q' = Append(q, t) /\ Len(q) \in Nat /\ Len(q') = Len(q) + 1
        /\ q'[Len(q')] = t /\ \A k \in 1 .. Len(q) : q'[k] = q[k]
      BY AppendQueue DEF Submit, TypeOK
  <2>2. \A k \in 1 .. Len(q) : q[k] \in Task /\ q[k] # t
      BY <1>5, <2>1, ElementOfSeq DEF QueueOfTasks
  <2>3. \A k \in 1 .. Len(q') : k \in 1 .. Len(q) \/ k = Len(q')
      BY <2>1
  <2>4. \A k \in 1 .. Len(q') : task'[q'[k]] = "queued"
      BY <1>5, <2>1, <2>2, <2>3 DEF QueueOfTasks, TypeOK
  <2>5. \A j, k \in 1 .. Len(q') : q'[j] = q'[k] => j = k
      BY <2>1, <2>2, <2>3 DEF QueueOfTasks
  <2>6. ASSUME NEW u \in Task, task'[u] = "queued" PROVE \E k \in 1 .. Len(q') : q'[k] = u
    <3>1. CASE u = t
        BY <3>1, <2>1
    <3>2. CASE u # t
      <4>1. task[u] = "queued"
          BY <3>2, <2>6, <1>5 DEF TypeOK
      <4>2. PICK k \in 1 .. Len(q) : q[k] = u
          BY <4>1 DEF QueueOfTasks
      <4> QED
          BY <4>2, <2>1
    <3> QED
        BY <3>1, <3>2
  <2> QED
      BY <2>4, <2>5, <2>6 DEF QueueOfTasks
<1>9. UNCHANGED <<run, workers, ready, dropped>>
    BY DEF Submit
<1>10. \A u \in Valued : u # t => task'[u] = task[u] /\ future'[u] = future[u] /\ mem'[u] = mem[u]
    BY <1>5, ConstantsAssumption DEF Submit, TypeOK
<1>11. t \in Valued => task'[t] = "queued" /\ future'[t] = "held" /\ mem'[t] = "live"
    BY DEF Submit, TypeOK
<1>12. t \in Valued => ~ready[t] /\ ~dropped[t]
    BY <1>5 DEF ReadyAfterRun, OneSideFrees, TypeOK
<1>13. ReadyAfterRun'
    BY <1>4, <1>9, <1>10, <1>11, <1>12 DEF ReadyAfterRun
<1>14. \A w \in Worker : wstate[w] = "free" => wtask[w] \in Valued /\ wtask[w] # t
    BY <1>6 DEF WorkerOfTask, Busy
<1>15. OneSideFrees'
    BY <1>4, <1>9, <1>10, <1>11, <1>12, <1>14 DEF OneSideFrees
<1>16. LastWorkerDrains'
  <2>1. \E w \in Worker : wstate[w] # "exit"
      BY ConstantsAssumption DEF Submit, MaySubmit, LastWorkerDrains
  <2> QED
      BY <2>1, <1>4, <1>9 DEF LastWorkerDrains
<1> QED
    BY <1>2, <1>3, <1>7, <1>8, <1>13, <1>15, <1>16

-----------------------------------------------------------------------------
\* The queue is as it was.
LEMMA QueueKept ==
    ASSUME QueueOfTasks, UNCHANGED q,
           \A t \in Task : task'[t] = "queued" <=> task[t] = "queued",
           q \in Seq(Task)
    PROVE  QueueOfTasks'
    BY ElementOfSeq DEF QueueOfTasks

\* worker_main takes the first task.
LEMMA TakeIInv ==
    ASSUME IInv, NEW w \in Worker, LockPool(w), q # <<>>
    PROVE  IInv'
<1> USE DEF IInv
<1>1. /\ wstate[w] = "lock" /\ wstate' = [wstate EXCEPT ![w] = "run"]
      /\ wtask' = [wtask EXCEPT ![w] = Head(q)]
      /\ task' = [task EXCEPT ![Head(q)] = "running"]
      /\ q' = Tail(q)
      /\ UNCHANGED <<run, workers, mem, ready, dropped, future>>
    BY DEF LockPool, promise
<1>2. /\ q' \in Seq(Task) /\ Len(q) \in Nat \ {0} /\ Len(q') = Len(q) - 1
      /\ Head(q) = q[1] /\ q[1] \in Task
      /\ \A k \in 1 .. Len(q') : q'[k] = q[k + 1]
    BY <1>1, TailQueue DEF TypeOK
<1> DEFINE t == q[1]
<1>3. t \in Task /\ task[t] = "queued" /\ Head(q) = t
    BY <1>2 DEF QueueOfTasks
<1> HIDE DEF t
<1>4. TypeOK'
    BY <1>1, <1>2, <1>3 DEF TypeOK, Owner
<1>5. \A v \in Worker : Busy(v) => wtask[v] # t /\ wtask[v] \in Task
  <2> SUFFICES ASSUME NEW v \in Worker, Busy(v) PROVE wtask[v] # t /\ wtask[v] \in Task
      OBVIOUS
  <2> QED
      BY <1>3 DEF WorkerOfTask, OneWorkerEach, Busy, TypeOK, Owner
<1>6. \A v \in Worker : v # w => wstate'[v] = wstate[v] /\ wtask'[v] = wtask[v]
    BY <1>1 DEF TypeOK
<1>7. wstate'[w] = "run" /\ wtask'[w] = t /\ t # Client
    BY <1>1, <1>3, ConstantsAssumption DEF TypeOK
<1>8. OneWorkerEach'
    BY <1>5, <1>6, <1>7 DEF OneWorkerEach, Busy
<1>9. task'[t] = "running" /\ \A u \in Task : u # t => task'[u] = task[u]
    BY <1>1, <1>3 DEF TypeOK
<1>10. WorkerOfTask'
  <2>1. \A v \in Worker : v # w /\ Busy(v) => task'[wtask'[v]] = task[wtask[v]]
      BY <1>5, <1>6, <1>9
  <2>2. \A v \in Worker :
           /\ wstate'[v] = "run" => task'[wtask'[v]] = "running"
           /\ wstate'[v] \in {"set", "free"} =>
                 wtask'[v] \in Valued /\ task'[wtask'[v]] = "done"
      BY <2>1, <1>6, <1>7, <1>9 DEF WorkerOfTask, Busy
  <2>3. ASSUME NEW u \in Task, task'[u] = "running"
        PROVE  \E v \in Worker : wtask'[v] = u /\ wstate'[v] = "run"
    <3>1. CASE u = t
        BY <3>1, <1>7
    <3>2. CASE u # t
      <4>1. PICK v \in Worker : wtask[v] = u /\ wstate[v] = "run"
          BY <3>2, <2>3, <1>9 DEF WorkerOfTask
      <4> QED
          BY <4>1, <1>1, <1>6
    <3> QED
        BY <3>1, <3>2
  <2> QED
      BY <2>2, <2>3 DEF WorkerOfTask
<1>11. QueueOfTasks'
  <2>1. \A k \in 1 .. Len(q') : k + 1 \in 1 .. Len(q) /\ q[k + 1] # t /\ q[k + 1] \in Task
      BY <1>2, ElementOfSeq DEF QueueOfTasks, t, TypeOK
  <2>2. \A k \in 1 .. Len(q') : task'[q'[k]] = "queued"
      BY <2>1, <1>2, <1>9 DEF QueueOfTasks
  <2>3. ASSUME NEW j \in 1 .. Len(q'), NEW k \in 1 .. Len(q'), q'[j] = q'[k] PROVE j = k
    <3>1. q[j + 1] = q[k + 1]
        BY <2>3, <1>2
    <3>2. j + 1 = k + 1
        BY <3>1, <2>1 DEF QueueOfTasks
    <3> QED
        BY <3>2, <1>2
  <2>4. ASSUME NEW u \in Task, task'[u] = "queued" PROVE \E k \in 1 .. Len(q') : q'[k] = u
    <3>1. u # t /\ task[u] = "queued"
        BY <2>4, <1>9
    <3>2. PICK k \in 1 .. Len(q) : q[k] = u
        BY <3>1 DEF QueueOfTasks
    <3>3. k # 1
        BY <3>1, <3>2 DEF t
    <3>4. k - 1 \in 1 .. Len(q') /\ q'[k - 1] = q[k]
        BY <3>3, <1>2
    <3> QED
        BY <3>2, <3>4
  <2> QED
      BY <2>2, <2>3, <2>4 DEF QueueOfTasks
<1>12. ReadyAfterRun'
  <2>1. t \in Valued => ~ready[t] /\ future[t] # "none"
      BY <1>3 DEF ReadyAfterRun
  <2>2. \A v \in Worker : \A s \in {"set", "free"} :
            wstate'[v] = s <=> (v # w /\ wstate[v] = s)
      BY <1>1, <1>6, <1>7
  <2>3. \A u \in Valued :
           /\ task'[u] = "none" <=> future'[u] = "none"
           /\ ready'[u] => task'[u] = "done"
           /\ task'[u] = "done" /\ ~ready'[u] =>
                \E v \in Worker : wtask'[v] = u /\ wstate'[v] = "set"
      BY <2>1, <2>2, <1>1, <1>6, <1>9, ConstantsAssumption DEF ReadyAfterRun
  <2>4. \A v \in Worker : wstate'[v] = "set" => ~ready'[wtask'[v]]
      BY <2>2, <1>1, <1>6 DEF ReadyAfterRun
  <2> QED
      BY <2>3, <2>4 DEF ReadyAfterRun
<1>13. OneSideFrees'
    BY <1>1, <1>6, <1>7 DEF OneSideFrees
<1>14. LastWorkerDrains'
    BY <1>1, <1>6, <1>7 DEF LastWorkerDrains
<1> QED
    BY <1>4, <1>8, <1>10, <1>11, <1>12, <1>13, <1>14

\* A step of one worker between the lock, the wait and the exit: nothing that
\* the others rely on, apart from the last of them leaving.
LEMMA IdleIInv ==
    ASSUME IInv, NEW w \in Worker, NEW s \in {"lock", "wait", "exit"},
           ~Busy(w), wstate' = [wstate EXCEPT ![w] = s],
           UNCHANGED <<pool, wtask, task, promise, future>>,
           wstate[w] # "exit",
           s = "exit" => q = <<>> /\ ~run
    PROVE  IInv'
<1> USE DEF IInv
<1>1. UNCHANGED <<q, run, workers, wtask, task, mem, ready, dropped, future>>
    BY DEF pool, promise
<1>2. \A v \in Worker : v # w => wstate'[v] = wstate[v]
    BY DEF TypeOK
<1>3. wstate'[w] = s
    BY DEF TypeOK
<1>4. TypeOK'
    BY <1>1 DEF TypeOK
<1>5. \A v \in Worker : Busy(v)' <=> Busy(v)
    BY <1>2, <1>3 DEF Busy
<1>6. \A v \in Worker : Busy(v) => wstate'[v] = wstate[v]
    BY <1>2
<1>7. OneWorkerEach'
    BY <1>1, <1>5 DEF OneWorkerEach
<1>8. \A v \in Worker : \A a \in {"run", "set", "free"} : wstate'[v] = a <=> wstate[v] = a
    BY <1>5, <1>6 DEF Busy
<1>9. WorkerOfTask' /\ ReadyAfterRun' /\ OneSideFrees'
    BY <1>1, <1>8 DEF WorkerOfTask, ReadyAfterRun, OneSideFrees
<1>10. QueueOfTasks'
    BY <1>1, QueueKept DEF TypeOK
<1>11. LastWorkerDrains'
    BY <1>1, <1>2, <1>3 DEF LastWorkerDrains
<1> QED
    BY <1>4, <1>7, <1>9, <1>10, <1>11

\* worker_main under the pool's mutex.
LEMMA LockPoolIInv == ASSUME IInv, NEW w \in Worker, LockPool(w) PROVE IInv'
<1>1. CASE q # <<>>
    BY <1>1, TakeIInv
<1>2. CASE q = <<>>
  <2>1. PICK s \in {"wait", "exit"} :
           /\ wstate' = [wstate EXCEPT ![w] = s]
           /\ s = "exit" => ~run
      BY <1>2 DEF LockPool
  <2>2. ~Busy(w) /\ wstate[w] # "exit" /\ UNCHANGED <<pool, wtask, task, promise, future>>
      BY <1>2 DEF LockPool, Busy, pool
  <2> QED
      BY <1>2, <2>1, <2>2, IdleIInv
<1> QED
    BY <1>1, <1>2

\* A spurious wake-up.
LEMMA WakeSpuriouslyIInv == ASSUME IInv, NEW w \in Worker, WakeSpuriously(w) PROVE IInv'
<1>1. /\ ~Busy(w) /\ wstate[w] # "exit" /\ wstate' = [wstate EXCEPT ![w] = "lock"]
      /\ UNCHANGED <<pool, wtask, task, promise, future>>
    BY DEF WakeSpuriously, Busy
<1> QED
    BY <1>1, IdleIInv

\* The task's function returns.
LEMMA FinishIInv == ASSUME IInv, NEW w \in Worker, Finish(w) PROVE IInv'
<1> USE DEF IInv
<1> DEFINE t == wtask[w]
           s == IF t \in Valued THEN "set" ELSE "lock"
<1>1. /\ wstate[w] = "run" /\ t \in Task /\ t # Client /\ task[t] = "running"
      /\ task' = [task EXCEPT ![t] = "done"]
      /\ UNCHANGED <<q, run, workers, mem, ready, dropped, future>>
    BY DEF Finish, pool, promise, WorkerOfTask, OneWorkerEach, Busy, TypeOK, Owner
<1>2. wstate' = [wstate EXCEPT ![w] = s]
    BY DEF Finish
<1>3. wtask' = [wtask EXCEPT ![w] = IF t \in Valued THEN t ELSE Client]
    BY DEF Finish, TypeOK
<1>4. \A v \in Worker : v # w => wstate'[v] = wstate[v] /\ wtask'[v] = wtask[v] /\ wtask[v] # t
    BY <1>1, <1>2, <1>3 DEF TypeOK, OneWorkerEach, Busy
<1>5. wstate'[w] = s /\ wtask'[w] = (IF t \in Valued THEN t ELSE Client)
    BY <1>2, <1>3 DEF TypeOK
<1>6. task'[t] = "done" /\ \A u \in Task : u # t => task'[u] = task[u]
    BY <1>1 DEF TypeOK
<1> HIDE DEF t
<1>7. TypeOK'
    BY <1>1, <1>2, <1>3 DEF TypeOK, Owner
<1>8. OneWorkerEach'
    BY <1>1, <1>4, <1>5 DEF OneWorkerEach, Busy
<1>9. WorkerOfTask'
  <2>1. \A v \in Worker : v # w /\ Busy(v) => task'[wtask'[v]] = task[wtask[v]]
      BY <1>4, <1>6 DEF OneWorkerEach, Busy, TypeOK, Owner
  <2>2. \A v \in Worker :
           /\ wstate'[v] = "run" => task'[wtask'[v]] = "running"
           /\ wstate'[v] \in {"set", "free"} =>
                 wtask'[v] \in Valued /\ task'[wtask'[v]] = "done"
      BY <2>1, <1>4, <1>5, <1>6 DEF WorkerOfTask, Busy
  <2>3. ASSUME NEW u \in Task, task'[u] = "running"
        PROVE  \E v \in Worker : wtask'[v] = u /\ wstate'[v] = "run"
    <3>1. u # t /\ task[u] = "running"
        BY <2>3, <1>6
    <3>2. PICK v \in Worker : wtask[v] = u /\ wstate[v] = "run"
        BY <3>1 DEF WorkerOfTask
    <3> QED
        BY <3>1, <3>2, <1>4 DEF t
  <2> QED
      BY <2>2, <2>3 DEF WorkerOfTask
<1>10. QueueOfTasks'
    BY <1>1, <1>6, QueueKept DEF TypeOK
<1>11. ReadyAfterRun'
  <2>1. t \in Valued => ~ready[t] /\ future[t] # "none"
      BY <1>1 DEF ReadyAfterRun
  <2>2. \A v \in Worker : v # w => (wstate'[v] = "set" <=> wstate[v] = "set")
      BY <1>4
  <2>3. \A u \in Valued :
           /\ task'[u] = "none" <=> future'[u] = "none"
           /\ ready'[u] => task'[u] = "done"
      BY <2>1, <1>1, <1>6, ConstantsAssumption DEF ReadyAfterRun
  <2>4. ASSUME NEW u \in Valued, task'[u] = "done", ~ready'[u]
        PROVE  \E v \in Worker : wtask'[v] = u /\ wstate'[v] = "set"
    <3>1. CASE u = t
        BY <3>1, <1>5
    <3>2. CASE u # t
      <4>1. task[u] = "done" /\ ~ready[u]
          BY <3>2, <2>4, <1>1, <1>6, ConstantsAssumption
      <4>2. PICK v \in Worker : wtask[v] = u /\ wstate[v] = "set"
          BY <4>1 DEF ReadyAfterRun
      <4> QED
          BY <4>2, <1>1, <1>4
    <3> QED
        BY <3>1, <3>2
  <2>5. \A v \in Worker : wstate'[v] = "set" => ~ready'[wtask'[v]]
      BY <2>1, <1>1, <1>4, <1>5 DEF ReadyAfterRun
  <2> QED
      BY <2>3, <2>4, <2>5 DEF ReadyAfterRun
<1>12. OneSideFrees'
    BY <1>1, <1>4, <1>5 DEF OneSideFrees
<1>13. LastWorkerDrains'
    BY <1>1, <1>4, <1>5 DEF LastWorkerDrains
<1> QED
    BY <1>7, <1>8, <1>9, <1>10, <1>11, <1>12, <1>13

\* A worker that is done with its task goes back to the lock: nothing the
\* queue, the other workers or the pool's destructor rely on.
LEMMA ReleaseKeeps ==
    ASSUME IInv, NEW w \in Worker, wstate[w] \in {"set", "free"},
           wstate' = [wstate EXCEPT ![w] = "lock"],
           wtask' = [wtask EXCEPT ![w] = Client],
           UNCHANGED <<pool, task>>
    PROVE  /\ OneWorkerEach' /\ WorkerOfTask' /\ QueueOfTasks' /\ LastWorkerDrains'
           /\ wstate' \in [Worker -> {"lock", "wait", "run", "set", "free", "exit"}]
           /\ wtask' \in [Worker -> Owner]
           /\ wstate'[w] = "lock"
           /\ \A v \in Worker : v # w =>
                 wstate'[v] = wstate[v] /\ wtask'[v] = wtask[v] /\ wtask[v] # wtask[w]
<1> USE DEF IInv
<1>1. UNCHANGED <<q, run, workers, task>>
    BY DEF pool
<1>2. \A v \in Worker : v # w =>
         wstate'[v] = wstate[v] /\ wtask'[v] = wtask[v] /\ wtask[v] # wtask[w]
    BY DEF TypeOK, OneWorkerEach, Busy
<1>3. wstate'[w] = "lock" /\ wtask'[w] = Client
    BY DEF TypeOK
<1>4. /\ wstate' \in [Worker -> {"lock", "wait", "run", "set", "free", "exit"}]
      /\ wtask' \in [Worker -> Owner]
    BY DEF TypeOK, Owner
<1>5. OneWorkerEach'
    BY <1>2, <1>3 DEF OneWorkerEach, Busy
<1>6. task[wtask[w]] = "done"
    BY DEF WorkerOfTask
<1>7. WorkerOfTask'
    BY <1>1, <1>2, <1>3, <1>6 DEF WorkerOfTask
<1>8. QueueOfTasks'
    BY <1>1, QueueKept DEF TypeOK
<1>9. LastWorkerDrains'
    BY <1>1, <1>2, <1>3 DEF LastWorkerDrains
<1> QED
    BY <1>2, <1>3, <1>4, <1>5, <1>7, <1>8, <1>9

\* The end of submit's task, under the promise's mutex: the future is gone
\* already, and the worker is to free the promise.
LEMMA SetForDroppedIInv ==
    ASSUME IInv, NEW w \in Worker, SetPromise(w), dropped[wtask[w]]
    PROVE  IInv'
<1> USE DEF IInv
<1> DEFINE t == wtask[w]
<1>1. /\ wstate[w] = "set" /\ t \in Valued /\ t \in Task /\ task[t] = "done" /\ ~ready[t] /\ dropped[t]
      /\ wstate' = [wstate EXCEPT ![w] = "free"]
      /\ ready' = [ready EXCEPT ![t] = TRUE] /\ future' = Notified(t)
      /\ UNCHANGED <<q, run, workers, wtask, task, mem, dropped>>
    BY ConstantsAssumption DEF SetPromise, pool, WorkerOfTask, ReadyAfterRun
<1>2. future[t] = "dropped" /\ mem[t] = "live" /\ future' = future
    BY <1>1 DEF OneSideFrees, ReadyAfterRun, TypeOK, Notified
<1>3. \A v \in Worker : v # w => wstate'[v] = wstate[v] /\ wtask[v] # t
    BY <1>1 DEF TypeOK, OneWorkerEach, Busy
<1>4. wstate'[w] = "free" /\ ready'[t] /\ \A u \in Task : u # t => ready'[u] = ready[u]
    BY <1>1 DEF TypeOK
<1>5. \A v \in Worker : Busy(v)' <=> Busy(v)
    BY <1>1, <1>3, <1>4 DEF Busy
<1> HIDE DEF t
<1>6. TypeOK'
    BY <1>1, <1>2 DEF TypeOK
<1>7. OneWorkerEach'
    BY <1>1, <1>5 DEF OneWorkerEach
<1>8. WorkerOfTask'
    BY <1>1, <1>3, <1>4 DEF WorkerOfTask, t
<1>9. QueueOfTasks'
    BY <1>1, QueueKept DEF TypeOK
<1>10. ReadyAfterRun'
  <2>1. \A u \in Valued :
           /\ task'[u] = "none" <=> future'[u] = "none"
           /\ ready'[u] => task'[u] = "done"
      BY <1>1, <1>2, <1>4, ConstantsAssumption DEF ReadyAfterRun
  <2>2. ASSUME NEW u \in Valued, task'[u] = "done", ~ready'[u]
        PROVE  \E v \in Worker : wtask'[v] = u /\ wstate'[v] = "set"
    <3>1. u # t /\ task[u] = "done" /\ ~ready[u]
        BY <2>2, <1>1, <1>4, ConstantsAssumption
    <3>2. PICK v \in Worker : wtask[v] = u /\ wstate[v] = "set"
        BY <3>1 DEF ReadyAfterRun
    <3> QED
        BY <3>1, <3>2, <1>1, <1>3 DEF t
  <2>3. \A v \in Worker : wstate'[v] = "set" => ~ready'[wtask'[v]]
    <3> SUFFICES ASSUME NEW v \in Worker, wstate'[v] = "set" PROVE ~ready'[wtask'[v]]
        OBVIOUS
    <3>1. v # w /\ wstate[v] = "set" /\ wtask'[v] = wtask[v] /\ wtask[v] # t
        BY <1>1, <1>3, <1>4
    <3>2. ~ready[wtask[v]] /\ wtask[v] \in Task
        BY <3>1, ConstantsAssumption DEF ReadyAfterRun, WorkerOfTask
    <3> QED
        BY <3>1, <3>2, <1>4
  <2> QED
      BY <2>1, <2>2, <2>3 DEF ReadyAfterRun
<1>11. OneSideFrees'
  <2>1. \A u \in Valued : u # t => ready'[u] = ready[u]
      BY <1>4, ConstantsAssumption
  <2>2. \A v \in Worker : wstate[v] = "free" => wstate'[v] = "free" /\ v # w /\ wtask[v] \in Valued
      BY <1>1, <1>3 DEF WorkerOfTask
  <2>3. wtask[w] = t
      BY DEF t
  <2>4. \A u \in Valued :
          /\ future'[u] \in {"held", "get", "wait"} => ~dropped'[u] /\ mem'[u] = "live"
          /\ future'[u] \in {"take", "delete"} => ready'[u] /\ mem'[u] = "live"
          /\ future'[u] = "got" => ready'[u] /\ mem'[u] = "freed"
          /\ future'[u] = "dropped" /\ ~ready'[u] => dropped'[u] /\ mem'[u] = "live"
          /\ future'[u] = "none" => ~dropped'[u]
      BY <2>1, <1>1, <1>2, <1>4 DEF OneSideFrees
  <2>5. ASSUME NEW u \in Valued, future'[u] = "dropped", ready'[u]
        PROVE  mem'[u] = "freed" \/ \E v \in Worker : wtask'[v] = u /\ wstate'[v] = "free"
    <3>1. CASE u = t
        BY <3>1, <2>3, <1>1, <1>4
    <3>2. CASE u # t
        BY <3>2, <2>1, <2>2, <2>5, <1>1, <1>2 DEF OneSideFrees
    <3> QED
        BY <3>1, <3>2
  <2>6. \A v \in Worker : wstate'[v] = "free" =>
          future'[wtask'[v]] = "dropped" /\ ready'[wtask'[v]] /\ mem'[wtask'[v]] = "live"
    <3> SUFFICES ASSUME NEW v \in Worker, wstate'[v] = "free"
                 PROVE  future'[wtask'[v]] = "dropped" /\ ready'[wtask'[v]] /\ mem'[wtask'[v]] = "live"
        OBVIOUS
    <3>1. CASE v = w
        BY <3>1, <2>3, <1>1, <1>2, <1>4
    <3>2. CASE v # w
        BY <3>2, <2>1, <2>2, <1>1, <1>2, <1>3 DEF OneSideFrees
    <3> QED
        BY <3>1, <3>2
  <2> QED
      BY <2>4, <2>5, <2>6 DEF OneSideFrees
<1>12. LastWorkerDrains'
    BY <1>1, <1>3, <1>4 DEF LastWorkerDrains
<1> QED
    BY <1>6, <1>7, <1>8, <1>9, <1>10, <1>11, <1>12

\* Likewise, and the future is still there: its owner is told.
LEMMA SetForOwnerIInv ==
    ASSUME IInv, NEW w \in Worker, SetPromise(w), ~dropped[wtask[w]]
    PROVE  IInv'
<1> USE DEF IInv
<1> DEFINE t == wtask[w]
<1>1. /\ wstate[w] = "set" /\ t \in Valued /\ t \in Task /\ task[t] = "done" /\ ~ready[t] /\ ~dropped[t]
      /\ wstate' = [wstate EXCEPT ![w] = "lock"]
      /\ wtask' = [wtask EXCEPT ![w] = Client]
      /\ ready' = [ready EXCEPT ![t] = TRUE] /\ future' = Notified(t)
      /\ UNCHANGED <<pool, task, mem, dropped>>
    BY ConstantsAssumption DEF SetPromise, WorkerOfTask, ReadyAfterRun
<1>2. /\ OneWorkerEach' /\ WorkerOfTask' /\ QueueOfTasks' /\ LastWorkerDrains'
      /\ wstate' \in [Worker -> {"lock", "wait", "run", "set", "free", "exit"}]
      /\ wtask' \in [Worker -> Owner]
      /\ wstate'[w] = "lock"
      /\ \A v \in Worker : v # w =>
            wstate'[v] = wstate[v] /\ wtask'[v] = wtask[v] /\ wtask[v] # t
    BY <1>1, ReleaseKeeps
<1>3. future[t] \in {"held", "get", "wait"} /\ mem[t] = "live"
  <2>1. future[t] # "none"
      BY <1>1 DEF ReadyAfterRun
  <2> QED
      BY <2>1, <1>1 DEF OneSideFrees, TypeOK
<1>4. future'[t] \in {"held", "get"} /\ \A u \in Task : u # t => future'[u] = future[u]
    BY <1>1, <1>3 DEF Notified, TypeOK
<1>5. ready'[t] /\ \A u \in Task : u # t => ready'[u] = ready[u]
    BY <1>1 DEF TypeOK
<1>6. UNCHANGED <<q, run, workers, task, mem, dropped>>
    BY <1>1 DEF pool
<1>7. TypeOK'
  <2>1. future' \in [Task -> {"none", "held", "get", "wait", "take", "got", "delete", "dropped"}]
      BY <1>1 DEF TypeOK, Notified
  <2> QED
      BY <2>1, <1>1, <1>2, <1>6 DEF TypeOK
<1> HIDE DEF t
<1>8. \A v \in Worker : \A s \in {"set", "free"} :
         wstate'[v] = s => v # w /\ wstate[v] = s /\ wtask[v] \in Valued
    BY <1>2 DEF WorkerOfTask
<1>9. ReadyAfterRun'
  <2>1. \A u \in Valued :
           /\ task'[u] = "none" <=> future'[u] = "none"
           /\ ready'[u] => task'[u] = "done"
      BY <1>1, <1>4, <1>5, <1>6, ConstantsAssumption DEF ReadyAfterRun
  <2>2. ASSUME NEW u \in Valued, task'[u] = "done", ~ready'[u]
        PROVE  \E v \in Worker : wtask'[v] = u /\ wstate'[v] = "set"
    <3>1. u # t /\ task[u] = "done" /\ ~ready[u]
        BY <2>2, <1>5, <1>6, ConstantsAssumption
    <3>2. PICK v \in Worker : wtask[v] = u /\ wstate[v] = "set"
        BY <3>1 DEF ReadyAfterRun
    <3> QED
        BY <3>1, <3>2, <1>2 DEF t
  <2>3. \A v \in Worker : wstate'[v] = "set" => ~ready'[wtask'[v]]
      BY <1>2, <1>5, <1>8, ConstantsAssumption DEF ReadyAfterRun
  <2> QED
      BY <2>1, <2>2, <2>3 DEF ReadyAfterRun
<1>10. OneSideFrees'
  <2>1. \A u \in Valued : u # t => ready'[u] = ready[u] /\ future'[u] = future[u]
      BY <1>4, <1>5, ConstantsAssumption
  <2>2. \A u \in Valued :
          /\ future'[u] \in {"held", "get", "wait"} => ~dropped'[u] /\ mem'[u] = "live"
          /\ future'[u] \in {"take", "delete"} => ready'[u] /\ mem'[u] = "live"
          /\ future'[u] = "got" => ready'[u] /\ mem'[u] = "freed"
          /\ future'[u] = "dropped" /\ ~ready'[u] => dropped'[u] /\ mem'[u] = "live"
          /\ future'[u] = "none" => ~dropped'[u]
      BY <2>1, <1>1, <1>3, <1>4, <1>6 DEF OneSideFrees
  <2>3. ASSUME NEW u \in Valued, future'[u] = "dropped", ready'[u]
        PROVE  mem'[u] = "freed" \/ \E v \in Worker : wtask'[v] = u /\ wstate'[v] = "free"
    <3>1. u # t /\ future[u] = "dropped" /\ ready[u]
        BY <2>1, <2>3, <1>4
    <3>2. mem[u] = "freed" \/ \E v \in Worker : wtask[v] = u /\ wstate[v] = "free"
        BY <3>1 DEF OneSideFrees
    <3> QED
        BY <3>1, <3>2, <1>1, <1>2, <1>6
  <2>4. \A v \in Worker : wstate'[v] = "free" =>
          future'[wtask'[v]] = "dropped" /\ ready'[wtask'[v]] /\ mem'[wtask'[v]] = "live"
      BY <2>1, <1>2, <1>6, <1>8 DEF OneSideFrees
  <2> QED
      BY <2>2, <2>3, <2>4 DEF OneSideFrees
<1> QED
    BY <1>2, <1>7, <1>9, <1>10

\* The end of the task that submit queued.
LEMMA SetPromiseIInv == ASSUME IInv, NEW w \in Worker, SetPromise(w) PROVE IInv'
    BY SetForDroppedIInv, SetForOwnerIInv

\* should_free: the worker deletes the promise.
LEMMA FreeByWorkerIInv == ASSUME IInv, NEW w \in Worker, FreeByWorker(w) PROVE IInv'
<1> USE DEF IInv
<1> DEFINE t == wtask[w]
<1>1. /\ wstate[w] = "free" /\ t \in Valued /\ t \in Task
      /\ wstate' = [wstate EXCEPT ![w] = "lock"]
      /\ wtask' = [wtask EXCEPT ![w] = Client]
      /\ mem' = [mem EXCEPT ![t] = "freed"]
      /\ UNCHANGED <<pool, task, ready, dropped, future>>
    BY ConstantsAssumption DEF FreeByWorker, WorkerOfTask
<1>2. /\ OneWorkerEach' /\ WorkerOfTask' /\ QueueOfTasks' /\ LastWorkerDrains'
      /\ wstate' \in [Worker -> {"lock", "wait", "run", "set", "free", "exit"}]
      /\ wtask' \in [Worker -> Owner]
      /\ wstate'[w] = "lock"
      /\ \A v \in Worker : v # w =>
            wstate'[v] = wstate[v] /\ wtask'[v] = wtask[v] /\ wtask[v] # t
    BY <1>1, ReleaseKeeps
<1>3. future[t] = "dropped" /\ ready[t]
    BY <1>1 DEF OneSideFrees
<1>4. mem'[t] = "freed" /\ \A u \in Task : u # t => mem'[u] = mem[u]
    BY <1>1 DEF TypeOK
<1>5. UNCHANGED <<q, run, workers, task, ready, dropped, future>>
    BY <1>1 DEF pool
<1>6. TypeOK'
    BY <1>1, <1>2, <1>5 DEF TypeOK
<1> HIDE DEF t
<1>7. \A v \in Worker : \A s \in {"set", "free"} :
         wstate'[v] = s => v # w /\ wstate[v] = s /\ wtask[v] \in Valued
    BY <1>2 DEF WorkerOfTask
<1>8. ReadyAfterRun'
  <2>1. ASSUME NEW u \in Valued, task[u] = "done", ~ready[u]
        PROVE  \E v \in Worker : wtask'[v] = u /\ wstate'[v] = "set"
    <3>1. PICK v \in Worker : wtask[v] = u /\ wstate[v] = "set"
        BY <2>1 DEF ReadyAfterRun
    <3> QED
        BY <3>1, <1>1, <1>2
  <2> QED
      BY <2>1, <1>2, <1>5, <1>7 DEF ReadyAfterRun
<1>9. OneSideFrees'
  <2>1. \A u \in Valued : u # t => mem'[u] = mem[u]
      BY <1>4, ConstantsAssumption
  <2>2. \A u \in Valued :
          /\ future'[u] \in {"held", "get", "wait"} => ~dropped'[u] /\ mem'[u] = "live"
          /\ future'[u] \in {"take", "delete"} => ready'[u] /\ mem'[u] = "live"
          /\ future'[u] = "got" => ready'[u] /\ mem'[u] = "freed"
          /\ future'[u] = "dropped" /\ ~ready'[u] => dropped'[u] /\ mem'[u] = "live"
          /\ future'[u] = "none" => ~dropped'[u]
      BY <2>1, <1>3, <1>5 DEF OneSideFrees
  <2>3. ASSUME NEW u \in Valued, future'[u] = "dropped", ready'[u]
        PROVE  mem'[u] = "freed" \/ \E v \in Worker : wtask'[v] = u /\ wstate'[v] = "free"
    <3>1. CASE u = t
        BY <3>1, <1>4
    <3>2. CASE u # t
      <4>1. mem[u] = "freed" \/ \E v \in Worker : wtask[v] = u /\ wstate[v] = "free"
          BY <2>3, <1>5 DEF OneSideFrees
      <4> QED
          BY <3>2, <4>1, <2>1, <1>2 DEF t
    <3> QED
        BY <3>1, <3>2
  <2>4. \A v \in Worker : wstate'[v] = "free" =>
          future'[wtask'[v]] = "dropped" /\ ready'[wtask'[v]] /\ mem'[wtask'[v]] = "live"
      BY <2>1, <1>2, <1>5, <1>7 DEF OneSideFrees
  <2> QED
      BY <2>2, <2>3, <2>4 DEF OneSideFrees
<1> QED
    BY <1>2, <1>6, <1>8, <1>9

-----------------------------------------------------------------------------
\* What the owner of a future does changes neither the queue nor a worker.
LEMMA OwnerKeeps ==
    ASSUME IInv, UNCHANGED <<pool, wstate, wtask, task>>
    PROVE  OneWorkerEach' /\ WorkerOfTask' /\ QueueOfTasks' /\ LastWorkerDrains'
<1> USE DEF IInv
<1>1. UNCHANGED <<q, run, workers, wstate, wtask, task>>
    BY DEF pool
<1>2. OneWorkerEach' /\ WorkerOfTask'
    BY <1>1 DEF OneWorkerEach, WorkerOfTask, Busy
<1>3. QueueOfTasks' /\ LastWorkerDrains'
    BY <1>1 DEF QueueOfTasks, LastWorkerDrains
<1> QED
    BY <1>2, <1>3

\* One future moves on from a state it is held in.
LEMMA HeldMoves ==
    ASSUME IInv, NEW t \in Valued, future[t] \in {"held", "get", "wait"},
           NEW f \in {"get", "wait"}, future' = [future EXCEPT ![t] = f],
           UNCHANGED <<pool, wstate, wtask, task, promise>>
    PROVE  IInv'
<1> USE DEF IInv
<1>1. UNCHANGED <<q, run, workers, wstate, wtask, task, mem, ready, dropped>>
    BY DEF pool, promise
<1>2. OneWorkerEach' /\ WorkerOfTask' /\ QueueOfTasks' /\ LastWorkerDrains'
    BY OwnerKeeps
<1>3. TypeOK'
    BY <1>1 DEF TypeOK
<1>4. future'[t] = f /\ \A u \in Valued : u # t => future'[u] = future[u]
    BY ConstantsAssumption DEF TypeOK
<1>5. ReadyAfterRun'
    BY <1>1, <1>4 DEF ReadyAfterRun
<1>6. \A w \in Worker : wstate[w] = "free" => wtask[w] # t /\ wtask[w] \in Valued
    BY DEF OneSideFrees, WorkerOfTask
<1>7. OneSideFrees'
    BY <1>1, <1>4, <1>6 DEF OneSideFrees
<1> QED
    BY <1>2, <1>3, <1>5, <1>7

\* Future::get is called, and a spurious wake-up in it.
LEMMA CallGetIInv ==
    ASSUME IInv, NEW t \in Valued, CallGet(t) \/ WakeGetSpuriously(t) PROVE IInv'
    BY HeldMoves DEF CallGet, WakeGetSpuriously

\* Future::get under the promise's mutex.
LEMMA LockInGetIInv == ASSUME IInv, NEW t \in Valued, LockInGet(t) PROVE IInv'
<1>1. CASE ~ready[t]
    BY <1>1, HeldMoves DEF LockInGet, promise
<1>2. CASE ready[t]
  <2> USE DEF IInv
  <2>1. /\ future[t] = "get"
        /\ dropped' = [dropped EXCEPT ![t] = TRUE]
        /\ future' = [future EXCEPT ![t] = "take"]
        /\ UNCHANGED <<q, run, workers, wstate, wtask, task, mem, ready>>
      BY <1>2 DEF LockInGet, pool
  <2>2. OneWorkerEach' /\ WorkerOfTask' /\ QueueOfTasks' /\ LastWorkerDrains'
      BY OwnerKeeps DEF LockInGet
  <2>3. TypeOK'
      BY <2>1 DEF TypeOK
  <2>4. /\ future'[t] = "take"
        /\ \A u \in Valued : u # t => future'[u] = future[u] /\ dropped'[u] = dropped[u]
      BY <2>1, ConstantsAssumption DEF TypeOK
  <2>5. ReadyAfterRun'
      BY <2>1, <2>4 DEF ReadyAfterRun
  <2>6. \A w \in Worker : wstate[w] = "free" => wtask[w] # t /\ wtask[w] \in Valued
      BY <2>1 DEF OneSideFrees, WorkerOfTask
  <2>7. OneSideFrees'
      BY <1>2, <2>1, <2>4, <2>6 DEF OneSideFrees
  <2> QED
      BY <2>2, <2>3, <2>5, <2>7
<1> QED
    BY <1>1, <1>2

\* The owner frees the promise, in Future::get or in Future::delete.
LEMMA OwnerFreesIInv ==
    ASSUME IInv, NEW t \in Valued, future[t] \in {"take", "delete"},
           NEW f \in {"got", "dropped"}, future' = [future EXCEPT ![t] = f],
           mem' = [mem EXCEPT ![t] = "freed"],
           UNCHANGED <<pool, wstate, wtask, task, ready, dropped>>
    PROVE  IInv'
<1> USE DEF IInv
<1>1. UNCHANGED <<q, run, workers, wstate, wtask, task, ready, dropped>>
    BY DEF pool
<1>2. OneWorkerEach' /\ WorkerOfTask' /\ QueueOfTasks' /\ LastWorkerDrains'
    BY OwnerKeeps
<1>3. TypeOK'
    BY <1>1 DEF TypeOK
<1>4. /\ future'[t] = f /\ mem'[t] = "freed"
      /\ \A u \in Valued : u # t => future'[u] = future[u] /\ mem'[u] = mem[u]
    BY ConstantsAssumption DEF TypeOK
<1>5. ready[t]
    BY DEF OneSideFrees
<1>6. ReadyAfterRun'
    BY <1>1, <1>4 DEF ReadyAfterRun
<1>7. \A w \in Worker : wstate[w] = "free" => wtask[w] # t /\ wtask[w] \in Valued
    BY DEF OneSideFrees, WorkerOfTask
<1>8. OneSideFrees'
    BY <1>1, <1>4, <1>5, <1>7 DEF OneSideFrees
<1> QED
    BY <1>2, <1>3, <1>6, <1>8

\* Future::delete under the promise's mutex.
LEMMA DropIInv == ASSUME IInv, NEW t \in Valued, Drop(t) PROVE IInv'
<1> USE DEF IInv
<1> DEFINE f == IF ready[t] THEN "delete" ELSE "dropped"
<1>1. /\ future[t] = "held"
      /\ dropped' = [dropped EXCEPT ![t] = TRUE]
      /\ future' = [future EXCEPT ![t] = f]
      /\ UNCHANGED <<q, run, workers, wstate, wtask, task, mem, ready>>
    BY DEF Drop, pool
<1>2. OneWorkerEach' /\ WorkerOfTask' /\ QueueOfTasks' /\ LastWorkerDrains'
    BY OwnerKeeps DEF Drop
<1>3. TypeOK'
    BY <1>1 DEF TypeOK
<1>4. /\ future'[t] = f /\ dropped'[t]
      /\ \A u \in Valued : u # t => future'[u] = future[u] /\ dropped'[u] = dropped[u]
    BY <1>1, ConstantsAssumption DEF TypeOK
<1>5. ReadyAfterRun'
    BY <1>1, <1>4 DEF ReadyAfterRun
<1>6. \A w \in Worker : wstate[w] = "free" => wtask[w] # t /\ wtask[w] \in Valued
    BY <1>1 DEF OneSideFrees, WorkerOfTask
<1>7. OneSideFrees'
    BY <1>1, <1>4, <1>6 DEF OneSideFrees
<1> QED
    BY <1>2, <1>3, <1>5, <1>7

-----------------------------------------------------------------------------
\* PoolData::delete tells every worker.
LEMMA StopIInv == ASSUME IInv, Stop PROVE IInv'
<1> USE DEF IInv
<1>1. /\ run' = FALSE /\ workers' = "joining"
      /\ UNCHANGED <<q, wtask, task, mem, ready, dropped, future>>
    BY DEF Stop, promise
<1>2. Woken
    BY DEF Stop, Woken, TypeOK
<1>3. TypeOK'
    BY <1>1, <1>2 DEF TypeOK, Woken
<1>4. /\ OneWorkerEach'
      /\ \A w \in Worker : \A s \in {"run", "set", "free", "exit"} : wstate'[w] = s <=> wstate[w] = s
    BY <1>1, <1>2, WokenKeeps
<1>5. WorkerOfTask' /\ ReadyAfterRun' /\ OneSideFrees'
    BY <1>1, <1>4 DEF WorkerOfTask, ReadyAfterRun, OneSideFrees
<1>6. QueueOfTasks'
    BY <1>1, QueueKept DEF TypeOK
<1>7. LastWorkerDrains'
    BY <1>1, <1>4 DEF LastWorkerDrains
<1> QED
    BY <1>3, <1>4, <1>5, <1>6, <1>7

\* And clears the queue when they are gone: it is empty by then.
LEMMA JoinIInv == ASSUME IInv, Join PROVE IInv'
<1> USE DEF IInv
<1>1. /\ workers = "joining" /\ workers' = "joined"
      /\ \A w \in Worker : wstate[w] = "exit"
      /\ UNCHANGED <<run, wstate, wtask, task, mem, ready, dropped, future>>
    BY DEF Join, promise
<1>2. q = <<>> /\ q' = q
    BY <1>1 DEF LastWorkerDrains, Join
<1>3. TypeOK'
    BY <1>1, <1>2 DEF TypeOK
<1>4. OneWorkerEach' /\ WorkerOfTask' /\ ReadyAfterRun' /\ OneSideFrees'
    BY <1>1 DEF OneWorkerEach, Busy, WorkerOfTask, ReadyAfterRun, OneSideFrees
<1>5. QueueOfTasks'
    BY <1>1, <1>2 DEF QueueOfTasks
<1>6. LastWorkerDrains'
    BY <1>1, <1>2 DEF LastWorkerDrains
<1> QED
    BY <1>3, <1>4, <1>5, <1>6

\* A step of nobody.
LEMMA StutterIInv == ASSUME IInv, UNCHANGED vars PROVE IInv'
<1>1. /\ UNCHANGED <<q, run, workers, wstate, wtask, task, mem, ready, dropped, future>>
    BY DEF vars, pool, promise
<1>2. TypeOK'
    BY <1>1 DEF IInv, TypeOK
<1>3. OneWorkerEach' /\ WorkerOfTask' /\ QueueOfTasks' /\ LastWorkerDrains'
    BY OwnerKeeps DEF vars
<1>4. ReadyAfterRun' /\ OneSideFrees'
    BY <1>1 DEF IInv, ReadyAfterRun, OneSideFrees
<1> QED
    BY <1>2, <1>3, <1>4 DEF IInv

\* Every step of the pool, its workers and the owners of futures.
LEMMA StepIInv == IInv /\ [Next]_vars => IInv'
<1> SUFFICES ASSUME IInv, [Next]_vars PROVE IInv'
    OBVIOUS
<1>1. CASE \E t \in Task : Submit(t)
    BY <1>1, SubmitIInv
<1>2. CASE \E w \in Worker : WorkerStep(w) \/ WakeSpuriously(w)
    BY <1>2, LockPoolIInv, FinishIInv, SetPromiseIInv, FreeByWorkerIInv,
       WakeSpuriouslyIInv DEF WorkerStep
<1>3. CASE \E t \in Valued : CallGet(t) \/ Drop(t) \/ WakeGetSpuriously(t) \/ OwnerStep(t)
  <2> PICK t \in Valued : CallGet(t) \/ Drop(t) \/ WakeGetSpuriously(t) \/ OwnerStep(t)
      BY <1>3
  <2>1. CASE CallGet(t) \/ WakeGetSpuriously(t)
      BY <2>1, CallGetIInv
  <2>2. CASE Drop(t)
      BY <2>2, DropIInv
  <2>3. CASE LockInGet(t)
      BY <2>3, LockInGetIInv
  <2>4. CASE Take(t) \/ FreeByOwner(t)
      BY <2>4, OwnerFreesIInv DEF Take, FreeByOwner
  <2> QED
      BY <2>1, <2>2, <2>3, <2>4 DEF OwnerStep
<1>4. CASE Stop
    BY <1>4, StopIInv
<1>5. CASE Join
    BY <1>5, JoinIInv
<1>6. CASE UNCHANGED vars
    BY <1>6, StutterIInv
<1> QED
    BY <1>1, <1>2, <1>3, <1>4, <1>5, <1>6 DEF Next

\* The inductive invariant holds in every state of the pool.
THEOREM Invariance == Spec => []IInv
    BY InitIInv, StepIInv, PTL DEF Spec

-----------------------------------------------------------------------------
\* The queue, the workers and the promises have their types (PoolData, Promise).
THEOREM TypeCorrect == Spec => []TypeOK
    BY Invariance, PTL DEF IInv

\* Future::get, Future::delete and the end of submit's task only touch a
\* promise that the other side has not freed.
LEMMA IInvNoUseAfterFree == IInv => NoUseAfterFree
<1> SUFFICES ASSUME IInv, NEW t \in Valued,
                    \/ future[t] \in {"held", "get", "wait", "take", "delete"}
                    \/ \E w \in Worker : wtask[w] = t /\ wstate[w] \in {"run", "set", "free"}
             PROVE  mem[t] = "live"
    BY DEF NoUseAfterFree
<1> USE DEF IInv
<1>1. CASE future[t] \in {"held", "get", "wait", "take", "delete"}
    BY <1>1 DEF OneSideFrees
<1>2. CASE \E w \in Worker : wtask[w] = t /\ wstate[w] \in {"run", "set", "free"}
  <2> PICK w \in Worker : wtask[w] = t /\ wstate[w] \in {"run", "set", "free"}
      BY <1>2
  <2>1. CASE wstate[w] = "free"
      BY <2>1 DEF OneSideFrees
  <2>2. CASE wstate[w] \in {"run", "set"}
    <3>1. ~ready[t] /\ future[t] # "none"
        BY <2>2 DEF WorkerOfTask, ReadyAfterRun
    <3>2. future[t] \notin {"take", "delete", "got"}
        BY <3>1 DEF OneSideFrees
    <3>3. future[t] \in {"held", "get", "wait", "dropped"}
        BY <3>1, <3>2, ConstantsAssumption DEF TypeOK
    <3> QED
        BY <3>1, <3>3 DEF OneSideFrees
  <2> QED
      BY <2>1, <2>2
<1> QED
    BY <1>1, <1>2

\* No promise is used after it is freed, however the worker that sets it and
\* the owner that gets or drops it take turns.
THEOREM NoUseAfterFreeHolds == Spec => []NoUseAfterFree
    BY Invariance, IInvNoUseAfterFree, PTL

\* When the workers are joined, nobody is left between setting and freeing.
LEMMA IInvPromiseFreed == IInv => PromiseFreed
<1> SUFFICES ASSUME IInv, workers = "joined", NEW t \in Valued,
                    future[t] \in {"got", "dropped"}
             PROVE  mem[t] = "freed"
    BY DEF PromiseFreed
<1> USE DEF IInv
<1>1. \A w \in Worker : wstate[w] = "exit"
    BY DEF LastWorkerDrains
<1>2. CASE future[t] = "got"
    BY <1>2 DEF OneSideFrees
<1>3. CASE future[t] = "dropped"
  <2>1. task[t] # "none" /\ task[t] # "running" /\ t \in Task
      BY <1>1, <1>3, ConstantsAssumption DEF ReadyAfterRun, WorkerOfTask
  <2>2. q = <<>>
      BY <1>1 DEF LastWorkerDrains
  <2>3. task[t] # "queued"
      BY <2>1, <2>2 DEF QueueOfTasks
  <2>4. ready[t]
      BY <1>1, <2>1, <2>3 DEF ReadyAfterRun, TypeOK
  <2> QED
      BY <1>1, <1>3, <2>4 DEF OneSideFrees
<1> QED
    BY <1>2, <1>3

\* No promise leaks: one side frees it, whichever comes second.
THEOREM PromiseFreedHolds == Spec => []PromiseFreed
    BY Invariance, IInvPromiseFreed, PTL

\* The last worker leaves an empty queue, and nothing fills it again.
LEMMA IInvDestructionWaits == IInv => DestructionWaits
<1> SUFFICES ASSUME IInv, workers = "joined", NEW t \in Task
             PROVE  task[t] \in {"none", "done"}
    BY DEF DestructionWaits
<1> USE DEF IInv
<1>1. \A w \in Worker : wstate[w] = "exit"
    BY DEF LastWorkerDrains
<1>2. q = <<>>
    BY <1>1 DEF LastWorkerDrains
<1>3. task[t] # "running" /\ task[t] # "queued"
    BY <1>1, <1>2 DEF WorkerOfTask, QueueOfTasks
<1> QED
    BY <1>3 DEF TypeOK

\* PoolData::delete returns after every task that was submitted has been run,
\* those that tasks submit while the pool is going away included.
THEOREM DestructionWaitsHolds == Spec => []DestructionWaits
    BY Invariance, IInvDestructionWaits, PTL

-----------------------------------------------------------------------------
\* The refinement of TaskPool.

\* The owner of one future goes to another place.
LEMMA HandleMoves ==
    ASSUME TypeOK, NEW t \in Task, NEW p, future' = [future EXCEPT ![t] = p]
    PROVE  Handle' = [Handle EXCEPT ![t] = Seen(p)]
<1>1. \A u \in Task : future'[u] = IF u = t THEN p ELSE future[u]
    BY DEF TypeOK
<1>2. Handle' = [u \in Task |-> Seen(IF u = t THEN p ELSE future[u])]
    BY <1>1 DEF Handle
<1>3. [Handle EXCEPT ![t] = Seen(p)] = [u \in Task |-> IF u = t THEN Seen(p) ELSE Handle[u]]
    BY DEF Handle
<1>4. \A u \in Task : Seen(IF u = t THEN p ELSE future[u]) = IF u = t THEN Seen(p) ELSE Handle[u]
    BY DEF Handle
<1> QED
    BY <1>2, <1>3, <1>4

\* A move that cannot be seen from outside.
LEMMA HandleStays ==
    ASSUME TypeOK, NEW t \in Task, NEW p, future' = [future EXCEPT ![t] = p],
           Seen(p) = Seen(future[t])
    PROVE  Handle' = Handle
<1>1. Handle' = [Handle EXCEPT ![t] = Seen(p)]
    BY HandleMoves
<1>2. Handle \in [Task -> {Handle[u] : u \in Task}] /\ Handle[t] = Seen(p)
    BY DEF Handle
<1> QED
    BY <1>1, <1>2

\* Nothing moves.
LEMMA HandleSame == ASSUME UNCHANGED future PROVE Handle' = Handle
    BY DEF Handle

\* submit and submit_void: the parent of a task that is submitted by another runs.
LEMMA SubmitImplements ==
    ASSUME IInv, NEW t \in Task, Submit(t) PROVE Tasks!Submit(t)
<1> USE DEF IInv
<1>1. /\ task[t] = "none" /\ q' = Append(q, t) /\ task' = [task EXCEPT ![t] = "queued"]
      /\ workers' = workers
    BY DEF Submit, MaySubmit
<1>2. IF Parent[t] = Client THEN workers = "working" ELSE task[Parent[t]] = "running"
    BY DEF Submit, MaySubmit, LastWorkerDrains, WorkerOfTask
<1>3. Handle' = IF t \in Valued THEN [Handle EXCEPT ![t] = "held"] ELSE Handle
  <2>1. CASE t \in Valued
      BY <2>1, HandleMoves DEF Submit, Seen
  <2>2. CASE t \notin Valued
      BY <2>2, HandleSame DEF Submit
  <2> QED
      BY <2>1, <2>2
<1> QED
    BY <1>1, <1>2, <1>3 DEF Tasks!Submit

\* A worker under the pool's mutex starts the first task, or does nothing that
\* can be seen.
LEMMA LockPoolImplements ==
    ASSUME IInv, NEW w \in Worker, LockPool(w)
    PROVE  (\E t \in Task : Tasks!Start(t)) \/ UNCHANGED Tasks!vars
<1>1. Handle' = Handle /\ workers' = workers
    BY HandleSame DEF LockPool
<1>2. CASE q # <<>>
  <2>1. Head(q) \in Task
      BY <1>2, TailQueue DEF IInv, TypeOK
  <2>2. Tasks!Start(Head(q))
      BY <1>1, <1>2 DEF LockPool, Tasks!Start
  <2> QED
      BY <2>1, <2>2
<1>3. CASE q = <<>>
    BY <1>1, <1>3 DEF LockPool, Tasks!vars
<1> QED
    BY <1>2, <1>3

\* The task's function returns.
LEMMA FinishImplements ==
    ASSUME IInv, NEW w \in Worker, Finish(w)
    PROVE  \E t \in Task : Tasks!Return(t)
<1> USE DEF IInv
<1>1. PICK t \in Task : t = wtask[w] /\ task[t] = "running"
    BY DEF Finish, WorkerOfTask, OneWorkerEach, Busy, TypeOK, Owner
<1>2. Handle' = Handle /\ workers' = workers /\ q' = q /\ task' = [task EXCEPT ![t] = "done"]
    BY <1>1, HandleSame DEF Finish, pool
<1>3. ASSUME NEW c \in Task, Parent[c] = t
      PROVE  task[c] # "none" /\ (c \in Valued => Handle[c] \in {"got", "dropped"})
  <2>1. Consumed(c)
      BY <1>1, <1>3 DEF Finish, Children
  <2>2. CASE c \in Valued
    <3>1. future[c] \in {"got", "dropped"}
        BY <2>1, <2>2 DEF Consumed
    <3> QED
        BY <2>2, <3>1 DEF Handle, Seen, ReadyAfterRun
  <2>3. CASE c \notin Valued
      BY <2>1, <2>3 DEF Consumed
  <2> QED
      BY <2>2, <2>3
<1> QED
    BY <1>1, <1>2, <1>3 DEF Tasks!Return

\* The worker's part of a promise, and waking up, are not seen.
LEMMA PromiseUnseen ==
    ASSUME IInv, NEW w \in Worker, SetPromise(w) \/ FreeByWorker(w) \/ WakeSpuriously(w)
    PROVE  UNCHANGED Tasks!vars
<1>1. UNCHANGED <<q, workers, task>>
    BY DEF SetPromise, FreeByWorker, WakeSpuriously, pool
<1>2. Handle' = Handle
  <2>1. CASE SetPromise(w)
    <3>1. wtask[w] \in Task
        BY <2>1, ConstantsAssumption DEF IInv, SetPromise, WorkerOfTask
    <3>2. CASE future[wtask[w]] = "wait"
        BY <2>1, <3>1, <3>2, HandleStays DEF IInv, SetPromise, Notified, Seen
    <3>3. CASE future[wtask[w]] # "wait"
        BY <2>1, <3>3, HandleSame DEF SetPromise, Notified
    <3> QED
        BY <3>2, <3>3
  <2>2. CASE FreeByWorker(w) \/ WakeSpuriously(w)
      BY <2>2, HandleSame DEF FreeByWorker, WakeSpuriously
  <2> QED
      BY <2>1, <2>2
<1> QED
    BY <1>1, <1>2 DEF Tasks!vars

\* The owner of a future: get gives the value when it returns, and delete is
\* seen when it locks the mutex.
LEMMA OwnerImplements ==
    ASSUME IInv, NEW t \in Valued,
           CallGet(t) \/ Drop(t) \/ WakeGetSpuriously(t) \/ OwnerStep(t)
    PROVE  Tasks!Get(t) \/ Tasks!Drop(t) \/ UNCHANGED Tasks!vars
<1> USE DEF IInv
<1>1. t \in Task /\ UNCHANGED <<q, workers, task>>
    BY ConstantsAssumption
       DEF CallGet, Drop, WakeGetSpuriously, OwnerStep, LockInGet, Take, FreeByOwner, pool
<1>2. CASE CallGet(t) \/ WakeGetSpuriously(t)
  <2>1. Handle' = Handle
      BY <1>1, <1>2, HandleStays DEF CallGet, WakeGetSpuriously, Seen
  <2> QED
      BY <1>1, <2>1 DEF Tasks!vars
<1>3. CASE LockInGet(t)
  <2>1. Handle' = Handle
    <3>1. CASE ready[t]
        BY <1>1, <1>3, <3>1, HandleStays DEF LockInGet, Seen
    <3>2. CASE ~ready[t]
        BY <1>1, <1>3, <3>2, HandleStays DEF LockInGet, Seen
    <3> QED
        BY <3>1, <3>2
  <2> QED
      BY <1>1, <2>1 DEF Tasks!vars
<1>4. CASE Take(t)
  <2>1. future[t] = "take" /\ Handle' = [Handle EXCEPT ![t] = "got"]
      BY <1>1, <1>4, HandleMoves DEF Take, Seen
  <2>2. Handle[t] = "held" /\ task[t] = "done"
      BY <1>1, <2>1 DEF Handle, Seen, OneSideFrees, ReadyAfterRun
  <2> QED
      BY <1>1, <2>1, <2>2 DEF Tasks!Get
<1>5. CASE Drop(t)
  <2>1. Handle[t] = "held"
      BY <1>1, <1>5 DEF Drop, Handle, Seen
  <2>2. Handle' = [Handle EXCEPT ![t] = "dropped"]
    <3>1. CASE ready[t]
        BY <1>1, <1>5, <3>1, HandleMoves DEF Drop, Seen
    <3>2. CASE ~ready[t]
        BY <1>1, <1>5, <3>2, HandleMoves DEF Drop, Seen
    <3> QED
        BY <3>1, <3>2
  <2> QED
      BY <1>1, <2>1, <2>2 DEF Tasks!Drop
<1>6. CASE FreeByOwner(t)
  <2>1. Handle' = Handle
      BY <1>1, <1>6, HandleStays DEF FreeByOwner, Seen
  <2> QED
      BY <1>1, <2>1 DEF Tasks!vars
<1> QED
    BY <1>2, <1>3, <1>4, <1>5, <1>6 DEF OwnerStep

\* The destructor: when the last worker has left, everything has been run.
LEMMA DeleteImplements ==
    ASSUME IInv, Stop \/ Join PROVE Tasks!Close \/ Tasks!Closed
<1> USE DEF IInv
<1>1. CASE Stop
    BY <1>1, HandleSame DEF Stop, Tasks!Close
<1>2. CASE Join
  <2>1. q = <<>>
      BY <1>2 DEF Join, LastWorkerDrains
  <2>2. \A t \in Task : task[t] \in {"none", "done"}
      BY <1>2, <2>1 DEF Join, WorkerOfTask, QueueOfTasks, TypeOK
  <2> QED
      BY <1>2, <2>1, <2>2, HandleSame DEF Join, Tasks!Closed
<1> QED
    BY <1>1, <1>2

\* Every step of the pool is one of a pool without threads, or not seen.
LEMMA StepImplements == IInv /\ [Next]_vars => [Tasks!Next]_Tasks!vars
<1> SUFFICES ASSUME IInv, [Next]_vars PROVE [Tasks!Next]_Tasks!vars
    OBVIOUS
<1>1. CASE \E t \in Task : Submit(t)
    BY <1>1, SubmitImplements DEF Tasks!Next
<1>2. CASE \E w \in Worker : WorkerStep(w) \/ WakeSpuriously(w)
    BY <1>2, LockPoolImplements, FinishImplements, PromiseUnseen DEF WorkerStep, Tasks!Next
<1>3. CASE \E t \in Valued : CallGet(t) \/ Drop(t) \/ WakeGetSpuriously(t) \/ OwnerStep(t)
    BY <1>3, OwnerImplements, ConstantsAssumption DEF Tasks!Next
<1>4. CASE Stop \/ Join
    BY <1>4, DeleteImplements DEF Tasks!Next
<1>5. CASE UNCHANGED vars
    BY <1>5, HandleSame DEF vars, pool, Tasks!vars
<1> QED
    BY <1>1, <1>2, <1>3, <1>4, <1>5 DEF Next

\* The thread pool implements TaskPool: with its threads, promises and condition
\* variables hidden, each step of the code is a step that TaskPool allows.
THEOREM Implements == Spec => ImplementsTaskPool
<1>1. Init => Tasks!Init
  <2> SUFFICES ASSUME Init PROVE Tasks!Init
      OBVIOUS
  <2>1. Handle = [t \in Task |-> "none"]
      BY DEF Init, Handle, Seen
  <2> QED
      BY <2>1 DEF Init, Tasks!Init
<1> QED
    BY <1>1, StepImplements, Invariance, PTL DEF Spec, ImplementsTaskPool, Tasks!Spec
=============================================================================
