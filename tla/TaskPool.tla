------------------------------- MODULE TaskPool -------------------------------
(***************************************************************************)
(* What a thread pool promises, without threads, promises and wake-ups:    *)
(* each task that is submitted is run, once and in the order of            *)
(* submission; a future gives its value once, and not before the task has  *)
(* returned; a task returns when it has dealt with the futures it was      *)
(* given; and the pool is gone when everything has been run.               *)
(***************************************************************************)
EXTENDS Naturals, Sequences

CONSTANTS Task, Valued, Client, Parent

VARIABLES
    waiting,    \* the tasks that have been submitted and not started
    task,       \* task[t]: "none", "queued", "running", "done"
    future,     \* future[t]: "none", "held", "got" or "dropped"
    stage       \* the pool: "working", "joining" (being deleted) or "joined"

vars == <<waiting, task, future, stage>>

Init ==
    /\ waiting = <<>>
    /\ task = [t \in Task |-> "none"]
    /\ future = [t \in Task |-> "none"]
    /\ stage = "working"

\* By a client as long as the pool is not being deleted, by a task at any time.
Submit(t) ==
    /\ task[t] = "none"
    /\ IF Parent[t] = Client THEN stage = "working" ELSE task[Parent[t]] = "running"
    /\ waiting' = Append(waiting, t)
    /\ task' = [task EXCEPT ![t] = "queued"]
    /\ future' = IF t \in Valued THEN [future EXCEPT ![t] = "held"] ELSE future
    /\ UNCHANGED stage

Start(t) ==
    /\ waiting # <<>> /\ t = Head(waiting)
    /\ waiting' = Tail(waiting)
    /\ task' = [task EXCEPT ![t] = "running"]
    /\ UNCHANGED <<future, stage>>

\* All that t submits has been submitted, and none of the futures is held.
Return(t) ==
    /\ task[t] = "running"
    /\ \A c \in Task : Parent[c] = t =>
          task[c] # "none" /\ (c \in Valued => future[c] \in {"got", "dropped"})
    /\ task' = [task EXCEPT ![t] = "done"]
    /\ UNCHANGED <<waiting, future, stage>>

Get(t) ==
    /\ future[t] = "held" /\ task[t] = "done"
    /\ future' = [future EXCEPT ![t] = "got"]
    /\ UNCHANGED <<waiting, task, stage>>

Drop(t) ==
    /\ future[t] = "held"
    /\ future' = [future EXCEPT ![t] = "dropped"]
    /\ UNCHANGED <<waiting, task, stage>>

Close ==
    /\ stage = "working"
    /\ stage' = "joining"
    /\ UNCHANGED <<waiting, task, future>>

Closed ==
    /\ stage = "joining"
    /\ \A t \in Task : task[t] \in {"none", "done"}
    /\ stage' = "joined"
    /\ UNCHANGED <<waiting, task, future>>

Next ==
    \/ \E t \in Task : Submit(t) \/ Start(t) \/ Return(t) \/ Get(t) \/ Drop(t)
    \/ Close
    \/ Closed

Spec == Init /\ [][Next]_vars
=============================================================================
