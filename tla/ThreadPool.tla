----------------------------- MODULE ThreadPool -----------------------------
(***************************************************************************)
(* The fixed-size pool of src/thread_pool.cpp.  One thread, the owner (the *)
(* accept loop), submits tasks and finally destroys the pool; each worker  *)
(* repeats: wait until there is a task or a shutdown, take the oldest      *)
(* task, run it outside the lock.                                          *)
(*                                                                         *)
(* tasks_ and shutdown_ are only touched with mtx_ held, so a stretch of   *)
(* code that holds mtx_ is one action.  What the code does outside it is   *)
(* an action of its own: notify_one() after submit() released the lock,    *)
(* notify_all() and the joins of the destructor, and the run of a task.    *)
(***************************************************************************)
EXTENDS Naturals, Sequences, FiniteSets

CONSTANTS Workers,    \* workers_, the threads of the pool
          Tasks,      \* the closures that can be submitted, each at most once
          NoTask      \* the empty std::function of an idle worker

ASSUME WorkersAssumption == IsFiniteSet(Workers) /\ Workers # {}
ASSUME NoTaskAssumption == NoTask \notin Tasks

VARIABLES tasks,      \* tasks_, oldest first
          shutdown,   \* shutdown_
          owner,      \* where the owner thread is, see OwnerStates
          worker,     \* where each worker is, see WorkerStates
          running,    \* the local `task` of each worker
          done        \* the tasks whose call has returned or thrown

vars == <<tasks, shutdown, owner, worker, running, done>>

\* "open": between two calls; "notify": in submit(), lock released, before
\* notify_one(); "notify_all": in the destructor, shutdown_ set, before
\* notify_all(); "join": joining the workers; "joined": destroyed.
OwnerStates == {"open", "notify", "notify_all", "join", "joined"}

\* "ready": about to take mtx_ and evaluate the wait predicate; "waiting":
\* blocked in cv_.wait; "running": calling the task; "exited": returned.
WorkerStates == {"ready", "waiting", "running", "exited"}

In(s) == {w \in Workers : worker[w] = s}
Queued == {tasks[i] : i \in DOMAIN tasks}
Active == {running[w] : w \in In("running")}
Submitted == Queued \cup Active \cup done
Awake == Cardinality(In("ready"))

Init == /\ tasks = <<>>
        /\ shutdown = FALSE
        /\ owner = "open"
        /\ worker = [w \in Workers |-> "ready"]
        /\ running = [w \in Workers |-> NoTask]
        /\ done = {}
-----------------------------------------------------------------------------
(* The owner thread. *)

\* submit(): push under the lock ...
Submit(t) == /\ owner = "open"
             /\ t \notin Submitted
             /\ tasks' = Append(tasks, t)
             /\ owner' = "notify"
             /\ UNCHANGED <<shutdown, worker, running, done>>

\* Faulty variants, which the runs must tell from the code: submit() notifies
\* only when the queue was empty; submit() notifies nobody.
NotifyIfWasEmpty ==
    /\ owner = "notify"
    /\ \/ Len(tasks) = 1 /\ \E w \in In("waiting") :
                                worker' = [worker EXCEPT ![w] = "ready"]
       \/ (Len(tasks) # 1 \/ In("waiting") = {}) /\ UNCHANGED worker
    /\ owner' = "open"
    /\ UNCHANGED <<tasks, shutdown, running, done>>

NotifyNobody == /\ owner = "notify"
                /\ owner' = "open"
                /\ UNCHANGED <<tasks, shutdown, worker, running, done>>

\* ... then notify_one() outside it: it wakes one of the waiting workers,
\* whichever, and does nothing when none waits.
NotifyOne == /\ owner = "notify"
             /\ \/ \E w \in In("waiting") :
                     worker' = [worker EXCEPT ![w] = "ready"]
                \/ In("waiting") = {} /\ UNCHANGED worker
             /\ owner' = "open"
             /\ UNCHANGED <<tasks, shutdown, running, done>>

\* ~ThreadPool(): shutdown_ under the lock, then notify_all(), then joins.
Shutdown == /\ owner = "open"
            /\ shutdown' = TRUE
            /\ owner' = "notify_all"
            /\ UNCHANGED <<tasks, worker, running, done>>

\* Faulty variant: the destructor wakes one worker only.
NotifyAllWakesOne ==
    /\ owner = "notify_all"
    /\ \/ \E w \in In("waiting") : worker' = [worker EXCEPT ![w] = "ready"]
       \/ In("waiting") = {} /\ UNCHANGED worker
    /\ owner' = "join"
    /\ UNCHANGED <<tasks, shutdown, running, done>>

NotifyAll == /\ owner = "notify_all"
             /\ worker' = [w \in Workers |->
                             IF worker[w] = "waiting" THEN "ready" ELSE worker[w]]
             /\ owner' = "join"
             /\ UNCHANGED <<tasks, shutdown, running, done>>

\* The loop of joins returns when every worker has exited, in any order.
Join == /\ owner = "join"
        /\ \A w \in Workers : worker[w] = "exited"
        /\ owner' = "joined"
        /\ UNCHANGED <<tasks, shutdown, worker, running, done>>
-----------------------------------------------------------------------------
(* A worker. *)

\* The wait predicate is false: cv_.wait releases mtx_ and blocks, atomically.
Wait(w) == /\ worker[w] = "ready"
           /\ ~shutdown
           /\ tasks = <<>>
           /\ worker' = [worker EXCEPT ![w] = "waiting"]
           /\ UNCHANGED <<tasks, shutdown, owner, running, done>>

\* A condition variable may wake up for no reason; the predicate is rechecked.
SpuriousWakeup(w) == /\ worker[w] = "waiting"
                     /\ worker' = [worker EXCEPT ![w] = "ready"]
                     /\ UNCHANGED <<tasks, shutdown, owner, running, done>>

\* Faulty variant: a worker leaves on shutdown, whatever is queued.
ExitOnShutdown(w) == /\ worker[w] = "ready"
                     /\ shutdown
                     /\ worker' = [worker EXCEPT ![w] = "exited"]
                     /\ UNCHANGED <<tasks, shutdown, owner, running, done>>

\* `if (shutdown_ && tasks_.empty()) return`
Exit(w) == /\ worker[w] = "ready"
           /\ shutdown
           /\ tasks = <<>>
           /\ worker' = [worker EXCEPT ![w] = "exited"]
           /\ UNCHANGED <<tasks, shutdown, owner, running, done>>

\* Faulty variants: under a shutdown the task is popped and not called; the
\* newest is taken.
TakeUnlessShutdown(w) ==
    /\ worker[w] = "ready"
    /\ tasks # <<>>
    /\ \/ /\ ~shutdown
          /\ running' = [running EXCEPT ![w] = Head(tasks)]
          /\ worker' = [worker EXCEPT ![w] = "running"]
       \/ shutdown /\ UNCHANGED <<running, worker>>
    /\ tasks' = Tail(tasks)
    /\ UNCHANGED <<shutdown, owner, done>>

TakeNewest(w) == /\ worker[w] = "ready"
                 /\ tasks # <<>>
                 /\ running' = [running EXCEPT ![w] = tasks[Len(tasks)]]
                 /\ tasks' = SubSeq(tasks, 1, Len(tasks) - 1)
                 /\ worker' = [worker EXCEPT ![w] = "running"]
                 /\ UNCHANGED <<shutdown, owner, done>>

\* Otherwise the front of the queue is moved out and popped, whether or not
\* a shutdown was requested.
Take(w) == /\ worker[w] = "ready"
           /\ tasks # <<>>
           /\ running' = [running EXCEPT ![w] = Head(tasks)]
           /\ tasks' = Tail(tasks)
           /\ worker' = [worker EXCEPT ![w] = "running"]
           /\ UNCHANGED <<shutdown, owner, done>>

\* The call returns, or throws and the exception is swallowed: the worker
\* goes back to the top of its loop either way.
Finish(w) == /\ worker[w] = "running"
             /\ done' = done \cup {running[w]}
             /\ running' = [running EXCEPT ![w] = NoTask]
             /\ worker' = [worker EXCEPT ![w] = "ready"]
             /\ UNCHANGED <<tasks, shutdown, owner>>
-----------------------------------------------------------------------------
OwnerStep == NotifyOne \/ NotifyAll \/ Join

WorkerLoop(w) == Wait(w) \/ Exit(w) \/ Take(w) \/ Finish(w)

\* The pool is destroyed: nothing of it is left to take a step.
Destroyed == owner = "joined" /\ UNCHANGED vars

Next == \/ \E t \in Tasks : Submit(t)
        \/ OwnerStep
        \/ Shutdown
        \/ \E w \in Workers : WorkerLoop(w) \/ SpuriousWakeup(w)
        \/ Destroyed

Spec == Init /\ [][Next]_vars

\* The scheduler runs every thread that can run, and a task's call returns.
\* Nothing obliges the owner to submit or to shut down, nor a worker to be
\* woken spuriously.
Fairness == WF_vars(OwnerStep) /\ \A w \in Workers : WF_vars(WorkerLoop(w))

FairSpec == Spec /\ Fairness
-----------------------------------------------------------------------------
\* The types of the members of ThreadPool and of the workers' locals.
TypeOK == /\ tasks \in Seq(Tasks)
          /\ shutdown \in BOOLEAN
          /\ owner \in OwnerStates
          /\ worker \in [Workers -> WorkerStates]
          /\ running \in [Workers -> Tasks \cup {NoTask}]
          /\ done \subseteq Tasks

\* Work conservation: a worker sleeps in cv_.wait only while every queued
\* task has a wakeup of its own, either a worker already awake and on its way
\* to the queue or the notify_one() that submit() has still to issue.  It is
\* what "requests are handled concurrently" (thread_pool.h:4) needs of the
\* notify/wait protocol: no task queues behind a long one while a worker is
\* idle.
WorkConserving ==
    In("waiting") # {} =>
        Len(tasks) <= Awake + (IF owner = "notify" THEN 1 ELSE 0)

\* A closure is in one place at most: at one position of the queue, or called by
\* one worker, or finished.
NeverTwice ==
    /\ \A i, j \in DOMAIN tasks : tasks[i] = tasks[j] => i = j
    /\ \A v, w \in In("running") : running[v] = running[w] => v = w
    /\ Queued \cap Active = {}
    /\ (Queued \cup Active) \cap done = {}

\* A submitted closure is in exactly one place, and stays submitted: whatever
\* the interleaving of push, pop and wakeups, no task is run twice or by two
\* workers, and no step, of a shutdown neither, loses one.
EachTaskOnce == []NeverTwice /\ [][Submitted \subseteq Submitted']_vars

\* The drain of main.cpp:25-28: a worker leaves its loop only when the pool
\* is shutting down and the queue is empty for good, so that the destructor
\* returns with every submitted task finished.
DrainedBeforeExit ==
    /\ \A w \in In("exited") : shutdown /\ tasks = <<>>
    /\ owner = "joined" => Queued \cup Active = {}

\* The pool implements the abstract TaskPool, which starts tasks in the order
\* of submission, at most one per worker at a time.
Phase == IF owner = "joined" THEN "stopped" ELSE IF shutdown THEN "closing" ELSE "open"
Abstract == INSTANCE TaskPool WITH
                Capacity <- Cardinality(Workers),
                pending <- tasks,
                active <- Active,
                phase <- Phase
ImplementsTaskPool == Abstract!Spec

\* Every submitted task is eventually run to its end: neither a lost wakeup
\* nor a shutdown that overtakes the queue strands it.
EveryTaskFinishes == \A t \in Tasks : t \in Submitted ~> t \in done

\* Once the destructor has started it returns.
ShutdownCompletes == shutdown ~> owner = "joined"
=============================================================================
