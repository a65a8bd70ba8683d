----------------------------- MODULE ThreadPool -----------------------------
(***************************************************************************)
(* dpool::ThreadPool (yolo26/engine/ThreadPool.hpp): a pool that grows on  *)
(* demand up to maxThreads_, parks idle workers on a condition variable,   *)
(* lets a worker leave after WAIT_SECONDS without work, and drains its     *)
(* queue in the destructor.                                                *)
(*                                                                         *)
(* A critical section of mutex_ is one action, except the one in which a   *)
(* leaving worker joins its predecessor: that one blocks with the mutex    *)
(* held, so the mutex is a variable and the section is two actions.        *)
(***************************************************************************)
EXTENDS Naturals, Sequences, FiniteSets

CONSTANTS
  Threads,       \* the std::thread::id values
  NoThread,      \* the mutex has no owner
  MaxThreads,    \* maxThreads_
  MaxTasks       \* bound: how many tasks the client submits

ASSUME PoolAssumption ==
  /\ MaxThreads \in Nat \ {0}
  /\ MaxTasks \in Nat
  /\ IsFiniteSet(Threads)
  /\ Cardinality(Threads) > MaxThreads
  /\ NoThread \notin Threads

VARIABLES
  pc,                \* where each worker is
  task,              \* the task each worker has popped (0 when none)
  mutex,             \* the thread that holds mutex_ across steps
  quit,              \* quit_
  currentThreads,    \* currentThreads_
  idleThreads,       \* idleThreads_
  tasks,             \* tasks_, task n being the n-th one submitted
  finishedThreadIDs, \* finishedThreadIDs_
  threads,           \* the keys of threads_
  submitted,         \* how many tasks were submitted
  completed,         \* the tasks whose future is ready
  dtor               \* how far ~ThreadPool() has come

vars == <<pc, task, mutex, quit, currentThreads, idleThreads, tasks,
          finishedThreadIDs, threads, submitted, completed, dtor>>

(***************************************************************************)
(* "none"     no thread has this id                                        *)
(* "ready"    about to lock mutex_ at the top of the loop of worker()      *)
(* "parked"   blocked in cv_.wait_for                                      *)
(* "notified" woken by a notification, has to lock mutex_ again            *)
(* "timedout" woken by the timeout, has to lock mutex_ again               *)
(* "running"  executing task(), mutex_ released                            *)
(* "joining"  in joinFinishedThreads, mutex_ held                          *)
(* "exiting"  returned from the critical section, the thread still exists  *)
(* "done"     the thread function has returned, join() will not block      *)
(***************************************************************************)
Idle == {"parked", "notified", "timedout"}
Alive == Idle \union {"ready", "running"}
PCs == {"none", "joining", "exiting", "done"} \union Alive

In(S) == {t \in Threads : pc[t] \in S}

Init ==
  /\ pc = [t \in Threads |-> "none"]
  /\ task = [t \in Threads |-> 0]
  /\ mutex = NoThread
  /\ quit = FALSE
  /\ currentThreads = 0
  /\ idleThreads = 0
  /\ tasks = <<>>
  /\ finishedThreadIDs = <<>>
  /\ threads = {}
  /\ submitted = 0
  /\ completed = {}
  /\ dtor = "none"

-----------------------------------------------------------------------------
(* submit(): push the task, then wake an idle worker or start a new one.   *)

(* Variant: submit() forgets notify_one.                                   *)
NotifyNobody == UNCHANGED pc

(* notify_one wakes one of the parked workers. A worker that was already   *)
(* woken but has not locked the mutex yet still counts as idle, so the     *)
(* notification may find nobody to wake.                                   *)
NotifyOne ==
  IF In({"parked"}) = {}
  THEN UNCHANGED pc
  ELSE \E t \in In({"parked"}) : pc' = [pc EXCEPT ![t] = "notified"]

SpawnWorker ==
  \E t \in In({"none"}) :
    /\ pc' = [pc EXCEPT ![t] = "ready"]
    /\ threads' = threads \union {t}
    /\ currentThreads' = currentThreads + 1

PushTask ==
  /\ ~quit
  /\ mutex = NoThread
  /\ submitted < MaxTasks
  /\ submitted' = submitted + 1
  /\ tasks' = Append(tasks, submitted + 1)

submit ==
  /\ PushTask
  /\ \/ /\ idleThreads > 0
        /\ NotifyOne
        /\ UNCHANGED <<threads, currentThreads>>
     \/ /\ idleThreads = 0
        /\ currentThreads < MaxThreads
        /\ SpawnWorker
     \/ /\ idleThreads = 0
        /\ currentThreads >= MaxThreads
        /\ UNCHANGED <<pc, threads, currentThreads>>
  /\ UNCHANGED <<task, mutex, quit, idleThreads, finishedThreadIDs,
                 completed, dtor>>

-----------------------------------------------------------------------------
(* worker()                                                                *)

Predicate == quit \/ tasks # <<>>

(* Variant: a stack instead of a queue.                                    *)
PopNewest(t) ==
  /\ tasks # <<>>
  /\ task' = [task EXCEPT ![t] = tasks[Len(tasks)]]
  /\ tasks' = SubSeq(tasks, 1, Len(tasks) - 1)
  /\ pc' = [pc EXCEPT ![t] = "running"]
  /\ UNCHANGED currentThreads

(* Variant: quit_ is tested before tasks_.empty().                         *)
QuitAtOnce(t) ==
  /\ quit
  /\ currentThreads' = currentThreads - 1
  /\ pc' = [pc EXCEPT ![t] = "exiting"]
  /\ UNCHANGED <<task, tasks>>

(* What a worker does with the mutex once the wait is over and idle has    *)
(* been decremented: take the oldest task, or leave because of quit_.      *)
PopTask(t) ==
  /\ tasks # <<>>
  /\ task' = [task EXCEPT ![t] = Head(tasks)]
  /\ tasks' = Tail(tasks)
  /\ pc' = [pc EXCEPT ![t] = "running"]
  /\ UNCHANGED currentThreads

QuitWorker(t) ==
  /\ tasks = <<>>
  /\ quit
  /\ currentThreads' = currentThreads - 1
  /\ pc' = [pc EXCEPT ![t] = "exiting"]
  /\ UNCHANGED <<task, tasks>>

(* Top of the loop: the predicate already holds, so wait_for returns       *)
(* without releasing the mutex; idle is incremented and decremented.       *)
WorkerEnter(t) ==
  /\ pc[t] = "ready"
  /\ mutex = NoThread
  /\ PopTask(t) \/ QuitWorker(t)
  /\ UNCHANGED <<mutex, quit, idleThreads, finishedThreadIDs, threads,
                 submitted, completed, dtor>>

WorkerPark(t) ==
  /\ pc[t] = "ready"
  /\ mutex = NoThread
  /\ ~Predicate
  /\ idleThreads' = idleThreads + 1
  /\ pc' = [pc EXCEPT ![t] = "parked"]
  /\ UNCHANGED <<task, mutex, quit, currentThreads, tasks, finishedThreadIDs,
                 threads, submitted, completed, dtor>>

(* The two seconds are over, or the wait returns for no reason, as a       *)
(* condition variable may; the worker still has to get the mutex.          *)
WaitReturns(t) ==
  /\ pc[t] = "parked"
  /\ \E why \in {"timedout", "notified"} : pc' = [pc EXCEPT ![t] = why]
  /\ UNCHANGED <<task, mutex, quit, currentThreads, idleThreads, tasks,
                 finishedThreadIDs, threads, submitted, completed, dtor>>

WorkerWake(t) ==
  /\ pc[t] \in {"notified", "timedout"}
  /\ mutex = NoThread
  /\ idleThreads' = idleThreads - 1
  /\ PopTask(t) \/ QuitWorker(t)
  /\ UNCHANGED <<mutex, quit, finishedThreadIDs, threads, submitted,
                 completed, dtor>>

(* Variant: the loop around the wait counts the worker idle once more.     *)
SleepCountedAgain(t) ==
  /\ pc[t] = "notified"
  /\ mutex = NoThread
  /\ ~Predicate
  /\ idleThreads' = idleThreads + 1
  /\ pc' = [pc EXCEPT ![t] = "parked"]
  /\ UNCHANGED <<task, mutex, quit, currentThreads, tasks, finishedThreadIDs,
                 threads, submitted, completed, dtor>>

(* Another worker took the task: wait_for goes on waiting.                 *)
WorkerSleepAgain(t) ==
  /\ pc[t] = "notified"
  /\ mutex = NoThread
  /\ ~Predicate
  /\ pc' = [pc EXCEPT ![t] = "parked"]
  /\ UNCHANGED <<task, mutex, quit, currentThreads, idleThreads, tasks,
                 finishedThreadIDs, threads, submitted, completed, dtor>>

(* Variant: a leaving worker still counts.                                 *)
LeaveCounted(t) ==
  /\ pc[t] = "timedout"
  /\ mutex = NoThread
  /\ ~Predicate
  /\ idleThreads' = idleThreads - 1
  /\ pc' = [pc EXCEPT ![t] = "joining"]
  /\ mutex' = t
  /\ UNCHANGED <<task, quit, currentThreads, tasks, finishedThreadIDs, threads,
                 submitted, completed, dtor>>

(* Variant: a worker that timed out leaves without looking at the queue.   *)
LeaveUnchecked(t) ==
  /\ pc[t] = "timedout"
  /\ mutex = NoThread
  /\ idleThreads' = idleThreads - 1
  /\ currentThreads' = currentThreads - 1
  /\ pc' = [pc EXCEPT ![t] = "joining"]
  /\ mutex' = t
  /\ UNCHANGED <<task, quit, tasks, finishedThreadIDs, threads, submitted,
                 completed, dtor>>

(* The timeout is evaluated under the mutex and there is still no work.    *)
WorkerLeave(t) ==
  /\ pc[t] = "timedout"
  /\ mutex = NoThread
  /\ ~Predicate
  /\ idleThreads' = idleThreads - 1
  /\ currentThreads' = currentThreads - 1
  /\ pc' = [pc EXCEPT ![t] = "joining"]
  /\ mutex' = t
  /\ UNCHANGED <<task, quit, tasks, finishedThreadIDs, threads, submitted,
                 completed, dtor>>

(* Variant: threads_.erase is forgotten.                                   *)
JoinKeepsEntry(t) ==
  /\ pc[t] = "joining"
  /\ finishedThreadIDs # <<>>
  /\ pc[Head(finishedThreadIDs)] = "done"
  /\ pc' = [pc EXCEPT ![Head(finishedThreadIDs)] = "none"]
  /\ finishedThreadIDs' = Tail(finishedThreadIDs)
  /\ UNCHANGED <<task, mutex, quit, currentThreads, idleThreads, tasks,
                 threads, submitted, completed, dtor>>

(* One turn of the loop of joinFinishedThreads: blocks until the thread it *)
(* took from the queue is gone.                                            *)
joinFinishedThreads(t) ==
  /\ pc[t] = "joining"
  /\ finishedThreadIDs # <<>>
  /\ LET id == Head(finishedThreadIDs)
     IN  /\ pc[id] = "done"
         /\ pc' = [pc EXCEPT ![id] = "none"]
         /\ threads' = threads \ {id}
  /\ finishedThreadIDs' = Tail(finishedThreadIDs)
  /\ UNCHANGED <<task, mutex, quit, currentThreads, idleThreads, tasks,
                 submitted, completed, dtor>>

(* Variant: a leaving worker does not collect its predecessors.            *)
FinishUncollected(t) ==
  /\ pc[t] = "joining"
  /\ finishedThreadIDs' = Append(finishedThreadIDs, t)
  /\ pc' = [pc EXCEPT ![t] = "exiting"]
  /\ mutex' = NoThread
  /\ UNCHANGED <<task, quit, currentThreads, idleThreads, tasks, threads,
                 submitted, completed, dtor>>

WorkerFinish(t) ==
  /\ pc[t] = "joining"
  /\ finishedThreadIDs = <<>>
  /\ finishedThreadIDs' = Append(finishedThreadIDs, t)
  /\ pc' = [pc EXCEPT ![t] = "exiting"]
  /\ mutex' = NoThread
  /\ UNCHANGED <<task, quit, currentThreads, idleThreads, tasks, threads,
                 submitted, completed, dtor>>

RunTask(t) ==
  /\ pc[t] = "running"
  /\ completed' = completed \union {task[t]}
  /\ task' = [task EXCEPT ![t] = 0]
  /\ pc' = [pc EXCEPT ![t] = "ready"]
  /\ UNCHANGED <<mutex, quit, currentThreads, idleThreads, tasks,
                 finishedThreadIDs, threads, submitted, dtor>>

ThreadExit(t) ==
  /\ pc[t] = "exiting"
  /\ pc' = [pc EXCEPT ![t] = "done"]
  /\ UNCHANGED <<task, mutex, quit, currentThreads, idleThreads, tasks,
                 finishedThreadIDs, threads, submitted, completed, dtor>>

-----------------------------------------------------------------------------
(* ~ThreadPool()                                                           *)

(* Variant: quit_ is set without the mutex.                                *)
SetQuitUnlocked ==
  /\ dtor = "none"
  /\ quit' = TRUE
  /\ dtor' = "notify"
  /\ UNCHANGED <<pc, task, mutex, currentThreads, idleThreads, tasks,
                 finishedThreadIDs, threads, submitted, completed>>

SetQuit ==
  /\ dtor = "none"
  /\ mutex = NoThread
  /\ quit' = TRUE
  /\ dtor' = "notify"
  /\ UNCHANGED <<pc, task, mutex, currentThreads, idleThreads, tasks,
                 finishedThreadIDs, threads, submitted, completed>>

(* Variant: notify_one in the destructor.                                  *)
NotifyOnlyOne ==
  /\ dtor = "notify"
  /\ NotifyOne
  /\ dtor' = "join"
  /\ UNCHANGED <<task, mutex, quit, currentThreads, idleThreads, tasks,
                 finishedThreadIDs, threads, submitted, completed>>

(* notify_all, after the mutex was released.                               *)
NotifyAll ==
  /\ dtor = "notify"
  /\ pc' = [t \in Threads |-> IF pc[t] = "parked" THEN "notified" ELSE pc[t]]
  /\ dtor' = "join"
  /\ UNCHANGED <<task, mutex, quit, currentThreads, idleThreads, tasks,
                 finishedThreadIDs, threads, submitted, completed>>

(* The loop over threads_ runs without the mutex and joins every element,  *)
(* the ones in finishedThreadIDs_ included; then the members go.           *)
JoinAll ==
  /\ dtor = "join"
  /\ \A t \in threads : pc[t] = "done"
  /\ dtor' = "returned"
  /\ pc' = [t \in Threads |-> IF t \in threads THEN "none" ELSE pc[t]]
  /\ threads' = {}
  /\ finishedThreadIDs' = <<>>
  /\ UNCHANGED <<task, mutex, quit, currentThreads, idleThreads, tasks,
                 submitted, completed>>

-----------------------------------------------------------------------------
Worker(t) ==
  \/ WorkerEnter(t)
  \/ WorkerPark(t)
  \/ WorkerWake(t)
  \/ WorkerSleepAgain(t)
  \/ WorkerLeave(t)
  \/ joinFinishedThreads(t)
  \/ WorkerFinish(t)
  \/ RunTask(t)
  \/ ThreadExit(t)

Destructor == SetQuit \/ NotifyAll \/ JoinAll

Next ==
  \/ submit
  \/ \E t \in Threads : Worker(t) \/ WaitReturns(t)
  \/ Destructor
  \/ dtor = "returned" /\ UNCHANGED vars

Spec == Init /\ [][Next]_vars

(* The scheduler runs every worker that can go on, and the destructor,     *)
(* once it runs, goes on; its join returns when the threads are gone. Neither the client nor the      *)
(* timeout is fair: no property below needs the two seconds to pass.       *)
FairSpec ==
  /\ Spec
  /\ \A t \in Threads : WF_vars(Worker(t))
  /\ WF_vars(NotifyAll \/ JoinAll)

-----------------------------------------------------------------------------
TypeOK ==
  /\ pc \in [Threads -> PCs]
  /\ task \in [Threads -> 0..MaxTasks]
  /\ mutex \in Threads \union {NoThread}
  /\ quit \in BOOLEAN
  /\ currentThreads \in 0..MaxThreads
  /\ idleThreads \in 0..MaxThreads
  /\ tasks \in Seq(1..MaxTasks)
  /\ finishedThreadIDs \in Seq(Threads)
  /\ threads \subseteq Threads
  /\ submitted \in 0..MaxTasks
  /\ completed \subseteq 1..MaxTasks
  /\ dtor \in {"none", "notify", "join", "returned"}

(* The two counters, which are size_t and would wrap below zero, always    *)
(* agree with the workers they count, although a worker increments and     *)
(* decrements them in different critical sections (lines 66, 84, 87, 90,   *)
(* 94): an idle worker counts as idle until it has the mutex back.         *)
CountersExact ==
  /\ currentThreads = Cardinality(In(Alive))
  /\ idleThreads = Cardinality(In(Idle))

(* A queued task is never left with sleeping workers only: somebody is     *)
(* awake who will look at the queue, so no task waits for the two-second   *)
(* timeout. submit() wakes nobody when the idle workers it counted were    *)
(* already woken, and that is safe (lines 60-62).                          *)
NoLostWakeup ==
  tasks # <<>> => In({"ready", "running", "notified", "timedout"}) # {}

(* The assertions of submit() and joinFinishedThreads() (lines 58, 65,     *)
(* 115, 116): every id in finishedThreadIDs_ occurs once and is the key of *)
(* a joinable thread that is leaving or gone; an existing thread is a key. *)
JoinableKeys ==
  /\ \A i \in 1..Len(finishedThreadIDs) :
       finishedThreadIDs[i] \in threads /\ pc[finishedThreadIDs[i]] \in {"exiting", "done"}
  /\ \A i, j \in 1..Len(finishedThreadIDs) :
       finishedThreadIDs[i] = finishedThreadIDs[j] => i = j
  /\ threads = {t \in Threads : pc[t] # "none"}

(* Threads that left are collected by the next one that leaves, so the map *)
(* never holds more than one thread beyond the maximum (lines 95-96).      *)
ThreadMapBound == ~quit => Cardinality(threads) <= MaxThreads + 1

(* Once quit_ is set no worker is in joinFinishedThreads, nor will be: the *)
(* destructor iterates over threads_ without the mutex (line 40) and is    *)
(* the only one to touch it, and no thread is joined twice.                *)
DestructorOwnsMap == quit => In({"joining"}) = {}

(* When the destructor returns every submitted task has run and its future *)
(* is ready: a client still holding a future never blocks on a dead pool.  *)
DestroyedDrained == dtor = "returned" => completed = 1..submitted

(* What the proofs of ThreadPoolProofs need besides the invariants above:  *)
(* who holds the mutex, what quit_ says of the destructor, and where a     *)
(* submitted task can be.                                                  *)
MutexOwner == \A t \in Threads : pc[t] = "joining" <=> mutex = t

QuitPhase ==
  /\ quit <=> dtor # "none"
  /\ dtor = "returned" => In(Alive) = {} /\ tasks = <<>>

TaskAccounted ==
  /\ \A k \in 1..submitted :
       \/ k \in completed
       \/ \E i \in DOMAIN tasks : tasks[i] = k
       \/ \E t \in Threads : pc[t] = "running" /\ task[t] = k
  /\ completed \subseteq 1..submitted
  /\ \A i \in DOMAIN tasks : tasks[i] \in 1..submitted
  /\ \A t \in Threads : pc[t] = "running" => task[t] \in 1..submitted

IInv ==
  /\ TypeOK
  /\ CountersExact
  /\ MutexOwner
  /\ QuitPhase
  /\ DestructorOwnsMap
  /\ JoinableKeys
  /\ NoLostWakeup
  /\ TaskAccounted

(* Every submitted task is executed.                                       *)
EveryTaskRuns == \A k \in 1..MaxTasks : submitted >= k ~> k \in completed

(* The destructor returns: notify_all reaches the parked workers, and no   *)
(* worker joins another one that needs the mutex it holds.                 *)
DestructorReturns == quit ~> dtor = "returned"

(* The pool implements the executor of TaskExecutor: first in first out    *)
(* start order, every task once, at most MaxThreads at a time.             *)
Executor == INSTANCE TaskExecutor WITH
  Capacity <- MaxThreads,
  queue <- tasks,
  active <- {task[t] : t \in In({"running"})},
  phase <- IF dtor = "returned" THEN "closed" ELSE IF quit THEN "closing" ELSE "open"

ImplementsExecutor == Executor!Spec

=============================================================================
