-------------------------- MODULE ThreadPoolProofs --------------------------
(***************************************************************************)
(* Proofs about ThreadPool for every number of threads and of tasks. IInv  *)
(* of ThreadPool is inductive, and most theorems read its conjuncts off.   *)
(* The counters are the hard part: they are compared with the sizes of     *)
(* sets of workers, so the first lemmas say how one worker's move changes  *)
(* such a size. Two more invariants, OneUncollected and HandedOnce, give   *)
(* the bound on threads_ and the refinement of TaskExecutor.               *)
(***************************************************************************)
EXTENDS ThreadPool, FiniteSetTheorems, TLAPS

Members(f, S) == {x \in Threads : f[x] \in S}

(* Sets of workers are finite, and smaller for fewer positions.            *)
LEMMA MembersFinite ==
  ASSUME NEW f, NEW S, NEW T
  PROVE  /\ IsFiniteSet(Members(f, S))
         /\ Cardinality(Members(f, S)) \in Nat
         /\ S \subseteq T => Cardinality(Members(f, S)) <= Cardinality(Members(f, T))
         /\ Cardinality(Members(f, S)) = 0 <=> Members(f, S) = {}
<1>1. \A U : IsFiniteSet(Members(f, U))
  BY PoolAssumption, FS_Subset DEF Members
<1>2. S \subseteq T => Members(f, S) \subseteq Members(f, T)
  BY DEF Members
<1> QED
  BY <1>1, <1>2, FS_Subset, FS_CardinalityType, FS_EmptySet

(* A worker that moves into S counts one more.                             *)
LEMMA MoveIn ==
  ASSUME NEW f \in [Threads -> PCs], NEW t \in Threads, NEW v \in PCs, NEW S,
         f[t] \notin S, v \in S
  PROVE  Cardinality(Members([f EXCEPT ![t] = v], S)) = Cardinality(Members(f, S)) + 1
<1>1. Members([f EXCEPT ![t] = v], S) = Members(f, S) \union {t}
  BY DEF Members
<1>2. t \notin Members(f, S)
  BY DEF Members
<1> QED
  BY <1>1, <1>2, MembersFinite, FS_AddElement

(* A worker that moves out of S counts one less, and there was one.        *)
LEMMA MoveOut ==
  ASSUME NEW f \in [Threads -> PCs], NEW t \in Threads, NEW v \in PCs, NEW S,
         f[t] \in S, v \notin S
  PROVE  /\ Cardinality(Members([f EXCEPT ![t] = v], S)) = Cardinality(Members(f, S)) - 1
         /\ Cardinality(Members(f, S)) > 0
<1>1. Members([f EXCEPT ![t] = v], S) = Members(f, S) \ {t}
  BY DEF Members
<1>2. t \in Members(f, S)
  BY DEF Members
<1>3. Cardinality(Members(f, S) \ {t}) = Cardinality(Members(f, S)) - 1
  BY <1>2, MembersFinite, FS_RemoveElement
<1>4. Cardinality(Members(f, S)) \in Nat /\ Cardinality(Members(f, S)) # 0
  BY <1>2, MembersFinite
<1>5. Cardinality(Members(f, S)) > 0
  BY <1>4
<1>6. Cardinality(Members([f EXCEPT ![t] = v], S)) = Cardinality(Members(f, S)) - 1
  BY <1>1, <1>3, Zenon
<1> QED
  BY <1>5, <1>6

(* A worker that stays in S, or out of it, changes nothing.                *)
LEMMA MoveSame ==
  ASSUME NEW f \in [Threads -> PCs], NEW t \in Threads, NEW v \in PCs, NEW S,
         f[t] \in S <=> v \in S
  PROVE  Members([f EXCEPT ![t] = v], S) = Members(f, S)
  BY DEF Members

Weight(p, S) == IF p \in S THEN 1 ELSE 0

(* How the counters must move when one worker moves: every action of a     *)
(* worker, and submit() when it wakes or starts one, is an instance.       *)
LEMMA CountersStep ==
  ASSUME TypeOK, CountersExact,
         NEW t \in Threads, NEW v \in PCs, pc' = [pc EXCEPT ![t] = v],
         currentThreads' = currentThreads + Weight(v, Alive) - Weight(pc[t], Alive),
         idleThreads' = idleThreads + Weight(v, Idle) - Weight(pc[t], Idle)
  PROVE  /\ CountersExact'
         /\ currentThreads' \in Nat
         /\ idleThreads' \in 0..currentThreads'
<1>1. pc \in [Threads -> PCs]
  BY DEF TypeOK
<1>2. \A S : Cardinality(Members([pc EXCEPT ![t] = v], S))
               = Cardinality(Members(pc, S)) + Weight(v, S) - Weight(pc[t], S)
  <2> SUFFICES ASSUME NEW S
               PROVE Cardinality(Members([pc EXCEPT ![t] = v], S))
                       = Cardinality(Members(pc, S)) + Weight(v, S) - Weight(pc[t], S)
    OBVIOUS
  <2>0. Cardinality(Members(pc, S)) \in Nat
    BY MembersFinite
  <2>1. CASE pc[t] \in S /\ v \notin S
    <3>1. Cardinality(Members([pc EXCEPT ![t] = v], S)) = Cardinality(Members(pc, S)) - 1
      BY <1>1, <2>1, MoveOut
    <3> QED BY <2>0, <2>1, <3>1 DEF Weight
  <2>2. CASE pc[t] \notin S /\ v \in S
    <3>1. Cardinality(Members([pc EXCEPT ![t] = v], S)) = Cardinality(Members(pc, S)) + 1
      BY <1>1, <2>2, MoveIn
    <3> QED BY <2>0, <2>2, <3>1 DEF Weight
  <2>3. CASE pc[t] \in S <=> v \in S
    <3>1. Members([pc EXCEPT ![t] = v], S) = Members(pc, S)
      BY <1>1, <2>3, MoveSame
    <3> QED BY <2>0, <2>3, <3>1 DEF Weight
  <2> QED BY <2>1, <2>2, <2>3
<1>3. /\ currentThreads = Cardinality(Members(pc, Alive))
      /\ idleThreads = Cardinality(Members(pc, Idle))
  BY DEF CountersExact, In, Members
<1>4. /\ currentThreads' = Cardinality(Members(pc', Alive))
      /\ idleThreads' = Cardinality(Members(pc', Idle))
  BY <1>2, <1>3
<1>5. CountersExact'
  BY <1>4 DEF CountersExact, In, Members
<1>6. Idle \subseteq Alive
  BY DEF Alive
<1> QED
  BY <1>4, <1>5, <1>6, MembersFinite

(* Where the elements of a queue are after its head was taken.             *)
LEMMA TailIndex ==
  ASSUME NEW S, NEW s \in Seq(S), s # <<>>
  PROVE  /\ \A i \in DOMAIN Tail(s) : i + 1 \in DOMAIN s /\ Tail(s)[i] = s[i + 1]
         /\ \A i \in DOMAIN s : i = 1 \/ (i - 1 \in DOMAIN Tail(s) /\ Tail(s)[i - 1] = s[i])
<1>1. Len(s) \in Nat /\ Len(s) # 0 /\ DOMAIN s = 1..Len(s)
  OBVIOUS
<1>2. Tail(s) \in Seq(S) /\ Len(Tail(s)) = Len(s) - 1
  BY <1>1
<1>3. DOMAIN Tail(s) = 1..(Len(s) - 1)
  BY <1>2
<1>4. \A i \in 1..(Len(s) - 1) : Tail(s)[i] = s[i + 1]
  BY <1>1
<1>5. ASSUME NEW i \in DOMAIN s, i # 1
      PROVE  i - 1 \in 1..(Len(s) - 1) /\ Tail(s)[i - 1] = s[i]
  <2>1. i - 1 \in 1..(Len(s) - 1) /\ (i - 1) + 1 = i
    BY <1>1, <1>5
  <2> QED
    BY <1>4, <2>1
<1> QED
  BY <1>1, <1>3, <1>4, <1>5

(* Taking the oldest task moves it from the queue to the worker.           *)
LEMMA PopAccounted ==
  ASSUME TypeOK, TaskAccounted, NEW t \in Threads, PopTask(t), pc[t] # "running",
         UNCHANGED <<submitted, completed>>
  PROVE  TaskAccounted'
<1>1. /\ task' = [task EXCEPT ![t] = Head(tasks)]
      /\ pc' = [pc EXCEPT ![t] = "running"]
      /\ tasks # <<>> /\ tasks' = Tail(tasks) /\ tasks \in Seq(1..MaxTasks)
      /\ submitted' = submitted /\ completed' = completed
  BY DEF TypeOK, PopTask
<1>2. \A i \in DOMAIN tasks' : i + 1 \in DOMAIN tasks /\ tasks'[i] = tasks[i + 1]
  BY <1>1, TailIndex
<1>3. \A i \in DOMAIN tasks : i = 1 \/ (i - 1 \in DOMAIN tasks' /\ tasks'[i - 1] = tasks[i])
  BY <1>1, TailIndex, Zenon
<1>4. 1 \in DOMAIN tasks /\ Head(tasks) = tasks[1]
  BY <1>1
<1>5. pc'[t] = "running" /\ task'[t] = Head(tasks)
  BY <1>1 DEF TypeOK
<1>6. \A u \in Threads \ {t} : pc'[u] = pc[u] /\ task'[u] = task[u]
  BY <1>1 DEF TypeOK
<1>7. ASSUME NEW k \in 1..submitted
      PROVE  \/ k \in completed
             \/ \E i \in DOMAIN tasks' : tasks'[i] = k
             \/ \E u \in Threads : pc'[u] = "running" /\ task'[u] = k
  <2>1. CASE k \in completed
    BY <2>1
  <2>2. CASE \E i \in DOMAIN tasks : tasks[i] = k
    <3>1. PICK i \in DOMAIN tasks : tasks[i] = k
      BY <2>2
    <3>2. CASE i = 1
      BY <3>1, <3>2, <1>4, <1>5
    <3>3. CASE i # 1
      BY <3>1, <3>3, <1>3
    <3> QED
      BY <3>2, <3>3
  <2>3. CASE \E u \in Threads : pc[u] = "running" /\ task[u] = k
    BY <2>3, <1>1, <1>6
  <2> QED
    BY <2>1, <2>2, <2>3 DEF TaskAccounted
<1>8. \A i \in DOMAIN tasks' : tasks'[i] \in 1..submitted
  BY <1>2 DEF TaskAccounted
<1>9. \A u \in Threads : pc'[u] = "running" => task'[u] \in 1..submitted
  BY <1>4, <1>5, <1>6 DEF TaskAccounted
<1> QED
  BY <1>1, <1>7, <1>8, <1>9 DEF TaskAccounted

(* The invariant holds initially: no worker exists.                        *)
LEMMA InitIInv == Init => IInv
<1> SUFFICES ASSUME Init PROVE IInv
  OBVIOUS
<1>1. Members(pc, Alive) = {} /\ Members(pc, Idle) = {}
  BY DEF Init, Members, Alive, Idle
<1>2. CountersExact
  BY <1>1, FS_EmptySet DEF Init, CountersExact, In, Members
<1>3. TypeOK
  <2>1. <<>> \in Seq(1..MaxTasks) /\ <<>> \in Seq(Threads)
    OBVIOUS
  <2>2. 0 \in 0..MaxTasks /\ 0 \in 0..MaxThreads
    BY PoolAssumption
  <2> QED
    BY <2>1, <2>2 DEF Init, TypeOK, PCs
<1>4. MutexOwner
  BY PoolAssumption DEF Init, MutexOwner
<1>5. QuitPhase /\ DestructorOwnsMap /\ NoLostWakeup
  BY DEF Init, QuitPhase, DestructorOwnsMap, NoLostWakeup, In
<1>6. JoinableKeys
  BY DEF Init, JoinableKeys
<1>7. TaskAccounted
  BY DEF Init, TaskAccounted
<1> QED
  BY <1>2, <1>3, <1>4, <1>5, <1>6, <1>7 DEF IInv

(* A worker that finds a task at the top of its loop.                      *)
LEMMA EnterPop ==
  ASSUME IInv, NEW t \in Threads, WorkerEnter(t), PopTask(t)
  PROVE  IInv'
<1> USE DEF IInv
<1>1. pc[t] \in PCs /\ pc' = [pc EXCEPT ![t] = "running"]
  BY DEF TypeOK, WorkerEnter, PopTask
<1>2. CountersExact' /\ currentThreads' \in Nat /\ idleThreads' \in 0..currentThreads'
  <2>1. /\ currentThreads' = currentThreads + Weight("running", Alive) - Weight(pc[t], Alive)
        /\ idleThreads' = idleThreads + Weight("running", Idle) - Weight(pc[t], Idle)
    BY DEF TypeOK, Weight, Alive, Idle, WorkerEnter, PopTask
  <2> QED
    BY <1>1, <2>1, CountersStep DEF PCs, Alive, Idle
<1>3. TypeOK'
  BY <1>1, <1>2, PoolAssumption DEF TypeOK, PCs, Alive, Idle, WorkerEnter, PopTask
<1>4. MutexOwner'
  BY <1>1, PoolAssumption DEF TypeOK, MutexOwner, WorkerEnter, PopTask
<1>5. QuitPhase'
  BY <1>1 DEF TypeOK, QuitPhase, In, Alive, Idle, WorkerEnter, PopTask
<1>6. DestructorOwnsMap'
  BY <1>1 DEF TypeOK, DestructorOwnsMap, In, Predicate, WorkerEnter, PopTask
<1>7. JoinableKeys'
  BY <1>1 DEF TypeOK, JoinableKeys, WorkerEnter, PopTask
<1>8. NoLostWakeup'
  BY <1>1 DEF TypeOK, NoLostWakeup, In, Predicate, WorkerEnter, PopTask
<1>9. TaskAccounted'
  BY PopAccounted DEF WorkerEnter
<1> QED
  BY <1>2, <1>3, <1>4, <1>5, <1>6, <1>7, <1>8, <1>9

(* A worker that finds quit_ and no task at the top of its loop.           *)
LEMMA EnterQuit ==
  ASSUME IInv, NEW t \in Threads, WorkerEnter(t), QuitWorker(t)
  PROVE  IInv'
<1> USE DEF IInv
<1>1. pc[t] \in PCs /\ pc' = [pc EXCEPT ![t] = "exiting"]
  BY DEF TypeOK, WorkerEnter, QuitWorker
<1>2. CountersExact' /\ currentThreads' \in Nat /\ idleThreads' \in 0..currentThreads'
  <2>1. /\ currentThreads' = currentThreads + Weight("exiting", Alive) - Weight(pc[t], Alive)
        /\ idleThreads' = idleThreads + Weight("exiting", Idle) - Weight(pc[t], Idle)
    BY DEF TypeOK, Weight, Alive, Idle, WorkerEnter, QuitWorker
  <2> QED
    BY <1>1, <2>1, CountersStep DEF PCs, Alive, Idle
<1>3. TypeOK'
  BY <1>1, <1>2, PoolAssumption DEF TypeOK, PCs, Alive, Idle, WorkerEnter, QuitWorker
<1>4. MutexOwner'
  BY <1>1, PoolAssumption DEF TypeOK, MutexOwner, WorkerEnter, QuitWorker
<1>5. QuitPhase'
  BY <1>1 DEF TypeOK, QuitPhase, In, Alive, Idle, WorkerEnter, QuitWorker
<1>6. DestructorOwnsMap'
  BY <1>1 DEF TypeOK, DestructorOwnsMap, In, Predicate, WorkerEnter, QuitWorker
<1>7. JoinableKeys'
  BY <1>1 DEF TypeOK, JoinableKeys, WorkerEnter, QuitWorker
<1>8. NoLostWakeup'
  BY <1>1 DEF TypeOK, NoLostWakeup, In, Predicate, WorkerEnter, QuitWorker
<1>9. TaskAccounted'
  BY <1>1 DEF TypeOK, TaskAccounted, WorkerEnter, QuitWorker
<1> QED
  BY <1>2, <1>3, <1>4, <1>5, <1>6, <1>7, <1>8, <1>9

(* A worker that starts to wait.                                           *)
LEMMA Park ==
  ASSUME IInv, NEW t \in Threads, WorkerPark(t)
  PROVE  IInv'
<1> USE DEF IInv
<1>1. pc[t] \in PCs /\ pc' = [pc EXCEPT ![t] = "parked"]
  BY DEF TypeOK, WorkerPark
<1>2. CountersExact' /\ currentThreads' \in Nat /\ idleThreads' \in 0..currentThreads'
  <2>1. /\ currentThreads' = currentThreads + Weight("parked", Alive) - Weight(pc[t], Alive)
        /\ idleThreads' = idleThreads + Weight("parked", Idle) - Weight(pc[t], Idle)
    BY DEF TypeOK, Weight, Alive, Idle, WorkerPark
  <2> QED
    BY <1>1, <2>1, CountersStep DEF PCs, Alive, Idle
<1>3. TypeOK'
  BY <1>1, <1>2, PoolAssumption DEF TypeOK, PCs, Alive, Idle, WorkerPark
<1>4. MutexOwner'
  BY <1>1, PoolAssumption DEF TypeOK, MutexOwner, WorkerPark
<1>5. QuitPhase'
  BY <1>1 DEF TypeOK, QuitPhase, In, Alive, Idle, WorkerPark
<1>6. DestructorOwnsMap'
  BY <1>1 DEF TypeOK, DestructorOwnsMap, In, Predicate, WorkerPark
<1>7. JoinableKeys'
  BY <1>1 DEF TypeOK, JoinableKeys, WorkerPark
<1>8. NoLostWakeup'
  BY <1>1 DEF TypeOK, NoLostWakeup, In, Predicate, WorkerPark
<1>9. TaskAccounted'
  BY <1>1 DEF TypeOK, TaskAccounted, WorkerPark
<1> QED
  BY <1>2, <1>3, <1>4, <1>5, <1>6, <1>7, <1>8, <1>9

(* A woken worker that finds a task.                                       *)
LEMMA WakePop ==
  ASSUME IInv, NEW t \in Threads, WorkerWake(t), PopTask(t)
  PROVE  IInv'
<1> USE DEF IInv
<1>1. pc[t] \in PCs /\ pc' = [pc EXCEPT ![t] = "running"]
  BY DEF TypeOK, WorkerWake, PopTask
<1>2. CountersExact' /\ currentThreads' \in Nat /\ idleThreads' \in 0..currentThreads'
  <2>1. /\ currentThreads' = currentThreads + Weight("running", Alive) - Weight(pc[t], Alive)
        /\ idleThreads' = idleThreads + Weight("running", Idle) - Weight(pc[t], Idle)
    BY DEF TypeOK, Weight, Alive, Idle, WorkerWake, PopTask
  <2> QED
    BY <1>1, <2>1, CountersStep DEF PCs, Alive, Idle
<1>3. TypeOK'
  BY <1>1, <1>2, PoolAssumption DEF TypeOK, PCs, Alive, Idle, WorkerWake, PopTask
<1>4. MutexOwner'
  BY <1>1, PoolAssumption DEF TypeOK, MutexOwner, WorkerWake, PopTask
<1>5. QuitPhase'
  BY <1>1 DEF TypeOK, QuitPhase, In, Alive, Idle, WorkerWake, PopTask
<1>6. DestructorOwnsMap'
  BY <1>1 DEF TypeOK, DestructorOwnsMap, In, Predicate, WorkerWake, PopTask
<1>7. JoinableKeys'
  BY <1>1 DEF TypeOK, JoinableKeys, WorkerWake, PopTask
<1>8. NoLostWakeup'
  BY <1>1 DEF TypeOK, NoLostWakeup, In, Predicate, WorkerWake, PopTask
<1>9. TaskAccounted'
  BY PopAccounted DEF WorkerWake
<1> QED
  BY <1>2, <1>3, <1>4, <1>5, <1>6, <1>7, <1>8, <1>9

(* A woken worker that finds quit_ and no task.                            *)
LEMMA WakeQuit ==
  ASSUME IInv, NEW t \in Threads, WorkerWake(t), QuitWorker(t)
  PROVE  IInv'
<1> USE DEF IInv
<1>1. pc[t] \in PCs /\ pc' = [pc EXCEPT ![t] = "exiting"]
  BY DEF TypeOK, WorkerWake, QuitWorker
<1>2. CountersExact' /\ currentThreads' \in Nat /\ idleThreads' \in 0..currentThreads'
  <2>1. /\ currentThreads' = currentThreads + Weight("exiting", Alive) - Weight(pc[t], Alive)
        /\ idleThreads' = idleThreads + Weight("exiting", Idle) - Weight(pc[t], Idle)
    BY DEF TypeOK, Weight, Alive, Idle, WorkerWake, QuitWorker
  <2> QED
    BY <1>1, <2>1, CountersStep DEF PCs, Alive, Idle
<1>3. TypeOK'
  BY <1>1, <1>2, PoolAssumption DEF TypeOK, PCs, Alive, Idle, WorkerWake, QuitWorker
<1>4. MutexOwner'
  BY <1>1, PoolAssumption DEF TypeOK, MutexOwner, WorkerWake, QuitWorker
<1>5. QuitPhase'
  BY <1>1 DEF TypeOK, QuitPhase, In, Alive, Idle, WorkerWake, QuitWorker
<1>6. DestructorOwnsMap'
  BY <1>1 DEF TypeOK, DestructorOwnsMap, In, Predicate, WorkerWake, QuitWorker
<1>7. JoinableKeys'
  BY <1>1 DEF TypeOK, JoinableKeys, WorkerWake, QuitWorker
<1>8. NoLostWakeup'
  BY <1>1 DEF TypeOK, NoLostWakeup, In, Predicate, WorkerWake, QuitWorker
<1>9. TaskAccounted'
  BY <1>1 DEF TypeOK, TaskAccounted, WorkerWake, QuitWorker
<1> QED
  BY <1>2, <1>3, <1>4, <1>5, <1>6, <1>7, <1>8, <1>9

(* A woken worker that finds nothing.                                      *)
LEMMA SleepAgain ==
  ASSUME IInv, NEW t \in Threads, WorkerSleepAgain(t)
  PROVE  IInv'
<1> USE DEF IInv
<1>1. pc[t] \in PCs /\ pc' = [pc EXCEPT ![t] = "parked"]
  BY DEF TypeOK, WorkerSleepAgain
<1>2. CountersExact' /\ currentThreads' \in Nat /\ idleThreads' \in 0..currentThreads'
  <2>1. /\ currentThreads' = currentThreads + Weight("parked", Alive) - Weight(pc[t], Alive)
        /\ idleThreads' = idleThreads + Weight("parked", Idle) - Weight(pc[t], Idle)
    BY DEF TypeOK, Weight, Alive, Idle, WorkerSleepAgain
  <2> QED
    BY <1>1, <2>1, CountersStep DEF PCs, Alive, Idle
<1>3. TypeOK'
  BY <1>1, <1>2, PoolAssumption DEF TypeOK, PCs, Alive, Idle, WorkerSleepAgain
<1>4. MutexOwner'
  BY <1>1, PoolAssumption DEF TypeOK, MutexOwner, WorkerSleepAgain
<1>5. QuitPhase'
  BY <1>1 DEF TypeOK, QuitPhase, In, Alive, Idle, WorkerSleepAgain
<1>6. DestructorOwnsMap'
  BY <1>1 DEF TypeOK, DestructorOwnsMap, In, Predicate, WorkerSleepAgain
<1>7. JoinableKeys'
  BY <1>1 DEF TypeOK, JoinableKeys, WorkerSleepAgain
<1>8. NoLostWakeup'
  BY <1>1 DEF TypeOK, NoLostWakeup, In, Predicate, WorkerSleepAgain
<1>9. TaskAccounted'
  BY <1>1 DEF TypeOK, TaskAccounted, WorkerSleepAgain
<1> QED
  BY <1>2, <1>3, <1>4, <1>5, <1>6, <1>7, <1>8, <1>9

(* A worker whose wait timed out.                                          *)
LEMMA Leave ==
  ASSUME IInv, NEW t \in Threads, WorkerLeave(t)
  PROVE  IInv'
<1> USE DEF IInv
<1>1. pc[t] \in PCs /\ pc' = [pc EXCEPT ![t] = "joining"]
  BY DEF TypeOK, WorkerLeave
<1>2. CountersExact' /\ currentThreads' \in Nat /\ idleThreads' \in 0..currentThreads'
  <2>1. /\ currentThreads' = currentThreads + Weight("joining", Alive) - Weight(pc[t], Alive)
        /\ idleThreads' = idleThreads + Weight("joining", Idle) - Weight(pc[t], Idle)
    BY DEF TypeOK, Weight, Alive, Idle, WorkerLeave
  <2> QED
    BY <1>1, <2>1, CountersStep DEF PCs, Alive, Idle
<1>3. TypeOK'
  BY <1>1, <1>2, PoolAssumption DEF TypeOK, PCs, Alive, Idle, WorkerLeave
<1>4. MutexOwner'
  BY <1>1, PoolAssumption DEF TypeOK, MutexOwner, WorkerLeave
<1>5. QuitPhase'
  BY <1>1 DEF TypeOK, QuitPhase, In, Alive, Idle, WorkerLeave
<1>6. DestructorOwnsMap'
  BY <1>1 DEF TypeOK, DestructorOwnsMap, In, Predicate, WorkerLeave
<1>7. JoinableKeys'
  BY <1>1 DEF TypeOK, JoinableKeys, WorkerLeave
<1>8. NoLostWakeup'
  BY <1>1 DEF TypeOK, NoLostWakeup, In, Predicate, WorkerLeave
<1>9. TaskAccounted'
  BY <1>1 DEF TypeOK, TaskAccounted, WorkerLeave
<1> QED
  BY <1>2, <1>3, <1>4, <1>5, <1>6, <1>7, <1>8, <1>9

(* A leaving worker that has collected its predecessors.                   *)
LEMMA Finish ==
  ASSUME IInv, NEW t \in Threads, WorkerFinish(t)
  PROVE  IInv'
<1> USE DEF IInv
<1>1. pc[t] \in PCs /\ pc' = [pc EXCEPT ![t] = "exiting"]
  BY DEF TypeOK, WorkerFinish
<1>2. CountersExact' /\ currentThreads' \in Nat /\ idleThreads' \in 0..currentThreads'
  <2>1. /\ currentThreads' = currentThreads + Weight("exiting", Alive) - Weight(pc[t], Alive)
        /\ idleThreads' = idleThreads + Weight("exiting", Idle) - Weight(pc[t], Idle)
    BY DEF TypeOK, Weight, Alive, Idle, WorkerFinish
  <2> QED
    BY <1>1, <2>1, CountersStep DEF PCs, Alive, Idle
<1>3. TypeOK'
  BY <1>1, <1>2, PoolAssumption DEF TypeOK, PCs, Alive, Idle, WorkerFinish
<1>4. MutexOwner'
  BY <1>1, PoolAssumption DEF TypeOK, MutexOwner, WorkerFinish
<1>5. QuitPhase'
  BY <1>1 DEF TypeOK, QuitPhase, In, Alive, Idle, WorkerFinish
<1>6. DestructorOwnsMap'
  BY <1>1 DEF TypeOK, DestructorOwnsMap, In, Predicate, WorkerFinish
<1>7. JoinableKeys'
  BY <1>1 DEF TypeOK, JoinableKeys, WorkerFinish
<1>8. NoLostWakeup'
  BY <1>1 DEF TypeOK, NoLostWakeup, In, Predicate, WorkerFinish
<1>9. TaskAccounted'
  BY <1>1 DEF TypeOK, TaskAccounted, WorkerFinish
<1> QED
  BY <1>2, <1>3, <1>4, <1>5, <1>6, <1>7, <1>8, <1>9

(* A worker that has run its task.                                         *)
LEMMA Run ==
  ASSUME IInv, NEW t \in Threads, RunTask(t)
  PROVE  IInv'
<1> USE DEF IInv
<1>1. pc[t] \in PCs /\ pc' = [pc EXCEPT ![t] = "ready"]
  BY DEF TypeOK, RunTask
<1>2. CountersExact' /\ currentThreads' \in Nat /\ idleThreads' \in 0..currentThreads'
  <2>1. /\ currentThreads' = currentThreads + Weight("ready", Alive) - Weight(pc[t], Alive)
        /\ idleThreads' = idleThreads + Weight("ready", Idle) - Weight(pc[t], Idle)
    BY DEF TypeOK, Weight, Alive, Idle, RunTask
  <2> QED
    BY <1>1, <2>1, CountersStep DEF PCs, Alive, Idle
<1>0. /\ pc[t] = "running" /\ task[t] \in 1..submitted
      /\ completed' = completed \union {task[t]}
      /\ task' = [task EXCEPT ![t] = 0]
      /\ UNCHANGED <<mutex, quit, tasks, finishedThreadIDs, threads, submitted, dtor>>
  BY DEF TaskAccounted, RunTask
<1>3. TypeOK'
  <2>1. completed' \subseteq 1..MaxTasks
    <3>1. task[t] \in 1..MaxTasks
      BY <1>0, PoolAssumption DEF TypeOK
    <3> QED
      BY <1>0, <3>1 DEF TypeOK
  <2>2. task' \in [Threads -> 0..MaxTasks]
    BY <1>0, PoolAssumption DEF TypeOK
  <2>3. pc' \in [Threads -> PCs]
    BY <1>1 DEF TypeOK, PCs, Alive
  <2>4. currentThreads' \in 0..MaxThreads /\ idleThreads' \in 0..MaxThreads
    BY DEF TypeOK, RunTask
  <2> QED
    BY <1>0, <2>1, <2>2, <2>3, <2>4 DEF TypeOK
<1>4. MutexOwner'
  BY <1>1, PoolAssumption DEF TypeOK, MutexOwner, RunTask
<1>5. QuitPhase'
  BY <1>1 DEF TypeOK, QuitPhase, In, Alive, Idle, RunTask
<1>6. DestructorOwnsMap'
  BY <1>1 DEF TypeOK, DestructorOwnsMap, In, Predicate, RunTask
<1>7. JoinableKeys'
  BY <1>1 DEF TypeOK, JoinableKeys, RunTask
<1>8. NoLostWakeup'
  BY <1>1 DEF TypeOK, NoLostWakeup, In, Predicate, RunTask
<1>9. TaskAccounted'
  <2>1. pc'[t] = "ready" /\ \A u \in Threads \ {t} : pc'[u] = pc[u] /\ task'[u] = task[u]
    BY <1>0, <1>1 DEF TypeOK
  <2>2. ASSUME NEW k \in 1..submitted
        PROVE  \/ k \in completed'
               \/ \E i \in DOMAIN tasks : tasks[i] = k
               \/ \E u \in Threads : pc'[u] = "running" /\ task'[u] = k
    BY <1>0, <2>1 DEF TaskAccounted
  <2> QED
    BY <1>0, <2>1, <2>2 DEF TaskAccounted
<1> QED
  BY <1>2, <1>3, <1>4, <1>5, <1>6, <1>7, <1>8, <1>9

(* A thread that ends.                                                     *)
LEMMA Exit ==
  ASSUME IInv, NEW t \in Threads, ThreadExit(t)
  PROVE  IInv'
<1> USE DEF IInv
<1>1. pc[t] \in PCs /\ pc' = [pc EXCEPT ![t] = "done"]
  BY DEF TypeOK, ThreadExit
<1>2. CountersExact' /\ currentThreads' \in Nat /\ idleThreads' \in 0..currentThreads'
  <2>1. /\ currentThreads' = currentThreads + Weight("done", Alive) - Weight(pc[t], Alive)
        /\ idleThreads' = idleThreads + Weight("done", Idle) - Weight(pc[t], Idle)
    BY DEF TypeOK, Weight, Alive, Idle, ThreadExit
  <2> QED
    BY <1>1, <2>1, CountersStep DEF PCs, Alive, Idle
<1>3. TypeOK'
  BY <1>1, <1>2, PoolAssumption DEF TypeOK, PCs, Alive, Idle, ThreadExit
<1>4. MutexOwner'
  BY <1>1, PoolAssumption DEF TypeOK, MutexOwner, ThreadExit
<1>5. QuitPhase'
  BY <1>1 DEF TypeOK, QuitPhase, In, Alive, Idle, ThreadExit
<1>6. DestructorOwnsMap'
  BY <1>1 DEF TypeOK, DestructorOwnsMap, In, Predicate, ThreadExit
<1>7. JoinableKeys'
  BY <1>1 DEF TypeOK, JoinableKeys, ThreadExit
<1>8. NoLostWakeup'
  BY <1>1 DEF TypeOK, NoLostWakeup, In, Predicate, ThreadExit
<1>9. TaskAccounted'
  <2>1. pc[t] = "exiting" /\ UNCHANGED <<task, tasks, submitted, completed>>
    BY DEF ThreadExit
  <2>2. \A u \in Threads : pc'[u] = "running" <=> pc[u] = "running"
    BY <1>1, <2>1 DEF TypeOK
  <2> QED
    BY <2>1, <2>2 DEF TaskAccounted
<1> QED
  BY <1>2, <1>3, <1>4, <1>5, <1>6, <1>7, <1>8, <1>9

(* The wait of a parked worker returns, timed out or not.                  *)
LEMMA WaitEnds ==
  ASSUME IInv, NEW t \in Threads, WaitReturns(t)
  PROVE  IInv'
<1> USE DEF IInv
<1>1. PICK why \in {"timedout", "notified"} : pc' = [pc EXCEPT ![t] = why]
  BY DEF WaitReturns
<1>2. CountersExact'
  <2>1. /\ currentThreads' = currentThreads + Weight(why, Alive) - Weight(pc[t], Alive)
        /\ idleThreads' = idleThreads + Weight(why, Idle) - Weight(pc[t], Idle)
    BY DEF TypeOK, Weight, Alive, Idle, WaitReturns
  <2>2. why \in PCs
    BY DEF PCs, Alive, Idle
  <2> QED
    BY <1>1, <2>1, <2>2, CountersStep
<1>3. TypeOK'
  BY <1>1 DEF TypeOK, PCs, Alive, Idle, WaitReturns
<1>4. MutexOwner' /\ DestructorOwnsMap'
  BY <1>1 DEF TypeOK, MutexOwner, DestructorOwnsMap, In, WaitReturns
<1>5. QuitPhase'
  BY <1>1 DEF TypeOK, QuitPhase, In, Alive, Idle, WaitReturns
<1>6. JoinableKeys'
  BY <1>1 DEF TypeOK, JoinableKeys, WaitReturns
<1>7. NoLostWakeup'
  BY <1>1 DEF TypeOK, NoLostWakeup, In, WaitReturns
<1>8. TaskAccounted'
  BY <1>1 DEF TypeOK, TaskAccounted, WaitReturns
<1> QED
  BY <1>2, <1>3, <1>4, <1>5, <1>6, <1>7, <1>8

(* A leaving worker collects one predecessor: the id it takes is joinable, *)
(* and the ids behind it in the queue are other ones.                      *)
LEMMA Collect ==
  ASSUME IInv, NEW t \in Threads, joinFinishedThreads(t)
  PROVE  IInv'
<1> USE DEF IInv
<1> DEFINE id == Head(finishedThreadIDs)
<1>1. /\ finishedThreadIDs \in Seq(Threads) /\ finishedThreadIDs # <<>>
      /\ finishedThreadIDs' = Tail(finishedThreadIDs)
      /\ pc[id] = "done" /\ pc' = [pc EXCEPT ![id] = "none"]
      /\ threads' = threads \ {id}
      /\ pc[t] = "joining"
  BY DEF TypeOK, joinFinishedThreads
<1>2. id \in Threads /\ id = finishedThreadIDs[1] /\ 1 \in DOMAIN finishedThreadIDs
  BY <1>1
<1> HIDE DEF id
<1>3. CountersExact'
  <2>1. /\ currentThreads' = currentThreads + Weight("none", Alive) - Weight(pc[id], Alive)
        /\ idleThreads' = idleThreads + Weight("none", Idle) - Weight(pc[id], Idle)
    BY <1>1 DEF TypeOK, Weight, Alive, Idle, joinFinishedThreads
  <2> QED
    BY <1>1, <1>2, <2>1, CountersStep DEF PCs
<1>4. TypeOK'
  BY <1>1, <1>2 DEF TypeOK, PCs, joinFinishedThreads
<1>5. MutexOwner' /\ DestructorOwnsMap'
  BY <1>1, <1>2 DEF TypeOK, MutexOwner, DestructorOwnsMap, In, joinFinishedThreads
<1>6. QuitPhase'
  BY <1>1, <1>2 DEF TypeOK, QuitPhase, DestructorOwnsMap, In, Alive, Idle, joinFinishedThreads
<1>7. JoinableKeys'
  <2>1. \A i \in 1..Len(finishedThreadIDs') :
          /\ i + 1 \in 1..Len(finishedThreadIDs)
          /\ finishedThreadIDs'[i] = finishedThreadIDs[i + 1]
    BY <1>1
  <2>2. \A i \in 1..Len(finishedThreadIDs') : finishedThreadIDs'[i] # id
    BY <1>1, <1>2, <2>1 DEF JoinableKeys
  <2>3. \A i \in 1..Len(finishedThreadIDs') :
          finishedThreadIDs'[i] \in threads' /\ pc'[finishedThreadIDs'[i]] \in {"exiting", "done"}
    BY <1>1, <2>1, <2>2 DEF JoinableKeys, TypeOK
  <2>4. \A i, j \in 1..Len(finishedThreadIDs') :
          finishedThreadIDs'[i] = finishedThreadIDs'[j] => i = j
    BY <1>1, <2>1 DEF JoinableKeys
  <2>5. threads' = {u \in Threads : pc'[u] # "none"}
    BY <1>1, <1>2 DEF JoinableKeys, TypeOK
  <2> QED
    BY <2>3, <2>4, <2>5 DEF JoinableKeys
<1>8. NoLostWakeup'
  BY <1>1, <1>2 DEF TypeOK, NoLostWakeup, In, joinFinishedThreads
<1>9. TaskAccounted'
  <2>1. UNCHANGED <<task, tasks, submitted, completed>>
    BY DEF joinFinishedThreads
  <2>2. \A u \in Threads : pc'[u] = "running" <=> pc[u] = "running"
    BY <1>1, <1>2 DEF TypeOK
  <2> QED
    BY <2>1, <2>2 DEF TaskAccounted
<1> QED
  BY <1>3, <1>4, <1>5, <1>6, <1>7, <1>8, <1>9

(* submit() adds its task to the account, whoever will take it.            *)
LEMMA PushAccounted ==
  ASSUME TypeOK, TaskAccounted, PushTask, UNCHANGED <<task, completed>>,
         \A u \in Threads : pc'[u] = "running" <=> pc[u] = "running"
  PROVE  TaskAccounted' /\ submitted' \in 0..MaxTasks /\ tasks' \in Seq(1..MaxTasks)
<1>1. /\ tasks' = Append(tasks, submitted + 1) /\ submitted' = submitted + 1
      /\ submitted + 1 \in 1..MaxTasks /\ tasks \in Seq(1..MaxTasks)
  BY PoolAssumption DEF TypeOK, PushTask
<1>2. /\ DOMAIN tasks' = 1..(Len(tasks) + 1) /\ DOMAIN tasks = 1..Len(tasks)
      /\ tasks'[Len(tasks) + 1] = submitted + 1 /\ Len(tasks) \in Nat
      /\ \A i \in 1..Len(tasks) : tasks'[i] = tasks[i]
  BY <1>1
<1>3. \A k \in 1..submitted' : k \in 1..submitted \/ k = submitted + 1
  BY <1>1 DEF TypeOK
<1>4. 1..submitted \subseteq 1..submitted'
  BY <1>1 DEF TypeOK
<1>5. \A i \in DOMAIN tasks' : tasks'[i] \in 1..submitted'
  <2> SUFFICES ASSUME NEW i \in DOMAIN tasks' PROVE tasks'[i] \in 1..submitted'
    OBVIOUS
  <2>1. CASE i \in 1..Len(tasks)
    BY <1>2, <1>4, <2>1 DEF TaskAccounted
  <2>2. CASE i = Len(tasks) + 1
    BY <1>1, <1>2, <2>2
  <2> QED
    BY <1>2, <2>1, <2>2
<1>6. ASSUME NEW k \in 1..submitted'
      PROVE  \/ k \in completed
             \/ \E i \in DOMAIN tasks' : tasks'[i] = k
             \/ \E u \in Threads : pc'[u] = "running" /\ task[u] = k
  <2>1. CASE k = submitted + 1
    BY <1>2, <2>1
  <2>2. CASE k \in 1..submitted
    <3>1. \A i \in DOMAIN tasks : i \in DOMAIN tasks' /\ tasks'[i] = tasks[i]
      BY <1>2
    <3> QED
      BY <2>2, <3>1 DEF TaskAccounted
  <2> QED
    BY <1>3, <2>1, <2>2
<1>7. /\ completed \subseteq 1..submitted'
      /\ \A u \in Threads : pc'[u] = "running" => task[u] \in 1..submitted'
  BY <1>4 DEF TaskAccounted
<1> QED
  BY <1>1, <1>5, <1>6, <1>7 DEF TaskAccounted

(* submit() when a worker is idle: notify_one wakes one, or every idle     *)
(* worker was woken before and will look at the queue.                     *)
LEMMA SubmitWakes ==
  ASSUME IInv, submit, idleThreads > 0, NotifyOne, UNCHANGED <<threads, currentThreads>>
  PROVE  IInv'
<1> USE DEF IInv
<1>0. /\ PushTask /\ mutex = NoThread /\ ~quit /\ tasks' # <<>>
      /\ UNCHANGED <<task, mutex, quit, idleThreads, finishedThreadIDs, completed, dtor>>
  BY DEF submit, PushTask, TypeOK
<1>1. CASE In({"parked"}) = {}
  <2>1. UNCHANGED pc
    BY <1>1 DEF NotifyOne
  <2>2. CountersExact'
    BY <1>0, <2>1 DEF CountersExact, In
  <2>3. TaskAccounted' /\ submitted' \in 0..MaxTasks /\ tasks' \in Seq(1..MaxTasks)
    BY <1>0, <2>1, PushAccounted
  <2>4. TypeOK'
    BY <1>0, <2>1, <2>3 DEF TypeOK
  <2>5. Members(pc, Idle) # {}
    <3>1. Cardinality(Members(pc, Idle)) = idleThreads /\ idleThreads # 0
      BY DEF CountersExact, In, Members, TypeOK
    <3> QED
      BY <3>1, MembersFinite
  <2>6. NoLostWakeup'
    BY <1>1, <2>1, <2>5 DEF NoLostWakeup, In, Members, Idle
  <2>7. MutexOwner' /\ DestructorOwnsMap' /\ QuitPhase'
    BY <1>0, <2>1 DEF MutexOwner, DestructorOwnsMap, QuitPhase, In
  <2>8. JoinableKeys'
    BY <1>0, <2>1 DEF JoinableKeys
  <2> QED
    BY <2>2, <2>3, <2>4, <2>6, <2>7, <2>8
<1>2. CASE In({"parked"}) # {}
  <2>1. PICK t \in Threads : pc[t] = "parked" /\ pc' = [pc EXCEPT ![t] = "notified"]
    BY <1>2 DEF NotifyOne, In
  <2>2. CountersExact'
    <3>1. /\ currentThreads' = currentThreads + Weight("notified", Alive) - Weight(pc[t], Alive)
          /\ idleThreads' = idleThreads + Weight("notified", Idle) - Weight(pc[t], Idle)
      BY <1>0, <2>1 DEF TypeOK, Weight, Alive, Idle
    <3> QED
      BY <2>1, <3>1, CountersStep DEF PCs, Alive, Idle
  <2>3. TaskAccounted' /\ submitted' \in 0..MaxTasks /\ tasks' \in Seq(1..MaxTasks)
    <3>1. \A u \in Threads : pc'[u] = "running" <=> pc[u] = "running"
      BY <2>1 DEF TypeOK
    <3> QED
      BY <1>0, <3>1, PushAccounted
  <2>4. TypeOK'
    BY <1>0, <2>1, <2>3 DEF TypeOK, PCs, Alive, Idle
  <2>5. NoLostWakeup'
    BY <2>1 DEF NoLostWakeup, In, TypeOK
  <2>6. MutexOwner' /\ DestructorOwnsMap' /\ QuitPhase'
    BY <1>0, <2>1 DEF MutexOwner, DestructorOwnsMap, QuitPhase, In, TypeOK
  <2>7. JoinableKeys'
    BY <1>0, <2>1 DEF JoinableKeys, TypeOK
  <2> QED
    BY <2>2, <2>3, <2>4, <2>5, <2>6, <2>7
<1> QED
  BY <1>1, <1>2

(* submit() when nobody is idle and the pool may grow.                     *)
LEMMA SubmitSpawns ==
  ASSUME IInv, submit, currentThreads < MaxThreads, SpawnWorker
  PROVE  IInv'
<1> USE DEF IInv
<1>0. /\ PushTask /\ mutex = NoThread /\ ~quit
      /\ UNCHANGED <<task, mutex, quit, idleThreads, finishedThreadIDs, completed, dtor>>
  BY DEF submit, PushTask
<1>1. PICK t \in Threads : /\ pc[t] = "none" /\ pc' = [pc EXCEPT ![t] = "ready"]
                           /\ threads' = threads \union {t}
                           /\ currentThreads' = currentThreads + 1
  BY DEF SpawnWorker, In
<1>2. CountersExact' /\ currentThreads' \in Nat /\ idleThreads' \in 0..currentThreads'
  <2>1. /\ currentThreads' = currentThreads + Weight("ready", Alive) - Weight(pc[t], Alive)
        /\ idleThreads' = idleThreads + Weight("ready", Idle) - Weight(pc[t], Idle)
    BY <1>0, <1>1 DEF TypeOK, Weight, Alive, Idle
  <2> QED
    BY <1>1, <2>1, CountersStep DEF PCs, Alive, Idle
<1>3. TaskAccounted' /\ submitted' \in 0..MaxTasks /\ tasks' \in Seq(1..MaxTasks)
  <2>1. \A u \in Threads : pc'[u] = "running" <=> pc[u] = "running"
    BY <1>1 DEF TypeOK
  <2> QED
    BY <1>0, <2>1, PushAccounted
<1>4. TypeOK'
  BY <1>0, <1>1, <1>2, <1>3, PoolAssumption DEF TypeOK, PCs, Alive
<1>5. NoLostWakeup'
  BY <1>1 DEF NoLostWakeup, In, TypeOK
<1>6. MutexOwner' /\ DestructorOwnsMap' /\ QuitPhase'
  BY <1>0, <1>1, PoolAssumption DEF MutexOwner, DestructorOwnsMap, QuitPhase, In, TypeOK
<1>7. JoinableKeys'
  BY <1>0, <1>1 DEF JoinableKeys, TypeOK
<1> QED
  BY <1>2, <1>3, <1>4, <1>5, <1>6, <1>7

(* submit() when nobody is idle and the pool is full: MaxThreads > 0       *)
(* workers exist, none of them idle, so one will come back for the task.   *)
LEMMA SubmitQueues ==
  ASSUME IInv, submit, idleThreads = 0, currentThreads >= MaxThreads,
         UNCHANGED <<pc, threads, currentThreads>>
  PROVE  IInv'
<1> USE DEF IInv
<1>0. /\ PushTask /\ mutex = NoThread /\ ~quit
      /\ UNCHANGED <<task, mutex, quit, idleThreads, finishedThreadIDs, completed, dtor>>
  BY DEF submit, PushTask
<1>1. TaskAccounted' /\ submitted' \in 0..MaxTasks /\ tasks' \in Seq(1..MaxTasks)
  BY <1>0, PushAccounted
<1>2. TypeOK'
  BY <1>0, <1>1 DEF TypeOK
<1>3. NoLostWakeup'
  <2>1. Members(pc, Alive) # {}
    <3>1. Cardinality(Members(pc, Alive)) = currentThreads /\ currentThreads # 0
      BY PoolAssumption DEF CountersExact, In, Members, TypeOK
    <3> QED
      BY <3>1, MembersFinite
  <2>2. Members(pc, Idle) = {}
    <3>1. Cardinality(Members(pc, Idle)) = 0
      BY DEF CountersExact, In, Members
    <3> QED
      BY <3>1, MembersFinite
  <2> QED
    BY <2>1, <2>2 DEF NoLostWakeup, In, Members, Alive
<1>4. CountersExact' /\ MutexOwner' /\ DestructorOwnsMap' /\ QuitPhase'
  BY <1>0 DEF CountersExact, MutexOwner, DestructorOwnsMap, QuitPhase, In
<1>5. JoinableKeys'
  BY <1>0 DEF JoinableKeys
<1> QED
  BY <1>1, <1>2, <1>3, <1>4, <1>5

(* The destructor sets quit_ with the mutex, so nobody is joining.         *)
LEMMA QuitSet ==
  ASSUME IInv, SetQuit
  PROVE  IInv'
<1> USE DEF IInv
<1>1. TypeOK' /\ CountersExact' /\ NoLostWakeup'
  BY DEF TypeOK, CountersExact, NoLostWakeup, In, SetQuit
<1>2. MutexOwner' /\ QuitPhase'
  BY DEF MutexOwner, QuitPhase, SetQuit
<1>3. DestructorOwnsMap'
  BY PoolAssumption DEF DestructorOwnsMap, MutexOwner, In, SetQuit
<1>4. JoinableKeys' /\ TaskAccounted'
  BY DEF JoinableKeys, TaskAccounted, SetQuit
<1> QED
  BY <1>1, <1>2, <1>3, <1>4

(* notify_all moves workers from one idle position to another.             *)
LEMMA AllNotified ==
  ASSUME IInv, NotifyAll
  PROVE  IInv'
<1> USE DEF IInv
<1>1. \A t \in Threads : pc'[t] = IF pc[t] = "parked" THEN "notified" ELSE pc[t]
  BY DEF NotifyAll
<1>2. In(Alive)' = In(Alive) /\ In(Idle)' = In(Idle)
  BY <1>1 DEF In, Alive, Idle
<1>3. CountersExact'
  BY <1>2 DEF CountersExact, NotifyAll
<1>4. TypeOK'
  BY DEF TypeOK, PCs, Alive, Idle, NotifyAll
<1>5. MutexOwner' /\ DestructorOwnsMap'
  BY <1>1 DEF MutexOwner, DestructorOwnsMap, In, NotifyAll
<1>6. QuitPhase'
  BY <1>2 DEF QuitPhase, NotifyAll
<1>7. JoinableKeys'
  <2>1. \A t \in Threads : /\ pc'[t] # "none" <=> pc[t] # "none"
                           /\ pc[t] \in {"exiting", "done"} => pc'[t] = pc[t]
    BY <1>1
  <2>2. \A k \in 1..Len(finishedThreadIDs) : finishedThreadIDs[k] \in Threads
    BY DEF TypeOK
  <2> QED
    BY <2>1, <2>2 DEF JoinableKeys, NotifyAll
<1>8. NoLostWakeup'
  BY <1>1 DEF NoLostWakeup, In, NotifyAll
<1>9. TaskAccounted'
  BY <1>1 DEF TaskAccounted, NotifyAll
<1> QED
  BY <1>3, <1>4, <1>5, <1>6, <1>7, <1>8, <1>9

(* The joins are over: no worker is left, so by NoLostWakeup no task is.   *)
LEMMA AllJoined ==
  ASSUME IInv, JoinAll
  PROVE  IInv'
<1> USE DEF IInv
<1>1. \A t \in Threads : pc[t] \in {"none", "done"}
  BY DEF JoinableKeys, JoinAll
<1>2. \A t \in Threads : pc'[t] = "none"
  BY <1>1 DEF JoinableKeys, JoinAll
<1>3. In(Alive) = {} /\ In(Idle) = {} /\ In(Alive)' = {} /\ In(Idle)' = {}
  BY <1>1, <1>2 DEF In, Alive, Idle
<1>4. CountersExact'
  BY <1>3 DEF CountersExact, JoinAll
<1>5. tasks = <<>>
  BY <1>1 DEF NoLostWakeup, In
<1>6. TypeOK'
  BY DEF TypeOK, PCs, JoinAll
<1>7. MutexOwner'
  BY <1>1, <1>2 DEF MutexOwner, JoinAll
<1>8. QuitPhase' /\ DestructorOwnsMap' /\ NoLostWakeup'
  BY <1>2, <1>3, <1>5 DEF QuitPhase, DestructorOwnsMap, NoLostWakeup, In, JoinAll
<1>9. JoinableKeys'
  BY <1>2 DEF JoinableKeys, JoinAll
<1>10. TaskAccounted'
  BY <1>1, <1>2 DEF TaskAccounted, JoinAll
<1> QED
  BY <1>4, <1>6, <1>7, <1>8, <1>9, <1>10

(* Every step preserves the invariant.                                     *)
LEMMA NextIInv == IInv /\ [Next]_vars => IInv'
<1> SUFFICES ASSUME IInv, [Next]_vars PROVE IInv'
  OBVIOUS
<1>1. CASE submit
  <2>1. \/ idleThreads > 0 /\ NotifyOne /\ UNCHANGED <<threads, currentThreads>>
        \/ idleThreads = 0 /\ currentThreads < MaxThreads /\ SpawnWorker
        \/ idleThreads = 0 /\ currentThreads >= MaxThreads /\ UNCHANGED <<pc, threads, currentThreads>>
    BY <1>1 DEF submit
  <2> QED
    BY <1>1, <2>1, SubmitWakes, SubmitSpawns, SubmitQueues
<1>2. CASE \E t \in Threads : Worker(t) \/ WaitReturns(t)
  <2> SUFFICES ASSUME NEW t \in Threads, Worker(t) \/ WaitReturns(t) PROVE IInv'
    BY <1>2
  <2>1. CASE WorkerEnter(t)
    <3>1. PopTask(t) \/ QuitWorker(t)
      BY <2>1 DEF WorkerEnter
    <3> QED
      BY <2>1, <3>1, EnterPop, EnterQuit
  <2>2. CASE WorkerWake(t)
    <3>1. PopTask(t) \/ QuitWorker(t)
      BY <2>2 DEF WorkerWake
    <3> QED
      BY <2>2, <3>1, WakePop, WakeQuit
  <2>3. CASE WorkerPark(t)
    BY <2>3, Park
  <2>4. CASE WorkerSleepAgain(t)
    BY <2>4, SleepAgain
  <2>5. CASE WorkerLeave(t)
    BY <2>5, Leave
  <2>6. CASE joinFinishedThreads(t)
    BY <2>6, Collect
  <2>7. CASE WorkerFinish(t)
    BY <2>7, Finish
  <2>8. CASE RunTask(t)
    BY <2>8, Run
  <2>9. CASE ThreadExit(t)
    BY <2>9, Exit
  <2>10. CASE WaitReturns(t)
    BY <2>10, WaitEnds
  <2> QED
    BY <2>1, <2>2, <2>3, <2>4, <2>5, <2>6, <2>7, <2>8, <2>9, <2>10 DEF Worker
<1>3. CASE Destructor
  BY <1>3, QuitSet, AllNotified, AllJoined DEF Destructor
<1>4. CASE UNCHANGED vars
  BY <1>4 DEF vars, IInv, TypeOK, CountersExact, MutexOwner, QuitPhase, DestructorOwnsMap,
              JoinableKeys, NoLostWakeup, TaskAccounted, In
<1> QED
  BY <1>1, <1>2, <1>3, <1>4 DEF Next

-----------------------------------------------------------------------------
(* IInv is an invariant of the pool.                                       *)
THEOREM Inductive == Spec => []IInv
  BY InitIInv, NextIInv, PTL DEF Spec

(* The members of the pool keep their types; in particular neither counter *)
(* exceeds maxThreads_ or wraps below zero.                                *)
THEOREM TypeCorrect == Spec => []TypeOK
<1>1. IInv => TypeOK
  BY DEF IInv
<1> QED
  BY <1>1, Inductive, PTL

(* currentThreads_ and idleThreads_ always count the workers they name.    *)
THEOREM CountersCorrect == Spec => []CountersExact
<1>1. IInv => CountersExact
  BY DEF IInv
<1> QED
  BY <1>1, Inductive, PTL

(* The assertions on threads_ and finishedThreadIDs_ hold.                 *)
THEOREM KeysCorrect == Spec => []JoinableKeys
<1>1. IInv => JoinableKeys
  BY DEF IInv
<1> QED
  BY <1>1, Inductive, PTL

(* No task is left behind with every worker asleep.                        *)
THEOREM WakeupsCorrect == Spec => []NoLostWakeup
<1>1. IInv => NoLostWakeup
  BY DEF IInv
<1> QED
  BY <1>1, Inductive, PTL

(* The destructor's unlocked loop over threads_ meets no other joiner.     *)
THEOREM MapOwnership == Spec => []DestructorOwnsMap
<1>1. IInv => DestructorOwnsMap
  BY DEF IInv
<1> QED
  BY <1>1, Inductive, PTL

(* A destroyed pool has run every task: by TaskAccounted a task is done,   *)
(* queued or running, and QuitPhase leaves only the first.                 *)
THEOREM DrainCorrect == Spec => []DestroyedDrained
<1>1. IInv => DestroyedDrained
  <2> SUFFICES ASSUME IInv, dtor = "returned" PROVE completed = 1..submitted
    BY DEF DestroyedDrained
  <2>1. tasks = <<>> /\ \A t \in Threads : pc[t] # "running"
    BY DEF IInv, QuitPhase, In, Alive
  <2>2. DOMAIN tasks = {}
    BY <2>1
  <2>3. \A k \in 1..submitted : k \in completed
    BY <2>1, <2>2 DEF IInv, TaskAccounted
  <2>4. completed \subseteq 1..submitted
    BY DEF IInv, TaskAccounted
  <2> QED
    BY <2>3, <2>4
<1> QED
  BY <1>1, Inductive, PTL

-----------------------------------------------------------------------------
(* Before quit_ is set, at most one thread that has left is not collected, *)
(* and while a worker collects, one place below the maximum is free.       *)
OneUncollected ==
  /\ ~quit => /\ Len(finishedThreadIDs) <= 1
              /\ \A t \in Threads : pc[t] \in {"exiting", "done"}
                                      => finishedThreadIDs # <<>> /\ finishedThreadIDs[1] = t
  /\ mutex # NoThread => currentThreads < MaxThreads

(* Tasks are handed out in the order of their numbers, to one worker, and  *)
(* a task that is running has not run before.                              *)
HandedOnce ==
  /\ \A i \in DOMAIN tasks : tasks[i] = submitted - Len(tasks) + i
  /\ \A t \in Threads : pc[t] = "running" => task[t] <= submitted - Len(tasks)
  /\ \A s, t \in Threads : pc[s] = "running" /\ pc[t] = "running" /\ task[s] = task[t] => s = t
  /\ \A k \in completed : k <= submitted - Len(tasks)
  /\ \A t \in Threads : pc[t] = "running" => task[t] \notin completed

(* Both hold initially: nobody has left and nothing was handed out.        *)
LEMMA InitMore == Init => OneUncollected /\ HandedOnce
  BY DEF Init, OneUncollected, HandedOnce

(* Only WorkerFinish adds a thread that has left, and only when            *)
(* joinFinishedThreads has collected the one before.                       *)
LEMMA NextUncollected == IInv /\ OneUncollected /\ [Next]_vars => OneUncollected'
<1> SUFFICES ASSUME IInv, OneUncollected, [Next]_vars PROVE OneUncollected'
  OBVIOUS
<1> USE PoolAssumption DEF OneUncollected
<1>0. TypeOK /\ MutexOwner /\ QuitPhase /\ JoinableKeys
  BY DEF IInv
<1>1. CASE submit
  <2>1. /\ mutex = NoThread /\ ~quit
        /\ UNCHANGED <<mutex, quit, finishedThreadIDs>>
    BY <1>1 DEF submit, PushTask
  <2>2. \A t \in Threads : pc'[t] = pc[t] \/ pc'[t] \in {"ready", "notified"}
    BY <1>0, <1>1 DEF submit, NotifyOne, SpawnWorker, In, TypeOK
  <2> QED
    BY <2>1, <2>2
<1>2. CASE \E t \in Threads : Worker(t) \/ WaitReturns(t)
  <2> SUFFICES ASSUME NEW t \in Threads, Worker(t) \/ WaitReturns(t) PROVE OneUncollected'
    BY <1>2
  <2>1. CASE WorkerEnter(t) \/ WorkerWake(t)
    BY <1>0, <2>1 DEF WorkerEnter, WorkerWake, PopTask, QuitWorker, TypeOK
  <2>2. CASE WorkerPark(t) \/ WorkerSleepAgain(t) \/ WaitReturns(t)
    BY <1>0, <2>2 DEF WorkerPark, WorkerSleepAgain, WaitReturns, TypeOK
  <2>3. CASE WorkerLeave(t)
    BY <1>0, <2>3 DEF WorkerLeave, TypeOK
  <2>4. CASE joinFinishedThreads(t)
    <3>1. /\ finishedThreadIDs # <<>> /\ finishedThreadIDs' = Tail(finishedThreadIDs)
          /\ pc' = [pc EXCEPT ![finishedThreadIDs[1]] = "none"]
          /\ UNCHANGED <<mutex, quit, currentThreads>>
      BY <1>0, <2>4 DEF joinFinishedThreads, TypeOK
    <3>2. Len(finishedThreadIDs') = Len(finishedThreadIDs) - 1 /\ Len(finishedThreadIDs) \in Nat
      BY <1>0, <3>1 DEF TypeOK
    <3>3. finishedThreadIDs[1] \in Threads
      BY <1>0, <3>1 DEF TypeOK
    <3>4. ~quit => \A u \in Threads : pc'[u] \notin {"exiting", "done"}
      BY <1>0, <3>1, <3>3 DEF TypeOK
    <3> QED
      BY <3>1, <3>2, <3>4
  <2>5. CASE WorkerFinish(t)
    <3>1. /\ finishedThreadIDs = <<>> /\ finishedThreadIDs' = <<t>>
          /\ pc' = [pc EXCEPT ![t] = "exiting"]
          /\ mutex' = NoThread /\ quit' = quit
      BY <1>0, <2>5 DEF WorkerFinish, TypeOK
    <3> QED
      BY <1>0, <3>1 DEF TypeOK
  <2>6. CASE RunTask(t)
    BY <1>0, <2>6 DEF RunTask, TypeOK
  <2>7. CASE ThreadExit(t)
    BY <1>0, <2>7 DEF ThreadExit, TypeOK
  <2> QED
    BY <2>1, <2>2, <2>3, <2>4, <2>5, <2>6, <2>7 DEF Worker
<1>3. CASE Destructor
  BY <1>0, <1>3 DEF Destructor, SetQuit, NotifyAll, JoinAll, QuitPhase
<1>4. CASE UNCHANGED vars
  BY <1>4 DEF vars
<1> QED
  BY <1>1, <1>2, <1>3, <1>4 DEF Next

(* Every key is a worker that counts, the one that holds the mutex to      *)
(* leave, or the one that has left.                                        *)
LEMMA MapSize == IInv /\ OneUncollected => ThreadMapBound
<1> SUFFICES ASSUME IInv, OneUncollected, ~quit PROVE Cardinality(threads) <= MaxThreads + 1
  BY DEF ThreadMapBound
<1> DEFINE A == Members(pc, Alive)
<1>0. TypeOK /\ MutexOwner /\ JoinableKeys /\ CountersExact
  BY DEF IInv
<1>1. /\ IsFiniteSet(A) /\ Cardinality(A) = currentThreads
      /\ currentThreads \in 0..MaxThreads /\ MaxThreads \in Nat
  BY <1>0, MembersFinite, PoolAssumption DEF CountersExact, In, Members, TypeOK
<1>2. \A S, x : IsFiniteSet(S) => /\ IsFiniteSet(S \union {x})
                                  /\ Cardinality(S) \in Nat
                                  /\ Cardinality(S \union {x}) <= Cardinality(S) + 1
  <2> SUFFICES ASSUME NEW S, NEW x, IsFiniteSet(S)
               PROVE  /\ IsFiniteSet(S \union {x})
                      /\ Cardinality(S) \in Nat
                      /\ Cardinality(S \union {x}) <= Cardinality(S) + 1
    OBVIOUS
  <2>1. Cardinality(S) \in Nat
    BY FS_CardinalityType
  <2>2. CASE x \in S
    <3>1. S \union {x} = S
      BY <2>2
    <3>2. IsFiniteSet(S \union {x}) /\ Cardinality(S \union {x}) = Cardinality(S)
      BY <3>1, Zenon
    <3> QED
      BY <2>1, <3>2
  <2>3. CASE x \notin S
    BY <2>1, <2>3, FS_AddElement
  <2> QED
    BY <2>2, <2>3
<1>3. \A t \in threads : \/ t \in A
                         \/ t = mutex /\ mutex # NoThread
                         \/ t = finishedThreadIDs[1]
  BY <1>0, PoolAssumption DEF OneUncollected, JoinableKeys, MutexOwner, TypeOK, PCs, Members
<1> DEFINE B == A \union {finishedThreadIDs[1]}
<1>4. IsFiniteSet(B) /\ Cardinality(B) \in Nat /\ Cardinality(B) <= currentThreads + 1
  <2>1. IsFiniteSet(B) /\ Cardinality(B) <= currentThreads + 1
    BY <1>1, <1>2
  <2> QED
    BY <2>1, FS_CardinalityType
<1> HIDE DEF A
<1>5. CASE mutex = NoThread
  <2>1. threads \subseteq B
    BY <1>3, <1>5
  <2>2. Cardinality(threads) <= Cardinality(B) /\ Cardinality(threads) \in Nat
    BY <1>4, <2>1, FS_Subset, FS_CardinalityType
  <2> QED
    BY <1>1, <1>4, <2>2
<1>6. CASE mutex # NoThread
  <2>1. threads \subseteq B \union {mutex}
    BY <1>3
  <2>2. IsFiniteSet(B \union {mutex}) /\ Cardinality(B \union {mutex}) <= Cardinality(B) + 1
    BY <1>2, <1>4
  <2>3. Cardinality(threads) <= Cardinality(B \union {mutex})
        /\ Cardinality(threads) \in Nat /\ Cardinality(B \union {mutex}) \in Nat
    BY <2>1, <2>2, FS_Subset, FS_CardinalityType
  <2>4. currentThreads < MaxThreads
    BY <1>6 DEF OneUncollected
  <2> QED
    BY <1>1, <1>4, <2>2, <2>3, <2>4
<1> QED
  BY <1>5, <1>6

(* Task numbers enter the queue in order and leave it at the head.         *)
LEMMA NextHanded == IInv /\ HandedOnce /\ [Next]_vars => HandedOnce'
<1> SUFFICES ASSUME IInv, HandedOnce, [Next]_vars PROVE HandedOnce'
  OBVIOUS
<1>0. TypeOK /\ QuitPhase /\ TaskAccounted
  BY DEF IInv
<1>1. /\ tasks \in Seq(Nat) /\ submitted \in Nat /\ task \in [Threads -> Nat]
      /\ Len(tasks) \in Nat /\ completed \subseteq Nat
  BY <1>0, PoolAssumption DEF TypeOK
<1>2. CASE submit
  <2>1. /\ submitted' = submitted + 1 /\ tasks' = Append(tasks, submitted + 1)
        /\ UNCHANGED <<task, completed>>
    BY <1>2 DEF submit, PushTask
  <2>2. \A t \in Threads : pc'[t] = "running" => pc[t] = "running"
    BY <1>0, <1>2 DEF submit, NotifyOne, SpawnWorker, In, TypeOK
  <2>3. /\ Len(tasks') = Len(tasks) + 1
        /\ \A i \in DOMAIN tasks' : \/ i \in DOMAIN tasks /\ tasks'[i] = tasks[i]
                                    \/ i = Len(tasks) + 1 /\ tasks'[i] = submitted + 1
    BY <1>1, <2>1
  <2>4. \A i \in DOMAIN tasks' : tasks'[i] = submitted' - Len(tasks') + i
    BY <1>1, <2>1, <2>3 DEF HandedOnce
  <2>5. submitted' - Len(tasks') = submitted - Len(tasks)
    BY <1>1, <2>1, <2>3
  <2> QED
    BY <2>1, <2>2, <2>4, <2>5 DEF HandedOnce
<1>3. ASSUME NEW t \in Threads, PopTask(t), pc[t] # "running",
             UNCHANGED <<submitted, completed>>
      PROVE  HandedOnce'
  <2>1. /\ tasks # <<>> /\ tasks' = Tail(tasks) /\ UNCHANGED <<submitted, completed>>
        /\ task' = [task EXCEPT ![t] = Head(tasks)] /\ pc' = [pc EXCEPT ![t] = "running"]
    BY <1>3 DEF PopTask
  <2>2. Len(tasks') = Len(tasks) - 1 /\ 1 \in DOMAIN tasks /\ Head(tasks) = tasks[1]
    BY <1>1, <2>1
  <2>3. \A i \in DOMAIN tasks' : i \in Nat /\ i + 1 \in DOMAIN tasks /\ tasks'[i] = tasks[i + 1]
    BY <1>1, <2>1, TailIndex
  <2>4. \A i \in DOMAIN tasks' : tasks'[i] = submitted' - Len(tasks') + i
    BY <1>1, <2>1, <2>2, <2>3 DEF HandedOnce
  <2>5. Head(tasks) = submitted - Len(tasks) + 1
    BY <1>1, <2>2 DEF HandedOnce
  <2>6. pc'[t] = "running" /\ task'[t] = submitted - Len(tasks')
    BY <1>0, <1>1, <2>1, <2>2, <2>5 DEF TypeOK
  <2>7. \A u \in Threads \ {t} : pc'[u] = pc[u] /\ task'[u] = task[u]
    BY <1>0, <2>1 DEF TypeOK
  <2>8. \A u \in Threads \ {t} : pc'[u] = "running" => task'[u] < submitted - Len(tasks')
    BY <1>1, <2>2, <2>7 DEF HandedOnce
  <2>9. \A u \in Threads : pc'[u] = "running" => task'[u] <= submitted' - Len(tasks')
    BY <1>1, <2>1, <2>2, <2>6, <2>7, <2>8
  <2>10. \A u, v \in Threads : pc'[u] = "running" /\ pc'[v] = "running" /\ task'[u] = task'[v] => u = v
    <3>0. submitted - Len(tasks') \in Int
      BY <1>1, <2>2
    <3>1. ASSUME NEW u \in Threads \ {t}, pc'[u] = "running" PROVE task'[u] # task'[t]
      BY <2>6, <2>8, <3>0, <3>1
    <3>2. ASSUME NEW u \in Threads \ {t}, NEW v \in Threads \ {t},
                 pc'[u] = "running", pc'[v] = "running", task'[u] = task'[v]
          PROVE  u = v
      BY <1>1, <2>7, <3>2 DEF HandedOnce
    <3> QED
      BY <3>1, <3>2
  <2>11. \A k \in completed : k < submitted - Len(tasks')
    BY <1>1, <2>2 DEF HandedOnce
  <2>12. /\ \A k \in completed' : k <= submitted' - Len(tasks')
         /\ \A u \in Threads : pc'[u] = "running" => task'[u] \notin completed'
    BY <1>1, <2>1, <2>2, <2>6, <2>7, <2>11 DEF HandedOnce
  <2> QED
    BY <2>4, <2>9, <2>10, <2>12 DEF HandedOnce
<1>4. ASSUME /\ UNCHANGED <<tasks, submitted, completed>>
             /\ \A t \in Threads : pc'[t] = "running" => pc[t] = "running" /\ task'[t] = task[t]
      PROVE  HandedOnce'
  BY <1>4 DEF HandedOnce
<1>5. CASE \E t \in Threads : Worker(t) \/ WaitReturns(t)
  <2> SUFFICES ASSUME NEW t \in Threads, Worker(t) \/ WaitReturns(t) PROVE HandedOnce'
    BY <1>5
  <2>1. CASE (WorkerEnter(t) \/ WorkerWake(t)) /\ PopTask(t)
    BY <1>3, <2>1 DEF WorkerEnter, WorkerWake
  <2>2. CASE (WorkerEnter(t) \/ WorkerWake(t)) /\ QuitWorker(t)
    BY <1>0, <1>4, <2>2 DEF WorkerEnter, WorkerWake, QuitWorker, TypeOK
  <2>3. CASE WorkerPark(t) \/ WorkerSleepAgain(t) \/ WaitReturns(t) \/ WorkerLeave(t)
    BY <1>0, <1>4, <2>3 DEF WorkerPark, WorkerSleepAgain, WaitReturns, WorkerLeave, TypeOK
  <2>4. CASE joinFinishedThreads(t) \/ WorkerFinish(t) \/ ThreadExit(t)
    BY <1>0, <1>4, <2>4 DEF joinFinishedThreads, WorkerFinish, ThreadExit, TypeOK
  <2>5. CASE RunTask(t)
    <3>1. /\ pc[t] = "running" /\ completed' = completed \union {task[t]}
          /\ UNCHANGED <<tasks, submitted>>
      BY <2>5 DEF RunTask
    <3>2. pc'[t] # "running" /\ \A u \in Threads \ {t} : pc'[u] = pc[u] /\ task'[u] = task[u]
      BY <1>0, <2>5 DEF RunTask, TypeOK
    <3> QED
      BY <3>1, <3>2 DEF HandedOnce
  <2> QED
    BY <2>1, <2>2, <2>3, <2>4, <2>5 DEF Worker, WorkerEnter, WorkerWake
<1>6. CASE Destructor
  BY <1>0, <1>4, <1>6 DEF Destructor, SetQuit, NotifyAll, JoinAll
<1>7. CASE UNCHANGED vars
  BY <1>7 DEF vars, HandedOnce
<1> QED
  BY <1>2, <1>5, <1>6, <1>7 DEF Next

(* threads_ never holds more than one thread beyond maxThreads_ until the  *)
(* destructor runs.                                                        *)
THEOREM MapBoundCorrect == Spec => []ThreadMapBound
<1>1. Spec => [](IInv /\ OneUncollected)
  <2>1. Init => IInv /\ OneUncollected
    BY InitIInv, InitMore
  <2>2. IInv /\ OneUncollected /\ [Next]_vars => (IInv /\ OneUncollected)'
    BY NextIInv, NextUncollected
  <2> QED
    BY <2>1, <2>2, PTL DEF Spec
<1> QED
  BY <1>1, MapSize, PTL

(* The refinement mapping of Executor.                                     *)
Active == {task[t] : t \in In({"running"})}
Phase == IF dtor = "returned" THEN "closed" ELSE IF quit THEN "closing" ELSE "open"

(* Fewer than MaxThreads tasks run when a worker takes one.                *)
LEMMA RoomToStart ==
  ASSUME IInv, NEW t \in Threads, pc[t] \in Alive \ {"running"}
  PROVE  Cardinality(Active) < MaxThreads
<1> DEFINE R == Members(pc, {"running"})
           A == Members(pc, Alive)
<1>0. TypeOK /\ CountersExact
  BY DEF IInv
<1>1. /\ IsFiniteSet(A) /\ Cardinality(A) = currentThreads
      /\ currentThreads \in 0..MaxThreads /\ MaxThreads \in Nat
  BY <1>0, MembersFinite, PoolAssumption DEF CountersExact, In, Members, TypeOK
<1>2. t \in A /\ R \subseteq A \ {t}
  BY DEF Members, Alive
<1>3. IsFiniteSet(A \ {t}) /\ Cardinality(A \ {t}) = Cardinality(A) - 1
  BY <1>1, <1>2, FS_RemoveElement
<1>4. IsFiniteSet(R) /\ Cardinality(R) <= Cardinality(A \ {t}) /\ Cardinality(R) \in Nat
  BY <1>2, <1>3, FS_Subset, FS_CardinalityType
<1>5. Active = {task[u] : u \in R}
  BY DEF Active, In, Members
<1>6. IsFiniteSet(Active) /\ Cardinality(Active) <= Cardinality(R)
  <2>1. [u \in R |-> task[u]] \in Surjection(R, Active)
    BY <1>5 DEF Surjection
  <2> QED
    BY <1>4, <2>1, FS_Surjection
<1>7. Cardinality(Active) \in Nat
  BY <1>6, FS_CardinalityType
<1> QED
  BY <1>1, <1>3, <1>4, <1>6, <1>7

(* A step in which no worker starts or ends a task leaves the same tasks   *)
(* running.                                                                *)
LEMMA ActiveKept ==
  ASSUME \A t \in Threads : /\ pc'[t] = "running" <=> pc[t] = "running"
                            /\ pc[t] = "running" => task'[t] = task[t]
  PROVE  Active' = Active
  BY DEF Active, In

(* The executor counts as the pool does.                                   *)
LEMMA SameCardinality == \A S : Executor!Cardinality(S) = Cardinality(S)
  BY DEF Executor!Cardinality, Cardinality

(* The initial states are those of the executor.                           *)
LEMMA InitExecutor == Init => Executor!Init
  BY DEF Init, Executor!Init, In

(* submit() is Submit, taking a task is Start, running it is Finish, quit_ *)
(* is Close, the end of the destructor is Closed; every other step is      *)
(* invisible to the client.                                                *)
LEMMA NextExecutor ==
  ASSUME IInv, IInv', HandedOnce, [Next]_vars
  PROVE  [Executor!Next]_(Executor!execVars)
<1>0. TypeOK /\ QuitPhase /\ TaskAccounted
  BY DEF IInv
<1>1. CASE submit
  <2>1. Active' = Active
    <3>1. \A t \in Threads : (pc'[t] = "running" <=> pc[t] = "running") /\ task'[t] = task[t]
      BY <1>0, <1>1 DEF submit, NotifyOne, SpawnWorker, In, TypeOK
    <3> QED
      BY <3>1, ActiveKept
  <2>2. Phase = "open" /\ Phase' = Phase
    BY <1>0, <1>1 DEF submit, PushTask, Phase, QuitPhase
  <2>3. Executor!Submit
    BY <1>1, <2>1, <2>2 DEF submit, PushTask, Executor!Submit, Active, Phase
  <2> QED
    BY <2>3 DEF Executor!Next
<1>2. ASSUME /\ UNCHANGED <<submitted, tasks, completed, quit, dtor>>
             /\ \A t \in Threads : /\ pc'[t] = "running" <=> pc[t] = "running"
                                   /\ pc[t] = "running" => task'[t] = task[t]
      PROVE  UNCHANGED Executor!execVars
  <2>1. Active' = Active
    BY <1>2, ActiveKept
  <2>2. Phase' = Phase
    BY <1>2 DEF Phase
  <2> QED
    BY <1>2, <2>1, <2>2 DEF Executor!execVars, Active, Phase
<1>3. ASSUME NEW t \in Threads, (WorkerEnter(t) \/ WorkerWake(t)) /\ PopTask(t)
      PROVE  Executor!Next
  <2>1. /\ tasks # <<>> /\ tasks' = Tail(tasks)
        /\ task' = [task EXCEPT ![t] = Head(tasks)] /\ pc' = [pc EXCEPT ![t] = "running"]
        /\ UNCHANGED <<submitted, completed, quit, dtor>>
        /\ pc[t] \in Alive \ {"running"}
    BY <1>3 DEF WorkerEnter, WorkerWake, PopTask, Alive, Idle
  <2>2. Active' = Active \union {Head(tasks)}
    BY <1>0, <2>1 DEF Active, In, TypeOK
  <2>3. Executor!Cardinality(Active) < MaxThreads
    BY <2>1, RoomToStart, SameCardinality
  <2>4. Phase' = Phase
    BY <2>1 DEF Phase
  <2>5. Executor!Start
    BY <2>1, <2>2, <2>3, <2>4 DEF Executor!Start, Active, Phase
  <2> QED
    BY <2>5 DEF Executor!Next
<1>4. ASSUME NEW t \in Threads, RunTask(t)
      PROVE  Executor!Next
  <2>1. /\ pc[t] = "running" /\ pc' = [pc EXCEPT ![t] = "ready"]
        /\ task' = [task EXCEPT ![t] = 0] /\ completed' = completed \union {task[t]}
        /\ UNCHANGED <<submitted, tasks, quit, dtor>>
    BY <1>4 DEF RunTask
  <2>2. task[t] \in 1..MaxTasks
    BY <1>0, <2>1, PoolAssumption DEF TypeOK, TaskAccounted
  <2>3. task[t] \in Active /\ Active' = Active \ {task[t]}
    <3>1. \A u \in Threads \ {t} : pc'[u] = pc[u] /\ task'[u] = task[u]
      BY <1>0, <2>1 DEF TypeOK
    <3>2. pc'[t] # "running"
      BY <1>0, <2>1 DEF TypeOK
    <3>3. \A u \in Threads \ {t} : pc[u] = "running" => task[u] # task[t]
      BY <2>1 DEF HandedOnce
    <3> QED
      BY <2>1, <3>1, <3>2, <3>3 DEF Active, In
  <2>4. Phase' = Phase
    BY <2>1 DEF Phase
  <2>5. ASSUME NEW k \in 1..MaxTasks, k = task[t]
        PROVE  Executor!Finish(k)
    BY <2>1, <2>3, <2>4, <2>5 DEF Executor!Finish, Active, Phase
  <2> QED
    BY <2>2, <2>5 DEF Executor!Next
<1>5. CASE \E t \in Threads : Worker(t) \/ WaitReturns(t)
  <2> SUFFICES ASSUME NEW t \in Threads, Worker(t) \/ WaitReturns(t)
               PROVE  Executor!Next \/ UNCHANGED Executor!execVars
    BY <1>5
  <2>1. CASE (WorkerEnter(t) \/ WorkerWake(t)) /\ PopTask(t)
    BY <1>3, <2>1
  <2>2. CASE (WorkerEnter(t) \/ WorkerWake(t)) /\ QuitWorker(t)
    BY <1>0, <1>2, <2>2 DEF WorkerEnter, WorkerWake, QuitWorker, TypeOK
  <2>3. CASE WorkerPark(t) \/ WorkerSleepAgain(t) \/ WaitReturns(t) \/ WorkerLeave(t)
    BY <1>0, <1>2, <2>3 DEF WorkerPark, WorkerSleepAgain, WaitReturns, WorkerLeave, TypeOK
  <2>4. CASE joinFinishedThreads(t) \/ WorkerFinish(t) \/ ThreadExit(t)
    BY <1>0, <1>2, <2>4 DEF joinFinishedThreads, WorkerFinish, ThreadExit, TypeOK
  <2>5. CASE RunTask(t)
    BY <1>4, <2>5
  <2> QED
    BY <2>1, <2>2, <2>3, <2>4, <2>5 DEF Worker, WorkerEnter, WorkerWake
<1>6. CASE SetQuit
  <2>1. Phase = "open" /\ Phase' = "closing"
    BY <1>0, <1>6 DEF SetQuit, Phase, QuitPhase
  <2>2. Active' = Active
    BY <1>6 DEF SetQuit, Active, In
  <2>3. Executor!Close
    BY <1>6, <2>1, <2>2 DEF SetQuit, Executor!Close, Active, Phase
  <2> QED
    BY <2>3 DEF Executor!Next
<1>7. CASE NotifyAll
  <2>1. \A t \in Threads : (pc'[t] = "running" <=> pc[t] = "running") /\ task'[t] = task[t]
    BY <1>7 DEF NotifyAll
  <2>2. Active' = Active
    BY <2>1, ActiveKept
  <2>3. Phase' = Phase
    BY <1>0, <1>7 DEF NotifyAll, Phase, QuitPhase
  <2> QED
    BY <1>7, <2>2, <2>3 DEF NotifyAll, Executor!execVars, Active, Phase
<1>8. CASE JoinAll
  <2>1. Phase = "closing" /\ Phase' = "closed"
    BY <1>0, <1>8 DEF JoinAll, Phase, QuitPhase
  <2>2. \A t \in Threads : pc[t] # "running" /\ pc'[t] # "running"
    BY <1>8 DEF JoinAll, IInv, JoinableKeys
  <2>3. Active = {} /\ Active' = {}
    BY <2>2 DEF Active, In
  <2>4. tasks = <<>>
    BY <1>8 DEF IInv, QuitPhase, JoinAll
  <2>5. Executor!Closed
    BY <1>8, <2>1, <2>3, <2>4 DEF JoinAll, Executor!Closed, Active, Phase
  <2> QED
    BY <2>5 DEF Executor!Next
<1>9. CASE UNCHANGED vars
  BY <1>2, <1>9 DEF vars
<1> QED
  BY <1>1, <1>5, <1>6, <1>7, <1>8, <1>9 DEF Next, Destructor

(* The pool implements the executor: tasks start in the order they were    *)
(* submitted, each once, at most maxThreads_ at a time, and the pool goes  *)
(* only when all have run.                                                 *)
THEOREM ExecutorCorrect == Spec => ImplementsExecutor
<1>1. Spec => [](IInv /\ HandedOnce)
  <2>1. Init => IInv /\ HandedOnce
    BY InitIInv, InitMore
  <2>2. IInv /\ HandedOnce /\ [Next]_vars => (IInv /\ HandedOnce)'
    BY NextIInv, NextHanded
  <2> QED
    BY <2>1, <2>2, PTL DEF Spec
<1>2. IInv /\ IInv' /\ HandedOnce /\ [Next]_vars => [Executor!Next]_(Executor!execVars)
  BY NextExecutor
<1> QED
  BY <1>1, <1>2, InitExecutor, PTL DEF Spec, ImplementsExecutor, Executor!Spec
=============================================================================
