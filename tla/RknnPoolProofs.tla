--------------------------- MODULE RknnPoolProofs ---------------------------
(***************************************************************************)
(* Proofs about RknnPool for every number of models, tasks and frames. A   *)
(* step of the composition is a step of the pool or leaves it alone, so    *)
(* the invariants of ThreadPoolProofs hold here too. What the client adds  *)
(* is that it waits for the result of a task before it submits the next,   *)
(* and that is all that keeps two tasks off one model.                     *)
(***************************************************************************)
EXTENDS RknnPool, ThreadPoolProofs

ClientTypeOK ==
  /\ modelId \in 0..(threadNum - 1)
  /\ modelOf \in [1..MaxTasks -> 0..(threadNum - 1)]
  /\ objects \in 0..MaxTasks
  /\ cpc \in {"getframe", "put", "get", "drain", "returned"}
  /\ loopCount \in 0..(PutEvery - 1)
  /\ frames \in 0..ViDepth
  /\ videoRun \in BOOLEAN

(* At most the last task is outstanding, and only until the next get().    *)
OneOutstanding ==
  \/ /\ futs = <<>>
     /\ objects = submitted
     /\ \A k \in 1..submitted : k \in completed
  \/ /\ futs = <<submitted>>
     /\ cpc = "get"
     /\ submitted > 0
     /\ \A k \in 1..(submitted - 1) : k \in completed

PoolInv == IInv /\ HandedOnce
ClientInv == ClientTypeOK /\ OneOutstanding
-----------------------------------------------------------------------------
(* The composition starts with an idle pool and a client without futures.  *)
LEMMA InitClient == RknnInit => PoolInv /\ ClientInv
<1> SUFFICES ASSUME RknnInit PROVE PoolInv /\ ClientInv
  OBVIOUS
<1>1. PoolInv
  BY InitIInv, InitMore DEF RknnInit, PoolInv
<1>2. ClientTypeOK
  BY PoolAssumption, RknnAssumption DEF RknnInit, ClientTypeOK, threadNum
<1>3. OneOutstanding
  BY DEF RknnInit, Init, OneOutstanding
<1> QED
  BY <1>1, <1>2, <1>3 DEF ClientInv

(* A step of the composition is a step of the pool or leaves it alone.     *)
LEMMA PoolStep == [RknnNext]_rknnVars => [Next]_vars
<1> SUFFICES ASSUME [RknnNext]_rknnVars PROVE [Next]_vars
  OBVIOUS
<1>1. CASE StopVideo \/ GetChnFrame \/ LeaveLoop \/ get
  BY <1>1 DEF StopVideo, GetChnFrame, LeaveLoop, get
<1>2. CASE put
  BY <1>2 DEF put, Next
<1>3. CASE DestroyPool
  BY <1>3 DEF DestroyPool, Next
<1>4. CASE \E t \in Threads : RknnWorker(t) \/ WaitReturns(t)
  BY <1>4 DEF RknnWorker, Next
<1>5. CASE UNCHANGED rknnVars
  BY <1>5 DEF rknnVars
<1> QED
  BY <1>1, <1>2, <1>3, <1>4, <1>5 DEF RknnNext, Client

(* The client never touches a task, and the pool only completes them.      *)
LEMMA WorkersKeepClient ==
  ASSUME PoolInv, ClientInv, NEW t \in Threads, Worker(t) \/ WaitReturns(t),
         UNCHANGED clientVars
  PROVE  ClientInv'
<1>1. submitted' = submitted /\ completed \subseteq completed'
  BY DEF Worker, WaitReturns, WorkerEnter, WorkerPark, WorkerWake, WorkerSleepAgain, WorkerLeave,
         joinFinishedThreads, WorkerFinish, RunTask, ThreadExit
<1>2. ClientTypeOK'
  BY DEF ClientInv, ClientTypeOK, clientVars
<1>3. OneOutstanding'
  BY <1>1 DEF ClientInv, OneOutstanding, clientVars
<1> QED
  BY <1>2, <1>3 DEF ClientInv

(* put() and get() alternate as far as futs is concerned.                  *)
LEMMA NextClient == PoolInv /\ ClientInv /\ [RknnNext]_rknnVars => ClientInv'
<1> SUFFICES ASSUME PoolInv, ClientInv, [RknnNext]_rknnVars PROVE ClientInv'
  OBVIOUS
<1> USE PoolAssumption, RknnAssumption
<1>0. ClientTypeOK /\ OneOutstanding /\ TypeOK /\ completed \subseteq 1..submitted
  BY DEF ClientInv, PoolInv, IInv, TaskAccounted
<1>1. CASE StopVideo
  BY <1>0, <1>1 DEF StopVideo, ClientInv, ClientTypeOK, OneOutstanding, vars
<1>2. CASE GetChnFrame
  BY <1>0, <1>2 DEF GetChnFrame, ClientInv, ClientTypeOK, OneOutstanding, vars
<1>3. CASE LeaveLoop
  BY <1>0, <1>3 DEF LeaveLoop, ClientInv, ClientTypeOK, OneOutstanding, vars
<1>4. CASE put
  <2>1. /\ cpc = "put" /\ submitted < MaxTasks /\ submitted' = submitted + 1
        /\ completed' = completed /\ cpc' = "get"
        /\ modelOf' = [modelOf EXCEPT ![submitted + 1] = modelId]
        /\ modelId' = (modelId + 1) % threadNum
        /\ futs' = Append(futs, submitted + 1)
        /\ UNCHANGED <<objects, loopCount, frames, videoRun>>
    BY <1>4 DEF put, submit, PushTask, getModelId
  <2>2. futs = <<>> /\ futs' = <<submitted'>>
    BY <1>0, <2>1 DEF OneOutstanding
  <2>3. OneOutstanding'
    BY <1>0, <2>1, <2>2 DEF OneOutstanding, TypeOK
  <2>4. modelId' \in 0..(threadNum - 1)
    BY <1>0, <2>1 DEF ClientTypeOK, threadNum
  <2>5. ClientTypeOK'
    BY <1>0, <2>1, <2>4 DEF ClientTypeOK, TypeOK
  <2> QED
    BY <2>3, <2>5 DEF ClientInv
<1>5. CASE get
  <2>1. /\ cpc = "get" /\ cpc' = "getframe" /\ loopCount' = (loopCount + 1) % PutEvery
        /\ UNCHANGED <<submitted, completed, modelId, modelOf, frames, videoRun>>
    BY <1>5 DEF get, NextIteration, vars
  <2>2. futs' = <<>> /\ objects' = submitted /\ \A k \in 1..submitted : k \in completed
    <3>1. CASE futs = <<>>
      BY <1>0, <1>5, <3>1 DEF get, OneOutstanding
    <3>2. CASE futs # <<>>
      <4>1. futs = <<submitted>> /\ \A k \in 1..(submitted - 1) : k \in completed
        BY <1>0, <3>2 DEF OneOutstanding
      <4>2. submitted \in completed /\ objects' = submitted /\ futs' = <<>>
        BY <1>5, <3>2, <4>1 DEF get
      <4>3. \A k \in 1..submitted : k = submitted \/ k \in 1..(submitted - 1)
        BY <1>0 DEF TypeOK
      <4> QED
        BY <4>1, <4>2, <4>3
    <3> QED
      BY <3>1, <3>2
  <2>3. OneOutstanding'
    BY <2>1, <2>2 DEF OneOutstanding
  <2>4. loopCount' \in 0..(PutEvery - 1)
    BY <1>0, <2>1 DEF ClientTypeOK
  <2>5. ClientTypeOK'
    BY <1>0, <2>1, <2>2, <2>4 DEF ClientTypeOK, TypeOK
  <2> QED
    BY <2>3, <2>5 DEF ClientInv
<1>6. CASE DestroyPool
  <2>1. futs = <<>>
    BY <1>0, <1>6 DEF DestroyPool, OneOutstanding
  <2>2. /\ Destructor /\ cpc' \in {"returned", "drain"}
        /\ UNCHANGED <<futs, modelId, modelOf, objects, loopCount, frames, videoRun>>
    BY <1>6, <2>1 DEF DestroyPool
  <2>3. UNCHANGED <<submitted, completed>>
    BY <2>2 DEF Destructor, SetQuit, NotifyAll, JoinAll
  <2>4. OneOutstanding'
    BY <1>0, <2>1, <2>2, <2>3 DEF OneOutstanding
  <2>5. ClientTypeOK'
    BY <1>0, <2>2 DEF ClientTypeOK
  <2> QED
    BY <2>4, <2>5 DEF ClientInv
<1>7. CASE \E t \in Threads : (Worker(t) \/ WaitReturns(t)) /\ UNCHANGED clientVars
  BY <1>7, WorkersKeepClient
<1>8. CASE UNCHANGED rknnVars
  BY <1>0, <1>8 DEF rknnVars, vars, clientVars, ClientInv, ClientTypeOK, OneOutstanding
<1> QED
  BY <1>1, <1>2, <1>3, <1>4, <1>5, <1>6, <1>7, <1>8 DEF RknnNext, RknnWorker, Client

-----------------------------------------------------------------------------
(* The invariant of the composition: that of the pool, and that at most    *)
(* the last task is outstanding.                                           *)
THEOREM RknnInductive == RknnSpec => [](PoolInv /\ ClientInv)
<1>1. PoolInv /\ [Next]_vars => PoolInv'
  BY NextIInv, NextHanded DEF PoolInv
<1>2. PoolInv /\ ClientInv /\ [RknnNext]_rknnVars => (PoolInv /\ ClientInv)'
  BY <1>1, PoolStep, NextClient
<1> QED
  BY <1>2, InitClient, PTL DEF RknnSpec

(* The members of rknnPool and the variables of yolo26_inference keep      *)
(* their types: in particular id % threadNum names a model.                *)
THEOREM RknnTypeCorrect == RknnSpec => []RknnTypeOK
<1>1. PoolInv /\ ClientInv => RknnTypeOK
  <2> SUFFICES ASSUME PoolInv, ClientInv PROVE RknnTypeOK
    OBVIOUS
  <2>1. TypeOK /\ ClientTypeOK /\ OneOutstanding
    BY DEF PoolInv, IInv, ClientInv
  <2>2. futs \in Seq(1..MaxTasks)
    <3>1. CASE futs = <<>>
      BY <3>1
    <3>2. CASE futs = <<submitted>> /\ submitted > 0
      <4>1. submitted \in 1..MaxTasks
        BY <2>1, <3>2 DEF TypeOK
      <4> QED
        BY <3>2, <4>1
    <3> QED
      BY <2>1, <3>1, <3>2 DEF OneOutstanding
  <2> QED
    BY <2>1, <2>2 DEF RknnTypeOK, ClientTypeOK
<1> QED
  BY <1>1, RknnInductive, PTL

(* No two workers are in Yolo26::Run on the same model: a running task has *)
(* not completed, so it is the last one, and one worker has it.            *)
THEOREM ModelsCorrect == RknnSpec => []ModelExclusive
<1>1. PoolInv /\ ClientInv => ModelExclusive
  <2> SUFFICES ASSUME PoolInv, ClientInv,
                      NEW s \in In({"running"}), NEW t \in In({"running"})
               PROVE  s = t
    BY DEF ModelExclusive
  <2>1. \A u \in Threads : pc[u] = "running" => task[u] \in 1..submitted \ completed
    BY DEF PoolInv, IInv, TaskAccounted, HandedOnce
  <2>2. \A u \in Threads : pc[u] = "running" => task[u] = submitted
    BY <2>1 DEF ClientInv, OneOutstanding, PoolInv, IInv, TypeOK
  <2> QED
    BY <2>2 DEF PoolInv, HandedOnce, In
<1> QED
  BY <1>1, RknnInductive, PTL

(* The detections that are drawn when get() has nothing new are those of   *)
(* the last frame that was submitted.                                      *)
THEOREM OverlayCorrect == RknnSpec => []OverlayFresh
<1>1. PoolInv /\ ClientInv => OverlayFresh
  BY DEF ClientInv, OneOutstanding, OverlayFresh
<1> QED
  BY <1>1, RknnInductive, PTL

=============================================================================
