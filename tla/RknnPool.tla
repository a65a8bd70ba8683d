------------------------------ MODULE RknnPool ------------------------------
(***************************************************************************)
(* rknnPool (yolo26/engine/rknnPool.hpp) on top of ThreadPool, driven by   *)
(* its only client, the thread yolo26_inference of video.cc.               *)
(*                                                                         *)
(* The pool owns threadNum models and gives them out round robin, whether  *)
(* or not the previous task of a model has ended, and Yolo26::Run keeps    *)
(* its tensors and its letterbox in members that no lock protects. That no *)
(* two tasks use one model at a time is up to the client.                  *)
(***************************************************************************)
EXTENDS ThreadPool

CONSTANTS
  PutEvery,      \* the client submits one frame out of this many (4)
  ViDepth        \* VI frames the client may hold before GetChnFrame fails

ASSUME RknnAssumption == PutEvery \in Nat \ {0} /\ ViDepth \in Nat \ {0}

VARIABLES
  modelId,       \* id % threadNum, the model of the next task
  modelOf,       \* the model each submitted task runs on
  futs,          \* futs: the tasks whose results have not been fetched
  objects,       \* the task whose detections the client holds (0: none)
  cpc,           \* where yolo26_inference is
  loopCount,     \* loopCount % PutEvery
  frames,        \* VI frames taken and not released
  videoRun       \* g_video_run_

clientVars == <<modelId, modelOf, futs, objects, cpc, loopCount, frames, videoRun>>
rknnVars == <<vars, clientVars>>

threadNum == MaxThreads

RknnInit ==
  /\ Init
  /\ modelId = 0
  /\ modelOf = [k \in 1..MaxTasks |-> 0]
  /\ futs = <<>>
  /\ objects = 0
  /\ cpc = "getframe"
  /\ loopCount = 0
  /\ frames = 0
  /\ videoRun = TRUE

(* rk_video_deinit and rkipc_yolo_deinit clear the run flag.               *)
StopVideo ==
  /\ videoRun
  /\ videoRun' = FALSE
  /\ UNCHANGED <<vars, modelId, modelOf, futs, objects, cpc, loopCount, frames>>

(* RK_MPI_VI_GetChnFrame: the call that would give the frame back is       *)
(* commented out, so the channel runs dry and the client then sleeps and   *)
(* retries without a frame until the flag is cleared.                      *)
GetChnFrame ==
  /\ cpc = "getframe"
  /\ videoRun
  /\ frames < ViDepth
  /\ frames' = frames + 1
  /\ cpc' = IF loopCount = 0 THEN "put" ELSE "get"
  /\ UNCHANGED <<vars, modelId, modelOf, futs, objects, loopCount, videoRun>>

LeaveLoop ==
  /\ cpc = "getframe"
  /\ ~videoRun
  /\ cpc' = "drain"
  /\ UNCHANGED <<vars, modelId, modelOf, futs, objects, loopCount, frames, videoRun>>

(* Variant: the index of the model is not reduced.                         *)
ModelIdUnreduced == modelId + 1

getModelId == (modelId + 1) % threadNum

(* put(): getModelId, submit and push, all under queueMtx.                 *)
put ==
  /\ cpc = "put"
  /\ submit
  /\ modelOf' = [modelOf EXCEPT ![submitted + 1] = modelId]
  /\ modelId' = getModelId
  /\ futs' = Append(futs, submitted + 1)
  /\ cpc' = "get"
  /\ UNCHANGED <<objects, loopCount, frames, videoRun>>

NextIteration ==
  /\ loopCount' = (loopCount + 1) % PutEvery
  /\ cpc' = "getframe"

(* Variant: get() does not wait for a future that is not ready.            *)
GetNonBlocking ==
  /\ cpc = "get"
  /\ IF futs # <<>> /\ futs[1] \in completed
     THEN objects' = Head(futs) /\ futs' = Tail(futs)
     ELSE UNCHANGED <<futs, objects>>
  /\ NextIteration
  /\ UNCHANGED <<vars, modelId, modelOf, frames, videoRun>>

(* Variant: the result of the future is dropped.                           *)
GetDropsResult ==
  /\ cpc = "get"
  /\ \/ futs = <<>> /\ UNCHANGED futs
     \/ /\ futs # <<>>
        /\ Head(futs) \in completed
        /\ futs' = Tail(futs)
  /\ NextIteration
  /\ UNCHANGED <<vars, objects, modelId, modelOf, frames, videoRun>>

(* get(): waits for the oldest future and moves its result to objects, or  *)
(* reports 1 when there is none; the client draws objects in that case.    *)
get ==
  /\ cpc = "get"
  /\ \/ futs = <<>> /\ UNCHANGED <<futs, objects>>
     \/ /\ futs # <<>>
        /\ Head(futs) \in completed
        /\ objects' = Head(futs)
        /\ futs' = Tail(futs)
  /\ NextIteration
  /\ UNCHANGED <<vars, modelId, modelOf, frames, videoRun>>

(* ~rknnPool: fetch what is left, then destroy the pool. This client has   *)
(* always fetched everything before it leaves its loop.                    *)
DestroyPool ==
  /\ cpc = "drain"
  /\ IF futs = <<>>
     THEN /\ Destructor
          /\ cpc' = IF dtor' = "returned" THEN "returned" ELSE "drain"
          /\ UNCHANGED futs
     ELSE /\ Head(futs) \in completed
          /\ futs' = Tail(futs)
          /\ UNCHANGED <<vars, cpc>>
  /\ UNCHANGED <<modelId, modelOf, objects, loopCount, frames, videoRun>>

Client ==
  \/ GetChnFrame
  \/ LeaveLoop
  \/ put
  \/ get
  \/ DestroyPool

RknnWorker(t) == Worker(t) /\ UNCHANGED clientVars

RknnNext ==
  \/ StopVideo
  \/ Client
  \/ \E t \in Threads : RknnWorker(t)
  \/ \E t \in Threads : WaitReturns(t) /\ UNCHANGED clientVars
  \/ cpc = "returned" /\ UNCHANGED rknnVars

(* The scheduler runs the client and the workers; nobody has to stop the   *)
(* video.                                                                  *)
RknnSpec ==
  /\ RknnInit
  /\ [][RknnNext]_rknnVars
  /\ WF_rknnVars(Client)
  /\ \A t \in Threads : WF_rknnVars(RknnWorker(t))

-----------------------------------------------------------------------------
RknnTypeOK ==
  /\ TypeOK
  /\ modelId \in 0..(threadNum - 1)
  /\ modelOf \in [1..MaxTasks -> 0..(threadNum - 1)]
  /\ futs \in Seq(1..MaxTasks)
  /\ objects \in 0..MaxTasks
  /\ cpc \in {"getframe", "put", "get", "drain", "returned"}
  /\ loopCount \in 0..(PutEvery - 1)
  /\ frames \in 0..ViDepth
  /\ videoRun \in BOOLEAN

(* No two workers ever run Yolo26::Run on the same model: its unlocked     *)
(* tensors are safe with this client, which fetches a result in every      *)
(* iteration and so never has a second task outstanding.                   *)
ModelExclusive ==
  \A s, t \in In({"running"}) : modelOf[task[s]] = modelOf[task[t]] => s = t

(* A result is in flight in futs or has been fetched, in order: when the   *)
(* client draws because get() had nothing new, the detections it draws are *)
(* those of the last frame it submitted.                                   *)
OverlayFresh ==
  /\ cpc \in {"getframe", "get"} /\ futs = <<>> => objects = submitted
  /\ futs # <<>> => futs[Len(futs)] = submitted

(* Once the run flag is cleared the inference thread returns, so the join  *)
(* of rkipc_yolo_deinit ends, with tasks in flight or queued.              *)
InferenceReturns == ~videoRun ~> cpc = "returned"
=============================================================================
