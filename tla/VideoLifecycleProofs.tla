------------------------ MODULE VideoLifecycleProofs ------------------------
(***************************************************************************)
(* Proofs about VideoLifecycle for every number of restarts, parameter     *)
(* changes and photos. The argument is about the std::thread objects: how  *)
(* far rk_video_init or rk_video_deinit has come says which of them may be *)
(* joinable.                                                               *)
(***************************************************************************)
EXTENDS VideoLifecycle, TLAPS

TypeOK ==
  /\ ctl \in {"init", "vi_ext", "vi_start", "pipe_0", "create_0", "start_0", "pipe_1",
              "create_1", "start_1", "pipe_jpeg", "up", "stop", "join_0", "join_1", "switch",
              "join_snapshot", "join_jpeg", "down"}
  /\ main \in {"starting", "serving", "looping", "stopping", "returning", "exited"}
  /\ run \in BOOLEAN /\ snapFlag \in BOOLEAN /\ terminated \in BOOLEAN /\ fed \in BOOLEAN
  /\ dataType \in types
  /\ param \in [snapshot : BOOLEAN, npu : BOOLEAN, dataType : [Streams -> types]]
  /\ thr \in [Objects -> {"none", "loop", "slept", "saving", "done"}]
  /\ joinable \subseteq Objects

(* An object that is not joinable has no thread: it was never assigned, or *)
(* its thread had returned when it was joined.                             *)
NoThreadUnjoined == \A k \in Objects \ joinable : thr[k] \in {"none", "done"}

(* From its join on, and until it is assigned again, an object is not      *)
(* joinable.                                                               *)
Starting == {"down", "init", "vi_ext", "vi_start", "pipe_0", "create_0", "start_0"}
Pipe1 == {"pipe_1", "create_1", "start_1"}
Joined ==
  /\ ctl \in Starting \union {"join_1", "switch", "join_snapshot", "join_jpeg"}
       => "venc0" \notin joinable
  /\ ctl \in Starting \union Pipe1 \union {"switch", "join_snapshot", "join_jpeg"}
       => "venc1" \notin joinable
  /\ ctl \in Starting \union Pipe1 \union {"pipe_jpeg"} => "jpeg" \notin joinable

(* Where main is says where the video is and whether the inference thread  *)
(* exists.                                                                 *)
MainPhase ==
  /\ main = "stopping" => ctl \in {"stop", "join_0", "join_1", "switch", "join_snapshot",
                                   "join_jpeg", "down"}
  /\ main \in {"returning", "exited"} => ctl = "down"
  /\ main \in {"starting", "serving"} => "yolo26" \notin joinable

(* None of the causes that TerminateOnlyByLeftover names.                  *)
Clean == changed = {} /\ ~SomeNV12 /\ param.npu

(* Without them the switches read at the end are those read at the start.  *)
CleanThreads ==
  Clean => /\ ~terminated
           /\ dataType = "H.26x"
           /\ "get_vi" \notin joinable
           /\ "snapshot" \in joinable => param.snapshot
           /\ ctl \in Starting \union Pipe1 \union {"join_jpeg", "pipe_jpeg"}
                => "snapshot" \notin joinable
           /\ main \in {"returning", "exited"} => "yolo26" \notin joinable

IInv == TypeOK /\ NoThreadUnjoined /\ Joined /\ MainPhase /\ CleanThreads
-----------------------------------------------------------------------------
(* The invariant holds before main starts anything.                        *)
LEMMA InitIInv == Init => IInv
  BY DEF Init, IInv, TypeOK, NoThreadUnjoined, Joined, Starting, Pipe1, MainPhase, CleanThreads, Clean,
         SomeNV12, Objects, Streams, types

(* Each stream has one of the types, and none is NV12 while Clean holds.    *)
LEMMA TypeOfStream ==
  ASSUME TypeOK, NEW k \in Streams
  PROVE  param.dataType[k] \in types /\ (Clean => param.dataType[k] = "H.26x")
  BY DEF TypeOK, Clean, SomeNV12, types, Streams

(* rk_video_init assigns objects that are not joinable, except get_vi,     *)
(* which takes NV12, and snapshot, which takes a changed switch.           *)
LEMMA Starts ==
  ASSUME IInv, ~terminated, main # "exited",
         \/ InitBegin \/ ReadTypes \/ ViExtStart \/ CreateVencs \/ StartVenc0 \/ StartVenc1
         \/ PipeJpegInit \/ InitAgain
  PROVE  IInv'
<1> USE DEF IInv, TypeOK, NoThreadUnjoined, Joined, Starting, Pipe1, MainPhase, CleanThreads, Clean,
          SomeNV12, Objects, Streams, types, flags, Assign
<1>1. CASE InitBegin
  BY <1>1 DEF InitBegin
<1>2. CASE ReadTypes
  <2>1. PICK k \in Streams, from \in {"vi_ext", "pipe_0", "pipe_1"},
              to \in {"vi_start", "create_0", "create_1"} :
          /\ ReadType(k, from, to)
          /\ <<from, to>> \in {<<"vi_ext", "vi_start">>, <<"pipe_0", "create_0">>,
                              <<"pipe_1", "create_1">>}
    BY <1>2 DEF ReadTypes
  <2>2. dataType' \in types /\ (Clean => dataType' = "H.26x")
    BY <2>1, TypeOfStream DEF ReadType
  <2>3. Clean' = Clean
    BY <2>1 DEF ReadType
  <2>4. TypeOK'
    BY <2>1, <2>2 DEF ReadType
  <2>5. (NoThreadUnjoined /\ Joined /\ MainPhase)'
    BY <2>1 DEF ReadType
  <2>6. CleanThreads'
    BY <2>1, <2>2, <2>3 DEF ReadType
  <2> QED
    BY <2>4, <2>5, <2>6
<1>3. CASE ViExtStart
  <2>1. TypeOK'
    BY <1>3 DEF ViExtStart
  <2>2. (NoThreadUnjoined /\ Joined /\ MainPhase)'
    BY <1>3 DEF ViExtStart
  <2>3. CleanThreads'
    BY <1>3 DEF ViExtStart
  <2> QED
    BY <2>1, <2>2, <2>3
<1>4. CASE CreateVencs
  <2>1. PICK k \in Streams, from \in {"create_0", "create_1"}, to \in {"start_0", "start_1"},
              next \in {"pipe_1", "pipe_jpeg"} :
          /\ CreateVenc(k, from, to, next)
          /\ <<from, to, next>> \in {<<"create_0", "start_0", "pipe_1">>,
                                    <<"create_1", "start_1", "pipe_jpeg">>}
    BY <1>4 DEF CreateVencs
  <2>2. dataType' \in types /\ (Clean => dataType' = "H.26x")
    BY <2>1, TypeOfStream DEF CreateVenc
  <2>3. Clean' = Clean
    BY <2>1 DEF CreateVenc
  <2>4. TypeOK'
    BY <2>1, <2>2 DEF CreateVenc
  <2>5. (NoThreadUnjoined /\ Joined /\ MainPhase)'
    BY <2>1 DEF CreateVenc
  <2>6. CleanThreads'
    BY <2>1, <2>2, <2>3 DEF CreateVenc
  <2> QED
    BY <2>4, <2>5, <2>6
<1>5. CASE StartVenc0
  <2>1. TypeOK'
    BY <1>5 DEF StartVenc0
  <2>2. (NoThreadUnjoined /\ Joined /\ MainPhase)'
    BY <1>5 DEF StartVenc0
  <2>3. CleanThreads'
    BY <1>5 DEF StartVenc0
  <2> QED
    BY <2>1, <2>2, <2>3
<1>6. CASE StartVenc1
  <2>1. TypeOK'
    BY <1>6 DEF StartVenc1
  <2>2. (NoThreadUnjoined /\ Joined /\ MainPhase)'
    BY <1>6 DEF StartVenc1
  <2>3. CleanThreads'
    BY <1>6 DEF StartVenc1
  <2> QED
    BY <2>1, <2>2, <2>3
<1>7. CASE PipeJpegInit
  <2>1. TypeOK'
    BY <1>7 DEF PipeJpegInit
  <2>2. (NoThreadUnjoined /\ Joined /\ MainPhase)'
    BY <1>7 DEF PipeJpegInit
  <2>3. CleanThreads'
    BY <1>7 DEF PipeJpegInit
  <2> QED
    BY <2>1, <2>2, <2>3
<1>8. CASE InitAgain
  BY <1>8 DEF InitAgain
<1> QED
  BY <1>1, <1>2, <1>3, <1>4, <1>5, <1>6, <1>7, <1>8

(* rk_video_deinit joins what rk_video_init assigned, one after the other. *)
LEMMA Stops ==
  ASSUME IInv, ~terminated, main # "exited",
         DeinitBegin \/ JoinVenc0 \/ JoinVenc1 \/ ReadSwitch \/ JoinSnapshot \/ JoinJpeg
  PROVE  IInv'
<1> USE DEF IInv, TypeOK, NoThreadUnjoined, Joined, Starting, Pipe1, MainPhase, CleanThreads, Clean,
          SomeNV12, Objects, Streams, types, flags, Join
<1>1. CASE DeinitBegin
  BY <1>1 DEF DeinitBegin
<1>2. CASE JoinVenc0
  <2>1. TypeOK'
    BY <1>2 DEF JoinVenc0
  <2>2. (NoThreadUnjoined /\ Joined /\ MainPhase)'
    BY <1>2 DEF JoinVenc0
  <2>3. CleanThreads'
    BY <1>2 DEF JoinVenc0
  <2> QED
    BY <2>1, <2>2, <2>3
<1>3. CASE JoinVenc1
  <2>1. TypeOK'
    BY <1>3 DEF JoinVenc1
  <2>2. (NoThreadUnjoined /\ Joined /\ MainPhase)'
    BY <1>3 DEF JoinVenc1
  <2>3. CleanThreads'
    BY <1>3 DEF JoinVenc1
  <2> QED
    BY <2>1, <2>2, <2>3
<1>4. CASE ReadSwitch
  <2>1. TypeOK'
    BY <1>4 DEF ReadSwitch
  <2>2. (NoThreadUnjoined /\ Joined /\ MainPhase)'
    BY <1>4 DEF ReadSwitch
  <2>3. CleanThreads'
    BY <1>4 DEF ReadSwitch
  <2> QED
    BY <2>1, <2>2, <2>3
<1>5. CASE JoinSnapshot
  <2>1. TypeOK'
    BY <1>5 DEF JoinSnapshot
  <2>2. (NoThreadUnjoined /\ Joined /\ MainPhase)'
    BY <1>5 DEF JoinSnapshot
  <2>3. CleanThreads'
    BY <1>5 DEF JoinSnapshot
  <2> QED
    BY <2>1, <2>2, <2>3
<1>6. CASE JoinJpeg
  <2>1. TypeOK'
    BY <1>6 DEF JoinJpeg
  <2>2. (NoThreadUnjoined /\ Joined /\ MainPhase)'
    BY <1>6 DEF JoinJpeg
  <2>3. CleanThreads'
    BY <1>6 DEF JoinJpeg
  <2> QED
    BY <2>1, <2>2, <2>3
<1> QED
  BY <1>1, <1>2, <1>3, <1>4, <1>5, <1>6

(* A request changes a parameter only by recording it in changed.          *)
LEMMA Requested ==
  ASSUME IInv, ~terminated, main # "exited",
         rk_video_restart \/ rk_video_set_enable_cycle_snapshot \/ OtherSetter \/ RequestPhoto
  PROVE  IInv'
<1> USE DEF IInv, TypeOK, NoThreadUnjoined, Joined, Starting, Pipe1, MainPhase, CleanThreads, Clean,
          SomeNV12, Objects, Streams, types, flags, rk_take_photo
<1>1. CASE rk_video_restart
  <2>1. \/ UNCHANGED <<param, changed>>
        \/ /\ changed' # {}
           /\ param' \in [snapshot : BOOLEAN, npu : BOOLEAN, dataType : [Streams -> types]]
    BY <1>1 DEF rk_video_restart
  <2>2. TypeOK'
    BY <1>1, <2>1 DEF rk_video_restart
  <2>3. (NoThreadUnjoined /\ Joined /\ MainPhase)'
    BY <1>1 DEF rk_video_restart
  <2>4. Clean' => Clean /\ UNCHANGED param
    BY <2>1
  <2>5. CleanThreads'
    BY <1>1, <2>4 DEF rk_video_restart
  <2> QED
    BY <2>2, <2>3, <2>5
<1>2. CASE rk_video_set_enable_cycle_snapshot
  <2>0. param' \in [snapshot : BOOLEAN, npu : BOOLEAN, dataType : [Streams -> types]]
    <3>1. (~param.snapshot) \in BOOLEAN /\ param' = [param EXCEPT !.snapshot = ~param.snapshot]
      BY <1>2 DEF rk_video_set_enable_cycle_snapshot
    <3> QED
      BY <3>1
  <2>1. TypeOK'
    BY <1>2, <2>0 DEF rk_video_set_enable_cycle_snapshot
  <2>2. (NoThreadUnjoined /\ Joined /\ MainPhase)'
    BY <1>2 DEF rk_video_set_enable_cycle_snapshot
  <2>3. CleanThreads'
    BY <1>2 DEF rk_video_set_enable_cycle_snapshot
  <2> QED
    BY <2>1, <2>2, <2>3
<1>3. CASE RequestPhoto
  <2>1. TypeOK'
    BY <1>3 DEF RequestPhoto
  <2>2. (NoThreadUnjoined /\ Joined /\ MainPhase)'
    BY <1>3 DEF RequestPhoto
  <2>3. CleanThreads'
    BY <1>3 DEF RequestPhoto
  <2> QED
    BY <2>1, <2>2, <2>3
<1>4. CASE OtherSetter
  <2>1. TypeOK'
    BY <1>4 DEF OtherSetter
  <2>2. (NoThreadUnjoined /\ Joined /\ MainPhase)'
    BY <1>4 DEF OtherSetter
  <2>3. CleanThreads'
    BY <1>4 DEF OtherSetter
  <2> QED
    BY <2>1, <2>2, <2>3
<1> QED
  BY <1>1, <1>2, <1>3, <1>4

(* main owns the inference thread.                                         *)
LEMMA MainSteps ==
  ASSUME IInv, ~terminated, main # "exited",
         ServerInit \/ YoloInit \/ MainStops \/ YoloDeinit \/ NoYoloDeinit \/ Exit
  PROVE  IInv'
<1> USE DEF IInv, TypeOK, NoThreadUnjoined, Joined, Starting, Pipe1, MainPhase, CleanThreads, Clean,
          SomeNV12, Objects, Streams, types, flags, Assign, Join
<1>1. CASE ServerInit
  BY <1>1 DEF ServerInit
<1>2. CASE YoloInit
  BY <1>2 DEF YoloInit
<1>3. CASE MainStops
  BY <1>3 DEF MainStops
<1>4. CASE YoloDeinit
  BY <1>4 DEF YoloDeinit
<1>5. CASE NoYoloDeinit
  BY <1>5 DEF NoYoloDeinit
<1>6. CASE Exit
  <2>1. TypeOK'
    BY <1>6 DEF Exit
  <2>2. (NoThreadUnjoined /\ Joined /\ MainPhase)'
    BY <1>6 DEF Exit
  <2>3. Clean => \A k \in Objects : k \notin joinable
    BY <1>6 DEF Exit
  <2>4. Clean => joinable = {}
    BY <2>3, Zenon
  <2>5. CleanThreads'
    BY <1>6, <2>4 DEF Exit
  <2> QED
    BY <2>1, <2>2, <2>5
<1> QED
  BY <1>1, <1>2, <1>3, <1>4, <1>5, <1>6

(* A thread only moves itself.                                             *)
LEMMA Polls ==
  ASSUME IInv, ~terminated, main # "exited",
         SnapshotTest \/ SnapshotRequest \/ JpegTest \/ JpegContinue \/ JpegGetStream \/ JpegSave
  PROVE  IInv'
<1> USE DEF IInv, TypeOK, NoThreadUnjoined, Joined, Starting, Pipe1, MainPhase, CleanThreads, Clean,
          SomeNV12, Objects, Streams, types, flags, At, rk_take_photo
<1>1. CASE SnapshotTest
  BY <1>1 DEF SnapshotTest
<1>2. CASE SnapshotRequest
  BY <1>2 DEF SnapshotRequest
<1>3. CASE JpegTest
  BY <1>3 DEF JpegTest
<1>4. CASE JpegContinue
  BY <1>4 DEF JpegContinue
<1>5. CASE JpegGetStream
  <2>1. TypeOK'
    BY <1>5 DEF JpegGetStream
  <2>2. (NoThreadUnjoined /\ Joined /\ MainPhase)'
    BY <1>5 DEF JpegGetStream
  <2>3. CleanThreads'
    BY <1>5 DEF JpegGetStream
  <2> QED
    BY <2>1, <2>2, <2>3
<1>6. CASE JpegSave
  <2>1. TypeOK'
    BY <1>6 DEF JpegSave
  <2>2. (NoThreadUnjoined /\ Joined /\ MainPhase)'
    BY <1>6 DEF JpegSave
  <2>3. CleanThreads'
    BY <1>6 DEF JpegSave
  <2> QED
    BY <2>1, <2>2, <2>3
<1> QED
  BY <1>1, <1>2, <1>3, <1>4, <1>5, <1>6

(* A thread that polls its flag leaves its loop.                           *)
LEMMA LoopReturns ==
  ASSUME IInv, ~terminated, main # "exited", NEW k \in Polling, LoopEnds(k)
  PROVE  IInv'
  BY DEF IInv, TypeOK, NoThreadUnjoined, Joined, Starting, Pipe1, MainPhase, CleanThreads, Clean,
         SomeNV12, Objects, Streams, types, flags, At, Polling, LoopEnds

(* Every step keeps the invariant.                                         *)
LEMMA NextIInv == IInv /\ [Next]_vars => IInv'
<1> SUFFICES ASSUME IInv, [Next]_vars PROVE IInv'
  OBVIOUS
<1>1. CASE Alive /\ Control
  BY <1>1, Starts, Stops DEF Alive, Control
<1>2. CASE Alive /\ (Main \/ MainStops)
  BY <1>2, MainSteps DEF Alive, Main
<1>3. CASE Alive /\ Requests
  BY <1>3, Requested DEF Alive, Requests
<1>4. CASE Alive /\ ThreadStep
  BY <1>4, Polls, LoopReturns DEF Alive, ThreadStep, Snapshot, Jpeg
<1>5. CASE UNCHANGED vars
  BY <1>5 DEF vars, flags, IInv, TypeOK, NoThreadUnjoined, Joined, Starting, Pipe1, MainPhase,
              CleanThreads, Clean, SomeNV12
<1> QED
  BY <1>1, <1>2, <1>3, <1>4, <1>5 DEF Next, Do

-----------------------------------------------------------------------------
(* The invariant of the proofs: types, who may be joinable where, and what *)
(* holds as long as none of the causes of a leftover thread occurred.      *)
THEOREM Inductive == Spec => []IInv
  BY InitIInv, NextIInv, PTL DEF Spec

(* rk_video_deinit destroys the channels only after the threads that get   *)
(* streams from them have returned, for every sequence of requests.        *)
THEOREM ChannelsCorrect == Spec => []ChannelsUnused
<1>1. IInv => ChannelsUnused
  BY DEF IInv, TypeOK, NoThreadUnjoined, Joined, Starting, Pipe1, ChannelsUnused, Objects, Streams
<1> QED
  BY <1>1, Inductive, PTL

(* std::terminate needs a changed snapshot switch, a stream that is or was *)
(* set to NV12 or the NPU switched off, however often the video is         *)
(* restarted and whatever a setter writes over the global data type.       *)
THEOREM TerminateCorrect == Spec => []TerminateOnlyByLeftover
<1>1. IInv => TerminateOnlyByLeftover
  BY DEF IInv, TypeOK, CleanThreads, Clean, TerminateOnlyByLeftover
<1> QED
  BY <1>1, Inductive, PTL
=============================================================================
