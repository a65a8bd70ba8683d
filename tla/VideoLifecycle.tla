--------------------------- MODULE VideoLifecycle ---------------------------
(***************************************************************************)
(* Starting, restarting and stopping the video (video/video.cc, main.cc):  *)
(* the std::thread objects rk_video_init assigns and rk_video_deinit joins,*)
(* the flags their threads poll, and the requests the RPC threads make     *)
(* meanwhile.                                                              *)
(*                                                                         *)
(* A std::thread object must not be joinable when it is assigned or        *)
(* destroyed: that calls std::terminate. So each object has at most one    *)
(* thread, whose state is kept by the object's name.                       *)
(*                                                                         *)
(* Assumption: one rk_video_restart runs at a time and main begins to stop *)
(* when none runs. The code has no lock that ensures either.               *)
(***************************************************************************)
EXTENDS Naturals

CONSTANTS
  MaxRestarts,   \* bound: calls of rk_video_restart
  MaxSets,       \* bound: calls of the setters that do not restart
  MaxPhotos      \* bound: RPC calls of rk_take_photo

ASSUME VideoAssumption == MaxRestarts \in Nat /\ MaxSets \in Nat /\ MaxPhotos \in Nat

Streams == {"venc0", "venc1"}
Objects == Streams \union {"jpeg", "snapshot", "get_vi", "yolo26"}

VARIABLES
  ctl,           \* where the thread in rk_video_init or rk_video_deinit is
  main,          \* where main is
  run,           \* g_video_run_
  snapFlag,      \* cycle_snapshot_flag
  photo,         \* take_photo_one
  dataType,      \* tmp_output_data_type
  param,         \* the parameters that decide which threads run
  fed,           \* VENC 0 was bound to its source since the JPEG channel, its combo, was destroyed
  thr,           \* where each object's thread is
  joinable,      \* the joinable objects
  terminated,    \* std::terminate was called
  count,         \* how often each bounded call was made
  owed,          \* history: rk_take_photo was called since the last picture
  changed        \* history: the parameters that were set at run time

flags == <<run, snapFlag, photo, dataType>>
types == {"H.26x", "NV12"}
vars == <<ctl, main, flags, param, fed, thr, joinable, terminated, count, owed, changed>>

Init ==
  /\ ctl = "init"
  /\ main = "starting"
  /\ run = TRUE
  /\ snapFlag = FALSE
  /\ photo = FALSE
  /\ dataType = "H.26x"
  /\ param \in [snapshot : BOOLEAN, npu : BOOLEAN, dataType : [Streams -> types]]
  /\ fed = FALSE
  /\ thr = [k \in Objects |-> "none"]
  /\ joinable = {}
  /\ terminated = FALSE
  /\ count = [restart |-> 0, set |-> 0, photo |-> 0]
  /\ owed = FALSE
  /\ changed = {}

-----------------------------------------------------------------------------
(* k = std::thread(f): terminates when k is joinable.                      *)
Assign(ks) ==
  /\ terminated' = (ks \cap joinable # {})
  /\ thr' = [k \in Objects |-> IF k \in ks THEN "loop" ELSE thr[k]]
  /\ joinable' = joinable \union ks

(* if (k.joinable()) k.join(): blocks until the thread has returned.       *)
Join(k) ==
  /\ k \in joinable => thr[k] = "done"
  /\ joinable' = joinable \ {k}

-----------------------------------------------------------------------------
(* rk_video_init, with the streams and the pictures enabled as in the      *)
(* configuration that is shipped. The ROI, OSD, RTSP and RTMP calls after  *)
(* the pipes start no thread of these and read none of these flags.        *)
InitBegin ==
  /\ ctl = "init"
  /\ run' = TRUE
  /\ ctl' = "vi_ext"
  /\ UNCHANGED <<main, snapFlag, photo, dataType, param, fed, thr, joinable, terminated, count, owed, changed>>

(* tmp_output_data_type = rk_param_get_string("video.k:output_data_type"). *)
(* The tests that follow read the global again, and a setter of a stream   *)
(* (OtherSetter) may have overwritten it by then.                          *)
ReadType(k, from, to) ==
  /\ ctl = from
  /\ dataType' = param.dataType[k]
  /\ ctl' = to
  /\ UNCHANGED <<main, run, snapFlag, photo, param, fed, thr, joinable, terminated, count, owed, changed>>

ReadTypes ==
  \/ ReadType("venc0", "vi_ext", "vi_start")
  \/ ReadType("venc0", "pipe_0", "create_0")
  \/ ReadType("venc1", "pipe_1", "create_1")

ViExtStart ==
  /\ ctl = "vi_start"
  /\ Assign(IF dataType = "NV12" THEN {"get_vi"} ELSE {})
  /\ ctl' = "pipe_0"
  /\ UNCHANGED <<main, flags, param, fed, count, owed, changed>>

(* Anything but H.264 and H.265 has no encoder channel: the pipe returns.  *)
(* rk_video_reset_frame_rate of the new channel reads the type once more.  *)
CreateVenc(k, from, to, next) ==
  /\ ctl = from
  /\ IF dataType = "NV12"
     THEN ctl' = next /\ UNCHANGED dataType
     ELSE ctl' = to /\ dataType' = param.dataType[k]
  /\ UNCHANGED <<main, run, snapFlag, photo, param, fed, thr, joinable, terminated, count, owed, changed>>

CreateVencs ==
  \/ CreateVenc("venc0", "create_0", "start_0", "pipe_1")
  \/ CreateVenc("venc1", "create_1", "start_1", "pipe_jpeg")

(* The thread is started and the channel bound only if the type still is   *)
(* one that is encoded.                                                    *)
StartVenc0 ==
  /\ ctl = "start_0"
  /\ Assign(IF dataType # "NV12" THEN {"venc0"} ELSE {})
  /\ fed' = (dataType # "NV12")
  /\ ctl' = "pipe_1"
  /\ UNCHANGED <<main, flags, param, count, owed, changed>>

StartVenc1 ==
  /\ ctl = "start_1"
  /\ Assign(IF dataType # "NV12" THEN {"venc1"} ELSE {})
  /\ ctl' = "pipe_jpeg"
  /\ UNCHANGED <<main, flags, param, fed, count, owed, changed>>

PipeJpegInit ==
  /\ ctl = "pipe_jpeg"
  /\ Assign({"jpeg"} \union IF param.snapshot THEN {"snapshot"} ELSE {})
  /\ snapFlag' = (snapFlag \/ param.snapshot)
  /\ ctl' = "up"
  /\ UNCHANGED <<main, run, photo, dataType, param, fed, count, owed, changed>>

-----------------------------------------------------------------------------
(* rk_video_deinit, for rk_video_restart and for main                      *)

(* Variant: the run flag is not cleared.                                   *)
DeinitKeepsRunning ==
  /\ ctl = "stop"
  /\ ctl' = "join_0"
  /\ UNCHANGED <<main, flags, param, fed, thr, joinable, terminated, count, owed, changed>>

DeinitBegin ==
  /\ ctl = "stop"
  /\ run' = FALSE
  /\ ctl' = "join_0"
  /\ UNCHANGED <<main, snapFlag, photo, dataType, param, fed, thr, joinable, terminated, count, owed, changed>>

JoinVenc0 ==
  /\ ctl = "join_0"
  /\ Join("venc0")
  /\ ctl' = "join_1"
  /\ UNCHANGED <<main, flags, param, fed, thr, terminated, count, owed, changed>>

(* Variant: the thread of the second stream is not joined.                 *)
SkipVenc1 ==
  /\ ctl = "join_1"
  /\ ctl' = "switch"
  /\ UNCHANGED <<main, flags, param, fed, thr, joinable, terminated, count, owed, changed>>

JoinVenc1 ==
  /\ ctl = "join_1"
  /\ Join("venc1")
  /\ ctl' = "switch"
  /\ UNCHANGED <<main, flags, param, fed, thr, terminated, count, owed, changed>>

(* The parameter is read again: it need not be what rk_video_init read.    *)
ReadSwitch ==
  /\ ctl = "switch"
  /\ IF param.snapshot
     THEN ctl' = "join_snapshot" /\ snapFlag' = FALSE
     ELSE ctl' = "join_jpeg" /\ UNCHANGED snapFlag
  /\ UNCHANGED <<main, run, photo, dataType, param, fed, thr, joinable, terminated, count, owed, changed>>

JoinSnapshot ==
  /\ ctl = "join_snapshot"
  /\ Join("snapshot")
  /\ ctl' = "join_jpeg"
  /\ UNCHANGED <<main, flags, param, fed, thr, terminated, count, owed, changed>>

(* Variant: the channel is destroyed under the thread.                     *)
SkipJpeg ==
  /\ ctl = "join_jpeg"
  /\ fed' = FALSE
  /\ ctl' = "down"
  /\ UNCHANGED <<main, flags, param, thr, joinable, terminated, count, owed, changed>>

(* The channels are destroyed after this join.                             *)
JoinJpeg ==
  /\ ctl = "join_jpeg"
  /\ Join("jpeg")
  /\ fed' = FALSE
  /\ ctl' = "down"
  /\ UNCHANGED <<main, flags, param, thr, terminated, count, owed, changed>>

(* rk_video_restart initialises again; main does not.                      *)
InitAgain ==
  /\ ctl = "down"
  /\ main \in {"serving", "looping"}
  /\ ctl' = "init"
  /\ UNCHANGED <<main, flags, param, fed, thr, joinable, terminated, count, owed, changed>>

-----------------------------------------------------------------------------
(* The RPC threads                                                         *)

(* rk_video_restart, called directly or by a setter that has just changed  *)
(* the data type of a stream. It also restarts the storage, which          *)
(* StorageRecorder models, and the ISP; they share none of this state.     *)
rk_video_restart ==
  /\ main \in {"serving", "looping"}
  /\ ctl = "up"
  /\ count.restart < MaxRestarts
  /\ count' = [count EXCEPT !.restart = @ + 1]
  /\ ctl' = "stop"
  /\ \/ UNCHANGED <<param, changed>>
     \/ \E k \in Streams, d \in types :
          /\ d # param.dataType[k]
          /\ param' = [param EXCEPT !.dataType[k] = d]
          /\ changed' = changed \union {"dataType"}
  /\ UNCHANGED <<main, flags, fed, thr, joinable, terminated, owed>>

(* Sets the parameter and nothing else.                                    *)
rk_video_set_enable_cycle_snapshot ==
  /\ main \notin {"starting", "exited"}
  /\ count.set < MaxSets
  /\ count' = [count EXCEPT !.set = @ + 1]
  /\ param' = [param EXCEPT !.snapshot = ~@]
  /\ changed' = changed \union {"snapshot"}
  /\ UNCHANGED <<ctl, main, flags, fed, thr, joinable, terminated, owed>>

(* rk_video_set_gop, _max_rate, _RC_mode, _rc_quality and _frame_rate, in  *)
(* what they do to the global: it becomes the type of their stream. A call *)
(* that finds it so is not a step.                                         *)
OtherSetter ==
  /\ main \notin {"starting", "exited"}
  /\ count.set < MaxSets
  /\ count' = [count EXCEPT !.set = @ + 1]
  /\ \E k \in Streams : dataType' = param.dataType[k]
  /\ dataType' # dataType
  /\ UNCHANGED <<ctl, main, run, snapFlag, photo, param, fed, thr, joinable, terminated, owed, changed>>

rk_take_photo ==
  /\ photo' = TRUE
  /\ owed' = TRUE

RequestPhoto ==
  /\ main \notin {"starting", "exited"}
  /\ count.photo < MaxPhotos
  /\ count' = [count EXCEPT !.photo = @ + 1]
  /\ rk_take_photo
  /\ UNCHANGED <<ctl, main, run, snapFlag, dataType, param, fed, thr, joinable, terminated, changed>>

-----------------------------------------------------------------------------
(* The threads                                                             *)

At(k, p) == thr' = [thr EXCEPT ![k] = p]

(* while (g_video_run_) of test_get_vi, rkipc_get_venc_0 and _1 and        *)
(* yolo26_inference, whose calls all time out.                             *)
LoopEnds(k) ==
  /\ thr[k] = "loop"
  /\ ~run
  /\ At(k, "done")
  /\ UNCHANGED <<ctl, main, flags, param, fed, joinable, terminated, count, owed, changed>>

(* rkipc_cycle_snapshot                                                    *)
SnapshotTest ==
  /\ thr["snapshot"] = "loop"
  /\ At("snapshot", IF run /\ snapFlag THEN "slept" ELSE "done")
  /\ UNCHANGED <<ctl, main, flags, param, fed, joinable, terminated, count, owed, changed>>

SnapshotRequest ==
  /\ thr["snapshot"] = "slept"
  /\ At("snapshot", "loop")
  /\ rk_take_photo
  /\ UNCHANGED <<ctl, main, run, snapFlag, dataType, param, fed, joinable, terminated, count, changed>>

(* rkipc_get_jpeg                                                          *)
JpegTest ==
  /\ thr["jpeg"] = "loop"
  /\ At("jpeg", IF run THEN "slept" ELSE "done")
  /\ UNCHANGED <<ctl, main, flags, param, fed, joinable, terminated, count, owed, changed>>

(* No photo is wanted, or RK_MPI_VENC_GetStream times out.                 *)
JpegContinue ==
  /\ thr["jpeg"] = "slept"
  /\ At("jpeg", "loop")
  /\ UNCHANGED <<ctl, main, flags, param, fed, joinable, terminated, count, owed, changed>>

(* The JPEG channel gets its pictures from VENC 0: none come without it.   *)
JpegGetStream ==
  /\ thr["jpeg"] = "slept"
  /\ photo
  /\ fed
  /\ At("jpeg", "saving")
  /\ owed' = FALSE
  /\ UNCHANGED <<ctl, main, flags, param, fed, joinable, terminated, count, changed>>

(* Variant: the request stays set.                                         *)
SaveKeepsRequest ==
  /\ thr["jpeg"] = "saving"
  /\ At("jpeg", "loop")
  /\ UNCHANGED <<ctl, main, flags, param, fed, joinable, terminated, count, owed, changed>>

(* Writes the file, then clears the request.                               *)
JpegSave ==
  /\ thr["jpeg"] = "saving"
  /\ At("jpeg", "loop")
  /\ photo' = FALSE
  /\ UNCHANGED <<ctl, main, run, snapFlag, dataType, param, fed, joinable, terminated, count, owed, changed>>

-----------------------------------------------------------------------------
(* main: the server is up as soon as the video is; rk_storage_init and the *)
(* network come before rkipc_yolo_init, which does not look at enable_npu. *)
ServerInit ==
  /\ main = "starting"
  /\ ctl = "up"
  /\ main' = "serving"
  /\ UNCHANGED <<ctl, flags, param, fed, thr, joinable, terminated, count, owed, changed>>

YoloInit ==
  /\ main = "serving"
  /\ Assign({"yolo26"})
  /\ main' = "looping"
  /\ UNCHANGED <<ctl, flags, param, fed, count, owed, changed>>

(* SIGINT or SIGTERM                                                       *)
MainStops ==
  /\ main = "looping"
  /\ ctl = "up"
  /\ main' = "stopping"
  /\ ctl' = "stop"
  /\ UNCHANGED <<flags, param, fed, thr, joinable, terminated, count, owed, changed>>

(* rkipc_yolo_deinit, only when enable_npu is set.                         *)
YoloDeinit ==
  /\ main = "stopping"
  /\ ctl = "down"
  /\ param.npu
  /\ run' = FALSE
  /\ Join("yolo26")
  /\ main' = "returning"
  /\ UNCHANGED <<ctl, snapFlag, photo, dataType, param, fed, thr, terminated, count, owed, changed>>

NoYoloDeinit ==
  /\ main = "stopping"
  /\ ctl = "down"
  /\ ~param.npu
  /\ main' = "returning"
  /\ UNCHANGED <<ctl, flags, param, fed, thr, joinable, terminated, count, owed, changed>>

(* main returns and the static std::thread objects are destroyed.          *)
Exit ==
  /\ main = "returning"
  /\ main' = "exited"
  /\ terminated' = (joinable # {})
  /\ UNCHANGED <<ctl, flags, param, fed, thr, joinable, count, owed, changed>>

-----------------------------------------------------------------------------
Control ==
  \/ InitBegin \/ ReadTypes \/ ViExtStart \/ CreateVencs \/ StartVenc0 \/ StartVenc1
  \/ PipeJpegInit
  \/ DeinitBegin \/ JoinVenc0 \/ JoinVenc1 \/ ReadSwitch \/ JoinSnapshot \/ JoinJpeg
  \/ InitAgain

Main == ServerInit \/ YoloInit \/ YoloDeinit \/ NoYoloDeinit \/ Exit

Requests ==
  rk_video_restart \/ rk_video_set_enable_cycle_snapshot \/ OtherSetter \/ RequestPhoto

Polling == {"get_vi", "venc0", "venc1", "yolo26"}
Snapshot == SnapshotTest \/ SnapshotRequest
Jpeg == JpegTest \/ JpegContinue \/ JpegGetStream \/ JpegSave
ThreadStep == Snapshot \/ Jpeg \/ \E k \in Polling : LoopEnds(k)

Alive == ~terminated /\ main # "exited"
Do(A) == Alive /\ A

Next ==
  \/ Do(Control \/ Main \/ MainStops \/ Requests \/ ThreadStep)
  \/ ~Alive /\ UNCHANGED vars

Spec == Init /\ [][Next]_vars

(* The scheduler runs every thread. A poll that sees the flag cleared may  *)
(* come too late, when it is set again, so a loop ends only if the flag    *)
(* stays cleared. The encoder delivers: among the attempts to get a        *)
(* picture that was asked for while VENC 0 is fed one succeeds. No request *)
(* has to be made, and nobody has to stop the program.                     *)
FairSpec ==
  /\ Spec
  /\ WF_vars(Do(Control))
  /\ WF_vars(Do(Main))
  /\ WF_vars(Do(Snapshot))
  /\ WF_vars(Do(Jpeg))
  /\ SF_vars(Do(JpegGetStream))
  /\ \A k \in Polling : WF_vars(Do(LoopEnds(k)))

-----------------------------------------------------------------------------
(* When rk_video_deinit destroys the channels (lines 2474-2495) no thread  *)
(* that gets streams from them is left, whatever was requested meanwhile.  *)
ChannelsUnused ==
  ctl = "down" => \A k \in Streams \union {"jpeg"} : k \notin joinable /\ thr[k] \in {"none", "done"}

SomeNV12 == \E k \in Streams : param.dataType[k] = "NV12"

(* std::terminate is called (assignments at lines 447, 786, 1034, 1140,    *)
(* 1557, 1560, destruction when main returns) only if the snapshot switch  *)
(* was changed since start, a stream was NV12 at some time (it need not be *)
(* stream 0: a setter writes the type of its stream over the one that line *)
(* 446 tests), or the NPU is off, in which case nobody joins the inference *)
(* thread.                                                                 *)
TerminateOnlyByLeftover == terminated => changed # {} \/ SomeNV12 \/ ~param.npu

(* rk_video_deinit and rk_video_restart return (lines 2463-2516): no join  *)
(* waits for a thread that does not see the flag.                          *)
RestartReturns == ctl = "stop" ~> ctl = "up" \/ main = "exited" \/ terminated

(* A request for a photo is served (lines 263-285, 2294-2303), also when   *)
(* it is made while the video restarts, unless the program stops or stream *)
(* 0 came up without an encoder, for which one of the streams is NV12.     *)
Unencoded == ctl = "up" /\ ~fed /\ SomeNV12
PhotoServed ==
  photo ~> ~photo \/ Unencoded \/ main \in {"stopping", "returning", "exited"} \/ terminated

(* Developer guide: "rk_take_photo | Capture a photo". Until a picture is  *)
(* got after the call, the request is set.                                 *)
RequestKept == owed => photo

(* Configuration of the developer guide: "enable_npu = 1 ; Enable NPU      *)
(* algorithms". With it, while the video is up and main has started it,    *)
(* inference runs.                                                         *)
InferenceRuns == param.npu /\ ctl = "up" /\ main = "looping" => thr["yolo26"] # "done"
=============================================================================
