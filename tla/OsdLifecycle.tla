---------------------------- MODULE OsdLifecycle ----------------------------
(***************************************************************************)
(* Start, stop and restart of the on-screen display (common/osd/osd.c) and *)
(* of the thread that draws the time, with their two kinds of callers: the *)
(* video, which registers the callbacks that create and destroy regions    *)
(* before its rk_osd_init and takes them back after its rk_osd_deinit      *)
(* (video.cc), and the RPC rk_osd_restart, which assumes that they are     *)
(* there. Each of rk_osd_init and rk_osd_deinit holds g_osd_mutex; nothing *)
(* holds it between the two of a restart, and the time thread never takes  *)
(* it.                                                                     *)
(*                                                                         *)
(* An OSD is a text (or an image, which is handled alike), a clock or a    *)
(* mask; any other string is stored as well, and is then no OSD at all.    *)
(* Texts and clocks are overlays of the encoder channels, masks are covers *)
(* or mosaics of the input channel. A mask whose style is neither counts   *)
(* as a type that is not known. Calling a null callback, and destroying    *)
(* the signal while the time thread waits on it, is undefined: ub records  *)
(* it. Fonts are left out, since drawing without one only gives an empty   *)
(* picture, and so are failures of malloc, sem_init and pthread_create.    *)
(***************************************************************************)
EXTENDS Integers, FiniteSets

CONSTANTS
  MaxOsd,        \* MAX_OSD_NUM
  Rpcs,          \* connections that call rk_osd_restart
  MaxThreads,    \* bound: time threads that are not joined yet
  Nobody,        \* holds a mutex that is free
  MaxCalls,      \* bound: times the video is stopped and RPCs are made
  MaxSets        \* bound: changes of parameters

ASSUME OsdAssumption ==
  /\ MaxOsd \in Nat \ {0}
  /\ MaxCalls \in Nat /\ MaxSets \in Nat
  /\ MaxThreads \in Nat
  /\ "video" \notin Rpcs /\ Nobody \notin Rpcs \union {"video"}

Osds == 0..(MaxOsd - 1)
Callers == Rpcs \union {"video"}
Threads == 1..MaxThreads
NoThread == 0
Types == {"text", "dateTime", "mask", "other"}

VARIABLES
  type,          \* osd.N:type
  enabled,       \* osd.N:enabled
  serving,       \* main has started the RPC server, after the video
  registered,    \* the callbacks are not null
  mutex,         \* g_osd_mutex: who holds it, or Nobody
  pc,            \* where each caller is
  idx,           \* the loop variable of the caller in rk_osd_init
  serverRun,     \* g_osd_server_run_
  timeRun,       \* g_osd_time_server_run_
  tid,           \* osd_time_thread_id_, NoThread before the first
  signal,        \* g_osd_signal is not null
  thr,           \* where each time thread is
  id,            \* its osd_time_id
  regions,       \* the kind of the region each handle stands for, or "none"
  ub,            \* something undefined has happened
  count,         \* how often each bounded call was made
  hist           \* history, see Init

paramVars == <<type, enabled>>
thrVars == <<thr, id>>
vars == <<paramVars, serving, registered, mutex, pc, idx, serverRun, timeRun, tid, signal,
          thrVars, regions, ub, count, hist>>

(* The OSDs of the factory file.                                           *)
FirstType(i) == IF i = 1 THEN "dateTime" ELSE IF i \in {4, 5} THEN "mask" ELSE "text"

Init ==
  /\ type = [i \in Osds |-> FirstType(i)]
  /\ enabled = [i \in Osds |-> i < 2]
  /\ serving = FALSE
  /\ registered = FALSE
  /\ mutex = Nobody
  /\ pc = [c \in Callers |-> IF c = "video" THEN "down" ELSE "idle"]
  /\ idx = 0
  /\ serverRun = TRUE
  /\ timeRun = TRUE
  /\ tid = NoThread
  /\ signal = FALSE
  /\ thr = [t \in Threads |-> "none"]
  /\ id = [t \in Threads |-> 0]
  /\ regions = [i \in Osds |-> "none"]
  /\ ub = FALSE
  /\ count = [call |-> 0, set |-> 0]
  /\ hist = [overlap |-> FALSE,    \* a restart met another one, or a video that is not up
             failed  |-> FALSE,    \* a clock's region could not be created
             clocks  |-> FALSE,    \* two clocks were started together
             retyped |-> {}]       \* OSDs whose type came to be of another kind

Live == {t \in Threads : thr[t] \notin {"none", "done"}}
Goto(c, state) == pc' = [pc EXCEPT ![c] = state]
Move(t, state) == thr' = [thr EXCEPT ![t] = state]

(* A thread returns. Only the last one can be joined; the identity of      *)
(* another is free again.                                                  *)
End(t) ==
  /\ Move(t, IF t = tid THEN "done" ELSE "none")
  /\ id' = [id EXCEPT ![t] = 0]

Idle(c) == pc[c] \in {"idle", "down", "up"}

(* The callbacks that create and destroy the region of an OSD of a type:   *)
(* rkipc_osd_bmp_*, or rkipc_osd_cover_* and rkipc_osd_mosaic_*, or none.  *)
Kind(v) ==
  IF v \in {"text", "dateTime"} THEN "overlay" ELSE IF v = "mask" THEN "mask" ELSE "none"

(* RK_MPI_RGN_Create with a handle that is in use fails, and the callback  *)
(* destroys the region that is there, without detaching it: whether such a *)
(* region goes away is up to the driver.                                   *)
Create(i) ==
  IF regions[i] = "none" THEN {[regions EXCEPT ![i] = Kind(type[i])]}
  ELSE {regions, [regions EXCEPT ![i] = "none"]}

-----------------------------------------------------------------------------
(* The callers                                                             *)

(* rkipc_osd_init registers the callbacks, then initialises.               *)
Register ==
  /\ pc["video"] = "down"
  /\ registered' = TRUE
  /\ Goto("video", "init")
  /\ UNCHANGED <<paramVars, serving, mutex, idx, serverRun, timeRun, tid, signal, thrVars, regions,
                 ub, count, hist>>

(* rk_video_deinit, of a restart by some setter or of the end, calls       *)
(* rkipc_osd_deinit; ser_rk_osd_restart is called.                         *)
Begin(c) ==
  /\ pc[c] \in {"up", "idle"}
  /\ serving
  /\ count.call < MaxCalls
  /\ count' = [count EXCEPT !.call = @ + 1]
  /\ Goto(c, "deinit")
  /\ hist' = [hist EXCEPT !.overlap = @ \/ \E d \in Callers \ {c} : pc[d] \notin {"up", "idle"}]
  /\ UNCHANGED <<paramVars, serving, registered, mutex, idx, serverRun, timeRun, tid, signal, thrVars,
                 regions, ub>>

(* rkipc_osd_deinit takes the callbacks back.                              *)
Unregister ==
  /\ pc["video"] = "unregister"
  /\ registered' = FALSE
  /\ Goto("video", "down")
  /\ UNCHANGED <<paramVars, serving, mutex, idx, serverRun, timeRun, tid, signal, thrVars, regions,
                 ub, count, hist>>

-----------------------------------------------------------------------------
(* rk_osd_deinit                                                           *)

(* Variant: the thread is not joined.                                      *)
StopWithoutJoin(c) ==
  /\ pc[c] = "deinit"
  /\ mutex = Nobody
  /\ mutex' = c
  /\ serverRun' = FALSE
  /\ Goto(c, IF signal THEN "destroy" ELSE "regions")
  /\ UNCHANGED <<paramVars, serving, registered, idx, timeRun, tid, signal, thrVars, regions, ub,
                 count, hist>>

(* Variant: the thread is not told to stop.                                *)
StopKeepsRunning(c) ==
  /\ pc[c] = "deinit"
  /\ mutex = Nobody
  /\ mutex' = c
  /\ Goto(c, IF ~signal THEN "regions" ELSE IF timeRun THEN "join" ELSE "destroy")
  /\ UNCHANGED <<paramVars, serving, registered, idx, serverRun, timeRun, tid, signal, thrVars,
                 regions, ub, count, hist>>

(* The signal is given, which only ends a wait sooner. Whether to join is  *)
(* decided by what the last time thread found out about its region.        *)
DeinitStop(c) ==
  /\ pc[c] = "deinit"
  /\ mutex = Nobody
  /\ mutex' = c
  /\ serverRun' = FALSE
  /\ Goto(c, IF ~signal THEN "regions" ELSE IF timeRun THEN "join" ELSE "destroy")
  /\ UNCHANGED <<paramVars, serving, registered, idx, timeRun, tid, signal, thrVars, regions, ub,
                 count, hist>>

DeinitJoin(c) ==
  /\ pc[c] = "join"
  /\ thr[tid] = "done"
  /\ Move(tid, "none")
  /\ Goto(c, "destroy")
  /\ UNCHANGED <<paramVars, serving, registered, mutex, idx, serverRun, timeRun, tid, signal, id,
                 regions, ub, count, hist>>

DeinitSignal(c) ==
  /\ pc[c] = "destroy"
  /\ signal' = FALSE
  /\ ub' = \E t \in Threads : thr[t] = "wait"
  /\ Goto(c, "regions")
  /\ UNCHANGED <<paramVars, serving, registered, mutex, idx, serverRun, timeRun, tid, thrVars,
                 regions, count, hist>>

AfterDeinit(c) == IF c = "video" THEN "unregister" ELSE "init"

(* What the loop over the OSDs may leave. A region goes away if the type   *)
(* its OSD has by now names the callback that detaches it. It stays if     *)
(* that type is not known. If the type is of another kind, the callback    *)
(* detaches it from the wrong channel, and the driver decides. Without     *)
(* callbacks the one of a cover is skipped and the one of a mosaic is not. *)
Remaining(osds) ==
  {r \in [Osds -> {"none", "overlay", "mask"}] :
     \A i \in Osds :
       IF i \notin osds \/ Kind(type[i]) = "none" THEN r[i] = regions[i]
       ELSE IF registered /\ Kind(type[i]) = regions[i] THEN r[i] = "none"
       ELSE r[i] \in {"none", regions[i]}}

(* Variant: what is disabled by now is skipped.                            *)
DestroyEnabled(c) ==
  /\ pc[c] = "regions"
  /\ ub' = (~registered /\ \E i \in Osds : enabled[i] /\ Kind(type[i]) = "overlay")
  /\ regions' \in Remaining({i \in Osds : enabled[i]})
  /\ mutex' = Nobody
  /\ Goto(c, AfterDeinit(c))
  /\ UNCHANGED <<paramVars, serving, registered, idx, serverRun, timeRun, tid, signal, thrVars,
                 count, hist>>

(* The regions of all OSDs, whether they are enabled or not, as the if     *)
(* chain over the types has it. rk_osd_bmp_destroy_ is not tested for null *)
(* before it is called.                                                    *)
DeinitRegions(c) ==
  /\ pc[c] = "regions"
  /\ ub' = (~registered /\ \E i \in Osds : Kind(type[i]) = "overlay")
  /\ regions' \in Remaining(Osds)
  /\ mutex' = Nobody
  /\ Goto(c, AfterDeinit(c))
  /\ UNCHANGED <<paramVars, serving, registered, idx, serverRun, timeRun, tid, signal, thrVars,
                 count, hist>>

-----------------------------------------------------------------------------
(* rk_osd_init                                                             *)

InitLock(c) ==
  /\ pc[c] = "init"
  /\ mutex = Nobody
  /\ mutex' = c
  /\ idx' = 0
  /\ Goto(c, "loop")
  /\ UNCHANGED <<paramVars, serving, registered, serverRun, timeRun, tid, signal, thrVars, regions,
                 ub, count, hist>>

InitSkip(c) ==
  /\ pc[c] = "loop"
  /\ idx < MaxOsd
  /\ ~enabled[idx] \/ type[idx] = "other"
  /\ idx' = idx + 1
  /\ UNCHANGED <<paramVars, serving, registered, mutex, pc, serverRun, timeRun, tid, signal, thrVars,
                 regions, ub, count, hist>>

(* The result of the callback is ignored, so other failures only mean one  *)
(* region less and are left out.                                           *)
InitText(c) ==
  /\ pc[c] = "loop"
  /\ idx < MaxOsd
  /\ enabled[idx] /\ type[idx] = "text"
  /\ ub' = ~registered
  /\ regions' \in Create(idx)
  /\ idx' = idx + 1
  /\ UNCHANGED <<paramVars, serving, registered, mutex, pc, serverRun, timeRun, tid, signal, thrVars,
                 count, hist>>

(* A cover is left out when there are no callbacks; those of mosaics are   *)
(* never taken back.                                                       *)
InitMask(c) ==
  /\ pc[c] = "loop"
  /\ idx < MaxOsd
  /\ enabled[idx] /\ type[idx] = "mask"
  /\ regions' \in Create(idx) \union (IF registered THEN {} ELSE {regions})
  /\ idx' = idx + 1
  /\ UNCHANGED <<paramVars, serving, registered, mutex, pc, serverRun, timeRun, tid, signal, thrVars,
                 ub, count, hist>>

(* The thread is created first (identities are given out in order) ...     *)
InitClock(c, t) ==
  /\ pc[c] = "loop"
  /\ idx < MaxOsd
  /\ enabled[idx] /\ type[idx] = "dateTime"
  /\ thr[t] = "none" /\ \A u \in 1..(t - 1) : thr[u] # "none"
  /\ serverRun' = TRUE
  /\ tid' = t
  /\ thr' = [u \in Threads |-> IF u = t THEN "start"
                              ELSE IF thr[u] = "done" THEN "none" ELSE thr[u]]
  /\ Goto(c, "signal")
  /\ UNCHANGED <<paramVars, serving, registered, mutex, idx, timeRun, signal, id, regions,
                 ub, count, hist>>

(* ... and the signal it waits on after it, in place of the one there is.  *)
InitSignal(c) ==
  /\ pc[c] = "signal"
  /\ ub' = (signal /\ \E t \in Threads : thr[t] = "wait")
  /\ signal' = TRUE
  /\ hist' = [hist EXCEPT !.clocks = @ \/ signal]
  /\ idx' = idx + 1
  /\ Goto(c, "loop")
  /\ UNCHANGED <<paramVars, serving, registered, mutex, serverRun, timeRun, tid, thrVars,
                 regions, count>>

InitDone(c) ==
  /\ pc[c] = "loop"
  /\ idx = MaxOsd
  /\ mutex' = Nobody
  /\ Goto(c, IF c = "video" THEN "up" ELSE "idle")
  /\ serving' = TRUE
  /\ UNCHANGED <<paramVars, registered, idx, serverRun, timeRun, tid, signal, thrVars,
                 regions, ub, count, hist>>

-----------------------------------------------------------------------------
(* osd_time_server                                                         *)

(* Variant: no OSD when there is no clock any more.                        *)
TimeIdOrNone ==
  LET clocks == {i \in Osds : type[i] = "dateTime"}
  IN  IF clocks = {} THEN -1 ELSE CHOOSE i \in clocks : \A j \in clocks : j <= i

(* The last OSD of type dateTime, enabled or not; 0 if there is none.      *)
TimeId ==
  LET clocks == {i \in Osds : type[i] = "dateTime"}
  IN  IF clocks = {} THEN 0 ELSE CHOOSE i \in clocks : \A j \in clocks : j <= i

TimeStart(t) ==
  /\ thr[t] = "start"
  /\ id' = [id EXCEPT ![t] = TimeId]
  /\ Move(t, "create")
  /\ UNCHANGED <<paramVars, serving, registered, mutex, pc, idx, serverRun, timeRun, tid, signal,
                 regions, ub, count, hist>>

TimeCreate(t) ==
  /\ thr[t] = "create"
  /\ ub' = ~registered
  /\ regions[id[t]] = "none"
  /\ regions' = [regions EXCEPT ![id[t]] = "overlay"]
  /\ Move(t, "flag")
  /\ UNCHANGED <<paramVars, serving, registered, mutex, pc, idx, serverRun, timeRun, tid,
                 signal, id, count, hist>>

(* The handle is in use, or the call fails before or after there is a      *)
(* region. The thread gives up and clears the flag that says it is to be   *)
(* joined.                                                                 *)
TimeFails(t) ==
  /\ thr[t] = "create"
  /\ ub' = ~registered
  /\ regions' \in {regions, [regions EXCEPT ![id[t]] = IF @ = "none" THEN "overlay" ELSE "none"]}
  /\ timeRun' = FALSE
  /\ End(t)
  /\ hist' = [hist EXCEPT !.failed = TRUE]
  /\ UNCHANGED <<paramVars, serving, registered, mutex, pc, idx, serverRun, tid, signal, count>>

(* The thread is to be joined. Until then the flag is what the thread      *)
(* before this one left.                                                   *)
TimeFlag(t) ==
  /\ thr[t] = "flag"
  /\ timeRun' = TRUE
  /\ Move(t, "loop")
  /\ UNCHANGED <<paramVars, serving, registered, mutex, pc, idx, serverRun, tid, signal, id,
                 regions, ub, count, hist>>

(* rk_signal_wait returns at once while there is no signal.                *)
TimeLoop(t) ==
  /\ thr[t] = "loop"
  /\ \/ ~serverRun /\ End(t)
     \/ serverRun /\ Move(t, IF signal THEN "wait" ELSE "awake") /\ UNCHANGED id
  /\ UNCHANGED <<paramVars, serving, registered, mutex, pc, idx, serverRun, timeRun, tid,
                 signal, regions, ub, count, hist>>

(* After 100 ms at most.                                                   *)
TimeWake(t) ==
  /\ thr[t] = "wait"
  /\ Move(t, "awake")
  /\ UNCHANGED <<paramVars, serving, registered, mutex, pc, idx, serverRun, timeRun, tid,
                 signal, id, regions, ub, count, hist>>

(* rk_osd_bmp_change_: nothing is drawn within the same second, and a      *)
(* region that does not exist is ignored.                                  *)
TimeDraw(t) ==
  /\ thr[t] = "awake"
  /\ ub' \in {FALSE, ~registered}
  /\ Move(t, "loop")
  /\ UNCHANGED <<paramVars, serving, registered, mutex, pc, idx, serverRun, timeRun, tid,
                 signal, id, regions, count, hist>>

-----------------------------------------------------------------------------
(* RPCs that change parameters; they take effect with the next restart.    *)
(* Any string is a type, and any string the style of a mask.               *)
rk_osd_set_type(i, v) ==
  /\ serving
  /\ count.set < MaxSets
  /\ v # type[i]
  /\ type' = [type EXCEPT ![i] = v]
  /\ count' = [count EXCEPT !.set = @ + 1]
  /\ hist' = [hist EXCEPT !.retyped = IF Kind(v) = Kind(type[i]) THEN @ ELSE @ \union {i}]
  /\ UNCHANGED <<enabled, serving, registered, mutex, pc, idx, serverRun, timeRun, tid, signal,
                 thrVars, regions, ub>>

rk_osd_set_enabled(i) ==
  /\ serving
  /\ count.set < MaxSets
  /\ enabled' = [enabled EXCEPT ![i] = ~@]
  /\ count' = [count EXCEPT !.set = @ + 1]
  /\ UNCHANGED <<type, serving, registered, mutex, pc, idx, serverRun, timeRun, tid, signal,
                 thrVars, regions, ub, hist>>

-----------------------------------------------------------------------------
rk_osd_deinit(c) == DeinitStop(c) \/ DeinitJoin(c) \/ DeinitSignal(c) \/ DeinitRegions(c)

rk_osd_init(c) ==
  \/ InitLock(c)
  \/ InitSkip(c)
  \/ InitText(c)
  \/ InitMask(c)
  \/ \E t \in Threads : InitClock(c, t)
  \/ InitSignal(c)
  \/ InitDone(c)

osd_time_server(t) ==
  \/ TimeStart(t)
  \/ TimeCreate(t)
  \/ TimeFails(t)
  \/ TimeFlag(t)
  \/ TimeLoop(t)
  \/ TimeWake(t)
  \/ TimeDraw(t)

(* Nothing is said of what happens after something undefined.              *)
Next ==
  /\ ~ub
  /\ \/ Register
     \/ Unregister
     \/ \E c \in Callers : Begin(c) \/ rk_osd_deinit(c) \/ rk_osd_init(c)
     \/ \E t \in Threads : osd_time_server(t)
     \/ \E i \in Osds :
          \/ rk_osd_set_enabled(i)
          \/ \E v \in Types : rk_osd_set_type(i, v)

Spec == Init /\ [][Next]_vars

(* Calls that have begun go on, and threads are scheduled.                 *)
Fairness ==
  /\ \A c \in Callers : WF_vars(~ub /\ (rk_osd_deinit(c) \/ rk_osd_init(c)))
  /\ WF_vars(~ub /\ Unregister)
  /\ \A t \in Threads : WF_vars(~ub /\ osd_time_server(t))

FairSpec == Spec /\ Fairness

-----------------------------------------------------------------------------
TypeOK ==
  /\ type \in [Osds -> Types]
  /\ enabled \in [Osds -> BOOLEAN]
  /\ serving \in BOOLEAN /\ registered \in BOOLEAN
  /\ mutex \in Callers \union {Nobody}
  /\ pc \in [Callers -> {"idle", "up", "down", "unregister", "deinit", "join", "destroy",
                         "regions", "init", "loop", "signal"}]
  /\ idx \in 0..MaxOsd
  /\ serverRun \in BOOLEAN /\ timeRun \in BOOLEAN /\ signal \in BOOLEAN /\ ub \in BOOLEAN
  /\ tid \in Threads \union {NoThread}
  /\ thr \in [Threads -> {"none", "start", "create", "flag", "loop", "wait", "awake", "done"}]
  /\ id \in [Threads -> Osds]
  /\ regions \in [Osds -> {"none", "overlay", "mask"}]

Clean == ~hist.overlap /\ ~hist.failed /\ ~hist.clocks

(* rk_osd_deinit never destroys a signal that is waited on, and no null    *)
(* callback is called, however start, restart, parameter changes and the   *)
(* time thread interleave, unless a restart overlapped with another one or *)
(* with a video that was down, a clock's region could not be created (its  *)
(* thread is then not joined, nor is the next one until it has set the     *)
(* flag), or two clocks were enabled.                                      *)
OsdSafe == ub => ~Clean

(* When rkipc_osd_deinit has returned, and the encoder channels are about  *)
(* to be destroyed, no time thread and no signal is left of the display,   *)
(* and no region either, whatever was enabled, disabled, moved or turned   *)
(* from a text into a clock since it was started. The exception are OSDs   *)
(* whose type was set to one of another kind or to a string that           *)
(* rk_osd_deinit does not know: it decides by the type an OSD has now how, *)
(* and whether, the region it got before is destroyed.                     *)
DeinitLeavesNothing ==
  pc["video"] = "down" /\ Clean =>
    Live = {} /\ ~signal /\ \A i \in Osds \ hist.retyped : regions[i] = "none"

(* A start, stop or restart of the display comes to an end: the join in    *)
(* rk_osd_deinit, with g_osd_mutex held, does not wait for ever, in none   *)
(* of the cases above.                                                     *)
OsdCallReturns == \A c \in Callers : ~Idle(c) ~> (Idle(c) \/ ub)
=============================================================================
