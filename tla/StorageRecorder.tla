--------------------------- MODULE StorageRecorder ---------------------------
(***************************************************************************)
(* Recording one stream (common/storage/storage.c): the recorder thread    *)
(* rk_storage_record, the functions that start and stop it, and the four   *)
(* threads that call them without a common lock:                           *)
(*   - the control thread, in rk_storage_init and rk_storage_deinit (main  *)
(*     and rk_video_restart),                                              *)
(*   - the message thread, when a disk was added or removed,               *)
(*   - the uevent listener, which clears the run flag on its own,          *)
(*   - the RPC threads, in rk_storage_record_start and _stop.              *)
(* The streams share nothing but g_rkmuxer_mutex; a section of it is one   *)
(* step. Of the file scan thread there is only what the joins of the       *)
(* message thread and of rk_storage_deinit depend on: where it looks at    *)
(* the mount status and where it sets it; its files are in StorageFolder.  *)
(***************************************************************************)
EXTENDS Naturals, Sequences, FiniteSets

CONSTANTS
  MaxRestarts, \* bound: how often the storage is initialised
  MaxEvents,   \* bound: device events
  MaxCalls     \* bound: RPC calls

ASSUME RecorderAssumption ==
  MaxRestarts \in Nat /\ MaxEvents \in Nat /\ MaxCalls \in Nat

(* A recorder is started by an initialisation or by an added disk; the     *)
(* signals made for the recorders have the same numbers.                   *)
MaxInits == MaxRestarts + MaxEvents
Recs == 1..MaxInits
Callers == {"ctl", "msg"}
Events == {"add", "remove"}  \* of any partition or disk

VARIABLES
  enable,      \* storage.N:enable; nothing sets it at run time
  recordFlag,  \* record_flag[id] = 1
  storageFlag, \* g_storage_record_flag[id]
  signal,      \* g_storage_signal: 0 or a signal
  sem,         \* value of each signal
  freed,       \* the signals that were destroyed
  tid,         \* record_thread_id: 0 or a recorder
  rec,         \* where each recorder is
  waits,       \* the signal each recorder waits for
  joined,      \* recorders that were joined
  file,        \* what the muxer writes: "none", "auto" or "manual"
  recordRun,   \* g_record_run_
  ctl,         \* where the control thread is
  listener,    \* "off", "idle" or the event whose message it has to send
  msg,         \* what the message thread is doing
  queue,       \* msg_hd: messages not yet taken
  mount,       \* dev_sta.mount_status
  scan,        \* where the thread of file_scan_tid is
  lost,        \* history: a set DISK_UNMOUNTED was overwritten with
               \* DISK_MOUNTED, or the id of a running scan thread was
  call,        \* where each caller is inside muxer_init/deinit_by_id
  made,        \* recorder threads made so far
  inits,       \* calls of rk_storage_init
  nEvents,     \* device events
  nCalls,      \* RPC calls
  stopped,     \* record_stop ended a recording and nothing started one since
  ub,          \* undefined behaviour: use after free, or a second join
  raced        \* a message was handled while the control thread was not idle

sigVars == <<signal, sem, freed>>
recVars == <<tid, rec, waits, joined, made>>
muxVars == <<file, recordRun>>
flagVars == <<recordFlag, storageFlag>>
scanVars == <<mount, scan, lost>>
devVars == <<listener, msg, queue, nEvents>>
ctlVars == <<ctl, inits>>
rpcVars == <<nCalls, stopped>>
vars == <<enable, scanVars, sigVars, recVars, muxVars, flagVars, devVars, ctlVars, call,
          rpcVars, ub, raced>>

Init ==
  /\ enable \in BOOLEAN
  /\ recordFlag = FALSE
  /\ storageFlag = FALSE
  /\ signal = 0
  /\ sem = [r \in Recs |-> 0]
  /\ freed = {}
  /\ tid = 0
  /\ rec = [r \in Recs |-> "none"]
  /\ waits = [r \in Recs |-> 0]
  /\ joined = {}
  /\ file = "none"
  /\ recordRun = FALSE
  /\ ctl = "down"
  /\ listener = "off"
  /\ msg = "off"
  /\ queue = <<>>
  /\ mount = "unmounted"
  /\ scan = "none"
  /\ lost = FALSE
  /\ call = [w \in Callers |-> "idle"]
  /\ made = 0
  /\ inits = 0
  /\ nEvents = 0
  /\ nCalls = 0
  /\ stopped = FALSE
  /\ ub = FALSE
  /\ raced = FALSE

Goto(w, p) == call' = [call EXCEPT ![w] = p]
Waiting(s) == \E r \in Recs : rec[r] = "wait" /\ waits[r] = s

-----------------------------------------------------------------------------
(* rk_storage_muxer_deinit_by_id, called by w                              *)

(* Variant: the flag is not cleared.                                       *)
KeepFlag(w) ==
  /\ call[w] = "deinit"
  /\ Goto(w, IF enable THEN "check" ELSE "idle")
  /\ UNCHANGED <<enable, scanVars, flagVars, sigVars, recVars, muxVars, devVars, ctlVars, rpcVars, ub>>

ClearFlag(w) ==
  /\ call[w] = "deinit"
  /\ IF ~enable
     THEN Goto(w, "idle") /\ UNCHANGED storageFlag
     ELSE Goto(w, "check") /\ storageFlag' = FALSE
  /\ UNCHANGED <<enable, scanVars, recordFlag, sigVars, recVars, muxVars, devVars, ctlVars, rpcVars, ub>>

CheckSignal(w) ==
  /\ call[w] = "check"
  /\ Goto(w, IF signal = 0 THEN "idle" ELSE "give")
  /\ UNCHANGED <<enable, scanVars, sigVars, recVars, muxVars, flagVars, devVars, ctlVars, rpcVars, ub>>

(* rk_signal_give posts only below max_val = 1; it accepts a null pointer. *)
GiveSignal(w) ==
  /\ call[w] = "give"
  /\ ub' = (signal \in freed)
  /\ sem' = IF signal # 0 THEN [sem EXCEPT ![signal] = 1] ELSE sem
  /\ Goto(w, "join")
  /\ UNCHANGED <<enable, scanVars, signal, freed, recVars, muxVars, flagVars, devVars, ctlVars, rpcVars>>

(* Variant: the thread is not joined.                                      *)
SkipJoin(w) ==
  /\ call[w] = "join"
  /\ Goto(w, "free")
  /\ UNCHANGED <<enable, scanVars, sigVars, recVars, muxVars, flagVars, devVars, ctlVars, rpcVars, ub>>

JoinRecorder(w) ==
  /\ call[w] = "join"
  /\ \/ /\ tid \in joined \union {0}
        /\ ub' = TRUE
        /\ UNCHANGED <<joined, call>>
     \/ /\ tid \notin joined \union {0}
        /\ rec[tid] = "done"
        /\ joined' = joined \union {tid}
        /\ Goto(w, "free")
        /\ UNCHANGED ub
  /\ UNCHANGED <<enable, scanVars, sigVars, tid, rec, waits, made, muxVars, flagVars, devVars, ctlVars, rpcVars>>

(* rk_signal_destroy, in deinit ("free") and in init ("renew").            *)
DestroySignal(w) ==
  /\ call[w] \in {"free", "renew"}
  /\ ub' = (signal \in freed \/ Waiting(signal))
  /\ freed' = freed \union ({signal} \ {0})
  /\ sem' = IF signal # 0 THEN [sem EXCEPT ![signal] = 0] ELSE sem
  /\ Goto(w, IF call[w] = "free" THEN "null" ELSE "create")
  /\ UNCHANGED <<enable, scanVars, signal, recVars, muxVars, flagVars, devVars, ctlVars, rpcVars>>

(* Variant: the pointer to the destroyed signal is kept.                   *)
KeepPointer(w) ==
  /\ call[w] = "null"
  /\ Goto(w, "idle")
  /\ UNCHANGED <<enable, scanVars, sigVars, recVars, muxVars, flagVars, devVars, ctlVars, rpcVars, ub>>

NullSignal(w) ==
  /\ call[w] = "null"
  /\ signal' = 0
  /\ Goto(w, "idle")
  /\ UNCHANGED <<enable, scanVars, sem, freed, recVars, muxVars, flagVars, devVars, ctlVars, rpcVars, ub>>

-----------------------------------------------------------------------------
(* rk_storage_muxer_init_by_id, called by w: reads the parameters, makes   *)
(* the folder (which may fail), and stops here when enable is 0.           *)
ReadParams(w) ==
  /\ call[w] = "init"
  /\ \/ Goto(w, "idle")
     \/ enable /\ Goto(w, IF signal # 0 THEN "renew" ELSE "create")
  /\ UNCHANGED <<enable, scanVars, sigVars, recVars, muxVars, flagVars, devVars, ctlVars, rpcVars, ub>>

CreateSignal(w) ==
  /\ call[w] = "create"
  /\ made < MaxInits
  /\ made' = made + 1
  /\ signal' = made + 1
  /\ Goto(w, "spawn")
  /\ UNCHANGED <<enable, scanVars, sem, freed, tid, rec, waits, joined, muxVars, flagVars, devVars, ctlVars, rpcVars, ub>>

(* The flag is set, then the thread is made. Clearing the flag in between  *)
(* is the same as clearing it before the thread's first look at it.        *)
SpawnRecorder(w) ==
  /\ call[w] = "spawn"
  /\ storageFlag' = TRUE
  /\ \E r \in 1..made :
       /\ rec[r] = "none"
       /\ rec' = [rec EXCEPT ![r] = "test"]
       /\ tid' = r
  /\ stopped' = FALSE
  /\ Goto(w, "idle")
  /\ UNCHANGED <<enable, scanVars, recordFlag, sigVars, waits, joined, made, muxVars, devVars, ctlVars, nCalls, ub>>

MuxerCall(w) ==
  \/ ClearFlag(w)
  \/ CheckSignal(w)
  \/ GiveSignal(w)
  \/ JoinRecorder(w)
  \/ DestroySignal(w)
  \/ NullSignal(w)
  \/ ReadParams(w)
  \/ CreateSignal(w)
  \/ SpawnRecorder(w)

-----------------------------------------------------------------------------
(* rk_storage_record, the recorder thread                                  *)

TestFlags(r) ==
  /\ rec[r] = "test"
  /\ rec' = [rec EXCEPT ![r] = IF storageFlag /\ recordFlag THEN "open" ELSE "close"]
  /\ UNCHANGED <<enable, scanVars, sigVars, tid, waits, joined, made, muxVars, flagVars, devVars, ctlVars, call, rpcVars, ub>>

(* Closes the previous file and opens the next one.                        *)
OpenMuxer(r) ==
  /\ rec[r] = "open"
  /\ rec' = [rec EXCEPT ![r] = "sleep"]
  /\ file' = "auto"
  /\ recordRun' = TRUE
  /\ UNCHANGED <<enable, scanVars, sigVars, tid, waits, joined, made, flagVars, devVars, ctlVars, call, rpcVars, ub>>

(* rk_signal_wait returns at once for a null pointer.                      *)
StartWait(r) ==
  /\ rec[r] = "sleep"
  /\ ub' = (signal \in freed)
  /\ waits' = [waits EXCEPT ![r] = signal]
  /\ rec' = [rec EXCEPT ![r] = IF signal = 0 THEN "test" ELSE "wait"]
  /\ UNCHANGED <<enable, scanVars, sigVars, tid, joined, made, muxVars, flagVars, devVars, ctlVars, call, rpcVars>>

WaitSignalled(r) ==
  /\ rec[r] = "wait"
  /\ sem[waits[r]] = 1
  /\ sem' = [sem EXCEPT ![waits[r]] = 0]
  /\ rec' = [rec EXCEPT ![r] = "test"]
  /\ UNCHANGED <<enable, scanVars, signal, freed, tid, waits, joined, made, muxVars, flagVars, devVars, ctlVars, call, rpcVars, ub>>

(* file_duration is over.                                                  *)
WaitTimesOut(r) ==
  /\ rec[r] = "wait"
  /\ rec' = [rec EXCEPT ![r] = "test"]
  /\ UNCHANGED <<enable, scanVars, sigVars, tid, waits, joined, made, muxVars, flagVars, devVars, ctlVars, call, rpcVars, ub>>

(* Variant: the thread ends without closing its file.                      *)
ExitWithoutClose(r) ==
  /\ rec[r] = "close"
  /\ rec' = [rec EXCEPT ![r] = "done"]
  /\ UNCHANGED <<enable, scanVars, sigVars, tid, waits, joined, made, muxVars, flagVars, devVars, ctlVars, call, rpcVars, ub>>

CloseMuxer(r) ==
  /\ rec[r] = "close"
  /\ rec' = [rec EXCEPT ![r] = "done"]
  /\ file' = "none"
  /\ recordRun' = FALSE
  /\ UNCHANGED <<enable, scanVars, sigVars, tid, waits, joined, made, flagVars, devVars, ctlVars, call, rpcVars, ub>>

Recorder(r) ==
  \/ TestFlags(r)
  \/ OpenMuxer(r)
  \/ StartWait(r)
  \/ WaitSignalled(r)
  \/ CloseMuxer(r)

-----------------------------------------------------------------------------
(* The RPC handlers. The server is up before and after the storage is.     *)
rk_storage_record_start ==
  /\ nCalls < MaxCalls
  /\ nCalls' = nCalls + 1
  /\ file' = "manual"
  /\ recordRun' = TRUE
  /\ stopped' = FALSE
  /\ UNCHANGED <<enable, scanVars, sigVars, recVars, flagVars, devVars, ctlVars, call, ub>>

rk_storage_record_stop ==
  /\ nCalls < MaxCalls
  /\ nCalls' = nCalls + 1
  /\ file' = "none"
  /\ recordRun' = FALSE
  /\ stopped' = (stopped \/ recordRun)
  /\ UNCHANGED <<enable, scanVars, sigVars, recVars, flagVars, devVars, ctlVars, call, ub>>

-----------------------------------------------------------------------------
(* rk_storage_init and rk_storage_deinit                                   *)

(* rkipc_storage_set_dev_attr: the device may be missing at this time.     *)
SetDevAttr ==
  /\ ctl = "down"
  /\ inits < MaxRestarts
  /\ inits' = inits + 1
  /\ \E present \in BOOLEAN : recordFlag' = (present /\ enable)
  /\ ctl' = "manager"
  /\ UNCHANGED <<enable, scanVars, storageFlag, sigVars, recVars, muxVars, devVars, call, rpcVars, ub>>

(* The scan thread is started if the disk is there.                        *)
ManagerInit ==
  /\ ctl = "manager"
  /\ \/ mount' = "scanning" /\ scan' = "test"
     \/ mount' = "unmounted" /\ scan' = "none"
  /\ msg' = "idle"
  /\ listener' = "idle"
  /\ queue' = <<>>
  /\ ctl' = "init"
  /\ Goto("ctl", "init")
  /\ UNCHANGED <<enable, lost, flagVars, sigVars, recVars, muxVars, nEvents, inits, rpcVars, ub>>

InitReturns ==
  /\ ctl = "init"
  /\ call["ctl"] = "idle"
  /\ ctl' = "up"
  /\ UNCHANGED <<enable, scanVars, flagVars, sigVars, recVars, muxVars, devVars, inits, call, rpcVars, ub>>

BeginDeinit ==
  /\ ctl = "up"
  /\ ctl' = "deinit"
  /\ Goto("ctl", "deinit")
  /\ UNCHANGED <<enable, scanVars, flagVars, sigVars, recVars, muxVars, devVars, inits, rpcVars, ub>>

(* rkipc_storage_manager_deinit: join the listener, then tell the message  *)
(* thread to quit and join it.                                             *)
JoinListener ==
  /\ ctl = "deinit"
  /\ call["ctl"] = "idle"
  /\ listener = "idle"
  /\ listener' = "off"
  /\ ctl' = "joinmsg"
  /\ UNCHANGED <<enable, scanVars, flagVars, sigVars, recVars, muxVars, msg, queue, nEvents, inits, call, rpcVars, ub>>

(* A message that was queued when quit was set is never handled. Then      *)
(* rkipc_storage_auto_delete_deinit sets the status ...                    *)
JoinMsgThread ==
  /\ ctl = "joinmsg"
  /\ msg = "idle"
  /\ msg' = "off"
  /\ mount' = "unmounted"
  /\ ctl' = "joinscan"
  /\ UNCHANGED <<enable, scan, lost, flagVars, sigVars, recVars, muxVars, listener, queue, nEvents, inits, call, rpcVars, ub>>

(* ... and joins the scan thread, if there is one.                         *)
JoinScanThread ==
  /\ ctl = "joinscan"
  /\ scan \in {"none", "done"}
  /\ scan' = "none"
  /\ ctl' = "down"
  /\ UNCHANGED <<enable, mount, lost, flagVars, sigVars, recVars, muxVars, devVars, inits, call, rpcVars, ub>>

Control ==
  \/ ManagerInit
  \/ InitReturns
  \/ JoinListener
  \/ JoinMsgThread
  \/ JoinScanThread
  \/ MuxerCall("ctl")

-----------------------------------------------------------------------------
(* rkipc_storage_event_listener_thread: a removal of any partition or disk *)
(* clears the flags before the message is sent.                            *)
ReceiveEvent(e) ==
  /\ listener = "idle"
  /\ nEvents < MaxEvents
  /\ nEvents' = nEvents + 1
  /\ listener' = e
  /\ storageFlag' = IF e = "remove" THEN FALSE ELSE storageFlag
  /\ UNCHANGED <<enable, scanVars, recordFlag, sigVars, recVars, muxVars, msg, queue, ctlVars, call, rpcVars, ub>>

(* Variant: the message is made when the event is already forgotten.       *)
SendForgotten ==
  /\ listener \in Events
  /\ listener' = "idle"
  /\ queue' = Append(queue, listener')
  /\ UNCHANGED <<enable, scanVars, flagVars, sigVars, recVars, muxVars, msg, nEvents, ctlVars, call, rpcVars, ub>>

SendMessage ==
  /\ listener \in Events
  /\ queue' = Append(queue, listener)
  /\ listener' = "idle"
  /\ UNCHANGED <<enable, scanVars, flagVars, sigVars, recVars, muxVars, msg, nEvents, ctlVars, call, rpcVars, ub>>

(* rkipc_storage_dev_add refuses a disk unless it is the one of the        *)
(* attributes and is mounted where they say; it notes that it is not       *)
(* mounted if the attributes name it.                                      *)
RefuseDisk ==
  /\ Head(queue) = "add"
  /\ mount' \in {mount, "not_formatted"}
  /\ UNCHANGED <<recordFlag, call, msg, scan, lost>>

(* Otherwise it starts a scan thread, whatever became of the one before.   *)
AddDisk ==
  /\ Head(queue) = "add"
  /\ mount' = "scanning"
  /\ scan' = "test"
  /\ lost' = (lost \/ scan \notin {"none", "done"})
  /\ recordFlag' = enable
  /\ msg' = IF enable THEN "add" ELSE "handling"
  /\ Goto("msg", "deinit")

(* Variant: the recorder is left to notice the flags by itself.            *)
RemoveWithoutStop ==
  /\ Head(queue) = "remove"
  /\ recordFlag' = FALSE
  /\ msg' = "handling"
  /\ UNCHANGED <<call, scanVars>>

(* Recording is stopped whichever disk was removed, ...                    *)
RemoveOther ==
  /\ Head(queue) = "remove"
  /\ recordFlag' = FALSE
  /\ msg' = "handling"
  /\ Goto("msg", "deinit")
  /\ UNCHANGED scanVars

(* ... after the scan thread, if the disk was its own.                     *)
RemoveDisk ==
  /\ Head(queue) = "remove"
  /\ mount' = "unmounted"
  /\ msg' = "joinscan"
  /\ UNCHANGED <<recordFlag, call, scan, lost>>

(* rkipc_storage_msg_rec_msg_thread and rkipc_storage_msg_rec_cb           *)
TakeMessage ==
  /\ msg = "idle"
  /\ queue # <<>>
  /\ queue' = Tail(queue)
  /\ RefuseDisk \/ AddDisk \/ RemoveOther \/ RemoveDisk
  /\ UNCHANGED <<enable, storageFlag, sigVars, recVars, muxVars, listener, nEvents, ctlVars, rpcVars, ub>>

ScanJoined ==
  /\ msg = "joinscan"
  /\ scan \in {"none", "done"}
  /\ scan' = "none"
  /\ recordFlag' = FALSE
  /\ msg' = "handling"
  /\ Goto("msg", "deinit")
  /\ UNCHANGED <<enable, mount, lost, storageFlag, sigVars, recVars, muxVars, listener, queue, nEvents, ctlVars, rpcVars, ub>>

RestartRecorder ==
  /\ msg = "add"
  /\ call["msg"] = "idle"
  /\ msg' = "handling"
  /\ Goto("msg", "init")
  /\ UNCHANGED <<enable, scanVars, flagVars, sigVars, recVars, muxVars, listener, queue, nEvents, ctlVars, rpcVars, ub>>

MessageHandled ==
  /\ msg = "handling"
  /\ call["msg"] = "idle"
  /\ msg' = "idle"
  /\ UNCHANGED <<enable, scanVars, flagVars, sigVars, recVars, muxVars, listener, queue, nEvents, ctlVars, call, rpcVars, ub>>

Messages ==
  \/ TakeMessage
  \/ ScanJoined
  \/ RestartRecorder
  \/ MessageHandled
  \/ MuxerCall("msg")

-----------------------------------------------------------------------------
(* rkipc_storage_file_scan_thread: the folders are read and the status is  *)
(* tested; ...                                                             *)
others == <<enable, sigVars, recVars, muxVars, flagVars, devVars, ctlVars, call, rpcVars, ub>>

ScanTest ==
  /\ scan = "test"
  /\ scan' = IF mount = "unmounted" THEN "done" ELSE "set"
  /\ UNCHANGED <<others, mount, lost>>

(* ... then it is assigned, whatever it is now.                            *)
ScanSet ==
  /\ scan = "set"
  /\ mount' = "mounted"
  /\ lost' = (lost \/ mount = "unmounted")
  /\ scan' = "loop"
  /\ UNCHANGED others

(* The wait of the loop ends by the signal or after a minute; its monitor, *)
(* which looks at the status too, is joined.                               *)
ScanEnds ==
  /\ scan = "loop"
  /\ mount # "mounted"
  /\ scan' = "done"
  /\ UNCHANGED <<others, mount, lost>>

(* The monitor hears that the disk was unmounted.                          *)
MonitorUnmount ==
  /\ scan = "loop"
  /\ mount' = "unmounted"
  /\ UNCHANGED <<others, scan, lost>>

FileScan == ScanTest \/ ScanSet \/ ScanEnds

-----------------------------------------------------------------------------
Overlap == msg \in {"joinscan", "add", "handling"} /\ ctl # "up"

Step ==
  \/ Control
  \/ SetDevAttr
  \/ BeginDeinit
  \/ Messages
  \/ SendMessage
  \/ \E e \in Events : ReceiveEvent(e)
  \/ \E r \in Recs : Recorder(r) \/ WaitTimesOut(r)
  \/ rk_storage_record_start
  \/ rk_storage_record_stop
  \/ FileScan
  \/ MonitorUnmount

Do(A) == ~ub /\ A /\ raced' = (raced \/ Overlap')

(* After undefined behaviour, or when the bounds are reached, all is over. *)
Ended == (ub \/ (ctl = "down" /\ inits = MaxRestarts)) /\ UNCHANGED vars

Next == Do(Step) \/ Ended

Spec == Init /\ [][Next]_vars

(* The scheduler runs every thread that can go on. Nothing below needs     *)
(* file_duration to pass, an event to occur or the control thread to begin.*)
FairSpec ==
  /\ Spec
  /\ WF_vars(Do(Control))
  /\ WF_vars(Do(Messages))
  /\ WF_vars(Do(SendMessage))
  /\ WF_vars(Do(FileScan))
  /\ \A r \in Recs : WF_vars(Do(Recorder(r)))

-----------------------------------------------------------------------------
Calls == {"idle", "deinit", "check", "give", "join", "free", "null", "init", "renew", "create", "spawn"}

TypeOK ==
  /\ {enable, recordFlag, storageFlag, recordRun, stopped, ub, raced, lost} \subseteq BOOLEAN
  /\ mount \in {"scanning", "mounted", "unmounted", "not_formatted"}
  /\ scan \in {"none", "test", "set", "loop", "done"}
  /\ signal \in 0..MaxInits /\ tid \in 0..MaxInits /\ made \in 0..MaxInits
  /\ sem \in [Recs -> 0..1]
  /\ freed \subseteq Recs /\ joined \subseteq Recs
  /\ rec \in [Recs -> {"none", "test", "open", "sleep", "wait", "close", "done"}]
  /\ waits \in [Recs -> 0..MaxInits]
  /\ file \in {"none", "auto", "manual"}
  /\ ctl \in {"down", "manager", "init", "up", "deinit", "joinmsg", "joinscan"}
  /\ listener \in {"off", "idle"} \union Events
  /\ msg \in {"off", "idle", "joinscan", "add", "handling"}
  /\ queue \in Seq(Events)
  /\ call \in [Callers -> Calls]

Running == {r \in Recs : rec[r] \notin {"none", "done"}}

(* Unsynchronised as they are, the functions never join a thread twice or  *)
(* touch a destroyed signal (lines 1758-1766, 1790-1795) unless a hot-plug *)
(* message was handled while the control thread was starting or stopping   *)
(* the storage, which nothing prevents (rk_storage_deinit stops the        *)
(* recorders before it joins the message thread, lines 1835-1839).         *)
UndefinedOnlyByRace == ub => raced

(* With the same exception, at most one recorder runs for a stream,        *)
(* however the disk comes and goes.                                        *)
OneRecorder == ~raced => Cardinality(Running) <= 1

(* With the same exception, after rk_storage_deinit no recorder is left,   *)
(* the file it wrote is closed and its signal is gone. (A recording that   *)
(* rk_storage_record_start began stays open, see line 1786.)               *)
DownIsQuiet == ctl = "down" /\ ~raced => Running = {} /\ file # "auto" /\ signal = 0

(* When no event is on its way, a recorder that has opened a file will go  *)
(* on to the next one: the listener, which clears one flag ahead of the    *)
(* message whose handler sets the other, leaves none that ends silently.   *)
FlagsAgree ==
  /\ ctl = "up" /\ msg = "idle" /\ queue = <<>> /\ listener = "idle" /\ ~raced
  /\ \E r \in Recs : rec[r] \in {"sleep", "wait"}
  => storageFlag /\ recordFlag

(* rk_storage_deinit returns: the recorder leaves its wait at once, however*)
(* long file_duration is, because the signal keeps the one post, and the   *)
(* scan thread, which it joins last, leaves its loop - unless that thread  *)
(* overwrote the status that should end it or lost its id to a second one. *)
DeinitReturns == ctl = "deinit" ~> ctl = "down" \/ raced \/ lost

(* Developer guide: "rk_storage_record_stop | Stop recording". Once it has *)
(* returned, recording stays stopped until something starts it again.      *)
StopStaysStopped == stopped => ~recordRun
==============================================================================
