------------------------- MODULE OsdLifecycleProofs -------------------------
(***************************************************************************)
(* Proofs about OsdLifecycle for every number of OSDs, of connections that *)
(* restart the display, and of calls. The safety properties speak of runs  *)
(* that are Clean, and so does the part of the invariant that they need:   *)
(* one caller at a time is busy, where it is says whether there are        *)
(* callbacks, regions and a signal, and no thread but the last one lives.  *)
(***************************************************************************)
EXTENDS OsdLifecycle, WellFoundedInduction, TLAPS

HistType ==
  hist \in [overlap : BOOLEAN, failed : BOOLEAN, clocks : BOOLEAN, retyped : SUBSET Osds]

Busy(c) == pc[c] \notin {"up", "idle"}
Holding == {"join", "destroy", "regions", "loop", "signal"}
Signalling == \E c \in Callers : pc[c] = "signal"

(* What holds in every run: the callbacks are there unless the video is    *)
(* down, the mutex is held where it seems to be, and no RPC is served      *)
(* before the video is up.                                                 *)
Callbacks ==
  /\ pc["video"] # "idle"
  /\ \A c \in Rpcs : pc[c] \notin {"up", "down", "unregister"} /\ (~serving => pc[c] = "idle")
  /\ registered <=> pc["video"] # "down"

MutexHeld ==
  \A c \in Callers : /\ pc[c] \in Holding => mutex = c
                     /\ pc[c] = "signal" => idx < MaxOsd

(* As long as no restart met another one.                                  *)
OneBusy == ~hist.overlap => \A c, d \in Callers : Busy(c) /\ Busy(d) => c = d

(* In a clean run. The exception is the instant between the creation of a  *)
(* second clock's thread and of its signal, which ends the clean run.      *)
CleanDisplay ==
  Clean =>
    /\ ~ub
    /\ timeRun
    /\ \A c \in Callers :
         /\ pc[c] \in {"join", "destroy"} => signal
         /\ pc[c] \in {"regions", "unregister", "down", "init"} => ~signal
         /\ pc[c] \in {"unregister", "down", "init"} =>
              \A i \in Osds \ hist.retyped : regions[i] = "none"
         /\ pc[c] = "destroy" => Live = {}
    /\ ~(signal /\ Signalling) => Live \subseteq {tid}
    /\ signal \/ Signalling \/ Live = {}

(* In every run, of the OSDs whose type never came to be of another kind:  *)
(* the region one has is of the kind of its type, and the time thread only *)
(* draws on overlays. OSD 0, which it takes when there is no clock, is one *)
(* in the factory file.                                                    *)
Kinds ==
  \A i \in Osds \ hist.retyped :
    /\ Kind(type[i]) = Kind(FirstType(i))
    /\ regions[i] \in {"none", Kind(type[i])}
    /\ (\E t \in Threads : id[t] = i) => Kind(type[i]) = "overlay"

IInv == TypeOK /\ HistType /\ Callbacks /\ MutexHeld /\ OneBusy /\ CleanDisplay /\ Kinds
-----------------------------------------------------------------------------
(* Sets of numbers have a least element.                                   *)
LEMMA Least ==
  ASSUME NEW T, T \subseteq Nat, T # {}
  PROVE  \E x \in T : \A y \in T : x <= y
<1>1. PICK x \in T : \A y \in T : ~(<<y, x>> \in OpToRel(<, Nat))
  BY WFMin, NatLessThanWellFounded, Zenon
<1>2. \A y \in T : ~(y < x)
  BY <1>1, Zenon DEF OpToRel
<1> QED
  BY <1>2

(* The greatest element of a bounded one.                                  *)
LEMMA Greatest ==
  ASSUME NEW n \in Nat, NEW T, T \subseteq 0..n, T # {}
  PROVE  \E x \in T : \A y \in T : y <= x
<1> DEFINE U == {u \in Nat : \E y \in T : u = n - y}
<1>0. \A y \in T : y \in Nat /\ n - y \in Nat
  OBVIOUS
<1>1. U \subseteq Nat /\ U # {}
  <2>1. PICK y : y \in T
    OBVIOUS
  <2>2. n - y \in U
    BY <1>0, <2>1
  <2> QED
    BY <2>2
<1>2. PICK u \in U : \A v \in U : u <= v
  BY <1>1, Least
<1>3. PICK x \in T : u = n - x
  OBVIOUS
<1>4. ASSUME NEW y \in T PROVE y <= x
  <2>1. n - y \in U
    BY <1>0
  <2>2. n - x <= n - y
    BY <1>2, <1>3, <2>1
  <2> QED
    BY <1>0, <2>2
<1> QED
  BY <1>4

(* The time thread always finds an OSD to draw on.                         *)
LEMMA TimeIdIsOsd == TimeId \in Osds
<1> DEFINE clocks == {i \in Osds : type[i] = "dateTime"}
<1>1. CASE clocks = {}
  BY <1>1, OsdAssumption DEF TimeId, Osds
<1>2. CASE clocks # {}
  <2>1. MaxOsd - 1 \in Nat /\ clocks \subseteq 0..(MaxOsd - 1)
    BY OsdAssumption DEF Osds
  <2>2. \E i \in clocks : \A j \in clocks : j <= i
    BY <1>2, <2>1, Greatest
  <2>3. (CHOOSE i \in clocks : \A j \in clocks : j <= i) \in clocks
    BY <2>2
  <2> QED
    BY <1>2, <2>3 DEF TimeId
<1> QED
  BY <1>1, <1>2

(* It is a clock's, or the first one.                                      *)
LEMMA TimeIdFits == TimeId # 0 => Kind(type[TimeId]) = "overlay"
<1> SUFFICES ASSUME TimeId # 0 PROVE Kind(type[TimeId]) = "overlay"
  OBVIOUS
<1> DEFINE clocks == {i \in Osds : type[i] = "dateTime"}
<1>1. clocks # {}
  BY DEF TimeId
<1>2. MaxOsd - 1 \in Nat /\ clocks \subseteq 0..(MaxOsd - 1)
  BY OsdAssumption DEF Osds
<1>3. \E i \in clocks : \A j \in clocks : j <= i
  BY <1>1, <1>2, Greatest
<1>4. (CHOOSE i \in clocks : \A j \in clocks : j <= i) \in clocks
  BY <1>3
<1> QED
  BY <1>1, <1>4 DEF TimeId, Kind

(* The invariant holds initially: the video is down.                       *)
LEMMA InitIInv == Init => IInv
<1> SUFFICES ASSUME Init PROVE IInv
  OBVIOUS
<1>1. TypeOK /\ HistType
  <2>1. 0 \in Osds /\ 0 \in 0..MaxOsd
    BY OsdAssumption DEF Osds
  <2>2. /\ type \in [Osds -> Types] /\ enabled \in [Osds -> BOOLEAN]
        /\ regions \in [Osds -> {"none", "overlay", "mask"}]
    BY DEF Init, FirstType, Types
  <2>3. pc \in [Callers -> {"idle", "up", "down", "unregister", "deinit", "join", "destroy",
                          "regions", "init", "loop", "signal"}]
    BY DEF Init
  <2> QED
    BY <2>1, <2>2, <2>3 DEF Init, TypeOK, HistType, NoThread
<1>2. Callbacks /\ MutexHeld /\ OneBusy
  BY OsdAssumption DEF Init, Callbacks, MutexHeld, Holding, OneBusy, Busy, Callers
<1>3. CleanDisplay
  BY DEF Init, CleanDisplay, Signalling, Live, Callers
<1>4. Kinds
  BY DEF Init, Kinds, FirstType, Kind
<1> QED
  BY <1>1, <1>2, <1>3, <1>4 DEF IInv

(* In a clean run a time thread lives only while the display is up, being  *)
(* stopped and not joined yet, or being started.                           *)
LEMMA LiveThread ==
  ASSUME IInv, Clean, NEW t \in Live
  PROVE  /\ registered
         /\ \A c \in Callers : pc[c] \notin {"regions", "unregister", "down", "init", "destroy"}
<1>0. Callbacks /\ OneBusy /\ CleanDisplay
  BY DEF IInv
<1>1. signal \/ Signalling
  BY <1>0 DEF CleanDisplay
<1>2. \A c \in Callers : pc[c] \notin {"regions", "unregister", "down", "init", "destroy"}
  <2> SUFFICES ASSUME NEW c \in Callers,
                      pc[c] \in {"regions", "unregister", "down", "init", "destroy"}
               PROVE  FALSE
    OBVIOUS
  <2>1. pc[c] # "destroy" /\ ~signal
    BY <1>0 DEF CleanDisplay
  <2>2. PICK d \in Callers : pc[d] = "signal"
    BY <1>1, <2>1 DEF Signalling
  <2>3. Busy(c) /\ Busy(d)
    BY <2>2 DEF Busy
  <2>4. c = d
    BY <1>0, <2>3 DEF OneBusy, Clean
  <2> QED
    BY <2>2, <2>4
<1> QED
  BY <1>0, <1>2 DEF Callbacks, Callers

(* The video starts, and a stop or a restart begins and ends.              *)
LEMMA Calls ==
  ASSUME IInv, ~ub, NEW c \in Callers,
         Register \/ Unregister \/ Begin(c)
  PROVE  IInv'
<1> USE OsdAssumption DEF Callers, Osds, Threads, NoThread, paramVars, thrVars, Goto, Move
<1>0. TypeOK /\ HistType /\ Callbacks /\ MutexHeld /\ OneBusy /\ CleanDisplay /\ Kinds
  BY DEF IInv
<1>1. CASE Register
  <2>1. TypeOK'
    BY <1>0, <1>1 DEF TypeOK, Register
  <2>2. (HistType /\ Callbacks /\ MutexHeld)'
    BY <1>0, <1>1 DEF TypeOK, HistType, Callbacks, MutexHeld, Holding, Register
  <2>3. OneBusy'
    BY <1>0, <1>1 DEF TypeOK, HistType, Callbacks, OneBusy, Busy, Register
  <2>4. CleanDisplay'
    BY <1>0, <1>1 DEF TypeOK, HistType, Callbacks, OneBusy, Busy, CleanDisplay, Clean, Signalling,
                      Live, Register
  <2>5. Kinds'
    BY <1>0, <1>1 DEF TypeOK, HistType, Kinds, Register
  <2> QED
    BY <2>1, <2>2, <2>3, <2>4, <2>5 DEF IInv
<1>2. CASE Unregister
  <2>1. TypeOK'
    BY <1>0, <1>2 DEF TypeOK, Unregister
  <2>2. (HistType /\ Callbacks /\ MutexHeld)'
    BY <1>0, <1>2 DEF TypeOK, HistType, Callbacks, MutexHeld, Holding, Unregister
  <2>3. OneBusy'
    BY <1>0, <1>2 DEF TypeOK, HistType, Callbacks, OneBusy, Busy, Unregister
  <2>4. CleanDisplay'
    BY <1>0, <1>2 DEF TypeOK, HistType, Callbacks, OneBusy, Busy, CleanDisplay, Clean, Signalling,
                      Live, Unregister
  <2>5. Kinds'
    BY <1>0, <1>2 DEF TypeOK, HistType, Kinds, Unregister
  <2> QED
    BY <2>1, <2>2, <2>3, <2>4, <2>5 DEF IInv
<1>3. CASE Begin(c)
  <2>1. TypeOK'
    BY <1>0, <1>3 DEF TypeOK, Begin
  <2>2. (HistType /\ Callbacks /\ MutexHeld)'
    BY <1>0, <1>3 DEF TypeOK, HistType, Callbacks, MutexHeld, Holding, Begin
  <2>3. OneBusy'
    BY <1>0, <1>3 DEF TypeOK, HistType, Callbacks, OneBusy, Busy, Begin
  <2>4. CleanDisplay'
    BY <1>0, <1>3 DEF TypeOK, HistType, Callbacks, OneBusy, Busy, CleanDisplay, Clean, Signalling,
                      Live, Begin
  <2>5. Kinds'
    BY <1>0, <1>3 DEF TypeOK, HistType, Kinds, Begin
  <2> QED
    BY <2>1, <2>2, <2>3, <2>4, <2>5 DEF IInv
<1> QED
  BY <1>1, <1>2, <1>3

(* rk_osd_deinit joins the only live thread before it destroys the signal. *)
LEMMA Deinits ==
  ASSUME IInv, ~ub, NEW c \in Callers,
         DeinitStop(c) \/ DeinitJoin(c) \/ DeinitSignal(c) \/ DeinitRegions(c)
  PROVE  IInv'
<1> USE OsdAssumption DEF Callers, Osds, Threads, NoThread, paramVars, thrVars, Goto, Move
<1>0. TypeOK /\ HistType /\ Callbacks /\ MutexHeld /\ OneBusy /\ CleanDisplay /\ Kinds
  BY DEF IInv
<1>1. CASE DeinitStop(c)
  <2>1. TypeOK'
    BY <1>0, <1>1 DEF TypeOK, DeinitStop
  <2>2. (HistType /\ Callbacks /\ MutexHeld)'
    BY <1>0, <1>1 DEF TypeOK, HistType, Callbacks, MutexHeld, Holding, DeinitStop
  <2>3. OneBusy'
    BY <1>0, <1>1 DEF TypeOK, HistType, Callbacks, OneBusy, Busy, DeinitStop
  <2>4. CleanDisplay'
    BY <1>0, <1>1 DEF TypeOK, HistType, Callbacks, OneBusy, Busy, CleanDisplay, Clean, Signalling,
                      Live, DeinitStop
  <2>5. Kinds'
    BY <1>0, <1>1 DEF TypeOK, HistType, Kinds, DeinitStop
  <2> QED
    BY <2>1, <2>2, <2>3, <2>4, <2>5 DEF IInv
<1>2. CASE DeinitJoin(c)
  <2>1. TypeOK'
    BY <1>0, <1>2 DEF TypeOK, DeinitJoin
  <2>2. (HistType /\ Callbacks /\ MutexHeld)'
    BY <1>0, <1>2 DEF TypeOK, HistType, Callbacks, MutexHeld, Holding, DeinitJoin
  <2>3. OneBusy'
    BY <1>0, <1>2 DEF TypeOK, HistType, Callbacks, OneBusy, Busy, DeinitJoin
  <2>4. CleanDisplay'
    <3>1. Clean => signal /\ ~Signalling /\ Live \subseteq {tid}
      BY <1>0, <1>2 DEF OneBusy, Busy, CleanDisplay, Clean, Signalling, DeinitJoin
    <3>2. tid \notin Live /\ Live' = Live
      BY <1>0, <1>2 DEF TypeOK, Live, DeinitJoin
    <3>3. Clean => Live' = {}
      BY <3>1, <3>2
    <3>4. /\ \A d \in Callers \ {c} : pc'[d] = pc[d]
          /\ pc'[c] = "destroy"
          /\ UNCHANGED <<signal, ub, timeRun, regions, hist>>
      BY <1>0, <1>2 DEF TypeOK, DeinitJoin
    <3> QED
      BY <1>0, <1>2, <3>1, <3>3, <3>4 DEF CleanDisplay, Clean, OneBusy, Busy, DeinitJoin
  <2>5. Kinds'
    BY <1>0, <1>2 DEF TypeOK, HistType, Kinds, DeinitJoin
  <2> QED
    BY <2>1, <2>2, <2>3, <2>4, <2>5 DEF IInv
<1>3. CASE DeinitSignal(c)
  <2>1. TypeOK'
    BY <1>0, <1>3 DEF TypeOK, DeinitSignal
  <2>2. (HistType /\ Callbacks /\ MutexHeld)'
    BY <1>0, <1>3 DEF TypeOK, HistType, Callbacks, MutexHeld, Holding, DeinitSignal
  <2>3. OneBusy'
    BY <1>0, <1>3 DEF TypeOK, HistType, Callbacks, OneBusy, Busy, DeinitSignal
  <2>4. CleanDisplay'
    BY <1>0, <1>3 DEF TypeOK, HistType, Callbacks, OneBusy, Busy, CleanDisplay, Clean, Signalling,
                      Live, DeinitSignal
  <2>5. Kinds'
    BY <1>0, <1>3 DEF TypeOK, HistType, Kinds, DeinitSignal
  <2> QED
    BY <2>1, <2>2, <2>3, <2>4, <2>5 DEF IInv
<1>4. CASE DeinitRegions(c)
  <2>0. /\ regions' \in [Osds -> {"none", "overlay", "mask"}]
        /\ \A i \in Osds : regions'[i] \in {"none", regions[i]}
        /\ registered => \A i \in Osds \ hist.retyped : regions'[i] = "none"
    BY <1>0, <1>4 DEF TypeOK, Kinds, Kind, DeinitRegions, Remaining
  <2>1. TypeOK'
    BY <1>0, <1>4, <2>0 DEF TypeOK, DeinitRegions, AfterDeinit
  <2>2. (HistType /\ Callbacks /\ MutexHeld)'
    BY <1>0, <1>4 DEF TypeOK, HistType, Callbacks, MutexHeld, Holding, DeinitRegions, AfterDeinit
  <2>3. OneBusy'
    BY <1>0, <1>4 DEF TypeOK, HistType, Callbacks, OneBusy, Busy, DeinitRegions, AfterDeinit
  <2>4. CleanDisplay'
    <3>1. Clean => registered
      BY <1>0, <1>4 DEF Callbacks, OneBusy, Busy, Clean, DeinitRegions
    <3>2. UNCHANGED <<tid, thr, signal, timeRun, hist>> /\ ub' = (~registered /\ ub')
      BY <1>0, <1>4 DEF TypeOK, DeinitRegions
    <3>3. Clean => ~signal /\ ~ub'
      BY <1>0, <1>4, <3>1 DEF CleanDisplay, DeinitRegions
    <3>4. /\ \A d \in Callers \ {c} : pc'[d] = pc[d]
          /\ pc'[c] \in {"unregister", "init"}
          /\ pc[c] = "regions"
      BY <1>0, <1>4 DEF TypeOK, DeinitRegions, AfterDeinit
    <3>5. Live' = Live /\ (Signalling' <=> Signalling)
      BY <3>2, <3>4 DEF Live, Signalling
    <3> QED
      BY <1>0, <2>0, <3>1, <3>2, <3>3, <3>4, <3>5 DEF CleanDisplay, Clean
  <2>5. Kinds'
    BY <1>0, <1>4, <2>0 DEF TypeOK, HistType, Kinds, DeinitRegions
  <2> QED
    BY <2>1, <2>2, <2>3, <2>4, <2>5 DEF IInv
<1> QED
  BY <1>1, <1>2, <1>3, <1>4

(* rk_osd_init draws with the callbacks there and starts from nothing.     *)
LEMMA Inits ==
  ASSUME IInv, ~ub, NEW c \in Callers,
         InitLock(c) \/ InitSkip(c) \/ InitText(c) \/ InitMask(c) \/ InitSignal(c) \/ InitDone(c)
  PROVE  IInv'
<1> USE OsdAssumption DEF Callers, Osds, Threads, NoThread, paramVars, thrVars, Goto, Move
<1>0. TypeOK /\ HistType /\ Callbacks /\ MutexHeld /\ OneBusy /\ CleanDisplay /\ Kinds
  BY DEF IInv
<1>1. CASE InitLock(c)
  <2>1. TypeOK'
    BY <1>0, <1>1 DEF TypeOK, InitLock
  <2>2. (HistType /\ Callbacks /\ MutexHeld)'
    BY <1>0, <1>1 DEF TypeOK, HistType, Callbacks, MutexHeld, Holding, InitLock
  <2>3. OneBusy'
    BY <1>0, <1>1 DEF TypeOK, HistType, Callbacks, OneBusy, Busy, InitLock
  <2>4. CleanDisplay'
    BY <1>0, <1>1 DEF TypeOK, HistType, Callbacks, OneBusy, Busy, CleanDisplay, Clean, Signalling,
                      Live, InitLock
  <2>5. Kinds'
    BY <1>0, <1>1 DEF TypeOK, HistType, Kinds, InitLock
  <2> QED
    BY <2>1, <2>2, <2>3, <2>4, <2>5 DEF IInv
<1>2. CASE InitSkip(c)
  <2>1. TypeOK'
    BY <1>0, <1>2 DEF TypeOK, InitSkip
  <2>2. (HistType /\ Callbacks /\ MutexHeld)'
    BY <1>0, <1>2 DEF TypeOK, HistType, Callbacks, MutexHeld, Holding, InitSkip
  <2>3. OneBusy'
    BY <1>0, <1>2 DEF TypeOK, HistType, Callbacks, OneBusy, Busy, InitSkip
  <2>4. CleanDisplay'
    BY <1>0, <1>2 DEF TypeOK, HistType, Callbacks, OneBusy, Busy, CleanDisplay, Clean, Signalling,
                      Live, InitSkip
  <2>5. Kinds'
    BY <1>0, <1>2 DEF TypeOK, HistType, Kinds, InitSkip
  <2> QED
    BY <2>1, <2>2, <2>3, <2>4, <2>5 DEF IInv
<1>3. CASE InitText(c)
  <2>0. /\ regions' \in [Osds -> {"none", "overlay", "mask"}]
        /\ \A i \in Osds : regions'[i] \in {"none", regions[i], Kind(type[i])}
    BY <1>0, <1>3 DEF TypeOK, InitText, Create, Kind
  <2>1. TypeOK'
    BY <1>0, <1>3, <2>0 DEF TypeOK, InitText
  <2>2. (HistType /\ Callbacks /\ MutexHeld)'
    BY <1>0, <1>3 DEF TypeOK, HistType, Callbacks, MutexHeld, Holding, InitText
  <2>3. OneBusy'
    BY <1>0, <1>3 DEF TypeOK, HistType, Callbacks, OneBusy, Busy, InitText
  <2>4. CleanDisplay'
    BY <1>0, <1>3 DEF TypeOK, HistType, Callbacks, OneBusy, Busy, CleanDisplay, Clean, Signalling,
                      Live, InitText
  <2>5. Kinds'
    BY <1>0, <1>3, <2>0 DEF TypeOK, HistType, Kinds, InitText
  <2> QED
    BY <2>1, <2>2, <2>3, <2>4, <2>5 DEF IInv
<1>4. CASE InitSignal(c)
  <2>1. TypeOK'
    <3>1. idx + 1 \in 0..MaxOsd
      BY <1>0, <1>4 DEF TypeOK, MutexHeld, InitSignal
    <3> QED
      BY <1>0, <1>4, <3>1 DEF TypeOK, InitSignal
  <2>2. (HistType /\ Callbacks /\ MutexHeld)'
    BY <1>0, <1>4 DEF TypeOK, HistType, Callbacks, MutexHeld, Holding, InitSignal
  <2>3. OneBusy'
    BY <1>0, <1>4 DEF TypeOK, HistType, Callbacks, OneBusy, Busy, InitSignal
  <2>4. CleanDisplay'
    BY <1>0, <1>4 DEF TypeOK, HistType, Callbacks, OneBusy, Busy, CleanDisplay, Clean, Signalling,
                      Live, InitSignal
  <2>5. Kinds'
    BY <1>0, <1>4 DEF TypeOK, HistType, Kinds, InitSignal
  <2> QED
    BY <2>1, <2>2, <2>3, <2>4, <2>5 DEF IInv
<1>5. CASE InitDone(c)
  <2>1. TypeOK'
    BY <1>0, <1>5 DEF TypeOK, InitDone
  <2>2. (HistType /\ Callbacks /\ MutexHeld)'
    BY <1>0, <1>5 DEF TypeOK, HistType, Callbacks, MutexHeld, Holding, InitDone
  <2>3. OneBusy'
    BY <1>0, <1>5 DEF TypeOK, HistType, Callbacks, OneBusy, Busy, InitDone
  <2>4. CleanDisplay'
    BY <1>0, <1>5 DEF TypeOK, HistType, Callbacks, OneBusy, Busy, CleanDisplay, Clean, Signalling,
                      Live, InitDone
  <2>5. Kinds'
    BY <1>0, <1>5 DEF TypeOK, HistType, Kinds, InitDone
  <2> QED
    BY <2>1, <2>2, <2>3, <2>4, <2>5 DEF IInv
<1>6. CASE InitMask(c)
  <2>0. /\ regions' \in [Osds -> {"none", "overlay", "mask"}]
        /\ \A i \in Osds : regions'[i] \in {"none", regions[i], Kind(type[i])}
    BY <1>0, <1>6 DEF TypeOK, InitMask, Create, Kind
  <2>1. TypeOK'
    BY <1>0, <1>6, <2>0 DEF TypeOK, InitMask
  <2>2. (HistType /\ Callbacks /\ MutexHeld)'
    BY <1>0, <1>6 DEF TypeOK, HistType, Callbacks, MutexHeld, Holding, InitMask
  <2>3. OneBusy'
    BY <1>0, <1>6 DEF TypeOK, HistType, Callbacks, OneBusy, Busy, InitMask
  <2>4. CleanDisplay'
    BY <1>0, <1>6 DEF TypeOK, HistType, Callbacks, OneBusy, Busy, CleanDisplay, Clean, Signalling,
                      Live, InitMask
  <2>5. Kinds'
    BY <1>0, <1>6, <2>0 DEF TypeOK, HistType, Kinds, InitMask
  <2> QED
    BY <2>1, <2>2, <2>3, <2>4, <2>5 DEF IInv
<1> QED
  BY <1>1, <1>2, <1>3, <1>4, <1>5, <1>6

(* A clock's thread is the only one, or the second of two clocks.          *)
LEMMA Clocks ==
  ASSUME IInv, ~ub, NEW c \in Callers, NEW t \in Threads,
         InitClock(c, t)
  PROVE  IInv'
<1> USE OsdAssumption DEF Callers, Osds, Threads, NoThread, paramVars, thrVars, Goto, Move
<1>0. TypeOK /\ HistType /\ Callbacks /\ MutexHeld /\ OneBusy /\ CleanDisplay /\ Kinds
  BY DEF IInv
<1>1. CASE InitClock(c, t)
  <2>1. TypeOK'
    BY <1>0, <1>1 DEF TypeOK, InitClock
  <2>2. (HistType /\ Callbacks /\ MutexHeld)'
    BY <1>0, <1>1 DEF TypeOK, HistType, Callbacks, MutexHeld, Holding, InitClock
  <2>3. OneBusy'
    BY <1>0, <1>1 DEF TypeOK, HistType, Callbacks, OneBusy, Busy, InitClock
  <2>4. CleanDisplay'
    <3>1. Clean => \A d \in Callers \ {c} : pc[d] \in {"up", "idle"}
      BY <1>0, <1>1 DEF OneBusy, Busy, Clean, InitClock
    <3>2. Clean => signal \/ Live = {}
      BY <1>0, <1>1, <3>1 DEF CleanDisplay, Signalling, InitClock
    <3>3. Live' \subseteq Live \union {t} /\ tid' = t
      BY <1>0, <1>1 DEF TypeOK, Live, InitClock
    <3>4. /\ \A d \in Callers \ {c} : pc'[d] = pc[d]
          /\ pc'[c] = "signal"
          /\ UNCHANGED <<signal, ub, timeRun, regions, hist>>
      BY <1>0, <1>1 DEF TypeOK, InitClock
    <3>5. Signalling'
      BY <3>4 DEF Signalling
    <3>6. Clean' => Clean /\ ~ub' /\ timeRun'
      BY <1>0, <3>4 DEF CleanDisplay, Clean
    <3>7. Clean /\ ~signal => Live' \subseteq {tid'}
      BY <3>2, <3>3
    <3> QED
      BY <3>1, <3>4, <3>5, <3>6, <3>7 DEF CleanDisplay
  <2>5. Kinds'
    BY <1>0, <1>1 DEF TypeOK, HistType, Kinds, InitClock
  <2> QED
    BY <2>1, <2>2, <2>3, <2>4, <2>5 DEF IInv
<1> QED
  BY <1>1

(* osd_time_server: the thread lives, so there are callbacks.              *)
LEMMA Times ==
  ASSUME IInv, ~ub, NEW t \in Threads,
         TimeStart(t) \/ TimeCreate(t) \/ TimeFails(t) \/ TimeFlag(t) \/ TimeLoop(t) \/ TimeWake(t) \/ TimeDraw(t)
  PROVE  IInv'
<1> USE OsdAssumption DEF Callers, Osds, Threads, NoThread, paramVars, thrVars, Goto, Move
<1>0. TypeOK /\ HistType /\ Callbacks /\ MutexHeld /\ OneBusy /\ CleanDisplay /\ Kinds
  BY DEF IInv
<1>1. CASE TimeStart(t)
  <2>1. TypeOK'
    <3>1. id' \in [Threads -> Osds]
      BY <1>0, <1>1, TimeIdIsOsd DEF TypeOK, TimeStart
    <3> QED
      BY <1>0, <1>1, <3>1 DEF TypeOK, TimeStart
  <2>2. (HistType /\ Callbacks /\ MutexHeld)'
    BY <1>0, <1>1 DEF TypeOK, HistType, Callbacks, MutexHeld, Holding, TimeStart
  <2>3. OneBusy'
    BY <1>0, <1>1 DEF TypeOK, HistType, Callbacks, OneBusy, Busy, TimeStart
  <2>4. CleanDisplay'
    BY <1>0, <1>1 DEF TypeOK, HistType, Callbacks, OneBusy, Busy, CleanDisplay, Clean, Signalling,
                      Live, TimeStart
  <2>5. Kinds'
    <3>1. 0 \in Osds /\ Kind(FirstType(0)) = "overlay"
      BY DEF Kind, FirstType
    <3>2. TimeId \in Osds /\ (TimeId \in hist.retyped \/ Kind(type[TimeId]) = "overlay")
      BY <1>0, <3>1, TimeIdFits, TimeIdIsOsd DEF Kinds
    <3> QED
      BY <1>0, <1>1, <3>2 DEF TypeOK, HistType, Kinds, TimeStart
  <2> QED
    BY <2>1, <2>2, <2>3, <2>4, <2>5 DEF IInv
<1>2. CASE TimeCreate(t)
  <2>1. TypeOK'
    <3>1. id[t] \in Osds
      BY <1>0 DEF TypeOK
    <3>2. regions' \in [Osds -> {"none", "overlay", "mask"}] /\ ub' \in BOOLEAN
      BY <1>0, <1>2, <3>1 DEF TypeOK, TimeCreate
    <3>3. thr' \in [Threads -> {"none", "start", "create", "flag", "loop", "wait", "awake", "done"}]
      BY <1>0, <1>2 DEF TypeOK, TimeCreate
    <3> QED
      BY <1>0, <1>2, <3>2, <3>3 DEF TypeOK, TimeCreate
  <2>2. (HistType /\ Callbacks /\ MutexHeld)'
    BY <1>0, <1>2 DEF TypeOK, HistType, Callbacks, MutexHeld, Holding, TimeCreate
  <2>3. OneBusy'
    BY <1>0, <1>2 DEF TypeOK, HistType, Callbacks, OneBusy, Busy, TimeCreate
  <2>4. CleanDisplay'
    <3>1. t \in Live /\ Live' \subseteq Live
      BY <1>0, <1>2 DEF TypeOK, Live, TimeCreate
    <3>2. Clean => ~ub'
      BY <1>0, <1>2, <3>1, LiveThread DEF TypeOK, TimeCreate
    <3>3. UNCHANGED <<pc, tid, signal, timeRun, hist>> /\ Signalling' = Signalling
      BY <1>2 DEF TimeCreate, Signalling
    <3>4. Clean => \A c \in Callers : pc[c] \notin {"unregister", "down", "init", "destroy"}
      BY <3>1, LiveThread
    <3> QED
      BY <1>0, <3>1, <3>2, <3>3, <3>4 DEF CleanDisplay, Clean
  <2>5. Kinds'
    BY <1>0, <1>2 DEF TypeOK, HistType, Kinds, TimeCreate
  <2> QED
    BY <2>1, <2>2, <2>3, <2>4, <2>5 DEF IInv
<1>3. CASE TimeFails(t)
  <2>1. TypeOK'
    <3>1. id[t] \in Osds /\ 0 \in Osds
      BY <1>0 DEF TypeOK
    <3>2. /\ regions' \in [Osds -> {"none", "overlay", "mask"}]
          /\ ub' \in BOOLEAN /\ timeRun' \in BOOLEAN
      BY <1>0, <1>3, <3>1 DEF TypeOK, TimeFails
    <3>3. /\ thr' \in [Threads -> {"none", "start", "create", "flag", "loop", "wait", "awake", "done"}]
          /\ id' \in [Threads -> Osds]
      BY <1>0, <1>3, <3>1 DEF TypeOK, TimeFails, End
    <3> QED
      BY <1>0, <1>3, <3>2, <3>3 DEF TypeOK, TimeFails
  <2>2. (HistType /\ Callbacks /\ MutexHeld)'
    BY <1>0, <1>3 DEF TypeOK, HistType, Callbacks, MutexHeld, Holding, TimeFails, End
  <2>3. OneBusy'
    BY <1>0, <1>3 DEF TypeOK, HistType, Callbacks, OneBusy, Busy, TimeFails, End
  <2>4. CleanDisplay'
    BY <1>0, <1>3 DEF TypeOK, HistType, Callbacks, OneBusy, Busy, CleanDisplay, Clean, Signalling,
                      Live, TimeFails, End
  <2>5. Kinds'
    <3>1. 0 \in Osds /\ Kind(FirstType(0)) = "overlay"
      BY DEF Kind, FirstType
    <3>2. \A u \in Threads : id'[u] \in {id[u], 0}
      BY <1>0, <1>3 DEF TypeOK, TimeFails, End
    <3>3. \A i \in Osds : regions'[i] \in {"none", regions[i]} \/ (i = id[t] /\ regions'[i] = "overlay")
      BY <1>0, <1>3 DEF TypeOK, TimeFails
    <3>4. UNCHANGED <<type, hist.retyped>>
      BY <1>0, <1>3 DEF HistType, TimeFails
    <3> QED
      BY <1>0, <3>1, <3>2, <3>3, <3>4 DEF TypeOK, HistType, Kinds
  <2> QED
    BY <2>1, <2>2, <2>3, <2>4, <2>5 DEF IInv
<1>4. CASE TimeFlag(t)
  <2>1. TypeOK'
    BY <1>0, <1>4 DEF TypeOK, TimeFlag
  <2>2. (HistType /\ Callbacks /\ MutexHeld)'
    BY <1>0, <1>4 DEF TypeOK, HistType, Callbacks, MutexHeld, Holding, TimeFlag
  <2>3. OneBusy'
    BY <1>0, <1>4 DEF TypeOK, HistType, Callbacks, OneBusy, Busy, TimeFlag
  <2>4. CleanDisplay'
    BY <1>0, <1>4 DEF TypeOK, HistType, Callbacks, OneBusy, Busy, CleanDisplay, Clean, Signalling,
                      Live, TimeFlag
  <2>5. Kinds'
    BY <1>0, <1>4 DEF TypeOK, HistType, Kinds, TimeFlag
  <2> QED
    BY <2>1, <2>2, <2>3, <2>4, <2>5 DEF IInv
<1>5. CASE TimeLoop(t)
  <2>1. TypeOK'
    <3>1. 0 \in Osds
      OBVIOUS
    <3>2. id' \in [Threads -> Osds]
      BY <1>0, <1>5, <3>1 DEF TypeOK, TimeLoop, End
    <3>3. PICK u : u \in {"done", "none", "wait", "awake"} /\ thr' = [thr EXCEPT ![t] = u]
      BY <1>5 DEF TimeLoop, End
    <3>4. thr' \in [Threads -> {"none", "start", "create", "flag", "loop", "wait", "awake", "done"}]
      BY <1>0, <3>3 DEF TypeOK
    <3> QED
      BY <1>0, <1>5, <3>2, <3>4 DEF TypeOK, TimeLoop
  <2>2. (HistType /\ Callbacks /\ MutexHeld)'
    BY <1>0, <1>5 DEF TypeOK, HistType, Callbacks, MutexHeld, Holding, TimeLoop, End
  <2>3. OneBusy'
    BY <1>0, <1>5 DEF TypeOK, HistType, Callbacks, OneBusy, Busy, TimeLoop, End
  <2>4. CleanDisplay'
    <3>1. t \in Live /\ Live' \subseteq Live
      BY <1>0, <1>5 DEF TypeOK, Live, TimeLoop, End
    <3>2. Clean => ~ub'
      BY <1>0, <1>5, <3>1, LiveThread DEF TypeOK, TimeLoop
    <3>3. UNCHANGED <<pc, tid, signal, timeRun, hist>> /\ Signalling' = Signalling
      BY <1>5 DEF TimeLoop, Signalling
    <3>4. Clean => \A c \in Callers : pc[c] \notin {"unregister", "down", "init", "destroy"}
      BY <3>1, LiveThread
    <3> QED
      BY <1>0, <3>1, <3>2, <3>3, <3>4 DEF CleanDisplay, Clean
  <2>5. Kinds'
    <3>1. 0 \in Osds /\ Kind(FirstType(0)) = "overlay"
      BY DEF Kind, FirstType
    <3>2. \A u \in Threads : id'[u] \in {id[u], 0}
      BY <1>0, <1>5 DEF TypeOK, TimeLoop, End
    <3> QED
      BY <1>0, <1>5, <3>1, <3>2 DEF TypeOK, HistType, Kinds, TimeLoop
  <2> QED
    BY <2>1, <2>2, <2>3, <2>4, <2>5 DEF IInv
<1>6. CASE TimeWake(t)
  <2>1. TypeOK'
    BY <1>0, <1>6 DEF TypeOK, TimeWake
  <2>2. (HistType /\ Callbacks /\ MutexHeld)'
    BY <1>0, <1>6 DEF TypeOK, HistType, Callbacks, MutexHeld, Holding, TimeWake
  <2>3. OneBusy'
    BY <1>0, <1>6 DEF TypeOK, HistType, Callbacks, OneBusy, Busy, TimeWake
  <2>4. CleanDisplay'
    BY <1>0, <1>6 DEF TypeOK, HistType, Callbacks, OneBusy, Busy, CleanDisplay, Clean, Signalling,
                      Live, TimeWake
  <2>5. Kinds'
    BY <1>0, <1>6 DEF TypeOK, HistType, Kinds, TimeWake
  <2> QED
    BY <2>1, <2>2, <2>3, <2>4, <2>5 DEF IInv
<1>7. CASE TimeDraw(t)
  <2>1. TypeOK'
    BY <1>0, <1>7 DEF TypeOK, TimeDraw
  <2>2. (HistType /\ Callbacks /\ MutexHeld)'
    BY <1>0, <1>7 DEF TypeOK, HistType, Callbacks, MutexHeld, Holding, TimeDraw
  <2>3. OneBusy'
    BY <1>0, <1>7 DEF TypeOK, HistType, Callbacks, OneBusy, Busy, TimeDraw
  <2>4. CleanDisplay'
    <3>1. t \in Live /\ Live' \subseteq Live
      BY <1>0, <1>7 DEF TypeOK, Live, TimeDraw
    <3>2. Clean => ~ub'
      BY <1>0, <1>7, <3>1, LiveThread DEF TypeOK, TimeDraw
    <3>3. UNCHANGED <<pc, tid, signal, timeRun, hist>> /\ Signalling' = Signalling
      BY <1>7 DEF TimeDraw, Signalling
    <3>4. Clean => \A c \in Callers : pc[c] \notin {"unregister", "down", "init", "destroy"}
      BY <3>1, LiveThread
    <3> QED
      BY <1>0, <3>1, <3>2, <3>3, <3>4 DEF CleanDisplay, Clean
  <2>5. Kinds'
    BY <1>0, <1>7 DEF TypeOK, HistType, Kinds, TimeDraw
  <2> QED
    BY <2>1, <2>2, <2>3, <2>4, <2>5 DEF IInv
<1> QED
  BY <1>1, <1>2, <1>3, <1>4, <1>5, <1>6, <1>7

(* A parameter changes nothing that exists.                                *)
LEMMA Sets ==
  ASSUME IInv, ~ub, NEW i \in Osds, NEW v \in Types,
         rk_osd_set_enabled(i) \/ rk_osd_set_type(i, v)
  PROVE  IInv'
<1> USE OsdAssumption DEF Callers, Osds, Threads, NoThread, paramVars, thrVars, Goto, Move
<1>0. TypeOK /\ HistType /\ Callbacks /\ MutexHeld /\ OneBusy /\ CleanDisplay /\ Kinds
  BY DEF IInv
<1>1. CASE rk_osd_set_enabled(i)
  <2>1. TypeOK'
    BY <1>0, <1>1 DEF TypeOK, rk_osd_set_enabled
  <2>2. (HistType /\ Callbacks /\ MutexHeld)'
    BY <1>0, <1>1 DEF TypeOK, HistType, Callbacks, MutexHeld, Holding, rk_osd_set_enabled
  <2>3. OneBusy'
    BY <1>0, <1>1 DEF TypeOK, HistType, Callbacks, OneBusy, Busy, rk_osd_set_enabled
  <2>4. CleanDisplay'
    BY <1>0, <1>1 DEF TypeOK, HistType, Callbacks, OneBusy, Busy, CleanDisplay, Clean, Signalling,
                      Live, rk_osd_set_enabled
  <2>5. Kinds'
    BY <1>0, <1>1 DEF TypeOK, HistType, Kinds, rk_osd_set_enabled
  <2> QED
    BY <2>1, <2>2, <2>3, <2>4, <2>5 DEF IInv
<1>2. CASE rk_osd_set_type(i, v)
  <2>1. TypeOK'
    BY <1>0, <1>2 DEF TypeOK, rk_osd_set_type
  <2>2. (HistType /\ Callbacks /\ MutexHeld)'
    BY <1>0, <1>2 DEF TypeOK, HistType, Callbacks, MutexHeld, Holding, rk_osd_set_type
  <2>3. OneBusy'
    BY <1>0, <1>2 DEF TypeOK, HistType, Callbacks, OneBusy, Busy, rk_osd_set_type
  <2>4. CleanDisplay'
    BY <1>0, <1>2 DEF TypeOK, HistType, Callbacks, OneBusy, Busy, CleanDisplay, Clean, Signalling,
                      Live, rk_osd_set_type
  <2>5. Kinds'
    BY <1>0, <1>2 DEF TypeOK, HistType, Kinds, rk_osd_set_type
  <2> QED
    BY <2>1, <2>2, <2>3, <2>4, <2>5 DEF IInv
<1> QED
  BY <1>1, <1>2

(* Every step preserves the invariant.                                     *)
LEMMA NextIInv == IInv /\ [Next]_vars => IInv'
<1> SUFFICES ASSUME IInv, [Next]_vars PROVE IInv'
  OBVIOUS
<1>1. CASE ~ub /\ (Register \/ Unregister)
  <2>1. "video" \in Callers
    BY DEF Callers
  <2> QED
    BY <1>1, <2>1, Calls
<1>2. ASSUME ~ub, NEW c \in Callers, Begin(c) \/ rk_osd_deinit(c) \/ rk_osd_init(c) PROVE IInv'
  BY <1>2, Calls, Deinits, Inits, Clocks DEF rk_osd_deinit, rk_osd_init
<1>3. ASSUME ~ub, NEW t \in Threads, osd_time_server(t) PROVE IInv'
  BY <1>3, Times DEF osd_time_server
<1>4. ASSUME ~ub, NEW i \in Osds, NEW v \in Types,
             rk_osd_set_enabled(i) \/ rk_osd_set_type(i, v)
      PROVE  IInv'
  BY <1>4, Sets
<1>5. CASE UNCHANGED vars
  BY <1>5 DEF vars, paramVars, thrVars, IInv, TypeOK, HistType, Callbacks, MutexHeld, OneBusy, Busy,
              CleanDisplay, Clean, Signalling, Live, Kinds
<1> QED
  BY <1>1, <1>2, <1>3, <1>4, <1>5 DEF Next, Types

-----------------------------------------------------------------------------
(* The invariant of the proofs.                                            *)
THEOREM Inductive == Spec => []IInv
  BY InitIInv, NextIInv, PTL DEF Spec

(* The variables of osd.c keep their types; a time thread always finds an  *)
(* OSD number in range.                                                    *)
THEOREM TypeCorrect == Spec => []TypeOK
<1>1. IInv => TypeOK
  BY DEF IInv
<1> QED
  BY <1>1, Inductive, PTL

(* No null callback is called and no signal is destroyed under a waiting   *)
(* thread in a clean run, with any number of connections and restarts.     *)
THEOREM SafeCorrect == Spec => []OsdSafe
<1>1. IInv => OsdSafe
  BY DEF IInv, CleanDisplay, OsdSafe
<1> QED
  BY <1>1, Inductive, PTL

(* In a clean run rkipc_osd_deinit leaves no thread and no signal, and no  *)
(* region of an OSD whose type never came to be of another kind.           *)
THEOREM DeinitCorrect == Spec => []DeinitLeavesNothing
<1>1. IInv => DeinitLeavesNothing
  <2> SUFFICES ASSUME IInv, pc["video"] = "down", Clean
               PROVE  Live = {} /\ ~signal /\ \A i \in Osds \ hist.retyped : regions[i] = "none"
    BY DEF DeinitLeavesNothing
  <2>1. "video" \in Callers
    BY DEF Callers
  <2>2. ~signal /\ \A i \in Osds \ hist.retyped : regions[i] = "none"
    BY <2>1 DEF IInv, CleanDisplay
  <2>3. Live = {}
    BY <2>1, LiveThread
  <2> QED
    BY <2>2, <2>3
<1> QED
  BY <1>1, Inductive, PTL
=============================================================================
