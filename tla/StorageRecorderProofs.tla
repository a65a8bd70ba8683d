------------------------ MODULE StorageRecorderProofs ------------------------
(***************************************************************************)
(* Proofs about StorageRecorder for every number of restarts, device       *)
(* events and RPC calls. Until a message is handled while the control      *)
(* thread starts or stops the storage, at most one of the two threads is   *)
(* in rk_storage_muxer_init_by_id or _deinit_by_id, and where it is there  *)
(* says whether there are a signal and a recorder.                         *)
(***************************************************************************)
EXTENDS StorageRecorder, FiniteSetTheorems, TLAPS

Stopping == {"deinit", "check", "give", "join", "free", "null"}

(* Where the two callers can be, in every run.                             *)
CallerPhase ==
  /\ ctl \in {"down", "manager", "joinscan"} => msg = "off"
  /\ ctl \notin {"init", "deinit"} => call["ctl"] = "idle"
  /\ ctl = "init" => call["ctl"] \notin Stopping
  /\ ctl = "deinit" => call["ctl"] \in Stopping \union {"idle"}
  /\ msg \in {"off", "idle", "joinscan"} => call["msg"] = "idle"
  /\ msg = "add" => enable /\ call["msg"] \in Stopping \union {"idle"}
  /\ \A w \in Callers : call[w] \notin {"idle", "deinit", "init"} => enable

(* Numbers of recorders and signals are given out in order and not reused. *)
Numbers ==
  /\ signal <= made
  /\ \A s \in freed : s <= made
  /\ \A r \in joined : rec[r] = "done"
  /\ file = "auto" => Running # {}

NoOverlap == msg \in {"joinscan", "add", "handling"} => ctl = "up"

(* Without a race there is a recorder only while there is a signal, which  *)
(* is not destroyed before the recorder was joined.                        *)
SignalAndRecorder ==
  /\ ~ub
  /\ NoOverlap
  /\ ~enable => signal = 0
  /\ ctl \in {"down", "manager", "joinmsg", "joinscan"} => signal = 0
  /\ ctl = "deinit" /\ call["ctl"] = "idle" => signal = 0
  /\ msg = "add" /\ call["msg"] = "idle" => signal = 0
  /\ \A w \in Callers :
       /\ call[w] # "renew"
       /\ call[w] \in {"free", "null", "create", "spawn", "init"} => Running = {}
       /\ call[w] \in {"create", "init"} => signal = 0
       /\ call[w] \in {"give", "join", "spawn"} => signal # 0
  /\ signal = 0 => Running = {}
  /\ signal # 0 /\ (\A w \in Callers : call[w] \notin {"free", "null", "spawn"})
       => tid \in Recs \ joined /\ Running \subseteq {tid}
  /\ (\A w \in Callers : call[w] # "null") => signal \notin freed

(* A recorder that has looked at both flags and will not find them set     *)
(* again is about to be joined, or will be when the removal is handled.    *)
StopIsComing ==
  \/ \E w \in Callers : call[w] \in {"deinit", "check", "give", "join"}
  \/ listener = "remove" \/ msg = "joinscan"
  \/ \E i \in DOMAIN queue : queue[i] = "remove"

FlagsOrStop ==
  (\E r \in Recs : rec[r] \in {"open", "sleep", "wait"})
    => (storageFlag /\ recordFlag) \/ StopIsComing

IInv ==
  /\ TypeOK
  /\ CallerPhase
  /\ Numbers
  /\ ~raced => SignalAndRecorder /\ FlagsOrStop
-----------------------------------------------------------------------------
(* The invariant holds initially: nothing was started.                     *)
LEMMA InitIInv == Init => IInv
<1> SUFFICES ASSUME Init PROVE IInv
  OBVIOUS
<1> USE RecorderAssumption DEF Recs, MaxInits, Callers, Calls, Events
<1>1. <<>> \in Seq(Events) /\ 0 \in 0..MaxInits
  OBVIOUS
<1>2. TypeOK
  <2>1. signal \in 0..MaxInits /\ tid \in 0..MaxInits /\ made \in 0..MaxInits
    BY DEF Init
  <2>2. sem \in [Recs -> 0..1] /\ waits \in [Recs -> 0..MaxInits] /\ freed \subseteq Recs /\ joined \subseteq Recs
    BY DEF Init
  <2>3. /\ rec \in [Recs -> {"none", "test", "open", "sleep", "wait", "close", "done"}]
        /\ call \in [Callers -> Calls] /\ queue \in Seq(Events)
    BY <1>1 DEF Init
  <2> QED
    BY <2>1, <2>2, <2>3 DEF Init, TypeOK
<1>3. Running = {}
  BY DEF Init, Running
<1>4. CallerPhase /\ Numbers
  BY <1>3 DEF Init, CallerPhase, Stopping, Numbers
<1>5. SignalAndRecorder /\ FlagsOrStop
  BY <1>3 DEF Init, SignalAndRecorder, NoOverlap, FlagsOrStop
<1> QED
  BY <1>2, <1>4, <1>5 DEF IInv

(* rk_storage_muxer_deinit_by_id                                           *)
LEMMA Stops ==
  ASSUME IInv, ~ub, raced' = (raced \/ Overlap'), NEW w \in Callers,
         \/ ClearFlag(w) \/ CheckSignal(w) \/ GiveSignal(w)
         \/ JoinRecorder(w) \/ NullSignal(w) \/ DestroySignal(w)
  PROVE  IInv'
<1> USE RecorderAssumption DEF Recs, MaxInits, Callers, Calls, Events, sigVars, recVars, muxVars,
          flagVars, devVars, ctlVars, rpcVars, scanVars, Goto
<1>0. /\ TypeOK /\ CallerPhase /\ Numbers
      /\ ~raced => SignalAndRecorder /\ FlagsOrStop
  BY DEF IInv
<1>1. CASE ClearFlag(w)
  <2>1. TypeOK'
    <3>1. call' \in [Callers -> Calls]
      BY <1>0, <1>1 DEF TypeOK, ClearFlag
    <3>2. {enable', recordFlag', storageFlag', recordRun', stopped', ub', raced', lost'} \subseteq BOOLEAN
      BY <1>0, <1>1 DEF TypeOK, ClearFlag, Overlap
    <3> QED
      BY <1>0, <1>1, <3>1, <3>2 DEF TypeOK, ClearFlag
  <2>2. CallerPhase'
    BY <1>0, <1>1 DEF TypeOK, CallerPhase, Stopping, ClearFlag
  <2>3. Numbers'
    BY <1>0, <1>1 DEF TypeOK, Numbers, Running, ClearFlag
  <2>4. ~raced' => SignalAndRecorder'
    BY <1>0, <1>1 DEF TypeOK, CallerPhase, Stopping, Numbers, SignalAndRecorder, NoOverlap,
                      Overlap, Running, ClearFlag
  <2>5. ~raced' => FlagsOrStop'
    BY <1>0, <1>1 DEF TypeOK, CallerPhase, Stopping, Numbers, SignalAndRecorder, NoOverlap,
                      Overlap, Running, FlagsOrStop, StopIsComing, ClearFlag
  <2> QED
    BY <2>1, <2>2, <2>3, <2>4, <2>5 DEF IInv
<1>2. CASE CheckSignal(w)
  <2>1. TypeOK'
    <3>1. {enable', recordFlag', storageFlag', recordRun', stopped', ub', raced', lost'} \subseteq BOOLEAN
      BY <1>0, <1>2 DEF TypeOK, Overlap, CheckSignal
    <3> QED
      BY <1>0, <1>2, <3>1 DEF TypeOK, CheckSignal
  <2>2. CallerPhase'
    BY <1>0, <1>2 DEF TypeOK, CallerPhase, Stopping, CheckSignal
  <2>3. Numbers'
    BY <1>0, <1>2 DEF TypeOK, Numbers, Running, CheckSignal
  <2>4. ~raced' => SignalAndRecorder'
    BY <1>0, <1>2 DEF TypeOK, CallerPhase, Stopping, Numbers, SignalAndRecorder, NoOverlap,
                      Overlap, Running, CheckSignal
  <2>5. ~raced' => FlagsOrStop'
    BY <1>0, <1>2 DEF TypeOK, CallerPhase, Stopping, Numbers, SignalAndRecorder, NoOverlap,
                      Overlap, Running, FlagsOrStop, StopIsComing, CheckSignal
  <2> QED
    BY <2>1, <2>2, <2>3, <2>4, <2>5 DEF IInv
<1>3. CASE GiveSignal(w)
  <2>1. TypeOK'
    <3>1. {enable', recordFlag', storageFlag', recordRun', stopped', ub', raced', lost'} \subseteq BOOLEAN
      BY <1>0, <1>3 DEF TypeOK, Overlap, GiveSignal
    <3> QED
      BY <1>0, <1>3, <3>1 DEF TypeOK, GiveSignal
  <2>2. CallerPhase'
    BY <1>0, <1>3 DEF TypeOK, CallerPhase, Stopping, GiveSignal
  <2>3. Numbers'
    BY <1>0, <1>3 DEF TypeOK, Numbers, Running, GiveSignal
  <2>4. ~raced' => SignalAndRecorder'
    BY <1>0, <1>3 DEF TypeOK, CallerPhase, Stopping, Numbers, SignalAndRecorder, NoOverlap,
                      Overlap, Running, GiveSignal
  <2>5. ~raced' => FlagsOrStop'
    BY <1>0, <1>3 DEF TypeOK, CallerPhase, Stopping, Numbers, SignalAndRecorder, NoOverlap,
                      Overlap, Running, FlagsOrStop, StopIsComing, GiveSignal
  <2> QED
    BY <2>1, <2>2, <2>3, <2>4, <2>5 DEF IInv
<1>4. CASE JoinRecorder(w)
  <2>1. TypeOK'
    <3>1. tid # 0 => tid \in Recs
      BY <1>0 DEF TypeOK
    <3>2. joined' \subseteq Recs
      BY <1>0, <1>4, <3>1 DEF TypeOK, JoinRecorder
    <3>3. call' \in [Callers -> Calls]
      BY <1>0, <1>4 DEF TypeOK, JoinRecorder
    <3>4. ub' \in BOOLEAN /\ raced' \in BOOLEAN
      BY <1>0, <1>4 DEF TypeOK, JoinRecorder
    <3> QED
      BY <1>0, <1>4, <3>2, <3>3, <3>4 DEF TypeOK, JoinRecorder
  <2>2. CallerPhase'
    BY <1>0, <1>4 DEF TypeOK, CallerPhase, Stopping, JoinRecorder
  <2>3. Numbers'
    BY <1>0, <1>4 DEF TypeOK, Numbers, Running, JoinRecorder
  <2>4. ~raced' => SignalAndRecorder'
    BY <1>0, <1>4 DEF TypeOK, CallerPhase, Stopping, Numbers, SignalAndRecorder, NoOverlap,
                      Overlap, Running, JoinRecorder
  <2>5. ~raced' => FlagsOrStop'
    BY <1>0, <1>4 DEF TypeOK, CallerPhase, Stopping, Numbers, SignalAndRecorder, NoOverlap,
                      Overlap, Running, FlagsOrStop, StopIsComing, JoinRecorder
  <2> QED
    BY <2>1, <2>2, <2>3, <2>4, <2>5 DEF IInv
<1>5. CASE NullSignal(w)
  <2>1. TypeOK'
    <3>1. {enable', recordFlag', storageFlag', recordRun', stopped', ub', raced', lost'} \subseteq BOOLEAN
      BY <1>0, <1>5 DEF TypeOK, Overlap, NullSignal
    <3> QED
      BY <1>0, <1>5, <3>1 DEF TypeOK, NullSignal
  <2>2. CallerPhase'
    BY <1>0, <1>5 DEF TypeOK, CallerPhase, Stopping, NullSignal
  <2>3. Numbers'
    BY <1>0, <1>5 DEF TypeOK, Numbers, Running, NullSignal
  <2>4. ~raced' => SignalAndRecorder'
    BY <1>0, <1>5 DEF TypeOK, CallerPhase, Stopping, Numbers, SignalAndRecorder, NoOverlap,
                      Overlap, Running, NullSignal
  <2>5. ~raced' => FlagsOrStop'
    BY <1>0, <1>5 DEF TypeOK, CallerPhase, Stopping, Numbers, SignalAndRecorder, NoOverlap,
                      Overlap, Running, FlagsOrStop, StopIsComing, NullSignal
  <2> QED
    BY <2>1, <2>2, <2>3, <2>4, <2>5 DEF IInv
<1>6. CASE DestroySignal(w)
  <2>1. TypeOK'
    <3>1. signal # 0 => signal \in Recs
      BY <1>0 DEF TypeOK
    <3>0. freed \subseteq Recs /\ sem \in [Recs -> 0..1]
      BY <1>0 DEF TypeOK
    <3>2. freed' \subseteq Recs
      BY <1>6, <3>0, <3>1 DEF DestroySignal
    <3>4. sem' \in [Recs -> 0..1]
      <4>1. sem' = sem \/ sem' = [sem EXCEPT ![signal] = 0]
        BY <1>6 DEF DestroySignal
      <4> QED
        BY <3>0, <4>1
    <3>3. ub' \in BOOLEAN /\ raced' \in BOOLEAN /\ call' \in [Callers -> Calls]
      BY <1>0, <1>6 DEF TypeOK, DestroySignal
    <3> QED
      BY <1>0, <1>6, <3>2, <3>3, <3>4 DEF TypeOK, DestroySignal
  <2>2. CallerPhase'
    BY <1>0, <1>6 DEF TypeOK, CallerPhase, Stopping, DestroySignal, Waiting
  <2>3. Numbers'
    BY <1>0, <1>6 DEF TypeOK, Numbers, Running, DestroySignal, Waiting
  <2>4. ~raced' => SignalAndRecorder'
    BY <1>0, <1>6 DEF TypeOK, CallerPhase, Stopping, Numbers, SignalAndRecorder, NoOverlap,
                      Overlap, Running, DestroySignal, Waiting
  <2>5. ~raced' => FlagsOrStop'
    BY <1>0, <1>6 DEF TypeOK, CallerPhase, Stopping, Numbers, SignalAndRecorder, NoOverlap,
                      Overlap, Running, FlagsOrStop, StopIsComing, DestroySignal, Waiting
  <2> QED
    BY <2>1, <2>2, <2>3, <2>4, <2>5 DEF IInv
<1> QED
  BY <1>1, <1>2, <1>3, <1>4, <1>5, <1>6

(* rk_storage_muxer_init_by_id                                             *)
LEMMA Starts ==
  ASSUME IInv, ~ub, raced' = (raced \/ Overlap'), NEW w \in Callers,
         ReadParams(w) \/ CreateSignal(w) \/ SpawnRecorder(w)
  PROVE  IInv'
<1> USE RecorderAssumption DEF Recs, MaxInits, Callers, Calls, Events, sigVars, recVars, muxVars,
          flagVars, devVars, ctlVars, rpcVars, scanVars, Goto
<1>0. /\ TypeOK /\ CallerPhase /\ Numbers
      /\ ~raced => SignalAndRecorder /\ FlagsOrStop
  BY DEF IInv
<1>1. CASE ReadParams(w)
  <2>1. TypeOK'
    <3>1. call' \in [Callers -> Calls]
      BY <1>0, <1>1 DEF TypeOK, ReadParams
    <3>2. {enable', recordFlag', storageFlag', recordRun', stopped', ub', raced', lost'} \subseteq BOOLEAN
      BY <1>0, <1>1 DEF TypeOK, ReadParams, Overlap
    <3> QED
      BY <1>0, <1>1, <3>1, <3>2 DEF TypeOK, ReadParams
  <2>2. CallerPhase'
    BY <1>0, <1>1 DEF TypeOK, CallerPhase, Stopping, ReadParams
  <2>3. Numbers'
    BY <1>0, <1>1 DEF TypeOK, Numbers, Running, ReadParams
  <2>4. ~raced' => SignalAndRecorder'
    BY <1>0, <1>1 DEF TypeOK, CallerPhase, Stopping, Numbers, SignalAndRecorder, NoOverlap,
                      Overlap, Running, ReadParams
  <2>5. ~raced' => FlagsOrStop'
    BY <1>0, <1>1 DEF TypeOK, CallerPhase, Stopping, Numbers, SignalAndRecorder, NoOverlap,
                      Overlap, Running, FlagsOrStop, StopIsComing, ReadParams
  <2> QED
    BY <2>1, <2>2, <2>3, <2>4, <2>5 DEF IInv
<1>2. CASE CreateSignal(w)
  <2>1. TypeOK'
    <3>1. {enable', recordFlag', storageFlag', recordRun', stopped', ub', raced', lost'} \subseteq BOOLEAN
      BY <1>0, <1>2 DEF TypeOK, Overlap, CreateSignal
    <3> QED
      BY <1>0, <1>2, <3>1 DEF TypeOK, CreateSignal
  <2>2. CallerPhase'
    BY <1>0, <1>2 DEF TypeOK, CallerPhase, Stopping, CreateSignal
  <2>3. Numbers'
    BY <1>0, <1>2 DEF TypeOK, Numbers, Running, CreateSignal
  <2>4. ~raced' => SignalAndRecorder'
    BY <1>0, <1>2 DEF TypeOK, CallerPhase, Stopping, Numbers, SignalAndRecorder, NoOverlap,
                      Overlap, Running, CreateSignal
  <2>5. ~raced' => FlagsOrStop'
    BY <1>0, <1>2 DEF TypeOK, CallerPhase, Stopping, Numbers, SignalAndRecorder, NoOverlap,
                      Overlap, Running, FlagsOrStop, StopIsComing, CreateSignal
  <2> QED
    BY <2>1, <2>2, <2>3, <2>4, <2>5 DEF IInv
<1>3. CASE SpawnRecorder(w)
  <2>1. TypeOK'
    <3>1. PICK r \in 1..made : rec' = [rec EXCEPT ![r] = "test"] /\ tid' = r
      BY <1>3 DEF SpawnRecorder
    <3>2. tid' \in 0..MaxInits
      BY <1>0, <3>1 DEF TypeOK
    <3>3. rec' \in [Recs -> {"none", "test", "open", "sleep", "wait", "close", "done"}]
      BY <1>0, <3>1 DEF TypeOK
    <3>4. {enable', recordFlag', storageFlag', recordRun', stopped', ub', raced', lost'} \subseteq BOOLEAN
      BY <1>0, <1>3 DEF TypeOK, Overlap, SpawnRecorder
    <3> QED
      BY <1>0, <1>3, <3>2, <3>3, <3>4 DEF TypeOK, SpawnRecorder
  <2>2. CallerPhase'
    BY <1>0, <1>3 DEF TypeOK, CallerPhase, Stopping, SpawnRecorder
  <2>3. Numbers'
    BY <1>0, <1>3 DEF TypeOK, Numbers, Running, SpawnRecorder
  <2>4. ~raced' => SignalAndRecorder'
    <3> SUFFICES ASSUME ~raced' PROVE SignalAndRecorder'
      OBVIOUS
    <3>1. PICK r \in 1..made : rec[r] = "none" /\ rec' = [rec EXCEPT ![r] = "test"] /\ tid' = r
      BY <1>3 DEF SpawnRecorder
    <3>2. ~raced /\ SignalAndRecorder /\ Running = {}
      BY <1>0, <1>3 DEF SignalAndRecorder, SpawnRecorder
    <3>3. r \in Recs \ joined
      BY <1>0, <3>1 DEF TypeOK, Numbers
    <3>4. Running' = {r}
      BY <1>0, <3>1, <3>2, <3>3 DEF TypeOK, Running
    <3>5. \A v \in Callers \ {w} : call[v] = "idle" /\ call'[v] = "idle"
      BY <1>0, <1>3, <3>2 DEF TypeOK, CallerPhase, SignalAndRecorder, NoOverlap, SpawnRecorder
    <3>6. signal # 0
      BY <1>0, <1>3, <3>2 DEF SignalAndRecorder, SpawnRecorder
    <3>7. /\ call'[w] = "idle"
          /\ UNCHANGED <<enable, signal, freed, joined, ctl, msg, ub>>
      BY <1>0, <1>3 DEF TypeOK, SpawnRecorder
    <3>8. enable /\ ctl \notin {"down", "manager", "joinmsg", "joinscan", "deinit"} /\ msg # "add"
      <4>1. enable /\ call[w] = "spawn"
        BY <1>0, <1>3 DEF CallerPhase, SpawnRecorder
      <4>2. CASE w = "ctl"
        BY <1>0, <3>2, <4>1, <4>2 DEF TypeOK, CallerPhase, SignalAndRecorder, NoOverlap, Stopping
      <4>3. CASE w = "msg"
        BY <1>0, <3>2, <4>1, <4>3 DEF TypeOK, CallerPhase, SignalAndRecorder, NoOverlap, Stopping
      <4> QED
        BY <4>1, <4>2, <4>3
    <3> QED
      BY <3>1, <3>2, <3>3, <3>4, <3>5, <3>6, <3>7, <3>8, <1>3 DEF SignalAndRecorder, NoOverlap,
         SpawnRecorder
  <2>5. ~raced' => FlagsOrStop'
    BY <1>0, <1>3 DEF TypeOK, CallerPhase, Stopping, Numbers, SignalAndRecorder, NoOverlap,
                      Overlap, Running, FlagsOrStop, StopIsComing, SpawnRecorder
  <2> QED
    BY <2>1, <2>2, <2>3, <2>4, <2>5 DEF IInv
<1> QED
  BY <1>1, <1>2, <1>3

(* rk_storage_record                                                       *)
LEMMA Records ==
  ASSUME IInv, ~ub, raced' = (raced \/ Overlap'), NEW r \in Recs,
         \/ TestFlags(r) \/ OpenMuxer(r) \/ StartWait(r)
         \/ WaitSignalled(r) \/ WaitTimesOut(r) \/ CloseMuxer(r)
  PROVE  IInv'
<1> USE RecorderAssumption DEF Recs, MaxInits, Callers, Calls, Events, sigVars, recVars, muxVars,
          flagVars, devVars, ctlVars, rpcVars, scanVars, Goto
<1>0. /\ TypeOK /\ CallerPhase /\ Numbers
      /\ ~raced => SignalAndRecorder /\ FlagsOrStop
  BY DEF IInv
<1>1. CASE TestFlags(r)
  <2>1. TypeOK'
    <3>1. {enable', recordFlag', storageFlag', recordRun', stopped', ub', raced', lost'} \subseteq BOOLEAN
      BY <1>0, <1>1 DEF TypeOK, Overlap, TestFlags
    <3> QED
      BY <1>0, <1>1, <3>1 DEF TypeOK, TestFlags
  <2>2. CallerPhase'
    BY <1>0, <1>1 DEF TypeOK, CallerPhase, Stopping, TestFlags
  <2>3. Numbers'
    BY <1>0, <1>1 DEF TypeOK, Numbers, Running, TestFlags
  <2>4. ~raced' => SignalAndRecorder'
    BY <1>0, <1>1 DEF TypeOK, CallerPhase, Stopping, Numbers, SignalAndRecorder, NoOverlap,
                      Overlap, Running, TestFlags
  <2>5. ~raced' => FlagsOrStop'
    BY <1>0, <1>1 DEF TypeOK, CallerPhase, Stopping, Numbers, SignalAndRecorder, NoOverlap,
                      Overlap, Running, FlagsOrStop, StopIsComing, TestFlags
  <2> QED
    BY <2>1, <2>2, <2>3, <2>4, <2>5 DEF IInv
<1>2. CASE OpenMuxer(r)
  <2>1. TypeOK'
    <3>1. {enable', recordFlag', storageFlag', recordRun', stopped', ub', raced', lost'} \subseteq BOOLEAN
      BY <1>0, <1>2 DEF TypeOK, Overlap, OpenMuxer
    <3> QED
      BY <1>0, <1>2, <3>1 DEF TypeOK, OpenMuxer
  <2>2. CallerPhase'
    BY <1>0, <1>2 DEF TypeOK, CallerPhase, Stopping, OpenMuxer
  <2>3. Numbers'
    BY <1>0, <1>2 DEF TypeOK, Numbers, Running, OpenMuxer
  <2>4. ~raced' => SignalAndRecorder'
    BY <1>0, <1>2 DEF TypeOK, CallerPhase, Stopping, Numbers, SignalAndRecorder, NoOverlap,
                      Overlap, Running, OpenMuxer
  <2>5. ~raced' => FlagsOrStop'
    BY <1>0, <1>2 DEF TypeOK, CallerPhase, Stopping, Numbers, SignalAndRecorder, NoOverlap,
                      Overlap, Running, FlagsOrStop, StopIsComing, OpenMuxer
  <2> QED
    BY <2>1, <2>2, <2>3, <2>4, <2>5 DEF IInv
<1>3. CASE StartWait(r)
  <2>1. TypeOK'
    <3>1. {enable', recordFlag', storageFlag', recordRun', stopped', ub', raced', lost'} \subseteq BOOLEAN
      BY <1>0, <1>3 DEF TypeOK, Overlap, StartWait
    <3> QED
      BY <1>0, <1>3, <3>1 DEF TypeOK, StartWait
  <2>2. CallerPhase'
    BY <1>0, <1>3 DEF TypeOK, CallerPhase, Stopping, StartWait
  <2>3. Numbers'
    BY <1>0, <1>3 DEF TypeOK, Numbers, Running, StartWait
  <2>4. ~raced' => SignalAndRecorder'
    BY <1>0, <1>3 DEF TypeOK, CallerPhase, Stopping, Numbers, SignalAndRecorder, NoOverlap,
                      Overlap, Running, StartWait
  <2>5. ~raced' => FlagsOrStop'
    BY <1>0, <1>3 DEF TypeOK, CallerPhase, Stopping, Numbers, SignalAndRecorder, NoOverlap,
                      Overlap, Running, FlagsOrStop, StopIsComing, StartWait
  <2> QED
    BY <2>1, <2>2, <2>3, <2>4, <2>5 DEF IInv
<1>4. CASE WaitSignalled(r)
  <2>1. TypeOK'
    <3>1. sem' \in [Recs -> 0..1]
      <4>1. CASE waits[r] \in Recs
        BY <1>0, <1>4, <4>1 DEF TypeOK, WaitSignalled
      <4>2. CASE waits[r] \notin Recs
        BY <1>0, <1>4, <4>2 DEF TypeOK, WaitSignalled
      <4> QED
        BY <4>1, <4>2
    <3>2. rec' \in [Recs -> {"none", "test", "open", "sleep", "wait", "close", "done"}]
      BY <1>0, <1>4 DEF TypeOK, WaitSignalled
    <3> QED
      BY <1>0, <1>4, <3>1, <3>2 DEF TypeOK, WaitSignalled
  <2>2. CallerPhase'
    BY <1>0, <1>4 DEF TypeOK, CallerPhase, Stopping, WaitSignalled
  <2>3. Numbers'
    BY <1>0, <1>4 DEF TypeOK, Numbers, Running, WaitSignalled
  <2>4. ~raced' => SignalAndRecorder'
    BY <1>0, <1>4 DEF TypeOK, CallerPhase, Stopping, Numbers, SignalAndRecorder, NoOverlap,
                      Overlap, Running, WaitSignalled
  <2>5. ~raced' => FlagsOrStop'
    BY <1>0, <1>4 DEF TypeOK, CallerPhase, Stopping, Numbers, SignalAndRecorder, NoOverlap,
                      Overlap, Running, FlagsOrStop, StopIsComing, WaitSignalled
  <2> QED
    BY <2>1, <2>2, <2>3, <2>4, <2>5 DEF IInv
<1>5. CASE WaitTimesOut(r)
  <2>1. TypeOK'
    <3>1. {enable', recordFlag', storageFlag', recordRun', stopped', ub', raced', lost'} \subseteq BOOLEAN
      BY <1>0, <1>5 DEF TypeOK, Overlap, WaitTimesOut
    <3> QED
      BY <1>0, <1>5, <3>1 DEF TypeOK, WaitTimesOut
  <2>2. CallerPhase'
    BY <1>0, <1>5 DEF TypeOK, CallerPhase, Stopping, WaitTimesOut
  <2>3. Numbers'
    BY <1>0, <1>5 DEF TypeOK, Numbers, Running, WaitTimesOut
  <2>4. ~raced' => SignalAndRecorder'
    BY <1>0, <1>5 DEF TypeOK, CallerPhase, Stopping, Numbers, SignalAndRecorder, NoOverlap,
                      Overlap, Running, WaitTimesOut
  <2>5. ~raced' => FlagsOrStop'
    BY <1>0, <1>5 DEF TypeOK, CallerPhase, Stopping, Numbers, SignalAndRecorder, NoOverlap,
                      Overlap, Running, FlagsOrStop, StopIsComing, WaitTimesOut
  <2> QED
    BY <2>1, <2>2, <2>3, <2>4, <2>5 DEF IInv
<1>6. CASE CloseMuxer(r)
  <2>1. TypeOK'
    <3>1. {enable', recordFlag', storageFlag', recordRun', stopped', ub', raced', lost'} \subseteq BOOLEAN
      BY <1>0, <1>6 DEF TypeOK, Overlap, CloseMuxer
    <3> QED
      BY <1>0, <1>6, <3>1 DEF TypeOK, CloseMuxer
  <2>2. CallerPhase'
    BY <1>0, <1>6 DEF TypeOK, CallerPhase, Stopping, CloseMuxer
  <2>3. Numbers'
    BY <1>0, <1>6 DEF TypeOK, Numbers, Running, CloseMuxer
  <2>4. ~raced' => SignalAndRecorder'
    BY <1>0, <1>6 DEF TypeOK, CallerPhase, Stopping, Numbers, SignalAndRecorder, NoOverlap,
                      Overlap, Running, CloseMuxer
  <2>5. ~raced' => FlagsOrStop'
    BY <1>0, <1>6 DEF TypeOK, CallerPhase, Stopping, Numbers, SignalAndRecorder, NoOverlap,
                      Overlap, Running, FlagsOrStop, StopIsComing, CloseMuxer
  <2> QED
    BY <2>1, <2>2, <2>3, <2>4, <2>5 DEF IInv
<1> QED
  BY <1>1, <1>2, <1>3, <1>4, <1>5, <1>6

(* rk_storage_init and rk_storage_deinit                                   *)
LEMMA Controls ==
  ASSUME IInv, ~ub, raced' = (raced \/ Overlap'),
         \/ SetDevAttr \/ ManagerInit \/ InitReturns \/ BeginDeinit
         \/ JoinListener \/ JoinMsgThread \/ JoinScanThread
  PROVE  IInv'
<1> USE RecorderAssumption DEF Recs, MaxInits, Callers, Calls, Events, sigVars, recVars, muxVars,
          flagVars, devVars, ctlVars, rpcVars, scanVars, Goto
<1>0. /\ TypeOK /\ CallerPhase /\ Numbers
      /\ ~raced => SignalAndRecorder /\ FlagsOrStop
  BY DEF IInv
<1>1. CASE SetDevAttr
  <2>1. TypeOK'
    <3>1. {enable', recordFlag', storageFlag', recordRun', stopped', ub', raced', lost'} \subseteq BOOLEAN
      BY <1>0, <1>1 DEF TypeOK, Overlap, SetDevAttr
    <3> QED
      BY <1>0, <1>1, <3>1 DEF TypeOK, SetDevAttr
  <2>2. CallerPhase'
    BY <1>0, <1>1 DEF TypeOK, CallerPhase, Stopping, SetDevAttr
  <2>3. Numbers'
    BY <1>0, <1>1 DEF TypeOK, Numbers, Running, SetDevAttr
  <2>4. ~raced' => SignalAndRecorder'
    BY <1>0, <1>1 DEF TypeOK, CallerPhase, Stopping, Numbers, SignalAndRecorder, NoOverlap,
                      Overlap, Running, SetDevAttr
  <2>5. ~raced' => FlagsOrStop'
    BY <1>0, <1>1 DEF TypeOK, CallerPhase, Stopping, Numbers, SignalAndRecorder, NoOverlap,
                      Overlap, Running, FlagsOrStop, StopIsComing, SetDevAttr
  <2> QED
    BY <2>1, <2>2, <2>3, <2>4, <2>5 DEF IInv
<1>2. CASE ManagerInit
  <2>1. TypeOK'
    <3>1. {enable', recordFlag', storageFlag', recordRun', stopped', ub', raced', lost'} \subseteq BOOLEAN
      BY <1>0, <1>2 DEF TypeOK, Overlap, ManagerInit
    <3> QED
      BY <1>0, <1>2, <3>1 DEF TypeOK, ManagerInit
  <2>2. CallerPhase'
    BY <1>0, <1>2 DEF TypeOK, CallerPhase, Stopping, ManagerInit
  <2>3. Numbers'
    BY <1>0, <1>2 DEF TypeOK, Numbers, Running, ManagerInit
  <2>4. ~raced' => SignalAndRecorder'
    BY <1>0, <1>2 DEF TypeOK, CallerPhase, Stopping, Numbers, SignalAndRecorder, NoOverlap,
                      Overlap, Running, ManagerInit
  <2>5. ~raced' => FlagsOrStop'
    BY <1>0, <1>2 DEF TypeOK, CallerPhase, Stopping, Numbers, SignalAndRecorder, NoOverlap,
                      Overlap, Running, FlagsOrStop, StopIsComing, ManagerInit
  <2> QED
    BY <2>1, <2>2, <2>3, <2>4, <2>5 DEF IInv
<1>3. CASE InitReturns
  <2>1. TypeOK'
    <3>1. {enable', recordFlag', storageFlag', recordRun', stopped', ub', raced', lost'} \subseteq BOOLEAN
      BY <1>0, <1>3 DEF TypeOK, Overlap, InitReturns
    <3> QED
      BY <1>0, <1>3, <3>1 DEF TypeOK, InitReturns
  <2>2. CallerPhase'
    BY <1>0, <1>3 DEF TypeOK, CallerPhase, Stopping, InitReturns
  <2>3. Numbers'
    BY <1>0, <1>3 DEF TypeOK, Numbers, Running, InitReturns
  <2>4. ~raced' => SignalAndRecorder'
    BY <1>0, <1>3 DEF TypeOK, CallerPhase, Stopping, Numbers, SignalAndRecorder, NoOverlap,
                      Overlap, Running, InitReturns
  <2>5. ~raced' => FlagsOrStop'
    BY <1>0, <1>3 DEF TypeOK, CallerPhase, Stopping, Numbers, SignalAndRecorder, NoOverlap,
                      Overlap, Running, FlagsOrStop, StopIsComing, InitReturns
  <2> QED
    BY <2>1, <2>2, <2>3, <2>4, <2>5 DEF IInv
<1>4. CASE BeginDeinit
  <2>1. TypeOK'
    <3>1. {enable', recordFlag', storageFlag', recordRun', stopped', ub', raced', lost'} \subseteq BOOLEAN
      BY <1>0, <1>4 DEF TypeOK, Overlap, BeginDeinit
    <3> QED
      BY <1>0, <1>4, <3>1 DEF TypeOK, BeginDeinit
  <2>2. CallerPhase'
    BY <1>0, <1>4 DEF TypeOK, CallerPhase, Stopping, BeginDeinit
  <2>3. Numbers'
    BY <1>0, <1>4 DEF TypeOK, Numbers, Running, BeginDeinit
  <2>4. ~raced' => SignalAndRecorder'
    BY <1>0, <1>4 DEF TypeOK, CallerPhase, Stopping, Numbers, SignalAndRecorder, NoOverlap,
                      Overlap, Running, BeginDeinit
  <2>5. ~raced' => FlagsOrStop'
    BY <1>0, <1>4 DEF TypeOK, CallerPhase, Stopping, Numbers, SignalAndRecorder, NoOverlap,
                      Overlap, Running, FlagsOrStop, StopIsComing, BeginDeinit
  <2> QED
    BY <2>1, <2>2, <2>3, <2>4, <2>5 DEF IInv
<1>5. CASE JoinListener
  <2>1. TypeOK'
    <3>1. {enable', recordFlag', storageFlag', recordRun', stopped', ub', raced', lost'} \subseteq BOOLEAN
      BY <1>0, <1>5 DEF TypeOK, Overlap, JoinListener
    <3> QED
      BY <1>0, <1>5, <3>1 DEF TypeOK, JoinListener
  <2>2. CallerPhase'
    BY <1>0, <1>5 DEF TypeOK, CallerPhase, Stopping, JoinListener
  <2>3. Numbers'
    BY <1>0, <1>5 DEF TypeOK, Numbers, Running, JoinListener
  <2>4. ~raced' => SignalAndRecorder'
    BY <1>0, <1>5 DEF TypeOK, CallerPhase, Stopping, Numbers, SignalAndRecorder, NoOverlap,
                      Overlap, Running, JoinListener
  <2>5. ~raced' => FlagsOrStop'
    BY <1>0, <1>5 DEF TypeOK, CallerPhase, Stopping, Numbers, SignalAndRecorder, NoOverlap,
                      Overlap, Running, FlagsOrStop, StopIsComing, JoinListener
  <2> QED
    BY <2>1, <2>2, <2>3, <2>4, <2>5 DEF IInv
<1>6. CASE JoinMsgThread
  <2>1. TypeOK'
    <3>1. {enable', recordFlag', storageFlag', recordRun', stopped', ub', raced', lost'} \subseteq BOOLEAN
      BY <1>0, <1>6 DEF TypeOK, Overlap, JoinMsgThread
    <3> QED
      BY <1>0, <1>6, <3>1 DEF TypeOK, JoinMsgThread
  <2>2. CallerPhase'
    BY <1>0, <1>6 DEF TypeOK, CallerPhase, Stopping, JoinMsgThread
  <2>3. Numbers'
    BY <1>0, <1>6 DEF TypeOK, Numbers, Running, JoinMsgThread
  <2>4. ~raced' => SignalAndRecorder'
    BY <1>0, <1>6 DEF TypeOK, CallerPhase, Stopping, Numbers, SignalAndRecorder, NoOverlap,
                      Overlap, Running, JoinMsgThread
  <2>5. ~raced' => FlagsOrStop'
    BY <1>0, <1>6 DEF TypeOK, CallerPhase, Stopping, Numbers, SignalAndRecorder, NoOverlap,
                      Overlap, Running, FlagsOrStop, StopIsComing, JoinMsgThread
  <2> QED
    BY <2>1, <2>2, <2>3, <2>4, <2>5 DEF IInv
<1>7. CASE JoinScanThread
  <2>1. TypeOK'
    <3>1. {enable', recordFlag', storageFlag', recordRun', stopped', ub', raced', lost'} \subseteq BOOLEAN
      BY <1>0, <1>7 DEF TypeOK, Overlap, JoinScanThread
    <3> QED
      BY <1>0, <1>7, <3>1 DEF TypeOK, JoinScanThread
  <2>2. CallerPhase'
    BY <1>0, <1>7 DEF TypeOK, CallerPhase, Stopping, JoinScanThread
  <2>3. Numbers'
    BY <1>0, <1>7 DEF TypeOK, Numbers, Running, JoinScanThread
  <2>4. ~raced' => SignalAndRecorder'
    BY <1>0, <1>7 DEF TypeOK, CallerPhase, Stopping, Numbers, SignalAndRecorder, NoOverlap,
                      Overlap, Running, JoinScanThread
  <2>5. ~raced' => FlagsOrStop'
    BY <1>0, <1>7 DEF TypeOK, CallerPhase, Stopping, Numbers, SignalAndRecorder, NoOverlap,
                      Overlap, Running, FlagsOrStop, StopIsComing, JoinScanThread
  <2> QED
    BY <2>1, <2>2, <2>3, <2>4, <2>5 DEF IInv
<1> QED
  BY <1>1, <1>2, <1>3, <1>4, <1>5, <1>6, <1>7

(* The message thread                                                      *)
LEMMA Messaged ==
  ASSUME IInv, ~ub, raced' = (raced \/ Overlap'),
         TakeMessage \/ ScanJoined \/ RestartRecorder \/ MessageHandled
  PROVE  IInv'
<1> USE RecorderAssumption DEF Recs, MaxInits, Callers, Calls, Events, sigVars, recVars, muxVars,
          flagVars, devVars, ctlVars, rpcVars, scanVars, Goto
<1>0. /\ TypeOK /\ CallerPhase /\ Numbers
      /\ ~raced => SignalAndRecorder /\ FlagsOrStop
  BY DEF IInv
<1>1. CASE TakeMessage
  <2>1. TypeOK'
    <3>1. queue' \in Seq(Events)
      BY <1>0, <1>1 DEF TypeOK, TakeMessage
    <3>2. /\ recordFlag' \in BOOLEAN /\ msg' \in {"off", "idle", "joinscan", "add", "handling"}
          /\ call' \in [Callers -> Calls] /\ raced' \in BOOLEAN
          /\ mount' \in {"scanning", "mounted", "unmounted", "not_formatted"}
          /\ scan' \in {"none", "test", "set", "loop", "done"} /\ lost' \in BOOLEAN
      BY <1>0, <1>1 DEF TypeOK, TakeMessage, RefuseDisk, AddDisk, RemoveOther,
                      RemoveDisk
    <3> QED
      BY <1>0, <1>1, <3>1, <3>2 DEF TypeOK, TakeMessage
  <2>2. CallerPhase'
    BY <1>0, <1>1 DEF TypeOK, CallerPhase, Stopping, TakeMessage, RefuseDisk, AddDisk, RemoveOther,
                      RemoveDisk
  <2>3. Numbers'
    BY <1>0, <1>1 DEF TypeOK, Numbers, Running, TakeMessage, RefuseDisk, AddDisk, RemoveOther,
                      RemoveDisk
  <2>4. ~raced' => SignalAndRecorder'
    BY <1>0, <1>1 DEF TypeOK, CallerPhase, Stopping, Numbers, SignalAndRecorder, NoOverlap,
                      Overlap, Running, TakeMessage, RefuseDisk, AddDisk, RemoveOther,
                      RemoveDisk
  <2>5. ~raced' => FlagsOrStop'
    <3> SUFFICES ASSUME ~raced' PROVE FlagsOrStop'
      OBVIOUS
    <3>1. CASE RefuseDisk
      <4>1. queue \in Seq(Events) /\ queue # <<>> /\ queue' = Tail(queue) /\ queue[1] = "add"
        BY <1>0, <1>1, <3>1 DEF TypeOK, TakeMessage, RefuseDisk
      <4>2. \A i \in DOMAIN queue : i = 1 \/ (i - 1 \in DOMAIN queue' /\ queue'[i - 1] = queue[i])
        BY <4>1
      <4>3. (\E i \in DOMAIN queue : queue[i] = "remove") => \E i \in DOMAIN queue' : queue'[i] = "remove"
        BY <4>1, <4>2
      <4>4. UNCHANGED <<rec, storageFlag, recordFlag, call, listener, msg>>
        BY <1>1, <3>1 DEF TakeMessage, RefuseDisk
      <4> QED
        BY <1>0, <4>3, <4>4 DEF FlagsOrStop, StopIsComing
    <3>2. CASE AddDisk \/ RemoveOther
      <4>1. call'["msg"] = "deinit"
        BY <1>0, <3>2 DEF TypeOK, AddDisk, RemoveOther
      <4> QED
        BY <4>1 DEF FlagsOrStop, StopIsComing
    <3>3. CASE RemoveDisk
      BY <3>3 DEF RemoveDisk, FlagsOrStop, StopIsComing
    <3> QED
      BY <1>1, <3>1, <3>2, <3>3 DEF TakeMessage
  <2> QED
    BY <2>1, <2>2, <2>3, <2>4, <2>5 DEF IInv
<1>2. CASE RestartRecorder
  <2>1. TypeOK'
    <3>1. {enable', recordFlag', storageFlag', recordRun', stopped', ub', raced', lost'} \subseteq BOOLEAN
      BY <1>0, <1>2 DEF TypeOK, Overlap, RestartRecorder
    <3> QED
      BY <1>0, <1>2, <3>1 DEF TypeOK, RestartRecorder
  <2>2. CallerPhase'
    BY <1>0, <1>2 DEF TypeOK, CallerPhase, Stopping, RestartRecorder
  <2>3. Numbers'
    BY <1>0, <1>2 DEF TypeOK, Numbers, Running, RestartRecorder
  <2>4. ~raced' => SignalAndRecorder'
    BY <1>0, <1>2 DEF TypeOK, CallerPhase, Stopping, Numbers, SignalAndRecorder, NoOverlap,
                      Overlap, Running, RestartRecorder
  <2>5. ~raced' => FlagsOrStop'
    BY <1>0, <1>2 DEF TypeOK, CallerPhase, Stopping, Numbers, SignalAndRecorder, NoOverlap,
                      Overlap, Running, FlagsOrStop, StopIsComing, RestartRecorder
  <2> QED
    BY <2>1, <2>2, <2>3, <2>4, <2>5 DEF IInv
<1>3. CASE MessageHandled
  <2>1. TypeOK'
    <3>1. {enable', recordFlag', storageFlag', recordRun', stopped', ub', raced', lost'} \subseteq BOOLEAN
      BY <1>0, <1>3 DEF TypeOK, Overlap, MessageHandled
    <3> QED
      BY <1>0, <1>3, <3>1 DEF TypeOK, MessageHandled
  <2>2. CallerPhase'
    BY <1>0, <1>3 DEF TypeOK, CallerPhase, Stopping, MessageHandled
  <2>3. Numbers'
    BY <1>0, <1>3 DEF TypeOK, Numbers, Running, MessageHandled
  <2>4. ~raced' => SignalAndRecorder'
    BY <1>0, <1>3 DEF TypeOK, CallerPhase, Stopping, Numbers, SignalAndRecorder, NoOverlap,
                      Overlap, Running, MessageHandled
  <2>5. ~raced' => FlagsOrStop'
    BY <1>0, <1>3 DEF TypeOK, CallerPhase, Stopping, Numbers, SignalAndRecorder, NoOverlap,
                      Overlap, Running, FlagsOrStop, StopIsComing, MessageHandled
  <2> QED
    BY <2>1, <2>2, <2>3, <2>4, <2>5 DEF IInv
<1>4. CASE ScanJoined
  <2>1. TypeOK'
    <3>1. {enable', recordFlag', storageFlag', recordRun', stopped', ub', raced', lost'} \subseteq BOOLEAN
      BY <1>0, <1>4 DEF TypeOK, Overlap, ScanJoined
    <3> QED
      BY <1>0, <1>4, <3>1 DEF TypeOK, ScanJoined
  <2>2. CallerPhase'
    BY <1>0, <1>4 DEF TypeOK, CallerPhase, Stopping, ScanJoined
  <2>3. Numbers'
    BY <1>0, <1>4 DEF TypeOK, Numbers, Running, ScanJoined
  <2>4. ~raced' => SignalAndRecorder'
    BY <1>0, <1>4 DEF TypeOK, CallerPhase, Stopping, Numbers, SignalAndRecorder, NoOverlap,
                      Overlap, Running, ScanJoined
  <2>5. ~raced' => FlagsOrStop'
    <3>1. call'["msg"] = "deinit"
      BY <1>0, <1>4 DEF TypeOK, ScanJoined
    <3> QED
      BY <3>1 DEF FlagsOrStop, StopIsComing
  <2> QED
    BY <2>1, <2>2, <2>3, <2>4, <2>5 DEF IInv
<1> QED
  BY <1>1, <1>2, <1>3, <1>4

(* The listener and the RPC threads                                        *)
LEMMA Others ==
  ASSUME IInv, ~ub, raced' = (raced \/ Overlap'), NEW e \in Events,
         ReceiveEvent(e) \/ SendMessage \/ rk_storage_record_start \/ rk_storage_record_stop
  PROVE  IInv'
<1> USE RecorderAssumption DEF Recs, MaxInits, Callers, Calls, Events, sigVars, recVars, muxVars,
          flagVars, devVars, ctlVars, rpcVars, scanVars, Goto
<1>0. /\ TypeOK /\ CallerPhase /\ Numbers
      /\ ~raced => SignalAndRecorder /\ FlagsOrStop
  BY DEF IInv
<1>1. CASE ReceiveEvent(e)
  <2>1. TypeOK'
    <3>1. {enable', recordFlag', storageFlag', recordRun', stopped', ub', raced', lost'} \subseteq BOOLEAN
      BY <1>0, <1>1 DEF TypeOK, Overlap, ReceiveEvent
    <3>2. listener' \in {"off", "idle"} \union Events
      BY <1>1 DEF ReceiveEvent
    <3>3. /\ UNCHANGED <<mount, scan, signal, tid, made, sem, freed, joined, rec, waits, file>>
          /\ UNCHANGED <<ctl, msg, queue, call>>
      BY <1>1 DEF ReceiveEvent
    <3> QED
      BY <1>0, <3>1, <3>2, <3>3 DEF TypeOK
  <2>2. CallerPhase'
    BY <1>0, <1>1 DEF TypeOK, CallerPhase, Stopping, ReceiveEvent
  <2>3. Numbers'
    BY <1>0, <1>1 DEF TypeOK, Numbers, Running, ReceiveEvent
  <2>4. ~raced' => SignalAndRecorder'
    BY <1>0, <1>1 DEF TypeOK, CallerPhase, Stopping, Numbers, SignalAndRecorder, NoOverlap,
                      Overlap, Running, ReceiveEvent
  <2>5. ~raced' => FlagsOrStop'
    BY <1>0, <1>1 DEF TypeOK, CallerPhase, Stopping, Numbers, SignalAndRecorder, NoOverlap,
                      Overlap, Running, FlagsOrStop, StopIsComing, ReceiveEvent
  <2> QED
    BY <2>1, <2>2, <2>3, <2>4, <2>5 DEF IInv
<1>2. CASE SendMessage
  <2>1. TypeOK'
    <3>1. {enable', recordFlag', storageFlag', recordRun', stopped', ub', raced', lost'} \subseteq BOOLEAN
      BY <1>0, <1>2 DEF TypeOK, Overlap, SendMessage
    <3> QED
      BY <1>0, <1>2, <3>1 DEF TypeOK, SendMessage
  <2>2. CallerPhase'
    BY <1>0, <1>2 DEF TypeOK, CallerPhase, Stopping, SendMessage
  <2>3. Numbers'
    BY <1>0, <1>2 DEF TypeOK, Numbers, Running, SendMessage
  <2>4. ~raced' => SignalAndRecorder'
    BY <1>0, <1>2 DEF TypeOK, CallerPhase, Stopping, Numbers, SignalAndRecorder, NoOverlap,
                      Overlap, Running, SendMessage
  <2>5. ~raced' => FlagsOrStop'
    <3>1. queue \in Seq(Events) /\ listener \in Events /\ queue' = Append(queue, listener)
      BY <1>0, <1>2 DEF TypeOK, SendMessage
    <3>2. /\ Len(queue) + 1 \in DOMAIN queue' /\ queue'[Len(queue) + 1] = listener
          /\ \A i \in DOMAIN queue : i \in DOMAIN queue' /\ queue'[i] = queue[i]
      BY <3>1
    <3>3. StopIsComing => StopIsComing'
      BY <3>2, <1>2 DEF StopIsComing, SendMessage
    <3> QED
      BY <1>0, <3>3, <1>2 DEF FlagsOrStop, SendMessage
  <2> QED
    BY <2>1, <2>2, <2>3, <2>4, <2>5 DEF IInv
<1>3. CASE rk_storage_record_start
  <2>1. TypeOK'
    <3>1. {enable', recordFlag', storageFlag', recordRun', stopped', ub', raced', lost'} \subseteq BOOLEAN
      BY <1>0, <1>3 DEF TypeOK, Overlap, rk_storage_record_start
    <3> QED
      BY <1>0, <1>3, <3>1 DEF TypeOK, rk_storage_record_start
  <2>2. CallerPhase'
    BY <1>0, <1>3 DEF TypeOK, CallerPhase, Stopping, rk_storage_record_start
  <2>3. Numbers'
    BY <1>0, <1>3 DEF TypeOK, Numbers, Running, rk_storage_record_start
  <2>4. ~raced' => SignalAndRecorder'
    BY <1>0, <1>3 DEF TypeOK, CallerPhase, Stopping, Numbers, SignalAndRecorder, NoOverlap,
                      Overlap, Running, rk_storage_record_start
  <2>5. ~raced' => FlagsOrStop'
    BY <1>0, <1>3 DEF TypeOK, CallerPhase, Stopping, Numbers, SignalAndRecorder, NoOverlap,
                      Overlap, Running, FlagsOrStop, StopIsComing, rk_storage_record_start
  <2> QED
    BY <2>1, <2>2, <2>3, <2>4, <2>5 DEF IInv
<1>4. CASE rk_storage_record_stop
  <2>1. TypeOK'
    <3>1. {enable', recordFlag', storageFlag', recordRun', stopped', ub', raced', lost'} \subseteq BOOLEAN
      BY <1>0, <1>4 DEF TypeOK, Overlap, rk_storage_record_stop
    <3> QED
      BY <1>0, <1>4, <3>1 DEF TypeOK, rk_storage_record_stop
  <2>2. CallerPhase'
    BY <1>0, <1>4 DEF TypeOK, CallerPhase, Stopping, rk_storage_record_stop
  <2>3. Numbers'
    BY <1>0, <1>4 DEF TypeOK, Numbers, Running, rk_storage_record_stop
  <2>4. ~raced' => SignalAndRecorder'
    BY <1>0, <1>4 DEF TypeOK, CallerPhase, Stopping, Numbers, SignalAndRecorder, NoOverlap,
                      Overlap, Running, rk_storage_record_stop
  <2>5. ~raced' => FlagsOrStop'
    BY <1>0, <1>4 DEF TypeOK, CallerPhase, Stopping, Numbers, SignalAndRecorder, NoOverlap,
                      Overlap, Running, FlagsOrStop, StopIsComing, rk_storage_record_stop
  <2> QED
    BY <2>1, <2>2, <2>3, <2>4, <2>5 DEF IInv
<1> QED
  BY <1>1, <1>2, <1>3, <1>4

(* The file scan thread and its monitor change nothing of the recorder.    *)
LEMMA Scans ==
  ASSUME IInv, ~ub, raced' = (raced \/ Overlap'), FileScan \/ MonitorUnmount
  PROVE  IInv'
<1>1. UNCHANGED others
  BY DEF FileScan, ScanTest, ScanSet, ScanEnds, MonitorUnmount
<1>2. /\ mount' \in {"scanning", "mounted", "unmounted", "not_formatted"}
      /\ scan' \in {"none", "test", "set", "loop", "done"} /\ lost' \in BOOLEAN
  BY DEF IInv, TypeOK, FileScan, ScanTest, ScanSet, ScanEnds, MonitorUnmount
<1>3. TypeOK' /\ CallerPhase' /\ Numbers'
  BY <1>1, <1>2 DEF others, sigVars, recVars, muxVars, flagVars, devVars, ctlVars, rpcVars, IInv,
                    TypeOK, CallerPhase, Numbers, Running, Overlap
<1>4. ~raced' => SignalAndRecorder' /\ FlagsOrStop'
  BY <1>1 DEF others, sigVars, recVars, muxVars, flagVars, devVars, ctlVars, rpcVars, IInv,
              SignalAndRecorder, NoOverlap, FlagsOrStop, StopIsComing, Running
<1> QED
  BY <1>3, <1>4 DEF IInv

(* Every step preserves the invariant.                                     *)
LEMMA NextIInv == IInv /\ [Next]_vars => IInv'
<1> SUFFICES ASSUME IInv, [Next]_vars PROVE IInv'
  OBVIOUS
<1>0. "add" \in Events /\ Callers = {"ctl", "msg"}
  BY DEF Events, Callers
<1>1. CASE Do(Step)
  <2>0. ~ub /\ raced' = (raced \/ Overlap') /\ Step
    BY <1>1 DEF Do
  <2>1. ASSUME NEW w \in Callers, MuxerCall(w) PROVE IInv'
    BY <2>0, <2>1, Stops, Starts DEF MuxerCall
  <2>2. CASE Control \/ SetDevAttr \/ BeginDeinit
    BY <1>0, <2>0, <2>1, <2>2, Controls DEF Control
  <2>3. CASE Messages
    BY <1>0, <2>0, <2>1, <2>3, Messaged DEF Messages
  <2>4. CASE \E r \in Recs : Recorder(r) \/ WaitTimesOut(r)
    BY <2>0, <2>4, Records DEF Recorder
  <2>5. CASE SendMessage \/ rk_storage_record_start \/ rk_storage_record_stop
    BY <1>0, <2>0, <2>5, Others
  <2>6. CASE \E e \in Events : ReceiveEvent(e)
    BY <2>0, <2>6, Others
  <2>7. CASE FileScan \/ MonitorUnmount
    BY <2>0, <2>7, Scans
  <2> QED
    BY <2>0, <2>2, <2>3, <2>4, <2>5, <2>6, <2>7 DEF Step
<1>2. CASE UNCHANGED vars
  BY <1>2 DEF vars, scanVars, sigVars, recVars, muxVars, flagVars, devVars, ctlVars, rpcVars, IInv, TypeOK,
              CallerPhase, Numbers, SignalAndRecorder, NoOverlap, FlagsOrStop, StopIsComing, Running
<1> QED
  BY <1>1, <1>2 DEF Next, Ended

-----------------------------------------------------------------------------
(* The invariant of the proofs.                                            *)
THEOREM Inductive == Spec => []IInv
  BY InitIInv, NextIInv, PTL DEF Spec

(* The variables of storage.c keep their types, races or not.              *)
THEOREM TypeCorrect == Spec => []TypeOK
<1>1. IInv => TypeOK
  BY DEF IInv
<1> QED
  BY <1>1, Inductive, PTL

(* No second join and no use of a destroyed signal, unless a hot-plug      *)
(* message is handled while the storage starts or stops.                   *)
THEOREM RaceCorrect == Spec => []UndefinedOnlyByRace
<1>1. IInv => UndefinedOnlyByRace
  BY DEF IInv, SignalAndRecorder, UndefinedOnlyByRace
<1> QED
  BY <1>1, Inductive, PTL

(* At most one recorder thread runs for a stream, with the same exception. *)
THEOREM OneRecorderCorrect == Spec => []OneRecorder
<1>1. IInv => OneRecorder
  <2> SUFFICES ASSUME IInv, ~raced PROVE Cardinality(Running) <= 1
    BY DEF OneRecorder
  <2>1. Running = {} \/ Running \subseteq {tid}
    BY DEF IInv, SignalAndRecorder
  <2>2. IsFiniteSet({tid}) /\ Cardinality({tid}) = 1
    BY FS_Singleton
  <2>3. CASE Running = {}
    BY <2>3, FS_EmptySet
  <2>4. CASE Running \subseteq {tid}
    BY <2>2, <2>4, FS_Subset
  <2> QED
    BY <2>1, <2>3, <2>4
<1> QED
  BY <1>1, Inductive, PTL

(* rk_storage_deinit leaves no recorder, no file that one has opened, and  *)
(* no signal, with the same exception. A recording begun over RPC may stay *)
(* open.                                                                   *)
THEOREM DownCorrect == Spec => []DownIsQuiet
<1>1. IInv => DownIsQuiet
  BY DEF IInv, Numbers, SignalAndRecorder, DownIsQuiet
<1> QED
  BY <1>1, Inductive, PTL

(* Once no event is on its way, a recorder that has opened a file finds    *)
(* both flags set.                                                         *)
THEOREM FlagsCorrect == Spec => []FlagsAgree
<1>1. IInv => FlagsAgree
  <2> SUFFICES ASSUME IInv, ctl = "up", msg = "idle", queue = <<>>, listener = "idle", ~raced,
                      \E r \in Recs : rec[r] \in {"sleep", "wait"}
               PROVE  storageFlag /\ recordFlag
    BY DEF FlagsAgree
  <2>1. \A w \in Callers : call[w] = "idle"
    BY DEF IInv, CallerPhase, Callers
  <2>2. DOMAIN queue = {}
    OBVIOUS
  <2>3. ~StopIsComing
    BY <2>1, <2>2 DEF StopIsComing
  <2> QED
    BY <2>3 DEF IInv, FlagsOrStop
<1> QED
  BY <1>1, Inductive, PTL
==============================================================================
