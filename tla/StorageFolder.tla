---------------------------- MODULE StorageFolder ----------------------------
(***************************************************************************)
(* The file lists of common/storage/storage.c and the threads that share   *)
(* them: the scan thread, which reads the folders once and then deletes    *)
(* old files every minute, the monitor thread, which follows inotify, and  *)
(* the recorders and the snapshot thread, which create files; and the      *)
(* message thread, which ends the first two when the disk is unplugged and *)
(* starts them again when one is plugged in. The signal that ends a wait   *)
(* of the scan thread sooner, and failures of statvfs, mkdir, malloc and   *)
(* pthread_create are left out.                                            *)
(*                                                                         *)
(* rkipc_storage_dev_add does not ask whether a scan thread is running: an *)
(* add message that meets one makes a second thread over the same folder   *)
(* array, signal and thread id. The history variable doubled records it    *)
(* and the model ends there; what is claimed is claimed up to that point.  *)
(*                                                                         *)
(* A file is [name, time, space]. Each critical section of a folder's      *)
(* mutex is one step. The scan thread reads file_list_last twice without   *)
(* the mutex (once for the path, once for the name), so those are two      *)
(* steps too, and the second read may find the list empty.                 *)
(***************************************************************************)
EXTENDS Naturals, Sequences, FiniteSets, FiniteSetsExt, SequencesExt

CONSTANTS
  NFolders,    \* devAttr.folder_num
  Names,       \* file names
  Times,       \* modification times; the clock may be set while running
  Spaces,      \* sizes on disk, 0 for an empty file
  Limit,       \* folder_attr[i].limit: a number of files or a percentage
  Slack,       \* how many files beyond the limit read_file_list takes (299)
  Capacity,    \* size of the disk
  DelMin,      \* free_size_del_min
  DelMax,      \* free_size_del_max
  MaxFiles,    \* bound: files created after the start
  MaxRemovals, \* bound: times the disk is unplugged or unmounted
  MaxAdds      \* bound: add messages

Folders == 1..NFolders
File == [name : Names, time : Times, space : Spaces]

ASSUME FolderAssumption ==
  /\ NFolders \in Nat \ {0}
  /\ IsFiniteSet(Names)
  /\ Times \subseteq Nat /\ Spaces \subseteq Nat
  /\ Limit \in [Folders -> Nat]
  /\ Slack \in Nat /\ Capacity \in Nat /\ DelMin \in Nat /\ DelMax \in Nat
  /\ MaxFiles \in Nat /\ MaxRemovals \in Nat /\ MaxAdds \in Nat

VARIABLES
  disk,        \* the files of each folder on the disk
  writing,     \* the files that are still open for writing, <<folder, name>>
  list,        \* file_list_first ... file_list_last of each folder
  fileNum,     \* file_num
  totalSpace,  \* total_space of the folder
  mount,       \* dev_sta.mount_status
  msg,         \* where the message thread is
  configured,  \* dev_attr.dev_path is known: a disk was mounted at the start
  removals,    \* number of times the disk was unplugged or unmounted
  adds,        \* number of add messages
  overwritten, \* history: DISK_UNMOUNTED was replaced by DISK_MOUNTED
  doubled,     \* history: an add message met a running scan thread
  monitor,     \* the monitor thread: "none", "created", "running" or "ended"
  events,      \* inotify events not read yet
  mon,         \* what the monitor has lstat'ed and not added yet
  numLimit,    \* num_limit, the same for every folder
  pc,          \* where the scan thread is
  cur,         \* the folder it is working on
  limit,       \* its local variable limit
  file,        \* its local variable file (the path it will remove)
  total,       \* its local variable total_space
  created      \* number of files created

diskVars == <<disk, writing, created>>
listVars == <<list, fileNum, totalSpace>>
monVars == <<monitor, events, mon>>
mountVars == <<mount, msg, configured, removals, adds, overwritten, doubled>>
scanVars == <<pc, cur, limit, file, total>>
vars == <<diskVars, listVars, monVars, scanVars, mountVars, numLimit>>

NoFile == [folder |-> 0]
watched == monitor = "running"     \* inotify_add_watch was called
NameOn(f) == {x.name : x \in disk[f]}
NameIn(f) == {list[f][i].name : i \in DOMAIN list[f]}
FileNamed(f, n) == CHOOSE x \in disk[f] : x.name = n

SpaceOf(s) ==
  LET sum[i \in 0..Len(s)] == IF i = 0 THEN 0 ELSE sum[i - 1] + s[i].space
  IN  sum[Len(s)]
Used == MapThenSumSet(LAMBDA f : MapThenSumSet(LAMBDA x : x.space, disk[f]), Folders)
Free == Capacity - Used

-----------------------------------------------------------------------------
(* rkipc_storage_file_list_add: newest first, before equal times.          *)
Newer(l, t) == {i \in DOMAIN l : \A j \in 1..i : l[j].time > t}
(* Variant: new files go to the end of the list.                           *)
InsertAtEnd(l, x) == Append(l, x)

Insert(l, x) ==
  LET p == Cardinality(Newer(l, x.time))
  IN  [i \in 1..(Len(l) + 1) |->
         IF i <= p THEN l[i] ELSE IF i = p + 1 THEN x ELSE l[i - 1]]

(* Variant: the space of a new file is not added.                          *)
AddWithoutSpace(f, x) ==
  /\ list' = [list EXCEPT ![f] = Insert(@, x)]
  /\ fileNum' = [fileNum EXCEPT ![f] = @ + 1]
  /\ UNCHANGED totalSpace

file_list_add(f, x) ==
  /\ list' = [list EXCEPT ![f] = Insert(@, x)]
  /\ fileNum' = [fileNum EXCEPT ![f] = @ + 1]
  /\ totalSpace' = [totalSpace EXCEPT ![f] = @ + x.space]

(* rkipc_storage_file_list_del: drops the name, counts the rest again.     *)
(* The code does not look at the file behind a dropped one, which makes no *)
(* difference since names are distinct.                                    *)
Without(l, n) ==
  LET rest[i \in 0..Len(l)] ==
        IF i = 0 THEN <<>>
        ELSE IF l[i].name = n THEN rest[i - 1] ELSE Append(rest[i - 1], l[i])
  IN  rest[Len(l)]

file_list_del(f, n) ==
  LET rest == Without(list[f], n)
  IN  /\ list' = [list EXCEPT ![f] = rest]
      /\ fileNum' = [fileNum EXCEPT ![f] = Len(rest)]
      /\ totalSpace' = [totalSpace EXCEPT ![f] = SpaceOf(rest)]

Notify(kind, f, n) ==
  events' = IF watched THEN Append(events, [kind |-> kind, folder |-> f, name |-> n])
            ELSE events

Unlink(f, n) ==
  /\ disk' = [disk EXCEPT ![f] = {x \in @ : x.name # n}]
  /\ writing' = writing \ {<<f, n>>}
  /\ Notify("delete", f, n)

-----------------------------------------------------------------------------
(* Init: the folders hold files of earlier sessions, none of them listed.  *)
(* Without a disk rkipc_storage_auto_delete_init starts no scan thread.    *)
Init ==
  /\ disk \in [Folders -> {S \in SUBSET File :
                 \A x, y \in S : x.name = y.name => x = y}]
  /\ Free >= 0
  /\ writing = {}
  /\ list = [f \in Folders |-> <<>>]
  /\ fileNum = [f \in Folders |-> 0]
  /\ totalSpace = [f \in Folders |-> 0]
  /\ configured \in BOOLEAN
  /\ mount = IF configured THEN "scanning" ELSE "unmounted"
  /\ pc = IF configured THEN "begin" ELSE "ended"
  /\ msg = "idle"
  /\ removals = 0 /\ adds = 0
  /\ overwritten = FALSE /\ doubled = FALSE
  /\ monitor = "none"
  /\ events = <<>>
  /\ mon = NoFile
  /\ numLimit \in BOOLEAN
  /\ cur = 1
  /\ limit = 0
  /\ file = NoFile
  /\ total = 0
  /\ created = 0

(* The recorders (rkmuxer_init) and the snapshot thread open a file, and   *)
(* close it later; both may happen at any point of the scan.               *)
OpenFile(f, x) ==
  /\ created < MaxFiles
  /\ x.name \notin NameOn(f)
  /\ x.space <= Free
  /\ disk' = [disk EXCEPT ![f] = @ \union {x}]
  /\ writing' = writing \union {<<f, x.name>>}
  /\ created' = created + 1
  /\ UNCHANGED <<listVars, monVars, scanVars, mountVars, numLimit>>

CloseFile(f, n) ==
  /\ <<f, n>> \in writing
  /\ writing' = writing \ {<<f, n>>}
  /\ Notify("close", f, n)
  /\ UNCHANGED <<disk, created, listVars, monitor, mon, scanVars, mountVars, numLimit>>

-----------------------------------------------------------------------------
(* rkipc_storage_file_monitor_thread                                       *)

MonitorStart ==
  /\ monitor = "created"
  /\ monitor' = "running"
  /\ UNCHANGED <<diskVars, listVars, events, mon, scanVars, mountVars, numLimit>>

(* Events that were read together are all handled, even if the disk was    *)
(* unplugged meanwhile.                                                    *)
ReadEvent(kind) ==
  /\ watched
  /\ mon = NoFile
  /\ events # <<>>
  /\ Head(events).kind = kind

(* Variant: IN_DELETE is not handled.                                      *)
DeleteIgnored ==
  /\ ReadEvent("delete")
  /\ events' = Tail(events)
  /\ UNCHANGED <<diskVars, listVars, monitor, mon, scanVars, mountVars, numLimit>>

MonitorDelete ==
  /\ ReadEvent("delete")
  /\ file_list_del(Head(events).folder, Head(events).name)
  /\ events' = Tail(events)
  /\ UNCHANGED <<diskVars, monitor, mon, scanVars, mountVars, numLimit>>

(* IN_CLOSE_WRITE: lstat fails, finds an empty file, which is removed, or  *)
(* finds a file to add.                                                    *)
MonitorClose ==
  /\ ReadEvent("close")
  /\ LET f == Head(events).folder
         n == Head(events).name
     IN  \/ /\ n \notin NameOn(f)
            /\ events' = Tail(events)
            /\ UNCHANGED <<disk, writing, mon>>
         \/ /\ n \in NameOn(f)
            /\ FileNamed(f, n).space = 0
            /\ disk' = [disk EXCEPT ![f] = {x \in @ : x.name # n}]
            /\ writing' = writing \ {<<f, n>>}
            /\ events' = Append(Tail(events), [kind |-> "delete", folder |-> f, name |-> n])
            /\ UNCHANGED mon
         \/ /\ n \in NameOn(f)
            /\ FileNamed(f, n).space > 0
            /\ mon' = [folder |-> f, stat |-> FileNamed(f, n)]
            /\ events' = Tail(events)
            /\ UNCHANGED <<disk, writing>>
  /\ UNCHANGED <<listVars, created, monitor, scanVars, mountVars, numLimit>>

(* Variant: the file is added without file_list_check.                     *)
AddUnchecked ==
  /\ mon # NoFile
  /\ mon' = NoFile
  /\ file_list_add(mon.folder, mon.stat)
  /\ UNCHANGED <<diskVars, monitor, events, scanVars, mountVars, numLimit>>

(* file_list_check, then file_list_add with what lstat said. Only this     *)
(* thread adds once the scan is over, so the two sections act as one.      *)
MonitorAdd ==
  /\ mon # NoFile
  /\ mon' = NoFile
  /\ IF mon.stat.name \in NameIn(mon.folder)
     THEN UNCHANGED listVars
     ELSE file_list_add(mon.folder, mon.stat)
  /\ UNCHANGED <<diskVars, monitor, events, scanVars, mountVars, numLimit>>

(* The loop ends, and what inotify still had is gone.                      *)
MonitorExit ==
  /\ watched
  /\ mount # "mounted"
  /\ mon = NoFile
  /\ monitor' = "ended"
  /\ events' = <<>>
  /\ UNCHANGED <<diskVars, listVars, mon, scanVars, mountVars, numLimit>>

(* IN_UNMOUNT: somebody has unmounted the disk.                            *)
MonitorUnmount ==
  /\ watched
  /\ mon = NoFile
  /\ removals < MaxRemovals
  /\ removals' = removals + 1
  /\ mount' = "unmounted"
  /\ UNCHANGED <<diskVars, listVars, monVars, scanVars, msg, configured, adds, overwritten,
                 doubled, numLimit>>

-----------------------------------------------------------------------------
(* rkipc_storage_file_scan_thread                                          *)

(* The folders of a disk that is already unplugged are not read.           *)
BeginScan ==
  /\ pc = "begin"
  /\ pc' = IF mount = "unmounted" THEN "out" ELSE "scan"
  /\ UNCHANGED <<diskVars, listVars, monVars, cur, limit, file, total, mountVars, numLimit>>

(* rkipc_storage_read_file_list: at most Limit + Slack of the files, in    *)
(* whatever order readdir returns them.                                    *)
ReadFolder ==
  /\ pc = "scan"
  /\ \E S \in SUBSET disk[cur] :
       /\ Cardinality(S) = Min({Cardinality(disk[cur]), Limit[cur] + Slack})
       /\ \E s \in SetToSeqs(S) :
            /\ \A i, j \in DOMAIN s : i < j => s[i].time >= s[j].time
            /\ list' = [list EXCEPT ![cur] = s]
            /\ fileNum' = [fileNum EXCEPT ![cur] = Len(s)]
            /\ totalSpace' = [totalSpace EXCEPT ![cur] = SpaceOf(s)]
  /\ IF cur < NFolders
     THEN cur' = cur + 1 /\ UNCHANGED pc
     ELSE cur' = 1 /\ pc' = "mount_test"
  /\ UNCHANGED <<diskVars, monVars, limit, file, total, mountVars, numLimit>>

(* The status is tested ...                                                *)
MountTest ==
  /\ pc = "mount_test"
  /\ pc' = IF mount = "unmounted" THEN "out" ELSE "mount_set"
  /\ UNCHANGED <<diskVars, listVars, monVars, cur, limit, file, total, mountVars, numLimit>>

(* ... and then assigned, whatever it is now; the monitor is started.      *)
MountSet ==
  /\ pc = "mount_set"
  /\ mount' = "mounted"
  /\ overwritten' = (overwritten \/ mount = "unmounted")
  /\ monitor' = "created"
  /\ pc' = "wait"
  /\ UNCHANGED <<diskVars, listVars, events, mon, cur, limit, file, total, msg, configured,
                 removals, adds, doubled, numLimit>>

(* Variant: the status is not looked at after the wait.                    *)
StartAlways ==
  /\ pc = "wait"
  /\ cur' = 1
  /\ total' = 0
  /\ pc' = IF numLimit THEN "folder" ELSE "size"
  /\ UNCHANGED <<diskVars, listVars, monVars, limit, file, mountVars, numLimit>>

(* A round starts after 60 seconds or when the signal is given, unless the *)
(* disk was unplugged.                                                     *)
StartRound ==
  /\ pc = "wait"
  /\ cur' = 1
  /\ total' = 0
  /\ pc' = IF mount # "mounted" THEN "out" ELSE IF numLimit THEN "folder" ELSE "size"
  /\ UNCHANGED <<diskVars, listVars, monVars, limit, file, mountVars, numLimit>>

(* Variant: the loops look one file short.                                 *)
MeasureShort(f) == IF numLimit THEN fileNum[f] - 1 ELSE (totalSpace[f] * 100) \div total

Measure(f) == IF numLimit THEN fileNum[f] ELSE (totalSpace[f] * 100) \div total

NextFolder ==
  IF cur < NFolders
  THEN cur' = cur + 1 /\ pc' = "folder"
  ELSE cur' = 1 /\ pc' = IF numLimit THEN "size" ELSE "wait"

EnterFolder ==
  /\ pc = "folder"
  /\ limit' = Measure(cur)
  /\ pc' = "test"
  /\ UNCHANGED <<diskVars, listVars, monVars, cur, file, total, mountVars, numLimit>>

(* The loop: limit is measured again before the deletion, not after it.    *)
TestLimit ==
  /\ pc = "test"
  /\ \/ /\ limit > Limit[cur]
        /\ limit' = Measure(cur)
        /\ IF list[cur] = <<>>
           THEN UNCHANGED <<file, pc>>
           ELSE /\ file' = [folder |-> cur, name |-> Last(list[cur]).name]
                /\ pc' = "unlist"
        /\ UNCHANGED cur
     \/ /\ limit <= Limit[cur]
        /\ NextFolder
        /\ UNCHANGED <<limit, file>>
  /\ UNCHANGED <<diskVars, listVars, monVars, total, mountVars, numLimit>>

UnlistLast ==
  /\ pc = "unlist"
  /\ IF list[cur] = <<>>
     THEN pc' = "crashed" /\ UNCHANGED listVars
     ELSE pc' = "remove" /\ file_list_del(cur, Last(list[cur]).name)
  /\ UNCHANGED <<diskVars, monVars, cur, limit, file, total, mountVars, numLimit>>

(* remove(file) reports an error when the file is gone, and goes on.       *)
RemoveFile ==
  /\ pc = "remove"
  /\ pc' = "test"
  /\ IF file.name \in NameOn(cur)
     THEN Unlink(cur, file.name)
     ELSE UNCHANGED <<disk, writing, events>>
  /\ UNCHANGED <<listVars, created, monitor, mon, cur, limit, file, total, mountVars, numLimit>>

(* Free space is looked at once per round; the folders whose number is     *)
(* limited do not count.                                                   *)
CheckFreeSize ==
  /\ pc = "size"
  /\ LET sum == IF numLimit THEN 0 ELSE MapThenSumSet(LAMBDA f : totalSpace[f], Folders)
     IN  IF Free > DelMin \/ sum = 0
         THEN pc' = "wait" /\ UNCHANGED total
         ELSE pc' = "folder" /\ total' = sum
  /\ UNCHANGED <<diskVars, listVars, monVars, cur, limit, file, mountVars, numLimit>>

(* file_scan_out: the monitor is joined if there is one, and the lists are *)
(* freed.                                                                  *)
ScanOut ==
  /\ pc = "out"
  /\ monitor \in {"none", "ended"}
  /\ monitor' = "none"
  /\ list' = [f \in Folders |-> <<>>]
  /\ fileNum' = [f \in Folders |-> 0]
  /\ totalSpace' = [f \in Folders |-> 0]
  /\ limit' = 0 /\ total' = 0 /\ file' = NoFile
  /\ pc' = "ended"
  /\ UNCHANGED <<diskVars, events, mon, cur, mountVars, numLimit>>

-----------------------------------------------------------------------------
(* The message thread                                                      *)

(* rkipc_storage_dev_remove, for the device of the disk, sets the status   *)
(* (so does rkipc_storage_auto_delete_deinit at the end) ...               *)
DevRemove ==
  /\ msg = "idle"
  /\ configured \/ adds > 0
  /\ removals < MaxRemovals
  /\ removals' = removals + 1
  /\ mount' = "unmounted"
  /\ msg' = "join"
  /\ UNCHANGED <<diskVars, listVars, monVars, scanVars, configured, adds, overwritten, doubled,
                 numLimit>>

(* ... and joins the scan thread, if there is one.                         *)
JoinScan ==
  /\ msg = "join"
  /\ pc = "ended"
  /\ msg' = "idle"
  /\ UNCHANGED <<diskVars, listVars, monVars, scanVars, mount, configured, removals, adds,
                 overwritten, doubled, numLimit>>

(* rkipc_storage_dev_add starts a scan thread, whatever became of the one  *)
(* before. Both the disk's and its partition's message may come here:      *)
(* get_mount_path takes any line that contains the device's name.          *)
DevAdd ==
  /\ msg = "idle"
  /\ adds < MaxAdds
  /\ adds' = adds + 1
  /\ mount' = "scanning"
  /\ IF pc = "ended"
     THEN pc' = "begin" /\ UNCHANGED doubled
     ELSE doubled' = TRUE /\ UNCHANGED pc
  /\ UNCHANGED <<diskVars, listVars, monVars, cur, limit, file, total, msg, configured, removals,
                 overwritten, numLimit>>

(* The message of a disk that is not mounted (yet) only sets the status,   *)
(* which ends a scan thread that is there.                                 *)
DevAddFails ==
  /\ msg = "idle"
  /\ configured
  /\ adds < MaxAdds
  /\ adds' = adds + 1
  /\ mount' = "not_formatted"
  /\ UNCHANGED <<diskVars, listVars, monVars, scanVars, msg, configured, removals, overwritten,
                 doubled, numLimit>>

-----------------------------------------------------------------------------
Writer == \E f \in Folders :
            \/ \E x \in File : OpenFile(f, x)
            \/ \E n \in Names : CloseFile(f, n)
Monitor == MonitorStart \/ MonitorDelete \/ MonitorClose \/ MonitorAdd \/ MonitorExit
Scan ==
  \/ BeginScan
  \/ ReadFolder
  \/ MountTest
  \/ MountSet
  \/ StartRound
  \/ EnterFolder
  \/ TestLimit
  \/ UnlistLast
  \/ RemoveFile
  \/ CheckFreeSize
  \/ ScanOut

Message == MonitorUnmount \/ DevRemove \/ JoinScan \/ DevAdd \/ DevAddFails

(* A null dereference ends the process, a second scan thread the model.    *)
Running == pc # "crashed" /\ ~doubled
Next ==
  \/ Running /\ (Writer \/ Monitor \/ Scan \/ Message)
  \/ ~Running /\ UNCHANGED vars

Spec == Init /\ [][Next]_vars

(* The scheduler runs the threads; sixty seconds pass.                     *)
FairSpec == Spec /\ WF_vars(Monitor) /\ WF_vars(Scan) /\ WF_vars(JoinScan)

-----------------------------------------------------------------------------
(* Until an add message meets a running scan thread:                       *)

(* The list stays sorted, newest first, whatever the clock did when the    *)
(* files were written, so file_list_last is always an oldest file.         *)
ListSorted ==
  ~doubled => \A f \in Folders : \A i, j \in DOMAIN list[f] :
                i < j => list[f][i].time >= list[f][j].time

(* file_num and total_space, which the deletion loops read without looking *)
(* at the list, describe the list although add counts up and del recounts. *)
TotalsExact ==
  ~doubled => \A f \in Folders :
                /\ fileNum[f] = Len(list[f])
                /\ totalSpace[f] = SpaceOf(list[f])

(* No file is listed twice: a file that was open when the scan listed it   *)
(* and is closed under the watch is recognised by file_list_check. (Two    *)
(* scan threads would list what the other's monitor lists.)                *)
NoDuplicateNames ==
  ~doubled => \A f \in Folders : \A i, j \in DOMAIN list[f] :
                list[f][i].name = list[f][j].name => i = j

(* The list has no ghosts for long: whenever no event is left to read,     *)
(* every listed file is on the disk, even if the scan thread removed a     *)
(* file the monitor had just lstat'ed and was about to add, or was on its  *)
(* way to remove one when the watch was set. (A second scan thread would   *)
(* give the folders new watch descriptors and lose events.)                *)
GhostsHealed ==
  ~doubled /\ watched /\ events = <<>> =>
    \A f \in Folders : NameIn(f) \subseteq NameOn(f)

(* Limiting by number works: once the writers stop, the loop that measures *)
(* before it deletes comes to an end and every folder's list is within its *)
(* limit ("Maximum file quantity", developer guide), unless the unlocked   *)
(* second read of file_list_last has met an emptied list.                  *)
QuotaEnforced ==
  numLimit => <>[](~Running \/ \A f \in Folders : fileNum[f] <= Limit[f])

(* Unplugging ends: the message thread's join of the scan thread, which    *)
(* joins the monitor, returns wherever the two are, in the middle of a     *)
(* scan, a deletion or an event, unless the status it set was overwritten  *)
(* by the scan thread that had tested it before. (The thread id it joins   *)
(* is the only scan thread's until an add message overwrites it.)          *)
RemovalReturns == msg = "join" ~> (msg # "join" \/ overwritten \/ ~Running)

(* The developer guide on free_size_del_max: "When free space is greater   *)
(* than this value, automatic file deletion stops". The code only prints   *)
(* the value: the loop over the space limit looks at the folder's share of *)
(* the listed space, never at the free space.                              *)
DeletionStopsAtMax ==
  [][~numLimit /\ RemoveFile => Free <= DelMax]_vars
=============================================================================
