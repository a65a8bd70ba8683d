# Verification of rkipc for RV1126B

rkipc is the IP camera application of this repository: it captures video, encodes
and streams it, runs YOLO detection on the NPU, records to a disk that may come
and go, takes snapshots, and is configured over a local socket. It is one
process with some twenty threads that share globals, few of them under a lock.
There are no tests in the repository. These modules model the parts in which
interleavings matter; TLC checks them on small instances and TLAPS proves most of
their safety properties for every value of the constants.

## Inventory

Only what `src/src/rv1126b_ipc/CMakeLists.txt` compiles is considered. `lib/` and the
RKNN headers are vendored; `common/player`, `lvgl`, `ui`, `ivm`, `vendor_storage` and the
other ISP chips are not part of this build.

| Component | State | Operations | Interaction | Hard | Correct when |
|---|---|---|---|---|---|
| Worker pool, `yolo26/engine/ThreadPool.hpp` | `quit_`, counters, task queue, `threads_`, finished ids | submit, worker loop, destructor | called by the model pool | timeouts against notifications, joins under the mutex, destructor against leaving workers | counters exact, no lost wake-up, every task runs, destructor returns |
| Model pool, `yolo26/engine/rknnPool.hpp` and `yolo26_inference` | model index, futures, detections | put, get, destructor; the client loop | one client thread in `video.cc`, the worker pool | models are given out without looking whether they are busy | a model is used by one task at a time |
| File lists, `common/storage/storage.c` 312-856 | a sorted list and totals per folder, the mount status | add, delete, check; scan, monitor; disk added, disk removed | inotify, recorders, RPC queries, the message thread | unlocked reads, late events, files that vanish, a status tested and set by two threads | list and totals agree with each other and, in the end, with the disk; unplugging ends |
| Recorders, `storage.c` 780-1380, 1640-1908 and `common.c` | thread, signal, flags, muxer | init, deinit, start, stop; device events | main, RPC, listener, message thread | the same unlocked functions run by two threads | one recorder per stream, none left after deinit |
| Video life cycle, `video/video.cc`, `main.cc` | run flags, `std::thread` objects, photo request | init, deinit, restart, photo, snapshot | RPC setters restart everything | parameters read twice, threads that are not joined | no `std::terminate`, restarts end, requests are served |
| RPC server, `common/socket_server` | listening socket, one detached thread per connection | accept, dispatch, stop | calls every other component | handlers run concurrently, also during shutdown | no handler outlives what it uses |
| Parameters, `common/param` | an ini dictionary under a mutex, a file | get, set, save, init, deinit | everyone | pointers into the dictionary escape; users are added without the mutex; saving in place | readers see a live value, a restart keeps the parameters, a crash keeps a usable file |
| OSD, `common/osd/osd.c` | run flags, the time thread, its signal, regions, callbacks | init, deinit, restart; the time thread | the video registers callbacks and starts and stops it; RPC restarts it | a flag written by one thread decides whether another is joined | nothing is left after deinit, restarts end |
| Audio, ISP, network, streaming, ROI, system, LoRa | see `PROJECT.json` | | vendor libraries and shell commands | restart while in use | |

`PROJECT.json` lists every component with its status and the hazards at their lines.

## Modules

| Module | Models | Extends |
|---|---|---|
| `TaskExecutor` | what a pool promises: tasks start in the order of submission, each once, and all have ended before it is closed | |
| `ThreadPool` | `dpool::ThreadPool`, one action per critical section | |
| `RknnPool` | `rknnPool` and its client, composed with the pool | `ThreadPool` |
| `StorageFolder` | file lists, scan thread, monitor thread, writers, mount status and removal of the disk | |
| `StorageRecorder` | recorder thread, muxer control, hot-plug, init/deinit, RPC | |
| `VideoLifecycle` | start, restart and stop of the video, JPEG, snapshot and inference threads, main | |
| `Dictionary` | `dictionary.c`: slots, growing, first free slot, as operators | |
| `IniFile` | `iniparser.c`: dumping a dictionary to lines and loading it, second writers and cut files, as operators | `Dictionary` |
| `ParamStore` | `param.c`, the file, connection threads of the server, user functions, start, stop and crash | `IniFile` |
| `OsdLifecycle` | start, stop and restart of the display, its time thread and its callers | |
| `ThreadPoolProofs`, `RknnPoolProofs`, `StorageFolderProofs`, `StorageRecorderProofs`, `VideoLifecycleProofs`, `OsdLifecycleProofs`, `IniFileProofs`, `ParamStoreProofs` | theorems about the module each is named after; `RknnPoolProofs` uses those of the worker pool, `IniFileProofs` also has those of the dictionary, `ParamStoreProofs` uses them | the module |
| `MC...` | instances for TLC | |

**ThreadPool.** The critical sections of `mutex_` are atomic, except the one in which a
leaving worker calls `joinFinishedThreads`: it blocks with the mutex held, so `mutex`
is a variable there. `wait_for` may return at any time (timeout, spurious or
notified) and the predicate is tested when the worker has the mutex again, as the
library does. The destructor is three steps: `quit_` under the mutex, `notify_all`,
the joins. `ImplementsExecutor` is the refinement into `TaskExecutor`.

**RknnPool.** `put` and `get` hold `queueMtx`, but a single thread calls them, so each is a
step. The VI channel runs dry after `ViDepth` frames since the release of the frame
is commented out in the source.

**StorageFolder.** A file is a name, a time and a size. Each critical section of the
folder's mutex is a step, and each of the unlocked reads of `file_list_last` is one,
so the monitor can act between the path and the name. The clock may jump, and
`readdir` returns files in any order. `num_limit` is the same for all folders, as
`rkipc_storage_set_dev_attr` sets it. Moved files (`IN_MOVED_TO`, `IN_MOVED_FROM`) are
left out: nothing in the program moves files. `readdir` also counts the entries
`.` and `..`, so `Slack` stands for 299.

The message thread handles removal and insertion of the disk: `rkipc_storage_dev_remove`
sets `DISK_UNMOUNTED` and joins the scan thread, which tests the status, reads the folders
and sets `DISK_MOUNTED`. `overwritten` records that a removal came between the test and the
assignment; the scan thread then goes on as if the disk were there, and nothing ends the
join. An unmount by somebody else (`IN_UNMOUNT`) sets the status as well, and an add message
of a disk that is not mounted sets `DISK_NOT_FORMATTED`, which ends the scan thread. A
disk may be missing at the start; `configured` says whether its path is known.

`rkipc_storage_dev_add` does not look whether a scan thread is running. An add message
that meets one makes a second thread over the same folders, signal and thread id. This
happens with one card when no disk was there at the start, since `get_mount_path` then
accepts the event of the disk and that of its partition. `doubled` records it and the
model ends there: each property of the lists says what holds until then, and
`RemovalReturns` says that a doubled scan thread, the overwritten status and the null
dereference of an emptied list are the only ways in which a removal does not end. Left
out: the signal that shortens the minute between rounds (it changes when a round
starts, not what it does), and failures of `statvfs`, `mkdir` and `pthread_create`.

**StorageRecorder.** One stream. Every call of `rk_storage_muxer_init_by_id` and
`_deinit_by_id` is broken into the steps between which another thread can act.
Using a destroyed signal or joining a thread twice sets `ub`, after which nothing is
assumed. `raced` records that a disk message was handled while the control thread
was initialising or stopping the storage, which the code does not exclude; the
properties say what holds as long as that has not happened, and
`UndefinedOnlyByRace` says that it is the only way into undefined behaviour.

`rk_storage_deinit` also joins the scan thread of `StorageFolder`, and so does the message
thread when a disk is removed. The scan thread is here only what these joins
depend on: where it tests the mount status, where it sets it and where it ends.
`lost` records that it has overwritten `DISK_UNMOUNTED`, or that its id was replaced by
that of a second one; `DeinitReturns` says that the stop returns unless one of these
or the race has happened.

**VideoLifecycle.** Assigning to or destroying a joinable `std::thread` terminates the
process, so an object never has two threads and the state is per object. The
properties assume one restart at a time (the server does not ensure it, see the
hazards). The streams and the pictures are enabled, as in the shipped ini file.
`tmp_output_data_type` is one global for both streams: `rk_video_init` reads the parameter
into it at lines 397, 553 and 834 (and in `rk_video_reset_frame_rate`) and tests it later, and setters of
either stream overwrite it at any time, so reads and tests are steps of their own. `fed`
says whether VENC 0 is bound: the JPEG channel is its combo and gets no picture otherwise.

**Dictionary**, **IniFile** and **ParamStore.** A key is a section or a section with an entry. A
value is a text and what the format of the file makes of it: read back as it was
(`plain`); with quotes, blanks or a comment that are not read back (`trimmed`); ending
in a backslash, so that the next line belongs to it (`continued`); or too long for a line
or with a line break and text behind it that does not parse, so that the file is
rejected (`spoiling`). A value with a line break and behind it what looks like another
entry is not modelled. Parsing and dumping work on lines: dumping goes by section and so
loses entries without one, parsing joins continued lines, cuts comments and fails on a
broken or long line.

A locked access of a handler is one step. A thread in the background that reads a
number (`rkipc_cycle_snapshot` and others) takes the mutex in one step and gives it back in another.
The accesses of `rk_system_add_user` and `rk_system_del_user`, which do not lock, begin and end in
two, and a conflicting access between them is a data race. `ub` says how the process got
undefined: a race, freed memory, a string that was replaced while a handler was sending
it, or a null string. Nothing is assumed after it.

A crash may happen at any point; while a file is being written it leaves any prefix of
the new lines, the last of them cut, since the code opens the file in place. The code
does not call `fsync`: until the kernel has written the file (`Sync`) a power failure may
bring back an older one or leave a part of the new one. A file that cannot be read is
replaced by the factory's and loaded again; when that fails too, the program goes on
with a null dictionary. The connection threads stand for the server: its thread
is blocked in `accept` when the server is stopped, so one more connection is served,
and main waits half a second for nobody. The requests are the ones that tell the
behaviours apart: get (of a name that is always there and of a user's), set (of an entry with
each form of value, of one whose section is missing, and of the number of users), add and
delete a user, whether he is there or not: neither the server nor `system.c` checks.
`hist.misuse` records a request that makes the number of users wrong by itself, `hist.odd` a
value that ends in a backslash, `hist.damage` a save or copy that failed or was lost.

**OsdLifecycle.** An OSD is a text (or an image), a clock, a mask, or nothing when its type is a
string that the code does not know: `rk_osd_set_type` stores any. `rk_osd_deinit` decides by
`g_osd_time_server_run_` whether to join; the flag is written by the time thread after it
has created its region, so it may be the one its predecessor left. How and whether a
region is destroyed follows from the type its OSD has by then, so the region of an OSD
whose type came to be of another kind (`hist.retyped`) may stay. The rest of the history
records the three things that break the display: a restart that overlaps another or meets
a video that is down, a clock whose region could not be created, and two enabled
clocks. `OsdSafe` and `DeinitLeavesNothing` hold as long as none has happened;
`OsdCallReturns` holds in every case. The RPC server is started after the video, so restarts by
RPC come after the first initialisation.

## Runs

| Run | Shows | Bounds and why they are enough |
|---|---|---|
| `thread_pool` | counters, wake-ups, thread map, shutdown; every task runs, the destructor returns, refinement | 2 workers, 4 ids, 4 tasks: tasks queue behind busy workers, ids beyond the bound of `threads_` exist, workers leave and are replaced. No symmetry, since liveness is checked |
| `rknn_pool` | models exclusive, fresh overlay, inference stops | 2 models, a submission in every second iteration, 7 frames: each model is used twice |
| `storage_folder` | lists consistent, ghosts healed, quotas reached, removals end | one folder, 2 names, 2 times, empty and non-empty files, all initial contents of the disk, with and without a disk at the start, 2 files created, one removal or unmount and 2 add messages during the run, deletion by number and by space: a disk is removed and added again, or added over a running scan, where the search ends (`OneScan`). Two folders give too many states |
| `storage_del_max` (violation) | `free_size_del_max` does not stop deletion | 3 files |
| `storage_recorder` | one recorder, quiet after deinit, deinit returns | 2 initialisations, 2 device events, 1 RPC call: a disk is removed and added, or added twice, around a restart. Behaviours are followed until the race (`BeforeRace`) |
| `storage_stop` (violation) | recording resumes after `rk_storage_record_stop` | one initialisation |
| `video_lifecycle` | joins, `std::terminate`, restart returns, photos | all initial data types and switches, 1 restart (which may change a data type), 2 other setters (the snapshot switch off for the join and on for the next start, or the shared data type overwritten), 1 RPC photo besides the snapshot thread's |
| `video_photo` (violation) | a request during the saving of a picture is lost | 1 photo besides the snapshot thread's |
| `video_inference` (violation) | a restart ends detection for good | 1 restart |
| `param_store` | no freed memory without overlap, null strings only in the named cases, restart keeps, crash and power failure leave a prefix, users counted | 2 connections, 2 requests, 2 starts, slots grow from 2: two requests overlap each other, the background reader and the stop, and a stop, a crash or a power failure falls between any two of their steps. Connections are symmetric; the search ends where no property says anything any more (`Telling`) |
| `param_save` (violation) | parameters of unknown sections, and values with quotes, `;` or a backslash, are not read back | 1 connection, 1 request, 2 starts |
| `osd_lifecycle` | no null callback, no signal destroyed under a waiter, nothing left after deinit, calls return | 2 OSDs (a text and a clock at first), 2 RPC connections, 2 calls, 1 change of a parameter, 5 time threads: a restart overlaps another and the video's, the clock is disabled, moved, becomes a second one, a mask or an unknown type |

Deadlock is checked in every run except `osd_lifecycle`, `storage_folder` and `storage_del_max`: the other
models end in explicit stuttering steps. The display may really stop, when the bounded calls
are used up and no clock runs, and after undefined behaviour; the storage has nothing to do while
there is no disk.

### Fairness

The code relies on the operating system to run every thread that can go on, so each
thread's steps are weakly fair. In `ThreadPool` nothing but a notification has to
happen: a timeout of `wait_for` is not assumed, so the liveness of the pool does
not rest on the two-second timeouts. In `StorageRecorder` `file_duration` need not
pass. In `VideoLifecycle` the encoder is assumed to deliver a picture eventually when it
was asked for again and again while VENC 0 is bound (strong fairness of `JpegGetStream`,
which is not enabled without it). In `StorageFolder` the threads go on and the message thread
ends what it began; in `OsdLifecycle` calls that have begun go on and time threads are
scheduled (a wait ends after 100 ms). `ParamStore` states no liveness. No RPC call, device event, signal or stop is ever assumed
to happen.

## Proofs

All invariants below are proved for every value of the constants that satisfies the
named assumption of the module (`PoolAssumption`, `FolderAssumption`, ...): numbers are natural,
sets of threads and names are finite, model values differ. No proof uses anything else. In
each module `Inductive` (`RknnInductive` for the model pool) shows that an inductive
invariant holds; TLC has checked that invariant on the instance of the run first.

**Worker pool** (`ThreadPoolProofs`): `TypeCorrect`, `CountersCorrect`, `KeysCorrect`, `WakeupsCorrect`,
`MapOwnership`, `DrainCorrect`, `MapBoundCorrect` and `ExecutorCorrect`. The invariants are not
inductive one by one. `NoLostWakeup` needs the exact counters (a submission that finds no
idle worker and no room for another must find a running one), those need `MutexOwner` (a
worker counted as leaving holds the mutex until it is registered), `DestructorOwnsMap` needs
that no worker is in its leaving section when the destructor gets the mutex, and
`DrainCorrect` needs `TaskAccounted` (each submitted task is queued, with one worker, or done)
and `QuitPhase` (how far the destructor is tells what `quit_` is). `ThreadMapBound` needs
`OneUncollected`: a thread that has left stays in the map only until the next one leaves.
`ExecutorCorrect` is the refinement: every step of the pool is a step of `TaskExecutor` or a
stutter, which needs `HandedOnce` (no task is with two workers). `MoveIn`, `MoveOut` and
`MoveSame` say how the number of threads in a set of states changes when one moves.

**Model pool** (`RknnPoolProofs`): `RknnTypeCorrect`, `ModelsCorrect`, `OverlayCorrect`. A step of the
composition is a step of the worker pool or leaves it alone, so the pool's invariant is
reused. What is added is `OneOutstanding`: the client waits for a result before it submits
again, and only that keeps two tasks off one model.

**File lists** (`StorageFolderProofs`): `SortedCorrect`, `DuplicatesCorrect`, `TotalsCorrect`,
`GhostsCorrect`, for any number of folders, files, removals and add messages, up to a second scan
thread. Half of the proof is about the operators: where `Insert` puts a file, that it keeps a
list sorted and adds one name, what `Without` leaves, and how `SpaceOf` changes. The other half is
`NoGhosts`: a listed file is on the disk or its deletion is still to be read, with the
exceptions that the order of the scan thread's two unlocked reads makes. `GhostsHealed` follows
when no event is left, wherever the scan thread is. A scan thread that starts again finds empty
lists and no monitor, because the one before it has joined its own.

**Recorders** (`StorageRecorderProofs`): `TypeCorrect`, `RaceCorrect`, `OneRecorderCorrect`, `DownCorrect`,
`FlagsCorrect`. Until the race, where the one busy caller is in `rk_storage_muxer_init_by_id` or
`_deinit_by_id` determines whether there are a signal and a recorder (`SignalAndRecorder`), and a
recorder that will not find its flags set is about to be stopped (`FlagsOrStop`). `DownCorrect` is
about the files that recorders opened: one that `rk_storage_record_start` opened stays open when
automatic recording is off.

**Video** (`VideoLifecycleProofs`): `ChannelsCorrect` and `TerminateCorrect`, from which thread objects may
be joinable in each phase of start and stop (`Joined`, `MainPhase`, `CleanThreads`). In a run
with no parameter changed and no NV12 stream the shared data type is never NV12, whichever
stream's setter wrote it last, so the reader of raw frames is never started.

**Display** (`OsdLifecycleProofs`): `TypeCorrect`, `SafeCorrect`, `DeinitCorrect`. In a clean run one caller
is busy, where it is determines callbacks, regions and signal, and no thread but the last
lives (`CleanDisplay`); a region has the kind that the type of its OSD names, unless that
type was changed to another kind (`Kinds`).

**Dictionary and file** (`IniFileProofs`): `DictionaryNew`, `DictionarySet`, `DictionaryUnset` say for every
dictionary that set and unset keep the arrays consistent, change what is found under one key
and nothing else, also when the arrays grow or a slot freed before is used again. `LoadDump` is the
round trip, for a dictionary none of whose values ends in a backslash: what `iniparser_dump_ini`
writes can be read if every value fits its line, and whenever it can be read, loading it
gives back every section, and every entry of a section, without quotes, blanks and what
looks like a comment. It rests on two facts that are proved line by line: each line that is
written is about a key of the dictionary, under the section that the line says (`About`), and
each section is written with all its entries (`Whole`); and a load finds under a key what the
last line about it says (`Found`, from `DictionarySet`). `LoadPartial` needs only the first half, since
a part of a dump is about the same keys: all that is loaded from it was in the dictionary,
but for one value that was cut.

**Parameters** (`ParamStoreProofs`): `TypeCorrect`, `SequentialCorrect`, `NullCorrect`, `RestartCorrect`,
`TornCorrect` and `UsersCorrect`, for any number of connections, requests, crashes and power
failures; sections, entries and requests are those of the model. The type invariant needs to
know what dictionary and file hold (`Holds`, `Line`): what `iniparser_dump_ini` writes has no broken
line (`Dumped`), what is loaded is a proper dictionary (`Loaded`), and two writers or a
crash add broken lines at worst (`Overwritten`, `PartialLines`). `Alone` is the core of the second
theorem: without an overlap there is at most one request, main waits meanwhile, and no
string that was handed out has been freed. `Behind` ties the reader in the background to the
mutex, which leaves the two functions that do not take it as the only ones to race with it.

The other four follow from a second invariant, `SInv` (`Consistent`), which ties the dictionary, the file
and the history together in every phase:
  * `SameLines`: while somebody saves, the file is empty or already has the very lines that he is
    going to write, since nobody can change the dictionary meanwhile without a race. This is
    why two threads that save at once, which nothing in the code prevents, leave a file that can be
    read; a longer old file, with which `Overwrite` can break a line, is met only in a crash.
  * `KeepsName`: unless a save was damaged or a value ends in a backslash the dictionary, and
    the file when nobody is saving and it can be read, have the entry that handlers ask for,
    and those of the users whose section they have. With `LoadDump` this gives
    `NullOnlyAfterDamage`, with overlapping requests too.
  * `AloneSaves`, `TornKept`, `CleanKept`: who saves alone finds the file as `fopen` left it, empty, so after
    a crash it has a part of the dump and after a stop the whole; from there until the next
    request nothing but a load happens. `LoadPartial` and `LoadDump` then give `TornIsPrefix` and
    `RestartKeeps`.
  * `UsersCounted`: as long as clients do not misuse the requests, the number is wrong only
    between the change of a user's section and the update of the number by the same request,
    and the file, which is written after both, never has a wrong one.

`TornIsPrefix` is about saves. It says nothing of a copy of the factory file that is cut short,
which counts as damage.

Definitions by recursion over a list (`SpaceOf`, `Without`, `Pick`, the sections of a dump, the
lines of a load) are recursive functions. That such a function exists, and what it has after
each element, is proved by induction over a set of indices (`UpTo`, from the well-foundedness
of the naturals), since the library's induction theorems, which take a predicate, are
out of reach of the installed provers.

Only model-checked:

* all liveness (`EveryTaskRuns`, `DestructorReturns`, `InferenceReturns`, `QuotaEnforced`,
  `RemovalReturns`, `DeinitReturns`, `RestartReturns`, `PhotoServed`, `OsdCallReturns`): the prover does not
  handle fairness and `ENABLED`.

Every invariant that a passing run checks is also stated by a theorem.

## Findings

* `free_size_del_max` is documented as the point where deletion stops and is never
  compared (`storage.c` 722). The guide also calls `video_quota` "currently not used" (line
  1450) while `storage.c` 146-149 makes it the limit.
* `rk_storage_record_stop` stops the current file only.
* A photo requested while the previous one is being saved is lost.
* `rk_video_restart`, and so every setter that uses it, ends the inference thread.
* `rk_param_save` leaves out the parameters of sections that the loaded file did not have,
  such as `region_clip.N`, what follows a `;` or `#` in a value and quotes around it are not read
  back, and a value that ends in a backslash or is too long spoils others.

## Not modelled

* Pre- and postprocessing of images: numerical code on floats, without state.
* The handlers of the RPC server other than those in `ParamStore`, `OsdLifecycle`,
  `StorageRecorder` and `VideoLifecycle`: they unpack arguments and call a getter or setter, which
  passes a parameter to the vendor library. ISP, ROI, region clip, encoder, RTSP and
  RTMP wrappers are of this kind.
* Audio: two threads that test one flag and are joined by it. The join of a thread that
  was never created is listed as a hazard.
* Network, Wi-Fi, NTP, system, LoRa: shell commands, files and a serial port; what they
  do happens in other processes.
* Overlapping calls of `rk_video_restart`. The server allows them, and with two of them none
  of the promises of the video holds, so there is nothing to state.
* A value with a line break and behind it a line that parses: it would add an entry or a
  section to the file.
* What two scan threads over the same folders do, and what follows a race of disk messages
  with an initialisation: the models end there, and the properties name the condition.
* Code that cannot be reached in this build: `rk_param_reload` (its caller is compiled out),
  `rk_osd_bmp_change`, `rk_osd_privacy_mask_restart`.
* Allocation failures and, unless said otherwise, failures of the hardware calls.

The modules cover a small share of the lines of the repository, and cannot cover a
large one: most of its C and C++ lines are headers of OpenCV under `lib/`, and of what
is compiled most lines are the handlers and wrappers above.

## Plan

1. Done: all modules of the list above; theorems for every safety property.
2. Next: audio across restarts, where a thread may be joined that was never created.
3. The setters of the other components that save the parameters themselves, as further
   requests of `ParamStore`: `SInv` says what such a request has to keep.
