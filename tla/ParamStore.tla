----------------------------- MODULE ParamStore -----------------------------
(***************************************************************************)
(* The parameters of rkipc (common/param/param.c with iniparser.c), the    *)
(* file they are kept in, and the threads of the RPC server that use them  *)
(* (common/socket_server/server.c): one detached thread per connection,    *)
(* which main does not wait for when it stops.                             *)
(*                                                                         *)
(* A locked access of a handler is one step, and one of a thread in the    *)
(* background takes two. rk_system_add_user and rk_system_del_user change  *)
(* and save the dictionary without the lock, so those accesses take two    *)
(* steps as well and any conflicting access in between is a data race.     *)
(* Memory that was freed may be reused at once. In both cases ub records   *)
(* what went wrong and nothing is assumed of the rest.                     *)
(*                                                                         *)
(* rk_param_save does not call fsync: until the kernel has written it, a   *)
(* power failure may bring back what was in the file before, or leave a    *)
(* part of it.                                                             *)
(***************************************************************************)
EXTENDS IniFile

CONSTANTS
  Conns,         \* threads that serve connections
  MaxRequests,   \* bound: requests in all
  MaxBoots       \* bound: starts of the process

ASSUME ParamAssumption ==
  /\ MaxRequests \in Nat /\ MaxBoots \in Nat \ {0}
  /\ {"main", "bg"} \intersect Conns = {}     \* the names of other threads

VARIABLES
  ptr,           \* g_ini_d_: "null", "live" or "freed" (not null, memory gone)
  dict,          \* what it points to
  file,          \* the ini file: Absent or a sequence of lines
  old,           \* what the disk may have in its place
  mutex,         \* g_param_mutex is held
  main,          \* where main is
  serverRun,     \* RkIpcServerRun
  acceptor,      \* where rkipc_server_thread is
  bg,            \* where a thread is that reads parameters now and then
  pc,            \* where each connection's thread is
  req,           \* the request it is serving
  num,           \* its local variable user_num
  valid,         \* the string it got is still allocated
  ub,            \* "none" or how the process got undefined
  count,         \* how often each bounded call was made
  hist           \* history, see Init

serverVars == <<serverRun, acceptor>>
connVars == <<pc, req, num, valid>>
vars == <<ptr, dict, file, old, mutex, main, serverVars, bg, connVars, ub, count, hist>>

Users == {"u0", "u1"}
NumKey == <<"sys", "num">>
NameKey == <<"sys", "name">>
ClipKey == <<"clip", "x">>      \* the shipped file has no such section
UserKey(u) == <<u, "name">>
EntryKeys == {NumKey, NameKey, ClipKey} \union {UserKey(u) : u \in Users}

Requests ==
  [op : {"get"}, key : {NameKey} \union {UserKey(u) : u \in Users}, val : {Null}]
  \union [op : {"set"}, key : {NameKey}, val : {Value(2, f) : f \in Forms \ {"plain"}}]
  \union [op : {"set"}, key : {ClipKey, NumKey}, val : {Plain(2)}]
  \union [op : {"add", "del"}, key : {UserKey(u) : u \in Users}, val : {Plain(3)}]
NoRequest == [op |-> "none", key |-> Null, val |-> Null]

-----------------------------------------------------------------------------
(* /tmp/rkipc-factory-config.ini                                           *)
Factory == <<Section("sys"), Entry(<<"name">>, Plain(1)), Entry(<<"num">>, Plain(1)),
             Section("u0"), Entry(<<"name">>, Plain(1))>>

Busy(c) == pc[c] \notin {"none", "idle"}
Saving == main = "dump" \/ \E c \in Conns : pc[c] = "dump"
Lines == IF ptr = "live" THEN iniparser_dump_ini(dict) ELSE <<>>

Init ==
  /\ ptr = "null"
  /\ dict = dictionary_new
  /\ file \in {Absent, Factory}
  /\ old = {}
  /\ mutex = FALSE
  /\ main = "init"
  /\ serverRun = FALSE
  /\ acceptor = "none"
  /\ bg = "idle"
  /\ pc = [c \in Conns |-> "none"]
  /\ req = [c \in Conns |-> NoRequest]
  /\ num = [c \in Conns |-> 0]
  /\ valid = [c \in Conns |-> TRUE]
  /\ ub = "none"
  /\ count = [request |-> 0, boot |-> 1]
  /\ hist = [overlap |-> FALSE,    \* two requests, or a request and the stop, met
             damage  |-> FALSE,    \* a save or the copy of the factory's file failed,
                                   \* was cut short or was lost
             odd     |-> FALSE,    \* a value that ends in a backslash was set
             misuse  |-> FALSE,    \* the number of users was set, a user added twice
                                   \* or one deleted that is not there
             fresh   |-> FALSE,    \* no request since the parameters were loaded
             end     |-> "none",   \* how the last process ended, until the next request
             saved   |-> Null]     \* what was saved last or was being saved

-----------------------------------------------------------------------------
(* Accesses to the dictionary                                              *)

Writing(x) == x \in Conns /\ pc[x] \in {"adding", "deleting"}
Reading(x) == \/ x \in Conns /\ pc[x] = "dump"
              \/ x = "main" /\ main = "dump"
              \/ x = "bg" /\ bg = "read"
Others(x) == (Conns \union {"main", "bg"}) \ {x}

(* What the next step of a connection does with the dictionary.            *)
Access(c) ==
  CASE pc[c] \in {"get", "num_get", "dump"}        -> "read"
    [] pc[c] \in {"set", "add", "del", "num_set"}  -> "write"
    [] OTHER                                       -> "none"

Hazard(x, access) ==
  IF access = "none" THEN "none"
  ELSE IF ptr = "freed" THEN "freed"
  ELSE IF \E y \in Others(x) : Writing(y) \/ (access = "write" /\ Reading(y)) THEN "race"
  ELSE "none"

(* The locked accesses wait for g_param_mutex.                             *)
Enabled(c) == pc[c] \in {"get", "set", "num_get", "num_set"} => ~mutex

Undefined(c) ==
  /\ Enabled(c)
  /\ \/ Hazard(c, Access(c)) # "none" /\ ub' = Hazard(c, Access(c))
     \/ pc[c] = "use" /\ ~valid[c] /\ ub' = "stale"
     \/ pc[c] = "get" /\ Hazard(c, "read") = "none"
        /\ (ptr = "null" \/ dictionary_get(dict, req[c].key, Null) = Null) /\ ub' = "null"
  /\ UNCHANGED <<ptr, dict, file, old, mutex, main, serverVars, bg, connVars, count, hist>>

At(c, state) ==
  /\ pc[c] = state
  /\ Enabled(c)
  /\ Hazard(c, Access(c)) = "none"

Goto(c, state) == pc' = [pc EXCEPT ![c] = state]

(* The handler answers, and rec_thread reads the next request.             *)
Answered(c) ==
  /\ Goto(c, "idle")
  /\ req' = [req EXCEPT ![c] = NoRequest]
  /\ num' = [num EXCEPT ![c] = 0]

(* Replacing, unsetting or freeing a value invalidates what was handed out.*)
Invalidate(ks) == valid' = [c \in Conns |-> valid[c] /\ ~(pc[c] = "use" /\ req[c].key \in ks)]

-----------------------------------------------------------------------------
(* The server: accept is only left when a connection comes in, so one more *)
(* is served after RkIpcServerRun was cleared.                             *)
Accept(c) ==
  /\ acceptor = "accept"
  /\ pc[c] = "none"
  /\ Goto(c, "idle")
  /\ acceptor' = IF serverRun THEN "accept" ELSE "done"
  /\ UNCHANGED <<ptr, dict, file, old, mutex, main, serverRun, bg, req, num, valid, ub, count, hist>>

(* sock_read finds the connection closed: the thread closes it and ends.   *)
Disconnect(c) ==
  /\ pc[c] = "idle"
  /\ Goto(c, "none")
  /\ UNCHANGED <<ptr, dict, file, old, mutex, main, serverVars, bg, req, num, valid, ub, count, hist>>

(* What makes the number of users wrong by itself: nobody checks it.       *)
Misused(r) ==
  \/ r.op = "set" /\ r.key = NumKey
  \/ r.op = "add" /\ Has(dict, <<r.key[1]>>)
  \/ r.op = "del" /\ ~Has(dict, <<r.key[1]>>)

(* rec_thread reads a name and finds its handler in map.                   *)
Request(c, r) ==
  /\ pc[c] = "idle"
  /\ count.request < MaxRequests
  /\ Goto(c, r.op)
  /\ req' = [req EXCEPT ![c] = r]
  /\ count' = [count EXCEPT !.request = @ + 1]
  /\ hist' = [hist EXCEPT
                 !.fresh   = FALSE,
                 !.end     = "none",
                 !.overlap = @ \/ main # "up" \/ \E x \in Conns \ {c} : Busy(x),
                 !.odd     = @ \/ Is(r.val, "continued"),
                 !.misuse  = @ \/ Misused(r)]
  /\ UNCHANGED <<ptr, dict, file, old, mutex, main, serverVars, bg, num, valid, ub>>

(* rk_param_get_string under the mutex: a pointer into the dictionary.     *)
GetString(c) ==
  /\ At(c, "get")
  /\ ptr = "live" /\ dictionary_get(dict, req[c].key, Null) # Null
  /\ Goto(c, "use")
  /\ UNCHANGED <<ptr, dict, file, old, mutex, main, serverVars, bg, req, num, valid, ub, count, hist>>

(* The handler measures and sends the string after the mutex is released.  *)
UseString(c) ==
  /\ At(c, "use")
  /\ valid[c]
  /\ Answered(c)
  /\ UNCHANGED <<ptr, dict, file, old, mutex, main, serverVars, bg, valid, ub, count, hist>>

(* rk_param_set_string under the mutex; a null dictionary is left alone.   *)
SetString(c) ==
  /\ At(c, "set")
  /\ dict' = IF ptr = "live" THEN dictionary_set(dict, req[c].key, req[c].val) ELSE dict
  /\ Invalidate({req[c].key})
  /\ Answered(c)
  /\ UNCHANGED <<ptr, file, old, mutex, main, serverVars, bg, ub, count, hist>>

(* A thread in the background, such as rkipc_cycle_snapshot, reads a       *)
(* number with rk_param_get_int; all of them are joined before main frees  *)
(* the parameters.                                                         *)
BackgroundRead ==
  /\ main = "up"
  /\ bg = "idle"
  /\ ~mutex
  /\ IF Hazard("bg", "read") # "none"
     THEN ub' = Hazard("bg", "read") /\ UNCHANGED <<mutex, bg>>
     ELSE mutex' = TRUE /\ bg' = "read" /\ UNCHANGED ub
  /\ UNCHANGED <<ptr, dict, file, old, main, serverVars, connVars, count, hist>>

BackgroundDone ==
  /\ bg = "read"
  /\ bg' = "idle"
  /\ mutex' = FALSE
  /\ UNCHANGED <<ptr, dict, file, old, main, serverVars, connVars, ub, count, hist>>

-----------------------------------------------------------------------------
(* rk_system_add_user and rk_system_del_user                               *)

(* Several iniparser_set or an iniparser_unset without the mutex: the      *)
(* accesses begin ...                                                      *)
UserBegin(c) ==
  \/ At(c, "add") /\ Goto(c, "adding")
     /\ UNCHANGED <<ptr, dict, file, old, mutex, main, serverVars, bg, req, num, valid, ub, count, hist>>
  \/ At(c, "del") /\ Goto(c, "deleting")
     /\ UNCHANGED <<ptr, dict, file, old, mutex, main, serverVars, bg, req, num, valid, ub, count, hist>>

(* ... and are over. Only the section's own key is unset, not its entries. *)
UserEnd(c) ==
  /\ pc[c] \in {"adding", "deleting"}
  /\ LET k == req[c].key
         s == <<k[1]>>
     IN  /\ dict' = IF ptr # "live" THEN dict
                    ELSE IF pc[c] = "adding"
                    THEN dictionary_set(dictionary_set(dict, s, Null), k, req[c].val)
                    ELSE dictionary_unset(dict, s)
         /\ Invalidate(IF pc[c] = "adding" THEN {s, k} ELSE {s})
  /\ Goto(c, "num_get")
  /\ UNCHANGED <<ptr, file, old, mutex, main, serverVars, bg, req, num, ub, count, hist>>

(* The number as iniparser_getint reads it, 1 by default.                  *)
NumOf(d) ==
  LET v == dictionary_get(d, NumKey, Plain(1))
  IN  IF v = Torn THEN 0 ELSE v.text

(* Variant: the number of users is not found under its key.                *)
NumGetDefault(c) ==
  /\ At(c, "num_get")
  /\ num' = [num EXCEPT ![c] = 1]
  /\ Goto(c, "num_set")
  /\ UNCHANGED <<ptr, dict, file, old, mutex, main, serverVars, bg, req, valid, ub, count, hist>>

NumGet(c) ==
  /\ At(c, "num_get")
  /\ num' = [num EXCEPT ![c] = IF ptr = "live" THEN NumOf(dict) ELSE 1]
  /\ Goto(c, "num_set")
  /\ UNCHANGED <<ptr, dict, file, old, mutex, main, serverVars, bg, req, valid, ub, count, hist>>

NumSet(c) ==
  /\ At(c, "num_set")
  /\ LET n == IF req[c].op = "add" THEN num[c] + 1 ELSE num[c] - 1
     IN  dict' = IF ptr = "live" THEN dictionary_set(dict, NumKey, Plain(n)) ELSE dict
  /\ Invalidate({NumKey})
  /\ Goto(c, "open")
  /\ UNCHANGED <<ptr, file, old, mutex, main, serverVars, bg, req, num, ub, count, hist>>

(* fopen with "w"; the disk may keep what it had.                          *)
Truncate ==
  /\ file' = <<>>
  /\ old' = old \union {file}

(* rk_param_save without the mutex: fopen empties the file.                *)
SaveOpen(c) ==
  /\ pc[c] = "open"
  /\ Truncate
  /\ Goto(c, "dump")
  /\ UNCHANGED <<ptr, dict, mutex, main, serverVars, bg, req, num, valid, ub, count, hist>>

(* fopen fails: the dictionary is freed under everybody else.              *)
SaveFails(c) ==
  /\ pc[c] = "open"
  /\ LET h == IF ptr = "null" THEN "none" ELSE Hazard(c, "write")
     IN  IF h # "none"
         THEN ub' = h /\ UNCHANGED <<ptr, connVars, hist>>
         ELSE /\ ptr' = "null"
              /\ Invalidate(EntryKeys)
              /\ Answered(c)
              /\ hist' = [hist EXCEPT !.damage = TRUE]
              /\ UNCHANGED ub
  /\ UNCHANGED <<dict, file, old, mutex, main, serverVars, bg, count>>

(* A null dictionary is not dumped: the file stays empty.                  *)
SaveDump(c) ==
  /\ At(c, "dump")
  /\ file' \in Overwrite(Lines, file)
  /\ Answered(c)
  /\ hist' = [hist EXCEPT !.damage = @ \/ ptr # "live",
                          !.saved = IF ptr = "live" THEN dict ELSE @]
  /\ UNCHANGED <<ptr, dict, old, mutex, main, serverVars, bg, valid, ub, count>>

-----------------------------------------------------------------------------
(* main                                                                    *)

(* Variant: no second attempt with the factory file.                       *)
InitOnce ==
  /\ main = "init"
  /\ ptr' = IF Unreadable(file) THEN "null" ELSE "live"
  /\ dict' = IF Unreadable(file) THEN dict ELSE iniparser_load(file)
  /\ main' = "up"
  /\ serverRun' = TRUE
  /\ acceptor' = "accept"
  /\ hist' = [hist EXCEPT !.fresh = TRUE]
  /\ UNCHANGED <<file, old, mutex, bg, connVars, ub, count>>

(* cp of the factory's file over one that cannot be read: when it fails    *)
(* it leaves that as it is, or an empty file (which stands for any part of *)
(* the copy). Its result is not looked at.                                 *)
Copy == file' \in {file, <<>>, Factory}

FactoryDict == iniparser_load(Factory)

(* rk_param_init: a file that cannot be read is replaced by the factory's  *)
(* and loaded again. The result is not looked at: main starts the server.  *)
ParamInit ==
  /\ main = "init"
  /\ IF Unreadable(file) THEN Copy ELSE UNCHANGED file
  /\ old' = IF file' = file THEN old ELSE old \union {file}
  /\ ptr' = IF Unreadable(file') THEN "null" ELSE "live"
  /\ dict' = IF Unreadable(file') THEN dict ELSE iniparser_load(file')
  /\ main' = "up"
  /\ serverRun' = TRUE
  /\ acceptor' = "accept"
  /\ LET loaded == ~Unreadable(file) \/ file' = Factory
     IN  hist' = [hist EXCEPT !.fresh = loaded, !.damage = @ \/ ~loaded]
  /\ UNCHANGED <<mutex, bg, connVars, ub, count>>

(* A signal ends the loop of main; rkipc_server_deinit clears the flag and *)
(* sleeps half a second, whatever the connections' threads do.             *)
Stop ==
  /\ main = "up"
  /\ main' = "stop"
  /\ serverRun' = FALSE
  /\ hist' = [hist EXCEPT !.overlap = @ \/ \E c \in Conns : Busy(c),
                          !.fresh = FALSE, !.end = "none"]
  /\ UNCHANGED <<ptr, dict, file, old, mutex, acceptor, bg, connVars, ub, count>>

(* rk_param_deinit: the pointer is tested before the mutex is taken.       *)
Deinit ==
  /\ main = "stop"
  /\ \/ /\ ptr = "null"
        /\ main' = "leave"
        /\ UNCHANGED mutex
     \/ /\ ptr # "null"
        /\ ~mutex
        /\ mutex' = TRUE
        /\ main' = "open"
  /\ UNCHANGED <<ptr, dict, file, old, serverVars, bg, connVars, ub, count, hist>>

(* Variant: the old contents are overwritten in place.                     *)
OpenKeepsContents ==
  /\ main = "open"
  /\ main' = "dump"
  /\ UNCHANGED <<ptr, dict, file, old, mutex, serverVars, bg, connVars, ub, count, hist>>

(* Variant: the dictionary is freed before it is saved.                    *)
FreeFirst ==
  /\ main = "open"
  /\ ptr' = "freed"
  /\ Truncate
  /\ main' = "dump"
  /\ UNCHANGED <<dict, mutex, serverVars, bg, connVars, ub, count, hist>>

(* fopen with "w" empties the file, now with the mutex held.              *)
DeinitOpen ==
  /\ main = "open"
  /\ Truncate
  /\ main' = "dump"
  /\ UNCHANGED <<ptr, dict, mutex, serverVars, bg, connVars, ub, count, hist>>

DeinitOpenFails ==
  /\ main = "open"
  /\ LET h == IF ptr = "null" THEN "none" ELSE Hazard("main", "write")
     IN  IF h # "none"
         THEN ub' = h /\ UNCHANGED <<ptr, mutex, main, valid, hist>>
         ELSE /\ ptr' = "null"
              /\ Invalidate(EntryKeys)
              /\ mutex' = FALSE
              /\ main' = "leave"
              /\ hist' = [hist EXCEPT !.damage = TRUE]
              /\ UNCHANGED ub
  /\ UNCHANGED <<dict, file, old, serverVars, bg, pc, req, num, count>>

DeinitDump ==
  /\ main = "dump"
  /\ IF Hazard("main", "read") # "none"
     THEN ub' = Hazard("main", "read") /\ UNCHANGED <<file, main, hist>>
     ELSE /\ file' \in Overwrite(Lines, file)
          /\ main' = "free"
          /\ hist' = [hist EXCEPT !.end = "clean", !.saved = dict]
          /\ UNCHANGED ub
  /\ UNCHANGED <<ptr, dict, old, mutex, serverVars, bg, connVars, count>>

(* The dictionary is freed, its pointer is not cleared.                    *)
DeinitFree ==
  /\ main = "free"
  /\ IF ptr = "live" /\ Hazard("main", "write") # "none"
     THEN ub' = Hazard("main", "write") /\ UNCHANGED <<ptr, mutex, main, valid>>
     ELSE /\ ptr' = IF ptr = "null" THEN "null" ELSE "freed"
          /\ Invalidate(EntryKeys)
          /\ mutex' = FALSE
          /\ main' = "leave"
          /\ UNCHANGED ub
  /\ UNCHANGED <<dict, file, old, serverVars, bg, pc, req, num, count, hist>>

ProcessEnds ==
  /\ ptr' = "null"
  /\ dict' = dictionary_new
  /\ mutex' = FALSE
  /\ serverRun' = FALSE
  /\ acceptor' = "none"
  /\ bg' = "idle"
  /\ pc' = [c \in Conns |-> "none"]
  /\ req' = [c \in Conns |-> NoRequest]
  /\ num' = [c \in Conns |-> 0]
  /\ valid' = [c \in Conns |-> TRUE]

(* main returns, and the connections' threads are gone. One that was about *)
(* to write the file leaves it empty.                                      *)
Exit ==
  /\ main = "leave"
  /\ ProcessEnds
  /\ main' = "exited"
  /\ hist' = [hist EXCEPT !.damage = @ \/ \E c \in Conns : pc[c] = "dump"]
  /\ UNCHANGED <<file, old, ub, count>>

Boot ==
  /\ main = "exited"
  /\ count.boot < MaxBoots
  /\ count' = [count EXCEPT !.boot = @ + 1]
  /\ main' = "init"
  /\ UNCHANGED <<ptr, dict, file, old, mutex, serverVars, bg, connVars, ub, hist>>

(* The kernel has written the file to the disk.                            *)
Sync ==
  /\ old # {}
  /\ ~Saving
  /\ old' = {}
  /\ UNCHANGED <<ptr, dict, file, mutex, main, serverVars, bg, connVars, ub, count, hist>>

Restart ==
  /\ count.boot < MaxBoots
  /\ ProcessEnds
  /\ main' = "init"
  /\ count' = [count EXCEPT !.boot = @ + 1]
  /\ UNCHANGED ub

(* The process is killed and started again. What it had written is in the  *)
(* file.                                                                   *)
Crash ==
  /\ main \notin {"init", "exited"}
  /\ file' \in IF Saving THEN UNION {Overwrite(p, file) : p \in Partial(Lines)} ELSE {file}
  /\ hist' = [hist EXCEPT !.damage = @ \/ Saving,
                          !.fresh = FALSE,
                          !.end = IF Saving THEN "torn" ELSE "crash",
                          !.saved = IF Saving THEN dict ELSE @]
  /\ Restart
  /\ UNCHANGED old

(* The power fails before the kernel has written the file, also when the   *)
(* process has ended: the disk has what was there before, or a part of it. *)
PowerFails ==
  /\ main # "init"
  /\ old # {}
  /\ LET cut   == Partial(file)
         saved == hist.saved # Null /\ file = iniparser_dump_ini(hist.saved)
     IN  \E f \in old \union cut :
           /\ file' = f
           /\ hist' = [hist EXCEPT !.damage = TRUE, !.fresh = FALSE,
                                   !.end = IF saved /\ f \in cut THEN "torn" ELSE "lost"]
  /\ Restart
  /\ old' = {}

-----------------------------------------------------------------------------
Handler(c) ==
  \/ GetString(c)
  \/ UseString(c)
  \/ SetString(c)
  \/ UserBegin(c)
  \/ UserEnd(c)
  \/ NumGet(c)
  \/ NumSet(c)
  \/ SaveOpen(c)
  \/ SaveFails(c)
  \/ SaveDump(c)
  \/ Undefined(c)

Leaving ==
  \/ Deinit
  \/ DeinitOpen
  \/ DeinitOpenFails
  \/ DeinitDump
  \/ DeinitFree
  \/ Exit

Next ==
  \/ /\ ub = "none"
     /\ \/ \E c \in Conns : Accept(c) \/ Disconnect(c) \/ Handler(c) \/ \E r \in Requests : Request(c, r)
        \/ BackgroundRead
        \/ BackgroundDone
        \/ ParamInit
        \/ Stop
        \/ Leaving
        \/ Boot
        \/ Sync
        \/ Crash
        \/ PowerFails
  \/ /\ ub # "none" \/ (main = "exited" /\ count.boot = MaxBoots)
     /\ UNCHANGED vars

Spec == Init /\ [][Next]_vars

-----------------------------------------------------------------------------
TypeOK ==
  /\ ptr \in {"null", "live", "freed"}
  /\ IsDictionary(dict)
  /\ \A i \in 1..Len(file) : file[i].kind \in {"absent", "section", "entry", "broken"}
  /\ Saving => old # {}
  /\ mutex \in BOOLEAN /\ (bg = "read" => mutex)
  /\ main \in {"init", "up", "stop", "open", "dump", "free", "leave", "exited"}
  /\ serverRun \in BOOLEAN
  /\ acceptor \in {"none", "accept", "done"}
  /\ \A c \in Conns :
       /\ pc[c] \in {"none", "idle", "get", "use", "set", "add", "adding", "del", "deleting",
                     "num_get", "num_set", "open", "dump"}
       /\ req[c] \in Requests \union {NoRequest}
  /\ ub \in {"none", "race", "freed", "stale", "null"}
  /\ count.request \in 0..MaxRequests /\ count.boot \in 1..MaxBoots

(* Requests that do not overlap, and a stop that finds no request in       *)
(* progress, never touch freed memory: the pointers that                   *)
(* rk_param_get_string hands out are a danger only together with a second  *)
(* request. And the only requests that race, with the threads in the       *)
(* background that take the mutex, are the user functions that do not.     *)
SequentialIsSafe ==
  ~hist.overlap =>
    \/ ub \in {"none", "null"}
    \/ ub = "race" /\ \E c \in Conns : req[c].op \in {"add", "del"}

(* A handler that asks for a string of the file gets one, and so does not  *)
(* measure a null pointer, in three cases only: the name is that of a user *)
(* who is not in the dictionary, a save or the copy of the factory's file  *)
(* has failed, was interrupted or lost, or a value ended in a backslash.   *)
NullOnlyAfterDamage ==
  ub = "null" =>
    \/ hist.damage
    \/ hist.odd
    \/ \E u \in Users : ~Has(dict, <<u>>) /\ \E c \in Conns : pc[c] = "get" /\ req[c].key = UserKey(u)

(* What a process that was stopped knew is what the next one knows, as far *)
(* as the file can hold it: an entry of a section that is in the           *)
(* dictionary, without comments, quotes and blanks. Other entries are      *)
(* gone. This needs every value to fit its line: one that is too long      *)
(* brings back the factory's parameters, one that ends in a backslash      *)
(* takes the next entry with it.                                           *)
RestartKeeps ==
  hist.fresh /\ hist.end = "clean" /\ ~hist.overlap /\ Fits(hist.saved) =>
    \A k \in EntryKeys :
      Get(dict, k) = IF Has(hist.saved, <<k[1]>>) THEN iniparser_line(Get(hist.saved, k)) ELSE Null

(* After a crash while the file was rewritten in place, or a power failure *)
(* before it was on the disk, the process starts with the factory's        *)
(* parameters or with some of those it was saving, one of them cut short   *)
(* at most (or, when the save was lost in whole, with the file as it was   *)
(* before): never with a mixture of old and new.                           *)
TornIsPrefix ==
  hist.fresh /\ hist.end = "torn" /\ ~hist.overlap /\ Straight(hist.saved) =>
    \/ \A k \in EntryKeys : Get(dict, k) = Get(FactoryDict, k)
    \/ /\ \A k \in EntryKeys : Get(dict, k) \in {Null, Torn, iniparser_line(Get(hist.saved, k))}
       /\ \A k, l \in EntryKeys :
            /\ Get(dict, k) = Torn /\ Get(hist.saved, k) # Torn
            /\ Get(dict, l) = Torn /\ Get(hist.saved, l) # Torn
            => k = l

(* user_num counts the users' sections whenever no request is in progress, *)
(* also after a process was killed in the middle of adding or deleting a   *)
(* user, since both are saved together, and after a value that spoils the  *)
(* file. It needs clients that set neither the number nor a value that     *)
(* ends in a backslash, and add and delete only what is not or is there.   *)
UsersConsistent ==
  main = "up" /\ ub = "none" /\ (\A c \in Conns : ~Busy(c))
  /\ ~hist.overlap /\ ~hist.damage /\ ~hist.odd /\ ~hist.misuse =>
    NumOf(dict) = Cardinality({u \in Users : Has(dict, <<u>>)})

(* The developer guide on rk_param_save: "Save current parameters to a     *)
(* file". The parameters of a section that the file did not have, such as  *)
(* region_clip in the shipped one, are not written, quotes and what        *)
(* follows a ';' or '#' in a value are not read back, and a value that     *)
(* ends in a backslash or is too long spoils others.                       *)
SavesCurrentParameters ==
  hist.fresh /\ hist.end = "clean" /\ ~hist.overlap /\ ~hist.damage =>
    \A k \in EntryKeys : Get(dict, k) = Get(hist.saved, k)
=============================================================================
