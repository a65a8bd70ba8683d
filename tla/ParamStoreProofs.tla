-------------------------- MODULE ParamStoreProofs --------------------------
(***************************************************************************)
(* Proofs about ParamStore for every number of connections, requests and   *)
(* starts of the process.                                                  *)
(***************************************************************************)
EXTENDS ParamStore, IniFileProofs

(* The factory's file is read line by line.                                *)
LEMMA FactoryLines ==
  /\ Factory \in Seq(Line) /\ Factory \in Seq(AnyLine)
  /\ ~Unreadable(Factory) /\ iniparser_load(Factory) = LoadLines(Factory)
  /\ Holds(iniparser_load(Factory)) /\ Fits(iniparser_load(Factory))
<1>1. <<"num">> \in Keys /\ <<"name">> \in Keys
  <2>1. "num" \in Words /\ "name" \in Words /\ <<>> \in Seq(Words)
    BY DEF Words
  <2> QED
    BY <2>1, InFront DEF Keys
<1>2. /\ Plain(1) \in Values /\ \A form \in {"continued", "spoiling"} : ~Is(Plain(1), form)
      /\ \A form : ~Is(Null, form)
  <2>1. Plain(1) = [text |-> 1, form |-> "plain"] /\ Plain(1).form = "plain"
    BY DEF Plain, Value
  <2> QED
    BY <2>1 DEF Values, Forms, Is
<1>3. "sys" \in Words /\ "u0" \in Words
  BY DEF Words
<1> DEFINE Good == {l \in Line : l.val \in {Null, Plain(1)}}
<1>4. Section("sys") \in Good /\ Section("u0") \in Good
  BY <1>3 DEF Section, Line
<1>5. \A k \in Keys : Entry(k, Plain(1)) \in Good
  BY <1>2 DEF Entry, Line
<1>6. PICK a \in Good : a = Section("sys")
  BY <1>4
<1>7. PICK b \in Good : b = Entry(<<"name">>, Plain(1))
  BY <1>1, <1>5
<1>8. PICK c \in Good : c = Entry(<<"num">>, Plain(1))
  BY <1>1, <1>5
<1>9. PICK e \in Good : e = Section("u0")
  BY <1>4
<1>10. Good \subseteq Line /\ Line \subseteq AnyLine
  BY DEF AnyLine
<1>11. \A l \in Good : ~Continued(l) /\ ~Is(l.val, "spoiling")
  BY <1>2 DEF Continued
<1> HIDE DEF Good
<1>12. <<a, b, c, e, b>> \in Seq(Good)
  OBVIOUS
<1>13. Factory = <<a, b, c, e, b>>
  BY <1>6, <1>7, <1>8, <1>9 DEF Factory
<1>14. Factory \in Seq(Good) /\ Factory \in Seq(Line) /\ Factory \in Seq(AnyLine)
  BY <1>10, <1>12, <1>13, SeqMonotonic, Zenon
<1>15. PICK f \in Seq(Good) : f = Factory
  BY <1>14
<1>16. /\ Len(f) \in Nat
       /\ \A i \in 1..Len(f) : f[i] \in Line /\ f[i] \in AnyLine /\ ~Continued(f[i])
                                /\ ~Is(f[i].val, "spoiling")
  BY <1>10, <1>11
<1>17. ~Unreadable(f) /\ iniparser_load(f) = LoadLines(f)
  BY <1>16, Direct
<1> QED
  BY <1>14, <1>15, <1>16, <1>17, LoadedAny

-----------------------------------------------------------------------------
(* The inductive invariant                                                 *)

Places == {"none", "idle", "get", "use", "set", "add", "adding", "del", "deleting",
           "num_get", "num_set", "open", "dump"}

(* TypeOK with what the dictionary and the file hold.                      *)
ConnTypes ==
  /\ pc \in [Conns -> Places]
  /\ req \in [Conns -> Requests \union {NoRequest}]
  /\ num \in [Conns -> Int]
  /\ valid \in [Conns -> BOOLEAN]

ProcessTypes ==
  /\ ptr \in {"null", "live", "freed"}
  /\ mutex \in BOOLEAN
  /\ main \in {"init", "up", "stop", "open", "dump", "free", "leave", "exited"}
  /\ serverRun \in BOOLEAN
  /\ acceptor \in {"none", "accept", "done"}
  /\ ub \in {"none", "race", "freed", "stale", "null"}
  /\ count \in [request : 0..MaxRequests, boot : 1..MaxBoots]
  /\ hist = [overlap |-> hist.overlap, damage |-> hist.damage, odd |-> hist.odd,
             misuse |-> hist.misuse, fresh |-> hist.fresh, end |-> hist.end,
             saved |-> hist.saved]
  /\ hist.overlap \in BOOLEAN

DictOK == Holds(dict)

(* The file may be missing, but not when it was written since the disk was *)
(* last brought up to date.                                                *)
FileOK ==
  /\ \A f \in old \union {file} : f = Absent \/ f \in Seq(AnyLine)
  /\ old # {} => file \in Seq(AnyLine)

(* A thread that serves a request knows which.                             *)
Serves ==
  \A c \in Conns : Busy(c) =>
    /\ req[c] \in Requests
    /\ pc[c] \notin {"get", "use"} => req[c].op # "get"
    /\ pc[c] \notin {"get", "use", "set"} => req[c].op \in {"add", "del"}

(* Without a process there are no threads and no memory; the dictionary is *)
(* freed only on the way out.                                              *)
NoProcess ==
  /\ main \in {"init", "exited"} => acceptor = "none" /\ \A c \in Conns : pc[c] = "none"
  /\ ptr = "freed" => main = "leave"

(* As long as nothing overlapped, there is one request at most, only while *)
(* main waits, no string handed out was freed, and nothing has raced but   *)
(* the functions for users.                                                *)
Alone ==
  ~hist.overlap =>
    /\ \A c, e \in Conns : Busy(c) /\ Busy(e) => c = e
    /\ \A c \in Conns : Busy(c) => main = "up"
    /\ \A c \in Conns : valid[c]
    /\ ub \in {"none", "null"} \/ (ub = "race" /\ \E c \in Conns : req[c].op \in {"add", "del"})

(* A thread in the background reads with the mutex held, and not while     *)
(* main holds it; a file that is being written is not on the disk.         *)
Behind ==
  /\ bg \in {"idle", "read"}
  /\ bg = "read" => mutex /\ main \in {"up", "stop", "leave"}
  /\ Saving => old # {}

Core == ConnTypes /\ ProcessTypes /\ DictOK /\ FileOK /\ Serves /\ NoProcess /\ Alone
IInv == Core /\ Behind

(* What the web pages send.                                                *)
LEMMA RequestFacts ==
  ASSUME NEW r \in Requests
  PROVE  /\ r.op \in {"get", "set", "add", "del"}
         /\ r.key \in Keys /\ <<r.key[1]>> \in Keys
         /\ r.op # "get" => r.val \in ValuesOf(r.key)
         /\ Null \in ValuesOf(<<r.key[1]>>)
<1>1. \A n \in Int : \A f \in Forms : Value(n, f) \in Values
  BY DEF Value, Values
<1>a. Plain(2) \in Values /\ Plain(3) \in Values
  BY <1>1 DEF Plain, Forms
<1>2. \A k \in EntryKeys : Len(k) = 2 /\ k \in Seq(Words) /\ k # <<>> /\ k[1] \in Words
  <2>1. ASSUME NEW a \in Words, NEW b \in Words, NEW k, k = <<a, b>>
        PROVE  Len(k) = 2 /\ k \in Seq(Words) /\ k # <<>> /\ k[1] \in Words
    BY <2>1
  <2>2. {"sys", "num", "name", "clip", "x", "u0", "u1"} \subseteq Words
    BY DEF Words
  <2> QED
    BY <2>1, <2>2 DEF EntryKeys, NumKey, NameKey, ClipKey, UserKey, Users
<1>3. /\ r.op \in {"get", "set", "add", "del"}
      /\ r.key \in EntryKeys
      /\ r.op # "get" => r.val \in Values
  <2> DEFINE names == {UserKey(u) : u \in Users}
  <2>1. CASE r \in [op : {"get"}, key : {NameKey} \union names, val : {Null}]
    BY <2>1 DEF EntryKeys
  <2>2. CASE r \in [op : {"set"}, key : {NameKey}, val : {Value(2, f) : f \in Forms \ {"plain"}}]
    BY <1>1, <2>2 DEF EntryKeys
  <2>3. CASE r \in [op : {"set"}, key : {ClipKey, NumKey}, val : {Plain(2)}]
    BY <1>a, <2>3 DEF EntryKeys
  <2>4. CASE r \in [op : {"add", "del"}, key : names, val : {Plain(3)}]
    BY <1>a, <2>4 DEF EntryKeys
  <2> QED
    BY <2>1, <2>2, <2>3, <2>4 DEF Requests
<1>4. PICK s \in Words : s = r.key[1]
  BY <1>2, <1>3
<1>5. <<s>> \in Seq(Words) /\ Len(<<s>>) = 1 /\ <<s>> # <<>>
  <2>1. <<>> \in Seq(Words)
    OBVIOUS
  <2> QED
    BY <2>1, InFront, Zenon
<1>6. Len(r.key) = 2 /\ r.key \in Keys
  BY <1>2, <1>3, Zenon DEF Keys
<1>7. <<s>> \in Keys /\ Null \in ValuesOf(<<s>>)
  BY <1>5, Zenon DEF Keys, ValuesOf
<1> QED
  BY <1>3, <1>4, <1>6, <1>7 DEF ValuesOf

(* The initial state.                                                      *)
LEMMA InitIInv == Init => IInv
<1> SUFFICES ASSUME Init PROVE IInv
  OBVIOUS
<1>1. ConnTypes
  BY DEF Init, ConnTypes, Places
<1>2. ProcessTypes
  <2>1. count \in [request : 0..MaxRequests, boot : 1..MaxBoots]
    BY ParamAssumption DEF Init
  <2>2. /\ hist = [overlap |-> hist.overlap, damage |-> hist.damage, odd |-> hist.odd,
                   misuse |-> hist.misuse, fresh |-> hist.fresh, end |-> hist.end,
                   saved |-> hist.saved]
        /\ hist.overlap \in BOOLEAN
    BY DEF Init
  <2> QED
    BY <2>1, <2>2 DEF Init, ProcessTypes
<1>3. DictOK
  BY NewHolds DEF Init, DictOK
<1>4. FileOK
  BY FactoryLines DEF Init, FileOK
<1>5. Serves /\ NoProcess /\ Alone /\ Behind
  BY DEF Init, Serves, NoProcess, Alone, Busy, Behind, Saving
<1> QED
  BY <1>1, <1>2, <1>3, <1>4, <1>5 DEF IInv, Core

(* The state does not change.                                              *)
LEMMA Same == IInv /\ UNCHANGED vars => IInv'
BY DEF IInv, Core, vars, serverVars, connVars, ConnTypes, ProcessTypes, DictOK, FileOK, Serves,
       NoProcess, Alone, Busy, Behind, Saving

(* The acceptor, and a connection between two requests.                    *)
LEMMA ServerSteps ==
  ASSUME IInv, ub = "none", NEW c \in Conns,
         Accept(c) \/ Disconnect(c) \/ \E r \in Requests : Request(c, r)
  PROVE  Core'
<1>0. ConnTypes /\ ProcessTypes /\ DictOK /\ FileOK /\ Serves /\ NoProcess /\ Alone /\ Behind
  BY DEF IInv, Core
<1>1. ASSUME Accept(c) PROVE Core'
  <2>1. ConnTypes'
    BY <1>1, <1>0 DEF Accept, Goto, ConnTypes, Places, connVars, serverVars
  <2>2. ProcessTypes'
    BY <1>1, <1>0 DEF Accept, Goto, ProcessTypes, serverVars
  <2>3. DictOK'
    BY <1>1, <1>0 DEF Accept, Goto, DictOK
  <2>4. FileOK'
    BY <1>1, <1>0 DEF Accept, Goto, FileOK
  <2>5. Serves'
    BY <1>1, <1>0 DEF Accept, Goto, Serves, ConnTypes, Busy, connVars
  <2>6. NoProcess'
    BY <1>1, <1>0 DEF Accept, Goto, NoProcess, ConnTypes, connVars, serverVars
  <2>7. Alone'
    BY <1>1, <1>0 DEF Accept, Goto, Alone, ConnTypes, ProcessTypes, Busy, connVars
  <2> QED
    BY <2>1, <2>2, <2>3, <2>4, <2>5, <2>6, <2>7 DEF Core
<1>2. ASSUME Disconnect(c) PROVE Core'
  <2>1. ConnTypes'
    BY <1>2, <1>0 DEF Disconnect, Goto, ConnTypes, Places, connVars, serverVars
  <2>2. ProcessTypes'
    BY <1>2, <1>0 DEF Disconnect, Goto, ProcessTypes, serverVars
  <2>3. DictOK'
    BY <1>2, <1>0 DEF Disconnect, Goto, DictOK
  <2>4. FileOK'
    BY <1>2, <1>0 DEF Disconnect, Goto, FileOK
  <2>5. Serves'
    BY <1>2, <1>0 DEF Disconnect, Goto, Serves, ConnTypes, Busy, connVars
  <2>6. NoProcess'
    BY <1>2, <1>0 DEF Disconnect, Goto, NoProcess, ConnTypes, connVars, serverVars
  <2>7. Alone'
    BY <1>2, <1>0 DEF Disconnect, Goto, Alone, ConnTypes, ProcessTypes, Busy, connVars
  <2> QED
    BY <2>1, <2>2, <2>3, <2>4, <2>5, <2>6, <2>7 DEF Core
<1>3. ASSUME NEW r \in Requests, Request(c, r) PROVE Core'
  <2>1. ConnTypes'
    BY <1>3, <1>0, RequestFacts DEF Request, Goto, ConnTypes, Places, connVars, serverVars
  <2>a. /\ hist'.overlap = (hist.overlap \/ main # "up" \/ \E x \in Conns \ {c} : Busy(x))
        /\ pc[c] = "idle" /\ pc' = [pc EXCEPT ![c] = r.op] /\ req' = [req EXCEPT ![c] = r]
        /\ UNCHANGED <<main, valid, ub>>
    BY <1>3, <1>0 DEF Request, Goto, ProcessTypes
  <2>2. ProcessTypes'
    <3>1. count' \in [request : 0..MaxRequests, boot : 1..MaxBoots]
      <4>1. /\ count.request < MaxRequests /\ count \in [request : 0..MaxRequests, boot : 1..MaxBoots]
            /\ count' = [count EXCEPT !.request = @ + 1]
        BY <1>3, <1>0 DEF Request, ProcessTypes
      <4>2. count.request + 1 \in 0..MaxRequests
        BY <4>1, ParamAssumption
      <4> QED
        BY <4>1, <4>2
    <3>2. /\ hist' = [overlap |-> hist'.overlap, damage |-> hist'.damage, odd |-> hist'.odd,
                      misuse |-> hist'.misuse, fresh |-> hist'.fresh, end |-> hist'.end,
                      saved |-> hist'.saved]
          /\ hist'.overlap \in BOOLEAN
      BY <1>3, <1>0 DEF Request, ProcessTypes
    <3> QED
      BY <1>3, <1>0, <3>1, <3>2 DEF Request, ProcessTypes, serverVars
  <2>3. DictOK'
    BY <1>3, <1>0 DEF Request, Goto, DictOK
  <2>4. FileOK'
    BY <1>3, <1>0 DEF Request, Goto, FileOK
  <2>5. Serves'
    BY <1>0, <2>a, RequestFacts DEF Serves, ConnTypes, Busy
  <2>6. NoProcess'
    BY <1>3, <1>0 DEF Request, Goto, NoProcess, ConnTypes, connVars, serverVars
  <2>7. Alone'
    BY <1>0, <2>a DEF Alone, ConnTypes, Busy
  <2> QED
    BY <2>1, <2>2, <2>3, <2>4, <2>5, <2>6, <2>7 DEF Core
<1> QED
  BY <1>1, <1>2, <1>3

(* The number of users is a number.                                        *)
LEMMA NumKeyHolds ==
  NumKey \in Keys /\ Values = ValuesOf(NumKey) /\ \A n \in Int : Plain(n) \in ValuesOf(NumKey)
<1>1. PICK a \in Words : a = "sys"
  BY DEF Words
<1>2. PICK b \in Words : b = "num"
  BY DEF Words
<1>3. <<a, b>> \in Seq(Words) /\ Len(<<a, b>>) = 2 /\ <<a, b>> # <<>>
  OBVIOUS
<1>4. NumKey = <<a, b>>
  BY <1>1, <1>2 DEF NumKey
<1>5. NumKey \in Keys /\ Len(NumKey) = 2
  BY <1>3, <1>4 DEF Keys
<1>6. \A n \in Int : Plain(n) \in Values
  BY DEF Plain, Value, Values, Forms
<1> QED
  BY <1>5, <1>6 DEF ValuesOf

(* What iniparser_getint makes of it.                                      *)
LEMMA NumOfInt ==
  ASSUME NEW d, Holds(d)
  PROVE  NumOf(d) \in Int
<1> DEFINE v == dictionary_get(d, NumKey, Plain(1))
<1>0. NumKey # Null
  BY NumKeyHolds, IniAssumption DEF Keys
<1>1. v \in Values
  <2>1. CASE Has(d, NumKey)
    <3>1. v = Get(d, NumKey)
      BY <2>1 DEF Get, dictionary_get
    <3> QED
      BY <1>0, <2>1, <3>1, NumKeyHolds DEF Holds
  <2>2. CASE ~Has(d, NumKey)
    BY <2>2, NumKeyHolds DEF dictionary_get
  <2> QED
    BY <2>1, <2>2
<1> HIDE DEF v
<1>2. v # Torn => v.text \in Int
  BY <1>1 DEF Values
<1> QED
  BY <1>2 DEF NumOf, v

(* A request that is alone meets no access of another thread, unless it    *)
(* writes while a thread in the background has the mutex.                  *)
LEMMA AloneNoHazard ==
  ASSUME ConnTypes, NoProcess, Alone, Behind, ~hist.overlap, NEW c \in Conns, Busy(c), NEW access
  PROVE  /\ Hazard(c, access) \in {"none", "race"}
         /\ ~mutex \/ access # "write" => Hazard(c, access) = "none"
<1>1. main = "up" /\ ptr # "freed"
  BY DEF Alone, NoProcess
<1>2. \A y \in Others(c) : ~Writing(y) /\ (Reading(y) => y = "bg" /\ mutex)
  BY <1>1, ParamAssumption DEF Others, Writing, Reading, Alone, Busy, Behind
<1> QED
  BY <1>1, <1>2 DEF Hazard

(* The accesses that are not the functions' for users take the mutex.      *)
LEMMA LockedNoHazard ==
  ASSUME ConnTypes, NoProcess, Alone, Behind, Serves, ~hist.overlap, NEW c \in Conns, Enabled(c)
  PROVE  /\ Hazard(c, Access(c)) \in {"none", "race"}
         /\ Hazard(c, Access(c)) # "none" => req[c].op \in {"add", "del"}
<1>1. CASE ~Busy(c)
  BY <1>1 DEF Busy, Access, Hazard
<1>2. CASE Busy(c)
  <2>1. CASE pc[c] \in {"get", "set", "use"}
    BY <1>2, <2>1, AloneNoHazard DEF Enabled, Access
  <2>2. CASE pc[c] \notin {"get", "set", "use"}
    BY <1>2, <2>2, AloneNoHazard DEF Serves
  <2> QED
    BY <2>1, <2>2
<1> QED
  BY <1>1, <1>2

(* What a handler does.                                                    *)
LEMMA HandlerSteps ==
  ASSUME IInv, ub = "none", NEW c \in Conns,
         \/ GetString(c) \/ UseString(c) \/ SetString(c) \/ UserBegin(c) \/ UserEnd(c)
         \/ NumGet(c) \/ NumSet(c) \/ Undefined(c)
  PROVE  Core'
<1>0. ConnTypes /\ ProcessTypes /\ DictOK /\ FileOK /\ Serves /\ NoProcess /\ Alone /\ Behind
  BY DEF IInv, Core
<1>1. ASSUME GetString(c) PROVE Core'
  <2>1. ConnTypes'
    BY <1>1, <1>0 DEF GetString, Goto, At, ConnTypes, Places, connVars, serverVars
  <2>2. ProcessTypes'
    BY <1>1, <1>0 DEF GetString, Goto, At, ProcessTypes, serverVars
  <2>3. DictOK'
    BY <1>1, <1>0 DEF GetString, Goto, At, DictOK
  <2>4. FileOK'
    BY <1>1, <1>0 DEF GetString, Goto, At, FileOK
  <2>5. Serves'
    BY <1>1, <1>0 DEF GetString, Goto, At, Serves, ConnTypes, Busy, connVars
  <2>6. NoProcess'
    BY <1>1, <1>0 DEF GetString, Goto, At, NoProcess, ConnTypes, connVars, serverVars
  <2>7. Alone'
    BY <1>1, <1>0 DEF GetString, Goto, At, Alone, ConnTypes, ProcessTypes, Busy, connVars
  <2> QED
    BY <2>1, <2>2, <2>3, <2>4, <2>5, <2>6, <2>7 DEF Core
<1>2. ASSUME UseString(c) PROVE Core'
  <2>1. ConnTypes'
    BY <1>2, <1>0 DEF UseString, Answered, Goto, At, ConnTypes, Places, connVars, serverVars
  <2>2. ProcessTypes'
    BY <1>2, <1>0 DEF UseString, Answered, Goto, At, ProcessTypes, serverVars
  <2>3. DictOK'
    BY <1>2, <1>0 DEF UseString, Answered, Goto, At, DictOK
  <2>4. FileOK'
    BY <1>2, <1>0 DEF UseString, Answered, Goto, At, FileOK
  <2>5. Serves'
    BY <1>2, <1>0 DEF UseString, Answered, Goto, At, Serves, ConnTypes, Busy, connVars
  <2>6. NoProcess'
    BY <1>2, <1>0 DEF UseString, Answered, Goto, At, NoProcess, ConnTypes, connVars, serverVars
  <2>7. Alone'
    BY <1>2, <1>0 DEF UseString, Answered, Goto, At, Alone, ConnTypes, ProcessTypes, Busy, connVars
  <2> QED
    BY <2>1, <2>2, <2>3, <2>4, <2>5, <2>6, <2>7 DEF Core
<1>3. ASSUME SetString(c) PROVE Core'
  <2>1. ConnTypes'
    BY <1>3, <1>0 DEF SetString, Invalidate, Answered, Goto, At, ConnTypes, Places, connVars,
       serverVars
  <2>2. ProcessTypes'
    BY <1>3, <1>0 DEF SetString, Invalidate, Answered, Goto, At, ProcessTypes, serverVars
  <2>3. DictOK'
    <3>1. pc[c] = "set"
      BY <1>3 DEF SetString, At
    <3>2. req[c] \in Requests /\ req[c].op # "get"
      BY <1>0, <3>1 DEF Serves, Busy
    <3>3. req[c].key \in Keys /\ req[c].val \in ValuesOf(req[c].key)
      BY <3>2, RequestFacts
    <3>4. Holds(dictionary_set(dict, req[c].key, req[c].val))
      BY <1>0, <3>3, SetHolds DEF DictOK
    <3> QED
      BY <1>3, <1>0, <3>4 DEF SetString, DictOK
  <2>4. FileOK'
    BY <1>3, <1>0 DEF SetString, Invalidate, Answered, Goto, At, FileOK
  <2>5. Serves'
    BY <1>3, <1>0 DEF SetString, Invalidate, Answered, Goto, At, Serves, ConnTypes, Busy, connVars
  <2>6. NoProcess'
    BY <1>3, <1>0 DEF SetString, Invalidate, Answered, Goto, At, NoProcess, ConnTypes, connVars,
       serverVars
  <2>7. Alone'
    BY <1>3, <1>0 DEF SetString, Invalidate, Answered, Goto, At, Alone, ConnTypes, ProcessTypes,
       Busy, connVars
  <2> QED
    BY <2>1, <2>2, <2>3, <2>4, <2>5, <2>6, <2>7 DEF Core
<1>4. ASSUME UserBegin(c) PROVE Core'
  <2>1. ConnTypes'
    BY <1>4, <1>0 DEF UserBegin, Goto, At, ConnTypes, Places, connVars, serverVars
  <2>2. ProcessTypes'
    BY <1>4, <1>0 DEF UserBegin, Goto, At, ProcessTypes, serverVars
  <2>3. DictOK'
    BY <1>4, <1>0 DEF UserBegin, Goto, At, DictOK
  <2>4. FileOK'
    BY <1>4, <1>0 DEF UserBegin, Goto, At, FileOK
  <2>5. Serves'
    BY <1>4, <1>0 DEF UserBegin, Goto, At, Serves, ConnTypes, Busy, connVars
  <2>6. NoProcess'
    BY <1>4, <1>0 DEF UserBegin, Goto, At, NoProcess, ConnTypes, connVars, serverVars
  <2>7. Alone'
    BY <1>4, <1>0 DEF UserBegin, Goto, At, Alone, ConnTypes, ProcessTypes, Busy, connVars
  <2> QED
    BY <2>1, <2>2, <2>3, <2>4, <2>5, <2>6, <2>7 DEF Core
<1>5. ASSUME UserEnd(c) PROVE Core'
  <2>1. ConnTypes'
    BY <1>5, <1>0 DEF UserEnd, Invalidate, Goto, ConnTypes, Places, connVars, serverVars
  <2>2. ProcessTypes'
    BY <1>5, <1>0 DEF UserEnd, Invalidate, Goto, ProcessTypes, serverVars
  <2>3. DictOK'
    <3>1. pc[c] \in {"adding", "deleting"}
      BY <1>5 DEF UserEnd
    <3>2. req[c] \in Requests /\ req[c].op # "get"
      BY <1>0, <3>1 DEF Serves, Busy
    <3> DEFINE k == req[c].key
               s == <<k[1]>>
    <3>3. k \in Keys /\ req[c].val \in ValuesOf(k) /\ s \in Keys /\ Null \in ValuesOf(s)
      BY <3>2, RequestFacts
    <3> HIDE DEF k, s
    <3>4. Holds(dictionary_set(dict, s, Null)) /\ Holds(dictionary_unset(dict, s))
      BY <1>0, <3>3, SetHolds, UnsetHolds DEF DictOK
    <3>5. Holds(dictionary_set(dictionary_set(dict, s, Null), k, req[c].val))
      BY <3>3, <3>4, SetHolds
    <3> QED
      BY <1>5, <1>0, <3>4, <3>5 DEF UserEnd, DictOK, k, s
  <2>4. FileOK'
    BY <1>5, <1>0 DEF UserEnd, Invalidate, Goto, FileOK
  <2>5. Serves'
    BY <1>5, <1>0 DEF UserEnd, Invalidate, Goto, Serves, ConnTypes, Busy, connVars
  <2>6. NoProcess'
    BY <1>5, <1>0 DEF UserEnd, Invalidate, Goto, NoProcess, ConnTypes, connVars, serverVars
  <2>7. Alone'
    BY <1>5, <1>0 DEF UserEnd, Invalidate, Goto, Alone, ConnTypes, ProcessTypes, Busy, connVars
  <2> QED
    BY <2>1, <2>2, <2>3, <2>4, <2>5, <2>6, <2>7 DEF Core
<1>6. ASSUME NumGet(c) PROVE Core'
  <2>1. ConnTypes'
    <3>1. NumOf(dict) \in Int
      BY <1>0, NumOfInt DEF DictOK
    <3> QED
      BY <1>6, <1>0, <3>1 DEF NumGet, Goto, ConnTypes, Places
  <2>2. ProcessTypes'
    BY <1>6, <1>0 DEF NumGet, Goto, At, ProcessTypes, serverVars
  <2>3. DictOK'
    BY <1>6, <1>0 DEF NumGet, Goto, At, DictOK
  <2>4. FileOK'
    BY <1>6, <1>0 DEF NumGet, Goto, At, FileOK
  <2>5. Serves'
    BY <1>6, <1>0 DEF NumGet, Goto, At, Serves, ConnTypes, Busy, connVars
  <2>6. NoProcess'
    BY <1>6, <1>0 DEF NumGet, Goto, At, NoProcess, ConnTypes, connVars, serverVars
  <2>7. Alone'
    BY <1>6, <1>0 DEF NumGet, Goto, At, Alone, ConnTypes, ProcessTypes, Busy, connVars
  <2> QED
    BY <2>1, <2>2, <2>3, <2>4, <2>5, <2>6, <2>7 DEF Core
<1>7. ASSUME NumSet(c) PROVE Core'
  <2>1. ConnTypes'
    BY <1>7, <1>0 DEF NumSet, Invalidate, Goto, At, ConnTypes, Places, connVars, serverVars
  <2>2. ProcessTypes'
    BY <1>7, <1>0 DEF NumSet, Invalidate, Goto, At, ProcessTypes, serverVars
  <2>3. DictOK'
    <3> DEFINE n == IF req[c].op = "add" THEN num[c] + 1 ELSE num[c] - 1
    <3>1. n \in Int
      BY <1>0 DEF ConnTypes
    <3> HIDE DEF n
    <3>2. Holds(dictionary_set(dict, NumKey, Plain(n)))
      BY <1>0, <3>1, NumKeyHolds, SetHolds DEF DictOK
    <3> QED
      BY <1>7, <1>0, <3>2 DEF NumSet, DictOK, n
  <2>4. FileOK'
    BY <1>7, <1>0 DEF NumSet, Invalidate, Goto, At, FileOK
  <2>5. Serves'
    BY <1>7, <1>0 DEF NumSet, Invalidate, Goto, At, Serves, ConnTypes, Busy, connVars
  <2>6. NoProcess'
    BY <1>7, <1>0 DEF NumSet, Invalidate, Goto, At, NoProcess, ConnTypes, connVars, serverVars
  <2>7. Alone'
    BY <1>7, <1>0 DEF NumSet, Invalidate, Goto, At, Alone, ConnTypes, ProcessTypes, Busy, connVars
  <2> QED
    BY <2>1, <2>2, <2>3, <2>4, <2>5, <2>6, <2>7 DEF Core
<1>8. ASSUME Undefined(c) PROVE Core'
  <2>1. ConnTypes'
    BY <1>8, <1>0 DEF Undefined, ConnTypes, Places, connVars, serverVars
  <2>2. ProcessTypes'
    <3>1. ub' \in {"race", "freed", "stale", "null"}
      BY <1>8 DEF Undefined, Hazard
    <3> QED
      BY <1>8, <1>0, <3>1 DEF Undefined, ProcessTypes, serverVars
  <2>3. DictOK'
    BY <1>8, <1>0 DEF Undefined, DictOK
  <2>4. FileOK'
    BY <1>8, <1>0 DEF Undefined, FileOK
  <2>5. Serves'
    BY <1>8, <1>0 DEF Undefined, Serves, ConnTypes, Busy, connVars
  <2>6. NoProcess'
    BY <1>8, <1>0 DEF Undefined, NoProcess, ConnTypes, connVars, serverVars
  <2>7. Alone'
    <3>1. ASSUME ~hist.overlap PROVE ub' = "null" \/ (ub' = "race" /\ req[c].op \in {"add", "del"})
      <4>1. CASE pc[c] = "use" /\ ~valid[c]
        BY <1>0, <3>1, <4>1 DEF Alone
      <4>2. CASE Hazard(c, Access(c)) # "none" /\ ub' = Hazard(c, Access(c))
        BY <1>8, <1>0, <3>1, <4>2, LockedNoHazard DEF Undefined
      <4> QED
        BY <1>8, <4>1, <4>2 DEF Undefined
    <3> QED
      BY <1>8, <1>0, <3>1 DEF Undefined, Alone, Busy, connVars
  <2> QED
    BY <2>1, <2>2, <2>3, <2>4, <2>5, <2>6, <2>7 DEF Core
<1> QED
  BY <1>1, <1>2, <1>3, <1>4, <1>5, <1>6, <1>7, <1>8

(* What a dump puts into the file.                                         *)
LEMMA LinesWritten ==
  ASSUME DictOK
  PROVE  Lines \in Seq(Line) /\ Lines \in Seq(AnyLine)
<1>1. iniparser_dump_ini(dict) \in Seq(Line)
  BY Dumped DEF DictOK
<1>2. <<>> \in Seq(Line)
  OBVIOUS
<1>3. Lines \in Seq(Line)
  BY <1>1, <1>2 DEF Lines
<1>4. Line \subseteq AnyLine
  BY DEF AnyLine
<1> QED
  BY <1>3, <1>4, SeqMonotonic, Zenon

(* A file that is being written is not missing.                            *)
LEMMA FileThere ==
  ASSUME FileOK, Behind, Saving
  PROVE  file \in Seq(AnyLine)
BY DEF FileOK, Behind

(* rk_param_save in a handler.                                             *)
LEMMA SaveSteps ==
  ASSUME IInv, ub = "none", NEW c \in Conns, SaveOpen(c) \/ SaveFails(c) \/ SaveDump(c)
  PROVE  Core'
<1>0. ConnTypes /\ ProcessTypes /\ DictOK /\ FileOK /\ Serves /\ NoProcess /\ Alone /\ Behind
  BY DEF IInv, Core
<1>1. ASSUME SaveOpen(c) PROVE Core'
  <2>1. ConnTypes'
    BY <1>1, <1>0 DEF SaveOpen, Goto, ConnTypes, Places, connVars, serverVars
  <2>2. ProcessTypes'
    BY <1>1, <1>0 DEF SaveOpen, Goto, ProcessTypes, serverVars
  <2>3. DictOK'
    BY <1>1, <1>0 DEF SaveOpen, Goto, DictOK
  <2>4. FileOK'
    <3>1. <<>> \in Seq(AnyLine)
      OBVIOUS
    <3> QED
      BY <1>1, <1>0, <3>1 DEF SaveOpen, Truncate, FileOK
  <2>5. Serves'
    BY <1>1, <1>0 DEF SaveOpen, Goto, Serves, ConnTypes, Busy, connVars
  <2>6. NoProcess'
    BY <1>1, <1>0 DEF SaveOpen, Goto, NoProcess, ConnTypes, connVars, serverVars
  <2>7. Alone'
    BY <1>1, <1>0 DEF SaveOpen, Goto, Alone, ConnTypes, ProcessTypes, Busy, connVars
  <2> QED
    BY <2>1, <2>2, <2>3, <2>4, <2>5, <2>6, <2>7 DEF Core
<1>2. ASSUME SaveFails(c) PROVE Core'
  <2>0. \/ /\ ptr' = "null" /\ ub' = ub
           /\ Invalidate(EntryKeys) /\ Answered(c)
           /\ hist' = [hist EXCEPT !.damage = TRUE]
        \/ /\ ub' = Hazard(c, "write") /\ ub' # "none"
           /\ UNCHANGED <<ptr, connVars, hist>>
    BY <1>2 DEF SaveFails
  <2>1. pc[c] = "open" /\ UNCHANGED <<dict, file, old, mutex, main, serverVars, bg, count>>
    BY <1>2 DEF SaveFails
  <2>2. CASE /\ ptr' = "null" /\ ub' = ub
             /\ Invalidate(EntryKeys) /\ Answered(c)
             /\ hist' = [hist EXCEPT !.damage = TRUE]
    <3>1. ConnTypes'
      BY <1>0, <2>1, <2>2 DEF Invalidate, Answered, Goto, ConnTypes, Places
    <3>2. ProcessTypes'
      BY <1>0, <2>1, <2>2 DEF ProcessTypes, serverVars
    <3>3. DictOK' /\ FileOK'
      BY <1>0, <2>1 DEF DictOK, FileOK
    <3>4. Serves' /\ NoProcess'
      BY <1>0, <2>1, <2>2 DEF Serves, NoProcess, ConnTypes, Busy, Answered, Goto, serverVars
    <3>5. Alone'
      BY <1>0, <2>1, <2>2 DEF Alone, ConnTypes, ProcessTypes, Busy, Answered, Goto, Invalidate
    <3> QED
      BY <3>1, <3>2, <3>3, <3>4, <3>5 DEF Core
  <2>3. CASE /\ ub' = Hazard(c, "write") /\ ub' # "none"
             /\ UNCHANGED <<ptr, connVars, hist>>
    <3>1. ~hist.overlap => ub' = "race" /\ req[c].op \in {"add", "del"}
      BY <1>0, <2>1, <2>3, AloneNoHazard DEF Busy, ProcessTypes, Serves
    <3>2. ub' \in {"race", "freed"}
      BY <2>3 DEF Hazard
    <3>3. ConnTypes' /\ ProcessTypes'
      BY <1>0, <2>1, <2>3, <3>2 DEF ConnTypes, ProcessTypes, connVars, serverVars
    <3>4. DictOK' /\ FileOK' /\ Serves' /\ NoProcess' /\ Alone'
      BY <1>0, <2>1, <2>3, <3>1
         DEF DictOK, FileOK, Serves, NoProcess, Alone, Busy, connVars, serverVars
    <3> QED
      BY <3>3, <3>4 DEF Core
  <2> QED
    BY <2>0, <2>2, <2>3
<1>3. ASSUME SaveDump(c) PROVE Core'
  <2>1. ConnTypes'
    BY <1>3, <1>0 DEF SaveDump, Answered, Goto, At, ConnTypes, Places, connVars, serverVars
  <2>2. ProcessTypes'
    BY <1>3, <1>0 DEF SaveDump, Answered, Goto, At, ProcessTypes, serverVars
  <2>3. DictOK'
    BY <1>3, <1>0 DEF SaveDump, Answered, Goto, At, DictOK
  <2>4. FileOK'
    <3>1. Saving
      BY <1>3 DEF SaveDump, At, Saving
    <3>2. file' \in Overwrite(Lines, file) /\ old' = old
      BY <1>3 DEF SaveDump
    <3>3. file' \in Seq(AnyLine)
      BY <1>0, <3>1, <3>2, FileThere, LinesWritten, Overwritten
    <3> QED
      BY <1>0, <3>2, <3>3 DEF FileOK
  <2>5. Serves'
    BY <1>3, <1>0 DEF SaveDump, Answered, Goto, At, Serves, ConnTypes, Busy, connVars
  <2>6. NoProcess'
    BY <1>3, <1>0 DEF SaveDump, Answered, Goto, At, NoProcess, ConnTypes, connVars, serverVars
  <2>7. Alone'
    BY <1>3, <1>0 DEF SaveDump, Answered, Goto, At, Alone, ConnTypes, ProcessTypes, Busy, connVars
  <2> QED
    BY <2>1, <2>2, <2>3, <2>4, <2>5, <2>6, <2>7 DEF Core
<1> QED
  BY <1>1, <1>2, <1>3

(* main: the start, the stop and rk_param_deinit.                          *)
LEMMA MainSteps ==
  ASSUME IInv, ub = "none",
         \/ ParamInit \/ Stop \/ Deinit \/ DeinitOpen \/ DeinitOpenFails \/ DeinitDump
         \/ DeinitFree
  PROVE  Core'
<1>0. ConnTypes /\ ProcessTypes /\ DictOK /\ FileOK /\ Serves /\ NoProcess /\ Alone /\ Behind
  BY DEF IInv, Core
<1>a. ASSUME main \in {"open", "dump", "free"}, ~hist.overlap, NEW access
      PROVE  Hazard("main", access) = "none"
  <2>1. ptr # "freed" /\ \A c \in Conns : ~Busy(c)
    BY <1>0, <1>a DEF Alone, NoProcess
  <2>2. \A y \in Others("main") : ~Writing(y) /\ ~Reading(y)
    BY <1>0, <1>a, <2>1 DEF Others, Writing, Reading, Busy, Behind
  <2> QED
    BY <2>1, <2>2 DEF Hazard
<1>b. \A access : Hazard("main", access) \in {"none", "race", "freed"}
  BY DEF Hazard
<1>1. ASSUME ParamInit PROVE Core'
  <2>1. ConnTypes'
    BY <1>1, <1>0 DEF ParamInit, ConnTypes, Places, connVars, serverVars
  <2>2. ProcessTypes'
    BY <1>1, <1>0 DEF ParamInit, ProcessTypes, serverVars
  <2>a. /\ file' = file \/ file' \in Seq(AnyLine)
        /\ file' = Absent \/ file' \in Seq(AnyLine)
    <3>1. <<>> \in Seq(AnyLine) /\ Factory \in Seq(AnyLine)
      BY FactoryLines
    <3>2. file' \in {file, <<>>, Factory}
      BY <1>1 DEF ParamInit, Copy
    <3> QED
      BY <1>0, <3>1, <3>2 DEF FileOK
  <2>3. DictOK'
    <3>1. ~Unreadable(file') => Holds(iniparser_load(file'))
      BY <2>a, LoadedAny
    <3> QED
      BY <1>1, <1>0, <3>1 DEF ParamInit, DictOK
  <2>4. FileOK'
    <3>1. old' = IF file' = file THEN old ELSE old \union {file}
      BY <1>1 DEF ParamInit
    <3> QED
      BY <1>0, <2>a, <3>1 DEF FileOK
  <2>5. Serves'
    BY <1>1, <1>0 DEF ParamInit, Serves, ConnTypes, Busy, connVars
  <2>6. NoProcess'
    BY <1>1, <1>0 DEF ParamInit, NoProcess, ConnTypes, connVars, serverVars
  <2>7. Alone'
    BY <1>1, <1>0 DEF ParamInit, Alone, ConnTypes, ProcessTypes, Busy, connVars
  <2> QED
    BY <2>1, <2>2, <2>3, <2>4, <2>5, <2>6, <2>7 DEF Core
<1>2. ASSUME Stop PROVE Core'
  <2>1. ConnTypes'
    BY <1>2, <1>0 DEF Stop, ConnTypes, Places, connVars, serverVars
  <2>2. ProcessTypes'
    BY <1>2, <1>0 DEF Stop, ProcessTypes, serverVars
  <2>3. DictOK'
    BY <1>2, <1>0 DEF Stop, DictOK
  <2>4. FileOK'
    BY <1>2, <1>0 DEF Stop, FileOK
  <2>5. Serves'
    BY <1>2, <1>0 DEF Stop, Serves, ConnTypes, Busy, connVars
  <2>6. NoProcess'
    BY <1>2, <1>0 DEF Stop, NoProcess, ConnTypes, connVars, serverVars
  <2>7. Alone'
    BY <1>2, <1>0 DEF Stop, Alone, ConnTypes, ProcessTypes, Busy, connVars
  <2> QED
    BY <2>1, <2>2, <2>3, <2>4, <2>5, <2>6, <2>7 DEF Core
<1>3. ASSUME Deinit PROVE Core'
  <2>1. ConnTypes'
    BY <1>3, <1>0 DEF Deinit, ConnTypes, Places, connVars, serverVars
  <2>2. ProcessTypes'
    BY <1>3, <1>0 DEF Deinit, ProcessTypes, serverVars
  <2>3. DictOK'
    BY <1>3, <1>0 DEF Deinit, DictOK
  <2>4. FileOK'
    BY <1>3, <1>0 DEF Deinit, FileOK
  <2>5. Serves'
    BY <1>3, <1>0 DEF Deinit, Serves, ConnTypes, Busy, connVars
  <2>6. NoProcess'
    BY <1>3, <1>0 DEF Deinit, NoProcess, ConnTypes, connVars, serverVars
  <2>7. Alone'
    BY <1>3, <1>0 DEF Deinit, Alone, ConnTypes, ProcessTypes, Busy, connVars
  <2> QED
    BY <2>1, <2>2, <2>3, <2>4, <2>5, <2>6, <2>7 DEF Core
<1>4. ASSUME DeinitOpen PROVE Core'
  <2>1. ConnTypes'
    BY <1>4, <1>0 DEF DeinitOpen, ConnTypes, Places, connVars, serverVars
  <2>2. ProcessTypes'
    BY <1>4, <1>0 DEF DeinitOpen, ProcessTypes, serverVars
  <2>3. DictOK'
    BY <1>4, <1>0 DEF DeinitOpen, DictOK
  <2>4. FileOK'
    <3>1. <<>> \in Seq(AnyLine)
      OBVIOUS
    <3> QED
      BY <1>4, <1>0, <3>1 DEF DeinitOpen, Truncate, FileOK
  <2>5. Serves'
    BY <1>4, <1>0 DEF DeinitOpen, Serves, ConnTypes, Busy, connVars
  <2>6. NoProcess'
    BY <1>4, <1>0 DEF DeinitOpen, NoProcess, ConnTypes, connVars, serverVars
  <2>7. Alone'
    BY <1>4, <1>0 DEF DeinitOpen, Alone, ConnTypes, ProcessTypes, Busy, connVars
  <2> QED
    BY <2>1, <2>2, <2>3, <2>4, <2>5, <2>6, <2>7 DEF Core
<1>5. ASSUME DeinitOpenFails PROVE Core'
  <2>1. ConnTypes'
    BY <1>5, <1>0 DEF DeinitOpenFails, Invalidate, ConnTypes, Places, connVars, serverVars
  <2>2. ProcessTypes'
    BY <1>5, <1>0, <1>b DEF DeinitOpenFails, ProcessTypes, serverVars
  <2>3. DictOK'
    BY <1>5, <1>0 DEF DeinitOpenFails, Invalidate, DictOK
  <2>4. FileOK'
    BY <1>5, <1>0 DEF DeinitOpenFails, Invalidate, FileOK
  <2>5. Serves'
    BY <1>5, <1>0 DEF DeinitOpenFails, Invalidate, Serves, ConnTypes, Busy, connVars
  <2>6. NoProcess'
    BY <1>5, <1>0 DEF DeinitOpenFails, Invalidate, NoProcess, ConnTypes, connVars, serverVars
  <2>7. Alone'
    BY <1>5, <1>0, <1>a DEF DeinitOpenFails, Invalidate, Alone, ConnTypes, ProcessTypes, Busy,
       connVars
  <2> QED
    BY <2>1, <2>2, <2>3, <2>4, <2>5, <2>6, <2>7 DEF Core
<1>6. ASSUME DeinitDump PROVE Core'
  <2>1. ConnTypes'
    BY <1>6, <1>0 DEF DeinitDump, ConnTypes, Places, connVars, serverVars
  <2>2. ProcessTypes'
    BY <1>6, <1>0, <1>b DEF DeinitDump, ProcessTypes, serverVars
  <2>3. DictOK'
    BY <1>6, <1>0 DEF DeinitDump, DictOK
  <2>4. FileOK'
    <3>1. Saving /\ old' = old /\ (file' = file \/ file' \in Overwrite(Lines, file))
      BY <1>6 DEF DeinitDump, Saving
    <3>2. file \in Seq(AnyLine)
      BY <1>0, <3>1, FileThere
    <3>3. file' \in Seq(AnyLine)
      BY <1>0, <3>1, <3>2, LinesWritten, Overwritten
    <3> QED
      BY <1>0, <3>1, <3>3 DEF FileOK
  <2>5. Serves'
    BY <1>6, <1>0 DEF DeinitDump, Serves, ConnTypes, Busy, connVars
  <2>6. NoProcess'
    BY <1>6, <1>0 DEF DeinitDump, NoProcess, ConnTypes, connVars, serverVars
  <2>7. Alone'
    BY <1>6, <1>0, <1>a DEF DeinitDump, Alone, ConnTypes, ProcessTypes, Busy, connVars
  <2> QED
    BY <2>1, <2>2, <2>3, <2>4, <2>5, <2>6, <2>7 DEF Core
<1>7. ASSUME DeinitFree PROVE Core'
  <2>1. ConnTypes'
    BY <1>7, <1>0 DEF DeinitFree, Invalidate, ConnTypes, Places, connVars, serverVars
  <2>2. ProcessTypes'
    BY <1>7, <1>0, <1>b DEF DeinitFree, ProcessTypes, serverVars
  <2>3. DictOK'
    BY <1>7, <1>0 DEF DeinitFree, Invalidate, DictOK
  <2>4. FileOK'
    BY <1>7, <1>0 DEF DeinitFree, Invalidate, FileOK
  <2>5. Serves'
    BY <1>7, <1>0 DEF DeinitFree, Invalidate, Serves, ConnTypes, Busy, connVars
  <2>6. NoProcess'
    BY <1>7, <1>0 DEF DeinitFree, Invalidate, NoProcess, ConnTypes, connVars, serverVars
  <2>7. Alone'
    BY <1>7, <1>0, <1>a DEF DeinitFree, Invalidate, Alone, ConnTypes, ProcessTypes, Busy, connVars
  <2> QED
    BY <2>1, <2>2, <2>3, <2>4, <2>5, <2>6, <2>7 DEF Core
<1> QED
  BY <1>1, <1>2, <1>3, <1>4, <1>5, <1>6, <1>7

(* The process ends and is started again.                                  *)
LEMMA RestartSteps ==
  ASSUME IInv, ub = "none", Exit \/ Boot \/ Sync \/ Crash \/ PowerFails
  PROVE  Core'
<1>0. ConnTypes /\ ProcessTypes /\ DictOK /\ FileOK /\ Serves /\ NoProcess /\ Alone /\ Behind
  BY DEF IInv, Core
<1>1. ASSUME Exit PROVE Core'
  <2>1. ConnTypes'
    BY <1>1, <1>0 DEF Exit, ProcessEnds, ConnTypes, Places, connVars, serverVars
  <2>2. ProcessTypes'
    BY <1>1, <1>0 DEF Exit, ProcessEnds, ProcessTypes, serverVars
  <2>3. DictOK'
    BY <1>1, NewHolds DEF Exit, ProcessEnds, DictOK
  <2>4. FileOK'
    BY <1>1, <1>0 DEF Exit, ProcessEnds, FileOK
  <2>5. Serves'
    BY <1>1, <1>0 DEF Exit, ProcessEnds, Serves, ConnTypes, Busy, connVars
  <2>6. NoProcess'
    BY <1>1, <1>0 DEF Exit, ProcessEnds, NoProcess, ConnTypes, connVars, serverVars
  <2>7. Alone'
    BY <1>1, <1>0 DEF Exit, ProcessEnds, Alone, ConnTypes, ProcessTypes, Busy, connVars
  <2> QED
    BY <2>1, <2>2, <2>3, <2>4, <2>5, <2>6, <2>7 DEF Core
<1>2. ASSUME Boot PROVE Core'
  <2>1. ConnTypes'
    BY <1>2, <1>0 DEF Boot, ConnTypes, Places, connVars, serverVars
  <2>2. ProcessTypes'
    <3>1. count' \in [request : 0..MaxRequests, boot : 1..MaxBoots]
      BY <1>2, <1>0, ParamAssumption DEF Boot, ProcessTypes
    <3> QED
      BY <1>2, <1>0, <3>1 DEF Boot, ProcessTypes, serverVars
  <2>3. DictOK'
    BY <1>2, <1>0 DEF Boot, DictOK
  <2>4. FileOK'
    BY <1>2, <1>0 DEF Boot, FileOK
  <2>5. Serves'
    BY <1>2, <1>0 DEF Boot, Serves, ConnTypes, Busy, connVars
  <2>6. NoProcess'
    BY <1>2, <1>0 DEF Boot, NoProcess, ConnTypes, connVars, serverVars
  <2>7. Alone'
    BY <1>2, <1>0 DEF Boot, Alone, ConnTypes, ProcessTypes, Busy, connVars
  <2> QED
    BY <2>1, <2>2, <2>3, <2>4, <2>5, <2>6, <2>7 DEF Core
<1>3. ASSUME Restart, hist'.overlap = hist.overlap,
             hist' = [overlap |-> hist'.overlap, damage |-> hist'.damage, odd |-> hist'.odd,
                      misuse |-> hist'.misuse, fresh |-> hist'.fresh, end |-> hist'.end,
                      saved |-> hist'.saved],
             FileOK'
      PROVE  Core'
  <2>1. ConnTypes'
    BY <1>3, <1>0 DEF Restart, ProcessEnds, ConnTypes, Places
  <2>2. ProcessTypes'
    <3>1. count' \in [request : 0..MaxRequests, boot : 1..MaxBoots]
      BY <1>3, <1>0, ParamAssumption DEF Restart, ProcessTypes
    <3> QED
      BY <1>3, <1>0, <3>1 DEF Restart, ProcessEnds, ProcessTypes, serverVars
  <2>3. DictOK'
    BY <1>3, NewHolds DEF Restart, ProcessEnds, DictOK
  <2>5. Serves' /\ NoProcess'
    BY <1>3, <1>0 DEF Restart, ProcessEnds, Serves, NoProcess, ConnTypes, Busy
  <2>7. Alone'
    BY <1>3, <1>0 DEF Restart, ProcessEnds, Alone, ConnTypes, ProcessTypes, Busy
  <2> QED
    BY <1>3, <2>1, <2>2, <2>3, <2>5, <2>7 DEF Core
<1>4. ASSUME Crash PROVE Core'
  <2>1. /\ hist'.overlap = hist.overlap
        /\ hist' = [overlap |-> hist'.overlap, damage |-> hist'.damage, odd |-> hist'.odd,
                    misuse |-> hist'.misuse, fresh |-> hist'.fresh, end |-> hist'.end,
                    saved |-> hist'.saved]
    BY <1>4, <1>0 DEF Crash, ProcessTypes
  <2>2. old' = old /\ Restart
    BY <1>4 DEF Crash
  <2>3. FileOK'
    <3>1. CASE ~Saving
      <4>1. file' = file
        BY <1>4, <3>1 DEF Crash
      <4> QED
        BY <1>0, <2>2, <4>1 DEF FileOK
    <3>2. CASE Saving
      <4>1. file \in Seq(AnyLine)
        BY <1>0, <3>2, FileThere
      <4>2. PICK p \in Partial(Lines) : file' \in Overwrite(p, file)
        BY <1>4, <3>2 DEF Crash
      <4>3. p \in Seq(AnyLine)
        BY <1>0, LinesWritten, PartialLines
      <4>4. file' \in Seq(AnyLine)
        BY <4>1, <4>2, <4>3, Overwritten
      <4> QED
        BY <1>0, <2>2, <4>4 DEF FileOK
    <3> QED
      BY <3>1, <3>2
  <2> QED
    BY <1>3, <2>1, <2>2, <2>3
<1>5. ASSUME PowerFails PROVE Core'
  <2>1. PICK f \in old \union Partial(file) :
          /\ file' = f
          /\ hist' = [hist EXCEPT !.damage = TRUE, !.fresh = FALSE,
                        !.end = IF /\ hist.saved # Null /\ file = iniparser_dump_ini(hist.saved)
                                   /\ f \in Partial(file)
                                THEN "torn" ELSE "lost"]
    BY <1>5, Zenon DEF PowerFails
  <2>2. /\ hist'.overlap = hist.overlap
        /\ hist' = [overlap |-> hist'.overlap, damage |-> hist'.damage, odd |-> hist'.odd,
                    misuse |-> hist'.misuse, fresh |-> hist'.fresh, end |-> hist'.end,
                    saved |-> hist'.saved]
    BY <1>0, <2>1 DEF ProcessTypes
  <2>3. old' = {} /\ Restart /\ old # {}
    BY <1>5 DEF PowerFails
  <2>4. FileOK'
    <3>1. file \in Seq(AnyLine)
      BY <1>0, <2>3 DEF FileOK
    <3>2. f \in Partial(file) => f \in Seq(AnyLine)
      BY <3>1, PartialLines
    <3>3. file' = Absent \/ file' \in Seq(AnyLine)
      BY <1>0, <2>1, <3>2 DEF FileOK
    <3> QED
      BY <2>3, <3>3 DEF FileOK
  <2> QED
    BY <1>3, <2>2, <2>3, <2>4
<1>6. ASSUME Sync PROVE Core'
  <2>1. ConnTypes' /\ ProcessTypes' /\ DictOK'
    BY <1>6, <1>0 DEF Sync, ConnTypes, ProcessTypes, DictOK, connVars, serverVars
  <2>2. FileOK'
    BY <1>6, <1>0 DEF Sync, FileOK
  <2>3. Serves' /\ NoProcess' /\ Alone'
    BY <1>6, <1>0 DEF Sync, Serves, NoProcess, Alone, Busy, connVars, serverVars
  <2> QED
    BY <2>1, <2>2, <2>3 DEF Core
<1> QED
  BY <1>1, <1>2, <1>4, <1>5, <1>6

(* A thread in the background.                                             *)
LEMMA BackgroundSteps ==
  ASSUME IInv, ub = "none", BackgroundRead \/ BackgroundDone
  PROVE  Core'
<1>0. ConnTypes /\ ProcessTypes /\ DictOK /\ FileOK /\ Serves /\ NoProcess /\ Alone /\ Behind
  BY DEF IInv, Core
<1>1. UNCHANGED <<ptr, dict, file, old, main, serverVars, connVars, count, hist>>
  BY DEF BackgroundRead, BackgroundDone
<1>2. mutex' \in BOOLEAN /\ ub' \in {"none", "race", "freed"}
  BY <1>0 DEF BackgroundRead, BackgroundDone, Hazard, ProcessTypes
<1>3. ub' = "none" \/ (ub' = Hazard("bg", "read") /\ main = "up")
  BY <1>0 DEF BackgroundRead, BackgroundDone
<1>4. ASSUME ~hist.overlap, ub' # "none"
      PROVE  ub' = "race" /\ \E c \in Conns : req[c].op \in {"add", "del"}
  <2>1. ptr # "freed" /\ Hazard("bg", "read") # "none" /\ ub' = Hazard("bg", "read")
    BY <1>0, <1>3, <1>4 DEF NoProcess
  <2>2. PICK y \in Others("bg") : Writing(y)
    BY <2>1 DEF Hazard
  <2>3. y \in Conns /\ pc[y] \in {"adding", "deleting"}
    BY <2>2 DEF Writing
  <2>4. req[y].op \in {"add", "del"}
    BY <1>0, <2>3 DEF Serves, Busy
  <2> QED
    BY <2>1, <2>3, <2>4 DEF Hazard
<1>5. ConnTypes' /\ ProcessTypes' /\ DictOK'
  BY <1>0, <1>1, <1>2 DEF ConnTypes, ProcessTypes, DictOK, connVars, serverVars
<1>6. FileOK' /\ Serves' /\ NoProcess'
  BY <1>0, <1>1 DEF FileOK, Serves, NoProcess, Busy, connVars, serverVars
<1>7. Alone'
  BY <1>0, <1>1, <1>4 DEF Alone, Busy, connVars
<1> QED
  BY <1>5, <1>6, <1>7 DEF Core

(* The rest of the invariant, over all steps.                              *)
LEMMA BehindSteps ==
  ASSUME IInv, ub = "none", Next
  PROVE  Behind'
<1>0. ConnTypes /\ ProcessTypes /\ Behind
  BY DEF IInv, Core
<1>1. ASSUME NEW c \in Conns, UNCHANGED <<old, mutex, main, bg>>,
             pc' = [pc EXCEPT ![c] = pc'[c]], pc'[c] # "dump"
      PROVE  Behind'
  BY <1>0, <1>1 DEF Behind, Saving, ConnTypes
<1>2. ASSUME UNCHANGED <<old, mutex, main, bg, pc>> PROVE Behind'
  BY <1>0, <1>2 DEF Behind, Saving
<1>3. ASSUME NEW c \in Conns, NEW r \in Requests, Request(c, r) PROVE Behind'
  <2>1. r.op # "dump"
    BY RequestFacts
  <2> QED
    BY <1>0, <1>1, <1>3, <2>1 DEF Request, Goto, ConnTypes
<1>4. ASSUME NEW c \in Conns, Accept(c) \/ Disconnect(c) PROVE Behind'
  BY <1>0, <1>1, <1>4 DEF Accept, Disconnect, Goto, ConnTypes
<1>5. ASSUME NEW c \in Conns, GetString(c) \/ UseString(c) \/ SetString(c) PROVE Behind'
  BY <1>0, <1>1, <1>5 DEF GetString, UseString, SetString, Answered, Goto, ConnTypes
<1>6. ASSUME NEW c \in Conns, UserBegin(c) \/ UserEnd(c) \/ NumGet(c) \/ NumSet(c) PROVE Behind'
  BY <1>0, <1>1, <1>6 DEF UserBegin, UserEnd, NumGet, NumSet, Goto, ConnTypes
<1>7. ASSUME NEW c \in Conns, SaveOpen(c) PROVE Behind'
  BY <1>0, <1>7 DEF SaveOpen, Truncate, Behind
<1>8. ASSUME NEW c \in Conns, SaveFails(c) PROVE Behind'
  <2>1. UNCHANGED <<old, mutex, main, bg>> /\ (UNCHANGED connVars \/ Answered(c))
    BY <1>8 DEF SaveFails
  <2> QED
    BY <1>0, <1>1, <1>2, <2>1 DEF Answered, Goto, ConnTypes, connVars
<1>9. ASSUME NEW c \in Conns, SaveDump(c) PROVE Behind'
  BY <1>0, <1>1, <1>9 DEF SaveDump, Answered, Goto, ConnTypes
<1>10. ASSUME NEW c \in Conns, Undefined(c) PROVE Behind'
  BY <1>2, <1>10 DEF Undefined, connVars
<1>11. CASE BackgroundRead \/ BackgroundDone
  BY <1>0, <1>11 DEF BackgroundRead, BackgroundDone, Behind, Saving, connVars
<1>12. CASE ParamInit \/ Stop \/ Boot
  <2>1. pc' = pc /\ bg' = bg /\ mutex' = mutex /\ main' # "dump" /\ (old # {} => old' # {})
        /\ (main = "up" => main' = "stop") /\ main \in {"init", "up", "exited"}
    BY <1>12 DEF ParamInit, Stop, Boot, connVars
  <2> QED
    BY <1>0, <2>1 DEF Behind, Saving
<1>13. CASE Deinit
  BY <1>0, <1>13 DEF Deinit, Behind, Saving, connVars
<1>14. CASE DeinitOpen
  BY <1>0, <1>14 DEF DeinitOpen, Truncate, Behind
<1>15. CASE DeinitOpenFails \/ DeinitDump \/ DeinitFree
  <2>1. main \in {"open", "dump", "free"} /\ old' = old /\ bg' = bg /\ pc' = pc
        /\ (main' = "dump" => main = "dump")
    BY <1>15 DEF DeinitOpenFails, DeinitDump, DeinitFree, connVars
  <2> QED
    BY <1>0, <2>1 DEF Behind, Saving
<1>16. CASE Exit \/ Crash \/ PowerFails
  <2>1. bg' = "idle" /\ main' # "dump" /\ pc' = [c \in Conns |-> "none"]
    BY <1>16 DEF Exit, Crash, PowerFails, Restart, ProcessEnds
  <2> QED
    BY <2>1 DEF Behind, Saving
<1>17. CASE Sync
  BY <1>0, <1>17 DEF Sync, Behind, Saving, connVars
<1>18. CASE UNCHANGED vars
  BY <1>2, <1>18 DEF vars, connVars
<1> QED
  BY <1>3, <1>4, <1>5, <1>6, <1>7, <1>8, <1>9, <1>10, <1>11, <1>12, <1>13, <1>14, <1>15, <1>16,
     <1>17, <1>18 DEF Next, Handler, Leaving

(* Every step keeps the invariant.                                         *)
LEMMA NextIInv == IInv /\ [Next]_vars => IInv'
<1> SUFFICES ASSUME IInv, [Next]_vars PROVE IInv'
  OBVIOUS
<1>1. CASE UNCHANGED vars
  BY <1>1, Same
<1>2. CASE Next /\ ub = "none" /\ ~UNCHANGED vars
  <2> SUFFICES Core'
    BY <1>2, BehindSteps DEF IInv
  <2>1. CASE \E c \in Conns :
               Accept(c) \/ Disconnect(c) \/ Handler(c) \/ \E r \in Requests : Request(c, r)
    BY <1>2, <2>1, ServerSteps, HandlerSteps, SaveSteps DEF Handler
  <2>2. CASE ParamInit \/ Stop \/ (Leaving /\ ~Exit)
    BY <1>2, <2>2, MainSteps DEF Leaving
  <2>3. CASE Exit \/ Boot \/ Sync \/ Crash \/ PowerFails
    BY <1>2, <2>3, RestartSteps
  <2>4. CASE BackgroundRead \/ BackgroundDone
    BY <1>2, <2>4, BackgroundSteps
  <2> QED
    BY <1>2, <2>1, <2>2, <2>3, <2>4 DEF Next
<1> QED
  BY <1>1, <1>2 DEF Next

(* The invariant holds in every state.                                     *)
THEOREM Inductive == Spec => []IInv
<1>1. Init => IInv
  BY InitIInv
<1>2. IInv /\ [Next]_vars => IInv'
  BY NextIInv
<1> QED
  BY <1>1, <1>2, PTL DEF Spec

(* The types: the dictionary stays well formed whatever requests set and   *)
(* unset, and the file is always one that iniparser_load can be given,     *)
(* also when two writers meet or a crash cuts a save short.                *)
THEOREM TypeCorrect == Spec => []TypeOK
<1>1. IInv => TypeOK
  <2> SUFFICES ASSUME IInv PROVE TypeOK
    OBVIOUS
  <2>1. ConnTypes /\ ProcessTypes /\ DictOK /\ FileOK /\ Behind
    BY DEF IInv, Core
  <2>2. IsDictionary(dict)
    BY <2>1 DEF DictOK, Holds, Dict
  <2>3. \A i \in 1..Len(file) : file[i].kind \in {"absent", "section", "entry", "broken"}
    <3>1. CASE file \in Seq(AnyLine)
      <4>1. \A i \in 1..Len(file) : file[i] \in AnyLine
        BY <3>1
      <4>2. \A l \in AnyLine : l.kind \in {"section", "entry", "broken"}
        BY DEF AnyLine, Line, Broken
      <4> QED
        BY <4>1, <4>2
    <3>2. CASE file = Absent
      <4>1. Len(Absent) = 1 /\ Absent[1].kind = "absent"
        BY DEF Absent
      <4> QED
        BY <3>2, <4>1
    <3> QED
      BY <2>1, <3>1, <3>2 DEF FileOK
  <2>4. count.request \in 0..MaxRequests /\ count.boot \in 1..MaxBoots
    BY <2>1 DEF ProcessTypes
  <2> QED
    BY <2>1, <2>2, <2>3, <2>4 DEF TypeOK, ConnTypes, ProcessTypes, Places, Behind
<1> QED
  BY <1>1, Inductive, PTL

(* Requests one at a time, and a stop between them, never touch freed      *)
(* memory, and only the functions for users race, with the threads in the  *)
(* background: for any number of connections, requests, crashes and        *)
(* restarts.                                                               *)
THEOREM SequentialCorrect == Spec => []SequentialIsSafe
<1>1. IInv => SequentialIsSafe
  BY DEF IInv, Core, Alone, SequentialIsSafe
<1> QED
  BY <1>1, Inductive, PTL

-----------------------------------------------------------------------------
(* What requests and restarts do to the parameters                         *)

SysKey == <<"sys">>
FirstKey == <<"u0">>
SecondKey == <<"u1">>

(* The keys of the model are keys, and differ.                             *)
LEMMA KeyFacts ==
  /\ \A k \in EntryKeys : EntryKey(k) /\ k # Null
  /\ \A k \in {SysKey, FirstKey, SecondKey} : k \in Keys /\ k # Null /\ k \notin EntryKeys
  /\ SysKey # FirstKey /\ SysKey # SecondKey /\ FirstKey # SecondKey
  /\ NumKey # NameKey /\ NumKey # ClipKey /\ \A u \in Users : NumKey # UserKey(u)
  /\ <<NumKey[1]>> = SysKey /\ <<NameKey[1]>> = SysKey
  /\ \A u \in Users : <<UserKey(u)[1]>> = <<u>> /\ <<u>> \in {FirstKey, SecondKey}
  /\ \A u \in Users : UserKey(u) # NameKey
<1>1. {"", "sys", "num", "name", "clip", "x", "u0", "u1"} \subseteq Words
  BY DEF Words
<1>2. \A a, b \in Words : /\ <<a, b>> \in Seq(Words) /\ <<a, b>> # <<>>
                          /\ Len(<<a, b>>) = 2 /\ <<a, b>>[1] = a /\ <<a, b>>[2] = b
  OBVIOUS
<1>3. \A a \in Words : /\ <<a>> \in Seq(Words) /\ <<a>> # <<>> /\ Len(<<a>>) = 1 /\ <<a>>[1] = a
  OBVIOUS
<1>4. \A k \in EntryKeys : k \in Seq(Words) /\ k # <<>> /\ Len(k) = 2 /\ k[1] # ""
  <2>1. ASSUME NEW a \in Words, NEW b \in Words, a # "", NEW k, k = <<a, b>>
        PROVE  k \in Seq(Words) /\ k # <<>> /\ Len(k) = 2 /\ k[1] # ""
    <3>1. Len(k) = 2 /\ k \in Seq(Words) /\ k # <<>> /\ k[1] = a
      BY <1>2, <2>1
    <3> QED
      BY <2>1, <3>1, Zenon
  <2> QED
    BY <1>1, <2>1 DEF EntryKeys, NumKey, NameKey, ClipKey, UserKey, Users
<1>5. \A k \in {SysKey, FirstKey, SecondKey} : k \in Seq(Words) /\ k # <<>> /\ Len(k) = 1
  BY <1>1, <1>3 DEF SysKey, FirstKey, SecondKey
<1>6. \A k \in EntryKeys : EntryKey(k) /\ k # Null
  <2> SUFFICES ASSUME NEW k \in EntryKeys PROVE EntryKey(k) /\ k # Null
    OBVIOUS
  <2>1. k \in Seq(Words) /\ k # <<>> /\ k[1] # "" /\ Len(k) = 2
    BY <1>4
  <2>2. Len(k) > 1
    <3>1. PICK n : n = Len(k)
      OBVIOUS
    <3>2. n = 2
      BY <2>1, <3>1, Zenon
    <3>3. n > 1
      BY <3>2
    <3> QED
      BY <3>1, <3>3, Zenon
  <2> QED
    BY <2>1, <2>2, IniAssumption, Zenon DEF EntryKey, Keys
<1>7. \A k \in {SysKey, FirstKey, SecondKey} : k \in Keys /\ k # Null /\ k \notin EntryKeys
  <2> SUFFICES ASSUME NEW k \in {SysKey, FirstKey, SecondKey}
               PROVE  k \in Keys /\ k # Null /\ k \notin EntryKeys
    OBVIOUS
  <2>1. k \in Seq(Words) /\ k # <<>> /\ Len(k) = 1
    BY <1>5
  <2>2. k \notin EntryKeys
    <3>1. PICK n : n = Len(k)
      OBVIOUS
    <3>2. n = 1 /\ (k \in EntryKeys => n = 2)
      BY <1>4, <2>1, <3>1, Zenon
    <3> QED
      BY <3>2
  <2> QED
    BY <2>1, <2>2, IniAssumption, Zenon DEF Keys
<1>8. SysKey[1] = "sys" /\ FirstKey[1] = "u0" /\ SecondKey[1] = "u1"
  BY <1>1, <1>3 DEF SysKey, FirstKey, SecondKey
<1>9. /\ NumKey[1] = "sys" /\ NumKey[2] = "num" /\ NameKey[1] = "sys" /\ NameKey[2] = "name"
      /\ ClipKey[1] = "clip" /\ \A u \in Users : UserKey(u)[1] = u /\ u # "sys"
  BY <1>1, <1>2 DEF NumKey, NameKey, ClipKey, UserKey, Users
<1>10. SysKey # FirstKey /\ SysKey # SecondKey /\ FirstKey # SecondKey
  BY <1>8
<1>11. NumKey # NameKey /\ NumKey # ClipKey /\ \A u \in Users : NumKey # UserKey(u)
  BY <1>9
<1>12. <<NumKey[1]>> = SysKey /\ <<NameKey[1]>> = SysKey
  BY <1>9 DEF SysKey
<1>13. \A u \in Users : <<UserKey(u)[1]>> = <<u>> /\ <<u>> \in {FirstKey, SecondKey}
  BY <1>9 DEF Users, FirstKey, SecondKey
<1>14. \A u \in Users : UserKey(u) # NameKey
  BY <1>9
<1> QED
  BY <1>6, <1>7, <1>10, <1>11, <1>12, <1>13, <1>14

(* The entries that handlers ask for are there, with their sections.       *)
Named(d) ==
  /\ Has(d, SysKey) /\ Has(d, NameKey)
  /\ \A u \in Users : Has(d, <<u>>) => Has(d, UserKey(u))

(* user_num counts the users' sections.                                    *)
CountOf(d) == (IF Has(d, FirstKey) THEN 1 ELSE 0) + (IF Has(d, SecondKey) THEN 1 ELSE 0)
Counted(d) == NumOf(d) = CountOf(d)

(* The number is found under its key alone.                                *)
LEMMA NumOfSame ==
  ASSUME NEW d, NEW e, \A def : dictionary_get(e, NumKey, def) = dictionary_get(d, NumKey, def)
  PROVE  NumOf(e) = NumOf(d)
<1>1. dictionary_get(e, NumKey, Plain(1)) = dictionary_get(d, NumKey, Plain(1))
  OBVIOUS
<1> QED
  BY <1>1 DEF NumOf

(* What setting a key changes.                                             *)
Changes(d, e, k, v) ==
  /\ Named(d) /\ k \in EntryKeys => Named(e)
  /\ k # NumKey => NumOf(e) = NumOf(d)
  /\ k \notin {FirstKey, SecondKey} => CountOf(e) = CountOf(d)
  /\ k \in {FirstKey, SecondKey} /\ ~Has(d, k) => CountOf(e) = CountOf(d) + 1
  /\ k = NumKey /\ v # Torn => NumOf(e) = v.text
  /\ Has(e, k)
  /\ \A l : l # Null /\ l # k => (Has(e, l) <=> Has(d, l))

(* dictionary_set changes no more.                                         *)
LEMMA SetEffects ==
  ASSUME NEW d, Holds(d), NEW k, k # Null, NEW v
  PROVE  Changes(d, dictionary_set(d, k, v), k, v)
<1>0. PICK e : e = dictionary_set(d, k, v)
  OBVIOUS
<1>1. /\ Has(e, k) /\ \A def : dictionary_get(e, k, def) = v
      /\ SameBut(d, e, k)
  BY <1>0, DictionarySet DEF Holds
<1>2. \A l : l # Null /\ l # k =>
        (Has(e, l) <=> Has(d, l)) /\ \A def : dictionary_get(e, l, def) = dictionary_get(d, l, def)
  BY <1>1 DEF SameBut
<1>3. \A l : l # Null /\ Has(d, l) => Has(e, l)
  BY <1>1, <1>2
<1>4. /\ SysKey # Null /\ FirstKey # Null /\ SecondKey # Null /\ NameKey # Null /\ NumKey # Null
      /\ FirstKey # SecondKey
      /\ \A u \in Users : UserKey(u) # Null /\ <<u>> # Null /\ <<u>> \notin EntryKeys
  BY KeyFacts DEF EntryKeys
<1>5. Named(d) /\ k \in EntryKeys => Named(e)
  <2> SUFFICES ASSUME Named(d), k \in EntryKeys PROVE Named(e)
    OBVIOUS
  <2>1. ASSUME NEW u \in Users, Has(e, <<u>>) PROVE Has(e, UserKey(u))
    <3>1. Has(d, <<u>>)
      BY <1>2, <1>4, <2>1
    <3> QED
      BY <1>3, <1>4, <3>1 DEF Named
  <2> QED
    BY <1>3, <1>4, <2>1 DEF Named
<1>6. k # NumKey => NumOf(e) = NumOf(d)
  BY <1>2, <1>4, NumOfSame
<1>7. k \notin {FirstKey, SecondKey} => CountOf(e) = CountOf(d)
  BY <1>2, <1>4 DEF CountOf
<1>8. k \in {FirstKey, SecondKey} /\ ~Has(d, k) => CountOf(e) = CountOf(d) + 1
  BY <1>1, <1>2, <1>4 DEF CountOf
<1>9. k = NumKey /\ v # Torn => NumOf(e) = v.text
  BY <1>1 DEF NumOf
<1>10. Changes(d, e, k, v)
  BY <1>1, <1>2, <1>5, <1>6, <1>7, <1>8, <1>9 DEF Changes
<1> QED
  BY <1>0, <1>10

(* What adding a user changes.                                             *)
AddUser(d, u, v) == dictionary_set(dictionary_set(d, <<u>>, Null), UserKey(u), v)

Added(d, e, u) ==
  /\ Named(d) => Named(e)
  /\ NumOf(e) = NumOf(d)
  /\ ~Has(d, <<u>>) => CountOf(e) = CountOf(d) + 1

LEMMA AddEffects ==
  ASSUME NEW d, Holds(d), NEW u \in Users, NEW v
  PROVE  Added(d, AddUser(d, u, v), u)
<1>0. /\ <<u>> # Null /\ UserKey(u) # Null /\ <<u>> \in {FirstKey, SecondKey} /\ <<u>> \in Keys
      /\ UserKey(u) \in EntryKeys /\ UserKey(u) # NumKey /\ <<u>> # NumKey
      /\ UserKey(u) \notin {FirstKey, SecondKey}
      /\ SysKey # Null /\ NameKey # Null
      /\ SysKey # UserKey(u) /\ NameKey # UserKey(u) /\ SysKey # <<u>> /\ NameKey # <<u>>
  BY KeyFacts DEF EntryKeys
<1>1. PICK a : a = dictionary_set(d, <<u>>, Null)
  OBVIOUS
<1>2. PICK e : e = dictionary_set(a, UserKey(u), v)
  OBVIOUS
<1>3. Len(<<u>>) = 1
  OBVIOUS
<1>4. Null \in ValuesOf(<<u>>)
  BY <1>3 DEF ValuesOf
<1>5. Holds(a) /\ Changes(d, a, <<u>>, Null)
  BY <1>0, <1>1, <1>4, SetHolds, SetEffects
<1>6. Changes(a, e, UserKey(u), v)
  BY <1>0, <1>2, <1>5, SetEffects
<1>7. NumOf(e) = NumOf(d)
  BY <1>0, <1>5, <1>6 DEF Changes
<1>8. ~Has(d, <<u>>) => CountOf(e) = CountOf(d) + 1
  BY <1>0, <1>5, <1>6 DEF Changes
<1>9. ASSUME Named(d) PROVE Named(e)
  <2>1. Has(e, SysKey) /\ Has(e, NameKey)
    BY <1>0, <1>5, <1>6, <1>9 DEF Changes, Named
  <2>2. ASSUME NEW w \in Users, Has(e, <<w>>) PROVE Has(e, UserKey(w))
    <3>1. CASE w = u
      BY <1>6, <3>1 DEF Changes
    <3>2. CASE w # u
      <4>1. /\ <<w>> # Null /\ UserKey(w) # Null /\ <<w>> # UserKey(u) /\ UserKey(w) # <<u>>
            /\ <<UserKey(w)[1]>> = <<w>> /\ <<UserKey(u)[1]>> = <<u>>
        BY KeyFacts DEF EntryKeys
      <4>2. <<w>> # <<u>>
        BY <3>2
      <4>3. UserKey(w) # UserKey(u)
        BY <4>1, <4>2
      <4>4. Has(d, <<w>>)
        BY <1>5, <1>6, <2>2, <4>1, <4>2 DEF Changes
      <4>5. Has(d, UserKey(w))
        BY <1>9, <4>4 DEF Named
      <4> QED
        BY <1>5, <1>6, <4>1, <4>3, <4>5 DEF Changes
    <3> QED
      BY <3>1, <3>2
  <2> QED
    BY <2>1, <2>2 DEF Named
<1> QED
  BY <1>1, <1>2, <1>7, <1>8, <1>9 DEF Added, AddUser

(* What unsetting a user's section changes.                                *)
LEMMA UnsetEffects ==
  ASSUME NEW d, Holds(d), NEW u \in Users, NEW e, e = dictionary_unset(d, <<u>>)
  PROVE  /\ Named(d) => Named(e)
         /\ NumOf(e) = NumOf(d)
         /\ Has(d, <<u>>) => CountOf(e) = CountOf(d) - 1
<1>0. /\ SysKey # Null /\ FirstKey # Null /\ SecondKey # Null /\ NameKey # Null /\ NumKey # Null
      /\ FirstKey # SecondKey /\ <<u>> \in {FirstKey, SecondKey}
      /\ SysKey # <<u>> /\ NumKey # <<u>> /\ NameKey # <<u>>
      /\ \A w \in Users : <<w>> # Null /\ UserKey(w) # Null /\ UserKey(w) # <<u>>
  BY KeyFacts DEF EntryKeys
<1>1. ~Has(e, <<u>>) /\ SameBut(d, e, <<u>>)
  BY <1>0, DictionaryUnset DEF Holds
<1>2. \A l : l # Null /\ l # <<u>> =>
        (Has(e, l) <=> Has(d, l)) /\ \A def : dictionary_get(e, l, def) = dictionary_get(d, l, def)
  BY <1>1 DEF SameBut
<1>3. Named(d) => Named(e)
  BY <1>0, <1>1, <1>2 DEF Named
<1>4. NumOf(e) = NumOf(d)
  BY <1>0, <1>2, NumOfSame
<1>5. Has(d, <<u>>) => CountOf(e) = CountOf(d) - 1
  BY <1>0, <1>1, <1>2 DEF CountOf
<1> QED
  BY <1>3, <1>4, <1>5

(* Values without a backslash at the end.                                  *)
LEMMA StraightKeys ==
  ASSUME NEW d, Holds(d)
  PROVE  Straight(d) <=> \A k \in Keys : Has(d, k) => ~Is(Get(d, k), "continued")
<1>1. ASSUME Straight(d), NEW k \in Keys, Has(d, k) PROVE ~Is(Get(d, k), "continued")
  <2>1. k # Null
    BY IniAssumption DEF Keys
  <2>2. Find(d, k) \in Slots(d) /\ d.key[Find(d, k)] = k
    BY <1>1, <2>1, FindSlot DEF Holds
  <2>3. Find(d, k) \in Used(d)
    BY <2>1, <2>2 DEF Used
  <2>4. d.val[Find(d, k)] = Get(d, k)
    BY <2>2, <2>3, SlotHolds
  <2> QED
    BY <1>1, <2>3, <2>4 DEF Straight
<1>2. ASSUME \A k \in Keys : Has(d, k) => ~Is(Get(d, k), "continued") PROVE Straight(d)
  <2>1. ASSUME NEW i \in Used(d) PROVE ~Is(d.val[i], "continued")
    <3>1. d.key[i] \in Keys /\ d.val[i] = Get(d, d.key[i]) /\ i \in Slots(d)
      BY SlotHolds
    <3>2. Has(d, d.key[i])
      BY <3>1 DEF Has
    <3> QED
      BY <1>2, <3>1, <3>2
  <2> QED
    BY <2>1 DEF Straight
<1> QED
  BY <1>1, <1>2

LEMMA SetStraight ==
  ASSUME NEW d, Holds(d), Straight(d), NEW k \in Keys, NEW v \in ValuesOf(k), ~Is(v, "continued")
  PROVE  Straight(dictionary_set(d, k, v))
<1>1. PICK e : e = dictionary_set(d, k, v)
  OBVIOUS
<1>2. k # Null
  BY IniAssumption DEF Keys
<1>3. Holds(e) /\ Get(e, k) = v /\ SameBut(d, e, k)
  BY <1>1, <1>2, SetHolds, DictionarySet DEF Holds, Get
<1>4. ASSUME NEW l \in Keys, Has(e, l) PROVE ~Is(Get(e, l), "continued")
  <2>1. l # Null
    BY IniAssumption DEF Keys
  <2>2. l # k => Has(d, l) /\ Get(e, l) = Get(d, l)
    BY <1>3, <1>4, <2>1 DEF SameBut, Get
  <2> QED
    BY <1>3, <2>2, StraightKeys
<1>5. Straight(e)
  BY <1>3, <1>4, StraightKeys
<1> QED
  BY <1>1, <1>5

LEMMA UnsetStraight ==
  ASSUME NEW d, Holds(d), Straight(d), NEW k \in Keys
  PROVE  Straight(dictionary_unset(d, k))
<1>1. PICK e : e = dictionary_unset(d, k)
  OBVIOUS
<1>2. k # Null
  BY IniAssumption DEF Keys
<1>3. Holds(e) /\ ~Has(e, k) /\ SameBut(d, e, k)
  BY <1>1, <1>2, UnsetHolds, DictionaryUnset DEF Holds
<1>4. ASSUME NEW l \in Keys, Has(e, l) PROVE ~Is(Get(e, l), "continued")
  <2>1. l # Null
    BY IniAssumption DEF Keys
  <2>2. l # k
    BY <1>3, <1>4
  <2>3. Has(d, l) /\ Get(e, l) = Get(d, l)
    BY <1>3, <1>4, <2>1, <2>2 DEF SameBut, Get
  <2> QED
    BY <2>3, StraightKeys
<1>5. Straight(e)
  BY <1>3, <1>4, StraightKeys
<1> QED
  BY <1>1, <1>5

(* What survives a save and a load.                                        *)
LEMMA RestoredEffects ==
  ASSUME NEW d, Holds(d), NEW e, Restored(e, d), Named(d)
  PROVE  Named(e) /\ NumOf(e) = NumOf(d) /\ CountOf(e) = CountOf(d)
<1>0. /\ EntryKey(NameKey) /\ EntryKey(NumKey) /\ NumKey # Null
      /\ <<NumKey[1]>> = SysKey /\ <<NameKey[1]>> = SysKey
  BY KeyFacts DEF EntryKeys
<1>1. \A s \in Words : Has(e, <<s>>) <=> Has(d, <<s>>)
  BY Zenon DEF Restored
<1>2. "sys" \in Words /\ "u0" \in Words /\ "u1" \in Words
  BY DEF Words
<1>3. (Has(e, SysKey) <=> Has(d, SysKey)) /\ (Has(e, FirstKey) <=> Has(d, FirstKey))
      /\ (Has(e, SecondKey) <=> Has(d, SecondKey))
  BY <1>1, <1>2, Zenon DEF SysKey, FirstKey, SecondKey
<1>4. Has(d, SysKey) /\ Has(d, NameKey)
  BY DEF Named
<1>5. Has(e, NameKey)
  BY <1>0, <1>4, Zenon DEF Restored
<1>6. /\ Has(e, NumKey) <=> Has(d, NumKey)
      /\ Get(e, NumKey) = iniparser_line(Get(d, NumKey))
  BY <1>0, <1>4, Zenon DEF Restored
<1>7. NumOf(e) = NumOf(d)
  <2>1. CASE ~Has(d, NumKey)
    BY <1>6, <2>1 DEF NumOf, dictionary_get
  <2>2. CASE Has(d, NumKey)
    <3>1. PICK v : v = Get(d, NumKey)
      OBVIOUS
    <3>2. v \in Values
      BY <1>0, <2>2, <3>1, NumKeyHolds DEF Holds
    <3>3. /\ dictionary_get(d, NumKey, Plain(1)) = v
          /\ dictionary_get(e, NumKey, Plain(1)) = iniparser_line(v)
      BY <1>6, <2>2, <3>1 DEF Get, dictionary_get
    <3>4. CASE v = Torn
      BY <3>3, <3>4 DEF NumOf, iniparser_line
    <3>5. CASE v # Torn
      <4>1. v \in [text : Int, form : Forms]
        BY <3>2, <3>5 DEF Values
      <4>2. v # Null /\ iniparser_line(v) = Plain(v.text)
        BY <3>5, <4>1, IniAssumption DEF iniparser_line
      <4>3. Plain(v.text) \in [text : Int, form : Forms] /\ Plain(v.text).text = v.text
        BY <4>1 DEF Plain, Value, Forms
      <4>4. Plain(v.text) # Torn
        BY <4>3, IniAssumption
      <4> QED
        BY <3>3, <3>5, <4>2, <4>3, <4>4 DEF NumOf
    <3> QED
      BY <3>4, <3>5
  <2> QED
    BY <2>1, <2>2
<1>8. CountOf(e) = CountOf(d)
  BY <1>3 DEF CountOf
<1>9. ASSUME NEW u \in Users, Has(e, <<u>>) PROVE Has(e, UserKey(u))
  <2>1. u \in Words /\ EntryKey(UserKey(u)) /\ <<UserKey(u)[1]>> = <<u>>
    BY KeyFacts DEF EntryKeys, Users, Words
  <2>2. Has(d, <<u>>)
    BY <1>1, <1>9, <2>1
  <2>3. Has(d, UserKey(u))
    BY <2>2 DEF Named
  <2> QED
    BY <2>1, <2>2, <2>3, Zenon DEF Restored
<1> QED
  BY <1>3, <1>4, <1>5, <1>7, <1>8, <1>9 DEF Named

(* The factory's parameters have the name and one user.                    *)
LEMMA FactoryLoaded == Named(iniparser_load(Factory)) /\ Counted(iniparser_load(Factory))
<1>0. PICK f : f = Factory
  OBVIOUS
<1>1. f \in Seq(Line) /\ iniparser_load(f) = LoadLines(f)
  BY <1>0, FactoryLines
<1>2. Len(f) \in Nat /\ \A i \in 1..Len(f) : f[i] \in Line
  BY <1>1
<1>3. PICK h : Steps(f, h) /\ iniparser_load(f) = h[Len(f)].d
  BY <1>1, <1>2, Loading
<1>4. PICK e : e = iniparser_load(f)
  OBVIOUS
<1>5. Reads(f, h, e)
  BY <1>2, <1>3, <1>4, Found
<1>6. /\ Len(f) = 5 /\ f[1] = Section("sys") /\ f[2] = Entry(<<"name">>, Plain(1))
      /\ f[3] = Entry(<<"num">>, Plain(1)) /\ f[4] = Section("u0")
      /\ f[5] = Entry(<<"name">>, Plain(1))
  <2>1. \A a, b, c, d, g : LET t == <<a, b, c, d, g>>
                           IN  Len(t) = 5 /\ t[1] = a /\ t[2] = b /\ t[3] = c /\ t[4] = d /\ t[5] = g
    OBVIOUS
  <2> QED
    BY <1>0, <2>1, Zenon DEF Factory
<1>7. /\ f[1].kind = "section" /\ f[1].name = SysKey /\ f[4].kind = "section" /\ f[4].name = FirstKey
  BY <1>6 DEF Section, SysKey, FirstKey
<1>8. /\ f[3].kind = "entry" /\ f[3].name = <<"num">> /\ f[3].val = Plain(1)
      /\ f[2].kind = "entry" /\ f[2].name = <<"name">>
      /\ f[5].kind = "entry" /\ f[5].name = <<"name">>
  <2>1. \A n, v : Entry(n, v).kind = "entry" /\ Entry(n, v).name = n /\ Entry(n, v).val = v
    BY DEF Entry
  <2>2. PICK n : n = <<"num">>
    OBVIOUS
  <2>3. PICK m : m = <<"name">>
    OBVIOUS
  <2>4. f[3] = Entry(n, Plain(1)) /\ f[2] = Entry(m, Plain(1)) /\ f[5] = Entry(m, Plain(1))
    BY <1>6, <2>2, <2>3, Zenon
  <2>5. /\ f[3].kind = "entry" /\ f[3].name = n /\ f[3].val = Plain(1)
        /\ f[2].kind = "entry" /\ f[2].name = m /\ f[5].kind = "entry" /\ f[5].name = m
    BY <2>1, <2>4
  <2> QED
    BY <2>2, <2>3, <2>5, Zenon
<1>9. 1..Len(f) = {1, 2, 3, 4, 5} /\ 2 - 1 = 1 /\ 3 - 1 = 2 /\ 5 - 1 = 4
  <2>1. PICK n : n = Len(f)
    OBVIOUS
  <2>2. n = 5
    BY <1>6, <2>1
  <2> QED
    BY <2>1, <2>2
<1>10. h[1].sec = SysKey /\ h[2].sec = SysKey /\ h[4].sec = FirstKey
  <2>1. ASSUME NEW i \in 1..Len(f)
        PROVE  h[i].sec = IF f[i].kind = "section" THEN f[i].name ELSE h[i - 1].sec
    BY <1>2, <1>3, LineSets
  <2> QED
    BY <1>7, <1>8, <1>9, <2>1
<1>11. /\ SysKey \o <<"num">> = NumKey /\ SysKey \o <<"name">> = NameKey
       /\ FirstKey \o <<"name">> = UserKey("u0")
  <2>1. ASSUME NEW a \in Words, NEW b \in Words PROVE <<a>> \o <<b>> = <<a, b>>
    <3>0. \A i \in 1..2 : i = 1 \/ i = 2
      OBVIOUS
    <3>1. <<a>> \in Seq(Words) /\ Len(<<a>>) = 1 /\ <<a>>[1] = a
      OBVIOUS
    <3>2. <<b>> \in Seq(Words) /\ Len(<<b>>) = 1 /\ <<b>>[1] = b
      OBVIOUS
    <3>3. <<a, b>> \in Seq(Words) /\ Len(<<a, b>>) = 2 /\ <<a, b>>[1] = a /\ <<a, b>>[2] = b
      OBVIOUS
    <3>4. PICK x \in Seq(Words) : x = <<a>> /\ Len(x) = 1 /\ x[1] = a
      BY <3>1, Zenon
    <3>5. PICK y \in Seq(Words) : y = <<b>> /\ Len(y) = 1 /\ y[1] = b
      BY <3>2, Zenon
    <3>6. PICK z \in Seq(Words) : z = <<a, b>> /\ Len(z) = 2 /\ z[1] = a /\ z[2] = b
      BY <3>3, Zenon
    <3>7. PICK c \in Seq(Words) : c = x \o y /\ Len(c) = Len(x) + Len(y)
                                 /\ \A i \in 1..(Len(x) + Len(y)) :
                                      c[i] = IF i <= Len(x) THEN x[i] ELSE y[i - Len(x)]
      <4>1. /\ x \o y \in Seq(Words) /\ Len(x \o y) = Len(x) + Len(y)
            /\ \A i \in 1..(Len(x) + Len(y)) :
                 (x \o y)[i] = IF i <= Len(x) THEN x[i] ELSE y[i - Len(x)]
        BY ConcatProperties, Zenon
      <4> QED
        BY <4>1, Zenon
    <3>8. Len(c) = 2 /\ c[1] = a /\ c[2] = b
      BY <3>4, <3>5, <3>7
    <3>9. c = z
      BY <3>0, <3>6, <3>8, SeqEqual
    <3> QED
      BY <3>4, <3>5, <3>6, <3>7, <3>9, Zenon
  <2>2. "sys" \in Words /\ "num" \in Words /\ "name" \in Words /\ "u0" \in Words
    BY DEF Words
  <2> QED
    BY <2>1, <2>2, Zenon DEF SysKey, NumKey, NameKey, FirstKey, UserKey
<1>12. /\ LineKey(f, h, 1) = SysKey /\ LineKey(f, h, 2) = NameKey /\ LineKey(f, h, 3) = NumKey
       /\ LineKey(f, h, 4) = FirstKey /\ LineKey(f, h, 5) = UserKey("u0")
  BY <1>7, <1>8, <1>9, <1>10, <1>11 DEF LineKey
<1>13. /\ SysKey # Null /\ NumKey # Null /\ NameKey # Null /\ FirstKey # Null /\ SecondKey # Null
       /\ NumKey # SysKey /\ NumKey # NameKey /\ NumKey # FirstKey
       /\ SecondKey \notin {SysKey, NumKey, NameKey, FirstKey}
       /\ UserKey("u0") # Null /\ UserKey("u0") # NumKey /\ UserKey("u0") # SecondKey
  BY KeyFacts DEF EntryKeys, Users
<1>14. Has(e, SysKey) /\ Has(e, NumKey) /\ Has(e, NameKey) /\ Has(e, FirstKey) /\ Has(e, UserKey("u0"))
  BY <1>5, <1>9, <1>12, <1>13 DEF Reads
<1>15. ~Has(e, SecondKey)
  BY <1>5, <1>9, <1>12, <1>13 DEF Reads
<1>16. Get(e, NumKey) = Plain(1)
  <2>1. PICK j \in 1..Len(f) : LineKey(f, h, j) = NumKey /\ Get(e, NumKey) = LineVal(f, j)
    BY <1>5, <1>13, <1>14, Zenon DEF Reads
  <2>2. j = 3
    BY <1>9, <1>12, <1>13, <2>1
  <2>3. LineVal(f, 3) = iniparser_line(Plain(1))
    BY <1>8 DEF LineVal
  <2>4. Plain(1) \in [text : Int, form : Forms] /\ Plain(1).text = 1
    BY DEF Plain, Value, Forms
  <2>5. iniparser_line(Plain(1)) = Plain(1)
    BY <2>4, IniAssumption DEF iniparser_line
  <2> QED
    BY <2>1, <2>2, <2>3, <2>5
<1>17. NumOf(e) = 1
  <2>1. dictionary_get(e, NumKey, Plain(1)) = Plain(1)
    BY <1>14, <1>16 DEF Get, dictionary_get
  <2>2. Plain(1) \in [text : Int, form : Forms] /\ Plain(1).text = 1
    BY DEF Plain, Value, Forms
  <2> QED
    BY <2>1, <2>2, IniAssumption DEF NumOf
<1>18. CountOf(e) = 1
  BY <1>14, <1>15 DEF CountOf
<1>19. \A u \in Users : Has(e, <<u>>) => Has(e, UserKey(u))
  BY <1>14, <1>15 DEF Users, SecondKey
<1> QED
  BY <1>0, <1>4, <1>14, <1>17, <1>18, <1>19 DEF Named, Counted

-----------------------------------------------------------------------------
(* The second invariant: how the dictionary, the file and the history      *)
(* belong together                                                         *)

Writes(c) == pc[c] \in {"adding", "deleting"}

(* The parameters are fresh while main is up, the end of the last process  *)
(* is forgotten with the first request; a thread is where its request has  *)
(* led it.                                                                 *)
HistOK ==
  /\ hist.damage \in BOOLEAN /\ hist.fresh \in BOOLEAN
  /\ hist.odd \in BOOLEAN /\ hist.misuse \in BOOLEAN
  /\ hist.fresh => main = "up"
  /\ main = "up" /\ hist.end # "none" => \A c \in Conns : ~Busy(c)
  /\ \A c \in Conns :
       /\ pc[c] \in {"get", "use"} => req[c].op = "get"
       /\ pc[c] = "set" => req[c].op = "set"
       /\ pc[c] \in {"add", "adding"} => req[c].op = "add"
       /\ pc[c] \in {"del", "deleting"} => req[c].op = "del"
       /\ pc[c] \in {"num_get", "num_set"} => req[c].op \in {"add", "del"}

(* What was saved was a dictionary.                                        *)
SavedOK == hist.saved = Null \/ Holds(hist.saved)

(* The history knows what is being asked, and so whether a value can end   *)
(* in a backslash.                                                         *)
Meant ==
  \A c \in Conns : Busy(c) =>
    /\ ~hist.odd => ~Is(req[c].val, "continued")
    /\ ~hist.misuse => ~(req[c].op = "set" /\ req[c].key = NumKey)
StraightOK == ~hist.odd => Straight(dict)

(* While somebody saves, the file is empty or holds the very lines that he *)
(* is going to write: two who save write the same.                         *)
SameLines == Saving => file = <<>> \/ (file = Lines /\ \A c \in Conns : ~Writes(c))

(* Unless a save was damaged or a value takes the next line with it there  *)
(* is a dictionary, and it and the file have the names that handlers ask   *)
(* for; or the file cannot be read, and the factory's takes its place.     *)
NameInMemory == main \notin {"init", "exited"} => ptr # "null" /\ Named(dict)
NameInFile == ~Saving => Unreadable(file) \/ Named(iniparser_load(file))
AskedInVain ==
  \E u \in Users : ~Has(dict, <<u>>) /\ \E c \in Conns : pc[c] = "get" /\ req[c].key = UserKey(u)
KeepsName ==
  ~hist.damage /\ ~hist.odd => NameInMemory /\ NameInFile /\ (ub = "null" => AskedInVain)

(* Who saves alone finds the file as fopen left it.                        *)
AloneSaves ==
  ~hist.overlap =>
    /\ Saving => file = <<>>
    /\ main \in {"open", "dump", "free"} => ptr = "live"

(* What the parameters have of what was being saved at a crash or was lost *)
(* in part when the power failed.                                          *)
TornFrom(d, s) ==
  \/ \A k \in EntryKeys : Get(d, k) = Get(FactoryDict, k)
  \/ /\ \A k \in EntryKeys : Get(d, k) \in {Null, Torn, iniparser_line(Get(s, k))}
     /\ \A k, l \in EntryKeys :
          /\ Get(d, k) = Torn /\ Get(s, k) # Torn
          /\ Get(d, l) = Torn /\ Get(s, l) # Torn
          => k = l

TornKept ==
  ~hist.overlap /\ hist.end = "torn" =>
    /\ Holds(hist.saved)
    /\ \/ main = "init" /\ file \in Partial(iniparser_dump_ini(hist.saved))
       \/ main = "up" /\ (hist.fresh /\ Straight(hist.saved) => TornFrom(dict, hist.saved))

(* The same for what was saved before a stop.                              *)
KeptFrom(d, s) ==
  \A k \in EntryKeys :
    Get(d, k) = IF Has(s, <<k[1]>>) THEN iniparser_line(Get(s, k)) ELSE Null

CleanKept ==
  ~hist.overlap /\ hist.end = "clean" =>
    /\ Holds(hist.saved)
    /\ \/ main \in {"free", "leave", "exited", "init"} /\ file = iniparser_dump_ini(hist.saved)
       \/ main = "up" /\ (Fits(hist.saved) => KeptFrom(dict, hist.saved))

(* user_num is wrong only between the change of a user and its own update, *)
(* by that user, and never in the file.                                    *)
UserThread(c) ==
  /\ pc[c] \in {"add", "adding"} => ~Has(dict, <<req[c].key[1]>>)
  /\ pc[c] \in {"del", "deleting"} => Has(dict, <<req[c].key[1]>>)
  /\ pc[c] \in {"num_get", "num_set"} =>
       CountOf(dict) = IF req[c].op = "add" THEN NumOf(dict) + 1 ELSE NumOf(dict) - 1
  /\ pc[c] = "num_set" => num[c] = NumOf(dict)

CountInMemory ==
  main \notin {"init", "exited"} /\ (\A c \in Conns : pc[c] \notin {"num_get", "num_set"}) =>
    Counted(dict)
CountInFile == ~Saving => Unreadable(file) \/ Counted(iniparser_load(file))

Proper == ~hist.overlap /\ ~hist.damage /\ ~hist.odd /\ ~hist.misuse
UsersCounted == Proper => CountInMemory /\ CountInFile /\ \A c \in Conns : UserThread(c)

SInv ==
  /\ HistOK /\ SavedOK /\ Meant /\ StraightOK
  /\ SameLines /\ KeepsName /\ AloneSaves
  /\ TornKept /\ CleanKept /\ UsersCounted

(* The keys that requests are about.                                       *)
LEMMA RequestKeys ==
  ASSUME NEW r \in Requests
  PROVE  /\ r.op = "get" => r.key = NameKey \/ \E u \in Users : r.key = UserKey(u)
         /\ r.op = "set" => r.key \in {NameKey, ClipKey, NumKey}
         /\ r.op \in {"add", "del"} => \E u \in Users : r.key = UserKey(u)
<1> DEFINE names == {UserKey(u) : u \in Users}
<1>1. CASE r \in [op : {"get"}, key : {NameKey} \union names, val : {Null}]
  BY <1>1
<1>2. CASE r \in [op : {"set"}, key : {NameKey}, val : {Value(2, f) : f \in Forms \ {"plain"}}]
  BY <1>2
<1>3. CASE r \in [op : {"set"}, key : {ClipKey, NumKey}, val : {Plain(2)}]
  BY <1>3
<1>4. CASE r \in [op : {"add", "del"}, key : names, val : {Plain(3)}]
  BY <1>4
<1> QED
  BY <1>1, <1>2, <1>3, <1>4 DEF Requests

(* What the guards of the accesses rule out.                               *)
LEMMA HazardFacts ==
  /\ \A c \in Conns : Hazard(c, "write") = "none" =>
       ptr # "freed" /\ main # "dump" /\ \A y \in Conns \ {c} : ~Writes(y) /\ pc[y] # "dump"
  /\ \A c \in Conns : Hazard(c, "read") = "none" => ptr # "freed" /\ \A y \in Conns \ {c} : ~Writes(y)
  /\ Hazard("main", "write") = "none" =>
       ptr # "freed" /\ \A y \in Conns : ~Writes(y) /\ pc[y] # "dump"
  /\ Hazard("main", "read") = "none" => ptr # "freed" /\ \A y \in Conns : ~Writes(y)
<1>1. "main" \notin Conns
  BY ParamAssumption
<1> QED
  BY <1>1 DEF Hazard, Others, Writing, Reading, Writes

(* What is left of the lines of those who save.                            *)
LEMMA SavedLines ==
  ASSUME SameLines, DictOK, Saving, NEW f \in Overwrite(Lines, file)
  PROVE  f = Lines
<1>1. Len(Lines) \in Nat /\ Len(<<>>) = 0
  BY LinesWritten
<1>2. file = <<>> \/ file = Lines
  BY DEF SameLines
<1>3. Len(file) <= Len(Lines)
  BY <1>1, <1>2
<1> QED
  BY <1>3 DEF Overwrite

(* The initial state.                                                      *)
LEMMA InitSInv == Init => SInv
<1> SUFFICES ASSUME Init PROVE SInv
  OBVIOUS
<1>1. HistOK /\ SavedOK /\ Meant /\ SameLines /\ AloneSaves /\ TornKept /\ CleanKept
  BY DEF Init, HistOK, SavedOK, Meant, SameLines, AloneSaves, TornKept, CleanKept, Saving, Busy
<1>2. StraightOK
  <2>1. Used(dictionary_new) = {}
    BY DEF Used, Slots, dictionary_new
  <2> QED
    BY <2>1 DEF Init, StraightOK, Straight
<1>3. Unreadable(file) \/ (Named(iniparser_load(file)) /\ Counted(iniparser_load(file)))
  BY FactoryLoaded DEF Init, Unreadable
<1>4. KeepsName
  BY <1>3 DEF Init, KeepsName, NameInMemory, NameInFile
<1>5. UsersCounted
  BY <1>3 DEF Init, UsersCounted, CountInMemory, CountInFile, UserThread
<1> QED
  BY <1>1, <1>2, <1>4, <1>5 DEF SInv

(* The steps of a connection's thread and of main.                         *)
ConnStep(c) ==
  \/ Accept(c) \/ Disconnect(c) \/ GetString(c) \/ UseString(c) \/ SetString(c) \/ UserBegin(c)
  \/ UserEnd(c) \/ NumGet(c) \/ NumSet(c) \/ SaveOpen(c) \/ SaveFails(c) \/ SaveDump(c)
  \/ Undefined(c) \/ \E r \in Requests : Request(c, r)
MainStep ==
  \/ ParamInit \/ Stop \/ Deinit \/ DeinitOpen \/ DeinitOpenFails \/ DeinitDump \/ DeinitFree
  \/ Exit \/ Boot \/ Sync \/ Crash \/ PowerFails \/ BackgroundRead \/ BackgroundDone

(* A step of Next is one of these.                                         *)
LEMMA StepKinds ==
  ASSUME [Next]_vars
  PROVE  UNCHANGED vars \/ MainStep \/ \E c \in Conns : ConnStep(c)
BY Zenon DEF Next, Handler, Leaving, MainStep, ConnStep

(* Nothing is said of a process that got undefined.                        *)
LEMMA Frozen ==
  ASSUME [Next]_vars, ub # "none"
  PROVE  UNCHANGED vars
BY DEF Next

(* The two ways rk_param_save can go when fopen fails, and rk_param_deinit.*)
Fails(c) ==
  /\ ptr = "null" \/ Hazard(c, "write") = "none"
  /\ ptr' = "null" /\ ub' = ub
  /\ Invalidate(EntryKeys) /\ Answered(c)
  /\ hist' = [hist EXCEPT !.damage = TRUE]
OpenFails ==
  /\ ptr = "null" \/ Hazard("main", "write") = "none"
  /\ ptr' = "null" /\ ub' = ub
  /\ main' = "leave"
  /\ hist' = [hist EXCEPT !.damage = TRUE]
DumpsAll ==
  /\ Hazard("main", "read") = "none"
  /\ file' \in Overwrite(Lines, file)
  /\ main' = "free" /\ ub' = ub
  /\ hist' = [hist EXCEPT !.end = "clean", !.saved = dict]
Frees ==
  /\ ptr # "live" \/ Hazard("main", "write") = "none"
  /\ ptr' = (IF ptr = "null" THEN "null" ELSE "freed")
  /\ main' = "leave" /\ ub' = ub

(* Each of them happens, or is undefined and changes nothing else.         *)
LEMMA Branches ==
  /\ \A c \in Conns : SaveFails(c) =>
       /\ pc[c] = "open" /\ UNCHANGED <<dict, file, main>>
       /\ Fails(c) \/ (ub' \in {"race", "freed"} /\ UNCHANGED <<ptr, connVars, hist>>)
  /\ DeinitOpenFails =>
       /\ main = "open" /\ UNCHANGED <<dict, file, pc, req, num>>
       /\ OpenFails \/ (ub' \in {"race", "freed"} /\ UNCHANGED <<ptr, main, hist>>)
  /\ DeinitDump =>
       /\ main = "dump" /\ UNCHANGED <<ptr, dict, connVars>>
       /\ DumpsAll \/ (ub' \in {"race", "freed"} /\ UNCHANGED <<file, main, hist>>)
  /\ DeinitFree =>
       /\ main = "free" /\ UNCHANGED <<dict, file, pc, req, num, hist>>
       /\ Frees \/ (ub' \in {"race", "freed"} /\ UNCHANGED <<ptr, main>>)
<1>1. \A x, access : Hazard(x, access) # "none" => Hazard(x, access) \in {"race", "freed"}
  BY DEF Hazard
<1>2. ASSUME NEW c \in Conns, SaveFails(c)
      PROVE  /\ pc[c] = "open" /\ UNCHANGED <<dict, file, main>>
             /\ Fails(c) \/ (ub' \in {"race", "freed"} /\ UNCHANGED <<ptr, connVars, hist>>)
  BY <1>1, <1>2 DEF SaveFails, Fails
<1>3. ASSUME DeinitOpenFails
      PROVE  /\ main = "open" /\ UNCHANGED <<dict, file, pc, req, num>>
             /\ OpenFails \/ (ub' \in {"race", "freed"}
                               /\ UNCHANGED <<ptr, main, hist>>)
  BY <1>1, <1>3 DEF DeinitOpenFails, OpenFails
<1>4. ASSUME DeinitDump
      PROVE  /\ main = "dump" /\ UNCHANGED <<ptr, dict, connVars>>
             /\ DumpsAll \/ (ub' \in {"race", "freed"} /\ UNCHANGED <<file, main, hist>>)
  BY <1>1, <1>4 DEF DeinitDump, DumpsAll
<1>5. ASSUME DeinitFree
      PROVE  /\ main = "free" /\ UNCHANGED <<dict, file, pc, req, num, hist>>
             /\ Frees \/ (ub' \in {"race", "freed"} /\ UNCHANGED <<ptr, main>>)
  BY <1>1, <1>5 DEF DeinitFree, Frees
<1> QED
  BY <1>2, <1>3, <1>4, <1>5

(* The history and the places of the threads agree.                        *)
LEMMA HistKept ==
  ASSUME IInv, HistOK, [Next]_vars
  PROVE  HistOK'
<1>0. ConnTypes /\ ProcessTypes /\ NoProcess
  BY DEF IInv, Core
<1>1. CASE UNCHANGED vars
  BY <1>1 DEF vars, connVars, serverVars, HistOK, Busy
<1>2. ASSUME NEW c \in Conns, Accept(c) PROVE HistOK'
  BY <1>0, <1>2 DEF Accept, Goto, HistOK, Busy, ConnTypes, ProcessTypes, connVars, serverVars
<1>3. ASSUME NEW c \in Conns, Disconnect(c) PROVE HistOK'
  BY <1>0, <1>3 DEF Disconnect, Goto, HistOK, Busy, ConnTypes, ProcessTypes, connVars, serverVars
<1>4. ASSUME NEW c \in Conns, NEW r \in Requests, Request(c, r) PROVE HistOK'
  BY <1>0, <1>4, RequestFacts DEF Request, Goto, HistOK, Busy, ConnTypes, ProcessTypes
<1>5. ASSUME NEW c \in Conns, GetString(c) PROVE HistOK'
  BY <1>0, <1>5 DEF GetString, At, Goto, HistOK, Busy, ConnTypes, ProcessTypes, connVars, serverVars
<1>6. ASSUME NEW c \in Conns, UseString(c) PROVE HistOK'
  BY <1>0, <1>6 DEF UseString, At, Answered, Goto, HistOK, Busy, ConnTypes, ProcessTypes,
     connVars, serverVars
<1>7. ASSUME NEW c \in Conns, SetString(c) PROVE HistOK'
  BY <1>0, <1>7 DEF SetString, At, Answered, Goto, HistOK, Busy, ConnTypes, ProcessTypes,
     connVars, serverVars
<1>8. ASSUME NEW c \in Conns, UserBegin(c) PROVE HistOK'
  BY <1>0, <1>8 DEF UserBegin, At, Goto, HistOK, Busy, ConnTypes, ProcessTypes, connVars, serverVars
<1>9. ASSUME NEW c \in Conns, UserEnd(c) PROVE HistOK'
  BY <1>0, <1>9 DEF UserEnd, Goto, HistOK, Busy, ConnTypes, ProcessTypes, connVars, serverVars
<1>10. ASSUME NEW c \in Conns, NumGet(c) PROVE HistOK'
  BY <1>0, <1>10 DEF NumGet, At, Goto, HistOK, Busy, ConnTypes, ProcessTypes, connVars, serverVars
<1>11. ASSUME NEW c \in Conns, NumSet(c) PROVE HistOK'
  BY <1>0, <1>11 DEF NumSet, At, Goto, HistOK, Busy, ConnTypes, ProcessTypes, connVars, serverVars
<1>12. ASSUME NEW c \in Conns, SaveOpen(c) PROVE HistOK'
  BY <1>0, <1>12 DEF SaveOpen, Goto, HistOK, Busy, ConnTypes, ProcessTypes, connVars, serverVars
<1>13. ASSUME NEW c \in Conns, SaveFails(c) PROVE HistOK'
  <2>1. pc[c] = "open" /\ main' = main
    BY <1>13, Branches DEF Fails
  <2>2. CASE Fails(c)
    <3>1. pc' = [pc EXCEPT ![c] = "idle"] /\ req' = [req EXCEPT ![c] = NoRequest]
      BY <2>2 DEF Fails, Answered, Goto
    <3>2. /\ hist'.damage = TRUE /\ hist'.fresh = hist.fresh /\ hist'.end = hist.end
          /\ hist'.odd = hist.odd /\ hist'.misuse = hist.misuse
      BY <1>0, <2>2 DEF Fails, ProcessTypes
    <3> QED
      BY <1>0, <2>1, <3>1, <3>2 DEF HistOK, Busy, ConnTypes
  <2>3. CASE UNCHANGED <<ptr, connVars, hist>>
    BY <2>1, <2>3 DEF HistOK, Busy, connVars
  <2> QED
    BY <1>13, <2>2, <2>3, Branches
<1>14. ASSUME NEW c \in Conns, SaveDump(c) PROVE HistOK'
  BY <1>0, <1>14 DEF SaveDump, At, Answered, Goto, HistOK, Busy, ConnTypes, ProcessTypes,
     connVars, serverVars
<1>15. ASSUME NEW c \in Conns, Undefined(c) PROVE HistOK'
  BY <1>0, <1>15 DEF Undefined, HistOK, Busy, ConnTypes, ProcessTypes, connVars, serverVars
<1>16. ASSUME ParamInit PROVE HistOK'
  BY <1>0, <1>16 DEF ParamInit, HistOK, Busy, ConnTypes, ProcessTypes, NoProcess, connVars,
     serverVars
<1>17. ASSUME Stop PROVE HistOK'
  BY <1>0, <1>17 DEF Stop, HistOK, Busy, ConnTypes, ProcessTypes, NoProcess, connVars, serverVars
<1>18. ASSUME Deinit PROVE HistOK'
  BY <1>0, <1>18 DEF Deinit, HistOK, Busy, ConnTypes, ProcessTypes, NoProcess, connVars, serverVars
<1>19. ASSUME DeinitOpen PROVE HistOK'
  BY <1>0, <1>19 DEF DeinitOpen, HistOK, Busy, ConnTypes, ProcessTypes, NoProcess, connVars,
     serverVars
<1>20. ASSUME DeinitOpenFails PROVE HistOK'
  BY <1>0, <1>20 DEF DeinitOpenFails, HistOK, Busy, ConnTypes, ProcessTypes, NoProcess, connVars,
     serverVars
<1>21. ASSUME DeinitDump PROVE HistOK'
  BY <1>0, <1>21 DEF DeinitDump, HistOK, Busy, ConnTypes, ProcessTypes, NoProcess, connVars,
     serverVars
<1>22. ASSUME DeinitFree PROVE HistOK'
  BY <1>0, <1>22 DEF DeinitFree, HistOK, Busy, ConnTypes, ProcessTypes, NoProcess, connVars,
     serverVars
<1>23. ASSUME Exit PROVE HistOK'
  BY <1>0, <1>23 DEF Exit, ProcessEnds, HistOK, Busy, ConnTypes, ProcessTypes, NoProcess,
     connVars, serverVars
<1>24. ASSUME Boot PROVE HistOK'
  BY <1>0, <1>24 DEF Boot, HistOK, Busy, ConnTypes, ProcessTypes, NoProcess, connVars, serverVars
<1>25. ASSUME Crash \/ PowerFails PROVE HistOK'
  <2>1. /\ main' = "init" /\ pc' = [c \in Conns |-> "none"]
        /\ hist'.damage \in BOOLEAN /\ hist'.fresh = FALSE
        /\ hist'.odd = hist.odd /\ hist'.misuse = hist.misuse
    BY <1>0, <1>25 DEF Crash, PowerFails, Restart, ProcessEnds, ProcessTypes, HistOK
  <2> QED
    BY <2>1 DEF HistOK, Busy
<1>26. ASSUME Sync \/ BackgroundRead \/ BackgroundDone PROVE HistOK'
  BY <1>26 DEF Sync, BackgroundRead, BackgroundDone, HistOK, Busy, connVars
<1> QED
  BY StepKinds, <1>1, <1>2, <1>3, <1>4, <1>5, <1>6, <1>7, <1>8, <1>9, <1>10, <1>11, <1>12, <1>13,
     <1>14, <1>15, <1>16, <1>17, <1>18, <1>19, <1>20, <1>21, <1>22, <1>23, <1>24,
     <1>25, <1>26 DEF ConnStep, MainStep

(* A step that leaves the dictionary, the file and those who save alone.   *)
Quiet ==
  /\ UNCHANGED <<ptr, dict, file>>
  /\ main' = "dump" <=> main = "dump"
  /\ \A c \in Conns : (pc'[c] = "dump" <=> pc[c] = "dump") /\ (Writes(c)' => Writes(c))
  /\ hist'.damage = hist.damage
  /\ main = "init" => main' = "init"
  /\ main' \notin {"init", "exited"} => main \notin {"init", "exited"}
  /\ main' \in {"open", "dump", "free"} =>
       main \in {"open", "dump", "free"} \/ (main = "stop" /\ ptr # "null")

QuietConn(c) ==
  \/ Accept(c) \/ Disconnect(c) \/ GetString(c) \/ UseString(c) \/ NumGet(c) \/ Undefined(c)
  \/ (\E r \in Requests : Request(c, r))
  \/ SaveFails(c) /\ ~Fails(c)
QuietMain ==
  \/ UNCHANGED vars \/ Stop \/ Deinit \/ Boot \/ Sync \/ BackgroundRead \/ BackgroundDone
  \/ DeinitOpenFails /\ ~OpenFails
  \/ DeinitDump /\ ~DumpsAll
  \/ DeinitFree /\ ~Frees

(* The quiet steps of the connections' threads.                            *)
LEMMA QuietConns ==
  ASSUME IInv, NEW c \in Conns, QuietConn(c)
  PROVE  Quiet
<1>0. ConnTypes /\ ProcessTypes
  BY DEF IInv, Core
<1>1. CASE Accept(c)
  BY <1>0, <1>1 DEF Accept, Goto, Quiet, Writes, ConnTypes, ProcessTypes, Places, connVars,
     serverVars
<1>2. CASE Disconnect(c)
  BY <1>0, <1>2 DEF Disconnect, Goto, Quiet, Writes, ConnTypes, ProcessTypes, Places, connVars,
     serverVars
<1>3. CASE GetString(c)
  BY <1>0, <1>3 DEF GetString, At, Goto, Quiet, Writes, ConnTypes, ProcessTypes, Places, connVars,
     serverVars
<1>4. CASE UseString(c)
  BY <1>0, <1>4 DEF UseString, At, Answered, Goto, Quiet, Writes, ConnTypes, ProcessTypes, Places,
     connVars, serverVars
<1>5. CASE NumGet(c)
  BY <1>0, <1>5 DEF NumGet, At, Goto, Quiet, Writes, ConnTypes, ProcessTypes, Places, connVars,
     serverVars
<1>6. CASE Undefined(c)
  BY <1>0, <1>6 DEF Undefined, Quiet, Writes, ConnTypes, ProcessTypes, Places, connVars, serverVars
<1>7. ASSUME NEW r \in Requests, Request(c, r) PROVE Quiet
  BY <1>0, <1>7, RequestFacts DEF Request, Goto, Quiet, Writes, ConnTypes, ProcessTypes
<1>8. CASE SaveFails(c) /\ ~Fails(c)
  BY <1>8, Branches DEF Quiet, Writes, connVars
<1> QED
  BY <1>1, <1>2, <1>3, <1>4, <1>5, <1>6, <1>7, <1>8 DEF QuietConn

(* The quiet steps of main.                                                *)
LEMMA QuietMains ==
  ASSUME IInv, QuietMain
  PROVE  Quiet
<1>0. ConnTypes /\ ProcessTypes
  BY DEF IInv, Core
<1>1. CASE UNCHANGED vars
  BY <1>1 DEF vars, connVars, Quiet, Writes
<1>2. CASE Stop
  BY <1>0, <1>2 DEF Stop, Quiet, Writes, ProcessTypes, connVars
<1>3. CASE Deinit
  BY <1>0, <1>3 DEF Deinit, Quiet, Writes, ProcessTypes, connVars
<1>4. CASE Boot
  BY <1>0, <1>4 DEF Boot, Quiet, Writes, ProcessTypes, connVars
<1>5. CASE DeinitOpenFails /\ ~OpenFails
  BY <1>5, Branches DEF Quiet, Writes
<1>6. CASE DeinitDump /\ ~DumpsAll
  BY <1>6, Branches DEF Quiet, Writes, connVars
<1>7. CASE DeinitFree /\ ~Frees
  BY <1>7, Branches DEF Quiet, Writes
<1>8. CASE Sync \/ BackgroundRead \/ BackgroundDone
  BY <1>8 DEF Sync, BackgroundRead, BackgroundDone, Quiet, Writes, connVars
<1> QED
  BY <1>1, <1>2, <1>3, <1>4, <1>5, <1>6, <1>7, <1>8 DEF QuietMain

(* The other steps.                                                        *)
LoudConn(c) ==
  \/ SetString(c) \/ UserBegin(c) \/ UserEnd(c) \/ NumSet(c) \/ SaveOpen(c) \/ SaveDump(c)
  \/ (SaveFails(c) /\ Fails(c))
LoudMain ==
  \/ ParamInit \/ DeinitOpen \/ Exit \/ Crash \/ PowerFails
  \/ (DeinitOpenFails /\ OpenFails) \/ (DeinitDump /\ DumpsAll) \/ (DeinitFree /\ Frees)

(* A step is quiet or not.                                                 *)
LEMMA QuietOrLoud ==
  ASSUME IInv, [Next]_vars
  PROVE  Quiet \/ LoudMain \/ \E c \in Conns : LoudConn(c)
<1>1. ASSUME NEW c \in Conns, ConnStep(c)
      PROVE  QuietConn(c) \/ LoudConn(c)
  BY <1>1, Zenon DEF ConnStep, QuietConn, LoudConn
<1>2. ASSUME MainStep \/ UNCHANGED vars
      PROVE  QuietMain \/ LoudMain
  BY <1>2, Zenon DEF MainStep, QuietMain, LoudMain
<1> QED
  BY <1>1, <1>2, StepKinds, QuietConns, QuietMains

(* Who overwrites the file with the dictionary's lines leaves just those.  *)
LEMMA SameLinesKept ==
  ASSUME IInv, SameLines, [Next]_vars
  PROVE  SameLines'
<1>0. ConnTypes /\ ProcessTypes /\ NoProcess /\ DictOK
  BY DEF IInv, Core
<1>1. CASE Quiet
  BY <1>1 DEF Quiet, SameLines, Saving, Lines
<1>2. ASSUME NEW c \in Conns, SetString(c) PROVE SameLines'
  <2>1. Hazard(c, "write") = "none" /\ pc[c] = "set"
    BY <1>2 DEF SetString, At, Access
  <2>2. ~Saving'
    BY <1>0, <1>2, <2>1, HazardFacts DEF SetString, Answered, Goto, Saving, ConnTypes
  <2> QED
    BY <2>2 DEF SameLines
<1>3. ASSUME NEW c \in Conns, UserBegin(c) PROVE SameLines'
  <2>1. Hazard(c, "write") = "none" /\ pc[c] \in {"add", "del"}
    BY <1>3 DEF UserBegin, At, Access
  <2>2. ~Saving'
    BY <1>0, <1>3, <2>1, HazardFacts DEF UserBegin, Goto, Saving, ConnTypes
  <2> QED
    BY <2>2 DEF SameLines
<1>4. ASSUME NEW c \in Conns, UserEnd(c) PROVE SameLines'
  <2>1. Writes(c) /\ file' = file
    BY <1>4 DEF UserEnd, Writes
  <2>2. Saving' => Saving
    BY <1>0, <1>4 DEF UserEnd, Goto, Saving, ConnTypes
  <2> QED
    BY <2>1, <2>2 DEF SameLines
<1>5. ASSUME NEW c \in Conns, NumSet(c) PROVE SameLines'
  <2>1. Hazard(c, "write") = "none" /\ pc[c] = "num_set"
    BY <1>5 DEF NumSet, At, Access
  <2>2. ~Saving'
    BY <1>0, <1>5, <2>1, HazardFacts DEF NumSet, Goto, Saving, ConnTypes
  <2> QED
    BY <2>2 DEF SameLines
<1>6. ASSUME NEW c \in Conns, SaveOpen(c) PROVE SameLines'
  BY <1>6 DEF SaveOpen, Truncate, SameLines
<1>7. ASSUME NEW c \in Conns, SaveDump(c) PROVE SameLines'
  <2>1. Saving /\ file' \in Overwrite(Lines, file) /\ pc[c] = "dump"
    BY <1>7 DEF SaveDump, At, Saving
  <2>2. file' = Lines /\ Lines' = Lines
    BY <1>0, <1>7, <2>1, SavedLines DEF SaveDump, Lines
  <2>3. Hazard(c, "read") = "none"
    BY <1>7, <2>1 DEF SaveDump, At, Access
  <2>4. \A y \in Conns : ~Writes(y)'
    BY <1>0, <1>7, <2>1, <2>3, HazardFacts DEF SaveDump, Answered, Goto, Writes, ConnTypes
  <2> QED
    BY <2>2, <2>4 DEF SameLines
<1>8. ASSUME NEW c \in Conns, SaveFails(c), Fails(c) PROVE SameLines'
  <2>1. /\ pc[c] = "open" /\ UNCHANGED <<file, main>> /\ ptr' = "null"
        /\ pc' = [pc EXCEPT ![c] = "idle"]
    BY <1>8, Branches DEF Fails, Answered, Goto
  <2>2. CASE ptr = "null"
    BY <1>0, <2>1, <2>2 DEF SameLines, Lines, Saving, Writes, ConnTypes
  <2>3. CASE Hazard(c, "write") = "none"
    <3>1. ~Saving'
      BY <1>0, <2>1, <2>3, HazardFacts DEF Saving, ConnTypes
    <3> QED
      BY <3>1 DEF SameLines
  <2> QED
    BY <1>8, <2>2, <2>3 DEF Fails
<1>9. CASE ParamInit
  <2>1. ~Saving'
    BY <1>0, <1>9 DEF ParamInit, NoProcess, Saving, connVars
  <2> QED
    BY <2>1 DEF SameLines
<1>10. CASE DeinitOpen
  BY <1>10 DEF DeinitOpen, Truncate, SameLines
<1>11. CASE Exit \/ Crash \/ PowerFails
  <2>1. ~Saving'
    BY <1>11 DEF Exit, Crash, PowerFails, Restart, ProcessEnds, Saving
  <2> QED
    BY <2>1 DEF SameLines
<1>12. CASE DeinitOpenFails /\ OpenFails
  <2>1. UNCHANGED <<file, pc>> /\ ptr' = "null" /\ main = "open" /\ main' = "leave"
    BY <1>12, Branches DEF OpenFails
  <2>2. CASE ptr = "null"
    BY <2>1, <2>2 DEF SameLines, Lines, Saving, Writes
  <2>3. CASE Hazard("main", "write") = "none"
    <3>1. ~Saving'
      BY <2>1, <2>3, HazardFacts DEF Saving
    <3> QED
      BY <3>1 DEF SameLines
  <2> QED
    BY <1>12, <2>2, <2>3 DEF OpenFails
<1>13. CASE DeinitDump /\ DumpsAll
  <2>1. UNCHANGED <<ptr, dict, pc>> /\ Saving
    BY <1>13, Branches DEF connVars, Saving
  <2>2. file' = Lines /\ Lines' = Lines
    BY <1>0, <1>13, <2>1, SavedLines DEF DumpsAll, Lines
  <2>3. \A y \in Conns : ~Writes(y)'
    BY <1>13, <2>1, HazardFacts DEF DumpsAll, Writes
  <2> QED
    BY <2>2, <2>3 DEF SameLines
<1>14. CASE DeinitFree /\ Frees
  <2>1. UNCHANGED <<file, pc>> /\ main = "free" /\ main' = "leave"
    BY <1>14, Branches DEF Frees
  <2>2. CASE ptr # "live"
    <3>1. Lines = <<>> /\ Lines' = <<>>
      BY <1>14, <2>2 DEF Frees, Lines
    <3> QED
      BY <2>1, <3>1 DEF SameLines, Saving, Writes
  <2>3. CASE Hazard("main", "write") = "none"
    <3>1. ~Saving'
      BY <2>1, <2>3, HazardFacts DEF Saving
    <3> QED
      BY <3>1 DEF SameLines
  <2> QED
    BY <1>14, <2>2, <2>3 DEF Frees
<1> QED
  BY QuietOrLoud, <1>1, <1>2, <1>3, <1>4, <1>5, <1>6, <1>7, <1>8, <1>9, <1>10, <1>11, <1>12,
     <1>13, <1>14 DEF LoudConn, LoudMain

(* A string is missing only in a handler that asks for it.                 *)
LEMMA NullSource ==
  ASSUME IInv, [Next]_vars, ub' = "null"
  PROVE  \/ UNCHANGED vars
         \/ /\ UNCHANGED <<dict, pc, req>>
            /\ \E c \in Conns : pc[c] = "get" /\ (ptr = "null" \/ Get(dict, req[c].key) = Null)
<1>1. CASE ub # "none"
  BY <1>1, Frozen
<1>2. ASSUME NEW c \in Conns, Undefined(c)
      PROVE  /\ UNCHANGED <<dict, pc, req>>
             /\ pc[c] = "get" /\ (ptr = "null" \/ Get(dict, req[c].key) = Null)
  <2>1. Hazard(c, Access(c)) # "null"
    BY DEF Hazard
  <2> QED
    BY <1>2, <2>1 DEF Undefined, Get, connVars
<1>3. ASSUME NEW c \in Conns, ConnStep(c), ~Undefined(c) PROVE ub = "null"
  <2>1. CASE Accept(c) \/ Disconnect(c) \/ GetString(c) \/ UseString(c) \/ SetString(c)
    BY <2>1 DEF Accept, Disconnect, GetString, UseString, SetString
  <2>2. CASE UserBegin(c) \/ UserEnd(c) \/ NumGet(c) \/ NumSet(c) \/ SaveOpen(c) \/ SaveDump(c)
    BY <2>2 DEF UserBegin, UserEnd, NumGet, NumSet, SaveOpen, SaveDump
  <2>3. CASE SaveFails(c)
    BY <2>3, Branches DEF Fails
  <2>4. CASE \E r \in Requests : Request(c, r)
    BY <2>4 DEF Request
  <2> QED
    BY <1>3, <2>1, <2>2, <2>3, <2>4 DEF ConnStep
<1>4. ASSUME MainStep PROVE ub = "null"
  <2>1. CASE ParamInit \/ Stop \/ Deinit \/ DeinitOpen \/ Exit \/ Boot
    BY <2>1 DEF ParamInit, Stop, Deinit, DeinitOpen, Exit, Boot
  <2>2. CASE DeinitOpenFails \/ DeinitDump \/ DeinitFree
    BY <2>2, Branches DEF OpenFails, DumpsAll, Frees
  <2>3. CASE Sync \/ Crash \/ PowerFails
    BY <2>3 DEF Sync, Crash, PowerFails, Restart
  <2>4. CASE BackgroundRead \/ BackgroundDone
    BY <2>4 DEF BackgroundRead, BackgroundDone, Hazard
  <2> QED
    BY <1>4, <2>1, <2>2, <2>3, <2>4 DEF MainStep
<1> QED
  BY StepKinds, <1>1, <1>2, <1>3, <1>4

(* An entry has a value.                                                   *)
LEMMA EntryHasValue ==
  ASSUME NEW d, Holds(d), NEW k \in EntryKeys, Has(d, k)
  PROVE  Get(d, k) # Null
<1>1. EntryKey(k) /\ k # Null
  BY KeyFacts
<1>2. PICK n : n = Len(k)
  OBVIOUS
<1>3. n > 1
  BY <1>1, <1>2, Zenon DEF EntryKey
<1>4. n # 1
  BY <1>3
<1>5. Get(d, k) \in ValuesOf(k)
  BY <1>1, Zenon DEF Holds
<1>6. Get(d, k) \in Values
  BY <1>2, <1>4, <1>5, Zenon DEF ValuesOf
<1> QED
  BY <1>6, IniAssumption DEF Values

(* A user request changes the user's section and entry.                    *)
UserEnds(c, u) ==
  /\ req[c].key = UserKey(u) /\ <<req[c].key[1]>> = <<u>>
  /\ pc[c] \in {"adding", "deleting"}
  /\ req[c].op = IF pc[c] = "adding" THEN "add" ELSE "del"
  /\ pc' = [pc EXCEPT ![c] = "num_get"]
  /\ UNCHANGED <<ptr, file, main, req, hist>>
  /\ dict' = IF ptr # "live" THEN dict
             ELSE IF pc[c] = "adding" THEN AddUser(dict, u, req[c].val)
             ELSE dictionary_unset(dict, <<u>>)

LEMMA UserRequest ==
  ASSUME IInv, HistOK, NEW c \in Conns, UserEnd(c)
  PROVE  req[c] \in Requests /\ \E u \in Users : UserEnds(c, u)
<1>1. pc[c] \in {"adding", "deleting"}
  BY DEF UserEnd
<1>2. req[c] \in Requests
  BY <1>1 DEF IInv, Core, Serves, Busy
<1>3. req[c].op = IF pc[c] = "adding" THEN "add" ELSE "del"
  BY <1>1 DEF HistOK
<1>4. PICK u \in Users : req[c].key = UserKey(u)
  BY <1>2, <1>3, RequestKeys
<1>5. <<req[c].key[1]>> = <<u>>
  BY <1>4, KeyFacts
<1>6. /\ dict' = IF ptr # "live" THEN dict
                 ELSE IF pc[c] = "adding"
                 THEN dictionary_set(dictionary_set(dict, <<req[c].key[1]>>, Null), req[c].key,
                                     req[c].val)
                 ELSE dictionary_unset(dict, <<req[c].key[1]>>)
      /\ pc' = [pc EXCEPT ![c] = "num_get"] /\ UNCHANGED <<ptr, file, main, req, hist>>
  BY DEF UserEnd, Goto
<1>7. UserEnds(c, u)
  BY <1>1, <1>3, <1>4, <1>5, <1>6 DEF UserEnds, AddUser
<1> QED
  BY <1>2, <1>7

(* What a thread writes is a value.                                        *)
LEMMA RequestVal ==
  ASSUME NEW r \in Requests, r.op # "get"
  PROVE  /\ r.val \in Values /\ r.val \in ValuesOf(r.key)
         /\ r.key \in Keys /\ r.key # Null /\ r.key \in EntryKeys
<1>1. r.key \in EntryKeys /\ r.val \in ValuesOf(r.key)
  BY RequestFacts, RequestKeys DEF EntryKeys
<1>2. EntryKey(r.key) /\ r.key # Null
  BY <1>1, KeyFacts
<1>3. PICK n : n = Len(r.key)
  OBVIOUS
<1>4. n > 1
  BY <1>2, <1>3, Zenon DEF EntryKey
<1>5. n # 1
  BY <1>4
<1>6. r.val \in Values
  BY <1>1, <1>3, <1>5, Zenon DEF ValuesOf
<1> QED
  BY <1>1, <1>2, <1>6 DEF EntryKey

(* What a save without damage leaves in the file.                          *)
LEMMA SavedName ==
  ASSUME IInv, SameLines, Saving, ptr = "live", Straight(dict), NEW f \in Overwrite(Lines, file)
  PROVE  /\ f = iniparser_dump_ini(dict)
         /\ ~Unreadable(f) /\ Named(dict) =>
              /\ Named(iniparser_load(f)) /\ NumOf(iniparser_load(f)) = NumOf(dict)
              /\ CountOf(iniparser_load(f)) = CountOf(dict)
<1>1. DictOK /\ Holds(dict)
  BY DEF IInv, Core, DictOK
<1>2. f = iniparser_dump_ini(dict)
  BY <1>1, SavedLines DEF Lines
<1>3. ~Unreadable(f) => Restored(iniparser_load(f), dict)
  BY <1>1, <1>2, LoadDump
<1> QED
  BY <1>1, <1>2, <1>3, RestoredEffects

(* What went wrong stays so.                                               *)
HistLater ==
  /\ hist.damage => hist'.damage
  /\ hist.overlap => hist'.overlap
  /\ hist.odd => hist'.odd
  /\ hist.misuse => hist'.misuse

LEMMA HistGrows ==
  ASSUME IInv, [Next]_vars
  PROVE  HistLater
<1>0. ProcessTypes
  BY DEF IInv, Core
<1>1. CASE UNCHANGED vars
  BY <1>1 DEF vars, HistLater
<1>2. ASSUME NEW c \in Conns, ConnStep(c)
      PROVE  HistLater
  <2>1. CASE Accept(c) \/ Disconnect(c) \/ GetString(c) \/ UseString(c) \/ SetString(c)
    BY <2>1 DEF Accept, Disconnect, GetString, UseString, SetString, HistLater
  <2>2. CASE UserBegin(c) \/ UserEnd(c) \/ NumGet(c) \/ NumSet(c) \/ SaveOpen(c) \/ Undefined(c)
    BY <2>2 DEF UserBegin, UserEnd, NumGet, NumSet, SaveOpen, Undefined, HistLater
  <2>3. CASE SaveFails(c)
    BY <1>0, <2>3, Branches DEF Fails, ProcessTypes, HistLater
  <2>4. CASE SaveDump(c) \/ \E r \in Requests : Request(c, r)
    BY <1>0, <2>4 DEF SaveDump, Request, ProcessTypes, HistLater
  <2> QED
    BY <1>2, <2>1, <2>2, <2>3, <2>4 DEF ConnStep
<1>3. ASSUME MainStep
      PROVE  HistLater
  <2>1. CASE ParamInit \/ Stop \/ Deinit \/ DeinitOpen \/ Exit \/ Boot
    BY <1>0, <2>1 DEF ParamInit, Stop, Deinit, DeinitOpen, Exit, Boot, ProcessTypes, HistLater
  <2>2. CASE DeinitOpenFails \/ DeinitDump \/ DeinitFree
    BY <1>0, <2>2, Branches DEF OpenFails, DumpsAll, Frees, ProcessTypes, HistLater
  <2>3. CASE Crash \/ PowerFails
    BY <1>0, <2>3 DEF Crash, PowerFails, ProcessTypes, HistLater
  <2>4. CASE Sync \/ BackgroundRead \/ BackgroundDone
    BY <2>4 DEF Sync, BackgroundRead, BackgroundDone, HistLater
  <2> QED
    BY <1>3, <2>1, <2>2, <2>3, <2>4 DEF MainStep
<1> QED
  BY StepKinds, <1>1, <1>2, <1>3

(* What was saved last is what it was, or the dictionary.                  *)
LEMMA SavedKept ==
  ASSUME IInv, SavedOK, [Next]_vars
  PROVE  SavedOK'
<1> SUFFICES hist'.saved \in {hist.saved, dict}
  BY DEF SavedOK, IInv, Core, DictOK
<1>0. ProcessTypes
  BY DEF IInv, Core
<1>1. CASE UNCHANGED vars
  BY <1>1 DEF vars
<1>2. ASSUME NEW c \in Conns, ConnStep(c) PROVE hist'.saved \in {hist.saved, dict}
  <2>1. CASE Accept(c) \/ Disconnect(c) \/ GetString(c) \/ UseString(c) \/ SetString(c)
    BY <2>1 DEF Accept, Disconnect, GetString, UseString, SetString
  <2>2. CASE UserBegin(c) \/ UserEnd(c) \/ NumGet(c) \/ NumSet(c) \/ SaveOpen(c) \/ Undefined(c)
    BY <2>2 DEF UserBegin, UserEnd, NumGet, NumSet, SaveOpen, Undefined
  <2>3. CASE SaveFails(c)
    BY <1>0, <2>3, Branches DEF Fails, ProcessTypes
  <2>4. CASE SaveDump(c) \/ \E r \in Requests : Request(c, r)
    BY <1>0, <2>4 DEF SaveDump, Request, ProcessTypes
  <2> QED
    BY <1>2, <2>1, <2>2, <2>3, <2>4 DEF ConnStep
<1>3. ASSUME MainStep PROVE hist'.saved \in {hist.saved, dict}
  <2>1. CASE ParamInit \/ Stop \/ Deinit \/ DeinitOpen \/ Exit \/ Boot
    BY <1>0, <2>1 DEF ParamInit, Stop, Deinit, DeinitOpen, Exit, Boot, ProcessTypes
  <2>2. CASE DeinitOpenFails \/ DeinitDump \/ DeinitFree
    BY <1>0, <2>2, Branches DEF OpenFails, DumpsAll, Frees, ProcessTypes
  <2>3. CASE Crash \/ PowerFails
    BY <1>0, <2>3 DEF Crash, PowerFails, ProcessTypes
  <2>4. CASE Sync \/ BackgroundRead \/ BackgroundDone
    BY <2>4 DEF Sync, BackgroundRead, BackgroundDone
  <2> QED
    BY <1>3, <2>1, <2>2, <2>3, <2>4 DEF MainStep
<1> QED
  BY StepKinds, <1>1, <1>2, <1>3

(* A request stays what it was until it is answered.                       *)
LEMMA MeantKept ==
  ASSUME IInv, HistOK, Meant, [Next]_vars
  PROVE  Meant'
<1>0. ConnTypes /\ ProcessTypes /\ HistLater
  BY HistGrows DEF IInv, Core
<1>1. ASSUME \A y \in Conns : Busy(y)' => Busy(y) /\ req'[y] = req[y] PROVE Meant'
  BY <1>0, <1>1 DEF Meant, HistLater
<1>2. CASE UNCHANGED <<pc, req>>
  BY <1>1, <1>2 DEF Busy
<1>3. ASSUME NEW c \in Conns, ConnStep(c) PROVE Meant'
  <2>1. CASE Accept(c) \/ Disconnect(c)
    <3>1. pc' \in {[pc EXCEPT ![c] = "idle"], [pc EXCEPT ![c] = "none"]} /\ req' = req
      BY <2>1 DEF Accept, Disconnect, Goto
    <3> QED
      BY <1>0, <1>1, <3>1 DEF Busy, ConnTypes
  <2>2. CASE \/ GetString(c) \/ UserBegin(c) \/ UserEnd(c) \/ NumGet(c) \/ NumSet(c) \/ SaveOpen(c)
    <3>1. /\ pc' = [pc EXCEPT ![c] = pc'[c]] /\ req' = req /\ Busy(c)
      BY <1>0, <2>2 DEF GetString, UserBegin, UserEnd, NumGet, NumSet, SaveOpen, At, Goto, Busy,
         ConnTypes
    <3> QED
      BY <1>0, <1>1, <3>1 DEF Busy, ConnTypes
  <2>3. CASE Undefined(c) \/ (SaveFails(c) /\ ~Fails(c))
    BY <1>2, <2>3, Branches DEF Undefined, connVars
  <2>4. CASE UseString(c) \/ SetString(c) \/ SaveDump(c) \/ (SaveFails(c) /\ Fails(c))
    <3>1. pc' = [pc EXCEPT ![c] = "idle"] /\ req' = [req EXCEPT ![c] = NoRequest]
      BY <2>4 DEF UseString, SetString, SaveDump, Fails, Answered, Goto
    <3> QED
      BY <1>0, <1>1, <3>1 DEF Busy, ConnTypes
  <2>5. ASSUME NEW r \in Requests, Request(c, r) PROVE Meant'
    <3>1. /\ pc' = [pc EXCEPT ![c] = r.op] /\ req' = [req EXCEPT ![c] = r]
          /\ hist'.odd = (hist.odd \/ Is(r.val, "continued"))
          /\ hist'.misuse = (hist.misuse \/ Misused(r))
      BY <1>0, <2>5 DEF Request, Goto, ProcessTypes
    <3>2. ~hist'.odd => ~Is(r.val, "continued")
      BY <3>1
    <3>3. ~hist'.misuse => ~(r.op = "set" /\ r.key = NumKey)
      BY <3>1 DEF Misused
    <3> QED
      BY <1>0, <3>1, <3>2, <3>3 DEF Meant, HistLater, Busy, ConnTypes
  <2> QED
    BY <1>3, <2>1, <2>2, <2>3, <2>4, <2>5 DEF ConnStep
<1>4. CASE ParamInit \/ Stop \/ Deinit \/ DeinitOpen \/ Boot \/ Sync
  BY <1>2, <1>4 DEF ParamInit, Stop, Deinit, DeinitOpen, Boot, Sync, connVars
<1>5. CASE BackgroundRead \/ BackgroundDone \/ UNCHANGED vars
  BY <1>2, <1>5 DEF BackgroundRead, BackgroundDone, vars, connVars
<1>6. CASE DeinitOpenFails \/ DeinitDump \/ DeinitFree
  BY <1>2, <1>6, Branches DEF connVars
<1>7. CASE Exit \/ Crash \/ PowerFails
  <2>1. pc' = [c \in Conns |-> "none"]
    BY <1>7 DEF Exit, Crash, PowerFails, Restart, ProcessEnds
  <2> QED
    BY <2>1 DEF Meant, Busy
<1> QED
  BY StepKinds, <1>3, <1>4, <1>5, <1>6, <1>7 DEF MainStep

(* No value ends in a backslash until one is set.                          *)
LEMMA StraightKept ==
  ASSUME IInv, HistOK, Meant, StraightOK, [Next]_vars
  PROVE  StraightOK'
<1> SUFFICES ASSUME ~hist'.odd PROVE Straight(dict')
  BY DEF StraightOK
<1>0. ConnTypes /\ ProcessTypes /\ Serves /\ Holds(dict) /\ FileOK /\ ~hist.odd /\ Straight(dict)
  BY HistGrows DEF IInv, Core, DictOK, HistLater, StraightOK
<1>1. CASE dict' = dict
  BY <1>0, <1>1
<1>2. ASSUME NEW c \in Conns, SetString(c) PROVE Straight(dict')
  <2>1. pc[c] = "set" /\ (dict' = dict \/ dict' = dictionary_set(dict, req[c].key, req[c].val))
    BY <1>2 DEF SetString, At
  <2>2. req[c] \in Requests /\ req[c].op # "get" /\ ~Is(req[c].val, "continued")
    BY <1>0, <2>1 DEF Serves, Meant, Busy
  <2>3. req[c].key \in Keys /\ req[c].val \in ValuesOf(req[c].key)
    BY <2>2, RequestVal
  <2> QED
    BY <1>0, <2>1, <2>2, <2>3, SetStraight
<1>3. ASSUME NEW c \in Conns, UserEnd(c) PROVE Straight(dict')
  <2>1. PICK u \in Users : UserEnds(c, u)
    BY <1>3, UserRequest
  <2>2. req[c] \in Requests /\ req[c].op # "get" /\ ~Is(req[c].val, "continued")
        /\ req[c].key = UserKey(u)
    BY <1>0, <1>3, <2>1, UserRequest DEF Meant, Busy, UserEnds
  <2>3. req[c].key \in Keys /\ req[c].val \in ValuesOf(req[c].key)
    BY <2>2, RequestVal
  <2>4. <<u>> \in Keys
    BY KeyFacts
  <2>5. Len(<<u>>) = 1
    OBVIOUS
  <2>6. Null \in ValuesOf(<<u>>) /\ ~Is(Null, "continued")
    BY <2>5 DEF ValuesOf, Is
  <2>7. PICK a : a = dictionary_set(dict, <<u>>, Null)
    OBVIOUS
  <2>8. Holds(a) /\ Straight(a)
    BY <1>0, <2>4, <2>6, <2>7, SetHolds, SetStraight
  <2>9. Straight(dictionary_set(a, UserKey(u), req[c].val))
    BY <2>2, <2>3, <2>8, SetStraight
  <2>10. Straight(dictionary_unset(dict, <<u>>))
    BY <1>0, <2>4, UnsetStraight
  <2> QED
    BY <1>0, <2>1, <2>7, <2>9, <2>10 DEF UserEnds, AddUser
<1>4. ASSUME NEW c \in Conns, NumSet(c) PROVE Straight(dict')
  <2>1. PICK n \in Int : dict' = dict \/ dict' = dictionary_set(dict, NumKey, Plain(n))
    <3>1. num[c] + 1 \in Int /\ num[c] - 1 \in Int
      BY <1>0 DEF ConnTypes
    <3> QED
      BY <1>4, <3>1 DEF NumSet
  <2>2. NumKey \in Keys /\ Plain(n) \in ValuesOf(NumKey)
    BY NumKeyHolds
  <2>3. ~Is(Plain(n), "continued")
    BY DEF Is, Plain, Value
  <2> QED
    BY <1>0, <2>1, <2>2, <2>3, SetStraight
<1>5. CASE ParamInit
  <2>1. dict' = dict \/ (~Unreadable(file') /\ dict' = iniparser_load(file'))
    BY <1>5 DEF ParamInit
  <2>2. file' = Absent \/ file' \in Seq(AnyLine)
    BY NextIInv DEF IInv, Core, FileOK
  <2>3. ~Unreadable(file') => Fits(iniparser_load(file'))
    BY <2>2, LoadedAny
  <2> QED
    BY <1>0, <2>1, <2>3 DEF Fits
<1>6. CASE Exit \/ Crash \/ PowerFails
  <2>1. dict' = dictionary_new
    BY <1>6 DEF Exit, Crash, PowerFails, Restart, ProcessEnds
  <2>2. Used(dictionary_new) = {}
    BY DEF Used, Slots, dictionary_new
  <2> QED
    BY <2>1, <2>2 DEF Straight
<1>7. CASE Quiet
  BY <1>1, <1>7 DEF Quiet
<1>8. ASSUME NEW c \in Conns, UserBegin(c) \/ SaveOpen(c) \/ SaveDump(c) \/ SaveFails(c)
      PROVE  dict' = dict
  BY <1>8 DEF UserBegin, SaveOpen, SaveDump, SaveFails
<1>9. CASE DeinitOpen \/ DeinitOpenFails \/ DeinitDump \/ DeinitFree
  BY <1>1, <1>9 DEF DeinitOpen, DeinitOpenFails, DeinitDump, DeinitFree
<1> QED
  BY QuietOrLoud, <1>1, <1>2, <1>3, <1>4, <1>5, <1>6, <1>7, <1>8, <1>9 DEF LoudConn, LoudMain

(* The dictionary and the file keep the names.                             *)
LEMMA NameSteps ==
  ASSUME IInv, HistOK, StraightOK, SameLines, KeepsName, [Next]_vars, ~hist'.damage, ~hist'.odd
  PROVE  NameInMemory' /\ NameInFile'
<1>0. ConnTypes /\ ProcessTypes /\ NoProcess /\ Serves /\ Holds(dict) /\ ~hist.odd
      /\ Straight(dict)
  BY HistGrows DEF IInv, Core, DictOK, HistLater, StraightOK
<1>k. ASSUME hist'.damage = hist.damage PROVE NameInMemory /\ NameInFile
  BY <1>0, <1>k DEF KeepsName
<1>1. CASE Quiet
  <2>1. NameInMemory /\ NameInFile
    BY <1>1, <1>k DEF Quiet
  <2> QED
    BY <1>1, <2>1 DEF Quiet, NameInMemory, NameInFile, Saving
<1>2. ASSUME NEW c \in Conns, SetString(c) PROVE NameInMemory' /\ NameInFile'
  <2>1. /\ pc[c] = "set" /\ pc' = [pc EXCEPT ![c] = "idle"] /\ UNCHANGED <<ptr, file, main, hist>>
        /\ dict' = IF ptr = "live" THEN dictionary_set(dict, req[c].key, req[c].val) ELSE dict
    BY <1>2 DEF SetString, At, Answered, Goto
  <2>2. NameInMemory /\ NameInFile
    BY <2>1, <1>k
  <2>3. req[c] \in Requests /\ req[c].op # "get"
    BY <1>0, <2>1 DEF Serves, Busy
  <2>4. Named(dict) => Named(dict')
    <3>1. req[c].key # Null /\ req[c].key \in EntryKeys
      BY <2>3, RequestVal
    <3>2. CASE dict' = dict
      BY <3>2
    <3>3. CASE dict' = dictionary_set(dict, req[c].key, req[c].val)
      BY <1>0, <3>1, <3>3, SetEffects DEF Changes
    <3> QED
      BY <2>1, <3>2, <3>3
  <2>5. Saving' <=> Saving
    BY <1>0, <2>1 DEF Saving, ConnTypes
  <2> QED
    BY <2>1, <2>2, <2>4, <2>5 DEF NameInMemory, NameInFile
<1>3. ASSUME NEW c \in Conns, UserBegin(c) PROVE NameInMemory' /\ NameInFile'
  <2>1. /\ pc[c] \in {"add", "del"}
        /\ pc' \in {[pc EXCEPT ![c] = "adding"], [pc EXCEPT ![c] = "deleting"]}
        /\ UNCHANGED <<ptr, dict, file, main, hist>>
    BY <1>3 DEF UserBegin, At, Goto
  <2>2. NameInMemory /\ NameInFile
    BY <2>1, <1>k
  <2>3. Saving' <=> Saving
    BY <1>0, <2>1 DEF Saving, ConnTypes
  <2> QED
    BY <2>1, <2>2, <2>3 DEF NameInMemory, NameInFile
<1>4. ASSUME NEW c \in Conns, UserEnd(c) PROVE NameInMemory' /\ NameInFile'
  <2>0. PICK u \in Users : UserEnds(c, u)
    BY <1>4, UserRequest
  <2>1. /\ pc[c] \in {"adding", "deleting"} /\ pc' = [pc EXCEPT ![c] = "num_get"]
        /\ UNCHANGED <<ptr, file, main, hist>>
    BY <2>0 DEF UserEnds
  <2>2. NameInMemory /\ NameInFile
    BY <2>1, <1>k
  <2>4. Named(dict) => Named(dict')
    <3>1. \/ dict' = dict
          \/ dict' = dictionary_unset(dict, <<u>>)
          \/ dict' = AddUser(dict, u, req[c].val)
      BY <2>0 DEF UserEnds
    <3> QED
      BY <1>0, <3>1, UnsetEffects, AddEffects DEF Added
  <2>5. Saving' <=> Saving
    BY <1>0, <2>1 DEF Saving, ConnTypes
  <2> QED
    BY <2>1, <2>2, <2>4, <2>5 DEF NameInMemory, NameInFile
<1>5. ASSUME NEW c \in Conns, NumSet(c) PROVE NameInMemory' /\ NameInFile'
  <2>1. /\ pc[c] = "num_set" /\ pc' = [pc EXCEPT ![c] = "open"]
        /\ UNCHANGED <<ptr, file, main, hist>>
        /\ dict' = dict \/ \E n : dict' = dictionary_set(dict, NumKey, Plain(n))
    BY <1>5 DEF NumSet, At, Goto
  <2>2. NameInMemory /\ NameInFile
    BY <2>1, <1>k
  <2>3. NumKey # Null /\ NumKey \in EntryKeys
    BY KeyFacts DEF EntryKeys
  <2>4. Named(dict) => Named(dict')
    BY <1>0, <2>1, <2>3, SetEffects DEF Changes
  <2>5. Saving' <=> Saving
    BY <1>0, <2>1 DEF Saving, ConnTypes
  <2> QED
    BY <2>1, <2>2, <2>4, <2>5 DEF NameInMemory, NameInFile
<1>6. ASSUME NEW c \in Conns, SaveOpen(c) PROVE NameInMemory' /\ NameInFile'
  <2>1. pc' = [pc EXCEPT ![c] = "dump"] /\ UNCHANGED <<ptr, dict, main, hist>>
    BY <1>6 DEF SaveOpen, Goto
  <2>2. NameInMemory /\ NameInFile
    BY <2>1, <1>k
  <2>3. Saving'
    BY <1>0, <2>1 DEF Saving, ConnTypes
  <2> QED
    BY <2>1, <2>2, <2>3 DEF NameInMemory, NameInFile
<1>7. ASSUME NEW c \in Conns, SaveDump(c) PROVE NameInMemory' /\ NameInFile'
  <2>1. /\ Saving /\ file' \in Overwrite(Lines, file) /\ UNCHANGED <<ptr, dict, main>>
        /\ pc[c] = "dump" /\ hist'.damage = (hist.damage \/ ptr # "live")
    BY <1>0, <1>7 DEF SaveDump, At, Saving, ProcessTypes
  <2>2. ptr = "live" /\ ~hist.damage
    BY <2>1
  <2>3. NameInMemory /\ main \notin {"init", "exited"}
    BY <1>0, <2>1, <2>2 DEF KeepsName, NoProcess
  <2>4. Named(dict)
    BY <2>3 DEF NameInMemory
  <2> QED
    BY <1>0, <2>1, <2>2, <2>3, <2>4, SavedName DEF NameInMemory, NameInFile
<1>8. ASSUME NEW c \in Conns, SaveFails(c), Fails(c) PROVE FALSE
  BY <1>0, <1>8 DEF Fails, ProcessTypes
<1>9. CASE ParamInit
  <2>1. main = "init" /\ ~hist.damage /\ (~Unreadable(file) \/ file' = Factory)
    BY <1>0, <1>9 DEF ParamInit, ProcessTypes
  <2>2. NameInFile /\ ~Saving
    BY <1>0, <2>1 DEF KeepsName, NoProcess, Saving
  <2>3. ~Unreadable(file') /\ Named(iniparser_load(file'))
    <3>1. CASE Unreadable(file)
      BY <2>1, <3>1, FactoryLines, FactoryLoaded
    <3>2. CASE ~Unreadable(file)
      <4>1. file' = file
        BY <1>9, <3>2 DEF ParamInit
      <4> QED
        BY <2>2, <3>2, <4>1 DEF NameInFile
    <3> QED
      BY <3>1, <3>2
  <2> QED
    BY <1>9, <2>3 DEF ParamInit, NameInMemory, NameInFile
<1>10. CASE DeinitOpen
  BY <1>k, <1>10 DEF DeinitOpen, NameInMemory, NameInFile, Saving
<1>11. CASE Exit
  <2>1. main = "leave" /\ main' = "exited" /\ file' = file /\ ~hist.damage /\ ~Saving
    BY <1>0, <1>11 DEF Exit, ProcessTypes, Saving
  <2> QED
    BY <1>0, <2>1 DEF KeepsName, NameInMemory, NameInFile
<1>12. CASE Crash \/ PowerFails
  <2>1. Crash /\ ~hist.damage /\ ~Saving
    BY <1>0, <1>12 DEF Crash, PowerFails, ProcessTypes, Saving
  <2>2. main # "init" /\ main' = "init" /\ file' = file
    BY <2>1 DEF Crash, Restart, Saving
  <2> QED
    BY <1>0, <2>1, <2>2 DEF KeepsName, NameInMemory, NameInFile
<1>13. CASE DeinitOpenFails /\ OpenFails
  BY <1>0, <1>13 DEF OpenFails, ProcessTypes
<1>14. CASE DeinitDump /\ DumpsAll
  <2>1. /\ Saving /\ main = "dump" /\ main' = "free" /\ UNCHANGED <<ptr, dict>>
        /\ file' \in Overwrite(Lines, file) /\ hist'.damage = hist.damage
    BY <1>0, <1>14, Branches DEF DumpsAll, Saving, ProcessTypes
  <2>2. ptr # "null" /\ Named(dict)
    BY <1>k, <2>1 DEF NameInMemory
  <2>3. ptr = "live"
    BY <1>0, <1>14, <2>2, HazardFacts DEF DumpsAll, ProcessTypes
  <2> QED
    BY <1>0, <2>1, <2>2, <2>3, SavedName DEF NameInMemory, NameInFile
<1>15. CASE DeinitFree /\ Frees
  <2>1. /\ main = "free" /\ main' = "leave" /\ UNCHANGED <<dict, file, pc, hist>>
        /\ ptr # "null" => ptr' # "null"
    BY <1>15, Branches DEF Frees
  <2>2. NameInMemory /\ NameInFile
    BY <1>k, <2>1
  <2> QED
    BY <2>1, <2>2 DEF NameInMemory, NameInFile, Saving
<1> QED
  BY QuietOrLoud, <1>1, <1>2, <1>3, <1>4, <1>5, <1>6, <1>7, <1>8, <1>9, <1>10, <1>11, <1>12,
     <1>13, <1>14, <1>15 DEF LoudConn, LoudMain

(* A dictionary with the names is asked in vain only for a user's who is   *)
(* not in it.                                                              *)
LEMMA NameKept ==
  ASSUME IInv, HistOK, StraightOK, SameLines, KeepsName, [Next]_vars
  PROVE  KeepsName'
<1> SUFFICES ASSUME ~hist'.damage, ~hist'.odd, ub' = "null" PROVE AskedInVain'
  BY NameSteps DEF KeepsName
<1>1. ~hist.damage /\ ~hist.odd
  BY HistGrows DEF HistLater
<1>2. NameInMemory /\ (ub = "null" => AskedInVain)
  BY <1>1 DEF KeepsName
<1>3. CASE UNCHANGED vars
  BY <1>2, <1>3 DEF vars, connVars, AskedInVain
<1>4. ASSUME UNCHANGED <<dict, pc, req>>, NEW c \in Conns, pc[c] = "get",
             ptr = "null" \/ Get(dict, req[c].key) = Null
      PROVE  AskedInVain'
  <2>1. main \notin {"init", "exited"} /\ req[c] \in Requests /\ Holds(dict)
    BY <1>4 DEF IInv, Core, NoProcess, Serves, Busy, DictOK
  <2>2. ptr # "null" /\ Named(dict)
    BY <1>2, <2>1 DEF NameInMemory
  <2>3. req[c].key = NameKey \/ \E u \in Users : req[c].key = UserKey(u)
    BY <1>4, <2>1, RequestKeys DEF HistOK
  <2>4. req[c].key \in EntryKeys /\ ~Has(dict, req[c].key)
    BY <1>4, <2>1, <2>2, <2>3, EntryHasValue DEF EntryKeys
  <2>5. PICK u \in Users : req[c].key = UserKey(u)
    BY <2>2, <2>3, <2>4 DEF Named
  <2>6. ~Has(dict, <<u>>)
    BY <2>2, <2>4, <2>5 DEF Named
  <2> QED
    BY <1>4, <2>5, <2>6 DEF AskedInVain
<1> QED
  BY <1>3, <1>4, NullSource

(* Who saves alone finds an empty file and a dictionary.                   *)
LEMMA AloneSavesKept ==
  ASSUME IInv, AloneSaves, [Next]_vars
  PROVE  AloneSaves'
<1> SUFFICES ASSUME ~hist'.overlap
             PROVE  /\ Saving' => file' = <<>>
                    /\ main' \in {"open", "dump", "free"} => ptr' = "live"
  BY DEF AloneSaves
<1>0. ConnTypes /\ ProcessTypes /\ NoProcess /\ ~hist.overlap /\ Alone
  BY HistGrows DEF IInv, Core, HistLater
<1>1. /\ Saving => file = <<>>
      /\ main \in {"open", "dump", "free"} => ptr = "live"
  BY <1>0 DEF AloneSaves
<1>2. CASE Quiet
  <2>1. Saving' => file' = <<>>
    BY <1>1, <1>2 DEF Quiet, Saving
  <2>2. main' \in {"open", "dump", "free"} => ptr' = "live"
    BY <1>0, <1>1, <1>2 DEF Quiet, NoProcess, ProcessTypes
  <2> QED
    BY <2>1, <2>2
<1>3. ASSUME NEW c \in Conns, LoudConn(c)
      PROVE  /\ Saving' => file' = <<>>
             /\ main' \in {"open", "dump", "free"} => ptr' = "live"
  <2>1. Busy(c) /\ main' = main
    <3>1. CASE SaveFails(c) /\ Fails(c)
      BY <3>1, Branches DEF Busy
    <3> QED
      BY <1>3, <3>1 DEF LoudConn, SetString, UserBegin, UserEnd, NumSet, SaveOpen, SaveDump, At,
         Busy
  <2>2. main' = "up" /\ \A y \in Conns \ {c} : pc[y] # "dump"
    BY <1>0, <2>1 DEF Alone, Busy
  <2>3. CASE SaveOpen(c)
    BY <2>2, <2>3 DEF SaveOpen, Truncate
  <2>4. CASE ~SaveOpen(c)
    <3>1. \E p \in {"idle", "adding", "deleting", "num_get", "open"} : pc' = [pc EXCEPT ![c] = p]
      BY <1>3, <2>4 DEF LoudConn, SetString, UserBegin, UserEnd, NumSet, SaveDump, Fails, Answered,
         Goto
    <3>2. ~Saving'
      BY <1>0, <2>2, <3>1 DEF Saving, ConnTypes
    <3> QED
      BY <2>2, <3>2
  <2> QED
    BY <2>3, <2>4
<1>4. CASE LoudMain
  <2>1. CASE ParamInit
    BY <1>0, <2>1 DEF ParamInit, NoProcess, Saving, connVars
  <2>2. CASE Exit \/ Crash \/ PowerFails
    BY <2>2 DEF Exit, Crash, PowerFails, Restart, ProcessEnds, Saving
  <2>3. CASE DeinitOpen
    BY <1>1, <2>3 DEF DeinitOpen, Truncate
  <2>4. CASE (DeinitOpenFails /\ OpenFails) \/ (DeinitDump /\ DumpsAll) \/ (DeinitFree /\ Frees)
    <3>1. /\ main \in {"open", "dump", "free"} /\ main' \in {"leave", "free"} /\ pc' = pc
          /\ main' = "free" => ptr' = ptr
      BY <2>4, Branches DEF OpenFails, DumpsAll, Frees, connVars
    <3>2. ~Saving'
      BY <1>0, <3>1 DEF Alone, Busy, Saving
    <3> QED
      BY <1>1, <3>1, <3>2
  <2> QED
    BY <1>4, <2>1, <2>2, <2>3, <2>4 DEF LoudMain
<1> QED
  BY QuietOrLoud, <1>2, <1>3, <1>4

(* What LoadPartial gives is what TornIsPrefix is about.                   *)
LEMMA PartTorn ==
  ASSUME NEW d, NEW s, Holds(s), PartOf(d, s)
  PROVE  TornFrom(d, s)
<1>0. PICK cut : PartBut(d, s, cut)
  BY Zenon DEF PartOf
<1>1. \A k : EntryKey(k) =>
        Get(d, k) \in {Null, iniparser_line(Get(s, k))} \/ (k = cut /\ Get(d, k) = Torn)
  BY <1>0, Zenon DEF PartBut
<1>2. \A k \in EntryKeys : EntryKey(k) /\ k # Null
  BY KeyFacts
<1>3. ASSUME NEW k \in EntryKeys
      PROVE  /\ Get(d, k) \in {Null, Torn, iniparser_line(Get(s, k))}
             /\ Get(d, k) = Torn /\ Get(s, k) # Torn => k = cut
  <2>1. Get(d, k) \in {Null, iniparser_line(Get(s, k))} \/ (k = cut /\ Get(d, k) = Torn)
    BY <1>1, <1>2
  <2>2. Get(s, k) \in Values \union {Null}
    <3>1. CASE ~Has(s, k)
      BY <3>1 DEF Get, dictionary_get
    <3>2. CASE Has(s, k)
      <4>1. Get(s, k) \in ValuesOf(k)
        BY <1>2, <3>2, Zenon DEF Holds
      <4> QED
        BY <4>1 DEF ValuesOf
    <3> QED
      BY <3>1, <3>2
  <2>3. Get(s, k) # Torn => iniparser_line(Get(s, k)) # Torn
    <3> SUFFICES ASSUME Get(s, k) # Torn PROVE iniparser_line(Get(s, k)) # Torn
      OBVIOUS
    <3>1. PICK v : v = Get(s, k)
      OBVIOUS
    <3>2. CASE v = Null
      BY <3>1, <3>2, IniAssumption DEF iniparser_line
    <3>3. CASE v # Null
      <4>1. v \in [text : Int, form : Forms] /\ v # Torn
        BY <2>2, <3>1, <3>3 DEF Values
      <4>2. Plain(v.text) \in [text : Int, form : Forms]
        BY <4>1 DEF Plain, Value, Forms
      <4> QED
        BY <3>1, <3>3, <4>1, <4>2, IniAssumption DEF iniparser_line
    <3> QED
      BY <3>2, <3>3
  <2> QED
    BY <2>1, <2>3, IniAssumption
<1>4. \A k, l \in EntryKeys :
        /\ Get(d, k) = Torn /\ Get(s, k) # Torn
        /\ Get(d, l) = Torn /\ Get(s, l) # Torn
        => k = l
  BY <1>3
<1>5. \A k \in EntryKeys : Get(d, k) \in {Null, Torn, iniparser_line(Get(s, k))}
  BY <1>3
<1> QED
  BY <1>4, <1>5, Zenon DEF TornFrom

(* What LoadDump gives is what RestartKeeps is about.                      *)
LEMMA RestoredKept ==
  ASSUME NEW d, NEW s, Restored(d, s)
  PROVE  KeptFrom(d, s)
<1>1. \A k \in EntryKeys : EntryKey(k)
  BY KeyFacts
<1> QED
  BY <1>1, Zenon DEF Restored, KeptFrom

(* A crash can come before the first line.                                 *)
LEMMA NothingWritten ==
  ASSUME NEW lines \in Seq(Line)
  PROVE  <<>> \in Partial(lines) /\ \A p \in Partial(<<>>) : p = <<>>
<1>1. Len(lines) \in Nat /\ 0 \in 0..Len(lines)
  OBVIOUS
<1>2. SubSeq(lines, 1, 0) = <<>>
  OBVIOUS
<1>3. <<>> \in Partial(lines)
  BY <1>1, <1>2 DEF Partial
<1>4. ASSUME NEW p \in Partial(<<>>) PROVE p = <<>>
  <2>1. Len(<<>>) = 0 /\ 0..0 = {0} /\ 1..0 = {} /\ SubSeq(<<>>, 1, 0) = <<>>
    OBVIOUS
  <2> QED
    BY <2>1 DEF Partial
<1> QED
  BY <1>3, <1>4

(* After a stop or a crash during a save no thread is busy until the next  *)
(* request, and nothing of main comes in between.                          *)
Ended == ~hist.overlap /\ hist.end \in {"torn", "clean"}

(* The place of main tells how the last process ended.                     *)
LEMMA EndedIdle ==
  ASSUME IInv, HistOK, TornKept, CleanKept, Ended
  PROVE  /\ \A c \in Conns : ~Busy(c)
         /\ main \in {"free", "leave", "exited", "init", "up"}
<1>1. main \in {"free", "leave", "exited", "init", "up"}
  BY DEF TornKept, CleanKept, Ended
<1> QED
  BY <1>1 DEF IInv, Core, NoProcess, Alone, HistOK, Busy, Ended

(* The steps that are taken while a request is served leave the end as it  *)
(* was.                                                                    *)
LEMMA BusySteps ==
  ASSUME IInv, NEW c \in Conns, ConnStep(c), ~Accept(c), ~Disconnect(c),
         ~\E r \in Requests : Request(c, r)
  PROVE  Busy(c) /\ hist'.end = hist.end /\ hist'.overlap = hist.overlap
<1>0. ProcessTypes
  BY DEF IInv, Core
<1>1. CASE GetString(c) \/ UseString(c) \/ SetString(c) \/ UserBegin(c) \/ UserEnd(c) \/ NumGet(c)
  BY <1>1 DEF GetString, UseString, SetString, UserBegin, UserEnd, NumGet, At, Busy
<1>2. CASE NumSet(c) \/ SaveOpen(c)
  BY <1>2 DEF NumSet, SaveOpen, At, Busy
<1>3. CASE SaveDump(c)
  BY <1>0, <1>3 DEF SaveDump, At, Busy, ProcessTypes
<1>4. CASE SaveFails(c)
  BY <1>0, <1>4, Branches DEF Fails, Busy, ProcessTypes
<1>5. CASE Undefined(c)
  BY <1>5 DEF Undefined, Busy, Hazard, Access
<1> QED
  BY <1>1, <1>2, <1>3, <1>4, <1>5 DEF ConnStep

(* What a crash during a save leaves in the file.                          *)
LEMMA CrashLeaves ==
  ASSUME IInv, AloneSaves, ~hist.overlap, Crash, Saving
  PROVE  file' \in Partial(iniparser_dump_ini(dict))
<1>1. file = <<>> /\ DictOK
  BY DEF AloneSaves, IInv, Core
<1>2. PICK p \in Partial(Lines) : file' \in Overwrite(p, file)
  BY DEF Crash, Saving
<1>3. p \in Seq(AnyLine)
  BY <1>1, LinesWritten, PartialLines
<1>4. Len(p) \in Nat /\ Len(<<>>) = 0
  BY <1>3
<1>5. file' = p
  BY <1>1, <1>2, <1>4 DEF Overwrite
<1>6. CASE ptr = "live"
  BY <1>2, <1>5, <1>6 DEF Lines
<1>7. CASE ptr # "live"
  <2>1. iniparser_dump_ini(dict) \in Seq(Line)
    BY <1>1, Dumped DEF DictOK
  <2>2. p \in Partial(<<>>)
    BY <1>2, <1>7 DEF Lines
  <2> QED
    BY <1>5, <2>1, <2>2, NothingWritten
<1> QED
  BY <1>6, <1>7

(* What was saved, or was being saved, is in the file and then in the      *)
(* dictionary.                                                             *)
LEMMA EndKept ==
  ASSUME IInv, HistOK, SavedOK, SameLines, AloneSaves, TornKept, CleanKept, [Next]_vars
  PROVE  TornKept' /\ CleanKept'
<1> SUFFICES ASSUME Ended' PROVE TornKept' /\ CleanKept'
  BY DEF Ended, TornKept, CleanKept
<1>0. ConnTypes /\ ProcessTypes /\ NoProcess /\ Holds(dict) /\ ~hist'.overlap /\ ~hist.overlap
  BY HistGrows DEF IInv, Core, Ended, DictOK, HistLater
<1>1. CASE UNCHANGED <<dict, file, main, hist>>
  BY <1>1 DEF TornKept, CleanKept
<1>2. ASSUME NEW c \in Conns, ConnStep(c) PROVE TornKept' /\ CleanKept'
  <2>1. CASE Accept(c) \/ Disconnect(c)
    BY <1>1, <2>1 DEF Accept, Disconnect
  <2>2. CASE \E r \in Requests : Request(c, r)
    <3>1. hist'.end = "none"
      BY <1>0, <2>2 DEF Request, ProcessTypes
    <3> QED
      BY <3>1 DEF Ended
  <2>3. CASE ~Accept(c) /\ ~Disconnect(c) /\ ~\E r \in Requests : Request(c, r)
    <3>1. Busy(c) /\ hist'.end = hist.end /\ hist'.overlap = hist.overlap
      BY <1>2, <2>3, BusySteps
    <3>2. Ended
      BY <3>1 DEF Ended
    <3> QED
      BY <3>1, <3>2, EndedIdle
  <2> QED
    BY <2>1, <2>2, <2>3
<1>3. CASE ParamInit
  <2>1. /\ main = "init" /\ main' = "up" /\ hist'.end = hist.end /\ hist'.saved = hist.saved
        /\ hist'.fresh => ~Unreadable(file) \/ file' = Factory
    BY <1>0, <1>3 DEF ParamInit, ProcessTypes
  <2>2. ASSUME hist.end = "torn" PROVE TornKept'
    <3>1. Holds(hist.saved) /\ file \in Partial(iniparser_dump_ini(hist.saved))
      BY <1>0, <2>1, <2>2 DEF TornKept
    <3>2. ASSUME hist'.fresh, Unreadable(file) PROVE TornFrom(dict', hist.saved)
      <4>1. dict' = FactoryDict
        BY <1>3, <2>1, <3>2, FactoryLines DEF ParamInit, FactoryDict
      <4> QED
        BY <4>1 DEF TornFrom
    <3>3. ASSUME ~Unreadable(file), Straight(hist.saved) PROVE TornFrom(dict', hist.saved)
      <4>1. dict' = iniparser_load(file)
        BY <1>3, <3>3 DEF ParamInit
      <4> QED
        BY <3>1, <3>3, <4>1, LoadPartial, PartTorn
    <3> QED
      BY <2>1, <3>1, <3>2, <3>3 DEF TornKept
  <2>3. ASSUME hist.end = "clean" PROVE CleanKept'
    <3>1. Holds(hist.saved) /\ file = iniparser_dump_ini(hist.saved)
      BY <1>0, <2>1, <2>3 DEF CleanKept
    <3>2. ASSUME Fits(hist.saved) PROVE KeptFrom(dict', hist.saved)
      <4>1. ~Unreadable(file) /\ Restored(iniparser_load(file), hist.saved)
        BY <3>1, <3>2, LoadDump DEF Fits
      <4>2. dict' = iniparser_load(file)
        BY <1>3, <4>1 DEF ParamInit
      <4> QED
        BY <4>1, <4>2, RestoredKept
    <3> QED
      BY <2>1, <3>1, <3>2 DEF CleanKept
  <2> QED
    BY <2>1, <2>2, <2>3 DEF TornKept, CleanKept
<1>4. CASE Stop
  <2>1. hist'.end = "none"
    BY <1>0, <1>4 DEF Stop, ProcessTypes
  <2> QED
    BY <2>1 DEF Ended
<1>5. CASE Deinit \/ DeinitOpen \/ DeinitOpenFails \/ (DeinitDump /\ ~DumpsAll)
  <2>1. main \in {"stop", "open", "dump"} /\ hist'.end = hist.end /\ hist'.overlap = hist.overlap
    BY <1>0, <1>5, Branches DEF Deinit, DeinitOpen, OpenFails, ProcessTypes
  <2>2. Ended
    BY <2>1 DEF Ended
  <2> QED
    BY <2>1, <2>2, EndedIdle
<1>6. CASE DeinitDump /\ DumpsAll
  <2>1. /\ Saving /\ main = "dump" /\ main' = "free" /\ file' \in Overwrite(Lines, file)
        /\ hist'.end = "clean" /\ hist'.saved = dict
    BY <1>0, <1>6, Branches DEF DumpsAll, ProcessTypes, Saving
  <2>2. ptr = "live"
    BY <1>0, <2>1 DEF AloneSaves
  <2>3. file' = iniparser_dump_ini(dict)
    BY <2>1, <2>2, SavedLines DEF Lines, IInv, Core
  <2> QED
    BY <1>0, <2>1, <2>3 DEF TornKept, CleanKept
<1>7. CASE DeinitFree
  <2>1. main = "free" /\ main' \in {"free", "leave"} /\ UNCHANGED <<file, hist>>
    BY <1>7, Branches DEF Frees
  <2> QED
    BY <2>1 DEF TornKept, CleanKept
<1>8. CASE Exit \/ Boot
  <2>1. /\ main \in {"leave", "exited"} /\ main' \in {"exited", "init"} /\ file' = file
        /\ hist'.end = hist.end /\ hist'.saved = hist.saved /\ hist'.overlap = hist.overlap
    BY <1>0, <1>8 DEF Exit, Boot, ProcessTypes
  <2> QED
    BY <2>1 DEF TornKept, CleanKept
<1>9. CASE Crash
  <2>1. /\ main' = "init"
        /\ hist'.end = IF Saving THEN "torn" ELSE "crash"
        /\ Saving => hist'.saved = dict
    BY <1>0, <1>9 DEF Crash, Restart, ProcessTypes
  <2>2. Saving
    BY <2>1 DEF Ended
  <2>3. file' \in Partial(iniparser_dump_ini(dict))
    BY <1>0, <1>9, <2>2, CrashLeaves
  <2> QED
    BY <1>0, <2>1, <2>2, <2>3 DEF TornKept, CleanKept
<1>12. CASE PowerFails
  <2>1. PICK f \in old \union Partial(file) :
          /\ file' = f
          /\ hist' = [hist EXCEPT !.damage = TRUE, !.fresh = FALSE,
                        !.end = IF /\ hist.saved # Null /\ file = iniparser_dump_ini(hist.saved)
                                   /\ f \in Partial(file)
                                THEN "torn" ELSE "lost"]
    BY <1>12, Zenon DEF PowerFails
  <2>2. /\ hist'.saved = hist.saved
        /\ hist'.end = IF /\ hist.saved # Null /\ file = iniparser_dump_ini(hist.saved)
                          /\ f \in Partial(file)
                       THEN "torn" ELSE "lost"
    BY <1>0, <2>1 DEF ProcessTypes
  <2>3. /\ hist'.end = "torn" /\ hist.saved # Null
        /\ file' \in Partial(iniparser_dump_ini(hist.saved))
    BY <2>1, <2>2 DEF Ended
  <2>4. main' = "init"
    BY <1>12 DEF PowerFails, Restart
  <2> QED
    BY <2>2, <2>3, <2>4 DEF TornKept, CleanKept, SavedOK
<1>13. CASE Sync \/ BackgroundRead \/ BackgroundDone
  BY <1>1, <1>13 DEF Sync, BackgroundRead, BackgroundDone
<1>10. CASE MainStep
  BY <1>10, <1>3, <1>4, <1>5, <1>6, <1>7, <1>8, <1>9, <1>12, <1>13 DEF MainStep
<1>11. CASE UNCHANGED vars
  BY <1>1, <1>11 DEF vars
<1> QED
  BY StepKinds, <1>2, <1>10, <1>11

(* A thread alone that changes only its own place keeps the others idle.   *)
LEMMA OthersIdle ==
  ASSUME IInv, ~hist.overlap, NEW c \in Conns, Busy(c), NEW p \in Places,
         pc' = [pc EXCEPT ![c] = p], main' = main
  PROVE  /\ main = "up" /\ ptr # "freed"
         /\ \A y \in Conns \ {c} : pc[y] \in {"none", "idle"} /\ UserThread(y)'
         /\ pc'[c] = p
         /\ Saving <=> pc[c] = "dump"
         /\ Saving' <=> p = "dump"
<1>1. main = "up" /\ \A y \in Conns \ {c} : pc[y] \in {"none", "idle"}
  BY DEF IInv, Core, Alone, Busy
<1>2. \A y \in Conns \ {c} : pc'[y] = pc[y]
  BY DEF IInv, Core, ConnTypes
<1>3. pc'[c] = p
  BY DEF IInv, Core, ConnTypes
<1>4. \A y \in Conns \ {c} : UserThread(y)'
  BY <1>1, <1>2 DEF UserThread
<1>5. (Saving <=> pc[c] = "dump") /\ (Saving' <=> p = "dump")
  BY <1>1, <1>2, <1>3 DEF Saving
<1> QED
  BY <1>1, <1>3, <1>4, <1>5 DEF IInv, Core, NoProcess

(* The steps of a thread that serves a request.                            *)
LEMMA ServedCount ==
  ASSUME IInv, HistOK, Meant, StraightOK, SameLines, KeepsName, UsersCounted, Proper,
         ~hist'.damage, NEW c \in Conns,
         \/ GetString(c) \/ UseString(c) \/ SetString(c) \/ UserBegin(c) \/ UserEnd(c)
         \/ NumGet(c) \/ NumSet(c) \/ SaveOpen(c) \/ SaveDump(c)
  PROVE  CountInMemory' /\ CountInFile' /\ \A y \in Conns : UserThread(y)'
<1>0. /\ ConnTypes /\ ProcessTypes /\ Serves /\ Holds(dict)
      /\ CountInMemory /\ CountInFile /\ UserThread(c) /\ NameInMemory
      /\ Straight(dict) /\ ~hist.overlap
  BY DEF IInv, Core, DictOK, UsersCounted, KeepsName, StraightOK, Proper
<1>1. PICK p \in Places : pc' = [pc EXCEPT ![c] = p]
  BY DEF GetString, UseString, SetString, UserBegin, UserEnd, NumGet, NumSet, SaveOpen, SaveDump,
     Answered, Goto, Places
<1>2. Busy(c) /\ main' = main
  BY DEF GetString, UseString, SetString, UserBegin, UserEnd, NumGet, NumSet, SaveOpen, SaveDump,
     At, Busy
<1>3. /\ main = "up" /\ ptr # "freed"
      /\ \A y \in Conns \ {c} : pc[y] \in {"none", "idle"} /\ UserThread(y)'
      /\ pc'[c] = p
      /\ Saving <=> pc[c] = "dump"
      /\ Saving' <=> p = "dump"
  BY <1>0, <1>1, <1>2, OthersIdle
<1>4. ptr = "live" /\ Named(dict)
  BY <1>0, <1>3 DEF NameInMemory, ProcessTypes
<1>5. pc[c] \notin {"num_get", "num_set"} => Counted(dict)
  BY <1>0, <1>3 DEF CountInMemory
<1>6. req[c] \in Requests
  BY <1>0, <1>2 DEF Serves
<1>7. CountOf(dict) \in Int /\ NumOf(dict) \in Int
  BY <1>0, NumOfInt DEF CountOf
<1>8. SUFFICES UserThread(c)' /\ CountInFile' /\ (p \notin {"num_get", "num_set"} => Counted(dict'))
  BY <1>3 DEF CountInMemory
<1>9. ASSUME pc[c] # "dump", file' = file PROVE CountInFile'
  BY <1>0, <1>2, <1>3, <1>9 DEF CountInFile
<1>10. CASE GetString(c) \/ UseString(c)
  <2>1. /\ pc[c] \in {"get", "use"} /\ p \in {"use", "idle"} /\ UNCHANGED <<dict, file>>
    BY <1>0, <1>1, <1>3, <1>10 DEF GetString, UseString, At, Answered, Goto, ConnTypes
  <2> QED
    BY <1>3, <1>5, <1>9, <2>1 DEF UserThread
<1>11. CASE SetString(c)
  <2>1. /\ pc[c] = "set" /\ p = "idle" /\ file' = file
        /\ dict' = dictionary_set(dict, req[c].key, req[c].val)
    BY <1>0, <1>1, <1>3, <1>4, <1>11 DEF SetString, At, Answered, Goto, ConnTypes
  <2>2. req[c].key \in EntryKeys \ {NumKey} /\ req[c].key # Null
    BY <1>2, <1>6, <2>1, RequestVal DEF HistOK, Meant, Proper
  <2>3. Changes(dict, dict', req[c].key, req[c].val)
    BY <1>0, <2>1, <2>2, SetEffects
  <2>4. req[c].key \notin {FirstKey, SecondKey}
    BY <2>2, KeyFacts
  <2>5. NumOf(dict') = NumOf(dict) /\ CountOf(dict') = CountOf(dict)
    BY <2>2, <2>3, <2>4 DEF Changes
  <2> QED
    BY <1>3, <1>5, <1>9, <2>1, <2>5 DEF UserThread, Counted
<1>12. CASE UserBegin(c)
  <2>1. /\ UNCHANGED <<dict, file, req>>
        /\ \/ pc[c] = "add" /\ p = "adding"
           \/ pc[c] = "del" /\ p = "deleting"
    BY <1>0, <1>1, <1>3, <1>12 DEF UserBegin, At, Goto, ConnTypes
  <2> QED
    BY <1>0, <1>3, <1>5, <1>9, <2>1 DEF UserThread
<1>13. CASE UserEnd(c)
  <2>0. PICK u \in Users : UserEnds(c, u)
    BY <1>13, UserRequest
  <2>1. /\ pc[c] \in {"adding", "deleting"} /\ p = "num_get" /\ UNCHANGED <<file, req>>
        /\ req[c].op = IF pc[c] = "adding" THEN "add" ELSE "del"
        /\ <<req[c].key[1]>> = <<u>>
    BY <1>0, <1>1, <1>3, <2>0 DEF ConnTypes, UserEnds
  <2>2. Counted(dict)
    BY <1>5, <2>1
  <2>3. CASE pc[c] = "adding"
    <3>1. dict' = AddUser(dict, u, req[c].val)
      BY <1>4, <2>0, <2>3 DEF UserEnds
    <3>2. ~Has(dict, <<u>>)
      BY <1>0, <2>1, <2>3 DEF UserThread
    <3>3. NumOf(dict') = NumOf(dict) /\ CountOf(dict') = CountOf(dict) + 1
      BY <1>0, <3>1, <3>2, AddEffects DEF Added
    <3> QED
      BY <1>3, <1>7, <1>9, <2>1, <2>2, <2>3, <3>3 DEF UserThread, Counted
  <2>4. CASE pc[c] = "deleting"
    <3>1. dict' = dictionary_unset(dict, <<u>>)
      BY <1>4, <2>0, <2>4 DEF UserEnds
    <3>2. Has(dict, <<u>>)
      BY <1>0, <2>1, <2>4 DEF UserThread
    <3>3. NumOf(dict') = NumOf(dict) /\ CountOf(dict') = CountOf(dict) - 1
      BY <1>0, <3>1, <3>2, UnsetEffects
    <3> QED
      BY <1>3, <1>7, <1>9, <2>1, <2>2, <2>4, <3>3 DEF UserThread, Counted
  <2> QED
    BY <2>1, <2>3, <2>4
<1>14. CASE NumGet(c)
  <2>1. /\ pc[c] = "num_get" /\ p = "num_set" /\ UNCHANGED <<dict, file, req>>
        /\ num' = [num EXCEPT ![c] = NumOf(dict)]
    BY <1>0, <1>1, <1>3, <1>4, <1>14 DEF NumGet, At, Goto, ConnTypes
  <2>2. num'[c] = NumOf(dict)
    BY <1>0, <2>1 DEF ConnTypes
  <2> QED
    BY <1>0, <1>3, <1>9, <2>1, <2>2 DEF UserThread
<1>15. CASE NumSet(c)
  <2>1. /\ pc[c] = "num_set" /\ p = "open" /\ file' = file
        /\ dict' = dictionary_set(dict, NumKey,
                     Plain(IF req[c].op = "add" THEN num[c] + 1 ELSE num[c] - 1))
    BY <1>0, <1>1, <1>3, <1>4, <1>15 DEF NumSet, At, Goto, ConnTypes
  <2>2. (IF req[c].op = "add" THEN num[c] + 1 ELSE num[c] - 1) = CountOf(dict)
    BY <1>0, <1>7, <2>1 DEF UserThread
  <2>3. PICK n \in Int : n = CountOf(dict)
    BY <1>7
  <2>4. dict' = dictionary_set(dict, NumKey, Plain(n))
    BY <2>1, <2>2, <2>3
  <2>5. Plain(n) # Torn /\ Plain(n).text = n
    <3>1. Plain(n) \in [text : Int, form : Forms] /\ Plain(n).text = n
      BY DEF Plain, Value, Forms
    <3> QED
      BY <3>1, IniAssumption
  <2>6. NumKey # Null /\ NumKey \notin {FirstKey, SecondKey}
    BY KeyFacts DEF EntryKeys
  <2>7. Changes(dict, dict', NumKey, Plain(n))
    BY <1>0, <2>4, <2>6, SetEffects
  <2>8. NumOf(dict') = n /\ CountOf(dict') = CountOf(dict)
    BY <2>5, <2>6, <2>7 DEF Changes
  <2> QED
    BY <1>3, <1>9, <2>1, <2>3, <2>8 DEF UserThread, Counted
<1>16. CASE SaveOpen(c)
  <2>1. pc[c] = "open" /\ p = "dump" /\ dict' = dict
    BY <1>0, <1>1, <1>3, <1>16 DEF SaveOpen, Goto, ConnTypes
  <2> QED
    BY <1>3, <1>5, <2>1 DEF UserThread, CountInFile
<1>17. CASE SaveDump(c)
  <2>1. pc[c] = "dump" /\ p = "idle" /\ dict' = dict /\ file' \in Overwrite(Lines, file)
    BY <1>0, <1>1, <1>3, <1>17 DEF SaveDump, At, Answered, Goto, ConnTypes
  <2>2. \/ Unreadable(file')
        \/ /\ NumOf(iniparser_load(file')) = NumOf(dict)
           /\ CountOf(iniparser_load(file')) = CountOf(dict)
    BY <1>0, <1>3, <1>4, <2>1, SavedName
  <2> QED
    BY <1>3, <1>5, <2>1, <2>2 DEF UserThread, CountInFile, Counted
<1> QED
  BY <1>10, <1>11, <1>12, <1>13, <1>14, <1>15, <1>16, <1>17

(* user_num goes with the sections, in the dictionary and in the file.     *)
LEMMA CountKept ==
  ASSUME IInv, HistOK, Meant, StraightOK, SameLines, KeepsName, AloneSaves, UsersCounted,
         [Next]_vars
  PROVE  UsersCounted'
<1> SUFFICES ASSUME Proper'
             PROVE  CountInMemory' /\ CountInFile' /\ \A y \in Conns : UserThread(y)'
  BY DEF UsersCounted
<1>0. /\ ConnTypes /\ ProcessTypes /\ NoProcess /\ Alone /\ Holds(dict)
      /\ Proper /\ ~hist.overlap /\ ~hist.damage /\ ~hist'.damage /\ Straight(dict)
  BY HistGrows DEF IInv, Core, DictOK, HistLater, Proper, StraightOK
<1>k. /\ CountInMemory /\ CountInFile /\ \A y \in Conns : UserThread(y)
      /\ NameInMemory /\ NameInFile
  BY <1>0 DEF UsersCounted, KeepsName, Proper
<1>1. CASE Quiet /\ UNCHANGED <<pc, req, num>>
  <2>1. CountInMemory' /\ CountInFile'
    BY <1>k, <1>1 DEF Quiet, CountInMemory, CountInFile, Saving
  <2>2. \A y \in Conns : UserThread(y)'
    BY <1>k, <1>1 DEF Quiet, UserThread
  <2> QED
    BY <2>1, <2>2
<1>2. ASSUME NEW c \in Conns, Accept(c) \/ Disconnect(c)
      PROVE  CountInMemory' /\ CountInFile' /\ \A y \in Conns : UserThread(y)'
  <2>1. /\ pc[c] \in {"none", "idle"} /\ pc'[c] \in {"none", "idle"}
        /\ \A y \in Conns \ {c} : pc'[y] = pc[y]
        /\ UNCHANGED <<dict, file, main, req, num>>
    BY <1>0, <1>2 DEF Accept, Disconnect, Goto, ConnTypes
  <2>2. CountInMemory' /\ CountInFile'
    BY <1>k, <2>1 DEF CountInMemory, CountInFile, Saving
  <2>3. \A y \in Conns : UserThread(y)'
    BY <1>k, <2>1 DEF UserThread
  <2> QED
    BY <2>2, <2>3
<1>3. ASSUME NEW c \in Conns, NEW r \in Requests, Request(c, r)
      PROVE  CountInMemory' /\ CountInFile' /\ \A y \in Conns : UserThread(y)'
  <2>1. /\ pc[c] = "idle" /\ pc'[c] = r.op /\ r.op \in {"get", "set", "add", "del"}
        /\ \A y \in Conns \ {c} : pc'[y] = pc[y]
        /\ UNCHANGED <<dict, file, main>>
    BY <1>0, <1>3, RequestFacts DEF Request, Goto, ConnTypes
  <2>2. \A y \in Conns \ {c} : ~Busy(y)
    BY <1>0, <1>3 DEF Request, ProcessTypes, Proper
  <2>3. /\ r.op = "add" => ~Has(dict, <<r.key[1]>>)
        /\ r.op = "del" => Has(dict, <<r.key[1]>>)
        /\ req'[c] = r
    BY <1>0, <1>3 DEF Request, ProcessTypes, ConnTypes, Proper, Misused
  <2>4. CountInMemory' /\ CountInFile'
    BY <1>k, <2>1, <2>2 DEF CountInMemory, CountInFile, Saving, Busy
  <2>5. \A y \in Conns : UserThread(y)'
    BY <2>1, <2>2, <2>3 DEF UserThread, Busy
  <2> QED
    BY <2>4, <2>5
<1>4. ASSUME NEW c \in Conns,
             \/ GetString(c) \/ UseString(c) \/ SetString(c) \/ UserBegin(c) \/ UserEnd(c)
             \/ NumGet(c) \/ NumSet(c) \/ SaveOpen(c) \/ SaveDump(c)
      PROVE  CountInMemory' /\ CountInFile' /\ \A y \in Conns : UserThread(y)'
  BY <1>0, <1>4, ServedCount
<1>5. ASSUME NEW c \in Conns, Undefined(c) \/ SaveFails(c) PROVE Quiet /\ UNCHANGED <<pc, req, num>>
  <2>1. SaveFails(c) => ~Fails(c)
    BY <1>0 DEF Fails, ProcessTypes
  <2>2. Quiet
    BY <1>5, <2>1, QuietConns DEF QuietConn
  <2>3. UNCHANGED <<pc, req, num>>
    BY <1>5, <2>1, Branches DEF Undefined, connVars
  <2> QED
    BY <2>2, <2>3
<1>6. ASSUME QuietMain PROVE Quiet /\ UNCHANGED <<pc, req, num>>
  <2>1. Quiet
    BY <1>6, QuietMains
  <2>2. UNCHANGED <<pc, req, num>>
    BY <1>6, Branches DEF QuietMain, vars, Stop, Deinit, Boot, Sync, BackgroundRead, BackgroundDone,
       connVars
  <2> QED
    BY <2>1, <2>2
<1>7. CASE ParamInit
  <2>1. main = "init" /\ main' = "up" /\ pc' = pc /\ \A y \in Conns : pc[y] = "none"
    BY <1>0, <1>7 DEF ParamInit, NoProcess, connVars
  <2>2. ~Saving /\ (~Unreadable(file) \/ file' = Factory)
    BY <1>0, <1>7, <2>1 DEF Saving, ParamInit, ProcessTypes
  <2>3. Counted(iniparser_load(file')) /\ dict' = iniparser_load(file')
    <3>1. CASE Unreadable(file)
      BY <1>7, <2>2, <3>1, FactoryLoaded, FactoryLines DEF ParamInit
    <3>2. CASE ~Unreadable(file)
      BY <1>k, <1>7, <2>2, <3>2 DEF ParamInit, CountInFile
    <3> QED
      BY <3>1, <3>2
  <2> QED
    BY <2>1, <2>3 DEF CountInMemory, CountInFile, UserThread
<1>8. CASE DeinitOpen
  <2>1. main = "open" /\ main' = "dump" /\ UNCHANGED <<dict, pc, req, num>>
    BY <1>8 DEF DeinitOpen, connVars
  <2> QED
    BY <1>k, <2>1 DEF CountInMemory, CountInFile, Saving, UserThread
<1>9. CASE Exit \/ Crash \/ PowerFails
  <2>0. Exit \/ Crash
    BY <1>0, <1>9 DEF PowerFails, ProcessTypes
  <2>1. /\ main \notin {"init", "exited"} /\ main' \in {"init", "exited"}
        /\ \A y \in Conns : pc'[y] = "none"
    BY <2>0 DEF Exit, Crash, Restart, ProcessEnds
  <2>2. ~Saving
    BY <1>0, <2>0 DEF Exit, Crash, ProcessTypes, Saving
  <2>3. file' = file
    BY <2>0, <2>2 DEF Exit, Crash
  <2> QED
    BY <1>k, <2>1, <2>2, <2>3 DEF CountInMemory, CountInFile, UserThread
<1>10. CASE DeinitOpenFails /\ OpenFails
  BY <1>0, <1>10 DEF OpenFails, ProcessTypes
<1>11. CASE DeinitDump /\ DumpsAll
  <2>1. /\ Saving /\ main = "dump" /\ main' = "free" /\ UNCHANGED <<ptr, dict, pc, req, num>>
        /\ file' \in Overwrite(Lines, file)
    BY <1>11, Branches DEF DumpsAll, Saving, connVars
  <2>2. ptr = "live" /\ Named(dict)
    BY <1>0, <1>k, <2>1 DEF AloneSaves, NameInMemory
  <2>3. \A y \in Conns : ~Busy(y)
    BY <1>0, <2>1 DEF Alone
  <2>4. Counted(dict)
    BY <1>k, <2>1, <2>3 DEF CountInMemory, Busy
  <2>5. Unreadable(file') \/ Counted(iniparser_load(file'))
    BY <1>0, <2>1, <2>2, <2>4, SavedName DEF Counted
  <2> QED
    BY <1>k, <2>1, <2>4, <2>5 DEF CountInMemory, CountInFile, UserThread
<1>12. CASE DeinitFree /\ Frees
  <2>1. main = "free" /\ main' = "leave" /\ UNCHANGED <<dict, file, pc, req, num>>
    BY <1>12, Branches DEF Frees
  <2> QED
    BY <1>k, <2>1 DEF CountInMemory, CountInFile, Saving, UserThread
<1>13. ASSUME NEW c \in Conns, ConnStep(c)
       PROVE  CountInMemory' /\ CountInFile' /\ \A y \in Conns : UserThread(y)'
  BY <1>1, <1>2, <1>3, <1>4, <1>5, <1>13 DEF ConnStep
<1>14. CASE LoudMain
  BY <1>7, <1>8, <1>9, <1>10, <1>11, <1>12, <1>14 DEF LoudMain
<1>15. ASSUME MainStep \/ UNCHANGED vars PROVE QuietMain \/ LoudMain
  BY <1>15, Zenon DEF MainStep, QuietMain, LoudMain
<1> QED
  BY StepKinds, <1>1, <1>6, <1>13, <1>14, <1>15

(* Every step keeps the second invariant.                                  *)
LEMMA NextSInv == IInv /\ SInv /\ [Next]_vars => SInv'
<1> SUFFICES ASSUME IInv, SInv, [Next]_vars PROVE SInv'
  OBVIOUS
<1>1. /\ HistOK /\ SavedOK /\ Meant /\ StraightOK /\ SameLines /\ KeepsName /\ AloneSaves
      /\ TornKept /\ CleanKept /\ UsersCounted
  BY DEF SInv
<1>2. HistOK' /\ SavedOK' /\ Meant' /\ StraightOK' /\ SameLines' /\ KeepsName' /\ AloneSaves'
  BY <1>1, HistKept, SavedKept, MeantKept, StraightKept, SameLinesKept, NameKept, AloneSavesKept
<1>3. TornKept' /\ CleanKept' /\ UsersCounted'
  BY <1>1, EndKept, CountKept
<1> QED
  BY <1>2, <1>3 DEF SInv

(* The dictionary, the file and the history belong together in every       *)
(* state.                                                                  *)
THEOREM Consistent == Spec => []SInv
<1>1. Init => SInv
  BY InitSInv
<1>2. IInv /\ SInv /\ [Next]_vars => SInv'
  BY NextSInv
<1> QED
  BY <1>1, <1>2, Inductive, PTL DEF Spec

(* strlen of a null string in a handler needs a user who is not there, a   *)
(* save or a copy of the factory's file that failed, was cut short or was  *)
(* lost, or a value that ends in a backslash: no other order of requests,  *)
(* stops, crashes between saves and restarts loses a name, even when two   *)
(* threads save at the same time.                                          *)
THEOREM NullCorrect == Spec => []NullOnlyAfterDamage
<1>1. SInv => NullOnlyAfterDamage
  BY DEF SInv, HistOK, KeepsName, AskedInVain, NullOnlyAfterDamage
<1> QED
  BY <1>1, Consistent, PTL

(* rk_param_deinit followed by rk_param_init restores every entry of a     *)
(* section that the dictionary has, without what the file does not keep of *)
(* a value, for whatever was set, added and deleted before, as long as     *)
(* every value fits its line and none ends in a backslash.                 *)
THEOREM RestartCorrect == Spec => []RestartKeeps
<1>1. SInv => RestartKeeps
  <2> SUFFICES ASSUME SInv, hist.fresh, hist.end = "clean", ~hist.overlap, Fits(hist.saved)
               PROVE  KeptFrom(dict, hist.saved)
    BY DEF RestartKeeps, KeptFrom
  <2>1. main = "up"
    BY DEF SInv, HistOK
  <2> QED
    BY <2>1 DEF SInv, CleanKept
<1> QED
  BY <1>1, Consistent, PTL

(* After a crash inside a save, or a power failure that left a part of it, *)
(* the process starts with the factory's parameters or with a part of what *)
(* it was saving, one entry cut short at most: the file is emptied first,  *)
(* so old and new lines never mix.                                         *)
THEOREM TornCorrect == Spec => []TornIsPrefix
<1>1. SInv => TornIsPrefix
  <2> SUFFICES ASSUME SInv, hist.fresh, hist.end = "torn", ~hist.overlap, Straight(hist.saved)
               PROVE  TornFrom(dict, hist.saved)
    BY Zenon DEF TornIsPrefix, TornFrom
  <2>1. main = "up"
    BY DEF SInv, HistOK
  <2> QED
    BY <2>1 DEF SInv, TornKept
<1> QED
  BY <1>1, Consistent, PTL

(* The sections of users are counted one by one.                           *)
LEMMA UsersOf ==
  ASSUME NEW d
  PROVE  Cardinality({u \in Users : Has(d, <<u>>)}) = CountOf(d)
<1> DEFINE U == {u \in Users : Has(d, <<u>>)}
<1>1. PICK first : first = "u0"
  OBVIOUS
<1>2. PICK second : second = "u1" /\ second # first
  BY <1>1
<1>3. FirstKey = <<first>> /\ SecondKey = <<second>> /\ Users = {first, second}
  BY <1>1, <1>2 DEF FirstKey, SecondKey, Users
<1>4. /\ Cardinality({}) = 0 /\ Cardinality({first}) = 1 /\ Cardinality({second}) = 1
      /\ IsFiniteSet({first})
  BY FS_EmptySet, FS_Singleton
<1>5. Cardinality({first, second}) = 2
  <2>1. {first, second} = {first} \union {second} /\ second \notin {first}
    BY <1>2
  <2>2. Cardinality({first} \union {second}) = Cardinality({first}) + 1
    BY <1>4, <2>1, FS_AddElement
  <2> QED
    BY <1>4, <2>1, <2>2
<1>6. CASE Has(d, FirstKey) /\ Has(d, SecondKey)
  <2>1. U = {first, second}
    BY <1>3, <1>6
  <2>2. CountOf(d) = 2
    BY <1>6 DEF CountOf
  <2> QED
    BY <1>5, <2>1, <2>2, Zenon
<1>7. CASE Has(d, FirstKey) /\ ~Has(d, SecondKey)
  <2>1. U = {first}
    BY <1>3, <1>7
  <2>2. CountOf(d) = 1
    BY <1>7 DEF CountOf
  <2> QED
    BY <1>4, <2>1, <2>2, Zenon
<1>8. CASE ~Has(d, FirstKey) /\ Has(d, SecondKey)
  <2>1. U = {second}
    BY <1>3, <1>8
  <2>2. CountOf(d) = 1
    BY <1>8 DEF CountOf
  <2> QED
    BY <1>4, <2>1, <2>2, Zenon
<1>9. CASE ~Has(d, FirstKey) /\ ~Has(d, SecondKey)
  <2>1. U = {}
    BY <1>3, <1>9
  <2>2. CountOf(d) = 0
    BY <1>9 DEF CountOf
  <2> QED
    BY <1>4, <2>1, <2>2, Zenon
<1> QED
  BY <1>6, <1>7, <1>8, <1>9

(* rk_system_add_user and rk_system_del_user keep user_num at the number   *)
(* of users' sections, over crashes and restarts: both are written by the  *)
(* same save. It needs clients that ask for nothing that makes the number  *)
(* wrong by itself, and no save that was damaged.                          *)
THEOREM UsersCorrect == Spec => []UsersConsistent
<1>1. SInv => UsersConsistent
  <2> SUFFICES ASSUME SInv, main = "up", \A c \in Conns : ~Busy(c), Proper
               PROVE  NumOf(dict) = Cardinality({u \in Users : Has(dict, <<u>>)})
    BY DEF UsersConsistent, Proper
  <2>1. CountInMemory
    BY DEF SInv, UsersCounted
  <2>2. Counted(dict)
    BY <2>1 DEF CountInMemory, Busy
  <2> QED
    BY <2>2, UsersOf DEF Counted
<1> QED
  BY <1>1, Consistent, PTL
=============================================================================
