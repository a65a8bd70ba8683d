------------------------ MODULE StorageFolderProofs ------------------------
(***************************************************************************)
(* Proofs about StorageFolder for every number of folders, every set of    *)
(* file names, times and sizes, and every number of files, of removals and *)
(* of add messages.                                                        *)
(***************************************************************************)
EXTENDS StorageFolder, FiniteSetTheorems, WellFoundedInduction, TLAPS

Event == [kind : {"close", "delete"}, folder : Folders, name : Names]

TypeOK ==
  /\ disk \in [Folders -> SUBSET File]
  /\ mount \in {"scanning", "mounted", "unmounted", "not_formatted"}
  /\ msg \in {"idle", "join"}
  /\ monitor \in {"none", "created", "running", "ended"}
  /\ events \in Seq(Event)
  /\ mon \in {NoFile} \union [folder : Folders, stat : File]
  /\ cur \in Folders
  /\ file \in {NoFile} \union [folder : Folders, name : Names]
  /\ pc \in {"unlist", "remove"} => file # NoFile

(* The names of a folder are the keys of its files.                        *)
NamesAreKeys ==
  \A f \in Folders : \A x, y \in disk[f] : x.name = y.name => x = y

(* Each list by itself, with what is counted of it.                        *)
Sorted(l) == \A i, j \in DOMAIN l : i < j => l[i].time >= l[j].time
Distinct(l) == \A i, j \in DOMAIN l : l[i].name = l[j].name => i = j

ListOK(l, n, t) ==
  /\ l \in Seq(File) /\ Sorted(l) /\ Distinct(l)
  /\ n = Len(l) /\ t = SpaceOf(l)

Lists ==
  /\ list \in [Folders -> Seq(File)]
  /\ fileNum \in [Folders -> Nat] /\ totalSpace \in [Folders -> Nat]
  /\ \A f \in Folders : ListOK(list[f], fileNum[f], totalSpace[f])

(* There is no monitor while the folders are read, and only a running one  *)
(* has events and files to add.                                            *)
WatchPhase ==
  /\ pc \in {"begin", "scan", "mount_test", "mount_set", "ended"} => monitor = "none"
  /\ ~watched => events = <<>> /\ mon = NoFile

(* A listed file is on the disk, or the monitor has yet to read of its     *)
(* deletion. Before the watch is set there is nobody to read of it, and    *)
(* the scan thread itself takes the file that it removes off the list;     *)
(* when the monitor has ended the list is only there to be freed.          *)
Deletion(f, n) == [kind |-> "delete", folder |-> f, name |-> n]
DeletedIn(es, f) == {n \in Names : \E i \in DOMAIN es : es[i] = Deletion(f, n)}
Deleted(f) == DeletedIn(events, f)

NoGhosts ==
  /\ monitor # "ended" =>
       \A f \in Folders : NameIn(f) \subseteq NameOn(f) \union Deleted(f)
  /\ mon # NoFile => mon.stat.name \in NameOn(mon.folder) \union Deleted(mon.folder)
  /\ monitor \in {"none", "created"} =>
       /\ pc = "unlist" => list[cur] # <<>> /\ Last(list[cur]).name = file.name
       /\ pc = "remove" => file.name \notin NameIn(cur)

IInv ==
  /\ TypeOK
  /\ NamesAreKeys
  /\ Lists
  /\ WatchPhase
  /\ NoGhosts
-----------------------------------------------------------------------------
(* Sets of numbers have a least element.                                   *)
LEMMA Least ==
  ASSUME NEW T, T \subseteq Nat, T # {}
  PROVE  \E x \in T : \A y \in T : x <= y
<1>1. PICK x \in T : \A y \in T : ~(<<y, x>> \in OpToRel(<, Nat))
  BY WFMin, NatLessThanWellFounded, Zenon
<1>2. \A y \in T : ~(y < x)
  BY <1>1, Zenon DEF OpToRel
<1> QED
  BY <1>2

(* Induction up to n, for a set in place of a predicate.                   *)
LEMMA UpTo ==
  ASSUME NEW n \in Nat, NEW T, 0 \in T, \A i \in 0..(n - 1) : i \in T => i + 1 \in T
  PROVE  0..n \subseteq T
<1> DEFINE bad == (0..n) \ T
<1> SUFFICES ASSUME bad # {} PROVE FALSE
  OBVIOUS
<1>0. bad \subseteq Nat
  OBVIOUS
<1>1. PICK m \in bad : \A y \in bad : m <= y
  BY <1>0, Least, Zenon
<1>2. m # 0 /\ m \in Nat /\ m <= n
  BY <1>1
<1>3. m - 1 \in 0..(n - 1) /\ m - 1 \notin bad
  BY <1>1, <1>2
<1>4. (m - 1) + 1 \in T
  BY <1>3
<1> QED
  BY <1>1, <1>2, <1>4

(* total_space is the last of the partial sums over the list.              *)
Sums(l, g) == g = [i \in 0..Len(l) |-> IF i = 0 THEN 0 ELSE g[i - 1] + l[i].space]

(* Files take some space.                                                  *)
LEMMA SpaceIsNat ==
  ASSUME NEW l \in Seq(File)
  PROVE  Len(l) \in Nat /\ \A i \in 1..Len(l) : l[i].space \in Nat
<1>1. Len(l) \in Nat /\ \A i \in 1..Len(l) : l[i] \in File
  OBVIOUS
<1>2. \A x \in File : x.space \in Nat
  BY FolderAssumption DEF File
<1> QED
  BY <1>1, <1>2

(* There are partial sums for every list.                                  *)
LEMMA SumsExist ==
  ASSUME NEW l \in Seq(File)
  PROVE  \E g : Sums(l, g)
<1> DEFINE Part(m, g) == /\ g \in [0..m -> Nat]
                         /\ g[0] = 0
                         /\ \A i \in 1..m : g[i] = g[i - 1] + l[i].space
           T == {m \in 0..Len(l) : \E g : Part(m, g)}
<1>0. Len(l) \in Nat /\ \A i \in 1..Len(l) : l[i].space \in Nat
  BY SpaceIsNat
<1>1. 0 \in T
  <2> DEFINE g == [i \in 0..0 |-> 0]
  <2>1. Part(0, g)
    OBVIOUS
  <2> HIDE DEF Part, g
  <2>2. \E f : Part(0, f)
    BY <2>1
  <2> QED
    BY <1>0, <2>2
<1>2. ASSUME NEW m \in 0..(Len(l) - 1), m \in T PROVE m + 1 \in T
  <2>1. PICK g : Part(m, g)
    BY <1>2
  <2> DEFINE h == [i \in 0..(m + 1) |-> IF i <= m THEN g[i] ELSE g[m] + l[m + 1].space]
  <2>2. h \in [0..(m + 1) -> Nat]
    BY <1>0, <2>1
  <2>3. h[0] = 0
    BY <1>0, <2>1
  <2>4. ASSUME NEW i \in 1..(m + 1) PROVE h[i] = h[i - 1] + l[i].space
    BY <1>0, <2>1
  <2>5. Part(m + 1, h)
    BY <2>2, <2>3, <2>4
  <2> HIDE DEF Part, h
  <2>6. \E f : Part(m + 1, f)
    BY <2>5
  <2> QED
    BY <1>0, <2>6
<1>3. Len(l) \in T
  <2> HIDE DEF T
  <2>1. 0..Len(l) \subseteq T
    BY <1>0, <1>1, <1>2, UpTo
  <2> QED
    BY <1>0, <2>1
<1>4. PICK g : Part(Len(l), g)
  BY <1>3
<1>5. Sums(l, g)
  BY <1>0, <1>4 DEF Sums
<1> QED
  BY <1>5

(* SpaceOf is the last of them.                                            *)
LEMMA SpaceFunction ==
  ASSUME NEW l \in Seq(File)
  PROVE  \E h \in [0..Len(l) -> Nat] :
           /\ h[0] = 0
           /\ \A i \in 1..Len(l) : h[i] = h[i - 1] + l[i].space
           /\ SpaceOf(l) = h[Len(l)]
<1>0. Len(l) \in Nat /\ \A i \in 1..Len(l) : l[i].space \in Nat
  BY SpaceIsNat
<1> DEFINE h == CHOOSE g : Sums(l, g)
<1>1. Sums(l, h)
  BY SumsExist, Zenon
<1>2. SpaceOf(l) = h[Len(l)]
  BY DEF SpaceOf, Sums
<1> HIDE DEF h
<1>3. h[0] = 0 /\ \A i \in 1..Len(l) : h[i] = h[i - 1] + l[i].space
  BY <1>0, <1>1 DEF Sums
<1>4. h \in [0..Len(l) -> Nat]
  <2> DEFINE T == {i \in 0..Len(l) : h[i] \in Nat}
  <2>1. 0 \in T
    BY <1>0, <1>3
  <2>2. ASSUME NEW i \in 0..(Len(l) - 1), i \in T PROVE i + 1 \in T
    <3>1. i + 1 \in 1..Len(l) /\ (i + 1) - 1 = i
      BY <1>0
    <3>2. h[i + 1] = h[i] + l[i + 1].space
      BY <1>3, <3>1
    <3> QED
      BY <1>0, <2>2, <3>1, <3>2
  <2> HIDE DEF T
  <2>3. 0..Len(l) \subseteq T
    BY <1>0, <2>1, <2>2, UpTo
  <2>4. \A i \in 0..Len(l) : h[i] \in Nat
    BY <2>3 DEF T
  <2> QED
    BY <1>1, <2>4 DEF Sums
<1> QED
  BY <1>2, <1>3, <1>4

-----------------------------------------------------------------------------
(* The files that rkipc_storage_file_list_add walks past are the first     *)
(* ones of the list.                                                       *)
LEMMA NewerPrefix ==
  ASSUME NEW l \in Seq(File), NEW t \in Nat
  PROVE  \E p \in 0..Len(l) :
           /\ Cardinality(Newer(l, t)) = p
           /\ \A i \in 1..p : l[i].time > t
           /\ p < Len(l) => l[p + 1].time <= t
<1> DEFINE T == {i \in 1..(Len(l) + 1) : i = Len(l) + 1 \/ ~(l[i].time > t)}
<1>0. Len(l) \in Nat /\ DOMAIN l = 1..Len(l) /\ \A i \in 1..Len(l) : l[i].time \in Nat
  <2>1. Len(l) \in Nat /\ DOMAIN l = 1..Len(l) /\ \A i \in 1..Len(l) : l[i] \in File
    OBVIOUS
  <2>2. \A x \in File : x.time \in Nat
    BY FolderAssumption DEF File
  <2> QED
    BY <2>1, <2>2
<1>1. T \subseteq Nat /\ Len(l) + 1 \in T
  BY <1>0
<1>2. PICK m \in T : \A y \in T : m <= y
  BY <1>1, Least, Zenon
<1> DEFINE p == m - 1
<1>3. p \in 0..Len(l) /\ m = p + 1
  BY <1>0, <1>2
<1>4. \A i \in 1..p : l[i].time > t
  BY <1>0, <1>2, <1>3
<1>5. p < Len(l) => l[p + 1].time <= t
  BY <1>0, <1>2, <1>3
<1> HIDE DEF p
<1>6. Newer(l, t) = 1..p
  <2>1. ASSUME NEW i \in Newer(l, t) PROVE i \in 1..p
    <3>1. i \in 1..Len(l) /\ \A j \in 1..i : l[j].time > t
      BY <1>0 DEF Newer
    <3>2. ASSUME p + 1 <= i PROVE FALSE
      BY <1>0, <1>3, <1>5, <3>1, <3>2
    <3> QED
      BY <1>0, <1>3, <3>1, <3>2
  <2>2. ASSUME NEW i \in 1..p PROVE i \in Newer(l, t)
    BY <1>0, <1>3, <1>4 DEF Newer
  <2> QED
    BY <2>1, <2>2
<1>7. Cardinality(1..p) = p
  <2>1. p \in Int /\ 1 \in Int
    BY <1>0, <1>3
  <2>2. Cardinality(1..p) = IF 1 > p THEN 0 ELSE p - 1 + 1
    BY <2>1, FS_Interval
  <2> QED
    BY <1>0, <1>3, <2>2
<1> QED
  BY <1>3, <1>4, <1>5, <1>6, <1>7

(* Where rkipc_storage_file_list_add puts the new file.                    *)
PutAt(l, x, p, m) ==
  /\ m \in Seq(File) /\ Len(m) = Len(l) + 1
  /\ \A i \in 1..p : m[i] = l[i] /\ l[i].time > x.time
  /\ m[p + 1] = x
  /\ \A i \in (p + 2)..(Len(l) + 1) : m[i] = l[i - 1]
  /\ p < Len(l) => l[p + 1].time <= x.time

(* It is put behind all that are newer.                                    *)
LEMMA InsertPlace ==
  ASSUME NEW l \in Seq(File), NEW x \in File
  PROVE  \E p \in 0..Len(l) : PutAt(l, x, p, Insert(l, x))
<1>0. Len(l) \in Nat /\ \A i \in 1..Len(l) : l[i] \in File
  OBVIOUS
<1>1. x.time \in Nat
  BY FolderAssumption DEF File
<1>2. PICK p \in 0..Len(l) : /\ Cardinality(Newer(l, x.time)) = p
                             /\ \A i \in 1..p : l[i].time > x.time
                             /\ p < Len(l) => l[p + 1].time <= x.time
  BY <1>1, NewerPrefix
<1>3. Insert(l, x) = [i \in 1..(Len(l) + 1) |->
                        IF i <= p THEN l[i] ELSE IF i = p + 1 THEN x ELSE l[i - 1]]
  BY <1>2 DEF Insert
<1>4. \A i \in 1..(Len(l) + 1) :
        (IF i <= p THEN l[i] ELSE IF i = p + 1 THEN x ELSE l[i - 1]) \in File
  BY <1>0, <1>2
<1>5. Insert(l, x) \in [1..(Len(l) + 1) -> File] /\ Len(l) + 1 \in Nat
  BY <1>0, <1>3, <1>4
<1>6. Insert(l, x) \in Seq(File) /\ Len(Insert(l, x)) = Len(l) + 1
  BY <1>5
<1>7. \A i \in 1..p : Insert(l, x)[i] = l[i] /\ l[i].time > x.time
  BY <1>0, <1>2, <1>3
<1>8. Insert(l, x)[p + 1] = x
  BY <1>0, <1>2, <1>3
<1>9. \A i \in (p + 2)..(Len(l) + 1) : Insert(l, x)[i] = l[i - 1]
  BY <1>0, <1>2, <1>3
<1>10. PutAt(l, x, p, Insert(l, x))
  BY <1>2, <1>6, <1>7, <1>8, <1>9 DEF PutAt
<1> QED
  BY <1>10

(* A sorted list stays sorted.                                             *)
LEMMA InsertSorted ==
  ASSUME NEW l \in Seq(File), NEW x \in File, Sorted(l)
  PROVE  Sorted(Insert(l, x))
<1> DEFINE m == Insert(l, x)
<1>0. Len(l) \in Nat /\ DOMAIN l = 1..Len(l) /\ \A i \in 1..Len(l) : l[i] \in File
  OBVIOUS
<1>a. \A y \in File : y.time \in Nat
  BY FolderAssumption DEF File
<1>1. PICK p \in 0..Len(l) : PutAt(l, x, p, m)
  BY InsertPlace
<1> HIDE DEF m
<1>2. /\ m \in Seq(File) /\ Len(m) = Len(l) + 1
      /\ \A i \in 1..p : m[i] = l[i] /\ l[i].time > x.time
      /\ m[p + 1] = x
      /\ \A i \in (p + 2)..(Len(l) + 1) : m[i] = l[i - 1]
      /\ p < Len(l) => l[p + 1].time <= x.time
  BY <1>1 DEF PutAt
<1>3. DOMAIN m = 1..(Len(l) + 1)
  BY <1>0, <1>2
<1>4. \A i, j \in 1..Len(l) : i < j => l[i].time >= l[j].time
  BY <1>0 DEF Sorted
<1>5. \A j \in (p + 1)..Len(l) : l[j].time <= x.time
  BY <1>0, <1>a, <1>2, <1>4
<1>6. ASSUME NEW i \in 1..(Len(l) + 1), NEW j \in 1..(Len(l) + 1), i < j
      PROVE  m[i].time >= m[j].time
  <2>1. CASE i <= p /\ j <= p
    BY <1>0, <1>2, <1>4, <1>6, <2>1
  <2>2. CASE i <= p /\ j = p + 1
    BY <1>0, <1>a, <1>2, <1>6, <2>2
  <2>3. CASE i <= p /\ j > p + 1
    <3>1. m[i] = l[i] /\ m[j] = l[j - 1] /\ i \in 1..Len(l) /\ j - 1 \in 1..Len(l) /\ i < j - 1
      BY <1>0, <1>2, <1>6, <2>3
    <3> QED
      BY <1>4, <3>1
  <2>4. CASE i = p + 1 /\ j > p + 1
    <3>1. m[i] = x /\ m[j] = l[j - 1] /\ j - 1 \in (p + 1)..Len(l)
      BY <1>0, <1>2, <1>6, <2>4
    <3>2. l[j - 1].time <= x.time /\ l[j - 1] \in File
      BY <1>0, <1>2, <1>5, <3>1
    <3> QED
      BY <1>a, <3>1, <3>2
  <2>5. CASE i > p + 1
    <3>1. /\ m[i] = l[i - 1] /\ m[j] = l[j - 1] /\ i - 1 < j - 1
          /\ i - 1 \in 1..Len(l) /\ j - 1 \in 1..Len(l)
      BY <1>0, <1>2, <1>6, <2>5
    <3> QED
      BY <1>4, <3>1
  <2> QED
    BY <1>0, <1>2, <1>6, <2>1, <2>2, <2>3, <2>4, <2>5
<1>7. Sorted(m)
  BY <1>3, <1>6 DEF Sorted
<1> QED
  BY <1>7 DEF m

(* Names of a list.                                                        *)
NamesOf(l) == {l[i].name : i \in DOMAIN l}

(* One name is added, and the names stay distinct if it is a new one.      *)
LEMMA InsertNames ==
  ASSUME NEW l \in Seq(File), NEW x \in File
  PROVE  /\ NamesOf(Insert(l, x)) = NamesOf(l) \union {x.name}
         /\ Distinct(l) /\ x.name \notin NamesOf(l) => Distinct(Insert(l, x))
<1> DEFINE m == Insert(l, x)
<1>0. Len(l) \in Nat /\ DOMAIN l = 1..Len(l)
  OBVIOUS
<1>1. PICK p \in 0..Len(l) : PutAt(l, x, p, m)
  BY InsertPlace
<1> HIDE DEF m
<1>2. /\ m \in Seq(File) /\ Len(m) = Len(l) + 1
      /\ \A i \in 1..p : m[i] = l[i] /\ l[i].time > x.time
      /\ m[p + 1] = x
      /\ \A i \in (p + 2)..(Len(l) + 1) : m[i] = l[i - 1]
      /\ p < Len(l) => l[p + 1].time <= x.time
  BY <1>1 DEF PutAt
<1>3. DOMAIN m = 1..(Len(l) + 1)
  BY <1>0, <1>2
<1> DEFINE Old(i) == IF i <= p THEN i ELSE i - 1
<1>4. \A i \in 1..(Len(l) + 1) : i # p + 1 => Old(i) \in 1..Len(l) /\ m[i] = l[Old(i)]
  BY <1>0, <1>2
<1>5. \A j \in 1..Len(l) : \E i \in 1..(Len(l) + 1) : m[i] = l[j]
  <2> TAKE j \in 1..Len(l)
  <2>1. CASE j <= p
    BY <1>0, <1>2, <2>1
  <2>2. CASE j > p
    <3>1. j + 1 \in (p + 2)..(Len(l) + 1) /\ (j + 1) - 1 = j /\ j + 1 \in 1..(Len(l) + 1)
      BY <1>0, <1>2, <2>2
    <3>2. m[j + 1] = l[j]
      BY <1>2, <3>1
    <3> QED
      BY <3>1, <3>2
  <2> QED
    BY <1>0, <1>2, <2>1, <2>2
<1>6. p + 1 \in 1..(Len(l) + 1) /\ m[p + 1] = x
  BY <1>0, <1>2
<1>7. NamesOf(m) = NamesOf(l) \union {x.name}
  <2> HIDE DEF Old
  <2>1. ASSUME NEW n \in NamesOf(m) PROVE n \in NamesOf(l) \union {x.name}
    BY <1>0, <1>3, <1>4, <1>6 DEF NamesOf
  <2>2. ASSUME NEW n \in NamesOf(l) PROVE n \in NamesOf(m)
    BY <1>0, <1>3, <1>5 DEF NamesOf
  <2>3. x.name \in NamesOf(m)
    BY <1>3, <1>6 DEF NamesOf
  <2> QED
    BY <2>1, <2>2, <2>3
<1>8. ASSUME Distinct(l), x.name \notin NamesOf(l) PROVE Distinct(m)
  <2>1. \A i, j \in 1..Len(l) : l[i].name = l[j].name => i = j
    BY <1>0, <1>8 DEF Distinct
  <2>2. \A i \in 1..Len(l) : l[i].name # x.name
    BY <1>0, <1>8 DEF NamesOf
  <2>3. ASSUME NEW i \in 1..(Len(l) + 1), NEW j \in 1..(Len(l) + 1), m[i].name = m[j].name
        PROVE  i = j
    <3>1. CASE i = p + 1 /\ j = p + 1
      BY <3>1
    <3>2. CASE i = p + 1 /\ j # p + 1
      BY <1>4, <1>6, <2>2, <2>3, <3>2
    <3>3. CASE i # p + 1 /\ j = p + 1
      BY <1>4, <1>6, <2>2, <2>3, <3>3
    <3>4. CASE i # p + 1 /\ j # p + 1
      <4>1. Old(i) = Old(j)
        <5> HIDE DEF Old
        <5>1. /\ Old(i) \in 1..Len(l) /\ m[i] = l[Old(i)]
              /\ Old(j) \in 1..Len(l) /\ m[j] = l[Old(j)]
          BY <1>4, <3>4
        <5> QED
          BY <2>1, <2>3, <5>1
      <4>2. i \in Int /\ j \in Int /\ p \in Int
        BY <1>0
      <4> QED
        BY <3>4, <4>1, <4>2
    <3> QED
      BY <3>1, <3>2, <3>3, <3>4
  <2> QED
    BY <1>3, <2>3 DEF Distinct
<1> QED
  BY <1>7, <1>8 DEF m

(* Counting up in rkipc_storage_file_list_add is counting again.           *)
LEMMA InsertSpace ==
  ASSUME NEW l \in Seq(File), NEW x \in File
  PROVE  SpaceOf(Insert(l, x)) = SpaceOf(l) + x.space
<1> DEFINE m == Insert(l, x)
<1>0. /\ Len(l) \in Nat /\ \A i \in 1..Len(l) : l[i].space \in Nat
      /\ x.space \in Nat
  BY SpaceIsNat, FolderAssumption DEF File
<1>1. PICK p \in 0..Len(l) : PutAt(l, x, p, m)
  BY InsertPlace
<1> HIDE DEF m
<1>2. /\ m \in Seq(File) /\ Len(m) = Len(l) + 1
      /\ \A i \in 1..p : m[i] = l[i] /\ l[i].time > x.time
      /\ m[p + 1] = x
      /\ \A i \in (p + 2)..(Len(l) + 1) : m[i] = l[i - 1]
      /\ p < Len(l) => l[p + 1].time <= x.time
  BY <1>1 DEF PutAt
<1>3. PICK g \in [0..Len(l) -> Nat] :
        /\ g[0] = 0
        /\ \A i \in 1..Len(l) : g[i] = g[i - 1] + l[i].space
        /\ SpaceOf(l) = g[Len(l)]
  BY SpaceFunction
<1>4. PICK h \in [0..(Len(l) + 1) -> Nat] :
        /\ h[0] = 0
        /\ \A i \in 1..(Len(l) + 1) : h[i] = h[i - 1] + m[i].space
        /\ SpaceOf(m) = h[Len(l) + 1]
  BY <1>2, SpaceFunction
<1> DEFINE T == {i \in 0..(Len(l) + 1) : h[i] = IF i <= p THEN g[i] ELSE g[i - 1] + x.space}
<1>5. 0 \in T
  BY <1>0, <1>2, <1>3, <1>4
<1>6. ASSUME NEW i \in 0..((Len(l) + 1) - 1), i \in T PROVE i + 1 \in T
  <2>0. i + 1 \in 1..(Len(l) + 1) /\ (i + 1) - 1 = i /\ i \in 0..Len(l)
    BY <1>0
  <2>1. h[i + 1] = h[i] + m[i + 1].space
    BY <1>4, <2>0
  <2>2. CASE i + 1 <= p
    <3>1. i + 1 \in 1..Len(l) /\ g[i + 1] = g[i] + l[i + 1].space /\ m[i + 1] = l[i + 1]
      BY <1>0, <1>2, <1>3, <2>0, <2>2
    <3>2. h[i] = g[i] /\ i + 1 \in 0..(Len(l) + 1)
      BY <1>6, <2>0, <2>2
    <3>3. h[i + 1] = g[i + 1]
      BY <2>1, <3>1, <3>2
    <3> QED
      BY <2>2, <3>2, <3>3
  <2>3. CASE i + 1 = p + 1
    <3>1. m[i + 1] = x
      BY <1>2, <2>3
    <3>2. i <= p /\ ~(i + 1 <= p)
      BY <1>0, <2>0, <2>3
    <3>3. h[i] = g[i]
      BY <1>6, <3>2
    <3>4. h[i + 1] = g[i] + x.space
      BY <2>1, <3>1, <3>3
    <3> QED
      BY <2>0, <3>2, <3>4
  <2>4. CASE i + 1 > p + 1
    <3>0. i \in 1..Len(l) /\ i - 1 \in 0..Len(l) /\ i + 1 \in (p + 2)..(Len(l) + 1)
      BY <1>0, <2>0, <2>4
    <3>1. g[i] = g[i - 1] + l[i].space /\ m[i + 1] = l[i]
      BY <1>2, <1>3, <2>0, <3>0
    <3>2. h[i] = g[i - 1] + x.space
      BY <1>0, <1>6, <2>0, <2>4
    <3>3. g[i - 1] \in Nat /\ l[i].space \in Nat
      BY <1>0, <1>3, <3>0
    <3>4. h[i + 1] = g[i] + x.space
      <4>1. h[i + 1] = (g[i - 1] + x.space) + l[i].space
        BY <2>1, <3>1, <3>2
      <4> QED
        BY <1>0, <3>1, <3>3, <4>1
    <3>5. ~(i + 1 <= p) /\ i + 1 \in 0..(Len(l) + 1)
      BY <2>0, <2>4
    <3> QED
      BY <2>0, <3>4, <3>5
  <2> QED
    BY <1>0, <1>2, <2>0, <2>2, <2>3, <2>4
<1>7. Len(l) + 1 \in T
  <2> HIDE DEF T
  <2>0. Len(l) + 1 \in Nat
    BY <1>0
  <2>1. 0..(Len(l) + 1) \subseteq T
    BY <2>0, <1>5, <1>6, UpTo
  <2> QED
    BY <1>0, <2>1
<1>8. SpaceOf(m) = SpaceOf(l) + x.space
  BY <1>0, <1>2, <1>3, <1>4, <1>7
<1> QED
  BY <1>8 DEF m

-----------------------------------------------------------------------------
(* What rkipc_storage_file_list_del has kept after so many files.          *)
Rests(l, n, g) ==
  g = [i \in 0..Len(l) |->
         IF i = 0 THEN <<>>
         ELSE IF l[i].name = n THEN g[i - 1] ELSE Append(g[i - 1], l[i])]

(* There is such a function for every list.                                *)
LEMMA RestsExist ==
  ASSUME NEW l \in Seq(File), NEW n
  PROVE  \E g : Rests(l, n, g)
<1> DEFINE Part(m, g) ==
             /\ g \in [0..m -> Seq(File)]
             /\ g[0] = <<>>
             /\ \A i \in 1..m :
                  g[i] = IF l[i].name = n THEN g[i - 1] ELSE Append(g[i - 1], l[i])
           T == {m \in 0..Len(l) : \E g : Part(m, g)}
<1>0. Len(l) \in Nat /\ \A i \in 1..Len(l) : l[i] \in File
  OBVIOUS
<1>1. 0 \in T
  <2> DEFINE g == [i \in 0..0 |-> <<>>]
  <2>1. <<>> \in Seq(File)
    OBVIOUS
  <2>2. Part(0, g)
    BY <2>1
  <2> HIDE DEF Part, g
  <2>3. \E f : Part(0, f)
    BY <2>2
  <2> QED
    BY <1>0, <2>3
<1>2. ASSUME NEW m \in 0..(Len(l) - 1), m \in T PROVE m + 1 \in T
  <2>1. PICK g : Part(m, g)
    BY <1>2
  <2> DEFINE new == IF l[m + 1].name = n THEN g[m] ELSE Append(g[m], l[m + 1])
             h == [i \in 0..(m + 1) |-> IF i <= m THEN g[i] ELSE new]
  <2>2. g[m] \in Seq(File) /\ l[m + 1] \in File
    BY <1>0, <2>1
  <2>3. new \in Seq(File)
    BY <2>2
  <2> HIDE DEF new
  <2>4. h \in [0..(m + 1) -> Seq(File)]
    BY <1>0, <2>1, <2>3
  <2>5. h[0] = <<>>
    BY <1>0, <2>1
  <2>6. ASSUME NEW i \in 1..(m + 1)
        PROVE  h[i] = IF l[i].name = n THEN h[i - 1] ELSE Append(h[i - 1], l[i])
    <3>1. CASE i <= m
      <4>1. i \in 1..m /\ i \in 0..(m + 1) /\ i - 1 \in 0..(m + 1) /\ i - 1 <= m
        BY <1>0, <3>1
      <4>2. h[i] = g[i] /\ h[i - 1] = g[i - 1]
        BY <3>1, <4>1
      <4> QED
        BY <2>1, <4>1, <4>2
    <3>2. CASE i = m + 1
      <4>1. i - 1 = m /\ h[m + 1] = new /\ h[m] = g[m]
        BY <1>0, <3>2
      <4> QED
        BY <3>2, <4>1 DEF new
    <3> QED
      BY <1>0, <3>1, <3>2
  <2>7. Part(m + 1, h)
    BY <2>4, <2>5, <2>6
  <2> HIDE DEF Part, h
  <2>8. \E f : Part(m + 1, f)
    BY <2>7
  <2> QED
    BY <1>0, <2>8
<1>3. Len(l) \in T
  <2> HIDE DEF T
  <2>1. 0..Len(l) \subseteq T
    BY <1>0, <1>1, <1>2, UpTo
  <2> QED
    BY <1>0, <2>1
<1>4. PICK g : Part(Len(l), g)
  BY <1>3
<1>5. \A i \in 0..Len(l) : i # 0 => i \in 1..Len(l)
  BY <1>0
<1>6. Rests(l, n, g)
  BY <1>4, <1>5 DEF Rests
<1> QED
  BY <1>6

(* What is left of a list are files of the list, in their order, without   *)
(* the deleted name.                                                       *)
Kept(l, n, i, r) ==
  /\ r \in Seq(File)
  /\ \A a \in DOMAIN r : \E m \in 1..i : r[a] = l[m] /\ l[m].name # n
  /\ Sorted(l) => Sorted(r)
  /\ Distinct(l) => Distinct(r)

(* The next file of the list is kept or dropped.                           *)
LEMMA KeptAppend ==
  ASSUME NEW l \in Seq(File), NEW n, NEW i \in 0..(Len(l) - 1), NEW r, Kept(l, n, i, r)
  PROVE  Kept(l, n, i + 1, IF l[i + 1].name = n THEN r ELSE Append(r, l[i + 1]))
<1>0. /\ Len(l) \in Nat /\ DOMAIN l = 1..Len(l) /\ i + 1 \in 1..Len(l) /\ l[i + 1] \in File
      /\ 1..i \subseteq 1..(i + 1) /\ 1..i \subseteq 1..Len(l)
      /\ \A m \in 1..i : m < i + 1
  OBVIOUS
<1>1. /\ r \in Seq(File)
      /\ \A a \in DOMAIN r : \E m \in 1..i : r[a] = l[m] /\ l[m].name # n
      /\ Sorted(l) => Sorted(r)
      /\ Distinct(l) => Distinct(r)
  BY DEF Kept
<1>2. CASE l[i + 1].name = n
  BY <1>0, <1>1, <1>2 DEF Kept
<1>3. CASE l[i + 1].name # n
  <2> DEFINE t == Append(r, l[i + 1])
  <2>1. /\ t \in Seq(File) /\ Len(r) \in Nat /\ DOMAIN r = 1..Len(r)
        /\ DOMAIN t = 1..(Len(r) + 1)
        /\ t[Len(r) + 1] = l[i + 1]
        /\ \A a \in 1..Len(r) : t[a] = r[a]
    BY <1>0, <1>1
  <2> HIDE DEF t
  <2>2. ASSUME NEW a \in DOMAIN t PROVE \E m \in 1..(i + 1) : t[a] = l[m] /\ l[m].name # n
    <3>1. CASE a = Len(r) + 1
      <4>1. i + 1 \in 1..(i + 1)
        BY <1>0
      <4> QED
        BY <1>3, <2>1, <3>1, <4>1
    <3>2. CASE a # Len(r) + 1
      <4>1. a \in 1..Len(r)
        BY <2>1, <3>2
      <4>2. PICK m \in 1..i : r[a] = l[m] /\ l[m].name # n
        BY <1>1, <2>1, <4>1
      <4>3. m \in 1..(i + 1) /\ t[a] = l[m]
        BY <1>0, <2>1, <4>1, <4>2
      <4> QED
        BY <4>2, <4>3
    <3> QED
      BY <3>1, <3>2
  <2>3. ASSUME Sorted(l) PROVE Sorted(t)
    <3> SUFFICES ASSUME NEW a \in DOMAIN t, NEW b \in DOMAIN t, a < b
                 PROVE  t[a].time >= t[b].time
      BY DEF Sorted
    <3>1. a \in 1..Len(r)
      BY <2>1
    <3>2. CASE b = Len(r) + 1
      <4>1. PICK m \in 1..i : r[a] = l[m]
        BY <1>1, <2>1, <3>1
      <4>2. m < i + 1 /\ m \in 1..Len(l)
        BY <1>0
      <4>3. l[m].time >= l[i + 1].time
        BY <1>0, <2>3, <4>2 DEF Sorted
      <4> QED
        BY <2>1, <3>1, <3>2, <4>1, <4>3
    <3>3. CASE b # Len(r) + 1
      <4>1. b \in 1..Len(r)
        BY <2>1, <3>3
      <4> QED
        BY <1>1, <2>1, <2>3, <3>1, <4>1 DEF Sorted
    <3> QED
      BY <3>2, <3>3
  <2>4. ASSUME Distinct(l) PROVE Distinct(t)
    <3>1. ASSUME NEW a \in 1..Len(r) PROVE t[a].name # l[i + 1].name
      <4>1. PICK m \in 1..i : r[a] = l[m]
        BY <1>1, <2>1
      <4>2. m # i + 1 /\ m \in 1..Len(l)
        BY <1>0
      <4>3. l[m].name # l[i + 1].name
        BY <1>0, <2>4, <4>2 DEF Distinct
      <4> QED
        BY <2>1, <4>1, <4>3
    <3>2. ASSUME NEW a \in 1..Len(r), NEW b \in 1..Len(r), t[a].name = t[b].name PROVE a = b
      BY <1>1, <2>1, <2>4, <3>2 DEF Distinct
    <3>3. \A a \in DOMAIN t : a = Len(r) + 1 \/ a \in 1..Len(r)
      BY <2>1
    <3> QED
      BY <2>1, <3>1, <3>2, <3>3 DEF Distinct
  <2>5. Kept(l, n, i + 1, t)
    BY <2>1, <2>2, <2>3, <2>4 DEF Kept
  <2> QED
    BY <1>3, <2>5 DEF t
<1> QED
  BY <1>2, <1>3

(* So rkipc_storage_file_list_del keeps the order and drops the name.      *)
LEMMA WithoutKept ==
  ASSUME NEW l \in Seq(File), NEW n
  PROVE  Kept(l, n, Len(l), Without(l, n))
<1>0. Len(l) \in Nat
  OBVIOUS
<1> DEFINE h == CHOOSE g : Rests(l, n, g)
<1>1. Rests(l, n, h)
  BY RestsExist, Zenon
<1>2. Without(l, n) = h[Len(l)]
  BY DEF Without, Rests
<1> HIDE DEF h
<1>3. /\ h[0] = <<>>
      /\ \A i \in 0..(Len(l) - 1) :
           h[i + 1] = IF l[i + 1].name = n THEN h[i] ELSE Append(h[i], l[i + 1])
  <2>1. 0 \in 0..Len(l)
    BY <1>0
  <2>2. ASSUME NEW i \in 0..(Len(l) - 1)
        PROVE  i + 1 \in 0..Len(l) /\ i + 1 # 0 /\ (i + 1) - 1 = i
    BY <1>0
  <2> QED
    BY <1>1, <2>1, <2>2 DEF Rests
<1> DEFINE T == {i \in 0..Len(l) : Kept(l, n, i, h[i])}
<1>4. 0 \in T
  <2>1. <<>> \in Seq(File) /\ DOMAIN <<>> = {}
    OBVIOUS
  <2>2. Kept(l, n, 0, <<>>)
    BY <2>1 DEF Kept, Sorted, Distinct
  <2> QED
    BY <1>0, <1>3, <2>2
<1>5. ASSUME NEW i \in 0..(Len(l) - 1), i \in T PROVE i + 1 \in T
  <2>1. Kept(l, n, i + 1, h[i + 1])
    BY <1>3, <1>5, KeptAppend
  <2> QED
    BY <1>0, <2>1
<1>6. 0..Len(l) \subseteq T
  <2> HIDE DEF T
  <2> QED
    BY <1>0, <1>4, <1>5, UpTo
<1> QED
  BY <1>0, <1>2, <1>6

-----------------------------------------------------------------------------
(* Events that are added at the end and read from the front.               *)
LEMMA DeletedAppend ==
  ASSUME NEW es \in Seq(Event), NEW e \in Event, NEW f \in Folders
  PROVE  /\ Append(es, e) \in Seq(Event)
         /\ DeletedIn(es, f) \subseteq DeletedIn(Append(es, e), f)
         /\ \A n \in Names : e = Deletion(f, n) => n \in DeletedIn(Append(es, e), f)
<1>1. /\ Append(es, e) \in Seq(Event) /\ Len(es) \in Nat
      /\ DOMAIN es = 1..Len(es) /\ DOMAIN Append(es, e) = 1..(Len(es) + 1)
      /\ Append(es, e)[Len(es) + 1] = e
      /\ \A i \in 1..Len(es) : Append(es, e)[i] = es[i]
  OBVIOUS
<1>2. Len(es) + 1 \in DOMAIN Append(es, e) /\ 1..Len(es) \subseteq DOMAIN Append(es, e)
  BY <1>1
<1> QED
  BY <1>1, <1>2 DEF DeletedIn

(* Handling an event leaves the deletions behind it.                       *)
LEMMA DeletedTail ==
  ASSUME NEW es \in Seq(Event), es # <<>>, NEW f \in Folders
  PROVE  /\ Tail(es) \in Seq(Event) /\ Head(es) \in Event
         /\ \A n \in DeletedIn(es, f) : n \in DeletedIn(Tail(es), f) \/ Head(es) = Deletion(f, n)
<1>1. /\ Tail(es) \in Seq(Event) /\ Head(es) \in Event /\ Len(es) \in Nat /\ Head(es) = es[1]
      /\ DOMAIN es = 1..Len(es) /\ DOMAIN Tail(es) = 1..(Len(es) - 1)
      /\ \A i \in 1..(Len(es) - 1) : Tail(es)[i] = es[i + 1]
  OBVIOUS
<1>2. ASSUME NEW n \in DeletedIn(es, f), Head(es) # Deletion(f, n)
      PROVE  n \in DeletedIn(Tail(es), f)
  <2>1. PICK i \in 1..Len(es) : es[i] = Deletion(f, n)
    BY <1>1 DEF DeletedIn
  <2>2. i # 1
    BY <1>1, <1>2, <2>1
  <2>3. i - 1 \in 1..(Len(es) - 1) /\ (i - 1) + 1 = i
    BY <1>1, <2>2
  <2>4. Tail(es)[i - 1] = Deletion(f, n)
    BY <1>1, <2>1, <2>3
  <2> QED
    BY <1>1, <2>3, <2>4 DEF DeletedIn
<1> QED
  BY <1>1, <1>2

(* The counted space is a number, 0 for the empty list.                    *)
LEMMA SpaceType ==
  ASSUME NEW l \in Seq(File)
  PROVE  SpaceOf(l) \in Nat /\ (l = <<>> => SpaceOf(l) = 0)
<1>0. Len(l) \in Nat /\ (l = <<>> => Len(l) = 0)
  OBVIOUS
<1>1. PICK h \in [0..Len(l) -> Nat] : h[0] = 0 /\ SpaceOf(l) = h[Len(l)]
  BY SpaceFunction
<1> QED
  BY <1>0, <1>1

(* One list changes.                                                       *)
LEMMA OneList ==
  ASSUME Lists, NEW f \in Folders, NEW l, ListOK(l, Len(l), SpaceOf(l)),
         list' = [list EXCEPT ![f] = l],
         fileNum' = [fileNum EXCEPT ![f] = Len(l)],
         totalSpace' = [totalSpace EXCEPT ![f] = SpaceOf(l)]
  PROVE  /\ Lists'
         /\ NameIn(f)' = NamesOf(l)
         /\ \A g \in Folders \ {f} : NameIn(g)' = NameIn(g)
<1>1. /\ list \in [Folders -> Seq(File)]
      /\ fileNum \in [Folders -> Nat] /\ totalSpace \in [Folders -> Nat]
      /\ \A g \in Folders : ListOK(list[g], fileNum[g], totalSpace[g])
  BY DEF Lists
<1>2. l \in Seq(File) /\ Len(l) \in Nat /\ SpaceOf(l) \in Nat
  BY SpaceType DEF ListOK
<1>3. /\ list' \in [Folders -> Seq(File)] /\ list'[f] = l
      /\ \A g \in Folders \ {f} : list'[g] = list[g]
  BY <1>1, <1>2
<1>4. /\ fileNum' \in [Folders -> Nat] /\ fileNum'[f] = Len(l)
      /\ \A g \in Folders \ {f} : fileNum'[g] = fileNum[g]
  BY <1>1, <1>2
<1>5. /\ totalSpace' \in [Folders -> Nat] /\ totalSpace'[f] = SpaceOf(l)
      /\ \A g \in Folders \ {f} : totalSpace'[g] = totalSpace[g]
  BY <1>1, <1>2
<1>6. ASSUME NEW g \in Folders PROVE ListOK(list'[g], fileNum'[g], totalSpace'[g])
  BY <1>1, <1>3, <1>4, <1>5
<1>7. Lists'
  BY <1>3, <1>4, <1>5, <1>6 DEF Lists
<1>8. NameIn(f)' = NamesOf(l) /\ \A g \in Folders \ {f} : NameIn(g)' = NameIn(g)
  BY <1>3 DEF NameIn, NamesOf
<1> QED
  BY <1>7, <1>8

(* rkipc_storage_file_list_add                                             *)
LEMMA Added ==
  ASSUME Lists, NEW f \in Folders, NEW x \in File, x.name \notin NameIn(f), file_list_add(f, x)
  PROVE  /\ Lists'
         /\ NameIn(f)' = NameIn(f) \union {x.name}
         /\ \A g \in Folders \ {f} : NameIn(g)' = NameIn(g)
<1> DEFINE l == Insert(list[f], x)
<1>1. /\ list[f] \in Seq(File) /\ Sorted(list[f]) /\ Distinct(list[f])
      /\ fileNum[f] = Len(list[f]) /\ totalSpace[f] = SpaceOf(list[f])
  BY DEF Lists, ListOK
<1>2. NameIn(f) = NamesOf(list[f])
  BY DEF NameIn, NamesOf
<1>3. Sorted(l) /\ Distinct(l) /\ NamesOf(l) = NameIn(f) \union {x.name}
  BY <1>1, <1>2, InsertSorted, InsertNames
<1>4. l \in Seq(File) /\ Len(l) = fileNum[f] + 1
  <2>1. PICK p \in 0..Len(list[f]) : PutAt(list[f], x, p, l)
    BY <1>1, InsertPlace
  <2> QED
    BY <1>1, <2>1 DEF PutAt
<1>5. SpaceOf(l) = totalSpace[f] + x.space
  BY <1>1, InsertSpace
<1>6. /\ list' = [list EXCEPT ![f] = l]
      /\ fileNum' = [fileNum EXCEPT ![f] = Len(l)]
      /\ totalSpace' = [totalSpace EXCEPT ![f] = SpaceOf(l)]
  BY <1>4, <1>5 DEF file_list_add, Lists
<1> HIDE DEF l
<1>7. ListOK(l, Len(l), SpaceOf(l))
  BY <1>3, <1>4 DEF ListOK
<1> QED
  BY <1>3, <1>6, <1>7, OneList

(* rkipc_storage_file_list_del                                             *)
LEMMA Dropped ==
  ASSUME Lists, NEW f \in Folders, NEW n, file_list_del(f, n)
  PROVE  /\ Lists'
         /\ NameIn(f)' \subseteq NameIn(f) \ {n}
         /\ \A g \in Folders \ {f} : NameIn(g)' = NameIn(g)
<1> DEFINE l == Without(list[f], n)
<1>1. list[f] \in Seq(File) /\ Sorted(list[f]) /\ Distinct(list[f])
  BY DEF Lists, ListOK
<1>2. Kept(list[f], n, Len(list[f]), l)
  BY <1>1, WithoutKept
<1>3. /\ list' = [list EXCEPT ![f] = l]
      /\ fileNum' = [fileNum EXCEPT ![f] = Len(l)]
      /\ totalSpace' = [totalSpace EXCEPT ![f] = SpaceOf(l)]
  BY DEF file_list_del
<1> HIDE DEF l
<1>4. ListOK(l, Len(l), SpaceOf(l))
  BY <1>1, <1>2 DEF Kept, ListOK
<1>5. NamesOf(l) \subseteq NameIn(f) \ {n}
  <2>1. DOMAIN list[f] = 1..Len(list[f])
    BY <1>1
  <2>2. \A a \in DOMAIN l : \E m \in DOMAIN list[f] : l[a] = list[f][m] /\ list[f][m].name # n
    BY <1>2, <2>1 DEF Kept
  <2> QED
    BY <2>2 DEF NamesOf, NameIn
<1> QED
  BY <1>3, <1>4, <1>5, OneList

-----------------------------------------------------------------------------
(* Steps that leave the lists alone.                                       *)
LEMMA ListsSame ==
  ASSUME Lists, UNCHANGED listVars
  PROVE  Lists' /\ \A f \in Folders : NameIn(f)' = NameIn(f)
  BY DEF Lists, listVars, NameIn

(* The invariant holds initially: nothing is listed.                       *)
LEMMA InitIInv == Init => IInv
<1> SUFFICES ASSUME Init PROVE IInv
  OBVIOUS
<1>1. TypeOK
  <2>1. <<>> \in Seq(Event) /\ 1 \in Folders
    BY FolderAssumption DEF Folders
  <2>2. disk \in [Folders -> SUBSET File]
    BY DEF Init
  <2> QED
    BY <2>1, <2>2 DEF Init, TypeOK
<1>2. NamesAreKeys
  BY DEF Init, NamesAreKeys
<1>3. Lists
  <2>1. <<>> \in Seq(File) /\ Len(<<>>) = 0 /\ DOMAIN <<>> = {}
    OBVIOUS
  <2>2. ListOK(<<>>, 0, 0)
    BY <2>1, SpaceType DEF ListOK, Sorted, Distinct
  <2> QED
    BY <2>1, <2>2 DEF Init, Lists
<1>4. WatchPhase
  BY DEF Init, WatchPhase, watched
<1>5. NoGhosts
  <2>1. \A f \in Folders : NameIn(f) = {}
    BY DEF Init, NameIn
  <2> QED
    BY <2>1 DEF Init, NoGhosts
<1> QED
  BY <1>1, <1>2, <1>3, <1>4, <1>5 DEF IInv

(* A step that lists nothing new, takes no file off the disk and leaves    *)
(* the two threads that delete where they are.                             *)
LEMMA GhostsKept ==
  ASSUME NoGhosts, UNCHANGED <<monitor, mon, pc, file, cur, list>>,
         \A f \in Folders : NameOn(f) \subseteq NameOn(f)' /\ Deleted(f) \subseteq Deleted(f)',
         TypeOK
  PROVE  NoGhosts'
<1>1. \A f \in Folders : NameIn(f)' = NameIn(f)
  BY DEF NameIn
<1>2. (mon # NoFile => mon.folder \in Folders) /\ cur \in Folders
  BY DEF TypeOK
<1> QED
  BY <1>1, <1>2 DEF NoGhosts

(* The recorders and the snapshot thread                                   *)
LEMMA Writes ==
  ASSUME IInv, NEW f \in Folders,
         \/ \E x \in File : OpenFile(f, x)
         \/ \E n \in Names : CloseFile(f, n)
  PROVE  IInv'
<1>0. TypeOK /\ NamesAreKeys /\ Lists /\ WatchPhase /\ NoGhosts
  BY DEF IInv
<1>1. UNCHANGED <<listVars, monitor, mon, scanVars, mountVars>>
  BY DEF OpenFile, CloseFile, monVars
<1>2. Lists'
  BY <1>0, <1>1, ListsSame
<1>3. ASSUME NEW x \in File, OpenFile(f, x) PROVE IInv'
  <2>1. /\ disk \in [Folders -> SUBSET File]
        /\ disk' = [disk EXCEPT ![f] = @ \union {x}]
        /\ x.name \notin NameOn(f)
        /\ UNCHANGED events
    BY <1>0, <1>3 DEF TypeOK, OpenFile, monVars
  <2>2. /\ disk' \in [Folders -> SUBSET File] /\ disk'[f] = disk[f] \union {x}
        /\ \A g \in Folders \ {f} : disk'[g] = disk[g]
    BY <2>1
  <2>3. TypeOK' /\ WatchPhase'
    BY <1>0, <1>1, <2>1, <2>2 DEF TypeOK, WatchPhase, watched, scanVars, mountVars
  <2>4. NamesAreKeys'
    BY <1>0, <2>1, <2>2 DEF NamesAreKeys, NameOn
  <2>5. \A g \in Folders : NameOn(g) \subseteq NameOn(g)' /\ Deleted(g) \subseteq Deleted(g)'
    BY <2>1, <2>2 DEF NameOn, Deleted
  <2>6. NoGhosts'
    BY <1>0, <1>1, <2>5, GhostsKept DEF scanVars, listVars
  <2> QED
    BY <1>2, <2>3, <2>4, <2>6 DEF IInv
<1>4. ASSUME NEW n \in Names, CloseFile(f, n) PROVE IInv'
  <2> DEFINE e == [kind |-> "close", folder |-> f, name |-> n]
  <2>1. UNCHANGED disk /\ events \in Seq(Event) /\ e \in Event
    BY <1>0, <1>4 DEF TypeOK, CloseFile, Event
  <2>2. events' = (IF watched THEN Append(events, e) ELSE events)
    BY <1>4 DEF CloseFile, Notify
  <2> HIDE DEF e
  <2>3. /\ events' \in Seq(Event)
        /\ \A g \in Folders : DeletedIn(events, g) \subseteq DeletedIn(events', g)
    BY <2>1, <2>2, DeletedAppend
  <2>4. TypeOK' /\ WatchPhase'
    BY <1>0, <1>1, <2>1, <2>2, <2>3 DEF TypeOK, WatchPhase, watched, scanVars, mountVars
  <2>5. NamesAreKeys'
    BY <1>0, <2>1 DEF NamesAreKeys
  <2>6. \A g \in Folders : NameOn(g) \subseteq NameOn(g)' /\ Deleted(g) \subseteq Deleted(g)'
    BY <2>1, <2>3 DEF NameOn, Deleted
  <2>7. NoGhosts'
    BY <1>0, <1>1, <2>6, GhostsKept DEF scanVars, listVars
  <2> QED
    BY <1>2, <2>4, <2>5, <2>7 DEF IInv
<1> QED
  BY <1>3, <1>4

(* The message thread                                                      *)
LEMMA Plugs ==
  ASSUME IInv, Message
  PROVE  IInv'
<1>0. TypeOK /\ NamesAreKeys /\ Lists /\ WatchPhase /\ NoGhosts
  BY DEF IInv
<1>1. UNCHANGED <<diskVars, listVars, monVars, cur, limit, file, total>>
  BY DEF Message, MonitorUnmount, DevRemove, JoinScan, DevAdd, DevAddFails, scanVars
<1>2. Lists' /\ NamesAreKeys'
  BY <1>0, <1>1, ListsSame DEF NamesAreKeys, diskVars
<1>3. /\ pc' = pc \/ (pc' = "begin" /\ pc = "ended")
      /\ mount' \in {"scanning", "mounted", "unmounted", "not_formatted"}
      /\ msg' \in {"idle", "join"}
  BY <1>0 DEF TypeOK, Message, MonitorUnmount, DevRemove, JoinScan, DevAdd, DevAddFails, scanVars
<1>4. TypeOK' /\ WatchPhase'
  BY <1>0, <1>1, <1>3 DEF TypeOK, WatchPhase, watched, diskVars, monVars
<1>5. NoGhosts'
  BY <1>0, <1>1, <1>3 DEF NoGhosts, NameIn, NameOn, Deleted, diskVars, listVars, monVars
<1> QED
  BY <1>2, <1>4, <1>5 DEF IInv

(* rkipc_storage_file_monitor_thread                                       *)
LEMMA Monitors ==
  ASSUME IInv, Monitor
  PROVE  IInv'
<1>0. TypeOK /\ NamesAreKeys /\ Lists /\ WatchPhase /\ NoGhosts
  BY DEF IInv
<1>1. UNCHANGED <<scanVars, mountVars>>
  BY DEF Monitor, MonitorStart, MonitorDelete, MonitorClose, MonitorAdd, MonitorExit
<1>2. CASE MonitorStart \/ MonitorExit
  <2>1. UNCHANGED <<diskVars, listVars, mon>> /\ mon = NoFile
    BY <1>0, <1>2 DEF MonitorStart, MonitorExit, WatchPhase, watched
  <2>2. Lists' /\ NamesAreKeys' /\ \A f \in Folders : NameIn(f)' = NameIn(f) /\ NameOn(f)' = NameOn(f)
    BY <1>0, <2>1, ListsSame DEF NamesAreKeys, diskVars, NameOn
  <2>3. CASE MonitorStart
    <3>1. monitor = "created" /\ monitor' = "running" /\ UNCHANGED events
      BY <2>3 DEF MonitorStart
    <3>2. TypeOK' /\ WatchPhase'
      BY <1>0, <1>1, <2>1, <3>1 DEF TypeOK, WatchPhase, watched, diskVars, scanVars, mountVars
    <3>3. NoGhosts'
      BY <1>0, <2>1, <2>2, <3>1 DEF NoGhosts, Deleted
    <3> QED
      BY <2>2, <3>2, <3>3 DEF IInv
  <2>4. CASE MonitorExit
    <3>1. monitor = "running" /\ monitor' = "ended" /\ events' = <<>> /\ <<>> \in Seq(Event)
      BY <2>4 DEF MonitorExit, watched
    <3>2. TypeOK' /\ WatchPhase'
      BY <1>0, <1>1, <2>1, <3>1 DEF TypeOK, WatchPhase, watched, diskVars, scanVars, mountVars
    <3>3. NoGhosts'
      BY <2>1, <3>1 DEF NoGhosts
    <3> QED
      BY <2>2, <3>2, <3>3 DEF IInv
  <2> QED
    BY <1>2, <2>3, <2>4
<1>3. CASE MonitorDelete
  <2>1. /\ monitor = "running" /\ mon = NoFile /\ events # <<>> /\ events' = Tail(events)
        /\ Head(events).kind = "delete" 
        /\ file_list_del(Head(events).folder, Head(events).name)
        /\ UNCHANGED <<diskVars, monitor, mon>>
    BY <1>3 DEF MonitorDelete, ReadEvent, watched
  <2>2. events \in Seq(Event)
    BY <1>0 DEF TypeOK
  <2>3. Head(events) \in Event /\ events' \in Seq(Event)
    BY <2>1, <2>2
  <2>4. PICK f \in Folders, n \in Names :
          Head(events) = Deletion(f, n) /\ Head(events).folder = f /\ Head(events).name = n
    BY <2>1, <2>3 DEF Event, Deletion
  <2>5. /\ Lists' /\ NameIn(f)' \subseteq NameIn(f) \ {n}
        /\ \A g \in Folders \ {f} : NameIn(g)' = NameIn(g)
    BY <1>0, <2>1, <2>4, Dropped
  <2>6. TypeOK' /\ WatchPhase' /\ NamesAreKeys'
    BY <1>0, <1>1, <2>1, <2>3
       DEF TypeOK, WatchPhase, NamesAreKeys, watched, diskVars, scanVars, mountVars
  <2>7. ASSUME NEW g \in Folders, NEW k \in NameIn(g)'
        PROVE  k \in NameOn(g)' \union Deleted(g)'
    <3>1. k \in NameOn(g) \union Deleted(g) /\ (g = f => k # n)
      BY <1>0, <2>1, <2>5 DEF NoGhosts
    <3>2. NameOn(g)' = NameOn(g)
      BY <2>1 DEF NameOn, diskVars
    <3>3. k \in DeletedIn(events, g) => k \in DeletedIn(events', g) \/ Head(events) = Deletion(g, k)
      BY <2>1, <2>2, DeletedTail
    <3>4. Head(events) = Deletion(g, k) => g = f /\ k = n
      BY <2>4 DEF Deletion
    <3> QED
      BY <3>1, <3>2, <3>3, <3>4 DEF Deleted
  <2>8. NoGhosts'
    BY <2>1, <2>7 DEF NoGhosts
  <2> QED
    BY <2>5, <2>6, <2>8 DEF IInv
<1>4. CASE MonitorAdd
  <2>1. mon # NoFile /\ mon' = NoFile /\ UNCHANGED <<diskVars, monitor, events>>
    BY <1>4 DEF MonitorAdd
  <2>2. monitor = "running" /\ \E f \in Folders, x \in File : mon.folder = f /\ mon.stat = x
    BY <1>0, <2>1 DEF TypeOK, WatchPhase, watched
  <2>x. PICK f \in Folders, x \in File : mon.folder = f /\ mon.stat = x
    BY <2>2
  <2>3. /\ Lists'
        /\ NameIn(f)' \subseteq NameIn(f) \union {x.name}
        /\ \A g \in Folders \ {f} : NameIn(g)' = NameIn(g)
    <3>1. CASE x.name \in NameIn(f)
      BY <1>0, <1>4, <2>2, <2>x, <3>1, ListsSame DEF MonitorAdd
    <3>2. CASE x.name \notin NameIn(f)
      <4>1. file_list_add(f, x)
        BY <1>4, <2>x, <3>2 DEF MonitorAdd
      <4> QED
        BY <1>0, <2>2, <2>x, <3>2, <4>1, Added
    <3> QED
      BY <3>1, <3>2
  <2>4. TypeOK' /\ WatchPhase' /\ NamesAreKeys'
    BY <1>0, <1>1, <2>1, <2>2, <2>x
       DEF TypeOK, WatchPhase, NamesAreKeys, watched, diskVars, scanVars, mountVars
  <2>5. \A g \in Folders : NameOn(g)' = NameOn(g) /\ Deleted(g)' = Deleted(g)
    BY <2>1 DEF NameOn, Deleted, diskVars
  <2>6. NoGhosts'
    BY <1>0, <2>1, <2>2, <2>x, <2>3, <2>5 DEF NoGhosts
  <2> QED
    BY <2>3, <2>4, <2>6 DEF IInv
<1>5. CASE MonitorClose
  <2>1. /\ monitor = "running" /\ mon = NoFile /\ events # <<>>
        /\ Head(events).kind = "close"
        /\ UNCHANGED <<listVars, monitor>>
    BY <1>5 DEF MonitorClose, ReadEvent, watched
  <2>2. events \in Seq(Event) /\ disk \in [Folders -> SUBSET File]
    BY <1>0 DEF TypeOK
  <2>3. Head(events) \in Event /\ Tail(events) \in Seq(Event)
    BY <2>1, <2>2
  <2>4. PICK f \in Folders, n \in Names : Head(events).folder = f /\ Head(events).name = n
    BY <2>3 DEF Event
  <2> DEFINE d == Deletion(f, n)
  <2>d. d \in Event
    BY DEF Event, Deletion
  <2>5. \A g \in Folders : DeletedIn(events, g) \subseteq DeletedIn(Tail(events), g)
    <3>1. \A g \in Folders : \A k : Head(events) # Deletion(g, k)
      BY <2>1 DEF Deletion
    <3> QED
      BY <2>1, <2>2, <3>1, DeletedTail
  <2>6. Lists' /\ \A g \in Folders : NameIn(g)' = NameIn(g)
    BY <1>0, <2>1, ListsSame
  <2>7. \A g \in Folders : NameIn(g) \subseteq NameOn(g) \union Deleted(g)
    BY <1>0, <2>1 DEF NoGhosts
  <2>8. CASE UNCHANGED <<disk, mon>> /\ events' = Tail(events)
    <3>1. TypeOK' /\ WatchPhase' /\ NamesAreKeys'
      BY <1>0, <1>1, <2>1, <2>3, <2>8
         DEF TypeOK, WatchPhase, NamesAreKeys, watched, scanVars, mountVars
    <3>2. \A g \in Folders : NameOn(g)' = NameOn(g) /\ Deleted(g) \subseteq Deleted(g)'
      BY <2>5, <2>8 DEF NameOn, Deleted
    <3>3. NoGhosts'
      BY <2>1, <2>6, <2>7, <2>8, <3>2 DEF NoGhosts
    <3> QED
      BY <2>6, <3>1, <3>3 DEF IInv
  <2>9. CASE /\ disk' = [disk EXCEPT ![f] = {x \in @ : x.name # n}]
             /\ events' = Append(Tail(events), d)
             /\ UNCHANGED mon
    <3> HIDE DEF d
    <3>1. /\ events' \in Seq(Event)
          /\ \A g \in Folders : DeletedIn(Tail(events), g) \subseteq DeletedIn(events', g)
          /\ n \in DeletedIn(events', f)
      <4>1. d = Deletion(f, n)
        BY DEF d
      <4> QED
        BY <2>3, <2>d, <2>9, <4>1, DeletedAppend
    <3>2. /\ disk' \in [Folders -> SUBSET File] /\ disk'[f] = {x \in disk[f] : x.name # n}
          /\ \A g \in Folders \ {f} : disk'[g] = disk[g]
      BY <2>2, <2>4, <2>9
    <3>3. TypeOK' /\ WatchPhase'
      BY <1>0, <1>1, <2>1, <2>9, <3>1, <3>2
         DEF TypeOK, WatchPhase, watched, scanVars, mountVars
    <3>4. NamesAreKeys'
      BY <1>0, <2>4, <3>2 DEF NamesAreKeys
    <3>5. \A g \in Folders : Deleted(g) \subseteq Deleted(g)'
      BY <2>5, <3>1 DEF Deleted
    <3>6. NameOn(f) \subseteq NameOn(f)' \union {n} /\ \A g \in Folders \ {f} : NameOn(g)' = NameOn(g)
      BY <3>2 DEF NameOn
    <3>7. n \in Deleted(f)'
      BY <3>1 DEF Deleted
    <3>8. NoGhosts'
      BY <2>1, <2>6, <2>7, <2>9, <3>5, <3>6, <3>7 DEF NoGhosts
    <3> QED
      BY <2>6, <3>3, <3>4, <3>8 DEF IInv
  <2>10. CASE /\ n \in NameOn(f)
              /\ mon' = [folder |-> f, stat |-> FileNamed(f, n)]
              /\ events' = Tail(events)
              /\ UNCHANGED disk
    <3>1. \E x \in disk[f] : x.name = n
      BY <2>10 DEF NameOn
    <3>2. FileNamed(f, n) \in disk[f] /\ FileNamed(f, n).name = n
      BY <3>1 DEF FileNamed
    <3>3. mon' \in [folder : Folders, stat : File] /\ mon'.folder = f /\ mon'.stat.name = n
      BY <2>2, <2>4, <2>10, <3>2
    <3>4. TypeOK' /\ WatchPhase' /\ NamesAreKeys'
      BY <1>0, <1>1, <2>1, <2>3, <2>10, <3>3
         DEF TypeOK, WatchPhase, NamesAreKeys, watched, scanVars, mountVars
    <3>5. \A g \in Folders : NameOn(g)' = NameOn(g) /\ Deleted(g) \subseteq Deleted(g)'
      BY <2>5, <2>10 DEF NameOn, Deleted
    <3>6. NoGhosts'
      BY <2>1, <2>4, <2>6, <2>7, <2>10, <3>3, <3>5 DEF NoGhosts
    <3> QED
      BY <2>6, <3>4, <3>6 DEF IInv
  <2> QED
    BY <1>5, <2>4, <2>8, <2>9, <2>10 DEF MonitorClose, Deletion
<1> QED
  BY <1>2, <1>3, <1>4, <1>5 DEF Monitor

(* Steps of the scan thread that touch neither list nor disk.              *)
LEMMA ScanTests ==
  ASSUME IInv, \/ BeginScan \/ MountTest \/ MountSet \/ StartRound
               \/ EnterFolder \/ TestLimit \/ CheckFreeSize
  PROVE  IInv'
<1>0. TypeOK /\ NamesAreKeys /\ Lists /\ WatchPhase /\ NoGhosts
  BY DEF IInv
<1>1. UNCHANGED <<disk, list, fileNum, totalSpace, events, mon, msg>>
  BY DEF BeginScan, MountTest, MountSet, StartRound, EnterFolder, TestLimit, CheckFreeSize,
         diskVars, listVars, monVars, mountVars
<1>2. Lists' /\ NamesAreKeys'
  BY <1>0, <1>1, ListsSame DEF NamesAreKeys, listVars
<1>3. \A f \in Folders : /\ NameIn(f)' = NameIn(f) /\ NameOn(f)' = NameOn(f)
                         /\ Deleted(f)' = Deleted(f)
  BY <1>1 DEF NameIn, NameOn, Deleted
<1>4. 1 \in Folders /\ (cur < NFolders => cur + 1 \in Folders)
  BY <1>0, FolderAssumption DEF TypeOK, Folders
<1>5. (mon # NoFile => mon.folder \in Folders) /\ cur \in Folders
  BY <1>0 DEF TypeOK
<1>6. CASE MountSet
  <2>1. monitor = "none" /\ monitor' = "created" /\ pc' = "wait" /\ mount' = "mounted" /\ UNCHANGED <<cur, file>>
    BY <1>0, <1>6 DEF MountSet, WatchPhase
  <2>2. TypeOK' /\ WatchPhase'
    BY <1>0, <1>1, <1>6, <2>1 DEF TypeOK, WatchPhase, watched, MountSet
  <2>3. NoGhosts'
    BY <1>0, <1>1, <1>3, <1>5, <2>1 DEF NoGhosts
  <2> QED
    BY <1>2, <2>2, <2>3 DEF IInv
<1>7. CASE BeginScan \/ MountTest \/ StartRound \/ EnterFolder \/ CheckFreeSize
  <2>1. UNCHANGED <<monitor, mount, file>> /\ cur' \in {cur, 1} /\ pc # "ended"
    BY <1>7 DEF BeginScan, MountTest, StartRound, EnterFolder, CheckFreeSize, monVars, mountVars
  <2>2. /\ pc' \in {"out", "scan", "mount_set", "folder", "size", "test", "wait"}
        /\ pc' \in {"scan", "mount_set"} => pc \in {"begin", "mount_test"}
    BY <1>7 DEF BeginScan, MountTest, StartRound, EnterFolder, CheckFreeSize
  <2>3. TypeOK' /\ WatchPhase'
    BY <1>0, <1>1, <1>4, <2>1, <2>2 DEF TypeOK, WatchPhase, watched
  <2>4. NoGhosts'
    BY <1>0, <1>1, <1>3, <1>5, <2>1, <2>2 DEF NoGhosts
  <2> QED
    BY <1>2, <2>3, <2>4 DEF IInv
<1>8. CASE TestLimit
  <2>1. pc = "test" /\ UNCHANGED <<monitor, mount>>
    BY <1>8 DEF TestLimit, monVars, mountVars
  <2>2. CASE UNCHANGED file /\ cur' \in Folders /\ pc' \in {"test", "folder", "size", "wait"}
    <3>1. TypeOK' /\ WatchPhase'
      BY <1>0, <1>1, <2>1, <2>2 DEF TypeOK, WatchPhase, watched
    <3>2. NoGhosts'
      BY <1>0, <1>1, <1>3, <1>5, <2>1, <2>2 DEF NoGhosts
    <3> QED
      BY <1>2, <3>1, <3>2 DEF IInv
  <2>3. CASE /\ list[cur] # <<>> /\ file' = [folder |-> cur, name |-> Last(list[cur]).name]
             /\ pc' = "unlist" /\ UNCHANGED cur
    <3>1. list[cur] \in Seq(File)
      BY <1>0, <1>5 DEF Lists
    <3>2. Len(list[cur]) \in 1..Len(list[cur])
      BY <2>3, <3>1
    <3>3. Last(list[cur]) \in File
      BY <3>1, <3>2 DEF Last
    <3>4. Last(list[cur]).name \in Names
      BY <3>3 DEF File
    <3>5. /\ file' \in [folder : Folders, name : Names] /\ file' # NoFile
          /\ file'.name = Last(list[cur]).name
      BY <1>5, <2>3, <3>4, FolderAssumption DEF NoFile, Folders
    <3>6. TypeOK' /\ WatchPhase'
      BY <1>0, <1>1, <2>1, <2>3, <3>5 DEF TypeOK, WatchPhase, watched
    <3>7. NoGhosts'
      BY <1>0, <1>1, <1>3, <1>5, <2>1, <2>3, <3>5 DEF NoGhosts, Last
    <3> QED
      BY <1>2, <3>6, <3>7 DEF IInv
  <2> QED
    BY <1>4, <1>5, <1>8, <2>1, <2>2, <2>3 DEF TestLimit, NextFolder
<1> QED
  BY <1>6, <1>7, <1>8

(* A folder has finitely many files, since it has finitely many names.     *)
LEMMA DiskFinite ==
  ASSUME TypeOK, NamesAreKeys, NEW f \in Folders
  PROVE  IsFiniteSet(disk[f])
<1> DEFINE key == [x \in disk[f] |-> x.name]
<1>1. disk[f] \subseteq File
  BY DEF TypeOK
<1>2. \A x \in disk[f] : x.name \in Names
  BY <1>1 DEF File
<1>3. key \in [disk[f] -> Names] /\ \A x, y \in disk[f] : key[x] = key[y] => x = y
  BY <1>2 DEF NamesAreKeys
<1>4. key \in Injection(disk[f], Names)
  BY <1>3 DEF Injection, IsInjective
<1> QED
  BY <1>4, FS_Injection, FolderAssumption

(* rkipc_storage_read_file_list                                            *)
LEMMA Reads ==
  ASSUME IInv, ReadFolder
  PROVE  IInv'
<1>0. TypeOK /\ NamesAreKeys /\ Lists /\ WatchPhase /\ NoGhosts
  BY DEF IInv
<1>1. PICK f \in Folders : f = cur
  BY <1>0 DEF TypeOK
<1>2. PICK S \in SUBSET disk[f] : \E s \in SetToSeqs(S) :
        /\ \A i, j \in DOMAIN s : i < j => s[i].time >= s[j].time
        /\ list' = [list EXCEPT ![f] = s]
        /\ fileNum' = [fileNum EXCEPT ![f] = Len(s)]
        /\ totalSpace' = [totalSpace EXCEPT ![f] = SpaceOf(s)]
  BY <1>1 DEF ReadFolder
<1>3. PICK s \in SetToSeqs(S) :
        /\ \A i, j \in DOMAIN s : i < j => s[i].time >= s[j].time
        /\ list' = [list EXCEPT ![f] = s]
        /\ fileNum' = [fileNum EXCEPT ![f] = Len(s)]
        /\ totalSpace' = [totalSpace EXCEPT ![f] = SpaceOf(s)]
  BY <1>2
<1>4. /\ s \in [1..Cardinality(S) -> S]
      /\ \A i, j \in 1..Cardinality(S) : i # j => s[i] # s[j]
  BY DEF SetToSeqs
<1>5. disk[f] \subseteq File /\ \A x, y \in disk[f] : x.name = y.name => x = y
  BY <1>0 DEF TypeOK, NamesAreKeys
<1>6. Cardinality(S) \in Nat
  <2>1. IsFiniteSet(disk[f])
    BY <1>0, DiskFinite
  <2>2. IsFiniteSet(S)
    BY <2>1, FS_Subset
  <2> QED
    BY <2>2, FS_CardinalityType
<1>7. s \in Seq(File) /\ DOMAIN s = 1..Cardinality(S)
  <2>1. s \in [1..Cardinality(S) -> File]
    BY <1>4, <1>5
  <2> QED
    BY <1>6, <2>1
<1>8. Distinct(s)
  <2> SUFFICES ASSUME NEW i \in DOMAIN s, NEW j \in DOMAIN s, s[i].name = s[j].name PROVE i = j
    BY DEF Distinct
  <2>1. s[i] \in disk[f] /\ s[j] \in disk[f]
    BY <1>4, <1>7
  <2>2. s[i] = s[j]
    BY <1>5, <2>1
  <2> QED
    BY <1>4, <1>7, <2>2
<1>9. ListOK(s, Len(s), SpaceOf(s))
  BY <1>3, <1>7, <1>8 DEF ListOK, Sorted
<1>10. Lists' /\ NameIn(f)' = NamesOf(s) /\ \A g \in Folders \ {f} : NameIn(g)' = NameIn(g)
  BY <1>0, <1>3, <1>9, OneList
<1>11. NamesOf(s) \subseteq NameOn(f)
  BY <1>4, <1>7 DEF NamesOf, NameOn
<1>12. /\ pc = "scan" /\ pc' \in {"scan", "mount_test"} /\ cur' \in Folders
       /\ UNCHANGED <<disk, events, mon, monitor, mount, msg, file>>
  BY <1>0, FolderAssumption DEF ReadFolder, TypeOK, Folders, diskVars, monVars, mountVars
<1>13. TypeOK' /\ WatchPhase' /\ NamesAreKeys'
  BY <1>0, <1>12 DEF TypeOK, WatchPhase, NamesAreKeys, watched
<1>14. \A g \in Folders : NameOn(g)' = NameOn(g) /\ Deleted(g)' = Deleted(g)
  BY <1>12 DEF NameOn, Deleted
<1>15. mon = NoFile
  BY <1>0, <1>12 DEF WatchPhase, watched
<1>16. NoGhosts'
  BY <1>0, <1>10, <1>11, <1>12, <1>14, <1>15 DEF NoGhosts
<1> QED
  BY <1>10, <1>13, <1>16 DEF IInv

(* The deletion of the oldest file, and the end of the thread              *)
LEMMA Deletes ==
  ASSUME IInv, UnlistLast \/ RemoveFile \/ ScanOut
  PROVE  IInv'
<1>0. TypeOK /\ NamesAreKeys /\ Lists /\ WatchPhase /\ NoGhosts
  BY DEF IInv
<1>1. PICK f \in Folders : f = cur
  BY <1>0 DEF TypeOK
<1>2. CASE UnlistLast
  <2>1. /\ pc = "unlist" /\ pc' \in {"crashed", "remove"}
        /\ UNCHANGED <<disk, events, mon, monitor, mount, msg, cur, file>>
    BY <1>2 DEF UnlistLast, diskVars, monVars, mountVars
  <2>2. CASE list[f] = <<>>
    <3>1. UNCHANGED listVars /\ pc' = "crashed"
      BY <1>1, <1>2, <2>2 DEF UnlistLast
    <3>2. Lists' /\ \A g \in Folders : NameIn(g)' = NameIn(g)
      BY <1>0, <3>1, ListsSame
    <3>3. TypeOK' /\ WatchPhase' /\ NamesAreKeys'
      BY <1>0, <2>1, <3>1 DEF TypeOK, WatchPhase, NamesAreKeys, watched
    <3>4. NoGhosts'
      <4>1. \A g \in Folders : NameOn(g)' = NameOn(g) /\ Deleted(g)' = Deleted(g)
        BY <2>1 DEF NameOn, Deleted
      <4>2. mon # NoFile => mon.folder \in Folders
        BY <1>0 DEF TypeOK
      <4> QED
        BY <1>0, <2>1, <3>1, <3>2, <4>1, <4>2 DEF NoGhosts
    <3> QED
      BY <3>2, <3>3, <3>4 DEF IInv
  <2>3. CASE list[f] # <<>>
    <3>1. PICK n : n = Last(list[f]).name
      OBVIOUS
    <3>2. file_list_del(f, n) /\ pc' = "remove"
      BY <1>1, <1>2, <2>3, <3>1 DEF UnlistLast
    <3>3. /\ Lists' /\ NameIn(f)' \subseteq NameIn(f) \ {n}
          /\ \A g \in Folders \ {f} : NameIn(g)' = NameIn(g)
      BY <1>0, <3>2, Dropped
    <3>4. TypeOK' /\ WatchPhase' /\ NamesAreKeys'
      BY <1>0, <2>1, <3>2 DEF TypeOK, WatchPhase, NamesAreKeys, watched
    <3>5. \A g \in Folders : NameOn(g)' = NameOn(g) /\ Deleted(g)' = Deleted(g)
      BY <2>1 DEF NameOn, Deleted
    <3>6. mon # NoFile => mon.folder \in Folders
      BY <1>0 DEF TypeOK
    <3>7. monitor \in {"none", "created"} => file.name = n
      BY <1>0, <1>1, <2>1, <3>1 DEF NoGhosts
    <3>8. NoGhosts'
      BY <1>0, <1>1, <2>1, <3>2, <3>3, <3>5, <3>6, <3>7 DEF NoGhosts
    <3> QED
      BY <3>3, <3>4, <3>8 DEF IInv
  <2> QED
    BY <2>2, <2>3
<1>3. CASE RemoveFile
  <2>1. /\ pc = "remove" /\ pc' = "test"
        /\ UNCHANGED <<listVars, mon, monitor, mount, msg, cur, file>>
    BY <1>3 DEF RemoveFile, mountVars
  <2>2. Lists' /\ \A g \in Folders : NameIn(g)' = NameIn(g)
    BY <1>0, <2>1, ListsSame
  <2>3. PICK n \in Names : n = file.name
    BY <1>0, <2>1 DEF TypeOK
  <2>4. CASE n \notin NameOn(f)
    <3>1. UNCHANGED <<disk, events>>
      BY <1>1, <1>3, <2>3, <2>4 DEF RemoveFile
    <3>2. TypeOK' /\ WatchPhase' /\ NamesAreKeys'
      BY <1>0, <2>1, <3>1 DEF TypeOK, WatchPhase, NamesAreKeys, watched
    <3>3. \A g \in Folders : NameOn(g)' = NameOn(g) /\ Deleted(g)' = Deleted(g)
      BY <3>1 DEF NameOn, Deleted
    <3>4. mon # NoFile => mon.folder \in Folders
      BY <1>0 DEF TypeOK
    <3>5. NoGhosts'
      BY <1>0, <2>1, <2>2, <3>3, <3>4 DEF NoGhosts
    <3> QED
      BY <2>2, <3>2, <3>5 DEF IInv
  <2>5. CASE n \in NameOn(f)
    <3> DEFINE d == Deletion(f, n)
    <3>1. /\ disk' = [disk EXCEPT ![f] = {x \in @ : x.name # n}]
          /\ events' = (IF watched THEN Append(events, d) ELSE events)
      BY <1>1, <1>3, <2>3, <2>5 DEF RemoveFile, Unlink, Notify, Deletion
    <3>2. d \in Event /\ d = Deletion(f, n)
      BY DEF Event, Deletion
    <3> HIDE DEF d
    <3>3. events \in Seq(Event) /\ disk \in [Folders -> SUBSET File]
      BY <1>0 DEF TypeOK
    <3>4. /\ disk' \in [Folders -> SUBSET File] /\ disk'[f] = {x \in disk[f] : x.name # n}
          /\ \A g \in Folders \ {f} : disk'[g] = disk[g]
      BY <3>1, <3>3
    <3>5. /\ events' \in Seq(Event)
          /\ \A g \in Folders : DeletedIn(events, g) \subseteq DeletedIn(events', g)
          /\ watched => n \in DeletedIn(events', f)
      BY <3>1, <3>2, <3>3, DeletedAppend
    <3>6. TypeOK' /\ WatchPhase'
      BY <1>0, <2>1, <3>1, <3>4, <3>5 DEF TypeOK, WatchPhase, watched
    <3>7. NamesAreKeys'
      BY <1>0, <3>4 DEF NamesAreKeys
    <3>8. /\ \A g \in Folders : Deleted(g) \subseteq Deleted(g)'
          /\ watched => n \in Deleted(f)'
      BY <3>5 DEF Deleted
    <3>9. NameOn(f) \subseteq NameOn(f)' \union {n} /\ \A g \in Folders \ {f} : NameOn(g)' = NameOn(g)
      BY <3>4 DEF NameOn
    <3>10. monitor \in {"none", "created"} => n \notin NameIn(f)
      BY <1>0, <1>1, <2>1, <2>3 DEF NoGhosts
    <3>11. (mon # NoFile => mon.folder \in Folders /\ watched)
      BY <1>0 DEF TypeOK, WatchPhase
    <3>12. monitor = "running" <=> watched
      BY DEF watched
    <3>13. monitor \in {"none", "created", "running", "ended"}
      BY <1>0 DEF TypeOK
    <3>14. NoGhosts'
      BY <1>0, <2>1, <2>2, <3>8, <3>9, <3>10, <3>11, <3>12, <3>13 DEF NoGhosts
    <3> QED
      BY <2>2, <3>6, <3>7, <3>14 DEF IInv
  <2> QED
    BY <2>4, <2>5
<1>4. CASE ScanOut
  <2>1. /\ monitor # "running" /\ monitor' = "none" /\ file' = NoFile /\ pc' = "ended" /\ pc = "out"
        /\ UNCHANGED <<disk, events, mon, mount, msg, cur>>
        /\ list' = [g \in Folders |-> <<>>]
        /\ fileNum' = [g \in Folders |-> 0]
        /\ totalSpace' = [g \in Folders |-> 0]
    BY <1>4 DEF ScanOut, diskVars, mountVars
  <2>2. Lists'
    <3>1. <<>> \in Seq(File) /\ Len(<<>>) = 0 /\ DOMAIN <<>> = {}
      OBVIOUS
    <3>2. ListOK(<<>>, 0, 0)
      BY <3>1, SpaceType DEF ListOK, Sorted, Distinct
    <3> QED
      BY <2>1, <3>1, <3>2 DEF Lists
  <2>3. TypeOK' /\ WatchPhase' /\ NamesAreKeys'
    BY <1>0, <2>1 DEF TypeOK, WatchPhase, NamesAreKeys, watched
  <2>4. \A g \in Folders : NameIn(g)' = {}
    BY <2>1 DEF NameIn
  <2>5. mon = NoFile
    BY <1>0, <2>1 DEF WatchPhase, watched
  <2>6. NoGhosts'
    BY <2>1, <2>4, <2>5 DEF NoGhosts
  <2> QED
    BY <2>2, <2>3, <2>6 DEF IInv
<1> QED
  BY <1>2, <1>3, <1>4

(* Every step preserves the invariant.                                     *)
LEMMA NextIInv == IInv /\ [Next]_vars => IInv'
<1> SUFFICES ASSUME IInv, [Next]_vars PROVE IInv'
  OBVIOUS
<1>1. CASE Writer
  BY <1>1, Writes DEF Writer
<1>2. CASE Monitor
  BY <1>2, Monitors
<1>3. CASE Scan
  BY <1>3, ScanTests, Reads, Deletes DEF Scan
<1>4. CASE Message
  BY <1>4, Plugs
<1>5. CASE UNCHANGED vars
  <2>1. UNCHANGED <<disk, list, fileNum, totalSpace, monitor, events, mon, pc, cur, file, mount, msg>>
    BY <1>5 DEF vars, diskVars, listVars, monVars, scanVars, mountVars
  <2>2. TypeOK' /\ NamesAreKeys' /\ Lists'
    BY <2>1 DEF IInv, TypeOK, NamesAreKeys, Lists
  <2>3. WatchPhase' /\ NoGhosts'
    BY <2>1 DEF IInv, WatchPhase, NoGhosts, watched, NameIn, NameOn, Deleted
  <2> QED
    BY <2>2, <2>3 DEF IInv
<1> QED
  BY <1>1, <1>2, <1>3, <1>4, <1>5 DEF Next

-----------------------------------------------------------------------------
(* The invariant of the proofs, up to the point where the model ends: the  *)
(* add message that starts a second scan thread beside a running one. What *)
(* follows from it is stated below as holding until then.                  *)
THEOREM Inductive == Spec => []IInv
  BY InitIInv, NextIInv, PTL DEF Spec

(* file_list_last is always an oldest listed file, however the clock was   *)
(* set while the files were written.                                       *)
THEOREM SortedCorrect == Spec => []ListSorted
<1>1. IInv => ListSorted
  BY DEF IInv, Lists, ListOK, Sorted, ListSorted
<1> QED
  BY <1>1, Inductive, PTL

(* No file is listed twice: what the scan thread listed while it was open  *)
(* is recognised by rkipc_storage_file_list_check when it is closed, as    *)
(* long as no add message has started a second scan thread.                *)
THEOREM DuplicatesCorrect == Spec => []NoDuplicateNames
<1>1. IInv => NoDuplicateNames
  BY DEF IInv, Lists, ListOK, Distinct, NoDuplicateNames
<1> QED
  BY <1>1, Inductive, PTL

(* file_num and total_space are those of the list, although they are       *)
(* counted up by rkipc_storage_file_list_add and counted again by          *)
(* rkipc_storage_file_list_del.                                            *)
THEOREM TotalsCorrect == Spec => []TotalsExact
<1>1. IInv => TotalsExact
  BY DEF IInv, Lists, ListOK, TotalsExact
<1> QED
  BY <1>1, Inductive, PTL

(* Whenever no event is left to read, every listed file is on the disk, as *)
(* long as no add message has started a second scan thread, whose folder   *)
(* array has no watch descriptors for the first one's monitor.             *)
THEOREM GhostsCorrect == Spec => []GhostsHealed
<1>1. IInv => GhostsHealed
  <2> SUFFICES ASSUME IInv, watched, events = <<>>, NEW f \in Folders
               PROVE  NameIn(f) \subseteq NameOn(f)
    BY DEF GhostsHealed
  <2>1. DOMAIN events = {}
    OBVIOUS
  <2>2. Deleted(f) = {}
    BY <2>1 DEF Deleted, DeletedIn
  <2> QED
    BY <2>2 DEF IInv, NoGhosts, watched
<1> QED
  BY <1>1, Inductive, PTL
============================================================================
