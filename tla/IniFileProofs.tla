--------------------------- MODULE IniFileProofs ---------------------------
(***************************************************************************)
(* Proofs about Dictionary and IniFile for every initial size, and all     *)
(* keys and values: whatever was set and unset before, and whenever the    *)
(* arrays have grown, dictionary_get finds what dictionary_set has stored  *)
(* last; iniparser_load gives back what iniparser_dump_ini has written,    *)
(* and of a part of it a part.                                             *)
(***************************************************************************)
EXTENDS IniFile, FiniteSetTheorems, SequenceTheorems, WellFoundedInduction, TLAPS

(* A dictionary as the functions of dictionary.c leave it.                 *)
Dict(d) ==
  /\ d = [size |-> d.size, n |-> d.n, key |-> d.key, val |-> d.val]
  /\ d.key = [i \in Slots(d) |-> d.key[i]]
  /\ d.val = [i \in Slots(d) |-> d.val[i]]
  /\ IsDictionary(d)
-----------------------------------------------------------------------------
(* Sets of numbers have a least element.                                   *)
LEMMA Least ==
  ASSUME NEW T, T \subseteq Nat, T # {}
  PROVE  \E x \in T : \A y \in T : x <= y
<1>1. PICK x \in T : \A y \in T : ~(<<y, x>> \in OpToRel(<, Nat))
  BY WFMin, NatLessThanWellFounded, Zenon
<1>2. \A y \in T : ~(y < x)
  BY <1>1, Zenon DEF OpToRel
<1> QED
  BY <1>2

(* n counts the used slots, so it is at most the size.                     *)
LEMMA Counts ==
  ASSUME NEW d, Dict(d)
  PROVE  /\ d.size \in Nat \ {0} /\ d.n \in Nat /\ d.n <= d.size
         /\ Slots(d) = 0..(d.size - 1)
         /\ IsFiniteSet(Used(d)) /\ d.n = Cardinality(Used(d)) /\ Used(d) \subseteq Slots(d)
         /\ d.n = d.size => Used(d) = Slots(d)
<1>1. d.size \in Nat \ {0} /\ d.n = Cardinality(Used(d)) /\ Slots(d) = 0..(d.size - 1)
  BY DEF Dict, IsDictionary, Slots
<1>2. IsFiniteSet(Slots(d)) /\ Cardinality(Slots(d)) = d.size
  <2>1. 0 \in Int /\ d.size - 1 \in Int
    BY <1>1
  <2>2. /\ IsFiniteSet(0..(d.size - 1))
        /\ Cardinality(0..(d.size - 1)) = IF 0 > d.size - 1 THEN 0 ELSE (d.size - 1) - 0 + 1
    BY <2>1, FS_Interval
  <2> QED
    BY <1>1, <2>2
<1>3. Used(d) \subseteq Slots(d)
  BY DEF Used
<1>4. /\ IsFiniteSet(Used(d)) /\ Cardinality(Used(d)) <= Cardinality(Slots(d))
      /\ Cardinality(Slots(d)) = Cardinality(Used(d)) => Slots(d) = Used(d)
  BY <1>2, <1>3, FS_Subset
<1>5. Cardinality(Used(d)) \in Nat
  BY <1>4, FS_CardinalityType
<1> QED
  BY <1>1, <1>2, <1>3, <1>4, <1>5

(* dictionary_get stops at the only slot with the key.                     *)
LEMMA FindSlot ==
  ASSUME NEW d, Dict(d), NEW k, k # Null
  PROVE  /\ Has(d, k) => Find(d, k) \in Slots(d) /\ d.key[Find(d, k)] = k
         /\ \A i \in Slots(d) : d.key[i] = k => Find(d, k) = i
<1>1. Slots(d) = 0..(d.size - 1) /\ d.size \in Nat \ {0}
  BY Counts
<1>2. ASSUME Has(d, k) PROVE Find(d, k) \in Slots(d) /\ d.key[Find(d, k)] = k
  <2> DEFINE T == {i \in Slots(d) : d.key[i] = k}
  <2>1. T \subseteq Nat /\ T # {}
    BY <1>1, <1>2 DEF Has
  <2>2. PICK i \in T : \A j \in T : i <= j
    BY <2>1, Least, Zenon
  <2>3. i \in Slots(d) /\ d.key[i] = k /\ \A j \in 0..(i - 1) : d.key[j] # k
    BY <1>1, <2>2
  <2> QED
    BY <2>3, Zenon DEF Find
<1>3. ASSUME NEW i \in Slots(d), d.key[i] = k PROVE Find(d, k) = i
  <2>1. Has(d, k)
    BY <1>3 DEF Has
  <2>2. Find(d, k) \in Used(d) /\ i \in Used(d)
    BY <1>2, <1>3, <2>1 DEF Used
  <2> QED
    BY <1>2, <1>3, <2>1, <2>2 DEF Dict, IsDictionary
<1> QED
  BY <1>2, <1>3

(* Below its size a dictionary has a free slot at or after slot n, or,     *)
(* going round, before it.                                                 *)
LEMMA FreeSlotExists ==
  ASSUME NEW d, Dict(d), d.n < d.size
  PROVE  FreeSlot(d) \in Slots(d) /\ d.key[FreeSlot(d)] = Null
<1> DEFINE From(i) == (i + d.size - d.n) % d.size
           free == {i \in Slots(d) : d.key[i] = Null}
           T == {From(i) : i \in free}
<1>1. /\ d.size \in Nat \ {0} /\ d.n \in Nat /\ Slots(d) = 0..(d.size - 1)
      /\ d.n = Cardinality(Used(d))
  BY Counts
<1>2. free # {}
  <2>1. ASSUME free = {} PROVE FALSE
    <3>1. Used(d) = 0..(d.size - 1)
      BY <1>1, <2>1 DEF Used
    <3>2. 0 \in Int /\ d.size - 1 \in Int
      BY <1>1
    <3>3. Cardinality(0..(d.size - 1)) = IF 0 > d.size - 1 THEN 0 ELSE (d.size - 1) - 0 + 1
      BY <3>2, FS_Interval
    <3> QED
      BY <1>1, <3>1, <3>3
  <2> QED
    BY <2>1
<1>3. \A i \in Slots(d) : From(i) \in Nat
  BY <1>1
<1>4. T \subseteq Nat /\ T # {}
  <2> HIDE DEF From
  <2> QED
    BY <1>2, <1>3
<1>5. PICK t \in T : \A u \in T : t <= u
  <2> HIDE DEF T
  <2> QED
    BY <1>4, Least, Zenon
<1>6. PICK i \in free : t = From(i)
  OBVIOUS
<1>7. i \in Slots(d) /\ d.key[i] = Null /\ \A j \in Slots(d) : d.key[j] = Null => From(i) <= From(j)
  <2> HIDE DEF From
  <2> QED
    BY <1>5, <1>6
<1> QED
  BY <1>7, Zenon DEF FreeSlot

(* What a dictionary answers for every key, in place of its slots.         *)
SameBut(d, e, k) ==
  \A l : l # Null /\ l # k =>
    /\ Has(e, l) <=> Has(d, l)
    /\ \A def : dictionary_get(e, l, def) = dictionary_get(d, l, def)

(* Two dictionaries with the same used slots answer alike, a key apart.    *)
LEMMA SameSlots ==
  ASSUME NEW d, Dict(d), NEW e, Dict(e), NEW k,
         \A i \in Slots(d) : d.key[i] \notin {k, Null} =>
           i \in Slots(e) /\ e.key[i] = d.key[i] /\ e.val[i] = d.val[i],
         \A i \in Slots(e) : e.key[i] \notin {k, Null} =>
           i \in Slots(d) /\ e.key[i] = d.key[i]
  PROVE  SameBut(d, e, k)
<1> SUFFICES ASSUME NEW l, l # Null, l # k
             PROVE  /\ Has(e, l) <=> Has(d, l)
                    /\ \A def : dictionary_get(e, l, def) = dictionary_get(d, l, def)
  BY DEF SameBut
<1>1. Has(e, l) <=> Has(d, l)
  BY DEF Has
<1>2. ASSUME Has(d, l) PROVE d.val[Find(d, l)] = e.val[Find(e, l)]
  <2>1. PICK i \in Slots(d) : d.key[i] = l
    BY <1>2 DEF Has
  <2>2. i \in Slots(e) /\ e.key[i] = l /\ e.val[i] = d.val[i]
    BY <2>1
  <2>3. Find(d, l) = i /\ Find(e, l) = i
    BY <2>1, <2>2, FindSlot
  <2> QED
    BY <2>2, <2>3
<1> QED
  BY <1>1, <1>2 DEF dictionary_get

(* A new key, in a dictionary with room for it.                            *)
LEMMA Inserted ==
  ASSUME NEW d, Dict(d), d.n < d.size, NEW k, k # Null, ~Has(d, k), NEW v
  PROVE  /\ Dict(Insert(d, k, v))
         /\ Has(Insert(d, k, v), k)
         /\ \A def : dictionary_get(Insert(d, k, v), k, def) = v
         /\ SameBut(d, Insert(d, k, v), k)
<1> DEFINE i == FreeSlot(d)
           e == Insert(d, k, v)
<1>1. i \in Slots(d) /\ d.key[i] = Null
  BY FreeSlotExists
<1>2. /\ d.size \in Nat \ {0} /\ d.n \in Nat /\ Slots(d) = 0..(d.size - 1)
      /\ IsFiniteSet(Used(d)) /\ d.n = Cardinality(Used(d)) /\ Used(d) \subseteq Slots(d)
  BY Counts
<1>3. /\ d = [size |-> d.size, n |-> d.n, key |-> d.key, val |-> d.val]
      /\ d.key = [j \in Slots(d) |-> d.key[j]]
      /\ d.val = [j \in Slots(d) |-> d.val[j]]
      /\ \A a, b \in Used(d) : d.key[a] = d.key[b] => a = b
  BY DEF Dict, IsDictionary
<1> HIDE DEF i
<1>4. e = [size |-> d.size, n |-> d.n + 1,
           key |-> [d.key EXCEPT ![i] = k], val |-> [d.val EXCEPT ![i] = v]]
  <2>1. d = [size |-> d.size, n |-> d.n, key |-> d.key, val |-> d.val]
    BY <1>3
  <2>2. e = [d EXCEPT !.key[i] = k, !.val[i] = v, !.n = @ + 1]
    BY DEF Insert, i
  <2> HIDE DEF e
  <2> QED
    BY <2>1, <2>2
<1> HIDE DEF e
<1>5. /\ e = [size |-> e.size, n |-> e.n, key |-> e.key, val |-> e.val]
      /\ e.size = d.size /\ e.n = d.n + 1 /\ Slots(e) = Slots(d)
      /\ e.key = [j \in Slots(d) |-> IF j = i THEN k ELSE d.key[j]]
      /\ e.val = [j \in Slots(d) |-> IF j = i THEN v ELSE d.val[j]]
  BY <1>3, <1>4 DEF Slots
<1>6. Used(e) = Used(d) \union {i} /\ i \notin Used(d)
  BY <1>1, <1>5 DEF Used
<1>7. Cardinality(Used(e)) = d.n + 1
  <2>1. Cardinality(Used(d) \union {i}) = IF i \in Used(d) THEN Cardinality(Used(d))
                                                          ELSE Cardinality(Used(d)) + 1
    BY <1>2, FS_AddElement
  <2> QED
    BY <1>2, <1>6, <2>1
<1>8. \A a, b \in Used(e) : e.key[a] = e.key[b] => a = b
  <2>1. \A a \in Used(d) : e.key[a] = d.key[a] /\ d.key[a] # k
    BY <1>2, <1>5, <1>6 DEF Has
  <2>2. e.key[i] = k
    BY <1>1, <1>5
  <2> QED
    BY <1>3, <1>6, <2>1, <2>2
<1>9. Dict(e)
  BY <1>2, <1>5, <1>7, <1>8 DEF Dict, IsDictionary
<1>10. i \in Slots(e) /\ e.key[i] = k /\ e.val[i] = v
  BY <1>1, <1>5
<1>11. Has(e, k) /\ \A def : dictionary_get(e, k, def) = v
  <2>1. Has(e, k) /\ Find(e, k) = i
    BY <1>9, <1>10, FindSlot DEF Has
  <2> QED
    BY <1>10, <2>1 DEF dictionary_get
<1>12. SameBut(d, e, k)
  <2>1. \A j \in Slots(d) : d.key[j] \notin {k, Null} =>
          j \in Slots(e) /\ e.key[j] = d.key[j] /\ e.val[j] = d.val[j]
    BY <1>1, <1>5
  <2>2. \A j \in Slots(e) : e.key[j] \notin {k, Null} => j \in Slots(d) /\ e.key[j] = d.key[j]
    BY <1>1, <1>5
  <2> QED
    BY <1>9, <2>1, <2>2, SameSlots
<1> QED
  BY <1>9, <1>11, <1>12 DEF e

(* The arrays are doubled and nothing else changes.                        *)
LEMMA Grown ==
  ASSUME NEW d, Dict(d)
  PROVE  /\ Dict(dictionary_grow(d))
         /\ dictionary_grow(d).n = d.n /\ dictionary_grow(d).size = 2 * d.size
         /\ SameBut(d, dictionary_grow(d), Null)
<1> DEFINE e == dictionary_grow(d)
           Twice == 0..(2 * d.size - 1)
<1>1. d.size \in Nat \ {0} /\ Slots(d) = 0..(d.size - 1) /\ d.n = Cardinality(Used(d))
  BY Counts
<1>2. d = [size |-> d.size, n |-> d.n, key |-> d.key, val |-> d.val]
  BY DEF Dict
<1>3. e = [size |-> 2 * d.size, n |-> d.n,
           key |-> [i \in Twice |-> IF i < d.size THEN d.key[i] ELSE Null],
           val |-> [i \in Twice |-> IF i < d.size THEN d.val[i] ELSE Null]]
  <2>1. e = [d EXCEPT !.size = 2 * @,
                      !.key = [i \in Twice |-> IF i < d.size THEN @[i] ELSE Null],
                      !.val = [i \in Twice |-> IF i < d.size THEN @[i] ELSE Null]]
    BY DEF dictionary_grow
  <2> HIDE DEF e, Twice
  <2> QED
    BY <1>2, <2>1
<1> HIDE DEF e
<1>4. /\ e = [size |-> e.size, n |-> e.n, key |-> e.key, val |-> e.val]
      /\ e.size = 2 * d.size /\ e.n = d.n /\ Slots(e) = Twice
      /\ e.key = [i \in Twice |-> IF i < d.size THEN d.key[i] ELSE Null]
      /\ e.val = [i \in Twice |-> IF i < d.size THEN d.val[i] ELSE Null]
  BY <1>3 DEF Slots
<1>5. \A i : i \in Slots(d) <=> i \in Twice /\ i < d.size
  BY <1>1
<1> HIDE DEF Twice
<1>6. Used(e) = Used(d)
  BY <1>4, <1>5 DEF Used
<1>7. \A a, b \in Used(e) : e.key[a] = e.key[b] => a = b
  <2>1. \A a \in Used(e) : a \in Used(d) /\ e.key[a] = d.key[a]
    BY <1>4, <1>5, <1>6 DEF Used
  <2> QED
    BY <2>1 DEF Dict, IsDictionary
<1>8. Dict(e)
  <2>1. e.size \in Nat \ {0}
    BY <1>1, <1>4
  <2>2. e.key = [i \in Slots(e) |-> e.key[i]] /\ e.val = [i \in Slots(e) |-> e.val[i]]
    BY <1>4
  <2>3. IsDictionary(e)
    BY <1>1, <1>4, <1>6, <1>7, <2>1 DEF IsDictionary
  <2> QED
    BY <1>4, <2>2, <2>3 DEF Dict
<1>9. SameBut(d, e, Null)
  <2>1. \A i \in Slots(d) : i \in Slots(e) /\ e.key[i] = d.key[i] /\ e.val[i] = d.val[i]
    BY <1>4, <1>5
  <2>2. \A i \in Slots(e) : e.key[i] # Null => i \in Slots(d) /\ e.key[i] = d.key[i]
    BY <1>4, <1>5
  <2> QED
    BY <1>8, <2>1, <2>2, SameSlots
<1> QED
  BY <1>4, <1>8, <1>9 DEF e

-----------------------------------------------------------------------------
(* iniparser_load starts with a dictionary that has no key.                *)
THEOREM DictionaryNew ==
  /\ Dict(dictionary_new)
  /\ \A k : k # Null => ~Has(dictionary_new, k)
<1> DEFINE d == dictionary_new
           none == [i \in 0..(MinSize - 1) |-> Null]
<1>1. /\ d = [size |-> MinSize, n |-> 0, key |-> none, val |-> none]
      /\ d.size = MinSize /\ d.n = 0 /\ d.key = none /\ d.val = none
      /\ Slots(d) = 0..(MinSize - 1)
  BY DEF dictionary_new, Slots
<1>2. \A i \in Slots(d) : d.key[i] = Null
  BY <1>1
<1>3. Used(d) = {}
  BY <1>2 DEF Used
<1>4. IsDictionary(d)
  BY <1>1, <1>3, FS_EmptySet, DictionaryAssumption DEF IsDictionary
<1>5. Dict(d)
  BY <1>1, <1>4 DEF Dict
<1> QED
  BY <1>2, <1>5 DEF Has

(* dictionary_set: the key then has the value, every other key what it had *)
(* before, whether the key was there, was put into a free slot that an     *)
(* unset had left, or made the arrays grow.                                *)
THEOREM DictionarySet ==
  ASSUME NEW d, Dict(d), NEW k, k # Null, NEW v
  PROVE  /\ Dict(dictionary_set(d, k, v))
         /\ Has(dictionary_set(d, k, v), k)
         /\ \A def : dictionary_get(dictionary_set(d, k, v), k, def) = v
         /\ SameBut(d, dictionary_set(d, k, v), k)
<1> DEFINE e == dictionary_set(d, k, v)
<1>1. /\ d.size \in Nat \ {0} /\ d.n \in Nat /\ d.n <= d.size
      /\ IsFiniteSet(Used(d)) /\ d.n = Cardinality(Used(d))
  BY Counts
<1>2. CASE Has(d, k)
  <2> DEFINE i == Find(d, k)
  <2>1. i \in Slots(d) /\ d.key[i] = k /\ i \in Used(d)
    BY <1>2, FindSlot DEF Used
  <2>2. d.n > 0
    <3>1. Used(d) # {}
      BY <2>1
    <3> QED
      BY <1>1, <3>1, FS_EmptySet
  <2>3. /\ d = [size |-> d.size, n |-> d.n, key |-> d.key, val |-> d.val]
        /\ d.key = [j \in Slots(d) |-> d.key[j]]
        /\ d.val = [j \in Slots(d) |-> d.val[j]]
    BY DEF Dict
  <2> HIDE DEF i
  <2>4. e = [size |-> d.size, n |-> d.n, key |-> d.key, val |-> [d.val EXCEPT ![i] = v]]
    BY <1>2, <2>2, <2>3 DEF dictionary_set, i
  <2> HIDE DEF e
  <2>5. /\ e = [size |-> e.size, n |-> e.n, key |-> e.key, val |-> e.val]
        /\ e.size = d.size /\ e.n = d.n /\ e.key = d.key /\ Slots(e) = Slots(d)
        /\ e.val = [j \in Slots(d) |-> IF j = i THEN v ELSE d.val[j]]
    BY <2>3, <2>4 DEF Slots
  <2>6. Used(e) = Used(d)
    BY <2>5 DEF Used
  <2>7. Dict(e)
    BY <2>3, <2>5, <2>6 DEF Dict, IsDictionary
  <2>8. Has(e, k) /\ Find(e, k) = i /\ e.val[i] = v
    BY <2>1, <2>5, <2>7, FindSlot DEF Has
  <2>9. \A j \in Slots(d) : d.key[j] \notin {k, Null} => e.val[j] = d.val[j]
    BY <2>1, <2>5
  <2>10. SameBut(d, e, k)
    BY <2>5, <2>7, <2>9, SameSlots
  <2> QED
    BY <2>7, <2>8, <2>10 DEF dictionary_get, e
<1>3. CASE ~Has(d, k)
  <2> DEFINE g == IF d.n = d.size THEN dictionary_grow(d) ELSE d
  <2>1. e = Insert(g, k, v)
    BY <1>3 DEF dictionary_set
  <2>2. Dict(g) /\ g.n < g.size /\ SameBut(d, g, Null)
    <3>1. CASE d.n = d.size
      BY <1>1, <3>1, Grown
    <3>2. CASE d.n # d.size
      BY <1>1, <3>2 DEF SameBut
    <3> QED
      BY <3>1, <3>2
  <2> HIDE DEF g
  <2>3. ~Has(g, k)
    BY <1>3, <2>2 DEF SameBut
  <2>4. /\ Dict(e) /\ Has(e, k)
        /\ \A def : dictionary_get(e, k, def) = v
        /\ SameBut(g, e, k)
    BY <2>1, <2>2, <2>3, Inserted
  <2>5. SameBut(d, e, k)
    BY <2>2, <2>4 DEF SameBut
  <2> QED
    BY <2>4, <2>5
<1> QED
  BY <1>2, <1>3

(* dictionary_unset: the key is gone, every other key is as before.        *)
THEOREM DictionaryUnset ==
  ASSUME NEW d, Dict(d), NEW k, k # Null
  PROVE  /\ Dict(dictionary_unset(d, k))
         /\ ~Has(dictionary_unset(d, k), k)
         /\ SameBut(d, dictionary_unset(d, k), k)
<1> DEFINE e == dictionary_unset(d, k)
<1>1. CASE ~Has(d, k)
  BY <1>1 DEF dictionary_unset, SameBut
<1>2. CASE Has(d, k)
  <2> DEFINE i == Find(d, k)
  <2>1. i \in Slots(d) /\ d.key[i] = k /\ \A j \in Slots(d) : d.key[j] = k => j = i
    BY <1>2, FindSlot
  <2>2. /\ d.size \in Nat \ {0} /\ d.n \in Nat /\ Slots(d) = 0..(d.size - 1)
        /\ IsFiniteSet(Used(d)) /\ d.n = Cardinality(Used(d)) /\ Used(d) \subseteq Slots(d)
    BY Counts
  <2>3. /\ d = [size |-> d.size, n |-> d.n, key |-> d.key, val |-> d.val]
        /\ d.key = [j \in Slots(d) |-> d.key[j]]
        /\ d.val = [j \in Slots(d) |-> d.val[j]]
        /\ \A a, b \in Used(d) : d.key[a] = d.key[b] => a = b
    BY DEF Dict, IsDictionary
  <2> HIDE DEF i
  <2>4. e = [size |-> d.size, n |-> d.n - 1,
             key |-> [d.key EXCEPT ![i] = Null], val |-> [d.val EXCEPT ![i] = Null]]
    BY <1>2, <2>3 DEF dictionary_unset, i
  <2> HIDE DEF e
  <2>5. /\ e = [size |-> e.size, n |-> e.n, key |-> e.key, val |-> e.val]
        /\ e.size = d.size /\ e.n = d.n - 1 /\ Slots(e) = Slots(d)
        /\ e.key = [j \in Slots(d) |-> IF j = i THEN Null ELSE d.key[j]]
        /\ e.val = [j \in Slots(d) |-> IF j = i THEN Null ELSE d.val[j]]
    BY <2>3, <2>4 DEF Slots
  <2>6. Used(e) = Used(d) \ {i} /\ i \in Used(d)
    BY <2>1, <2>5 DEF Used
  <2>7. Cardinality(Used(e)) = d.n - 1
    BY <2>2, <2>6, FS_RemoveElement
  <2>8. \A a, b \in Used(e) : e.key[a] = e.key[b] => a = b
    <3>1. \A a \in Used(e) : a \in Used(d) /\ e.key[a] = d.key[a]
      BY <2>2, <2>5, <2>6
    <3> QED
      BY <2>3, <3>1
  <2>9. Dict(e)
    BY <2>2, <2>5, <2>7, <2>8 DEF Dict, IsDictionary
  <2>10. ~Has(e, k)
    BY <2>1, <2>5 DEF Has
  <2>11. SameBut(d, e, k)
    <3>1. \A j \in Slots(d) : d.key[j] \notin {k, Null} =>
            j \in Slots(e) /\ e.key[j] = d.key[j] /\ e.val[j] = d.val[j]
      BY <2>1, <2>5
    <3>2. \A j \in Slots(e) : e.key[j] \notin {k, Null} => j \in Slots(d) /\ e.key[j] = d.key[j]
      BY <2>1, <2>5
    <3> QED
      BY <2>9, <3>1, <3>2, SameSlots
  <2> QED
    BY <2>9, <2>10, <2>11 DEF e
<1> QED
  BY <1>1, <1>2

-----------------------------------------------------------------------------
(* The file                                                                *)

(* What the dictionary and the file hold: a section has no value, an entry *)
(* has one.                                                                *)
Keys == Seq(Words) \ {<<>>}
Values == [text : Int, form : Forms] \union {Torn}
ValuesOf(k) == IF Len(k) = 1 THEN {Null} ELSE Values

Holds(d) ==
  /\ Dict(d)
  /\ \A k : k # Null /\ Has(d, k) => k \in Keys /\ Get(d, k) \in ValuesOf(k)

Line == [kind : {"section"}, name : {<<s>> : s \in Words}, val : {Null}]
        \union [kind : {"entry"}, name : Keys, val : Values]

(* Lines that are read may be broken.                                      *)
AnyLine == Line \union {Broken}
-----------------------------------------------------------------------------
(* Induction up to n, for a set in place of a predicate.                   *)
LEMMA UpTo ==
  ASSUME NEW n \in Nat, NEW T, 0 \in T, \A i \in 0..(n - 1) : i \in T => i + 1 \in T
  PROVE  0..n \subseteq T
<1> DEFINE bad == (0..n) \ T
<1> SUFFICES ASSUME bad # {} PROVE FALSE
  OBVIOUS
<1>0. bad \subseteq Nat
  OBVIOUS
<1>1. PICK m \in bad : \A y \in bad : m <= y
  BY <1>0, Least, Zenon
<1>2. m # 0 /\ m \in Nat /\ m <= n
  BY <1>1
<1>3. m - 1 \in 0..(n - 1) /\ m - 1 \notin bad
  BY <1>1, <1>2
<1>4. (m - 1) + 1 \in T
  BY <1>3
<1> QED
  BY <1>1, <1>2, <1>4

(* Pick is defined by recursion on the length of the sequence.             *)
Picks(s, S, g) ==
  g = [i \in 0..Len(s) |->
         IF i = 0 THEN <<>>
         ELSE IF s[i] \in S THEN Append(g[i - 1], s[i]) ELSE g[i - 1]]

(* There is such a function for every sequence.                            *)
LEMMA PicksExist ==
  ASSUME NEW s, Len(s) \in Nat, NEW S
  PROVE  \E g : Picks(s, S, g)
<1> DEFINE Part(m, g) ==
             /\ g = [i \in 0..m |-> g[i]]
             /\ g[0] = <<>>
             /\ \A i \in 1..m : g[i] = IF s[i] \in S THEN Append(g[i - 1], s[i]) ELSE g[i - 1]
           T == {m \in 0..Len(s) : \E g : Part(m, g)}
<1>1. 0 \in T
  <2> DEFINE g == [i \in 0..0 |-> <<>>]
  <2>1. Part(0, g)
    OBVIOUS
  <2> HIDE DEF Part, g
  <2>2. \E f : Part(0, f)
    BY <2>1
  <2> QED
    BY <2>2
<1>2. ASSUME NEW m \in 0..(Len(s) - 1), m \in T PROVE m + 1 \in T
  <2>1. PICK g : Part(m, g)
    BY <1>2
  <2> DEFINE new == IF s[m + 1] \in S THEN Append(g[m], s[m + 1]) ELSE g[m]
             h == [i \in 0..(m + 1) |-> IF i <= m THEN g[i] ELSE new]
  <2> HIDE DEF new
  <2>2. h = [i \in 0..(m + 1) |-> h[i]]
    OBVIOUS
  <2>3. h[0] = <<>>
    BY <2>1
  <2>4. ASSUME NEW i \in 1..(m + 1)
        PROVE  h[i] = IF s[i] \in S THEN Append(h[i - 1], s[i]) ELSE h[i - 1]
    <3>1. CASE i <= m
      <4>1. i \in 1..m /\ i \in 0..(m + 1) /\ i - 1 \in 0..(m + 1) /\ i - 1 <= m
        BY <3>1
      <4>2. h[i] = g[i] /\ h[i - 1] = g[i - 1]
        BY <3>1, <4>1
      <4> QED
        BY <2>1, <4>1, <4>2
    <3>2. CASE i = m + 1
      <4>1. i - 1 = m /\ h[m + 1] = new /\ h[m] = g[m]
        BY <3>2
      <4> QED
        BY <3>2, <4>1 DEF new
    <3> QED
      BY <3>1, <3>2
  <2>5. Part(m + 1, h)
    BY <2>2, <2>3, <2>4
  <2> HIDE DEF Part, h
  <2>6. \E f : Part(m + 1, f)
    BY <2>5
  <2> QED
    BY <2>6
<1>3. Len(s) \in T
  <2> HIDE DEF T
  <2>1. 0..Len(s) \subseteq T
    BY <1>1, <1>2, UpTo
  <2> QED
    BY <2>1
<1>4. PICK g : Part(Len(s), g)
  BY <1>3
<1>5. \A i \in 0..Len(s) : i # 0 => i \in 1..Len(s)
  OBVIOUS
<1>6. Picks(s, S, g)
  BY <1>4, <1>5 DEF Picks
<1> QED
  BY <1>6

(* The picked elements are elements of s and of S, in the order of s.      *)
LEMMA Picked ==
  ASSUME NEW E, NEW s \in Seq(E), NEW S
  PROVE  /\ Pick(s, S) \in Seq(E)
         /\ \A a \in 1..Len(Pick(s, S)) : Pick(s, S)[a] \in S
         /\ \A i \in 1..Len(s) : s[i] \in S => \E a \in 1..Len(Pick(s, S)) : Pick(s, S)[a] = s[i]
<1>0. Len(s) \in Nat /\ \A i \in 1..Len(s) : s[i] \in E
  OBVIOUS
<1> DEFINE h == CHOOSE g : Picks(s, S, g)
<1>1. Picks(s, S, h)
  BY <1>0, PicksExist, Zenon
<1>2. Pick(s, S) = h[Len(s)]
  BY DEF Pick, Picks
<1> HIDE DEF h
<1>3. /\ h[0] = <<>>
      /\ \A i \in 0..(Len(s) - 1) :
           h[i + 1] = IF s[i + 1] \in S THEN Append(h[i], s[i + 1]) ELSE h[i]
  <2>1. 0 \in 0..Len(s)
    BY <1>0
  <2>2. ASSUME NEW i \in 0..(Len(s) - 1)
        PROVE  i + 1 \in 0..Len(s) /\ i + 1 # 0 /\ (i + 1) - 1 = i
    BY <1>0
  <2> QED
    BY <1>1, <2>1, <2>2 DEF Picks
<1> DEFINE Good(i) ==
             /\ h[i] \in Seq(E)
             /\ \A a \in 1..Len(h[i]) : h[i][a] \in S
             /\ \A j \in 1..i : s[j] \in S => \E a \in 1..Len(h[i]) : h[i][a] = s[j]
           T == {i \in 0..Len(s) : Good(i)}
<1>4. 0 \in T
  <2>1. <<>> \in Seq(E) /\ Len(<<>>) = 0 /\ 1..0 = {}
    OBVIOUS
  <2>2. Good(0)
    BY <1>3, <2>1
  <2> QED
    BY <1>0, <2>2
<1>5. ASSUME NEW i \in 0..(Len(s) - 1), i \in T PROVE i + 1 \in T
  <2>0. i + 1 \in 1..Len(s) /\ i + 1 \in 0..Len(s) /\ s[i + 1] \in E
    BY <1>0
  <2>1. Good(i)
    BY <1>5
  <2>2. CASE s[i + 1] \notin S
    <3>1. h[i + 1] = h[i]
      BY <1>3, <2>2
    <3>2. Good(i + 1)
      BY <2>1, <2>2, <3>1
    <3> QED
      BY <2>0, <3>2
  <2>3. CASE s[i + 1] \in S
    <3> DEFINE r == h[i]
               t == h[i + 1]
    <3>1. t = Append(r, s[i + 1])
      BY <1>3, <2>3
    <3>2. r \in Seq(E)
      BY <2>1
    <3> HIDE DEF r, t
    <3>3. /\ t \in Seq(E) /\ Len(r) \in Nat /\ Len(t) = Len(r) + 1
          /\ t[Len(r) + 1] = s[i + 1]
          /\ \A a \in 1..Len(r) : t[a] = r[a]
      BY <2>0, <3>1, <3>2
    <3>4. \A a \in 1..Len(t) : a \in 1..Len(r) \/ a = Len(r) + 1
      BY <3>3
    <3>5. 1..Len(r) \subseteq 1..Len(t) /\ Len(r) + 1 \in 1..Len(t)
      BY <3>3
    <3>6. \A j \in 1..(i + 1) : j \in 1..i \/ j = i + 1
      OBVIOUS
    <3>7. \A a \in 1..Len(t) : t[a] \in S
      BY <2>1, <2>3, <3>3, <3>4 DEF r
    <3>8. ASSUME NEW j \in 1..(i + 1), s[j] \in S PROVE \E a \in 1..Len(t) : t[a] = s[j]
      <4>1. CASE j = i + 1
        BY <3>3, <3>5, <4>1
      <4>2. CASE j \in 1..i
        <5>1. PICK a \in 1..Len(r) : r[a] = s[j]
          BY <2>1, <3>8, <4>2 DEF r
        <5> QED
          BY <3>3, <3>5, <5>1
      <4> QED
        BY <3>6, <4>1, <4>2
    <3>9. Good(i + 1)
      BY <3>3, <3>7, <3>8 DEF t
    <3> QED
      BY <2>0, <3>9
  <2> QED
    BY <2>2, <2>3
<1>6. 0..Len(s) \subseteq T
  <2> HIDE DEF T
  <2> QED
    BY <1>0, <1>4, <1>5, UpTo
<1>7. Good(Len(s))
  BY <1>0, <1>6
<1> QED
  BY <1>2, <1>7

-----------------------------------------------------------------------------
(* What is in a used slot.                                                 *)
LEMMA SlotHolds ==
  ASSUME NEW d, Holds(d), NEW i \in Used(d)
  PROVE  /\ d.key[i] \in Keys
         /\ d.val[i] \in ValuesOf(d.key[i])
         /\ d.val[i] = Get(d, d.key[i])
         /\ i \in Slots(d) /\ d.key[i] # Null
<1>1. i \in Slots(d) /\ d.key[i] # Null
  BY DEF Used
<1>2. Has(d, d.key[i])
  BY <1>1 DEF Has
<1>3. Find(d, d.key[i]) = i
  BY <1>1, FindSlot DEF Holds
<1> QED
  BY <1>1, <1>2, <1>3 DEF Holds, Get, dictionary_get

(* What is left of a key without its section.                              *)
LEMMA LongKey ==
  ASSUME NEW k \in Keys, Len(k) > 1
  PROVE  Len(k) # 1 /\ Tail(k) \in Keys
<1>1. k \in Seq(Words)
  BY DEF Keys
<1>2. Len(k) \in Nat /\ Tail(k) \in Seq(Words) /\ Len(Tail(k)) = Len(k) - 1
  BY <1>1
<1>3. Len(k) # 1
  BY <1>2
<1>4. ASSUME Tail(k) = <<>> PROVE FALSE
  <2>1. Len(Tail(k)) = 0
    BY <1>4
  <2>2. PICK n \in Nat : n = Len(k)
    BY <1>2
  <2>3. n > 1 /\ n - 1 = 0
    BY <1>2, <2>1, <2>2
  <2> QED
    BY <2>3
<1> QED
  BY <1>2, <1>3, <1>4 DEF Keys

(* The lines of a section, in the slots that are looked at.                *)
LEMMA SectionLines ==
  ASSUME NEW d, Holds(d), NEW slots \in Seq(Nat), NEW s \in Words
  PROVE  DumpSection(d, slots, s) \in Seq(Line)
<1> DEFINE of == EntrySlots(d, slots, s)
           S == {i \in Used(d) : Len(d.key[i]) > 1 /\ d.key[i][1] = s}
           es == [j \in 1..Len(of) |-> Entry(Tail(d.key[of[j]]), d.val[of[j]])]
<1>1. of \in Seq(Nat) /\ \A a \in 1..Len(of) : of[a] \in S
  BY Picked DEF EntrySlots
<1>2. Section(s) \in Line
  BY DEF Section, Line
<1>3. ASSUME NEW j \in 1..Len(of) PROVE Entry(Tail(d.key[of[j]]), d.val[of[j]]) \in Line
  <2>1. of[j] \in Used(d) /\ Len(d.key[of[j]]) > 1
    BY <1>1
  <2>2. PICK k \in Keys : k = d.key[of[j]]
    BY <2>1, SlotHolds
  <2>3. Len(k) # 1 /\ Tail(k) \in Keys
    BY <2>1, <2>2, LongKey
  <2>4. d.val[of[j]] \in Values
    BY <2>1, <2>2, <2>3, SlotHolds DEF ValuesOf
  <2> QED
    BY <2>2, <2>3, <2>4 DEF Entry, Line
<1> HIDE DEF of
<1>4. Len(of) \in Nat
  BY <1>1
<1>5. es \in [1..Len(of) -> Line]
  BY <1>3
<1> HIDE DEF es
<1>6. es \in Seq(Line)
  BY <1>4, <1>5
<1>7. <<Section(s)>> \o es \in Seq(Line)
  <2>1. PICK x \in Line : x = Section(s)
    BY <1>2
  <2> HIDE DEF Line
  <2>2. <<x>> \in Seq(Line)
    OBVIOUS
  <2>3. <<x>> \o es \in Seq(Line)
    BY <1>6, <2>2
  <2> QED
    BY <2>1, <2>3
<1> QED
  BY <1>7 DEF DumpSection, of, es

(* The sections one after the other, again by recursion.                   *)
Dumps(d, slots, g) ==
  g = [j \in 0..Len(SectionSlots(d, slots)) |->
         IF j = 0 THEN <<>>
         ELSE g[j - 1] \o DumpSection(d, slots, d.key[SectionSlots(d, slots)[j]][1])]

(* There is such a function for every dictionary.                          *)
LEMMA DumpsExist ==
  ASSUME NEW d, NEW slots, Len(SectionSlots(d, slots)) \in Nat
  PROVE  \E g : Dumps(d, slots, g)
<1> DEFINE n == Len(SectionSlots(d, slots))
           D(j) == DumpSection(d, slots, d.key[SectionSlots(d, slots)[j]][1])
           Part(m, g) ==
             /\ g = [i \in 0..m |-> g[i]]
             /\ g[0] = <<>>
             /\ \A i \in 1..m : g[i] = g[i - 1] \o D(i)
           T == {m \in 0..n : \E g : Part(m, g)}
<1>0. n \in Nat
  OBVIOUS
<1> HIDE DEF n, D
<1>1. 0 \in T
  <2> DEFINE g == [i \in 0..0 |-> <<>>]
  <2>1. Part(0, g)
    OBVIOUS
  <2> HIDE DEF Part, g
  <2>2. \E f : Part(0, f)
    BY <2>1
  <2> QED
    BY <1>0, <2>2
<1>2. ASSUME NEW m \in 0..(n - 1), m \in T PROVE m + 1 \in T
  <2>1. PICK g : Part(m, g)
    BY <1>2
  <2> DEFINE new == g[m] \o D(m + 1)
             h == [i \in 0..(m + 1) |-> IF i <= m THEN g[i] ELSE new]
  <2> HIDE DEF new
  <2>2. h = [i \in 0..(m + 1) |-> h[i]] /\ m \in Nat /\ m + 1 \in 0..n
    BY <1>0
  <2>3. h[0] = <<>>
    BY <2>1, <2>2
  <2>4. ASSUME NEW i \in 1..(m + 1) PROVE h[i] = h[i - 1] \o D(i)
    <3>1. CASE i <= m
      <4>1. i \in 1..m /\ i \in 0..(m + 1) /\ i - 1 \in 0..(m + 1) /\ i - 1 <= m
        BY <2>2, <3>1
      <4>2. h[i] = g[i] /\ h[i - 1] = g[i - 1]
        BY <3>1, <4>1
      <4> QED
        BY <2>1, <4>1, <4>2
    <3>2. CASE i = m + 1
      <4>1. i - 1 = m /\ h[m + 1] = new /\ h[m] = g[m]
        BY <2>2, <3>2
      <4> QED
        BY <3>2, <4>1 DEF new
    <3>3. i <= m \/ i = m + 1
      BY <2>2
    <3> QED
      BY <3>1, <3>2, <3>3
  <2>5. Part(m + 1, h)
    BY <2>2, <2>3, <2>4
  <2> HIDE DEF Part, h
  <2>6. \E f : Part(m + 1, f)
    BY <2>5
  <2> QED
    BY <2>2, <2>6
<1>3. n \in T
  <2> HIDE DEF T
  <2>1. 0..n \subseteq T
    BY <1>0, <1>1, <1>2, UpTo
  <2> QED
    BY <1>0, <2>1
<1>4. PICK g : Part(n, g)
  BY <1>3
<1>5. \A i \in 0..n : i # 0 => i \in 1..n
  BY <1>0
<1>6. g = [j \in 0..n |-> IF j = 0 THEN <<>> ELSE g[j - 1] \o D(j)]
  BY <1>4, <1>5
<1>7. Dumps(d, slots, g)
  BY <1>6 DEF Dumps, n, D
<1> QED
  BY <1>7

-----------------------------------------------------------------------------
(* Setting and unsetting keep what a dictionary holds.                     *)
LEMMA SetHolds ==
  ASSUME NEW d, Holds(d), NEW k \in Keys, NEW v \in ValuesOf(k)
  PROVE  Holds(dictionary_set(d, k, v))
<1> DEFINE e == dictionary_set(d, k, v)
<1>0. k # Null
  BY IniAssumption DEF Keys
<1>1. /\ Dict(e) /\ Has(e, k) /\ SameBut(d, e, k)
      /\ dictionary_get(e, k, Null) = v
  BY <1>0, DictionarySet DEF Holds
<1> HIDE DEF e
<1>2. ASSUME NEW l, l # Null, Has(e, l) PROVE l \in Keys /\ Get(e, l) \in ValuesOf(l)
  <2>1. CASE l = k
    BY <1>1, <2>1 DEF Get
  <2>2. CASE l # k
    <3>1. Has(d, l) /\ dictionary_get(e, l, Null) = dictionary_get(d, l, Null)
      BY <1>1, <1>2, <2>2 DEF SameBut
    <3> QED
      BY <1>2, <3>1 DEF Holds, Get
  <2> QED
    BY <2>1, <2>2
<1>3. Holds(e)
  BY <1>1, <1>2 DEF Holds
<1> QED
  BY <1>3 DEF e

(* The same for dictionary_unset.                                          *)
LEMMA UnsetHolds ==
  ASSUME NEW d, Holds(d), NEW k \in Keys
  PROVE  Holds(dictionary_unset(d, k))
<1> DEFINE e == dictionary_unset(d, k)
<1>0. k # Null
  BY IniAssumption DEF Keys
<1>1. Dict(e) /\ ~Has(e, k) /\ SameBut(d, e, k)
  BY <1>0, DictionaryUnset DEF Holds
<1> HIDE DEF e
<1>2. ASSUME NEW l, l # Null, Has(e, l) PROVE l \in Keys /\ Get(e, l) \in ValuesOf(l)
  <2>1. l # k
    BY <1>1, <1>2
  <2>2. Has(d, l) /\ dictionary_get(e, l, Null) = dictionary_get(d, l, Null)
    BY <1>1, <1>2, <2>1 DEF SameBut
  <2> QED
    BY <1>2, <2>2 DEF Holds, Get
<1>3. Holds(e)
  BY <1>1, <1>2 DEF Holds
<1> QED
  BY <1>3 DEF e

(* The empty dictionary.                                                   *)
LEMMA NewHolds == Holds(dictionary_new)
BY DictionaryNew DEF Holds

(* What iniparser_load has after some lines: a section and a dictionary.   *)
Acc(a) ==
  /\ a = [sec |-> a.sec, d |-> a.d]
  /\ a.sec \in {<<s>> : s \in Words}
  /\ Holds(a.d)

(* One element in front of a sequence.                                     *)
LEMMA InFront ==
  ASSUME NEW E, NEW s \in E, NEW n \in Seq(E)
  PROVE  /\ <<s>> \in Seq(E) /\ Len(<<s>>) = 1 /\ <<s>> # <<>>
         /\ <<s>> \o n \in Seq(E) /\ Len(<<s>> \o n) = 1 + Len(n)
<1> DEFINE x == <<s>>
<1>1. x \in Seq(E) /\ Len(x) = 1 /\ x # <<>>
  OBVIOUS
<1> HIDE DEF x
<1>2. x \o n \in Seq(E)
  BY <1>1
<1>3. Len(x \o n) = Len(x) + Len(n)
  <2>1. x \in Seq(E)
    BY <1>1
  <2> QED
    BY <2>1
<1> QED
  BY <1>1, <1>2, <1>3 DEF x

(* An entry's key is longer than a section's.                              *)
LEMMA LongerKey ==
  ASSUME NEW s \in Words, NEW n \in Keys
  PROVE  <<s>> \o n \in Keys /\ Len(<<s>> \o n) # 1
<1>1. n \in Seq(Words) /\ n # <<>>
  BY DEF Keys
<1>2. Len(n) \in Nat /\ Len(n) # 0
  BY <1>1
<1>3. <<s>> \o n \in Seq(Words) /\ Len(<<s>> \o n) = 1 + Len(n)
  BY <1>1, InFront, Zenon
<1>4. Len(<<s>> \o n) # 1 /\ Len(<<s>> \o n) # 0
  BY <1>2, <1>3
<1>5. <<s>> \o n # <<>>
  <2>1. ASSUME <<s>> \o n = <<>> PROVE Len(<<s>> \o n) = 0
    BY <2>1
  <2> QED
    BY <1>4, <2>1
<1> QED
  BY <1>3, <1>4, <1>5 DEF Keys

(* A line that parses is put into the dictionary under a proper key.       *)
LEMMA LineLoaded ==
  ASSUME NEW a, Acc(a), NEW l \in Line
  PROVE  Acc(LoadLine(a, l))
<1>1. CASE l.kind = "section"
  <2>1. PICK s \in Words : l.name = <<s>>
    BY <1>1 DEF Line
  <2>2. <<s>> \in Keys /\ Null \in ValuesOf(<<s>>)
    <3>1. <<>> \in Seq(Words)
      OBVIOUS
    <3>2. <<s>> \in Seq(Words) /\ Len(<<s>>) = 1 /\ <<s>> # <<>>
      BY <3>1, InFront, Zenon
    <3> QED
      BY <3>2, Zenon DEF Keys, ValuesOf
  <2>3. Holds(dictionary_set(a.d, <<s>>, Null))
    BY <2>2, SetHolds DEF Acc
  <2>4. LoadLine(a, l) = [sec |-> <<s>>, d |-> dictionary_set(a.d, <<s>>, Null)]
    BY <1>1, <2>1 DEF LoadLine
  <2> QED
    BY <2>3, <2>4 DEF Acc
<1>2. CASE l.kind # "section"
  <2>1. l.name \in Keys /\ l.val \in Values
    BY <1>2 DEF Line
  <2>2. PICK s \in Words : a.sec = <<s>>
    BY DEF Acc
  <2> DEFINE k == <<s>> \o l.name
             v == iniparser_line(l.val)
  <2>3. k \in Keys /\ Len(k) # 1
    BY <2>1, LongerKey
  <2>4. v \in Values
    <3>1. CASE l.val \in {Null, Torn}
      BY <2>1, <3>1 DEF iniparser_line
    <3>2. CASE l.val \notin {Null, Torn}
      <4>1. l.val.text \in Int
        BY <2>1, <3>2 DEF Values
      <4> QED
        BY <3>2, <4>1 DEF iniparser_line, Values, Plain, Value, Forms
    <3> QED
      BY <3>1, <3>2
  <2>5. v \in ValuesOf(k)
    BY <2>3, <2>4 DEF ValuesOf
  <2> HIDE DEF k, v
  <2>6. Holds(dictionary_set(a.d, k, v))
    BY <2>3, <2>5, SetHolds DEF Acc
  <2>7. LoadLine(a, l) = [sec |-> a.sec, d |-> dictionary_set(a.d, k, v)]
    BY <1>2, <2>2 DEF LoadLine, Acc, k, v
  <2> QED
    BY <2>6, <2>7 DEF Acc
<1> QED
  BY <1>1, <1>2

(* iniparser_load goes through the lines by recursion.                     *)
Loads(f, g) ==
  g = [i \in 0..Len(f) |->
         IF i = 0 THEN [sec |-> <<"">>, d |-> dictionary_new] ELSE LoadLine(g[i - 1], f[i])]

(* There is such a function.                                               *)
LEMMA LoadsExist ==
  ASSUME NEW f, Len(f) \in Nat
  PROVE  \E g : Loads(f, g)
<1> DEFINE n == Len(f)
           start == [sec |-> <<"">>, d |-> dictionary_new]
           Part(m, g) ==
             /\ g = [i \in 0..m |-> g[i]]
             /\ g[0] = start
             /\ \A i \in 1..m : g[i] = LoadLine(g[i - 1], f[i])
           T == {m \in 0..n : \E g : Part(m, g)}
<1>0. n \in Nat
  OBVIOUS
<1> HIDE DEF n, start
<1>1. 0 \in T
  <2> DEFINE g == [i \in 0..0 |-> start]
  <2>1. Part(0, g)
    OBVIOUS
  <2> HIDE DEF Part, g
  <2>2. \E h : Part(0, h)
    BY <2>1
  <2> QED
    BY <1>0, <2>2
<1>2. ASSUME NEW m \in 0..(n - 1), m \in T PROVE m + 1 \in T
  <2>1. PICK g : Part(m, g)
    BY <1>2
  <2> DEFINE new == LoadLine(g[m], f[m + 1])
             h == [i \in 0..(m + 1) |-> IF i <= m THEN g[i] ELSE new]
  <2> HIDE DEF new
  <2>2. h = [i \in 0..(m + 1) |-> h[i]] /\ m \in Nat /\ m + 1 \in 0..n
    BY <1>0
  <2>3. h[0] = start
    BY <2>1, <2>2
  <2>4. ASSUME NEW i \in 1..(m + 1) PROVE h[i] = LoadLine(h[i - 1], f[i])
    <3>1. CASE i <= m
      <4>1. i \in 1..m /\ i \in 0..(m + 1) /\ i - 1 \in 0..(m + 1) /\ i - 1 <= m
        BY <2>2, <3>1
      <4>2. h[i] = g[i] /\ h[i - 1] = g[i - 1]
        BY <3>1, <4>1
      <4> QED
        BY <2>1, <4>1, <4>2
    <3>2. CASE i = m + 1
      <4>1. i - 1 = m /\ h[m + 1] = new /\ h[m] = g[m]
        BY <2>2, <3>2
      <4> QED
        BY <3>2, <4>1 DEF new
    <3>3. i <= m \/ i = m + 1
      BY <2>2
    <3> QED
      BY <3>1, <3>2, <3>3
  <2>5. Part(m + 1, h)
    BY <2>2, <2>3, <2>4
  <2> HIDE DEF Part, h
  <2>6. \E x : Part(m + 1, x)
    BY <2>5
  <2> QED
    BY <2>2, <2>6
<1>3. n \in T
  <2> HIDE DEF T
  <2>1. 0..n \subseteq T
    BY <1>0, <1>1, <1>2, UpTo
  <2> QED
    BY <1>0, <2>1
<1>4. PICK g : Part(n, g)
  BY <1>3
<1>5. \A i \in 0..n : i # 0 => i \in 1..n
  BY <1>0
<1>6. g = [i \in 0..n |-> IF i = 0 THEN start ELSE LoadLine(g[i - 1], f[i])]
  BY <1>4, <1>5
<1>7. Loads(f, g)
  BY <1>6 DEF Loads, n, start
<1> QED
  BY <1>7

-----------------------------------------------------------------------------
(* What a file says, key by key                                            *)

(* iniparser_load as a sequence of states, one per line.                   *)
Steps(f, h) ==
  /\ h[0] = [sec |-> <<"">>, d |-> dictionary_new]
  /\ \A i \in 1..Len(f) : h[i] = LoadLine(h[i - 1], f[i])
  /\ \A i \in 0..Len(f) : Acc(h[i])

LineKey(f, h, i) == IF f[i].kind = "section" THEN f[i].name ELSE h[i - 1].sec \o f[i].name
LineVal(f, i) == IF f[i].kind = "section" THEN Null ELSE iniparser_line(f[i].val)

(* A file of lines that parse is loaded line by line.                      *)
LEMMA Loading ==
  ASSUME NEW f, Len(f) \in Nat, \A i \in 1..Len(f) : f[i] \in Line
  PROVE  \E h : Steps(f, h) /\ LoadLines(f) = h[Len(f)].d
<1> DEFINE h == CHOOSE g : Loads(f, g)
<1>1. Loads(f, h)
  BY LoadsExist, Zenon
<1>3. LoadLines(f) = h[Len(f)].d
  BY DEF LoadLines, Loads
<1> HIDE DEF h
<1> DEFINE T == {i \in 0..Len(f) : Acc(h[i])}
<1>4. h[0] = [sec |-> <<"">>, d |-> dictionary_new]
  <2>1. 0 \in 0..Len(f)
    OBVIOUS
  <2> QED
    BY <1>1, <2>1, Zenon DEF Loads
<1>5. 0 \in T
  <2>2. h[0].sec = <<"">> /\ h[0].d = dictionary_new
    <3>1. PICK x : x = <<"">>
      OBVIOUS
    <3>2. PICK y : y = dictionary_new
      OBVIOUS
    <3>3. h[0] = [sec |-> x, d |-> y]
      BY <1>4, <3>1, <3>2
    <3>4. h[0].sec = x /\ h[0].d = y
      BY <3>3
    <3> QED
      BY <3>1, <3>2, <3>4
  <2>3. <<"">> \in {<<s>> : s \in Words}
    <3>1. PICK x \in Words : x = ""
      BY DEF Words
    <3> QED
      BY <3>1
  <2>4. Acc(h[0])
    BY <1>4, <2>2, <2>3, NewHolds, Zenon DEF Acc
  <2> QED
    BY <2>4
<1>6. \A i \in 1..Len(f) : h[i] = LoadLine(h[i - 1], f[i])
  <2> TAKE i \in 1..Len(f)
  <2>1. i \in 0..Len(f) /\ i # 0
    OBVIOUS
  <2> QED
    BY <1>1, <2>1 DEF Loads
<1>7. ASSUME NEW i \in 0..(Len(f) - 1), i \in T PROVE i + 1 \in T
  <2>1. i + 1 \in 1..Len(f) /\ i + 1 \in 0..Len(f) /\ (i + 1) - 1 = i
    OBVIOUS
  <2>2. h[i + 1] = LoadLine(h[i], f[i + 1])
    BY <1>6, <2>1
  <2>3. Acc(h[i + 1])
    BY <1>7, <2>1, <2>2, LineLoaded
  <2> QED
    BY <2>1, <2>3
<1>8. 0..Len(f) \subseteq T
  <2> HIDE DEF T
  <2> QED
    BY <1>5, <1>7, UpTo
<1>9. Steps(f, h)
  BY <1>4, <1>6, <1>8 DEF Steps
<1> QED
  BY <1>3, <1>9

(* A file of lines that all parse gives a dictionary.                      *)
LEMMA Loaded ==
  ASSUME NEW f, Len(f) \in Nat, \A i \in 1..Len(f) : f[i] \in Line
  PROVE  Holds(LoadLines(f))
<1>1. PICK h : Steps(f, h) /\ LoadLines(f) = h[Len(f)].d
  BY Loading
<1>2. \A i \in 0..Len(f) : Acc(h[i])
  BY <1>1, Zenon DEF Steps
<1>3. Acc(h[Len(f)])
  BY <1>2
<1> QED
  BY <1>1, <1>3 DEF Acc

(* Each line sets one key.                                                 *)
LEMMA LineSets ==
  ASSUME NEW f, Len(f) \in Nat, \A i \in 1..Len(f) : f[i] \in Line, NEW h, Steps(f, h),
         NEW i \in 1..Len(f)
  PROVE  /\ h[i].d = dictionary_set(h[i - 1].d, LineKey(f, h, i), LineVal(f, i))
         /\ h[i].sec = IF f[i].kind = "section" THEN f[i].name ELSE h[i - 1].sec
         /\ LineKey(f, h, i) \in Keys
         /\ f[i].kind # "section" => Len(LineKey(f, h, i)) # 1
         /\ i - 1 \in 0..Len(f) /\ Holds(h[i - 1].d)
<1>0. /\ \A j \in 0..Len(f) : Acc(h[j])
      /\ \A j \in 1..Len(f) : h[j] = LoadLine(h[j - 1], f[j])
  BY Zenon DEF Steps
<1>1. i - 1 \in 0..Len(f) /\ Acc(h[i - 1]) /\ h[i] = LoadLine(h[i - 1], f[i]) /\ f[i] \in Line
  BY <1>0
<1>2. h[i - 1] = [sec |-> h[i - 1].sec, d |-> h[i - 1].d] /\ Holds(h[i - 1].d)
  BY <1>1 DEF Acc
<1>3. CASE f[i].kind = "section"
  <2>1. PICK s \in Words : f[i].name = <<s>>
    BY <1>1, <1>3 DEF Line
  <2>2. <<s>> \in Keys
    <3>1. <<>> \in Seq(Words)
      OBVIOUS
    <3> QED
      BY <3>1, InFront, Zenon DEF Keys
  <2>3. h[i] = [sec |-> f[i].name, d |-> dictionary_set(h[i - 1].d, f[i].name, Null)]
    BY <1>1, <1>3 DEF LoadLine
  <2> QED
    BY <1>1, <1>2, <1>3, <2>1, <2>2, <2>3 DEF LineKey, LineVal
<1>4. CASE f[i].kind # "section"
  <2>1. f[i].name \in Keys
    BY <1>1, <1>4 DEF Line
  <2>2. PICK s \in Words : h[i - 1].sec = <<s>>
    BY <1>1 DEF Acc
  <2>3. <<s>> \o f[i].name \in Keys /\ Len(<<s>> \o f[i].name) # 1
    BY <2>1, LongerKey
  <2>4. h[i] = [sec |-> h[i - 1].sec,
                d |-> dictionary_set(h[i - 1].d, h[i - 1].sec \o f[i].name,
                                     iniparser_line(f[i].val))]
    BY <1>1, <1>2, <1>4 DEF LoadLine
  <2> QED
    BY <1>1, <1>2, <1>4, <2>2, <2>3, <2>4 DEF LineKey, LineVal
<1> QED
  BY <1>3, <1>4

(* e has the keys of all lines and no others, each with the value of one of *)
(* its lines.                                                              *)
Reads(f, h, e) ==
  \A k : k # Null =>
    /\ \A j \in 1..Len(f) : LineKey(f, h, j) = k => Has(e, k)
    /\ Has(e, k) => \E j \in 1..Len(f) : LineKey(f, h, j) = k /\ Get(e, k) = LineVal(f, j)

(* Such is the dictionary after the last line.                             *)
LEMMA Found ==
  ASSUME NEW f, Len(f) \in Nat, \A i \in 1..Len(f) : f[i] \in Line, NEW h, Steps(f, h),
         NEW e, e = h[Len(f)].d
  PROVE  Reads(f, h, e)
<1> SUFFICES ASSUME NEW k, k # Null
             PROVE  /\ \A j \in 1..Len(f) : LineKey(f, h, j) = k => Has(e, k)
                    /\ Has(e, k) => \E j \in 1..Len(f) : LineKey(f, h, j) = k
                                                        /\ Get(e, k) = LineVal(f, j)
  BY DEF Reads
<1> DEFINE P(i) ==
             /\ \A j \in 1..i : LineKey(f, h, j) = k => Has(h[i].d, k)
             /\ Has(h[i].d, k) =>
                  \E j \in 1..i : LineKey(f, h, j) = k /\ Get(h[i].d, k) = LineVal(f, j)
           T == {i \in 0..Len(f) : P(i)}
<1>1. 0 \in T
  <2>1. h[0].d = dictionary_new
    <3>1. PICK x : x = <<"">>
      OBVIOUS
    <3>2. PICK y : y = dictionary_new
      OBVIOUS
    <3>3. h[0] = [sec |-> x, d |-> y]
      BY <3>1, <3>2 DEF Steps
    <3>4. h[0].d = y
      BY <3>3
    <3> QED
      BY <3>2, <3>4
  <2>2. ~Has(h[0].d, k)
    BY <2>1, DictionaryNew
  <2>3. 0 \in 0..Len(f) /\ 1..0 = {}
    OBVIOUS
  <2> QED
    BY <2>2, <2>3
<1>2. ASSUME NEW i \in 0..(Len(f) - 1), i \in T PROVE i + 1 \in T
  <2>1. /\ i + 1 \in 1..Len(f) /\ i + 1 \in 0..Len(f) /\ (i + 1) - 1 = i
        /\ \A j \in 1..(i + 1) : j \in 1..i \/ j = i + 1
        /\ 1..i \subseteq 1..(i + 1) /\ i + 1 \in 1..(i + 1)
    OBVIOUS
  <2> DEFINE d == h[i].d
             b == h[i + 1].d
             l == LineKey(f, h, i + 1)
             v == LineVal(f, i + 1)
  <2>2. b = dictionary_set(d, l, v) /\ Holds(d) /\ l \in Keys
    BY <2>1, LineSets
  <2>3. l # Null
    BY <2>2, IniAssumption DEF Keys
  <2>4. /\ Has(b, l) /\ Get(b, l) = v
        /\ l # k => (Has(b, k) <=> Has(d, k)) /\ Get(b, k) = Get(d, k)
    <3> HIDE DEF l, v, d, b
    <3> QED
      BY <2>2, <2>3, DictionarySet DEF Holds, SameBut, Get
  <2>5. P(i)
    BY <1>2
  <2> HIDE DEF d, b, v
  <2>6. CASE l = k
    BY <2>1, <2>4, <2>6 DEF b, v
  <2>7. CASE l # k
    BY <2>1, <2>4, <2>5, <2>7 DEF d, b
  <2>8. P(i + 1)
    BY <2>6, <2>7
  <2> QED
    BY <2>1, <2>8
<1>3. 0..Len(f) \subseteq T
  <2> HIDE DEF T
  <2> QED
    BY <1>1, <1>2, UpTo
<1>4. P(Len(f))
  BY <1>3
<1> QED
  BY <1>4

(* Line i stands under the section s: no other section comes in between.   *)
Under(f, i, s) ==
  \E j \in 1..i : f[j] = Section(s) /\ \A m \in (j + 1)..i : f[m].kind # "section"

NoSection(f, i) == \A j \in 1..i : f[j].kind # "section"

(* iniparser_load knows the section a line stands under.                   *)
LEMMA SectionKnown ==
  ASSUME NEW f, Len(f) \in Nat, \A i \in 1..Len(f) : f[i] \in Line, NEW h, Steps(f, h),
         NEW n \in 0..Len(f)
  PROVE  /\ NoSection(f, n) => h[n].sec = <<"">>
         /\ \A s : Under(f, n, s) => h[n].sec = <<s>>
<1>0. PICK none : none = <<"">>
  OBVIOUS
<1> DEFINE P(i) ==
             /\ NoSection(f, i) => h[i].sec = none
             /\ \A s : Under(f, i, s) => h[i].sec = <<s>>
           T == {i \in 0..Len(f) : P(i)}
<1>1. 0 \in T
  <2>1. h[0].sec = none
    <3>2. PICK y : y = dictionary_new
      OBVIOUS
    <3>3. h[0] = [sec |-> none, d |-> y]
      BY <1>0, <3>2 DEF Steps
    <3> QED
      BY <3>3
  <2>2. \A s : ~Under(f, 0, s)
    BY DEF Under
  <2> QED
    BY <2>1, <2>2
<1>2. ASSUME NEW i \in 0..(Len(f) - 1), i \in T PROVE i + 1 \in T
  <2>1. i + 1 \in 1..Len(f) /\ i + 1 \in 0..Len(f) /\ (i + 1) - 1 = i /\ i + 1 \in 1..(i + 1)
    OBVIOUS
  <2>2. h[i + 1].sec = IF f[i + 1].kind = "section" THEN f[i + 1].name ELSE h[i].sec
    BY <2>1, LineSets
  <2>3. NoSection(f, i + 1) => h[i + 1].sec = none
    <3>1. NoSection(f, i + 1) => NoSection(f, i) /\ f[i + 1].kind # "section"
      BY <2>1 DEF NoSection
    <3> QED
      BY <1>2, <2>2, <3>1
  <2>4. ASSUME NEW s, Under(f, i + 1, s) PROVE h[i + 1].sec = <<s>>
    <3>1. PICK j \in 1..(i + 1) : /\ f[j] = Section(s)
                                  /\ \A m \in (j + 1)..(i + 1) : f[m].kind # "section"
      BY <2>4 DEF Under
    <3>2. CASE j = i + 1
      BY <2>2, <3>1, <3>2 DEF Section
    <3>3. CASE j # i + 1
      <4>1. j \in 1..i /\ i + 1 \in (j + 1)..(i + 1) /\ (j + 1)..i \subseteq (j + 1)..(i + 1)
        BY <3>3
      <4>2. Under(f, i, s) /\ f[i + 1].kind # "section"
        BY <3>1, <4>1 DEF Under
      <4> QED
        BY <1>2, <2>2, <4>2
    <3> QED
      BY <3>2, <3>3
  <2> QED
    BY <2>1, <2>3, <2>4
<1>3. 0..Len(f) \subseteq T
  <2> HIDE DEF T
  <2> QED
    BY <1>1, <1>2, UpTo
<1>4. P(n)
  BY <1>3
<1> QED
  BY <1>0, <1>4

(* Every line is about d: a section or, under its section, an entry.       *)
AboutLine(f, i, d) ==
  IF f[i].kind = "section" THEN Has(d, f[i].name)
  ELSE \E s \in Words :
         /\ Under(f, i, s)
         /\ Has(d, <<s>> \o f[i].name)
         /\ f[i].val = Get(d, <<s>> \o f[i].name)
About(f, d) == \A i \in 1..Len(f) : AboutLine(f, i, d)

(* Every section of d is there, and every entry of these sections.         *)
HasSection(f, d, s) ==
  /\ \E i \in 1..Len(f) : f[i] = Section(s)
  /\ \A k \in Keys : Len(k) > 1 /\ k[1] = s /\ Has(d, k) =>
       \E i \in 1..Len(f) : f[i].kind # "section" /\ f[i].name = Tail(k) /\ Under(f, i, s)
Whole(f, d) == \A s \in Words : Has(d, <<s>>) => HasSection(f, d, s)

(* The keys of entries that are read back under the same name.             *)
EntryKey(k) == k \in Keys /\ Len(k) > 1 /\ k[1] # ""

(* A section's key, and the parts of an entry's key.                       *)
LEMMA KeyParts ==
  /\ \A s \in Words : <<s>> \in Keys /\ Len(<<s>>) = 1 /\ <<s>>[1] = s
  /\ \A s \in Words, n \in Keys : (<<s>> \o n)[1] = s /\ Len(<<s>> \o n) > 1
  /\ \A k \in Keys : k[1] \in Words /\ (Len(k) > 1 => k = <<k[1]>> \o Tail(k) /\ Tail(k) \in Keys)
<1>1. ASSUME NEW s \in Words PROVE <<s>> \in Keys /\ Len(<<s>>) = 1 /\ <<s>>[1] = s
  <2>1. <<>> \in Seq(Words)
    OBVIOUS
  <2>2. <<s>>[1] = s
    OBVIOUS
  <2> QED
    BY <2>1, <2>2, InFront, Zenon DEF Keys
<1>2. ASSUME NEW s \in Words, NEW n \in Keys PROVE (<<s>> \o n)[1] = s /\ Len(<<s>> \o n) > 1
  <2>1. PICK x \in Seq(Words) : x = <<s>> /\ Len(x) = 1 /\ x[1] = s
    BY <1>1 DEF Keys
  <2>2. n \in Seq(Words) /\ Len(n) \in Nat /\ Len(n) # 0
    BY DEF Keys
  <2>3. 1 \in 1..(Len(x) + Len(n)) /\ 1 <= Len(x)
    BY <2>1, <2>2
  <2>4. /\ Len(x \o n) = Len(x) + Len(n)
        /\ \A i \in 1..(Len(x) + Len(n)) :
             (x \o n)[i] = IF i <= Len(x) THEN x[i] ELSE n[i - Len(x)]
    BY <2>2, ConcatProperties, Zenon
  <2> QED
    BY <2>1, <2>2, <2>3, <2>4
<1>3. ASSUME NEW k \in Keys
      PROVE  k[1] \in Words /\ (Len(k) > 1 => k = <<k[1]>> \o Tail(k) /\ Tail(k) \in Keys)
  <2>1. k \in Seq(Words) /\ k # <<>> /\ Len(k) \in Nat /\ Len(k) # 0
    BY DEF Keys
  <2>2. k[1] \in Words
    BY <2>1
  <2>3. ASSUME Len(k) > 1 PROVE k = <<k[1]>> \o Tail(k) /\ Tail(k) \in Keys
    <3>1. Tail(k) \in Keys
      BY <2>3, LongKey
    <3>2. PICK x \in Seq(Words) : x = <<k[1]>> /\ Len(x) = 1 /\ x[1] = k[1]
      BY <1>1, <2>2 DEF Keys
    <3>3. PICK t \in Seq(Words) : /\ t = Tail(k) /\ Len(t) = Len(k) - 1
                                  /\ \A i \in 1..Len(t) : t[i] = k[i + 1]
      BY <2>1, HeadTailProperties
    <3>4. /\ x \o t \in Seq(Words) /\ Len(x \o t) = Len(x) + Len(t)
          /\ \A i \in 1..(Len(x) + Len(t)) :
               (x \o t)[i] = IF i <= Len(x) THEN x[i] ELSE t[i - Len(x)]
      BY ConcatProperties, Zenon
    <3>5. PICK y \in Seq(Words) : y = x \o t
      BY <3>4
    <3>6. Len(y) = Len(k)
      BY <2>1, <3>2, <3>3, <3>4, <3>5
    <3>7. ASSUME NEW i \in 1..Len(k) PROVE y[i] = k[i]
      <4>1. i \in 1..(Len(x) + Len(t))
        BY <2>1, <3>2, <3>3
      <4>2. CASE i = 1
        BY <3>2, <3>4, <3>5, <4>1, <4>2
      <4>3. CASE i # 1
        <5>1. i - 1 \in 1..Len(t) /\ (i - 1) + 1 = i /\ ~(i <= 1)
          BY <2>1, <3>3, <4>3
        <5>2. y[i] = t[i - 1]
          BY <3>2, <3>4, <3>5, <4>1, <5>1
        <5> QED
          BY <3>3, <5>1, <5>2
      <4> QED
        BY <4>2, <4>3
    <3>8. k = y
      BY <2>1, <3>6, <3>7, SeqEqual
    <3> QED
      BY <3>1, <3>2, <3>3, <3>5, <3>8
  <2> QED
    BY <2>2, <2>3
<1> QED
  BY <1>1, <1>2, <1>3

(* The key of a line is a section of d, or an entry of one with its value. *)
Says(f, h, j, d) ==
  \E s \in Words :
    /\ Has(d, <<s>>)
    /\ \/ f[j].kind = "section" /\ LineKey(f, h, j) = <<s>>
       \/ /\ f[j].kind # "section" /\ f[j].name \in Keys
          /\ LineKey(f, h, j) = <<s>> \o f[j].name
          /\ Has(d, <<s>> \o f[j].name) /\ f[j].val = Get(d, <<s>> \o f[j].name)

(* So it is for a line about d.                                            *)
LEMMA LineAbout ==
  ASSUME NEW f, Len(f) \in Nat, \A i \in 1..Len(f) : f[i] \in Line, NEW h, Steps(f, h),
         NEW j \in 1..Len(f), NEW d, \A i \in 1..j : AboutLine(f, i, d)
  PROVE  Says(f, h, j, d)
<1>0. j \in 1..j /\ AboutLine(f, j, d)
  OBVIOUS
<1>1. ASSUME f[j].kind = "section"
      PROVE  \E s \in Words : LineKey(f, h, j) = <<s>> /\ Has(d, <<s>>)
  <2>1. PICK s \in Words : f[j].name = <<s>>
    BY <1>1 DEF Line
  <2> QED
    BY <1>0, <1>1, <2>1 DEF LineKey, AboutLine
<1>2. ASSUME f[j].kind # "section"
      PROVE  \E s \in Words : /\ LineKey(f, h, j) = <<s>> \o f[j].name /\ f[j].name \in Keys
                              /\ Has(d, <<s>> \o f[j].name) /\ Has(d, <<s>>)
                              /\ f[j].val = Get(d, <<s>> \o f[j].name)
  <2>1. PICK s \in Words : /\ Under(f, j, s) /\ Has(d, <<s>> \o f[j].name)
                           /\ f[j].val = Get(d, <<s>> \o f[j].name)
    BY <1>0, <1>2 DEF AboutLine
  <2>2. h[j].sec = <<s>>
    <3>1. j \in 0..Len(f)
      OBVIOUS
    <3>2. \A x : Under(f, j, x) => h[j].sec = <<x>>
      BY <3>1, SectionKnown, Zenon
    <3> QED
      BY <2>1, <3>2, Zenon
  <2>3. h[j - 1].sec = <<s>>
    BY <1>2, <2>2, LineSets
  <2>4. PICK i \in 1..j : f[i] = Section(s)
    BY <2>1 DEF Under
  <2>5. f[i].kind = "section" /\ f[i].name = <<s>>
    BY <2>4 DEF Section
  <2>6. Has(d, <<s>>)
    BY <2>5 DEF AboutLine
  <2>7. f[j].name \in Keys
    BY <1>2 DEF Line
  <2> QED
    BY <1>2, <2>1, <2>3, <2>6, <2>7 DEF LineKey
<1> QED
  BY <1>1, <1>2, Zenon DEF Says

(* A line that says of an entry k of a section of d what d says of it.     *)
SaysOf(f, j, k, d) ==
  Has(d, k) /\ Has(d, <<k[1]>>) /\ LineVal(f, j) = iniparser_line(Get(d, k))

(* Such is a line about d with the key of an entry.                        *)
LEMMA LineEntry ==
  ASSUME NEW f, Len(f) \in Nat, \A i \in 1..Len(f) : f[i] \in Line, NEW h, Steps(f, h),
         NEW j \in 1..Len(f), NEW d, \A i \in 1..j : AboutLine(f, i, d),
         NEW k, EntryKey(k), LineKey(f, h, j) = k
  PROVE  SaysOf(f, j, k, d)
<1>0. Says(f, h, j, d)
  BY LineAbout
<1>1. f[j].kind # "section"
  <2>1. ASSUME f[j].kind = "section" PROVE Len(LineKey(f, h, j)) = 1
    BY <1>0, <2>1, KeyParts, Zenon DEF Says
  <2>2. Len(k) > 1
    BY DEF EntryKey
  <2>3. PICK n : n = Len(k)
    OBVIOUS
  <2>4. f[j].kind = "section" => n = 1
    BY <2>1, <2>3, Zenon
  <2> QED
    BY <2>2, <2>3, <2>4
<1>2. PICK s \in Words : /\ LineKey(f, h, j) = <<s>> \o f[j].name /\ f[j].name \in Keys
                         /\ Has(d, <<s>> \o f[j].name) /\ Has(d, <<s>>)
                         /\ f[j].val = Get(d, <<s>> \o f[j].name)
  BY <1>0, <1>1, Zenon DEF Says
<1>3. k[1] = s
  BY <1>2, KeyParts
<1> QED
  BY <1>1, <1>2, <1>3 DEF LineVal, SaysOf

(* The key of a line before the first section is not an entry's.           *)
LEMMA LinePlain ==
  ASSUME NEW f, Len(f) \in Nat, \A i \in 1..Len(f) : f[i] \in Line, NEW h, Steps(f, h),
         NEW j \in 1..Len(f), NoSection(f, j)
  PROVE  Len(LineKey(f, h, j)) > 1 /\ LineKey(f, h, j)[1] = ""
<1>0. PICK empty \in Words : empty = ""
  BY DEF Words
<1>1. f[j].kind # "section"
  BY DEF NoSection
<1>2. f[j].name \in Keys
  BY <1>1 DEF Line
<1>3. j - 1 \in 0..Len(f) /\ NoSection(f, j - 1)
  BY DEF NoSection
<1>4. h[j - 1].sec = <<empty>>
  BY <1>0, <1>3, SectionKnown
<1>5. LineKey(f, h, j) = <<empty>> \o f[j].name
  BY <1>1, <1>4 DEF LineKey
<1>6. (<<empty>> \o f[j].name)[1] = empty /\ Len(<<empty>> \o f[j].name) > 1
  BY <1>2, KeyParts, Zenon
<1> QED
  BY <1>0, <1>5, <1>6, Zenon

(* Lines are not a missing file.                                           *)
LEMMA NotAbsent ==
  ASSUME NEW f, Len(f) \in Nat, \A i \in 1..Len(f) : f[i] \in AnyLine
  PROVE  f # Absent
<1>1. \A i \in 1..Len(f) : f[i].kind \in {"section", "entry", "broken"}
  BY DEF AnyLine, Line, Broken
<1>2. PICK x : x = [kind |-> "absent", name |-> Null, val |-> Null]
  OBVIOUS
<1>3. Absent = <<x>> /\ x.kind = "absent"
  BY <1>2 DEF Absent
<1>4. Len(<<x>>) = 1 /\ <<x>>[1] = x /\ 1 \in 1..1
  OBVIOUS
<1> QED
  BY <1>1, <1>3, <1>4

(* A file in which no line is continued is read line by line.              *)
LEMMA Direct ==
  ASSUME NEW f, Len(f) \in Nat, \A i \in 1..Len(f) : f[i] \in AnyLine,
         \A i \in 1..Len(f) : ~Continued(f[i])
  PROVE  /\ ~Unreadable(f) => /\ iniparser_load(f) = LoadLines(f)
                              /\ \A i \in 1..Len(f) : f[i] \in Line
         /\ (\A i \in 1..Len(f) : f[i] \in Line /\ ~Is(f[i].val, "spoiling")) => ~Unreadable(f)
<1>1. Logical(f) = f
  BY DEF Logical
<1>2. f # Absent
  BY NotAbsent
<1>3. \A l \in Line : l # Broken
  BY DEF Line, Broken
<1>4. ASSUME ~Unreadable(f) PROVE \A i \in 1..Len(f) : f[i] \in Line
  BY <1>1, <1>4 DEF Unreadable, AnyLine
<1>5. ASSUME ~Unreadable(f) PROVE iniparser_load(f) = LoadLines(f)
  BY <1>1, <1>5 DEF iniparser_load
<1>6. ASSUME \A i \in 1..Len(f) : f[i] \in Line /\ ~Is(f[i].val, "spoiling") PROVE ~Unreadable(f)
  BY <1>1, <1>2, <1>3, <1>6 DEF Unreadable
<1> QED
  BY <1>4, <1>5, <1>6

(* What is read from lines about d is what d has, without comments.        *)
LEMMA LoadedAbout ==
  ASSUME NEW f, Len(f) \in Nat, \A i \in 1..Len(f) : f[i] \in Line,
         NEW d, About(f, d)
  PROVE  /\ \A s \in Words : Has(LoadLines(f), <<s>>) => Has(d, <<s>>)
         /\ \A k : EntryKey(k) /\ Has(LoadLines(f), k) =>
              /\ Has(d, k) /\ Has(d, <<k[1]>>)
              /\ Get(LoadLines(f), k) = iniparser_line(Get(d, k))
<1>1. PICK h : Steps(f, h) /\ LoadLines(f) = h[Len(f)].d
  BY Loading
<1>2. PICK e : e = LoadLines(f)
  OBVIOUS
<1>3. ASSUME NEW k \in Keys, Has(e, k)
      PROVE  \E j \in 1..Len(f) : LineKey(f, h, j) = k /\ Get(e, k) = LineVal(f, j)
  <2>1. k # Null
    BY IniAssumption DEF Keys
  <2>2. Reads(f, h, e)
    BY <1>1, <1>2, Found
  <2> QED
    BY <1>3, <2>1, <2>2, Zenon DEF Reads
<1>4. \A j \in 1..Len(f) : \A i \in 1..j : AboutLine(f, i, d)
  BY DEF About
<1>5. ASSUME NEW s \in Words, Has(e, <<s>>) PROVE Has(d, <<s>>)
  <2>1. PICK j \in 1..Len(f) : LineKey(f, h, j) = <<s>>
    BY <1>3, <1>5, KeyParts
  <2>0. Says(f, h, j, d)
    BY <1>1, <1>4, LineAbout
  <2>2. f[j].kind = "section"
    <3>1. ASSUME f[j].kind # "section" PROVE Len(LineKey(f, h, j)) > 1
      <4>1. PICK x \in Words : LineKey(f, h, j) = <<x>> \o f[j].name /\ f[j].name \in Keys
        BY <2>0, <3>1, Zenon DEF Says
      <4> QED
        BY <4>1, KeyParts, Zenon
    <3>2. PICK n : n = Len(LineKey(f, h, j))
      OBVIOUS
    <3>3. n = 1
      BY <2>1, <3>2, KeyParts, Zenon
    <3> QED
      BY <3>1, <3>2, <3>3
  <2>3. PICK x \in Words : LineKey(f, h, j) = <<x>> /\ Has(d, <<x>>)
    BY <2>0, <2>2, Zenon DEF Says
  <2> QED
    BY <2>1, <2>3, Zenon
<1>6. ASSUME NEW k, EntryKey(k), Has(e, k)
      PROVE  Has(d, k) /\ Has(d, <<k[1]>>) /\ Get(e, k) = iniparser_line(Get(d, k))
  <2>1. PICK j \in 1..Len(f) : LineKey(f, h, j) = k /\ Get(e, k) = LineVal(f, j)
    BY <1>3, <1>6 DEF EntryKey
  <2>2. SaysOf(f, j, k, d)
    BY <1>1, <1>4, <1>6, <2>1, LineEntry
  <2> QED
    BY <2>1, <2>2, Zenon DEF SaysOf
<1> QED
  BY <1>2, <1>5, <1>6

(* Of a whole file nothing is lost.                                        *)
LEMMA LoadedWhole ==
  ASSUME NEW f, Len(f) \in Nat, \A i \in 1..Len(f) : f[i] \in Line,
         NEW d, Whole(f, d)
  PROVE  /\ \A s \in Words : Has(d, <<s>>) => Has(LoadLines(f), <<s>>)
         /\ \A k \in Keys : Len(k) > 1 /\ Has(d, k) /\ Has(d, <<k[1]>>) => Has(LoadLines(f), k)
<1>1. PICK h : Steps(f, h) /\ LoadLines(f) = h[Len(f)].d
  BY Loading
<1>2. ASSUME NEW j \in 1..Len(f), LineKey(f, h, j) \in Keys
      PROVE  Has(LoadLines(f), LineKey(f, h, j))
  <2>1. LineKey(f, h, j) # Null /\ Len(f) \in 0..Len(f)
    BY <1>2, IniAssumption DEF Keys
  <2>2. PICK e : e = LoadLines(f)
    OBVIOUS
  <2>3. Reads(f, h, e)
    BY <1>1, <2>2, Found
  <2> QED
    BY <2>1, <2>2, <2>3, Zenon DEF Reads
<1>3. ASSUME NEW s \in Words, Has(d, <<s>>) PROVE Has(LoadLines(f), <<s>>)
  <2>1. PICK i \in 1..Len(f) : f[i] = Section(s)
    BY <1>3 DEF Whole, HasSection
  <2>2. LineKey(f, h, i) = <<s>>
    BY <2>1 DEF Section, LineKey
  <2> QED
    BY <1>2, <2>2, KeyParts
<1>4. ASSUME NEW k \in Keys, Len(k) > 1, Has(d, k), Has(d, <<k[1]>>)
      PROVE  Has(LoadLines(f), k)
  <2>1. k[1] \in Words /\ k = <<k[1]>> \o Tail(k)
    BY <1>4, KeyParts
  <2>2. PICK i \in 1..Len(f) : f[i].kind # "section" /\ f[i].name = Tail(k) /\ Under(f, i, k[1])
    BY <1>4, <2>1 DEF Whole, HasSection
  <2>3. h[i].sec = <<k[1]>>
    <3>1. i \in 0..Len(f)
      OBVIOUS
    <3>2. \A x : Under(f, i, x) => h[i].sec = <<x>>
      BY <1>1, <3>1, SectionKnown, Zenon
    <3> QED
      BY <2>2, <3>2, Zenon
  <2>4. h[i - 1].sec = <<k[1]>>
    BY <1>1, <2>2, <2>3, LineSets
  <2>5. LineKey(f, h, i) = k
    BY <2>1, <2>2, <2>4 DEF LineKey
  <2> QED
    BY <1>2, <2>5
<1> QED
  BY <1>3, <1>4

(* Without a section line every key starts with the empty name.            *)
LEMMA LoadedPlain ==
  ASSUME NEW f, Len(f) \in Nat, \A i \in 1..Len(f) : f[i] \in Line,
         NoSection(f, Len(f))
  PROVE  /\ \A s \in Words : ~Has(LoadLines(f), <<s>>)
         /\ \A k : EntryKey(k) => ~Has(LoadLines(f), k)
<1>1. PICK h : Steps(f, h) /\ LoadLines(f) = h[Len(f)].d
  BY Loading
<1>2. ASSUME NEW k \in Keys, Has(LoadLines(f), k) PROVE Len(k) > 1 /\ k[1] = ""
  <2>1. k # Null
    BY IniAssumption DEF Keys
  <2>2. PICK j \in 1..Len(f) : LineKey(f, h, j) = k
    <3>1. PICK e : e = LoadLines(f)
      OBVIOUS
    <3>2. Reads(f, h, e)
      BY <1>1, <3>1, Found
    <3> QED
      BY <1>2, <2>1, <3>1, <3>2, Zenon DEF Reads
  <2>3. NoSection(f, j)
    BY DEF NoSection
  <2> QED
    BY <1>1, <2>2, <2>3, LinePlain
<1>3. ASSUME NEW s \in Words PROVE ~Has(LoadLines(f), <<s>>)
  <2>1. PICK n : n = Len(<<s>>)
    OBVIOUS
  <2>2. n = 1 /\ <<s>> \in Keys
    BY <2>1, KeyParts, Zenon
  <2>3. Has(LoadLines(f), <<s>>) => n > 1
    BY <1>2, <2>1, <2>2, Zenon
  <2> QED
    BY <2>2, <2>3
<1>4. ASSUME NEW k, EntryKey(k) PROVE ~Has(LoadLines(f), k)
  BY <1>2, <1>4 DEF EntryKey
<1> QED
  BY <1>3, <1>4

-----------------------------------------------------------------------------
(* What iniparser_dump_ini writes                                          *)

(* z is x and then y, line by line.                                        *)
Joins(x, y, z) ==
  /\ z \in Seq(Line) /\ Len(z) = Len(x) + Len(y) /\ Len(x) \in Nat /\ Len(y) \in Nat
  /\ \A i \in 1..Len(x) : z[i] = x[i] /\ i \in 1..Len(z)
  /\ \A i \in 1..Len(y) : z[Len(x) + i] = y[i] /\ Len(x) + i \in 1..Len(z)
  /\ \A i \in 1..Len(z) : i \in 1..Len(x) \/ \E j \in 1..Len(y) : i = Len(x) + j
  /\ \A i \in 1..Len(x) : \A s : Under(x, i, s) => Under(z, i, s)
  /\ \A i \in 1..Len(y) : \A s : Under(y, i, s) => Under(z, Len(x) + i, s)

(* Lines stay where they are, under the same sections, when others follow  *)
(* or precede them.                                                        *)
LEMMA Joined ==
  ASSUME NEW x \in Seq(Line), NEW y \in Seq(Line), NEW z, z = x \o y
  PROVE  Joins(x, y, z)
<1>1. /\ z \in Seq(Line) /\ Len(z) = Len(x) + Len(y)
      /\ \A i \in 1..(Len(x) + Len(y)) : z[i] = IF i <= Len(x) THEN x[i] ELSE y[i - Len(x)]
  BY ConcatProperties, Zenon
<1>2. PICK m \in Nat : m = Len(x)
  OBVIOUS
<1>3. PICK n \in Nat : n = Len(y)
  OBVIOUS
<1>4. ASSUME NEW i \in 1..m PROVE z[i] = x[i] /\ i \in 1..(m + n)
  <2>1. i \in 1..(m + n) /\ i <= m
    OBVIOUS
  <2> QED
    BY <1>1, <1>2, <1>3, <2>1
<1>5. ASSUME NEW i \in 1..n PROVE z[m + i] = y[i] /\ m + i \in 1..(m + n)
  <2>1. m + i \in 1..(m + n) /\ ~(m + i <= m) /\ (m + i) - m = i
    OBVIOUS
  <2> QED
    BY <1>1, <1>2, <1>3, <2>1
<1>6. ASSUME NEW i \in 1..(m + n) PROVE i \in 1..m \/ \E j \in 1..n : i = m + j
  <2>1. i \notin 1..m => i - m \in 1..n /\ i = m + (i - m)
    OBVIOUS
  <2> QED
    BY <2>1
<1>7. ASSUME NEW i \in 1..m, NEW s, Under(x, i, s) PROVE Under(z, i, s)
  <2>1. PICK j \in 1..i : x[j] = Section(s) /\ \A l \in (j + 1)..i : x[l].kind # "section"
    BY <1>7 DEF Under
  <2>2. j \in 1..m /\ (j + 1)..i \subseteq 1..m
    OBVIOUS
  <2>3. z[j] = Section(s) /\ \A l \in (j + 1)..i : z[l].kind # "section"
    BY <1>4, <2>1, <2>2
  <2> QED
    BY <2>3 DEF Under
<1>8. ASSUME NEW i \in 1..n, NEW s, Under(y, i, s) PROVE Under(z, m + i, s)
  <2>1. PICK j \in 1..i : y[j] = Section(s) /\ \A l \in (j + 1)..i : y[l].kind # "section"
    BY <1>8 DEF Under
  <2>2. j \in 1..n /\ m + j \in 1..(m + i)
    OBVIOUS
  <2>3. z[m + j] = Section(s)
    BY <1>5, <2>1, <2>2
  <2>4. ASSUME NEW l \in ((m + j) + 1)..(m + i) PROVE z[l].kind # "section"
    <3>1. l - m \in (j + 1)..i /\ l - m \in 1..n /\ m + (l - m) = l
      OBVIOUS
    <3>2. z[m + (l - m)] = y[l - m]
      BY <1>5, <3>1
    <3> QED
      BY <2>1, <3>1, <3>2
  <2> QED
    BY <2>2, <2>3, <2>4 DEF Under
<1> QED
  BY <1>1, <1>2, <1>3, <1>4, <1>5, <1>6, <1>7, <1>8 DEF Joins

(* Lines about d stay so next to others about d, and sections stay there.  *)
LEMMA JoinedAbout ==
  ASSUME NEW x \in Seq(Line), NEW y \in Seq(Line), NEW d
  PROVE  /\ About(x, d) /\ About(y, d) => About(x \o y, d)
         /\ \A s : HasSection(x, d, s) \/ HasSection(y, d, s) => HasSection(x \o y, d, s)
<1>0. PICK z : z = x \o y
  OBVIOUS
<1>1. /\ z \in Seq(Line) /\ Len(z) = Len(x) + Len(y) /\ Len(x) \in Nat /\ Len(y) \in Nat
      /\ \A i \in 1..Len(x) : z[i] = x[i] /\ i \in 1..Len(z)
      /\ \A i \in 1..Len(y) : z[Len(x) + i] = y[i] /\ Len(x) + i \in 1..Len(z)
      /\ \A i \in 1..Len(z) : i \in 1..Len(x) \/ \E j \in 1..Len(y) : i = Len(x) + j
      /\ \A i \in 1..Len(x) : \A s : Under(x, i, s) => Under(z, i, s)
      /\ \A i \in 1..Len(y) : \A s : Under(y, i, s) => Under(z, Len(x) + i, s)
  <2>1. Joins(x, y, z)
    BY <1>0, Joined
  <2> QED
    BY <2>1, Zenon DEF Joins
<1>2. ASSUME About(x, d), About(y, d), NEW i \in 1..Len(z) PROVE AboutLine(z, i, d)
  <2>1. CASE i \in 1..Len(x)
    <3>1. AboutLine(x, i, d) /\ z[i] = x[i]
      BY <1>1, <1>2, <2>1 DEF About
    <3> QED
      BY <1>1, <2>1, <3>1, Zenon DEF AboutLine
  <2>2. ASSUME NEW j \in 1..Len(y), i = Len(x) + j PROVE AboutLine(z, i, d)
    <3>1. AboutLine(y, j, d) /\ z[i] = y[j]
      BY <1>1, <1>2, <2>2 DEF About
    <3> QED
      BY <1>1, <2>2, <3>1, Zenon DEF AboutLine
  <2> QED
    BY <1>1, <2>1, <2>2
<1>3. ASSUME NEW s, HasSection(x, d, s) PROVE HasSection(z, d, s)
  <2>1. \E i \in 1..Len(z) : z[i] = Section(s)
    <3>1. PICK i \in 1..Len(x) : x[i] = Section(s)
      BY <1>3, Zenon DEF HasSection
    <3>2. i \in 1..Len(z) /\ z[i] = x[i]
      BY <1>1
    <3> QED
      BY <3>1, <3>2, Zenon
  <2>2. ASSUME NEW k \in Keys, Len(k) > 1, k[1] = s, Has(d, k)
        PROVE  \E i \in 1..Len(z) : z[i].kind # "section" /\ z[i].name = Tail(k) /\ Under(z, i, s)
    <3>1. PICK i \in 1..Len(x) : x[i].kind # "section" /\ x[i].name = Tail(k) /\ Under(x, i, s)
      BY <1>3, <2>2, Zenon DEF HasSection
    <3>2. i \in 1..Len(z) /\ z[i] = x[i] /\ Under(z, i, s)
      BY <1>1, <3>1, Zenon
    <3> QED
      BY <3>1, <3>2, Zenon
  <2> QED
    BY <2>1, <2>2, Zenon DEF HasSection
<1>4. ASSUME NEW s, HasSection(y, d, s) PROVE HasSection(z, d, s)
  <2>1. \E i \in 1..Len(z) : z[i] = Section(s)
    BY <1>1, <1>4, Zenon DEF HasSection
  <2>2. ASSUME NEW k \in Keys, Len(k) > 1, k[1] = s, Has(d, k)
        PROVE  \E i \in 1..Len(z) : z[i].kind # "section" /\ z[i].name = Tail(k) /\ Under(z, i, s)
    <3>1. PICK i \in 1..Len(y) : y[i].kind # "section" /\ y[i].name = Tail(k) /\ Under(y, i, s)
      BY <1>4, <2>2, Zenon DEF HasSection
    <3>2. Len(x) + i \in 1..Len(z) /\ z[Len(x) + i] = y[i] /\ Under(z, Len(x) + i, s)
      BY <1>1, <3>1, Zenon
    <3> QED
      BY <3>1, <3>2, Zenon
  <2> QED
    BY <2>1, <2>2, Zenon DEF HasSection
<1> QED
  BY <1>0, <1>2, <1>3, <1>4 DEF About

(* The slots iniparser_dump_ini looks at are all of them.                  *)
AllSlots(d, slots) == slots \in Seq(Nat) /\ \A i \in Used(d) : \E a \in 1..Len(slots) : slots[a] = i

(* A section is written with all of its entries.                           *)
LEMMA SectionDumped ==
  ASSUME NEW d, Holds(d), NEW slots, AllSlots(d, slots), NEW s \in Words, Has(d, <<s>>)
  PROVE  About(DumpSection(d, slots, s), d) /\ HasSection(DumpSection(d, slots, s), d, s)
<1> DEFINE of == EntrySlots(d, slots, s)
           S == {i \in Used(d) : Len(d.key[i]) > 1 /\ d.key[i][1] = s}
           es == [j \in 1..Len(of) |-> Entry(Tail(d.key[of[j]]), d.val[of[j]])]
           x == DumpSection(d, slots, s)
<1>1. /\ of \in Seq(Nat) /\ \A a \in 1..Len(of) : of[a] \in S
      /\ \A i \in 1..Len(slots) : slots[i] \in S => \E a \in 1..Len(of) : of[a] = slots[i]
  <2>1. of = Pick(slots, S) /\ slots \in Seq(Nat)
    BY DEF EntrySlots, AllSlots
  <2>2. ASSUME NEW q \in Seq(Nat), NEW R
        PROVE  /\ Pick(q, R) \in Seq(Nat)
               /\ \A a \in 1..Len(Pick(q, R)) : Pick(q, R)[a] \in R
               /\ \A i \in 1..Len(q) :
                    q[i] \in R => \E a \in 1..Len(Pick(q, R)) : Pick(q, R)[a] = q[i]
    BY Picked
  <2> HIDE DEF S, of
  <2>3. /\ Pick(slots, S) \in Seq(Nat)
        /\ \A a \in 1..Len(Pick(slots, S)) : Pick(slots, S)[a] \in S
        /\ \A i \in 1..Len(slots) :
             slots[i] \in S => \E a \in 1..Len(Pick(slots, S)) : Pick(slots, S)[a] = slots[i]
    BY <2>1, <2>2
  <2> QED
    BY <2>1, <2>3, Zenon
<1> HIDE DEF of
<1>2. /\ Len(x) = Len(of) + 1 /\ Len(of) \in Nat
      /\ x[1] = Section(s)
      /\ \A j \in 1..Len(of) : x[j + 1] = Entry(Tail(d.key[of[j]]), d.val[of[j]])
  <2>1. PICK n \in Nat : n = Len(of)
    BY <1>1
  <2>2. es \in Seq({es[j] : j \in 1..n}) /\ Len(es) = n
    <3>1. es \in [1..n -> {es[j] : j \in 1..n}]
      BY <2>1
    <3> HIDE DEF es
    <3> QED
      BY <3>1
  <2>3. x = <<Section(s)>> \o es
    BY DEF DumpSection, of
  <2>4. PICK f : f = Section(s)
    OBVIOUS
  <2>5. ASSUME NEW j \in 1..n PROVE es[j] = Entry(Tail(d.key[of[j]]), d.val[of[j]])
    BY <2>1
  <2> HIDE DEF es, x
  <2> DEFINE E == {es[j] : j \in 1..n} \union {f}
  <2>6. es \in Seq(E) /\ <<f>> \in Seq(E) /\ Len(<<f>>) = 1 /\ <<f>>[1] = f
    BY <2>2
  <2> HIDE DEF E
  <2>7. PICK g \in Seq(E) : g = <<f>> /\ Len(g) = 1 /\ g[1] = f
    BY <2>6
  <2>8. /\ Len(g \o es) = Len(g) + Len(es)
        /\ \A i \in 1..(Len(g) + Len(es)) :
             (g \o es)[i] = IF i <= Len(g) THEN g[i] ELSE es[i - Len(g)]
    BY <2>6, ConcatProperties, Zenon
  <2>9. Len(x) = 1 + n /\ \A i \in 1..(1 + n) : x[i] = IF i <= 1 THEN g[i] ELSE es[i - 1]
    BY <2>2, <2>3, <2>4, <2>7, <2>8
  <2>10. 1 \in 1..(1 + n) /\ \A j \in 1..n : j + 1 \in 1..(1 + n) /\ ~(j + 1 <= 1) /\ (j + 1) - 1 = j
    OBVIOUS
  <2>11. x[1] = f /\ \A j \in 1..n : x[j + 1] = es[j]
    BY <2>7, <2>9, <2>10
  <2> QED
    BY <2>1, <2>4, <2>5, <2>9, <2>11
<1> HIDE DEF x
<1>3. ASSUME NEW j \in 1..Len(of)
      PROVE  \E k \in Keys : /\ k = d.key[of[j]] /\ Has(d, k) /\ k = <<s>> \o Tail(k)
                             /\ d.val[of[j]] = Get(d, k)
  <2>1. of[j] \in Used(d) /\ Len(d.key[of[j]]) > 1 /\ d.key[of[j]][1] = s
    BY <1>1
  <2>2. PICK k \in Keys : k = d.key[of[j]] /\ d.val[of[j]] = Get(d, k) /\ Has(d, k)
    BY <2>1, SlotHolds DEF Has
  <2>3. k = <<s>> \o Tail(k)
    BY <2>1, <2>2, KeyParts
  <2> QED
    BY <2>2, <2>3
<1>4. \A j \in 1..Len(of) : x[j + 1].kind = "entry" /\ x[j + 1].name = Tail(d.key[of[j]])
                            /\ x[j + 1].val = d.val[of[j]]
  <2> TAKE j \in 1..Len(of)
  <2>1. PICK n : n = Tail(d.key[of[j]])
    OBVIOUS
  <2>2. PICK v : v = d.val[of[j]]
    OBVIOUS
  <2>3. x[j + 1] = [kind |-> "entry", name |-> n, val |-> v]
    BY <1>2, <2>1, <2>2 DEF Entry
  <2> QED
    BY <2>1, <2>2, <2>3
<1>5. x[1].kind = "section" /\ x[1].name = <<s>>
  BY <1>2 DEF Section
<1>6. /\ \A i \in 1..Len(x) : i = 1 \/ (i - 1 \in 1..Len(of) /\ (i - 1) + 1 = i)
      /\ 1 \in 1..Len(x) /\ \A j \in 1..Len(of) : j + 1 \in 1..Len(x)
  BY <1>2
<1>7. ASSUME NEW i \in 1..Len(x) PROVE Under(x, i, s)
  <2>1. 1 \in 1..i
    BY <1>2
  <2>2. ASSUME NEW m \in (1 + 1)..i PROVE x[m].kind # "section"
    <3>1. m \in 1..Len(x) /\ m # 1
      BY <1>2
    <3>2. m - 1 \in 1..Len(of) /\ (m - 1) + 1 = m
      BY <1>6, <3>1
    <3>3. x[(m - 1) + 1].kind = "entry"
      BY <1>4, <3>2
    <3> QED
      BY <3>2, <3>3
  <2> QED
    BY <1>2, <2>1, <2>2 DEF Under
<1>8. ASSUME NEW i \in 1..Len(x) PROVE AboutLine(x, i, d)
  <2>1. CASE i = 1
    BY <1>5, <2>1 DEF AboutLine
  <2>2. CASE i # 1
    <3>1. PICK j \in 1..Len(of) : i = j + 1
      BY <1>6, <2>2
    <3>2. PICK k \in Keys : /\ k = d.key[of[j]] /\ Has(d, k) /\ k = <<s>> \o Tail(k)
                            /\ d.val[of[j]] = Get(d, k)
      BY <1>3
    <3>3. x[i].kind # "section" /\ x[i].name = Tail(k) /\ x[i].val = Get(d, k)
      BY <1>4, <3>1, <3>2
    <3>4. Has(d, <<s>> \o x[i].name) /\ x[i].val = Get(d, <<s>> \o x[i].name)
      BY <3>2, <3>3, Zenon
    <3> QED
      BY <1>7, <3>3, <3>4, Zenon DEF AboutLine
  <2> QED
    BY <2>1, <2>2
<1>9. ASSUME NEW k \in Keys, Len(k) > 1, k[1] = s, Has(d, k)
      PROVE  \E i \in 1..Len(x) : x[i].kind # "section" /\ x[i].name = Tail(k) /\ Under(x, i, s)
  <2>1. k # Null
    BY IniAssumption DEF Keys
  <2>2. PICK p \in Slots(d) : d.key[p] = k
    BY <1>9 DEF Has
  <2>3. p \in Used(d) /\ p \in S
    BY <1>9, <2>1, <2>2 DEF Used
  <2>4. PICK a \in 1..Len(of) : of[a] = p
    BY <1>1, <2>3 DEF AllSlots
  <2>5. a + 1 \in 1..Len(x) /\ x[a + 1].kind # "section" /\ x[a + 1].name = Tail(k)
    BY <1>4, <1>6, <2>2, <2>4
  <2> QED
    BY <1>7, <2>5
<1> QED
  BY <1>2, <1>6, <1>8, <1>9 DEF x, About, HasSection

(* What the lines that are written for d say about it: all of it that is   *)
(* in a section of d, or nothing when d has no section.                    *)
Tells(f, d) ==
  \/ About(f, d) /\ Whole(f, d)
  \/ /\ NoSection(f, Len(f)) /\ \A s \in Words : ~Has(d, <<s>>)
     /\ \A j \in 1..Len(f) : \E i \in Used(d) : f[j].val = d.val[i]

(* iniparser_dump_ini writes lines that tell of every section.             *)
LEMMA Dumped ==
  ASSUME NEW d, Holds(d)
  PROVE  iniparser_dump_ini(d) \in Seq(Line) /\ Tells(iniparser_dump_ini(d), d)
<1> DEFINE slots == [i \in 1..d.size |-> i - 1]
           secs == SectionSlots(d, slots)
           all == Pick(slots, Used(d))
           S == {i \in Used(d) : Len(d.key[i]) = 1}
<1>0. d.size \in Nat /\ Slots(d) = 0..(d.size - 1)
  BY Counts DEF Holds
<1>1. AllSlots(d, slots) /\ slots \in Seq(Nat)
  <2>1. slots \in [1..d.size -> Nat] /\ Len(slots) = d.size
    BY <1>0
  <2>2. slots \in Seq(Nat)
    BY <1>0, <2>1
  <2>3. ASSUME NEW i \in Used(d) PROVE \E a \in 1..Len(slots) : slots[a] = i
    <3>1. i \in 0..(d.size - 1)
      BY <1>0 DEF Used
    <3>2. i + 1 \in 1..d.size /\ (i + 1) - 1 = i
      BY <1>0, <3>1
    <3>3. slots[i + 1] = i
      BY <3>2
    <3> QED
      BY <2>1, <3>2, <3>3
  <2> QED
    BY <2>2, <2>3 DEF AllSlots
<1> HIDE DEF slots
<1>2. /\ secs \in Seq(Nat) /\ Len(secs) \in Nat
      /\ \A a \in 1..Len(secs) : secs[a] \in S
      /\ \A i \in 1..Len(slots) : slots[i] \in S => \E a \in 1..Len(secs) : secs[a] = slots[i]
  <2>1. secs = Pick(slots, S)
    BY DEF SectionSlots
  <2> HIDE DEF S
  <2>2. /\ Pick(slots, S) \in Seq(Nat)
        /\ \A a \in 1..Len(Pick(slots, S)) : Pick(slots, S)[a] \in S
        /\ \A i \in 1..Len(slots) :
             slots[i] \in S => \E a \in 1..Len(Pick(slots, S)) : Pick(slots, S)[a] = slots[i]
    <3>1. ASSUME NEW q \in Seq(Nat), NEW R
          PROVE  /\ Pick(q, R) \in Seq(Nat)
                 /\ \A a \in 1..Len(Pick(q, R)) : Pick(q, R)[a] \in R
                 /\ \A i \in 1..Len(q) :
                      q[i] \in R => \E a \in 1..Len(Pick(q, R)) : Pick(q, R)[a] = q[i]
      BY Picked
    <3> QED
      BY <1>1, <3>1
  <2> HIDE DEF secs
  <2>3. Len(secs) \in Nat
    BY <2>1, <2>2
  <2> QED
    BY <2>1, <2>2, <2>3, Zenon
<1>3. all \in Seq(Nat) /\ \A a \in 1..Len(all) : all[a] \in Used(d)
  BY <1>1, Picked
<1>4. ASSUME NEW i \in Used(d), Len(d.key[i]) = 1 PROVE \E a \in 1..Len(secs) : secs[a] = i
  <2>1. PICK b \in 1..Len(slots) : slots[b] = i
    BY <1>1 DEF AllSlots
  <2>2. slots[b] \in S
    BY <1>4, <2>1
  <2> QED
    BY <1>2, <2>1, <2>2
<1>5. ASSUME NEW s \in Words, Has(d, <<s>>)
      PROVE  \E a \in 1..Len(secs) : d.key[secs[a]] = <<s>>
  <2>1. <<s>> \in Keys /\ Len(<<s>>) = 1
    BY KeyParts, Zenon
  <2>2. <<s>> # Null
    BY <2>1, IniAssumption DEF Keys
  <2>3. PICK i \in Slots(d) : d.key[i] = <<s>>
    BY <1>5 DEF Has
  <2>4. i \in Used(d)
    BY <2>2, <2>3 DEF Used
  <2> QED
    BY <1>4, <2>1, <2>3, <2>4, Zenon
<1>6. CASE secs = <<>>
  <2> DEFINE es == [j \in 1..Len(all) |-> Entry(d.key[all[j]], d.val[all[j]])]
  <2>1. ASSUME NEW j \in 1..Len(all) PROVE Entry(d.key[all[j]], d.val[all[j]]) \in Line
    <3>1. all[j] \in Used(d)
      BY <1>3
    <3>2. Len(d.key[all[j]]) # 1
      BY <1>4, <1>6, <3>1
    <3>3. d.key[all[j]] \in Keys /\ d.val[all[j]] \in Values
      BY <3>1, <3>2, SlotHolds DEF ValuesOf
    <3> QED
      BY <3>3 DEF Entry, Line
  <2>2. \A j \in 1..Len(all) : es[j].kind # "section"
    BY DEF Entry
  <2>8. ASSUME NEW j \in 1..Len(all) PROVE \E i \in Used(d) : es[j].val = d.val[i]
    BY <1>3 DEF Entry
  <2> HIDE DEF all
  <2>3. es \in [1..Len(all) -> Line] /\ Len(all) \in Nat
    BY <1>3, <2>1
  <2>4. iniparser_dump_ini(d) = es
    BY <1>6 DEF iniparser_dump_ini, DumpSlots, slots, secs, all, es
  <2> HIDE DEF es
  <2>5. es \in Seq(Line) /\ Len(es) = Len(all)
    BY <2>3
  <2>6. NoSection(es, Len(es))
    BY <2>2, <2>5 DEF NoSection
  <2>7. \A s \in Words : ~Has(d, <<s>>)
    <3>1. 1..Len(secs) = {}
      BY <1>6
    <3> QED
      BY <1>5, <3>1
  <2>9. \A j \in 1..Len(es) : \E i \in Used(d) : es[j].val = d.val[i]
    BY <2>5, <2>8
  <2> QED
    BY <2>4, <2>5, <2>6, <2>7, <2>9 DEF Tells
<1>7. CASE secs # <<>>
  <2> DEFINE h == CHOOSE g : Dumps(d, slots, g)
  <2>1. Dumps(d, slots, h)
    BY <1>2, DumpsExist, Zenon
  <2>2. iniparser_dump_ini(d) = h[Len(secs)]
    BY <1>7 DEF iniparser_dump_ini, DumpSlots, Dumps, slots
  <2> HIDE DEF h
  <2> DEFINE Good(j) == /\ h[j] \in Seq(Line) /\ About(h[j], d)
                        /\ \A a \in 1..j : HasSection(h[j], d, d.key[secs[a]][1])
             T == {j \in 0..Len(secs) : Good(j)}
  <2>3. h = [j \in 0..Len(secs) |->
               IF j = 0 THEN <<>>
               ELSE h[j - 1] \o DumpSection(d, slots, d.key[secs[j]][1])]
    BY <2>1 DEF Dumps
  <2> HIDE DEF secs
  <2>4. 0 \in T
    <3>1. h[0] = <<>> /\ 0 \in 0..Len(secs)
      BY <1>2, <2>3
    <3>2. <<>> \in Seq(Line) /\ Len(<<>>) = 0 /\ 1..0 = {}
      OBVIOUS
    <3>3. About(<<>>, d)
      BY <3>2 DEF About
    <3> QED
      BY <3>1, <3>2, <3>3
  <2>5. ASSUME NEW j \in 0..(Len(secs) - 1), j \in T PROVE j + 1 \in T
    <3>1. /\ j + 1 \in 1..Len(secs) /\ j + 1 \in 0..Len(secs) /\ j + 1 # 0 /\ (j + 1) - 1 = j
          /\ \A a \in 1..(j + 1) : a \in 1..j \/ a = j + 1
      BY <1>2
    <3>2. h[j + 1] = h[j] \o DumpSection(d, slots, d.key[secs[j + 1]][1])
      BY <2>3, <3>1
    <3>3. secs[j + 1] \in Used(d) /\ Len(d.key[secs[j + 1]]) = 1
      BY <1>2, <3>1
    <3>4. PICK k \in Keys : k = d.key[secs[j + 1]] /\ Has(d, k) /\ Len(k) = 1
      BY <3>3, SlotHolds DEF Has
    <3>5. PICK s \in Words : s = k[1] /\ k = <<s>>
      <4>1. k \in Seq(Words) /\ Len(k) = 1 /\ k[1] \in Words
        BY <3>4, KeyParts DEF Keys
      <4>2. PICK x \in Seq(Words) : x = <<k[1]>> /\ Len(x) = 1 /\ x[1] = k[1]
        BY <4>1, KeyParts DEF Keys
      <4>3. \A i \in 1..Len(k) : x[i] = k[i]
        BY <4>1, <4>2
      <4>4. k = x
        BY <4>1, <4>2, <4>3, SeqEqual
      <4> QED
        BY <4>1, <4>2, <4>4
    <3> DEFINE x == h[j]
               y == DumpSection(d, slots, s)
    <3>6. h[j + 1] = x \o y
      BY <3>2, <3>4, <3>5
    <3>7. y \in Seq(Line)
      BY <1>1, SectionLines
    <3>8. About(y, d) /\ HasSection(y, d, s)
      BY <1>1, <3>4, <3>5, SectionDumped
    <3>9. Good(j)
      BY <2>5
    <3>10. x \in Seq(Line) /\ About(x, d)
      BY <3>9
    <3>11. \A a \in 1..j : HasSection(x, d, d.key[secs[a]][1])
      BY <3>9
    <3> HIDE DEF x, y
    <3>12. Joins(x, y, x \o y)
      BY <3>7, <3>10, Joined
    <3>13. x \o y \in Seq(Line)
      BY <3>12 DEF Joins
    <3>14. About(x \o y, d)
      BY <3>7, <3>8, <3>10, JoinedAbout
    <3>15. \A a : HasSection(x, d, a) \/ HasSection(y, d, a) => HasSection(x \o y, d, a)
      BY <3>7, <3>10, JoinedAbout
    <3>16. ASSUME NEW a \in 1..(j + 1) PROVE HasSection(x \o y, d, d.key[secs[a]][1])
      <4>1. CASE a = j + 1
        BY <3>4, <3>5, <3>8, <3>15, <4>1
      <4>2. CASE a \in 1..j
        BY <3>11, <3>15, <4>2
      <4> QED
        BY <3>1, <4>1, <4>2
    <3>17. Good(j + 1)
      BY <3>6, <3>13, <3>14, <3>16
    <3> QED
      BY <3>1, <3>17
  <2>6. 0..Len(secs) \subseteq T
    <3> HIDE DEF T
    <3> QED
      BY <1>2, <2>4, <2>5, UpTo
  <2>7. Good(Len(secs))
    BY <1>2, <2>6
  <2>8. PICK f : f = h[Len(secs)]
    OBVIOUS
  <2>9. ASSUME NEW s \in Words, Has(d, <<s>>) PROVE HasSection(f, d, s)
    <3>1. PICK a \in 1..Len(secs) : d.key[secs[a]] = <<s>>
      BY <1>5, <2>9
    <3>2. <<s>>[1] = s
      OBVIOUS
    <3> QED
      BY <2>7, <2>8, <3>1, <3>2
  <2>10. f \in Seq(Line) /\ About(f, d) /\ Whole(f, d)
    BY <2>7, <2>8, <2>9 DEF Whole
  <2> QED
    BY <2>2, <2>8, <2>10 DEF Tells
<1> QED
  BY <1>6, <1>7

(* The values that are written are values of d.                            *)
LEMMA DumpedValues ==
  ASSUME NEW d, Holds(d), NEW f \in Seq(Line), Tells(f, d), NEW j \in 1..Len(f)
  PROVE  f[j].val = Null \/ \E i \in Used(d) : f[j].val = d.val[i]
<1>1. f[j] \in Line
  OBVIOUS
<1>2. CASE f[j].kind = "section"
  BY <1>1, <1>2 DEF Line
<1>3. CASE About(f, d) /\ f[j].kind # "section"
  <2>1. f[j].name \in Keys
    BY <1>1, <1>3 DEF Line
  <2>2. PICK s \in Words : /\ Has(d, <<s>> \o f[j].name)
                           /\ f[j].val = Get(d, <<s>> \o f[j].name)
    BY <1>3 DEF About, AboutLine
  <2>3. PICK k \in Keys : k = <<s>> \o f[j].name
    BY <2>1, LongerKey
  <2>4. Has(d, k) /\ f[j].val = Get(d, k) /\ k # Null
    BY <2>2, <2>3, IniAssumption DEF Keys
  <2>5. Find(d, k) \in Slots(d) /\ d.key[Find(d, k)] = k
    BY <2>4, FindSlot DEF Holds
  <2> QED
    BY <2>4, <2>5 DEF Used, Get, dictionary_get
<1>4. CASE ~About(f, d)
  BY <1>4 DEF Tells
<1> QED
  BY <1>2, <1>3, <1>4

(* What is written for a dictionary is read line by line, if no value of   *)
(* it ends in a backslash.                                                 *)
LEMMA DumpedStraight ==
  ASSUME NEW d, Holds(d), Straight(d), NEW f \in Seq(Line), Tells(f, d), NEW j \in 1..Len(f)
  PROVE  /\ ~Continued(f[j])
         /\ Fits(d) => ~Is(f[j].val, "spoiling")
<1>1. ~Is(Null, "continued") /\ ~Is(Null, "spoiling")
  BY DEF Is
<1>2. \A i \in Used(d) : ~Is(d.val[i], "continued")
  BY DEF Straight
<1>3. Fits(d) => \A i \in Used(d) : ~Is(d.val[i], "spoiling")
  BY DEF Fits
<1>4. f[j].val = Null \/ \E i \in Used(d) : f[j].val = d.val[i]
  BY DumpedValues
<1> QED
  BY <1>1, <1>2, <1>3, <1>4 DEF Continued

(* e is what the file can hold of d: its sections and their entries,       *)
(* without quotes and blanks around them and what looks like a comment.    *)
Restored(e, d) ==
  /\ \A s \in Words : Has(e, <<s>>) <=> Has(d, <<s>>)
  /\ \A k : EntryKey(k) =>
       /\ Has(e, k) <=> Has(d, k) /\ Has(d, <<k[1]>>)
       /\ Get(e, k) = IF Has(d, <<k[1]>>) THEN iniparser_line(Get(d, k)) ELSE Null

(* The round trip of iniparser_dump_ini and iniparser_load: whatever was   *)
(* set and unset before, what is written for a dictionary none of whose    *)
(* values ends in a backslash gives back, if it can be read, every section *)
(* and every entry of a section; and it can be read if no line is too      *)
(* long or has a line break in it.                                         *)
THEOREM LoadDump ==
  ASSUME NEW d, Holds(d), Straight(d)
  PROVE  /\ Fits(d) => ~Unreadable(iniparser_dump_ini(d))
         /\ ~Unreadable(iniparser_dump_ini(d)) =>
              /\ Holds(iniparser_load(iniparser_dump_ini(d)))
              /\ Restored(iniparser_load(iniparser_dump_ini(d)), d)
<1>1. PICK f : f = iniparser_dump_ini(d)
  OBVIOUS
<1>2. f \in Seq(Line) /\ Tells(f, d)
  BY <1>1, Dumped
<1>3. Len(f) \in Nat /\ \A i \in 1..Len(f) : f[i] \in Line
  BY <1>2
<1>a. \A i \in 1..Len(f) : f[i] \in AnyLine /\ ~Continued(f[i])
  BY <1>2, <1>3, DumpedStraight DEF AnyLine
<1>b. ASSUME Fits(d) PROVE ~Unreadable(f)
  <2>1. \A i \in 1..Len(f) : ~Is(f[i].val, "spoiling")
    BY <1>2, <1>b, DumpedStraight
  <2> QED
    BY <1>3, <1>a, <2>1, Direct
<1> SUFFICES ASSUME ~Unreadable(f)
             PROVE  Holds(iniparser_load(f)) /\ Restored(iniparser_load(f), d)
  BY <1>1, <1>b
<1>5. PICK e : e = iniparser_load(f)
  OBVIOUS
<1>4. e = LoadLines(f)
  BY <1>3, <1>5, <1>a, Direct
<1>6. Holds(e)
  BY <1>3, <1>4, Loaded
<1>7. \A k : EntryKey(k) => k \in Keys /\ Len(k) > 1 /\ k[1] \in Words
  BY KeyParts DEF EntryKey
<1>8. \A x, k : ~Has(x, k) => Get(x, k) = Null
  BY DEF Get, dictionary_get
<1>9. iniparser_line(Null) = Null
  BY DEF iniparser_line
<1>10. CASE About(f, d) /\ Whole(f, d)
  <2>1. /\ \A s \in Words : Has(e, <<s>>) => Has(d, <<s>>)
        /\ \A k : EntryKey(k) /\ Has(e, k) =>
             Has(d, k) /\ Has(d, <<k[1]>>) /\ Get(e, k) = iniparser_line(Get(d, k))
    BY <1>3, <1>4, <1>10, LoadedAbout
  <2>2. /\ \A s \in Words : Has(d, <<s>>) => Has(e, <<s>>)
        /\ \A k \in Keys : Len(k) > 1 /\ Has(d, k) /\ Has(d, <<k[1]>>) => Has(e, k)
    BY <1>3, <1>4, <1>10, LoadedWhole
  <2>3. ASSUME NEW k, EntryKey(k)
        PROVE  /\ Has(e, k) <=> Has(d, k) /\ Has(d, <<k[1]>>)
               /\ Get(e, k) = IF Has(d, <<k[1]>>) THEN iniparser_line(Get(d, k)) ELSE Null
    <3>1. Has(e, k) <=> Has(d, k) /\ Has(d, <<k[1]>>)
      BY <1>7, <2>1, <2>2, <2>3, Zenon
    <3>2. CASE Has(e, k)
      BY <2>1, <2>3, <3>1, <3>2, Zenon
    <3>3. CASE ~Has(e, k)
      <4>1. Get(e, k) = Null
        BY <1>8, <3>3, Zenon
      <4>2. Has(d, <<k[1]>>) => Get(d, k) = Null
        BY <1>8, <3>1, <3>3, Zenon
      <4> QED
        BY <1>9, <3>1, <4>1, <4>2, Zenon
    <3> QED
      BY <3>1, <3>2, <3>3
  <2>4. Restored(e, d)
    BY <2>1, <2>2, <2>3, Zenon DEF Restored
  <2> QED
    BY <1>5, <1>6, <2>4
<1>11. CASE NoSection(f, Len(f)) /\ \A s \in Words : ~Has(d, <<s>>)
  <2>1. /\ \A s \in Words : ~Has(e, <<s>>)
        /\ \A k : EntryKey(k) => ~Has(e, k)
    BY <1>3, <1>4, <1>11, LoadedPlain
  <2>2. Restored(e, d)
    BY <1>7, <1>8, <1>11, <2>1, Zenon DEF Restored
  <2> QED
    BY <1>5, <1>6, <2>2
<1> QED
  BY <1>2, <1>10, <1>11 DEF Tells

(* What e says of an entry is what d says, but for one that was cut.       *)
PartBut(e, d, cut) ==
  \A k : EntryKey(k) =>
    Get(e, k) \in {Null, iniparser_line(Get(d, k))} \/ (k = cut /\ Get(e, k) = Torn)
PartOf(e, d) == \E cut : PartBut(e, d, cut)

(* Lines that start alike say alike.                                       *)
LEMMA SameStart ==
  ASSUME NEW f, NEW g, NEW n \in Nat, \A j \in 1..n : f[j] = g[j], NEW d
  PROVE  /\ \A j \in 1..n : AboutLine(f, j, d) => AboutLine(g, j, d)
         /\ NoSection(f, n) => NoSection(g, n)
<1>1. ASSUME NEW j \in 1..n, NEW s, Under(f, j, s) PROVE Under(g, j, s)
  <2>1. PICK i \in 1..j : f[i] = Section(s) /\ \A m \in (i + 1)..j : f[m].kind # "section"
    BY <1>1 DEF Under
  <2>2. i \in 1..n /\ (i + 1)..j \subseteq 1..n
    OBVIOUS
  <2>3. g[i] = Section(s) /\ \A m \in (i + 1)..j : g[m].kind # "section"
    BY <2>1, <2>2
  <2> QED
    BY <2>3 DEF Under
<1>2. ASSUME NEW j \in 1..n, AboutLine(f, j, d) PROVE AboutLine(g, j, d)
  BY <1>1, <1>2, Zenon DEF AboutLine
<1> QED
  BY <1>2 DEF NoSection

(* A file that starts with lines about d, or with lines under no section,  *)
(* and has one cut line behind them at most, says what d says.             *)
LEMMA LoadedStart ==
  ASSUME NEW f, Len(f) \in Nat, \A i \in 1..Len(f) : f[i] \in Line, NEW d, NEW n \in 0..Len(f),
         n = Len(f) \/ (n = Len(f) - 1 /\ f[Len(f)].kind # "section" /\ f[Len(f)].val = Torn),
         (\A j \in 1..n : AboutLine(f, j, d)) \/ NoSection(f, n)
  PROVE  PartOf(LoadLines(f), d)
<1>1. PICK h : Steps(f, h) /\ LoadLines(f) = h[Len(f)].d
  BY Loading
<1>2. PICK e : e = LoadLines(f)
  OBVIOUS
<1>3. Reads(f, h, e)
  BY <1>1, <1>2, Found
<1>4. iniparser_line(Torn) = Torn
  BY DEF iniparser_line
<1>5. ASSUME NEW k, EntryKey(k)
      PROVE  \/ Get(e, k) \in {Null, iniparser_line(Get(d, k))}
             \/ k = LineKey(f, h, Len(f)) /\ Get(e, k) = Torn
  <2>1. CASE ~Has(e, k)
    BY <2>1 DEF Get, dictionary_get
  <2>2. CASE Has(e, k)
    <3>1. k # Null
      BY <1>5, IniAssumption DEF EntryKey, Keys
    <3>2. PICK j \in 1..Len(f) : LineKey(f, h, j) = k /\ Get(e, k) = LineVal(f, j)
      BY <1>3, <2>2, <3>1, Zenon DEF Reads
    <3>3. CASE j \in 1..n
      <4>1. 1..j \subseteq 1..n
        BY <3>3
      <4>2. CASE NoSection(f, n)
        <5>1. NoSection(f, j)
          BY <4>1, <4>2 DEF NoSection
        <5>2. LineKey(f, h, j)[1] = ""
          BY <1>1, <5>1, LinePlain
        <5> QED
          BY <1>5, <3>2, <5>2 DEF EntryKey
      <4>3. CASE \A i \in 1..n : AboutLine(f, i, d)
        <5>1. \A i \in 1..j : AboutLine(f, i, d)
          BY <4>1, <4>3
        <5>2. SaysOf(f, j, k, d)
          BY <1>1, <1>5, <3>2, <5>1, LineEntry
        <5> QED
          BY <3>2, <5>2, Zenon DEF SaysOf
      <4> QED
        BY <4>2, <4>3
    <3>4. CASE j \notin 1..n
      <4>1. j = Len(f) /\ f[j].kind # "section" /\ f[j].val = Torn
        BY <3>4
      <4>2. LineVal(f, j) = Torn
        BY <1>4, <4>1 DEF LineVal
      <4> QED
        BY <3>2, <4>1, <4>2, Zenon
    <3> QED
      BY <3>3, <3>4
  <2> QED
    BY <2>1, <2>2
<1>6. PICK cut : cut = LineKey(f, h, Len(f))
  OBVIOUS
<1>7. \A k : EntryKey(k) =>
        Get(e, k) \in {Null, iniparser_line(Get(d, k))} \/ (k = cut /\ Get(e, k) = Torn)
  BY <1>5, <1>6, Zenon
<1>8. PartOf(e, d)
  <2>1. PartBut(e, d, cut)
    BY <1>7, Zenon DEF PartBut
  <2> QED
    BY <2>1, Zenon DEF PartOf
<1> QED
  BY <1>2, <1>8

(* What a crash leaves of a save, if it can be read at all, has none but   *)
(* entries of the dictionary that was being saved, one of them cut short   *)
(* at most, provided that none of its values ends in a backslash.          *)
THEOREM LoadPartial ==
  ASSUME NEW d, Holds(d), Straight(d), NEW p \in Partial(iniparser_dump_ini(d)), ~Unreadable(p)
  PROVE  PartOf(iniparser_load(p), d)
<1>1. PICK lines \in Seq(Line) : lines = iniparser_dump_ini(d) /\ Tells(lines, d)
  BY Dumped
<1>0. Len(lines) \in Nat /\ \A i \in 1..Len(lines) : lines[i] \in Line
  OBVIOUS
<1> DEFINE Part(i) == SubSeq(lines, 1, i)
<1>2. ASSUME NEW i \in 0..Len(lines)
      PROVE  /\ Part(i) \in Seq(Line) /\ Len(Part(i)) = i
             /\ \A j \in 1..i : Part(i)[j] = lines[j]
  <2>1. 1 \in Int /\ i \in Int /\ \A j \in 1..i : j \in 1..Len(lines)
    BY <1>0
  <2>2. \A j \in 1..i : lines[j] \in Line
    BY <1>0, <2>1
  <2>3. /\ SubSeq(lines, 1, i) \in Seq(Line)
        /\ Len(SubSeq(lines, 1, i)) = IF 1 <= i THEN i - 1 + 1 ELSE 0
        /\ \A j \in 1..(i - 1 + 1) : SubSeq(lines, 1, i)[j] = lines[1 + j - 1]
    <3> HIDE DEF Line
    <3> QED
      BY <2>1, <2>2, SubSeqProperties
  <2>4. (IF 1 <= i THEN i - 1 + 1 ELSE 0) = i /\ i - 1 + 1 = i /\ \A j \in 1..i : 1 + j - 1 = j
    OBVIOUS
  <2> QED
    BY <2>3, <2>4
<1> HIDE DEF Part
<1>3. ASSUME NEW n \in 0..Len(lines), NEW f, \A j \in 1..n : f[j] = lines[j]
      PROVE  (\A j \in 1..n : AboutLine(f, j, d)) \/ NoSection(f, n)
  <2>1. n \in Nat /\ 1..n \subseteq 1..Len(lines) /\ \A j \in 1..n : lines[j] = f[j]
    BY <1>0, <1>3
  <2>2. /\ \A j \in 1..n : AboutLine(lines, j, d) => AboutLine(f, j, d)
        /\ NoSection(lines, n) => NoSection(f, n)
    BY <2>1, SameStart
  <2>3. CASE About(lines, d)
    BY <2>1, <2>2, <2>3 DEF About
  <2>4. CASE NoSection(lines, Len(lines))
    BY <2>1, <2>2, <2>4 DEF NoSection
  <2> QED
    BY <1>1, <2>3, <2>4 DEF Tells
<1>4. \/ \E i \in 0..Len(lines) : p = Part(i)
      \/ \E i \in 1..Len(lines) : p = Append(Part(i - 1), Broken)
      \/ \E i \in 1..Len(lines) : lines[i].kind = "entry"
                                  /\ p = Append(Part(i - 1), Entry(lines[i].name, Torn))
  BY <1>1 DEF Partial, Part
<1>9. \A i \in 1..Len(lines) : ~Continued(lines[i])
  BY <1>1, DumpedStraight
<1>5. ASSUME NEW i \in 0..Len(lines), p = Part(i) PROVE PartOf(iniparser_load(p), d)
  <2>1. /\ Len(p) \in Nat /\ \A j \in 1..Len(p) : p[j] \in Line
        /\ i = Len(p) /\ i \in 0..Len(p) /\ \A j \in 1..i : p[j] = lines[j]
    BY <1>2, <1>5
  <2>2. (\A j \in 1..i : AboutLine(p, j, d)) \/ NoSection(p, i)
    BY <1>3, <2>1
  <2>3. \A j \in 1..Len(p) : p[j] \in AnyLine /\ ~Continued(p[j])
    BY <1>0, <1>9, <2>1 DEF AnyLine
  <2>4. iniparser_load(p) = LoadLines(p)
    BY <2>1, <2>3, Direct
  <2> QED
    BY <2>1, <2>2, <2>4, LoadedStart
<1>6. ASSUME NEW i \in 1..Len(lines), NEW x, p = Append(Part(i - 1), x)
      PROVE  /\ Len(p) = i /\ p[i] = x /\ i \in 1..i
             /\ \A j \in 1..(i - 1) : p[j] = lines[j] /\ p[j] \in Line
  <2>1. i - 1 \in 0..Len(lines) /\ (i - 1) + 1 = i
    BY <1>0
  <2>2. PICK q \in Seq(Line) : q = Part(i - 1) /\ Len(q) = i - 1 /\ \A j \in 1..(i - 1) : q[j] = lines[j]
    BY <1>2, <2>1
  <2>3. p = Append(q, x)
    BY <1>6, <2>2
  <2> HIDE DEF Line
  <2>4. Len(p) = Len(q) + 1 /\ p[Len(q) + 1] = x /\ \A j \in 1..Len(q) : p[j] = q[j] /\ q[j] \in Line
    <3>1. q \in Seq(Line \union {x}) /\ x \in Line \union {x}
      BY SeqMonotonic
    <3> QED
      BY <2>3, <3>1, AppendProperties
  <2> QED
    BY <2>1, <2>2, <2>4
<1>7. ASSUME NEW i \in 1..Len(lines), p = Append(Part(i - 1), Broken) PROVE FALSE
  <2>1. PICK b : b = Broken /\ b \in AnyLine /\ b \notin Line /\ ~Continued(b)
    <3>0. PICK b : b = [kind |-> "broken", name |-> Null, val |-> Null]
      OBVIOUS
    <3>1. b = Broken /\ b.kind = "broken" /\ b.val = Null
      BY <3>0 DEF Broken
    <3>2. \A l \in Line : l.kind # "broken"
      BY DEF Line
    <3> QED
      BY <3>1, <3>2 DEF AnyLine, Continued, Is
  <2>2. Len(p) = i /\ p[i] = b /\ i \in 1..i /\ \A j \in 1..(i - 1) : p[j] = lines[j] /\ p[j] \in Line
    BY <1>6, <1>7, <2>1
  <2>3. \A j \in 1..i : (j \in 1..(i - 1) /\ j \in 1..Len(lines)) \/ j = i
    BY <1>0
  <2>4. \A j \in 1..Len(p) : p[j] \in AnyLine /\ ~Continued(p[j])
    BY <1>9, <2>1, <2>2, <2>3 DEF AnyLine
  <2>5. \A j \in 1..Len(p) : p[j] \in Line
    BY <2>2, <2>4, Direct
  <2> QED
    BY <2>1, <2>2, <2>5
<1>8. ASSUME NEW i \in 1..Len(lines), lines[i].kind = "entry",
             p = Append(Part(i - 1), Entry(lines[i].name, Torn))
      PROVE  PartOf(iniparser_load(p), d)
  <2>0. i \in Nat /\ i - 1 \in 0..Len(lines) /\ i - 1 \in 0..i /\ \A j \in 1..i : j \in 1..(i - 1) \/ j = i
    BY <1>0
  <2>1. PICK x \in Line : x = Entry(lines[i].name, Torn) /\ x.kind # "section" /\ x.val = Torn
    <3>1. lines[i].name \in Keys
      BY <1>0, <1>8 DEF Line
    <3>2. PICK n \in Keys : n = lines[i].name
      BY <3>1
    <3>3. PICK x : x = [kind |-> "entry", name |-> n, val |-> Torn]
      OBVIOUS
    <3>4. x \in Line /\ x.kind # "section" /\ x.val = Torn
      BY <3>3 DEF Line, Values
    <3> QED
      BY <3>2, <3>3, <3>4 DEF Entry
  <2>2. /\ Len(p) = i /\ p[i] = x
        /\ \A j \in 1..(i - 1) : p[j] = lines[j] /\ p[j] \in Line
    BY <1>6, <1>8, <2>1
  <2>3. \A j \in 1..i : p[j] \in Line
    BY <2>0, <2>1, <2>2
  <2>4. (\A j \in 1..(i - 1) : AboutLine(p, j, d)) \/ NoSection(p, i - 1)
    BY <1>3, <2>0, <2>2
  <2>5. /\ Len(p) \in Nat /\ \A j \in 1..Len(p) : p[j] \in Line
        /\ i - 1 \in 0..Len(p) /\ i - 1 = Len(p) - 1
        /\ p[Len(p)].kind # "section" /\ p[Len(p)].val = Torn
    BY <2>0, <2>1, <2>2, <2>3
  <2>6. ~Continued(x)
    BY <2>1 DEF Continued, Is
  <2>7. \A j \in 1..(i - 1) : j \in 1..Len(lines)
    BY <1>0
  <2>8. \A j \in 1..Len(p) : p[j] \in AnyLine /\ ~Continued(p[j])
    BY <1>9, <2>0, <2>2, <2>3, <2>6, <2>7 DEF AnyLine
  <2>9. iniparser_load(p) = LoadLines(p)
    BY <2>5, <2>8, Direct
  <2> QED
    BY <2>4, <2>5, <2>9, LoadedStart
<1> QED
  BY <1>4, <1>5, <1>7, <1>8

-----------------------------------------------------------------------------
(* The values that are read have no quotes, no backslash and no line break *)
(* in them: they can be written and read again.                            *)
LEMMA LoadedFits ==
  ASSUME NEW f, Len(f) \in Nat, \A i \in 1..Len(f) : f[i] \in Line
  PROVE  Fits(LoadLines(f))
<1>1. PICK h : Steps(f, h) /\ LoadLines(f) = h[Len(f)].d
  BY Loading
<1>2. PICK e : e = LoadLines(f)
  OBVIOUS
<1>3. Reads(f, h, e) /\ Holds(e)
  BY <1>1, <1>2, Found, Loaded
<1>4. ASSUME NEW v, NEW form \in {"continued", "spoiling"} PROVE ~Is(iniparser_line(v), form)
  <2>1. CASE v \in {Null, Torn}
    BY <2>1 DEF iniparser_line, Is
  <2>2. CASE v \notin {Null, Torn}
    BY <2>2 DEF iniparser_line, Is, Plain, Value
  <2> QED
    BY <2>1, <2>2
<1>5. \A form : ~Is(Null, form)
  BY DEF Is
<1>6. ASSUME NEW i \in Used(e), NEW form \in {"continued", "spoiling"} PROVE ~Is(e.val[i], form)
  <2>1. e.val[i] = Get(e, e.key[i]) /\ i \in Slots(e) /\ e.key[i] # Null
    BY <1>3, SlotHolds
  <2>2. Has(e, e.key[i])
    BY <2>1 DEF Has
  <2>3. PICK j \in 1..Len(f) : Get(e, e.key[i]) = LineVal(f, j)
    BY <1>3, <2>1, <2>2, Zenon DEF Reads
  <2> QED
    BY <1>4, <1>5, <2>1, <2>3 DEF LineVal
<1> QED
  BY <1>2, <1>6 DEF Fits, Straight

(* The lines as they are read are lines again.                             *)
LEMMA LogicalLines ==
  ASSUME NEW f \in Seq(AnyLine)
  PROVE  Logical(f) \in Seq(AnyLine)
<1>0. Len(f) \in Nat /\ \A i \in 1..Len(f) : f[i] \in AnyLine
  OBVIOUS
<1>1. ASSUME NEW i \in 1..Len(f) PROVE ReadAs(f, i) \in AnyLine
  <2>1. CASE ~Continued(f[i])
    BY <1>0, <2>1 DEF ReadAs
  <2>2. CASE Continued(f[i])
    <3>1. f[i].name \in Keys /\ f[i].val.text \in Int
      BY <1>0, <2>2 DEF AnyLine, Line, Broken, Continued, Is, Values
    <3>2. \A x \in Int : Plain(x) \in Values
      BY DEF Plain, Value, Values, Forms
    <3>3. Mingled \in Values
      BY <3>2 DEF Mingled
    <3>4. PICK v \in Values : ReadAs(f, i) = Entry(f[i].name, v)
      BY <2>2, <3>1, <3>2, <3>3 DEF ReadAs
    <3> QED
      BY <3>1, <3>4 DEF Entry, AnyLine, Line
  <2> QED
    BY <2>1, <2>2
<1> DEFINE all == [i \in 1..Len(f) |-> i]
           S == {i \in 1..Len(f) : ~Absorbed(f, i) /\ ~NeverEnds(f, i)}
           starts == Pick(all, S)
<1>2. all \in Seq(Nat)
  <2>1. all \in [1..Len(f) -> Nat]
    OBVIOUS
  <2> QED
    BY <1>0, <2>1
<1>3. starts \in Seq(Nat) /\ \A a \in 1..Len(starts) : starts[a] \in S
  <2> HIDE DEF all, S
  <2> QED
    BY <1>2, Picked
<1>4. CASE \A i \in 1..Len(f) : ~Continued(f[i])
  BY <1>4 DEF Logical
<1>5. CASE ~\A i \in 1..Len(f) : ~Continued(f[i])
  <2>1. Logical(f) = [j \in 1..Len(starts) |-> ReadAs(f, starts[j])]
    BY <1>5 DEF Logical
  <2>2. \A a \in 1..Len(starts) : starts[a] \in 1..Len(f)
    BY <1>3
  <2> HIDE DEF starts
  <2>3. Len(starts) \in Nat
    BY <1>3
  <2>4. [j \in 1..Len(starts) |-> ReadAs(f, starts[j])] \in [1..Len(starts) -> AnyLine]
    BY <1>1, <2>2
  <2> QED
    BY <2>1, <2>3, <2>4
<1> QED
  BY <1>4, <1>5

(* What iniparser_load makes of any file.                                  *)
LEMMA LoadedAny ==
  ASSUME NEW f, f = Absent \/ f \in Seq(AnyLine), ~Unreadable(f)
  PROVE  f \in Seq(AnyLine) /\ Holds(iniparser_load(f)) /\ Fits(iniparser_load(f))
<1>1. f \in Seq(AnyLine)
  BY DEF Unreadable
<1>2. PICK g \in Seq(AnyLine) : g = Logical(f)
  BY <1>1, LogicalLines
<1>3. Len(g) \in Nat /\ \A i \in 1..Len(g) : g[i] \in AnyLine
  OBVIOUS
<1>4. \A i \in 1..Len(g) : g[i] \in Line
  BY <1>2, <1>3 DEF AnyLine, Unreadable
<1>5. iniparser_load(f) = LoadLines(g)
  BY <1>2 DEF iniparser_load
<1> QED
  BY <1>1, <1>3, <1>4, <1>5, Loaded, LoadedFits

(* A second writer leaves lines, broken ones at worst.                     *)
LEMMA Overwritten ==
  ASSUME NEW new \in Seq(AnyLine), NEW old \in Seq(AnyLine), NEW f \in Overwrite(new, old)
  PROVE  f \in Seq(AnyLine)
<1>0. Len(new) \in Nat /\ Len(old) \in Nat
  OBVIOUS
<1>1. CASE Len(old) <= Len(new)
  BY <1>1 DEF Overwrite
<1>2. CASE ~(Len(old) <= Len(new))
  <2> DEFINE rest(m) == SubSeq(old, Len(new) + m, Len(old))
  <2>1. ASSUME NEW m \in {1, 2} PROVE rest(m) \in Seq(AnyLine)
    <3>1. Len(new) + m \in Int /\ Len(old) \in Int
      BY <1>0
    <3>2. \A i \in (Len(new) + m)..Len(old) : i \in 1..Len(old)
      BY <1>0
    <3>3. \A i \in (Len(new) + m)..Len(old) : old[i] \in AnyLine
      BY <3>2
    <3> QED
      BY <3>1, <3>3, SubSeqProperties, Zenon
  <2>2. <<Broken>> \in Seq(AnyLine)
    <3>1. PICK b \in AnyLine : b = Broken
      BY DEF AnyLine
    <3> QED
      BY <3>1
  <2>3. f \in {new \o rest(1), new \o <<Broken>> \o rest(2)}
    BY <1>2 DEF Overwrite
  <2>4. rest(1) \in Seq(AnyLine) /\ rest(2) \in Seq(AnyLine)
    BY <2>1
  <2>5. PICK r1 \in Seq(AnyLine) : r1 = rest(1)
    BY <2>4
  <2>6. PICK r2 \in Seq(AnyLine) : r2 = rest(2)
    BY <2>4
  <2>7. PICK b \in Seq(AnyLine) : b = <<Broken>>
    BY <2>2
  <2>8. new \o r1 \in Seq(AnyLine) /\ (new \o b) \o r2 \in Seq(AnyLine)
    OBVIOUS
  <2> QED
    BY <2>3, <2>5, <2>6, <2>7, <2>8
<1> QED
  BY <1>1, <1>2

(* So does a crash while lines are written.                                *)
LEMMA PartialLines ==
  ASSUME NEW lines \in Seq(AnyLine), NEW p \in Partial(lines)
  PROVE  p \in Seq(AnyLine)
<1> DEFINE Part(i) == SubSeq(lines, 1, i)
<1>0. Len(lines) \in Nat /\ \A i \in 1..Len(lines) : lines[i] \in AnyLine
  OBVIOUS
<1>1. ASSUME NEW i \in 0..Len(lines) PROVE Part(i) \in Seq(AnyLine)
  <2>1. 1 \in Int /\ i \in Int /\ \A j \in 1..i : j \in 1..Len(lines)
    BY <1>0
  <2>2. \A j \in 1..i : lines[j] \in AnyLine
    BY <1>0, <2>1
  <2> QED
    BY <2>1, <2>2, SubSeqProperties, Zenon
<1>2. \/ \E i \in 0..Len(lines) : p = Part(i)
      \/ \E i \in 1..Len(lines) : p = Append(Part(i - 1), Broken)
      \/ \E i \in 1..Len(lines) : lines[i].kind = "entry"
                                  /\ p = Append(Part(i - 1), Entry(lines[i].name, Torn))
  BY DEF Partial
<1>3. ASSUME NEW i \in 1..Len(lines), NEW x \in AnyLine, p = Append(Part(i - 1), x)
      PROVE  p \in Seq(AnyLine)
  <2>1. i - 1 \in 0..Len(lines)
    BY <1>0
  <2>2. PICK q \in Seq(AnyLine) : q = Part(i - 1)
    BY <1>1, <2>1
  <2>3. Append(q, x) \in Seq(AnyLine)
    OBVIOUS
  <2> QED
    BY <1>3, <2>2, <2>3
<1>4. Broken \in AnyLine
  BY DEF AnyLine
<1>5. ASSUME NEW i \in 1..Len(lines), lines[i].kind = "entry"
      PROVE  Entry(lines[i].name, Torn) \in AnyLine
  <2>1. lines[i] \in Line
    BY <1>0, <1>5 DEF AnyLine, Broken
  <2>2. lines[i].name \in Keys
    BY <1>5, <2>1 DEF Line
  <2> QED
    BY <2>2 DEF Entry, AnyLine, Line, Values
<1> HIDE DEF Part
<1> QED
  BY <1>1, <1>2, <1>3, <1>4, <1>5
=============================================================================
