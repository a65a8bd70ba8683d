----------------------------- MODULE Dictionary -----------------------------
(***************************************************************************)
(* The dictionary of common/param/dictionary.c: parallel arrays of keys    *)
(* and values, Null in a free slot, searched from slot 0 on. The hash of a *)
(* key only shortens the comparison and is left out. A new key goes to the *)
(* first free slot at or after slot n, wrapping around, whatever was unset *)
(* before. Allocation failures are left out.                               *)
(***************************************************************************)
EXTENDS Naturals, FiniteSets

CONSTANTS
  Null,      \* the null pointer: no key, no value
  MinSize    \* DICTMINSZ

ASSUME DictionaryAssumption == MinSize \in Nat \ {0}

Slots(d) == 0..(d.size - 1)

dictionary_new ==
  [size |-> MinSize,
   n    |-> 0,
   key  |-> [i \in 0..(MinSize - 1) |-> Null],
   val  |-> [i \in 0..(MinSize - 1) |-> Null]]

Has(d, k) == \E i \in Slots(d) : d.key[i] = k
Find(d, k) == CHOOSE i \in Slots(d) : d.key[i] = k /\ \A j \in 0..(i - 1) : d.key[j] # k

dictionary_get(d, k, def) == IF Has(d, k) THEN d.val[Find(d, k)] ELSE def

dictionary_grow(d) ==
  LET Double(f) == [i \in 0..(2 * d.size - 1) |-> IF i < d.size THEN f[i] ELSE Null]
  IN  [d EXCEPT !.size = 2 * @, !.key = Double(@), !.val = Double(@)]

(* The first free slot of n, n + 1, ..., size - 1, 0, ..., n - 1.          *)
FreeSlot(d) ==
  LET From(i) == (i + d.size - d.n) % d.size
  IN  CHOOSE i \in Slots(d) :
        /\ d.key[i] = Null
        /\ \A j \in Slots(d) : d.key[j] = Null => From(i) <= From(j)

Insert(d, k, v) ==
  LET i == FreeSlot(d)
  IN  [d EXCEPT !.key[i] = k, !.val[i] = v, !.n = @ + 1]

(* Variant: a new key is put into slot n.                                  *)
SetAtN(d, k, v) ==
  IF d.n > 0 /\ Has(d, k)
  THEN [d EXCEPT !.val[Find(d, k)] = v]
  ELSE LET g == IF d.n = d.size THEN dictionary_grow(d) ELSE d
       IN  [g EXCEPT !.key[g.n] = k, !.val[g.n] = v, !.n = @ + 1]

dictionary_set(d, k, v) ==
  IF d.n > 0 /\ Has(d, k)
  THEN [d EXCEPT !.val[Find(d, k)] = v]
  ELSE Insert(IF d.n = d.size THEN dictionary_grow(d) ELSE d, k, v)

dictionary_unset(d, k) ==
  IF ~Has(d, k) THEN d
  ELSE LET i == Find(d, k)
       IN  [d EXCEPT !.key[i] = Null, !.val[i] = Null, !.n = @ - 1]

-----------------------------------------------------------------------------
Used(d) == {i \in Slots(d) : d.key[i] # Null}

IsDictionary(d) ==
  /\ d.size \in Nat \ {0}
  /\ d.n = Cardinality(Used(d))
  /\ \A i, j \in Used(d) : d.key[i] = d.key[j] => i = j
=============================================================================
