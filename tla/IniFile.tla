------------------------------- MODULE IniFile -------------------------------
(***************************************************************************)
(* The ini file of common/param/iniparser.c: how a dictionary is written   *)
(* to lines and read back, and what else can be in the file after a crash  *)
(* or a second writer.                                                     *)
(*                                                                         *)
(* A key is <<section>> or <<section, entry>>. A value is a text and a     *)
(* form, what the file format makes of it:                                 *)
(*   "plain"      it is read as it was written                             *)
(*   "trimmed"    there are quotes or blanks around the text, or a ';' or  *)
(*                '#' and more behind it, which are not read back          *)
(*   "continued"  it ends in a backslash, so the next line belongs to it   *)
(*   "spoiling"   its line is longer than ASCIILINESZ, or it has a line    *)
(*                break and text behind it that does not parse: the whole  *)
(*                file is rejected                                         *)
(***************************************************************************)
EXTENDS Dictionary, Integers, Sequences

CONSTANT
  Torn           \* a value of which a crash left only a part in the file

(* The names of sections and entries; "" is the section of lines before    *)
(* the first section.                                                      *)
Words == {"", "sys", "num", "name", "clip", "x", "u0", "u1"}

Forms == {"plain", "trimmed", "continued", "spoiling"}
Value(t, f) == [text |-> t, form |-> f]
Plain(t) == Value(t, "plain")

ASSUME IniAssumption ==
  /\ Null \notin Seq(Words)      \* a null pointer is not a key
  /\ Null \notin [text : Int, form : Forms]
  /\ Torn \notin [text : Int, form : Forms] \union {Null}

(* iniparser_getstring with a null default.                                *)
Get(d, k) == dictionary_get(d, k, Null)

-----------------------------------------------------------------------------
(* The file: a line is a section, an entry, or text that does not parse.   *)
Absent == <<[kind |-> "absent", name |-> Null, val |-> Null]>>
Section(s) == [kind |-> "section", name |-> <<s>>, val |-> Null]
Entry(e, v) == [kind |-> "entry", name |-> e, val |-> v]
Broken == [kind |-> "broken", name |-> Null, val |-> Null]

(* iniparser_line: comments, quotes and blanks around it are not part of   *)
(* the value.                                                              *)
iniparser_line(v) == IF v \in {Null, Torn} THEN v ELSE Plain(v.text)

(* A value of the form.                                                    *)
Is(v, form) == v \notin {Null, Torn} /\ v.form = form

(* No value of d makes the next line a part of its own; and none makes the *)
(* file unreadable.                                                        *)
Straight(d) == \A i \in Used(d) : ~Is(d.val[i], "continued")
Fits(d) == Straight(d) /\ \A i \in Used(d) : ~Is(d.val[i], "spoiling")

(* The elements of s that are in S, in their order.                        *)
Pick(s, S) ==
  LET picked[i \in 0..Len(s)] ==
        IF i = 0 THEN <<>>
        ELSE IF s[i] \in S THEN Append(picked[i - 1], s[i]) ELSE picked[i - 1]
  IN  picked[Len(s)]

SectionSlots(d, slots) == Pick(slots, {i \in Used(d) : Len(d.key[i]) = 1})
EntrySlots(d, slots, s) ==
  Pick(slots, {i \in Used(d) : Len(d.key[i]) > 1 /\ d.key[i][1] = s})

(* iniparser_dumpsection_ini                                               *)
DumpSection(d, slots, s) ==
  LET of == EntrySlots(d, slots, s)
  IN  <<Section(s)>> \o [j \in 1..Len(of) |-> Entry(Tail(d.key[of[j]]), d.val[of[j]])]

(* Each section in the order of the slots with its entries; entries whose  *)
(* section is not in the dictionary are left out. Without any section all  *)
(* entries are written by their full names.                                *)
DumpSlots(d, slots) ==
  LET secs == SectionSlots(d, slots)
      all  == Pick(slots, Used(d))
      Upto[j \in 0..Len(secs)] ==
        IF j = 0 THEN <<>> ELSE Upto[j - 1] \o DumpSection(d, slots, d.key[secs[j]][1])
  IN  IF secs = <<>>
      THEN [j \in 1..Len(all) |-> Entry(d.key[all[j]], d.val[all[j]])]
      ELSE Upto[Len(secs)]

(* Variant: only the first n slots are written.                            *)
DumpFirstN(d) == DumpSlots(d, [i \in 1..d.n |-> i - 1])

iniparser_dump_ini(d) == DumpSlots(d, [i \in 1..d.size |-> i - 1])

LoadLine(acc, line) ==
  IF line.kind = "section"
  THEN [sec |-> line.name, d |-> dictionary_set(acc.d, line.name, Null)]
  ELSE [acc EXCEPT !.d = dictionary_set(@, acc.sec \o line.name, iniparser_line(line.val))]

Continued(line) == Is(line.val, "continued")

(* Line i is the rest of the line before it. In front of a section is an   *)
(* empty line, and one is behind the last section.                         *)
Absorbed(f, i) == i > 1 /\ Continued(f[i - 1]) /\ f[i].kind # "section"

(* Without any section nothing follows the last line, and if it wants to   *)
(* be continued the file ends before it is parsed.                         *)
NeverEnds(f, i) == f[1].kind # "section" /\ \A j \in i..Len(f) : Continued(f[j])

(* Line i with what is read as its value: the next line as well, or, when  *)
(* that is empty, the text without the backslash.                          *)
Mingled == Plain(-1)
ReadAs(f, i) ==
  IF ~Continued(f[i]) THEN f[i]
  ELSE Entry(f[i].name, IF i < Len(f) /\ f[i + 1].kind # "section" THEN Mingled
                        ELSE Plain(f[i].val.text))

(* The lines of a file as iniparser_line gets them.                        *)
Logical(f) ==
  LET starts == Pick([i \in 1..Len(f) |-> i],
                     {i \in 1..Len(f) : ~Absorbed(f, i) /\ ~NeverEnds(f, i)})
  IN  IF \A i \in 1..Len(f) : ~Continued(f[i]) THEN f
      ELSE [j \in 1..Len(starts) |-> ReadAs(f, starts[j])]

(* The file is missing, has a line that is too long, or one that does not  *)
(* parse.                                                                  *)
Unreadable(f) ==
  \/ f = Absent
  \/ \E i \in 1..Len(f) : Is(f[i].val, "spoiling")
  \/ \E i \in 1..Len(Logical(f)) : Logical(f)[i] = Broken

(* Each line in turn, into a new dictionary.                               *)
LoadLines(f) ==
  LET Upto[i \in 0..Len(f)] ==
        IF i = 0 THEN [sec |-> <<"">>, d |-> dictionary_new] ELSE LoadLine(Upto[i - 1], f[i])
  IN  Upto[Len(f)].d

iniparser_load(f) == IF Unreadable(f) THEN Null ELSE LoadLines(Logical(f))

(* What is in the file when new is written from its start and old, written *)
(* through another descriptor, was longer: the line where they meet is a   *)
(* whole one or not.                                                       *)
Overwrite(new, old) ==
  IF Len(old) <= Len(new) THEN {new}
  ELSE {new \o SubSeq(old, Len(new) + 1, Len(old)),
        new \o <<Broken>> \o SubSeq(old, Len(new) + 2, Len(old))}

(* What a crash leaves of lines that were being written.                   *)
Partial(lines) ==
  LET Upto(i) == SubSeq(lines, 1, i)
  IN  {Upto(i) : i \in 0..Len(lines)}
      \union {Append(Upto(i - 1), Broken) : i \in 1..Len(lines)}
      \union {Append(Upto(i - 1), Entry(lines[i].name, Torn)) :
                i \in {j \in 1..Len(lines) : lines[j].kind = "entry"}}
=============================================================================
