------------------------------- MODULE LogText -------------------------------
(***************************************************************************)
(* A store's log as the text it is: one line per deed, its accession, its  *)
(* digest and a time between tabs.  A line is written by one write_all,    *)
(* which a full disk or a power loss may cut anywhere; the next line then  *)
(* goes right behind the stump.  Nobody repairs it, so every reader below  *)
(* meets glued lines.                                                      *)
(*                                                                         *)
(* The text is a sequence of characters: tab, newline, two digits for a    *)
(* time, two characters for a digest, and for an accession "deed-",        *)
(* "<kind>-" and its slug, so that each may be cut within.  A slug may     *)
(* hold all of these but the first two and the beginning of a digest: the  *)
(* beginning of one accession with another one behind it is an accession.  *)
(***************************************************************************)
EXTENDS Naturals, Sequences, SequencesExt

CONSTANT Slugs    \* Slugs[i]: the slug of deed i

Tab == 1
Newline == 2
Digits == {3, 4}
ShaMark == 5      \* "sha256:" and the first half of the digits
DeedMark == 6     \* "deed-"
KindMark == 7     \* "<kind>-", of a kind in lower case (no slug has "mailDraft-")
Name(i) == 10 + i

(* DeedId::mint *)
Accession(i) == <<DeedMark, KindMark>> \o Slugs[i]

(* DeedId::parse: a text is an accession. *)
IsAccession(id) ==
    /\ Len(id) >= 3 /\ id[1] = DeedMark /\ id[2] = KindMark
    /\ ToSet(id) \cap {Tab, Newline, ShaMark} = {}

ASSUME SlugAssumption ==
    /\ \A i \in DOMAIN Slugs : Slugs[i] \in Seq(Nat) /\ IsAccession(Accession(i))
    /\ \A i, j \in DOMAIN Slugs : Slugs[i] = Slugs[j] => i = j

DigestText(i) == <<ShaMark, Name(i)>>
Time == <<3, 4>>

Line(i) == Accession(i) \o <<Tab>> \o DigestText(i) \o <<Tab>> \o Time \o <<Newline>>

SplitAt(text, mark) ==
    LET Put(parts, c) ==
            IF c = mark THEN Append(parts, <<>>)
            ELSE Append(Front(parts), Append(Last(parts), c))
        split[n \in 0..Len(text)] ==
            IF n = 0 THEN << <<>> >> ELSE Put(split[n - 1], text[n])
    IN split[Len(text)]

(* str::lines, without the empty ones. *)
Lines(text) == SelectSeq(SplitAt(text, Newline), LAMBDA line : line # <<>>)

IsTime(field) == field # <<>> /\ ToSet(field) \subseteq Digits

(* Mutant of IsEntry: fields past the third are not refused. *)
IsEntryOrMore(line) ==
    LET fields == SplitAt(line, Tab) IN Len(fields) >= 3 /\ IsTime(Last(fields))

(* Entry::parse: three fields and a numeric time; the id is any text. *)
IsEntry(line) ==
    LET fields == SplitAt(line, Tab) IN Len(fields) = 3 /\ IsTime(fields[3])
ParseEntry(line) ==
    LET fields == SplitAt(line, Tab)
    IN [id |-> fields[1], digest |-> fields[2], time |-> fields[3]]

(* FsStore::log_entries: one line that is none fails it. *)
Readable(text) == \A i \in DOMAIN Lines(text) : IsEntry(Lines(text)[i])
LogEntries(text) == [i \in DOMAIN Lines(text) |-> ParseEntry(Lines(text)[i])]

(* logged_deed's reading: the accessions whose line has the digest.  A line *)
(* with less than two tabs, or a hit that is no entry, ends it with nothing *)
(* found; an entry whose id is no accession is passed over.                 *)
HitsIn(text, digest) ==
    LET lines == Lines(text)
        Fields(n) == SplitAt(lines[n], Tab)
        Hit(n) == Fields(n)[2] = digest
    IN IF \E n \in DOMAIN lines :
             Len(Fields(n)) < 3 \/ (Hit(n) /\ ~IsEntry(lines[n]))
       THEN {}
       ELSE {id \in {ParseEntry(lines[n]).id : n \in {n \in DOMAIN lines : Hit(n)}} :
                IsAccession(id)}
=============================================================================
